---------------------------- MODULE AccountAccess ----------------------------
(***************************************************************************)
(* How people get in: login, the sessions it opens, logout and revocation, *)
(* and the password reset.  src/modules/auth.js and admin/auth.js over     *)
(* credentialRepository.js, sessionRepository.js, middleware/authenticate.js,*)
(* services/passwordResetService.js and passwordResetRepository.js.        *)
(*                                                                         *)
(* Unlike the approval workflows nothing here runs in a transaction: every *)
(* statement goes through the pool and commits by itself, so a handler that*)
(* fails or dies leaves what it did so far.  One action is one statement   *)
(* with the code that follows it; hashing a password is an await too, but  *)
(* reads nothing, so the interleavings are the same without it.            *)
(*                                                                         *)
(* The token that request r issues and the session that request r opens    *)
(* have id r: a handler makes at most one of the two, and both carry a     *)
(* fresh random name.  A staff call takes the routes of admin/auth.js, a   *)
(* member's those of auth.js; StaffAccounts tells them apart.              *)
(***************************************************************************)
EXTENDS Integers, FiniteSets

CONSTANTS
    Requests,      \* requests that may arrive, each handled once
    Accounts,      \* rows of member_credentials and of users, one address each
    StaffAccounts, \* the ones of users
    Passwords,     \* what a person may type
    Weak,          \* the ones the policy refuses
    Opening,       \* password, status and failed attempts of each account at the start
    OpenSessions,  \* sessions open when the run begins: id -> account
    OpenLinks,     \* reset links delivered before the run begins: id -> account
    MaxFailed,     \* MAX_FAILED_LOGIN_ATTEMPTS
    MayExpire,     \* bound: the links and sessions that may expire in a run
    Calls,         \* the calls clients may make
    MaxInFlight,   \* bound: requests being handled at the same time
    None

SessionIds == Requests \cup DOMAIN OpenSessions
LinkIds == Requests \cup DOMAIN OpenLinks
Statuses == {"active", "pending_activation", "suspended", "inactive"}

\* A session row also has the version of the password its login compared with.
SessionRows == [account : Accounts, revoked : BOOLEAN, version : Nat]
LinkRows == [account : Accounts, used : BOOLEAN]
AccountRows == [password : Passwords, status : Statuses, failed : Nat]

\* An address nobody has is the account None, a made-up link the link None.
LoginCalls  == [op : {"login"}, account : Accounts \cup {None}, password : Passwords]
ForgotCalls == [op : {"forgot"}, account : Accounts \cup {None}]
ResetCalls  == [op : {"reset"}, link : LinkIds \cup {None}, password : Passwords]
OwnCalls    == [op : {"me", "logout", "logout_all"}, session : SessionIds]
DeviceCalls == [op : {"revoke"}, session : SessionIds, device : SessionIds]
AllCalls    == LoginCalls \cup ForgotCalls \cup ResetCalls \cup OwnCalls \cup DeviceCalls

ASSUME AccountAssumption ==
    /\ StaffAccounts \subseteq Accounts /\ Weak \subseteq Passwords
    /\ Opening \in [Accounts -> AccountRows]
    /\ \A a \in StaffAccounts : Opening[a].status # "pending_activation"
ASSUME SeedAssumption ==
    /\ OpenSessions \in [DOMAIN OpenSessions -> Accounts]
    /\ OpenLinks \in [DOMAIN OpenLinks -> Accounts]
    /\ Requests \cap (DOMAIN OpenSessions \cup DOMAIN OpenLinks) = {}
ASSUME BoundAssumption ==
    /\ IsFiniteSet(Requests) /\ Calls \subseteq AllCalls
    /\ MaxFailed \in Nat /\ MaxInFlight \in Nat /\ MayExpire \subseteq SessionIds \cup LinkIds
ASSUME NoneAssumption ==
    /\ None \notin LinkIds \cup Accounts \cup AllCalls
    /\ None \notin SessionRows /\ None \notin LinkRows

VARIABLES
    account,    \* committed rows: password, status, failed attempts
    links,      \* committed rows of password_reset_tokens, or None
    sessions,   \* committed rows of auth_sessions, or None
    audit,      \* the requests that left an audit record
    delivered,  \* reset links the transport has handed to their owner
    expired,    \* links and sessions whose time is over
    pc,         \* the statement each request's handler awaits next
    call,       \* the call the request carries
    answer,     \* what the client was told
    version,    \* history: how often the password of an account was changed
    seen,       \* history: the version a login compared with
    change,     \* history: the version a reset made, 0 for none
    stale,      \* history: what the client presented was dead when it arrived
    swept,      \* history: the rows in place when a handler swept its account's
    misses,     \* history: wrong passwords answered for since the counter was zeroed
    barred,     \* history: the logins that read an account which was to be locked
    unlocked    \* history: who zeroed a counter that had reached the limit

database == <<account, links, sessions, audit>>
lockout == <<misses, barred, unlocked>>
history == <<version, seen, change, stale, swept, lockout>>
vars == <<database, delivered, expired, pc, call, answer, history>>

Steps == {"idle", "credential", "failure", "session", "success",
          "principal", "outstanding", "issue", "deliver",
          "link", "claim", "password", "sweep", "log",
          "authenticate", "me", "logout", "logout_all", "revoke", "audit", "answer", "done"}
Answers == {"none", "ok", "unauthorized", "invalid", "not_found", "error", "lost"}

----------------------------------------------------------------------------
InFlight == {r \in Requests : pc[r] \notin {"idle", "done"}}
Holds(c) == c.op \in {"me", "logout", "logout_all", "revoke"}

\* (Names that end in _slip are plausible mistakes in the code a definition
\* models: each one shows which property would notice it.)

\* The links of an account not used yet, and its sessions not revoked.
Outstanding(a) == {k \in LinkIds : links[k] # None /\ links[k].account = a /\ ~links[k].used}
Open(a) == {s \in SessionIds : sessions[s] # None /\ sessions[s].account = a
                               /\ ~sessions[s].revoked}

Revoke(S) == sessions' = [s \in SessionIds |->
                            IF s \in S THEN [sessions[s] EXCEPT !.revoked = TRUE]
                                       ELSE sessions[s]]
Use(K) == links' = [k \in LinkIds |->
                      IF k \in K THEN [links[k] EXCEPT !.used = TRUE] ELSE links[k]]

\* The sessions whose JWT its owner was given.
Held == DOMAIN OpenSessions
        \cup {r \in Requests : answer[r] = "ok" /\ call[r].op = "login"}

Caller(r) == sessions[call[r].session].account
Owner(r) == links[call[r].link].account

Init ==
    /\ account = Opening
    /\ links = [k \in LinkIds |-> IF k \in DOMAIN OpenLinks
                                  THEN [account |-> OpenLinks[k], used |-> FALSE] ELSE None]
    /\ sessions = [s \in SessionIds |->
         IF s \in DOMAIN OpenSessions
         THEN [account |-> OpenSessions[s], revoked |-> FALSE, version |-> 0] ELSE None]
    /\ audit = {} /\ delivered = DOMAIN OpenLinks /\ expired = {}
    /\ pc = [r \in Requests |-> "idle"]
    /\ call = [r \in Requests |-> None]
    /\ answer = [r \in Requests |-> "none"]
    /\ version = [a \in Accounts |-> 0]
    /\ seen = [r \in Requests |-> 0]
    /\ change = [r \in Requests |-> 0]
    /\ stale = [r \in Requests |-> FALSE]
    /\ swept = [r \in Requests |-> {}]
    /\ misses = [a \in Accounts |-> Opening[a].failed] /\ barred = {}
    /\ unlocked = {}

----------------------------------------------------------------------------
Goto(r, step) == pc' = [pc EXCEPT ![r] = step] /\ UNCHANGED answer
Reply(r, a) == /\ pc' = [pc EXCEPT ![r] = "done"]
               /\ answer' = [answer EXCEPT ![r] = a]
\* A statement took effect; its result may get lost on the way back.
Then(r, step) == Goto(r, step) \/ Reply(r, "error")
\* The last one did: the answer is still to be sent, and may never be.
Finish(r) == Then(r, "answer")

Refuse(r, a) == Reply(r, a) /\ UNCHANGED database
Outside == UNCHANGED <<delivered, expired, call>>

\* A client presents a link it received or a JWT it holds, or makes a link up;
\* a device is one of the rows.
Presentable(c) ==
    /\ c.op = "reset" => c.link \in delivered \cup {None}
    /\ Holds(c) => c.session \in Held
    /\ c.op = "revoke" => sessions[c.device] # None

Dead(c) ==
    \/ c.op = "reset" /\ c.link # None /\ (c.link \in expired \/ links[c.link].used)
    \/ Holds(c) /\ (c.session \in expired \/ sessions[c.session].revoked)

\* Decided before the first statement: verifyToken refuses a JWT past its time
\* or of the other scope (staff have no list of devices), and consumeReset a
\* password against the policy.
BadToken(c) == Holds(c) /\ \/ c.session \in expired
                           \/ /\ c.op \in {"logout_all", "revoke"}
                              /\ sessions[c.session].account \in StaffAccounts
BadPassword(c) == c.op = "reset" /\ c.password \in Weak

FirstStep(c) == CASE c.op = "login"  -> "credential"
                  [] c.op = "forgot" -> "principal"
                  [] c.op = "reset"  -> "link"
                  [] OTHER           -> "authenticate"

Arrive(r) ==
    /\ pc[r] = "idle"
    /\ Cardinality(InFlight) < MaxInFlight
    /\ \E c \in Calls :
        /\ Presentable(c)
        /\ call' = [call EXCEPT ![r] = c]
        /\ stale' = [stale EXCEPT ![r] = Dead(c)]
        /\ \/ BadToken(c) /\ Reply(r, "unauthorized")
           \/ BadPassword(c) /\ Reply(r, "invalid")
           \/ ~BadToken(c) /\ ~BadPassword(c) /\ Goto(r, FirstStep(c))
    /\ UNCHANGED <<database, delivered, expired, version, seen, change, swept, lockout>>

\* Time passes: a link or a JWT is no longer accepted.
Expire(x) ==
    /\ x \in MayExpire \ expired
    /\ \/ x \in LinkIds /\ links[x] # None
       \/ x \in SessionIds /\ sessions[x] # None
    /\ expired' = expired \cup {x}
    /\ UNCHANGED <<database, delivered, pc, call, answer, history>>

----------------------------------------------------------------------------
(* POST /auth/login, POST /admin/auth/login                               *)

\* One failure more than the limit says.
MayEnter_slip(row) == row.status \in {"active", "pending_activation"} /\ row.failed <= MaxFailed

\* A staff user must be active; a member may also be about to activate.  A
\* locked account is refused whatever the password.
MayEnter(row) == row.status \in {"active", "pending_activation"} /\ row.failed < MaxFailed

\* The row is read once and compared with what was typed.
FindCredential(r) ==
    /\ pc[r] = "credential"
    /\ LET a == call[r].account IN
       \/ a = None /\ Reply(r, "unauthorized") /\ UNCHANGED <<seen, barred>>
       \/ /\ a # None
          /\ seen' = [seen EXCEPT ![r] = version[a]]
          /\ barred' = IF misses[a] >= MaxFailed THEN barred \cup {r} ELSE barred
          /\ \/ account[a].password # call[r].password /\ Goto(r, "failure")
             \/ /\ account[a].password = call[r].password
                /\ ~MayEnter(account[a]) /\ Reply(r, "unauthorized")
             \/ /\ account[a].password = call[r].password
                /\ MayEnter(account[a]) /\ Goto(r, "session")
    /\ Outside /\ UNCHANGED <<database, version, change, stale, swept, misses, unlocked>>

\* The counter of a is set to zero; a locked account is open again.
Unlock(r, a) ==
    /\ misses' = [misses EXCEPT ![a] = 0]
    /\ unlocked' = IF account[a].failed >= MaxFailed THEN unlocked \cup {r} ELSE unlocked
    /\ UNCHANGED barred

\* The database adds to what is there.
RecordFailure(r) ==
    /\ pc[r] = "failure"
    /\ account' = [account EXCEPT ![call[r].account].failed = @ + 1]
    /\ misses' = [misses EXCEPT ![call[r].account] = @ + 1]
    /\ \E a \in {"unauthorized", "error"} : Reply(r, a)
    /\ Outside
    /\ UNCHANGED <<links, sessions, audit, version, seen, change, stale, swept, barred, unlocked>>

\* (The member's profile is read first: it never changes what follows.)
CreateSession(r) ==
    /\ pc[r] = "session"
    /\ sessions' = [sessions EXCEPT ![r] =
         [account |-> call[r].account, revoked |-> FALSE, version |-> seen[r]]]
    /\ Then(r, "success")
    /\ Outside /\ UNCHANGED <<account, links, audit, history>>

RecordSuccess(r) ==
    /\ pc[r] = "success"
    /\ LET row == account[call[r].account] IN
       account' = [account EXCEPT ![call[r].account] =
         [password |-> row.password, failed |-> 0,
          status |-> IF row.status = "pending_activation" THEN "active" ELSE row.status]]
    /\ Unlock(r, call[r].account)
    /\ Finish(r)
    /\ Outside /\ UNCHANGED <<links, sessions, audit, version, seen, change, stale, swept>>

(* POST /auth/forgot-password, POST /admin/auth/forgot-password            *)

\* The answer is the same whether the address exists or not.
FindPrincipal(r) ==
    /\ pc[r] = "principal"
    /\ LET a == call[r].account
           known == a # None /\ account[a].status \in {"active", "pending_activation"} IN
       \/ known /\ Goto(r, "outstanding")
       \/ ~known /\ Reply(r, "ok")
    /\ Outside /\ UNCHANGED <<database, history>>

\* Only links that expired anyway are burnt.
InvalidateOutstanding_slip(r) ==
    /\ pc[r] = "outstanding"
    /\ Use(Outstanding(call[r].account) \cap expired)
    /\ swept' = [swept EXCEPT ![r] = {k \in LinkIds : links[k] # None}]
    /\ Then(r, "issue")
    /\ Outside /\ UNCHANGED <<account, sessions, audit, version, seen, change, stale, lockout>>

InvalidateOutstanding(r) ==
    /\ pc[r] = "outstanding"
    /\ Use(Outstanding(call[r].account))
    /\ swept' = [swept EXCEPT ![r] = {k \in LinkIds : links[k] # None}]
    /\ Then(r, "issue")
    /\ Outside /\ UNCHANGED <<account, sessions, audit, version, seen, change, stale, lockout>>

IssueLink(r) ==
    /\ pc[r] = "issue"
    /\ links' = [links EXCEPT ![r] = [account |-> call[r].account, used |-> FALSE]]
    /\ Then(r, "deliver")
    /\ Outside /\ UNCHANGED <<account, sessions, audit, history>>

\* A transport that fails does not fail the request (and may have delivered).
Deliver(r) ==
    /\ pc[r] = "deliver"
    /\ delivered' \in {delivered, delivered \cup {r}}
    /\ Goto(r, "answer")
    /\ UNCHANGED <<database, expired, call, history>>

(* POST /auth/reset-password, POST /admin/auth/reset-password              *)

Usable(k) == k # None /\ ~links[k].used /\ k \notin expired

FindLink(r) ==
    /\ pc[r] = "link"
    /\ \/ Usable(call[r].link) /\ Goto(r, "claim")
       \/ ~Usable(call[r].link) /\ Reply(r, "invalid")
    /\ Outside /\ UNCHANGED <<database, history>>

\* A read-then-write check: the number of rows changed is not looked at.
MarkUsed_slip(r) ==
    /\ pc[r] = "claim"
    /\ Use({call[r].link}) /\ Then(r, "password")
    /\ Outside /\ UNCHANGED <<account, sessions, audit, history>>

\* The conditional update: whoever changes no row is refused.
MarkUsed(r) ==
    /\ pc[r] = "claim"
    /\ \/ ~links[call[r].link].used /\ Use({call[r].link}) /\ Then(r, "password")
       \/ links[call[r].link].used /\ Reply(r, "invalid") /\ UNCHANGED links
    /\ Outside /\ UNCHANGED <<account, sessions, audit, history>>

\* The statement is not awaited: the handler goes on when it fails.
SetPassword_slip(r) ==
    /\ pc[r] = "password"
    /\ \/ /\ account' = [account EXCEPT ![Owner(r)] =
               [password |-> call[r].password, status |-> "active", failed |-> 0]]
          /\ version' = [version EXCEPT ![Owner(r)] = @ + 1]
          /\ Unlock(r, Owner(r))
          /\ change' = [change EXCEPT ![r] = version[Owner(r)] + 1]
       \/ UNCHANGED <<account, version, change, lockout>>
    /\ Goto(r, "sweep")
    /\ Outside /\ UNCHANGED <<links, sessions, audit, seen, stale, swept>>

SetPassword(r) ==
    /\ pc[r] = "password"
    /\ account' = [account EXCEPT ![Owner(r)] =
         [password |-> call[r].password, status |-> "active", failed |-> 0]]
    /\ version' = [version EXCEPT ![Owner(r)] = @ + 1]
    /\ Unlock(r, Owner(r))
    /\ change' = [change EXCEPT ![r] = version[Owner(r)] + 1]
    /\ Then(r, "sweep")
    /\ Outside /\ UNCHANGED <<links, sessions, audit, seen, stale, swept>>

\* The type of the principal is taken to be "member".
RevokeSessions_slip(r) ==
    /\ pc[r] = "sweep"
    /\ Revoke(IF Owner(r) \in StaffAccounts THEN {} ELSE Open(Owner(r)))
    /\ swept' = [swept EXCEPT ![r] = {s \in SessionIds : sessions[s] # None}]
    /\ Then(r, "log")
    /\ Outside /\ UNCHANGED <<account, links, audit, version, seen, change, stale, lockout>>

RevokeSessions(r) ==
    /\ pc[r] = "sweep"
    /\ Revoke(Open(Owner(r)))
    /\ swept' = [swept EXCEPT ![r] = {s \in SessionIds : sessions[s] # None}]
    /\ Then(r, "log")
    /\ Outside /\ UNCHANGED <<account, links, audit, version, seen, change, stale, lockout>>

\* A failure to audit is swallowed: the password has changed.
RecordReset(r) ==
    /\ pc[r] = "log"
    /\ audit' \in {audit, audit \cup {r}}
    /\ Goto(r, "answer")
    /\ Outside /\ UNCHANGED <<account, links, sessions, history>>

----------------------------------------------------------------------------
(* What a session is good for                                             *)

Authenticate(r) ==
    /\ pc[r] = "authenticate"
    /\ LET row == sessions[call[r].session] IN
       \/ row.revoked /\ Reply(r, "unauthorized")
       \/ ~row.revoked /\ Goto(r, call[r].op)
    /\ Outside /\ UNCHANGED <<database, history>>

\* Any protected route that only reads: GET /auth/me, /auth/sessions.
Serve(r) ==
    /\ pc[r] = "me"
    /\ Reply(r, "ok")
    /\ Outside /\ UNCHANGED <<database, history>>

\* Staff leave an audit record, members do not.
Logout(r) ==
    /\ pc[r] = "logout"
    /\ Revoke({call[r].session} \cap Open(Caller(r)))
    /\ \/ Caller(r) \in StaffAccounts /\ Then(r, "audit")
       \/ Caller(r) \notin StaffAccounts /\ Finish(r)
    /\ Outside /\ UNCHANGED <<account, links, audit, history>>

\* The session that asks keeps going.
LogoutAll_slip(r) ==
    /\ pc[r] = "logout_all"
    /\ Revoke(Open(Caller(r)) \ {call[r].session})
    /\ swept' = [swept EXCEPT ![r] = {s \in SessionIds : sessions[s] # None}]
    /\ Then(r, "audit")
    /\ Outside /\ UNCHANGED <<account, links, audit, version, seen, change, stale, lockout>>

LogoutAll(r) ==
    /\ pc[r] = "logout_all"
    /\ Revoke(Open(Caller(r)))
    /\ swept' = [swept EXCEPT ![r] = {s \in SessionIds : sessions[s] # None}]
    /\ Then(r, "audit")
    /\ Outside /\ UNCHANGED <<account, links, audit, version, seen, change, stale, lockout>>

\* One UPDATE: the caller's own, not yet revoked, or nothing.
RevokeDevice(r) ==
    /\ pc[r] = "revoke"
    /\ \/ /\ call[r].device \in Open(Caller(r))
          /\ Revoke({call[r].device}) /\ Then(r, "audit")
       \/ /\ call[r].device \notin Open(Caller(r))
          /\ Reply(r, "not_found") /\ UNCHANGED sessions
    /\ Outside /\ UNCHANGED <<account, links, audit, history>>

\* As the reset does it: a failure to audit is swallowed.
AuditRevocation_slip(r) ==
    /\ pc[r] = "audit"
    /\ audit' \in {audit, audit \cup {r}}
    /\ Finish(r)
    /\ Outside /\ UNCHANGED <<account, links, sessions, history>>

AuditRevocation(r) ==
    /\ pc[r] = "audit"
    /\ audit' = audit \cup {r}
    /\ Finish(r)
    /\ Outside /\ UNCHANGED <<account, links, sessions, history>>

\* The handler heard of its last statement and has only the answer to send.
Answer(r) ==
    /\ pc[r] = "answer"
    /\ Reply(r, "ok")
    /\ Outside /\ UNCHANGED <<database, history>>

----------------------------------------------------------------------------
\* A statement fails and the handler throws: what was done before it stays.
Fail(r) ==
    /\ pc[r] \notin {"idle", "done", "deliver", "log", "answer"}
    /\ Refuse(r, "error")
    /\ Outside /\ UNCHANGED history

\* The process dies with everything it was handling.
Crash ==
    /\ InFlight # {}
    /\ pc' = [r \in Requests |-> IF r \in InFlight THEN "done" ELSE pc[r]]
    /\ answer' = [r \in Requests |-> IF r \in InFlight THEN "lost" ELSE answer[r]]
    /\ Outside /\ UNCHANGED <<database, history>>

Statement(r) ==
    \/ FindCredential(r) \/ RecordFailure(r) \/ CreateSession(r) \/ RecordSuccess(r)
    \/ FindPrincipal(r) \/ InvalidateOutstanding(r) \/ IssueLink(r) \/ Deliver(r)
    \/ FindLink(r) \/ MarkUsed(r) \/ SetPassword(r) \/ RevokeSessions(r) \/ RecordReset(r)
    \/ Authenticate(r) \/ Serve(r) \/ Logout(r) \/ LogoutAll(r) \/ RevokeDevice(r)
    \/ AuditRevocation(r) \/ Answer(r)

Finished == \A r \in Requests : pc[r] = "done"

Next ==
    \/ \E r \in Requests : Arrive(r) \/ Statement(r) \/ Fail(r)
    \/ \E x \in MayExpire : Expire(x)
    \/ Crash
    \/ Finished /\ UNCHANGED vars

Spec == Init /\ [][Next]_vars

----------------------------------------------------------------------------
TypeOK ==
    /\ account \in [Accounts -> AccountRows]
    /\ links \in [LinkIds -> LinkRows \cup {None}]
    /\ sessions \in [SessionIds -> SessionRows \cup {None}]
    /\ audit \subseteq Requests
    /\ delivered \subseteq LinkIds /\ expired \subseteq MayExpire
    /\ pc \in [Requests -> Steps]
    /\ call \in [Requests -> Calls \cup {None}]
    /\ answer \in [Requests -> Answers]
    /\ version \in [Accounts -> Nat]
    /\ seen \in [Requests -> Nat] /\ change \in [Requests -> Nat]
    /\ stale \in [Requests -> BOOLEAN]
    /\ swept \in [Requests -> SUBSET (SessionIds \cup LinkIds)]
    /\ misses \in [Accounts -> Nat] /\ barred \subseteq Requests
    /\ unlocked \subseteq Requests

Resets == {r \in Requests : change[r] > 0}

\* One link changes a password once, however many clicks race, and a link that
\* was used, burnt or past its time when it was clicked changes nothing
\* (passwordResetService.js:12-19).
LinkWorksOnce ==
    /\ TypeOK
    /\ \A r, s \in Resets : call[r].link = call[s].link => r = s
    /\ \A r \in Resets : ~stale[r]

\* A reset that leaves an audit record, or says "ok", did all of it: the
\* password is the new one, the link is burnt and the sessions were swept.  Who
\* is told "invalid" changed nothing: nobody whose password changed is sent
\* round again with a burnt link as if it had not (passwordResetService.js:132-134).
AnswerTellsReset ==
    \A r \in Requests :
        (call[r] # None /\ call[r].op = "reset") =>
            /\ answer[r] = "ok" \/ r \in audit =>
                  /\ change[r] > 0 /\ links[call[r].link].used
                  /\ DOMAIN OpenSessions \subseteq swept[r]
            /\ answer[r] = "invalid" => r \notin Resets

\* No link is burnt for nothing: a newer one was asked for, or the click that
\* claimed it changed the password, is about to, or was cut off in between, and
\* then its client was told of an error, or nothing (passwordResetService.js:113-122).
BurntBy(r, k) ==
    /\ call[r] # None
    /\ \/ /\ call[r].op = "forgot" /\ k \in swept[r]
          /\ links[k].account = call[r].account
       \/ /\ call[r].op = "reset" /\ call[r].link = k
          /\ r \in Resets \/ pc[r] = "password" \/ answer[r] \in {"error", "lost"}
BurntForAReason ==
    \A k \in LinkIds : links[k] # None /\ links[k].used => \E r \in Requests : BurntBy(r, k)
ResetIsAccounted == AnswerTellsReset /\ BurntForAReason

\* A session older than a completed reset is open only if its login was still
\* on its way when the reset swept the account.
SurvivorWasInFlight ==
    \A r \in Requests : (r \in Resets /\ answer[r] = "ok") =>
        \A s \in Open(Owner(r)) : sessions[s].version < change[r] => s \notin swept[r]

\* Two links of one account work at a time only if neither was there when the
\* request of the other burnt what it found: both were being issued at once.
TwoLinksNeedOverlap ==
    \A a \in Accounts : \A j, k \in Outstanding(a) \cap Requests :
        j # k => k \notin swept[j]

\* Once a revocation is over, the session it took never opens a door again, and
\* whoever was told "Signed out." is: the session, the device, or every session
\* that was there is revoked (architecture.md:295-298).
DeadSessionStaysDead ==
    \A r \in Requests : (call[r] # None /\ Holds(call[r]) /\ stale[r]) =>
        answer[r] \in {"none", "unauthorized", "error", "lost"}

SignedOutMeansSo ==
    \A r \in Requests : (call[r] # None /\ Holds(call[r]) /\ answer[r] = "ok") =>
        CASE call[r].op = "logout"     -> sessions[call[r].session].revoked
          [] call[r].op = "revoke"     -> sessions[call[r].device].revoked
          [] call[r].op = "logout_all" -> /\ call[r].session \in swept[r]
                                          /\ Open(Caller(r)) \cap swept[r] = {}
          [] OTHER                     -> TRUE
SignOutHolds == DeadSessionStaysDead /\ SignedOutMeansSo

\* The limit counts every wrong password since the counter was last zeroed, the
\* ones answered at the same moment too: a login that reads the account after
\* MaxFailed of them opens no session (auth.js:86-88, credentialRepository.js:51-59).
\* And a counter that reached the limit is zeroed only by a reset, or by a login
\* that read the account before and was still on its way.
LockoutCountsEveryFailure ==
    /\ \A r \in barred : sessions[r] = None
    /\ \A r \in unlocked : call[r].op = "login" => r \notin barred

\* The audit trail of sign-outs errs on one side only.  A record tells of
\* sessions that are closed, whatever its caller was answered; a sign-out that
\* leaves a record and says "ok" has one; without one the caller was told of an
\* error, or nothing (architecture.md:425-431 wants both or neither).
Recorded(r) == call[r].op \in {"logout_all", "revoke"} \/ Caller(r) \in StaffAccounts
Closed(r) == CASE call[r].op = "logout" -> {call[r].session}
               [] call[r].op = "revoke" -> {call[r].device}
               [] OTHER                 -> {s \in swept[r] : sessions[s].account = Caller(r)}
AuditFollowsSignOut ==
    \A r \in Requests :
        (call[r] # None /\ call[r].op \in {"logout", "logout_all", "revoke"}) =>
            /\ r \in audit => Closed(r) \cap Open(Caller(r)) = {}
            /\ answer[r] = "ok" /\ Recorded(r) => r \in audit

\* A completed reset leaves no older session open (architecture.md:264-265,
\* passwordResetService.js:29-31).
SessionsDieWithPassword ==
    \A r \in Requests : (r \in Resets /\ answer[r] = "ok") =>
        \A s \in Open(Owner(r)) : sessions[s].version >= change[r]
=============================================================================
