------------------------- MODULE AccountAccess_proofs -------------------------
(***************************************************************************)
(* Proofs about logins, sessions and password resets, for any requests,    *)
(* accounts, sessions and links, and whatever limit of failed logins.      *)
(*                                                                         *)
(* Nothing is in a transaction, so the argument is about each request by   *)
(* itself: what it has done stays done, because the tables only grow (a    *)
(* row keeps its account, and is never used or revoked and then not).      *)
(***************************************************************************)
EXTENDS AccountAccess, TLAPS

\* A handler awaits only statements of the operation it was called for, with
\* what they need.
Control(r) ==
    /\ pc[r] = "idle" <=> call[r] = None
    /\ pc[r] = "idle" => swept[r] = {}
    /\ r \in audit => pc[r] \in {"answer", "done"}
    /\ pc[r] = "done" <=> answer[r] # "none"
    /\ pc[r] \in {"credential", "failure", "session", "success"} => call[r].op = "login"
    /\ pc[r] \in {"principal", "outstanding", "issue", "deliver"} => call[r].op = "forgot"
    /\ pc[r] \in {"failure", "session", "success", "outstanding", "issue", "deliver"}
         => call[r].account # None
    /\ pc[r] \in {"link", "claim", "password", "sweep", "log"} => call[r].op = "reset"
    /\ pc[r] \in {"claim", "password", "sweep", "log"} => call[r].link # None
    /\ pc[r] = "authenticate" => Holds(call[r])
    /\ pc[r] \in {"me", "logout", "logout_all", "revoke"} => call[r].op = pc[r]
    /\ pc[r] = "audit" => call[r].op \in {"logout", "logout_all", "revoke"}
    /\ pc[r] = "answer" => call[r].op # "me"

\* What a client presented is a row.
Presented(r) ==
    call[r] # None =>
        /\ call[r].op = "reset" /\ call[r].link # None => links[call[r].link] # None
        /\ Holds(call[r]) => sessions[call[r].session] # None
        /\ call[r].op = "revoke" => sessions[call[r].device] # None

\* The rows a handler has made, and the one a barred login has not.
Made(r) ==
    /\ links[r] # None => /\ call[r] # None /\ call[r].op = "forgot"
                          /\ pc[r] \in {"deliver", "answer", "done"}
                          /\ links[r].account = call[r].account
    /\ sessions[r] # None => pc[r] \in {"success", "answer", "done"}
    /\ pc[r] = "deliver" => links[r] # None
    /\ pc[r] = "success" => sessions[r] # None
    /\ pc[r] = "answer" \/ answer[r] = "ok" => (call[r].op = "login" => sessions[r] # None)
    /\ r \in barred => pc[r] \in {"failure", "done"} /\ sessions[r] = None
    /\ r \in unlocked => /\ call[r] # None /\ pc[r] \in {"sweep", "log", "answer", "done"}
                         /\ call[r].op = "login" => r \notin barred

\* The sessions a sweep found are closed, all those of this account.
SweptOf(r, a) ==
    \A s \in swept[r] : /\ s \in SessionIds /\ sessions[s] # None
                        /\ sessions[s].account = a => sessions[s].revoked

\* A reset that got past its claim burnt the link, which had been good when it
\* was presented; a reset that got past its sweep closed what it found.
Claimed(r) == pc[r] \in {"password", "sweep", "log"} \/ change[r] > 0
ResetSoFar(r) ==
    /\ change[r] > 0 => /\ call[r] # None /\ call[r].op = "reset" /\ call[r].link # None
                        /\ pc[r] \in {"sweep", "log", "answer", "done"}
                        /\ answer[r] # "invalid"
    /\ pc[r] \in {"sweep", "log"} => change[r] > 0
    /\ Claimed(r) => links[call[r].link].used
    /\ Claimed(r) \/ pc[r] = "claim" => ~stale[r]
    /\ call[r] # None /\ call[r].op = "reset" =>
        /\ stale[r] => /\ call[r].link # None
                       /\ call[r].link \in expired \/ links[call[r].link].used
        /\ pc[r] \in {"log", "answer"} \/ r \in audit \/ answer[r] = "ok" =>
             /\ change[r] > 0
             /\ DOMAIN OpenSessions \subseteq swept[r] /\ SweptOf(r, Owner(r))

\* The links a request for a new one found are burnt.
BurntSoFar(r) ==
    call[r] # None /\ call[r].op = "forgot" =>
        \A k \in swept[r] : /\ k \in LinkIds /\ links[k] # None
                            /\ links[k].account = call[r].account => links[k].used

\* A dead session got no further than the check; a sign-out that got as far as
\* its record closed what it was to close.
SignOutSoFar(r) ==
    call[r] # None /\ Holds(call[r]) =>
        /\ stale[r] => /\ pc[r] \in {"authenticate", "done"}
                       /\ answer[r] \in {"none", "unauthorized", "error", "lost"}
                       /\ pc[r] = "authenticate" => sessions[call[r].session].revoked
        /\ (pc[r] \in {"audit", "answer"} \/ r \in audit \/ answer[r] = "ok") =>
             /\ call[r].op = "logout" => sessions[call[r].session].revoked
             /\ call[r].op = "revoke" => sessions[call[r].device].revoked
             /\ call[r].op = "logout_all" => call[r].session \in swept[r]
                                             /\ SweptOf(r, Caller(r))
        /\ (pc[r] = "answer" \/ answer[r] = "ok") /\ call[r].op # "me" /\ Recorded(r)
             => r \in audit

Sound(r) == /\ Control(r) /\ Presented(r) /\ Made(r)
            /\ ResetSoFar(r) /\ BurntSoFar(r) /\ SignOutSoFar(r)

\* Of several clicks on a link, one gets past the claim.
OneClaim == \A r, s \in Requests :
    Claimed(r) /\ Claimed(s) /\ call[r].link = call[s].link => r = s

\* What a client holds is a row; the counter of an account is the failures it
\* was answered for.
Shared ==
    /\ \A k \in delivered : links[k] # None
    /\ \A s \in DOMAIN OpenSessions : sessions[s] # None
    /\ \A a \in Accounts : misses[a] = account[a].failed

Inv == TypeOK /\ (\A r \in Requests : Sound(r)) /\ OneClaim /\ Shared /\ BurntForAReason

-----------------------------------------------------------------------------
(* What the statements do to the tables.                                   *)

LEMMA CallFields ==
  ASSUME NEW c \in Calls
  PROVE  /\ c.op \in {"login", "forgot"} => c.account \in Accounts \cup {None}
         /\ c.op = "login" => c.password \in Passwords
         /\ c.op = "reset" => c.link \in LinkIds \cup {None} /\ c.password \in Passwords
         /\ Holds(c) => c.session \in SessionIds
         /\ c.op = "revoke" => c.device \in SessionIds
         /\ c.op \in {"login", "forgot", "reset", "me", "logout", "logout_all", "revoke"}
         /\ c # None
<1>1. c \in AllCalls /\ None \notin AllCalls
  BY BoundAssumption, NoneAssumption
<1> QED
  BY <1>1 DEF AllCalls, LoginCalls, ForgotCalls, ResetCalls, OwnCalls, DeviceCalls, Holds

\* A row is never taken back: it keeps its account, and stays used or revoked.
SessionsGrow ==
    \A s \in SessionIds : sessions[s] # None =>
        /\ sessions'[s] # None /\ sessions'[s].account = sessions[s].account
        /\ sessions[s].revoked => sessions'[s].revoked
LinksGrow ==
    \A k \in LinkIds : links[k] # None =>
        /\ links'[k] # None /\ links'[k].account = links[k].account
        /\ links[k].used => links'[k].used
Grow == SessionsGrow /\ LinksGrow /\ expired \subseteq expired'

\* UPDATE auth_sessions SET revoked_at: some rows are revoked.
LEMMA RevokeGrows ==
  ASSUME TypeOK, NEW S \in SUBSET SessionIds, \A s \in S : sessions[s] # None, Revoke(S)
  PROVE  /\ SessionsGrow
         /\ sessions' \in [SessionIds -> SessionRows \cup {None}]
         /\ \A s \in SessionIds : sessions[s] = None <=> sessions'[s] = None
         /\ \A s \in S : sessions'[s].revoked
<1>1. \A s \in SessionIds :
        sessions'[s] = IF s \in S THEN [sessions[s] EXCEPT !.revoked = TRUE] ELSE sessions[s]
  BY DEF Revoke
<1>2. \A s \in S : /\ sessions'[s] \in SessionRows
                   /\ sessions'[s].account = sessions[s].account /\ sessions'[s].revoked
  <2> TAKE s \in S
  <2>1. sessions[s] \in SessionRows
    BY DEF TypeOK
  <2>2. sessions'[s] = [sessions[s] EXCEPT !.revoked = TRUE]
    BY <1>1
  <2> QED
    BY <2>1, <2>2 DEF SessionRows
<1>3. \A s \in SessionIds \ S : sessions'[s] = sessions[s]
  BY <1>1
<1>4. sessions' = [s \in SessionIds |-> sessions'[s]]
  BY DEF Revoke
<1> QED
  BY <1>2, <1>3, <1>4, NoneAssumption DEF SessionsGrow, TypeOK

\* UPDATE password_reset_tokens SET used_at: some links are used.
LEMMA UseGrows ==
  ASSUME TypeOK, NEW K \in SUBSET LinkIds, \A k \in K : links[k] # None, Use(K)
  PROVE  /\ LinksGrow
         /\ links' \in [LinkIds -> LinkRows \cup {None}]
         /\ \A k \in LinkIds : links[k] = None <=> links'[k] = None
         /\ \A k \in K : links'[k].used
<1>1. \A k \in LinkIds :
        links'[k] = IF k \in K THEN [links[k] EXCEPT !.used = TRUE] ELSE links[k]
  BY DEF Use
<1>2. \A k \in K : /\ links'[k] \in LinkRows
                   /\ links'[k].account = links[k].account /\ links'[k].used
  <2> TAKE k \in K
  <2>1. links[k] \in LinkRows
    BY DEF TypeOK
  <2>2. links'[k] = [links[k] EXCEPT !.used = TRUE]
    BY <1>1
  <2> QED
    BY <2>1, <2>2 DEF LinkRows
<1>3. \A k \in LinkIds \ K : links'[k] = links[k]
  BY <1>1
<1>4. links' = [k \in LinkIds |-> links'[k]]
  BY DEF Use
<1> QED
  BY <1>2, <1>3, <1>4, NoneAssumption DEF LinksGrow, TypeOK

-----------------------------------------------------------------------------
(* What one request does is nothing to another.                            *)

\* Everything that is q's own stays as it is.
Untouched(q) ==
    /\ pc'[q] = pc[q] /\ call'[q] = call[q] /\ answer'[q] = answer[q]
    /\ change'[q] = change[q] /\ stale'[q] = stale[q] /\ swept'[q] = swept[q]
    /\ q \in audit' <=> q \in audit
    /\ q \in barred' <=> q \in barred
    /\ q \in unlocked' <=> q \in unlocked
    /\ links'[q] = None <=> links[q] = None
    /\ sessions'[q] = None <=> sessions[q] = None

LEMMA OthersKeep ==
  ASSUME TypeOK, NEW q \in Requests, Sound(q), Untouched(q), Grow
  PROVE  Sound(q)'
<1>1. /\ q \in SessionIds /\ q \in LinkIds
      /\ call[q] # None => call[q] \in Calls
      /\ swept[q] \subseteq SessionIds \cup LinkIds
  BY DEF TypeOK, SessionIds, LinkIds
<1>2. /\ call[q] # None /\ call[q].op = "reset" /\ call[q].link # None => call[q].link \in LinkIds
      /\ call[q] # None /\ Holds(call[q]) => call[q].session \in SessionIds
      /\ call[q] # None /\ call[q].op = "revoke" => call[q].device \in SessionIds
  BY <1>1, CallFields
<1>3. Control(q)'
  BY DEF Sound, Control, Untouched, Holds
<1>4. Presented(q)'
  BY <1>2 DEF Sound, Presented, Untouched, Grow, SessionsGrow, LinksGrow, Holds
<1>5. Made(q)'
  BY <1>1 DEF Sound, Made, Untouched, Grow, SessionsGrow, LinksGrow
<1>6. ResetSoFar(q)'
  BY <1>2 DEF Sound, Presented, Control, ResetSoFar, Claimed, SweptOf, Owner,
              Untouched, Grow, SessionsGrow, LinksGrow
<1>7. BurntSoFar(q)'
  BY <1>1 DEF Sound, BurntSoFar, Untouched, Grow, LinksGrow
<1>8. SignOutSoFar(q)'
  BY <1>2 DEF Sound, Presented, SignOutSoFar, SweptOf, Caller, Recorded, Holds,
              Untouched, Grow, SessionsGrow
<1> QED
  BY <1>3, <1>4, <1>5, <1>6, <1>7, <1>8 DEF Sound

\* A claim is made with a link that nobody has used.
ClaimsUnused(r) ==
    Claimed(r)' => call'[r] = call[r] /\ (Claimed(r) \/ ~links[call[r].link].used)

\* A link is burnt by this step or was before, and for another reason than r
\* unless that still holds.
Explains(r) ==
    \A k \in LinkIds : links'[k] # None /\ links'[k].used =>
        \/ BurntBy(r, k)'
        \/ links[k] # None /\ links[k].used /\ ~BurntBy(r, k)

\* What is shown of every step of a handler.
Keeps(r) == /\ TypeOK' /\ Grow /\ Shared' /\ ClaimsUnused(r) /\ Explains(r) /\ Sound(r)'
            /\ \A q \in Requests \ {r} : Untouched(q)

LEMMA KeepsInv ==
  ASSUME Inv, NEW r \in Requests, Keeps(r)
  PROVE  Inv'
<1>1. \A q \in Requests : Sound(q)'
  BY OthersKeep DEF Inv, Keeps
<1>2. \A q \in Requests \ {r} : (Claimed(q)' <=> Claimed(q)) /\ call'[q] = call[q]
  BY DEF Keeps, Untouched, Claimed
<1>3. \A q \in Requests : Claimed(q) => links[call[q].link].used
  BY DEF Inv, Sound, ResetSoFar
<1>4. OneClaim'
  BY <1>2, <1>3 DEF Keeps, ClaimsUnused, Inv, OneClaim
<1>5. BurntForAReason'
  <2> SUFFICES ASSUME NEW k \in LinkIds, links'[k] # None, links'[k].used
               PROVE  \E q \in Requests : BurntBy(q, k)'
    BY DEF BurntForAReason
  <2>1. CASE ~BurntBy(r, k)'
    <3>1. links[k] # None /\ links[k].used /\ ~BurntBy(r, k)
      BY <2>1 DEF Keeps, Explains
    <3>2. PICK q \in Requests : BurntBy(q, k)
      BY <3>1 DEF Inv, BurntForAReason
    <3>3. Untouched(q) /\ LinksGrow
      BY <3>1, <3>2 DEF Keeps, Grow
    <3> QED
      BY <3>1, <3>2, <3>3 DEF BurntBy, Resets, Untouched, LinksGrow
  <2> QED
    BY <2>1
<1> QED
  BY <1>1, <1>4, <1>5 DEF Keeps, Inv

\* What a handler has in hand.
LEMMA InHand ==
  ASSUME Inv, NEW r \in Requests
  PROVE  /\ r \in SessionIds /\ r \in LinkIds /\ TypeOK /\ Sound(r)
         /\ call[r] # None => call[r] \in Calls
         /\ call[r] # None /\ call[r].op \in {"login", "forgot"} =>
              call[r].account \in Accounts \cup {None}
         /\ call[r] # None /\ call[r].op = "reset" =>
              call[r].link \in LinkIds \cup {None} /\ call[r].password \in Passwords
         /\ call[r] # None /\ call[r].op = "reset" /\ call[r].link # None =>
              links[call[r].link] \in LinkRows /\ Owner(r) \in Accounts
         /\ call[r] # None /\ Holds(call[r]) =>
              /\ call[r].session \in SessionIds
              /\ sessions[call[r].session] \in SessionRows /\ Caller(r) \in Accounts
         /\ call[r] # None /\ call[r].op = "revoke" =>
              call[r].device \in SessionIds /\ sessions[call[r].device] \in SessionRows
<1>1. r \in SessionIds /\ r \in LinkIds /\ TypeOK /\ Sound(r)
  BY DEF Inv, SessionIds, LinkIds
<1>2. call[r] # None => call[r] \in Calls
  BY <1>1 DEF TypeOK
<1>3. /\ \A s \in SessionIds : sessions[s] # None => sessions[s] \in SessionRows
                                                  /\ sessions[s].account \in Accounts
      /\ \A k \in LinkIds : links[k] # None => links[k] \in LinkRows /\ links[k].account \in Accounts
  BY <1>1 DEF TypeOK, SessionRows, LinkRows
<1> QED
  BY <1>1, <1>2, <1>3, CallFields DEF Sound, Presented, Owner, Caller

\* A handler on its way stays a reason for the links it burnt.
LEMMA ReasonsStay ==
  ASSUME Inv, NEW r \in Requests, LinksGrow,
         pc[r] # "done", call'[r] = call[r],
         call[r].op = "forgot" => swept[r] \subseteq swept'[r],
         change[r] > 0 => change'[r] > 0,
         pc[r] = "password" => change'[r] > 0 \/ answer'[r] \in {"error", "lost"},
         \A k \in LinkIds : links'[k] = links[k] \/ ~links'[k].used \/ BurntBy(r, k)'
  PROVE  Explains(r)
<1> SUFFICES ASSUME NEW k \in LinkIds, links'[k] # None, links'[k].used, ~BurntBy(r, k)'
             PROVE  links[k] # None /\ links[k].used /\ ~BurntBy(r, k)
  BY DEF Explains
<1>1. links'[k] = links[k]
  OBVIOUS
<1>2. answer[r] = "none"
  BY DEF Inv, Sound, Control
<1> QED
  BY <1>1, <1>2 DEF BurntBy, Resets

-----------------------------------------------------------------------------
(* Login.                                                                  *)

LEMMA FindCredentialKeeps ==
  ASSUME Inv, NEW r \in Requests, FindCredential(r)
  PROVE  Keeps(r)
<1> USE DEF FindCredential, Goto, Reply, Outside, database
<1>0. call[r].account \in Accounts \cup {None} /\ call[r] # None
  BY InHand DEF Sound, Control
<1>1. TypeOK'
  <2>1. pc' \in [Requests -> Steps] /\ answer' \in [Requests -> Answers]
    BY InHand DEF TypeOK, Steps, Answers
  <2>2. seen' \in [Requests -> Nat] /\ barred' \subseteq Requests
    BY <1>0, InHand DEF TypeOK
  <2> QED
    BY <2>1, <2>2, InHand DEF TypeOK
<1>2. Grow /\ \A q \in Requests \ {r} : Untouched(q)
  BY InHand DEF Grow, SessionsGrow, LinksGrow, Untouched, TypeOK
<1>3. Sound(r)'
  <2>1. Control(r)' /\ Presented(r)'
    BY InHand DEF Sound, Control, Presented, Holds, TypeOK
  <2>2. Made(r)'
    <3>1. sessions[r] = None /\ links[r] = None /\ r \notin barred /\ r \notin unlocked
      BY InHand DEF Sound, Made, Control
    <3>2. r \in barred' => pc'[r] \in {"failure", "done"}
      <4> SUFFICES ASSUME r \in barred' PROVE pc'[r] \in {"failure", "done"}
        OBVIOUS
      <4> DEFINE a == call[r].account
      <4>1. a \in Accounts /\ misses[a] >= MaxFailed /\ MaxFailed \in Nat
        BY <1>0, <3>1, BoundAssumption
      <4>2. account[a].failed = misses[a] /\ misses[a] \in Nat
        BY <4>1 DEF Inv, Shared, TypeOK
      <4>3. ~MayEnter(account[a])
        BY <4>1, <4>2 DEF MayEnter
      <4> QED
        BY <4>1, <4>3, InHand DEF TypeOK
    <3>3. pc'[r] \in {"failure", "done", "session"} /\ answer'[r] # "ok"
      BY InHand DEF TypeOK, Sound, Control
    <3> QED
      BY <3>1, <3>2, <3>3 DEF Made
  <2>3. ResetSoFar(r)' /\ BurntSoFar(r)'
    BY InHand DEF Sound, Control, ResetSoFar, Claimed, BurntSoFar, TypeOK
  <2>4. SignOutSoFar(r)'
    BY InHand DEF Sound, Control, SignOutSoFar, Holds, TypeOK
  <2> QED
    BY <2>1, <2>2, <2>3, <2>4 DEF Sound
<1>4. ClaimsUnused(r) /\ Shared'
  BY InHand DEF ClaimsUnused, Claimed, Inv, Shared, TypeOK
<1>9. Explains(r)
  BY <1>2, InHand, ReasonsStay DEF Grow, TypeOK, Sound, Control
<1> QED
  BY <1>1, <1>2, <1>3, <1>4, <1>9 DEF Keeps

LEMMA RecordFailureKeeps ==
  ASSUME Inv, NEW r \in Requests, RecordFailure(r)
  PROVE  Keeps(r)
<1> USE DEF RecordFailure, Goto, Reply, Then, Finish, Refuse, Outside, database, history, lockout
<1>0. call[r].account \in Accounts /\ call[r] # None /\ call[r] \in Calls
  BY InHand DEF Sound, Control
<1>1. TypeOK'
  <2>1. pc' \in [Requests -> Steps] /\ answer' \in [Requests -> Answers]
    BY InHand DEF TypeOK, Steps, Answers
  <2>2. account' \in [Accounts -> AccountRows]
    <3>1. account[call[r].account] \in AccountRows
      BY <1>0, InHand DEF TypeOK
    <3>2. account'[call[r].account] \in AccountRows
      <4>1. account'[call[r].account] = [account[call[r].account] EXCEPT !.failed = @ + 1]
        BY <1>0, InHand DEF TypeOK
      <4> QED
        BY <3>1, <4>1 DEF AccountRows, Statuses
    <3> QED
      BY <3>2, <1>0, InHand DEF TypeOK
  <2>3. misses' \in [Accounts -> Nat]
    BY <1>0, InHand DEF TypeOK
  <2> QED
    BY <2>1, <2>2, <2>3, InHand DEF TypeOK
<1>2. Grow /\ \A q \in Requests \ {r} : Untouched(q)
  BY InHand DEF Grow, SessionsGrow, LinksGrow, Untouched, TypeOK
<1>3. Sound(r)'
  <2>1. Control(r)' /\ Presented(r)'
    BY InHand DEF Sound, Control, Presented, Holds, TypeOK
  <2>2. Made(r)'
    BY InHand DEF Sound, Control, Made, TypeOK
  <2>3. ResetSoFar(r)' /\ BurntSoFar(r)'
    BY InHand DEF Sound, Control, ResetSoFar, Claimed, SweptOf, Owner, BurntSoFar, TypeOK
  <2>4. SignOutSoFar(r)'
    BY InHand DEF Sound, Control, SignOutSoFar, SweptOf, Caller, Recorded, Holds, TypeOK
  <2> QED
    BY <2>1, <2>2, <2>3, <2>4 DEF Sound
<1>4. ClaimsUnused(r) /\ Shared'
  BY InHand DEF ClaimsUnused, Claimed, Inv, Shared, TypeOK
<1>9. Explains(r)
  BY <1>2, InHand, ReasonsStay DEF Grow, TypeOK, Sound, Control
<1> QED
  BY <1>1, <1>2, <1>3, <1>4, <1>9 DEF Keeps

LEMMA CreateSessionKeeps ==
  ASSUME Inv, NEW r \in Requests, CreateSession(r)
  PROVE  Keeps(r)
<1> USE DEF CreateSession, Goto, Reply, Then, Finish, Refuse, Outside, database, history, lockout
<1>0. call[r].account \in Accounts /\ call[r] # None /\ call[r] \in Calls
  BY InHand DEF Sound, Control

<1>5. sessions[r] = None /\ call[r].op = "login"
  BY InHand DEF Sound, Made, Control
<1>6. sessions'[r] \in SessionRows /\ sessions'[r] # None
  <2>1. sessions'[r] = [account |-> call[r].account, revoked |-> FALSE, version |-> seen[r]]
    BY InHand DEF TypeOK
  <2>2. seen[r] \in Nat
    BY InHand DEF TypeOK
  <2>3. sessions'[r] \in SessionRows
    <3>1. \A a \in Accounts, n \in Nat :
             [account |-> a, revoked |-> FALSE, version |-> n] \in SessionRows
      BY DEF SessionRows
    <3> QED
      BY <2>1, <2>2, <1>0, <3>1
  <2> QED
    BY <2>3, NoneAssumption
<1>7. \A s \in SessionIds \ {r} : sessions'[s] = sessions[s]
  BY InHand DEF TypeOK
<1>1. TypeOK'
  <2>1. pc' \in [Requests -> Steps] /\ answer' \in [Requests -> Answers]
    BY InHand DEF TypeOK, Steps, Answers
  <2>2. sessions' \in [SessionIds -> SessionRows \cup {None}]
    BY <1>6, InHand DEF TypeOK
  <2> QED
    BY <2>1, <2>2, InHand DEF TypeOK
<1>2. Grow /\ \A q \in Requests \ {r} : Untouched(q)
  BY <1>5, <1>7, InHand DEF Grow, SessionsGrow, LinksGrow, Untouched, TypeOK, SessionIds
<1>3. Sound(r)'
  <2>1. Control(r)' /\ Presented(r)'
    BY InHand DEF Sound, Control, Presented, Holds, TypeOK
  <2>2. Made(r)'
    BY <1>5, <1>6, InHand DEF Sound, Control, Made, TypeOK
  <2>3. ResetSoFar(r)' /\ BurntSoFar(r)'
    BY InHand DEF Sound, Control, ResetSoFar, Claimed, SweptOf, Owner, BurntSoFar, TypeOK
  <2>4. SignOutSoFar(r)'
    BY InHand DEF Sound, Control, SignOutSoFar, SweptOf, Caller, Recorded, Holds, TypeOK
  <2> QED
    BY <2>1, <2>2, <2>3, <2>4 DEF Sound
<1>4. ClaimsUnused(r) /\ Shared'
  <2>1. \A s \in DOMAIN OpenSessions : s \in SessionIds /\ sessions[s] # None
    BY DEF Inv, Shared, SessionIds
  <2> QED
    BY <2>1, <1>6, <1>7, InHand DEF ClaimsUnused, Claimed, Inv, Shared, TypeOK
<1>9. Explains(r)
  BY <1>2, InHand, ReasonsStay DEF Grow, TypeOK, Sound, Control
<1> QED
  BY <1>1, <1>2, <1>3, <1>4, <1>9 DEF Keeps

LEMMA RecordSuccessKeeps ==
  ASSUME Inv, NEW r \in Requests, RecordSuccess(r)
  PROVE  Keeps(r)
<1> USE DEF RecordSuccess, Unlock, Goto, Reply, Then, Finish, Refuse, Outside, database, history, lockout
<1>0. call[r].account \in Accounts /\ call[r] # None /\ call[r] \in Calls
  BY InHand DEF Sound, Control
<1>1. TypeOK'
  <2>1. pc' \in [Requests -> Steps] /\ answer' \in [Requests -> Answers]
    BY InHand DEF TypeOK, Steps, Answers
  <2>2. account' \in [Accounts -> AccountRows]
    <3>1. account[call[r].account] \in AccountRows
      BY <1>0, InHand DEF TypeOK
    <3>2. account'[call[r].account] \in AccountRows
      BY <3>1, <1>0, InHand DEF TypeOK, AccountRows, Statuses
    <3> QED
      BY <3>2, <1>0, InHand DEF TypeOK
  <2>3. misses' \in [Accounts -> Nat]
    BY <1>0, InHand DEF TypeOK
  <2> QED
    BY <2>1, <2>2, <2>3, InHand DEF TypeOK
<1>2. Grow /\ \A q \in Requests \ {r} : Untouched(q)
  BY InHand DEF Grow, SessionsGrow, LinksGrow, Untouched, TypeOK
<1>3. Sound(r)'
  <2>1. Control(r)' /\ Presented(r)'
    BY InHand DEF Sound, Control, Presented, Holds, TypeOK
  <2>2. Made(r)'
    BY InHand DEF Sound, Control, Made, TypeOK
  <2>3. ResetSoFar(r)' /\ BurntSoFar(r)'
    BY InHand DEF Sound, Control, ResetSoFar, Claimed, SweptOf, Owner, BurntSoFar, TypeOK
  <2>4. SignOutSoFar(r)'
    BY InHand DEF Sound, Control, SignOutSoFar, SweptOf, Caller, Recorded, Holds, TypeOK
  <2> QED
    BY <2>1, <2>2, <2>3, <2>4 DEF Sound
<1>4. ClaimsUnused(r) /\ Shared'
  BY InHand DEF ClaimsUnused, Claimed, Inv, Shared, TypeOK
<1>9. Explains(r)
  BY <1>2, InHand, ReasonsStay DEF Grow, TypeOK, Sound, Control
<1> QED
  BY <1>1, <1>2, <1>3, <1>4, <1>9 DEF Keeps

LEMMA FindPrincipalKeeps ==
  ASSUME Inv, NEW r \in Requests, FindPrincipal(r)
  PROVE  Keeps(r)
<1> USE DEF FindPrincipal, Goto, Reply, Then, Finish, Refuse, Outside, database, history, lockout
<1>1. TypeOK'
  BY InHand DEF TypeOK, Steps, Answers
<1>2. Grow /\ \A q \in Requests \ {r} : Untouched(q)
  BY InHand DEF Grow, SessionsGrow, LinksGrow, Untouched, TypeOK
<1>3. Sound(r)'
  <2>1. Control(r)' /\ Presented(r)'
    BY InHand DEF Sound, Control, Presented, Holds, TypeOK
  <2>2. Made(r)'
    BY InHand DEF Sound, Control, Made, TypeOK
  <2>3. ResetSoFar(r)' /\ BurntSoFar(r)'
    BY InHand DEF Sound, Control, ResetSoFar, Claimed, SweptOf, Owner, BurntSoFar, TypeOK
  <2>4. SignOutSoFar(r)'
    BY InHand DEF Sound, Control, SignOutSoFar, SweptOf, Caller, Recorded, Holds, TypeOK
  <2> QED
    BY <2>1, <2>2, <2>3, <2>4 DEF Sound
<1>4. ClaimsUnused(r) /\ Shared'
  BY InHand DEF ClaimsUnused, Claimed, Inv, Shared, TypeOK
<1>9. Explains(r)
  BY <1>2, InHand, ReasonsStay DEF Grow, TypeOK, Sound, Control
<1> QED
  BY <1>1, <1>2, <1>3, <1>4, <1>9 DEF Keeps

LEMMA InvalidateOutstandingKeeps ==
  ASSUME Inv, NEW r \in Requests, InvalidateOutstanding(r)
  PROVE  Keeps(r)
<1> USE DEF InvalidateOutstanding, Goto, Reply, Then, Finish, Refuse, Outside, database, history, lockout
<1>0. call[r].account \in Accounts /\ call[r] # None /\ call[r] \in Calls
  BY InHand DEF Sound, Control
<1>5. /\ LinksGrow /\ links' \in [LinkIds -> LinkRows \cup {None}]
      /\ \A k \in LinkIds : links[k] = None <=> links'[k] = None
      /\ \A k \in Outstanding(call[r].account) : links'[k].used
  <2>1. /\ Outstanding(call[r].account) \in SUBSET LinkIds
        /\ \A k \in Outstanding(call[r].account) : links[k] # None
    BY DEF Outstanding
  <2> QED
    BY <2>1, UseGrows, InHand
<1>6. call[r].op = "forgot" /\ pc'[r] \in {"issue", "done"} /\ links[r] = None
  BY InHand DEF Sound, Control, Made, TypeOK
<1>1. TypeOK'
  <2>1. pc' \in [Requests -> Steps] /\ answer' \in [Requests -> Answers]
    BY InHand DEF TypeOK, Steps, Answers
  <2>2. swept' \in [Requests -> SUBSET (SessionIds \cup LinkIds)]
    BY InHand DEF TypeOK
  <2> QED
    BY <2>1, <2>2, <1>5, InHand DEF TypeOK
<1>2. Grow /\ \A q \in Requests \ {r} : Untouched(q)
  BY <1>5, InHand DEF Grow, SessionsGrow, Untouched, TypeOK, LinkIds
<1>3. Sound(r)'
  <2>1. Control(r)' /\ Presented(r)'
    BY <1>6, InHand DEF Sound, Control, Presented, Holds, TypeOK
  <2>2. Made(r)'
    BY <1>5, <1>6, InHand DEF Sound, Control, Made, TypeOK
  <2>3. ResetSoFar(r)' /\ BurntSoFar(r)'
    <3>1. change[r] = 0 /\ ~(change[r] > 0)
      BY <1>6, InHand DEF Sound, ResetSoFar, TypeOK
    <3>2. ResetSoFar(r)'
      BY <1>6, <3>1 DEF ResetSoFar, Claimed
    <3>3. swept'[r] = {k \in LinkIds : links[k] # None}
      BY InHand DEF TypeOK
    <3>4. \A k \in swept'[r] : links[k].account = call[r].account => links'[k].used
      BY <3>3, <1>5 DEF Outstanding, LinksGrow
    <3> QED
      BY <3>2, <3>3, <3>4, <1>5 DEF BurntSoFar, LinksGrow
  <2>4. SignOutSoFar(r)'
    BY InHand DEF Sound, Control, SignOutSoFar, SweptOf, Caller, Recorded, Holds, TypeOK
  <2> QED
    BY <2>1, <2>2, <2>3, <2>4 DEF Sound
<1>4. ClaimsUnused(r) /\ Shared'
  BY <1>6, <1>5, InHand DEF ClaimsUnused, Claimed, Inv, Shared, TypeOK, Sound, ResetSoFar, LinksGrow
<1>9. Explains(r)
  <2>1. swept'[r] = {k \in LinkIds : links[k] # None} /\ swept[r] \subseteq swept'[r]
    BY <1>0, <1>6, InHand DEF TypeOK, Sound, BurntSoFar
  <2>2. ASSUME NEW k \in LinkIds, links'[k] # links[k]
        PROVE  BurntBy(r, k)'
    <3>1. k \in Outstanding(call[r].account)
      BY <2>2 DEF Use
    <3>2. links[k] # None /\ links[k].account = call[r].account /\ links'[k].account = links[k].account
      BY <3>1, <1>5 DEF Outstanding, LinksGrow
    <3> QED
      BY <3>2, <2>1, <1>0, <1>6 DEF BurntBy
  <2>3. pc[r] = "outstanding" /\ call'[r] = call[r] /\ change'[r] = change[r]
    OBVIOUS
  <2> QED
    BY <1>5, <2>1, <2>2, <2>3, ReasonsStay
<1> QED
  BY <1>1, <1>2, <1>3, <1>4, <1>9 DEF Keeps

LEMMA IssueLinkKeeps ==
  ASSUME Inv, NEW r \in Requests, IssueLink(r)
  PROVE  Keeps(r)
<1> USE DEF IssueLink, Goto, Reply, Then, Finish, Refuse, Outside, database, history, lockout
<1>0. call[r].account \in Accounts /\ call[r] # None /\ call[r] \in Calls
  BY InHand DEF Sound, Control

<1>5. links[r] = None /\ call[r].op = "forgot"
  BY InHand DEF Sound, Made, Control
<1>6. links'[r] = [account |-> call[r].account, used |-> FALSE] /\ links'[r] # None
  <2>1. links'[r] = [account |-> call[r].account, used |-> FALSE]
    BY InHand DEF TypeOK
  <2>2. links'[r] \in LinkRows
    <3>1. \A a \in Accounts : [account |-> a, used |-> FALSE] \in LinkRows
      BY DEF LinkRows
    <3> QED
      BY <2>1, <1>0, <3>1
  <2> QED
    BY <2>1, <2>2, NoneAssumption
<1>7. \A k \in LinkIds \ {r} : links'[k] = links[k]
  BY InHand DEF TypeOK
<1>1. TypeOK'
  <2>1. pc' \in [Requests -> Steps] /\ answer' \in [Requests -> Answers]
    BY InHand DEF TypeOK, Steps, Answers
  <2>2. links' \in [LinkIds -> LinkRows \cup {None}]
    BY <1>0, InHand DEF TypeOK, LinkRows
  <2> QED
    BY <2>1, <2>2, InHand DEF TypeOK
<1>2. Grow /\ \A q \in Requests \ {r} : Untouched(q)
  BY <1>5, <1>7, InHand DEF Grow, SessionsGrow, LinksGrow, Untouched, TypeOK, LinkIds
<1>3. Sound(r)'
  <2>1. Control(r)' /\ Presented(r)'
    BY InHand DEF Sound, Control, Presented, Holds, TypeOK
  <2>2. Made(r)'
    BY <1>5, <1>6, InHand DEF Sound, Control, Made, TypeOK
  <2>3. ResetSoFar(r)' /\ BurntSoFar(r)'
    <3>1. change[r] = 0 /\ ~(change[r] > 0) /\ pc'[r] \in {"deliver", "done"}
      BY <1>5, InHand DEF Sound, ResetSoFar, TypeOK
    <3>2. ResetSoFar(r)'
      BY <1>5, <3>1 DEF ResetSoFar, Claimed
    <3>3. \A k \in swept[r] : k # r /\ k \in LinkIds
      BY <1>5, <1>0, InHand DEF Sound, BurntSoFar
    <3> QED
      BY <3>2, <3>3, <1>7, <1>5, InHand DEF Sound, BurntSoFar
  <2>4. SignOutSoFar(r)'
    BY InHand DEF Sound, Control, SignOutSoFar, SweptOf, Caller, Recorded, Holds, TypeOK
  <2> QED
    BY <2>1, <2>2, <2>3, <2>4 DEF Sound
<1>4. ClaimsUnused(r) /\ Shared'
  <2>1. \A k \in delivered : k \in LinkIds /\ links[k] # None
    BY InHand DEF Inv, Shared, TypeOK
  <2> QED
    BY <2>1, <1>5, <1>6, <1>7, InHand DEF ClaimsUnused, Claimed, Inv, Shared, TypeOK, Sound, ResetSoFar
<1>9. Explains(r)
  BY <1>2, InHand, ReasonsStay DEF Grow, TypeOK, Sound, Control
<1> QED
  BY <1>1, <1>2, <1>3, <1>4, <1>9 DEF Keeps

LEMMA DeliverKeeps ==
  ASSUME Inv, NEW r \in Requests, Deliver(r)
  PROVE  Keeps(r)
<1> USE DEF Deliver, Goto, Reply, Then, Finish, Refuse, Outside, database, history, lockout
<1>1. TypeOK'
  BY InHand DEF TypeOK, Steps, Answers
<1>2. Grow /\ \A q \in Requests \ {r} : Untouched(q)
  BY InHand DEF Grow, SessionsGrow, LinksGrow, Untouched, TypeOK
<1>3. Sound(r)'
  <2>1. Control(r)' /\ Presented(r)'
    BY InHand DEF Sound, Control, Presented, Holds, TypeOK
  <2>2. Made(r)'
    BY InHand DEF Sound, Control, Made, TypeOK
  <2>3. ResetSoFar(r)' /\ BurntSoFar(r)'
    BY InHand DEF Sound, Control, ResetSoFar, Claimed, SweptOf, Owner, BurntSoFar, TypeOK
  <2>4. SignOutSoFar(r)'
    BY InHand DEF Sound, Control, SignOutSoFar, SweptOf, Caller, Recorded, Holds, TypeOK
  <2> QED
    BY <2>1, <2>2, <2>3, <2>4 DEF Sound
<1>4. ClaimsUnused(r) /\ Shared'
  <2>1. links[r] # None
    BY InHand DEF Sound, Made
  <2> QED
    BY <2>1, InHand DEF ClaimsUnused, Claimed, Inv, Shared, TypeOK
<1>9. Explains(r)
  BY <1>2, InHand, ReasonsStay DEF Grow, TypeOK, Sound, Control
<1> QED
  BY <1>1, <1>2, <1>3, <1>4, <1>9 DEF Keeps

LEMMA FindLinkKeeps ==
  ASSUME Inv, NEW r \in Requests, FindLink(r)
  PROVE  Keeps(r)
<1> USE DEF FindLink, Goto, Reply, Then, Finish, Refuse, Outside, database, history, lockout
<1>0. call[r].op = "reset" /\ call[r] # None
  BY InHand DEF Sound, Control
<1>5. pc'[r] \in {"claim", "done"} /\ (pc'[r] = "claim" <=> Usable(call[r].link))
  BY InHand DEF TypeOK
<1>1. TypeOK'
  BY InHand DEF TypeOK, Steps, Answers
<1>2. Grow /\ \A q \in Requests \ {r} : Untouched(q)
  BY InHand DEF Grow, SessionsGrow, LinksGrow, Untouched, TypeOK
<1>3. Sound(r)'
  <2>1. Control(r)' /\ Presented(r)'
    BY <1>0, <1>5, InHand DEF Sound, Control, Presented, Holds, TypeOK, Usable
  <2>2. Made(r)'
    BY InHand DEF Sound, Control, Made, TypeOK
  <2>3. ResetSoFar(r)' /\ BurntSoFar(r)'
    BY <1>0, <1>5, InHand DEF Sound, Control, ResetSoFar, Claimed, SweptOf, Owner, BurntSoFar,
                              TypeOK, Usable
  <2>4. SignOutSoFar(r)'
    BY InHand DEF Sound, Control, SignOutSoFar, SweptOf, Caller, Recorded, Holds, TypeOK
  <2> QED
    BY <2>1, <2>2, <2>3, <2>4 DEF Sound
<1>4. ClaimsUnused(r) /\ Shared'
  BY InHand DEF ClaimsUnused, Claimed, Inv, Shared, TypeOK
<1>9. Explains(r)
  BY <1>2, InHand, ReasonsStay DEF Grow, TypeOK, Sound, Control
<1> QED
  BY <1>1, <1>2, <1>3, <1>4, <1>9 DEF Keeps

LEMMA MarkUsedKeeps ==
  ASSUME Inv, NEW r \in Requests, MarkUsed(r)
  PROVE  Keeps(r)
<1> USE DEF MarkUsed, Goto, Reply, Then, Finish, Refuse, Outside, database, history, lockout
<1>0. call[r].op = "reset" /\ call[r] # None /\ call[r] \in Calls /\ call[r].link # None
  BY InHand DEF Sound, Control
<1>5. /\ LinksGrow /\ links' \in [LinkIds -> LinkRows \cup {None}]
      /\ \A k \in LinkIds : links[k] = None <=> links'[k] = None
      /\ links'[call[r].link].used
      /\ pc'[r] = "password" => ~links[call[r].link].used
  <2>1. call[r].link \in LinkIds /\ links[call[r].link] # None
    BY <1>0, InHand DEF Sound, Presented
  <2>2. CASE links[call[r].link].used /\ UNCHANGED links /\ pc'[r] = "done"
    BY <2>1, <2>2, InHand DEF LinksGrow, TypeOK
  <2>3. CASE Use({call[r].link}) /\ ~links[call[r].link].used
    BY <2>1, <2>3, UseGrows, InHand
  <2> QED
    BY <2>2, <2>3, InHand DEF TypeOK
<1>6. pc'[r] \in {"password", "done"} /\ pc[r] = "claim"
  BY InHand DEF TypeOK
<1>1. TypeOK'
  <2>1. pc' \in [Requests -> Steps] /\ answer' \in [Requests -> Answers]
    BY InHand DEF TypeOK, Steps, Answers
  <2> QED
    BY <2>1, <1>5, InHand DEF TypeOK
<1>2. Grow /\ \A q \in Requests \ {r} : Untouched(q)
  BY <1>5, InHand DEF Grow, SessionsGrow, Untouched, TypeOK, LinkIds
<1>3. Sound(r)'
  <2>1. Control(r)' /\ Presented(r)'
    BY <1>0, <1>5, <1>6, InHand DEF Sound, Control, Presented, Holds, TypeOK, LinksGrow
  <2>2. Made(r)'
    BY <1>0, <1>5, <1>6, InHand DEF Sound, Control, Made, TypeOK
  <2>3. ResetSoFar(r)' /\ BurntSoFar(r)'
    <3>1. ~stale[r] /\ ~(change[r] > 0) /\ r \notin audit /\ answer'[r] \in {"none", "invalid", "error"}
      BY <1>0, <1>6, InHand DEF Sound, Control, ResetSoFar, TypeOK
    <3> QED
      BY <1>0, <1>5, <1>6, <3>1 DEF ResetSoFar, BurntSoFar, Claimed
  <2>4. SignOutSoFar(r)'
    BY <1>0, InHand DEF SignOutSoFar, Holds, TypeOK
  <2> QED
    BY <2>1, <2>2, <2>3, <2>4 DEF Sound
<1>4. ClaimsUnused(r) /\ Shared'
  <2>1. ~(change[r] > 0)
    BY <1>0, <1>6, InHand DEF Sound, ResetSoFar, TypeOK
  <2> QED
    BY <1>5, <1>6, <2>1, InHand DEF ClaimsUnused, Claimed, Inv, Shared, TypeOK, LinksGrow
<1>9. Explains(r)
  <2>1. answer'[r] = "error" \/ pc'[r] = "password" \/ links' = links
    BY InHand DEF TypeOK
  <2>2. ASSUME NEW k \in LinkIds, links'[k] # links[k]
        PROVE  BurntBy(r, k)'
    <3>1. k = call[r].link
      BY <2>2 DEF Use
    <3> QED
      BY <3>1, <2>1, <2>2, <1>0 DEF BurntBy
  <2>3. call'[r] = call[r] /\ change'[r] = change[r] /\ swept'[r] = swept[r]
    OBVIOUS
  <2> QED
    BY <1>5, <1>6, <2>2, <2>3, ReasonsStay
<1> QED
  BY <1>1, <1>2, <1>3, <1>4, <1>9 DEF Keeps

LEMMA SetPasswordKeeps ==
  ASSUME Inv, NEW r \in Requests, SetPassword(r)
  PROVE  Keeps(r)
<1> USE DEF SetPassword, Unlock, Goto, Reply, Then, Finish, Refuse, Outside, database, history, lockout
<1>0. call[r].op = "reset" /\ call[r] # None /\ call[r] \in Calls /\ call[r].link # None
  BY InHand DEF Sound, Control
<1>5. Owner(r) \in Accounts /\ version[Owner(r)] \in Nat /\ change'[r] > 0
  BY <1>0, InHand DEF TypeOK
<1>1. TypeOK'
  <2>1. pc' \in [Requests -> Steps] /\ answer' \in [Requests -> Answers]
    BY InHand DEF TypeOK, Steps, Answers
  <2>2. account' \in [Accounts -> AccountRows]
    BY <1>0, <1>5, InHand DEF TypeOK, AccountRows, Statuses
  <2>3. /\ version' \in [Accounts -> Nat] /\ misses' \in [Accounts -> Nat]
        /\ change' \in [Requests -> Nat]
    BY <1>5, InHand DEF TypeOK
  <2> QED
    BY <2>1, <2>2, <2>3, InHand DEF TypeOK
<1>2. Grow /\ \A q \in Requests \ {r} : Untouched(q)
  BY InHand DEF Grow, SessionsGrow, LinksGrow, Untouched, TypeOK
<1>3. Sound(r)'
  <2>1. Control(r)' /\ Presented(r)'
    BY InHand DEF Sound, Control, Presented, Holds, TypeOK
  <2>2. Made(r)'
    BY InHand DEF Sound, Control, Made, TypeOK
  <2>3. ResetSoFar(r)' /\ BurntSoFar(r)'
    BY <1>0, <1>5, InHand DEF Sound, Control, ResetSoFar, Claimed, BurntSoFar, TypeOK
  <2>4. SignOutSoFar(r)'
    BY InHand DEF Sound, Control, SignOutSoFar, SweptOf, Caller, Recorded, Holds, TypeOK
  <2> QED
    BY <2>1, <2>2, <2>3, <2>4 DEF Sound
<1>4. ClaimsUnused(r) /\ Shared'
  BY <1>0, <1>5, InHand DEF ClaimsUnused, Claimed, Inv, Shared, TypeOK
<1>9. Explains(r)
  BY <1>2, InHand, ReasonsStay DEF Grow, TypeOK, Sound, Control
<1> QED
  BY <1>1, <1>2, <1>3, <1>4, <1>9 DEF Keeps

LEMMA RevokeSessionsKeeps ==
  ASSUME Inv, NEW r \in Requests, RevokeSessions(r)
  PROVE  Keeps(r)
<1> USE DEF RevokeSessions, Goto, Reply, Then, Finish, Refuse, Outside, database, history, lockout
<1>0. call[r].op = "reset" /\ call[r] # None /\ call[r] \in Calls /\ call[r].link # None
  BY InHand DEF Sound, Control
<1>5. /\ SessionsGrow /\ sessions' \in [SessionIds -> SessionRows \cup {None}]
      /\ \A s \in SessionIds : sessions[s] = None <=> sessions'[s] = None
      /\ \A s \in Open(Owner(r)) : sessions'[s].revoked
  <2>1. Open(Owner(r)) \in SUBSET SessionIds /\ \A s \in Open(Owner(r)) : sessions[s] # None
    BY DEF Open
  <2> QED
    BY <2>1, RevokeGrows, InHand
<1>6. swept'[r] = {s \in SessionIds : sessions[s] # None}
  BY InHand DEF TypeOK
<1>7. DOMAIN OpenSessions \subseteq swept'[r]
  BY <1>6 DEF Inv, Shared, SessionIds
<1>1. TypeOK'
  <2>1. pc' \in [Requests -> Steps] /\ answer' \in [Requests -> Answers]
    BY InHand DEF TypeOK, Steps, Answers
  <2>2. swept' \in [Requests -> SUBSET (SessionIds \cup LinkIds)]
    BY InHand DEF TypeOK
  <2> QED
    BY <2>1, <2>2, <1>5, InHand DEF TypeOK
<1>2. Grow /\ \A q \in Requests \ {r} : Untouched(q)
  BY <1>5, InHand DEF Grow, LinksGrow, Untouched, TypeOK, SessionIds
<1>3. Sound(r)'
  <2>1. Control(r)' /\ Presented(r)'
    BY <1>0, <1>5, InHand DEF Sound, Control, Presented, Holds, TypeOK
  <2>2. Made(r)'
    BY <1>0, <1>5, InHand DEF Sound, Control, Made, TypeOK
  <2>3. ResetSoFar(r)' /\ BurntSoFar(r)'
    <3>1. /\ ~stale[r] /\ change[r] > 0 /\ r \notin audit /\ links[call[r].link].used
          /\ pc'[r] \in {"log", "done"} /\ answer'[r] \in {"none", "error"}
      BY <1>0, InHand DEF Sound, Control, ResetSoFar, Claimed, TypeOK
    <3>2. SweptOf(r, Owner(r))'
      BY <1>5, <1>6, <1>0 DEF SweptOf, Owner, Open, SessionsGrow
    <3> QED
      BY <1>0, <1>7, <3>1, <3>2 DEF ResetSoFar, BurntSoFar, Claimed
  <2>4. SignOutSoFar(r)'
    BY <1>0, InHand DEF SignOutSoFar, Holds, TypeOK
  <2> QED
    BY <2>1, <2>2, <2>3, <2>4 DEF Sound
<1>4. ClaimsUnused(r) /\ Shared'
  BY <1>0, <1>5, InHand DEF ClaimsUnused, Claimed, Inv, Shared, TypeOK, SessionsGrow, SessionIds
<1>9. Explains(r)
  BY <1>2, InHand, ReasonsStay DEF Grow, TypeOK, Sound, Control
<1> QED
  BY <1>1, <1>2, <1>3, <1>4, <1>9 DEF Keeps

LEMMA RecordResetKeeps ==
  ASSUME Inv, NEW r \in Requests, RecordReset(r)
  PROVE  Keeps(r)
<1> USE DEF RecordReset, Goto, Reply, Then, Finish, Refuse, Outside, database, history, lockout
<1>1. TypeOK'
  BY InHand DEF TypeOK, Steps, Answers
<1>2. Grow /\ \A q \in Requests \ {r} : Untouched(q)
  BY InHand DEF Grow, SessionsGrow, LinksGrow, Untouched, TypeOK
<1>3. Sound(r)'
  <2>1. Control(r)' /\ Presented(r)'
    BY InHand DEF Sound, Control, Presented, Holds, TypeOK
  <2>2. Made(r)'
    BY InHand DEF Sound, Control, Made, TypeOK
  <2>3. ResetSoFar(r)' /\ BurntSoFar(r)'
    BY InHand DEF Sound, Control, ResetSoFar, Claimed, SweptOf, Owner, BurntSoFar, TypeOK
  <2>4. SignOutSoFar(r)'
    BY InHand DEF Sound, Control, SignOutSoFar, SweptOf, Caller, Recorded, Holds, TypeOK
  <2> QED
    BY <2>1, <2>2, <2>3, <2>4 DEF Sound
<1>4. ClaimsUnused(r) /\ Shared'
  BY InHand DEF ClaimsUnused, Claimed, Inv, Shared, TypeOK
<1>9. Explains(r)
  BY <1>2, InHand, ReasonsStay DEF Grow, TypeOK, Sound, Control
<1> QED
  BY <1>1, <1>2, <1>3, <1>4, <1>9 DEF Keeps

LEMMA AuthenticateKeeps ==
  ASSUME Inv, NEW r \in Requests, Authenticate(r)
  PROVE  Keeps(r)
<1> USE DEF Authenticate, Goto, Reply, Then, Finish, Refuse, Outside, database, history, lockout
<1>0. /\ Holds(call[r]) /\ call[r] # None /\ pc'[r] \in Steps /\ answer'[r] \in Answers
      /\ pc'[r] \in {"done", "me", "logout", "logout_all", "revoke"}
      /\ answer'[r] \in {"none", "unauthorized"}
  BY InHand DEF Sound, Control, Holds, TypeOK, Steps, Answers
<1>1. TypeOK'
  <2>1. pc' \in [Requests -> Steps] /\ answer' \in [Requests -> Answers]
    BY <1>0, InHand DEF TypeOK
  <2> QED
    BY <2>1, InHand DEF TypeOK
<1>2. Grow /\ \A q \in Requests \ {r} : Untouched(q)
  BY InHand DEF Grow, SessionsGrow, LinksGrow, Untouched, TypeOK
<1>3. Sound(r)'
  <2>1. Control(r)' /\ Presented(r)'
    BY InHand DEF Sound, Control, Presented, Holds, TypeOK
  <2>2. Made(r)'
    BY <1>0, InHand DEF Sound, Control, Made, TypeOK
  <2>3. ResetSoFar(r)' /\ BurntSoFar(r)'
    <3>1. change[r] = 0 /\ ~(change[r] > 0) /\ call[r].op \notin {"reset", "forgot"}
      BY <1>0, InHand DEF Sound, ResetSoFar, TypeOK, Holds
    <3> QED
      BY <1>0, <3>1 DEF ResetSoFar, Claimed, BurntSoFar
  <2>4. SignOutSoFar(r)'
    BY InHand DEF Sound, Control, SignOutSoFar, SweptOf, Caller, Recorded, Holds, TypeOK
  <2> QED
    BY <2>1, <2>2, <2>3, <2>4 DEF Sound
<1>4. ClaimsUnused(r) /\ Shared'
  BY <1>0, InHand DEF ClaimsUnused, Claimed, Inv, Shared, TypeOK
<1>9. Explains(r)
  BY <1>2, InHand, ReasonsStay DEF Grow, TypeOK, Sound, Control
<1> QED
  BY <1>1, <1>2, <1>3, <1>4, <1>9 DEF Keeps

LEMMA ServeKeeps ==
  ASSUME Inv, NEW r \in Requests, Serve(r)
  PROVE  Keeps(r)
<1> USE DEF Serve, Goto, Reply, Then, Finish, Refuse, Outside, database, history, lockout
<1>1. TypeOK'
  BY InHand DEF TypeOK, Steps, Answers
<1>2. Grow /\ \A q \in Requests \ {r} : Untouched(q)
  BY InHand DEF Grow, SessionsGrow, LinksGrow, Untouched, TypeOK
<1>3. Sound(r)'
  <2>1. Control(r)' /\ Presented(r)'
    BY InHand DEF Sound, Control, Presented, Holds, TypeOK
  <2>2. Made(r)'
    BY InHand DEF Sound, Control, Made, TypeOK
  <2>3. ResetSoFar(r)' /\ BurntSoFar(r)'
    BY InHand DEF Sound, Control, ResetSoFar, Claimed, SweptOf, Owner, BurntSoFar, TypeOK
  <2>4. SignOutSoFar(r)'
    BY InHand DEF Sound, Control, SignOutSoFar, SweptOf, Caller, Recorded, Holds, TypeOK
  <2> QED
    BY <2>1, <2>2, <2>3, <2>4 DEF Sound
<1>4. ClaimsUnused(r) /\ Shared'
  BY InHand DEF ClaimsUnused, Claimed, Inv, Shared, TypeOK
<1>9. Explains(r)
  BY <1>2, InHand, ReasonsStay DEF Grow, TypeOK, Sound, Control
<1> QED
  BY <1>1, <1>2, <1>3, <1>4, <1>9 DEF Keeps

LEMMA LogoutKeeps ==
  ASSUME Inv, NEW r \in Requests, Logout(r)
  PROVE  Keeps(r)
<1> USE DEF Logout, Goto, Reply, Then, Finish, Refuse, Outside, database, history, lockout
<1>0. /\ call[r].op = "logout" /\ Holds(call[r]) /\ call[r] # None /\ call[r] \in Calls
      /\ call[r].session \in SessionIds /\ sessions[call[r].session] # None
      /\ ~stale[r] /\ r \notin audit
  BY InHand DEF Sound, Control, Holds, Presented, SignOutSoFar
<1>5. /\ SessionsGrow /\ sessions' \in [SessionIds -> SessionRows \cup {None}]
      /\ \A s \in SessionIds : sessions[s] = None <=> sessions'[s] = None
      /\ sessions'[call[r].session].revoked
  <2> DEFINE S == {call[r].session} \cap Open(Caller(r))
  <2>1. S \in SUBSET SessionIds /\ (\A s \in S : sessions[s] # None) /\ Revoke(S)
    BY DEF Open
  <2>2. call[r].session \in S \/ sessions[call[r].session].revoked
    BY <1>0 DEF Open, Caller
  <2> HIDE DEF S
  <2> QED
    BY <2>1, <2>2, <1>0, RevokeGrows, InHand DEF SessionsGrow
<1>6. Caller(r)' = Caller(r)
  BY <1>0, <1>5 DEF Caller, SessionsGrow
<1>1. TypeOK'
  <2>1. pc' \in [Requests -> Steps] /\ answer' \in [Requests -> Answers]
    BY InHand DEF TypeOK, Steps, Answers
  <2> QED
    BY <2>1, <1>5, InHand DEF TypeOK
<1>2. Grow /\ \A q \in Requests \ {r} : Untouched(q)
  BY <1>5, InHand DEF Grow, LinksGrow, Untouched, TypeOK, SessionIds
<1>3. Sound(r)'
  <2>1. Control(r)' /\ Presented(r)'
    BY <1>0, <1>5, InHand DEF Sound, Control, Presented, Holds, TypeOK
  <2>2. Made(r)'
    BY <1>0, <1>5, InHand DEF Sound, Control, Made, TypeOK
  <2>3. ResetSoFar(r)' /\ BurntSoFar(r)'
    <3>1. change[r] = 0 /\ ~(change[r] > 0) /\ pc'[r] \in {"audit", "answer", "done"}
      BY <1>0, InHand DEF Sound, ResetSoFar, TypeOK
    <3> QED
      BY <1>0, <3>1 DEF ResetSoFar, Claimed, BurntSoFar
  <2>4. SignOutSoFar(r)'
    <3>1. answer'[r] # "ok" /\ (pc'[r] = "answer" => ~Recorded(r))
      BY <1>0, InHand DEF Recorded, TypeOK, Sound, Control
    <3> QED
      BY <1>0, <1>5, <1>6, <3>1 DEF SignOutSoFar, Recorded
  <2> QED
    BY <2>1, <2>2, <2>3, <2>4 DEF Sound
<1>4. ClaimsUnused(r) /\ Shared'
  BY <1>0, <1>5, InHand DEF ClaimsUnused, Claimed, Inv, Shared, TypeOK, SessionsGrow, SessionIds
<1>9. Explains(r)
  BY <1>2, InHand, ReasonsStay DEF Grow, TypeOK, Sound, Control
<1> QED
  BY <1>1, <1>2, <1>3, <1>4, <1>9 DEF Keeps

LEMMA LogoutAllKeeps ==
  ASSUME Inv, NEW r \in Requests, LogoutAll(r)
  PROVE  Keeps(r)
<1> USE DEF LogoutAll, Goto, Reply, Then, Finish, Refuse, Outside, database, history, lockout
<1>0. /\ call[r].op = "logout_all" /\ Holds(call[r]) /\ call[r] # None /\ call[r] \in Calls
      /\ call[r].session \in SessionIds /\ sessions[call[r].session] # None
      /\ ~stale[r] /\ r \notin audit
  BY InHand DEF Sound, Control, Holds, Presented, SignOutSoFar
<1>5. /\ SessionsGrow /\ sessions' \in [SessionIds -> SessionRows \cup {None}]
      /\ \A s \in SessionIds : sessions[s] = None <=> sessions'[s] = None
      /\ \A s \in Open(Caller(r)) : sessions'[s].revoked
  <2>1. Open(Caller(r)) \in SUBSET SessionIds /\ \A s \in Open(Caller(r)) : sessions[s] # None
    BY DEF Open
  <2> QED
    BY <2>1, RevokeGrows, InHand
<1>6. swept'[r] = {s \in SessionIds : sessions[s] # None}
  BY InHand DEF TypeOK
<1>7. DOMAIN OpenSessions \subseteq swept'[r]
  BY <1>6 DEF Inv, Shared, SessionIds
<1>8. Caller(r)' = Caller(r)
  BY <1>0, <1>5 DEF Caller, SessionsGrow
<1>1. TypeOK'
  <2>1. pc' \in [Requests -> Steps] /\ answer' \in [Requests -> Answers]
    BY InHand DEF TypeOK, Steps, Answers
  <2>2. swept' \in [Requests -> SUBSET (SessionIds \cup LinkIds)]
    BY InHand DEF TypeOK
  <2> QED
    BY <2>1, <2>2, <1>5, InHand DEF TypeOK
<1>2. Grow /\ \A q \in Requests \ {r} : Untouched(q)
  BY <1>5, InHand DEF Grow, LinksGrow, Untouched, TypeOK, SessionIds
<1>3. Sound(r)'
  <2>1. Control(r)' /\ Presented(r)'
    BY <1>0, <1>5, InHand DEF Sound, Control, Presented, Holds, TypeOK
  <2>2. Made(r)'
    BY <1>0, <1>5, InHand DEF Sound, Control, Made, TypeOK
  <2>3. ResetSoFar(r)' /\ BurntSoFar(r)'
    <3>1. change[r] = 0 /\ ~(change[r] > 0) /\ pc'[r] \in {"audit", "done"}
      BY <1>0, InHand DEF Sound, ResetSoFar, TypeOK
    <3> QED
      BY <1>0, <3>1 DEF ResetSoFar, Claimed, BurntSoFar
  <2>4. SignOutSoFar(r)'
    <3>1. SweptOf(r, Caller(r))'
      BY <1>5, <1>6, <1>8 DEF SweptOf, Open, SessionsGrow
    <3>2. call[r].session \in swept'[r] /\ answer'[r] # "ok" /\ pc'[r] \in {"audit", "done"}
      BY <1>0, <1>6, InHand DEF Sound, Control, TypeOK
    <3> QED
      BY <1>0, <3>1, <3>2 DEF SignOutSoFar
  <2> QED
    BY <2>1, <2>2, <2>3, <2>4 DEF Sound
<1>4. ClaimsUnused(r) /\ Shared'
  BY <1>0, <1>5, InHand DEF ClaimsUnused, Claimed, Inv, Shared, TypeOK, SessionsGrow, SessionIds
<1>9. Explains(r)
  BY <1>2, InHand, ReasonsStay DEF Grow, TypeOK, Sound, Control
<1> QED
  BY <1>1, <1>2, <1>3, <1>4, <1>9 DEF Keeps

LEMMA RevokeDeviceKeeps ==
  ASSUME Inv, NEW r \in Requests, RevokeDevice(r)
  PROVE  Keeps(r)
<1> USE DEF RevokeDevice, Goto, Reply, Then, Finish, Refuse, Outside, database, history, lockout
<1>0. /\ call[r].op = "revoke" /\ Holds(call[r]) /\ call[r] # None /\ call[r] \in Calls
      /\ call[r].session \in SessionIds /\ sessions[call[r].session] # None
      /\ ~stale[r] /\ r \notin audit
  BY InHand DEF Sound, Control, Holds, Presented, SignOutSoFar
<1>5. /\ SessionsGrow /\ sessions' \in [SessionIds -> SessionRows \cup {None}]
      /\ \A s \in SessionIds : sessions[s] = None <=> sessions'[s] = None
      /\ pc'[r] = "audit" => sessions'[call[r].device].revoked
  <2> DEFINE S == {call[r].device}
  <2>1. CASE call[r].device \in Open(Caller(r)) /\ Revoke(S)
    BY <2>1, RevokeGrows, InHand DEF Open
  <2>2. CASE UNCHANGED sessions /\ pc'[r] = "done"
    BY <2>2, InHand DEF SessionsGrow, TypeOK
  <2> QED
    BY <2>1, <2>2, InHand DEF TypeOK
<1>6. pc'[r] \in {"audit", "done"} /\ answer'[r] \in {"none", "not_found", "error"}
  BY InHand DEF Sound, Control, TypeOK
<1>1. TypeOK'
  <2>1. pc' \in [Requests -> Steps] /\ answer' \in [Requests -> Answers]
    BY InHand DEF TypeOK, Steps, Answers
  <2> QED
    BY <2>1, <1>5, InHand DEF TypeOK
<1>2. Grow /\ \A q \in Requests \ {r} : Untouched(q)
  BY <1>5, InHand DEF Grow, LinksGrow, Untouched, TypeOK, SessionIds
<1>3. Sound(r)'
  <2>1. Control(r)' /\ Presented(r)'
    BY <1>0, <1>5, InHand DEF Sound, Control, Presented, Holds, TypeOK
  <2>2. Made(r)'
    BY <1>0, <1>5, InHand DEF Sound, Control, Made, TypeOK
  <2>3. ResetSoFar(r)' /\ BurntSoFar(r)'
    <3>1. change[r] = 0 /\ ~(change[r] > 0) /\ pc'[r] \in {"audit", "done"}
      BY <1>0, InHand DEF Sound, ResetSoFar, TypeOK
    <3> QED
      BY <1>0, <3>1 DEF ResetSoFar, Claimed, BurntSoFar
  <2>4. SignOutSoFar(r)'
    BY <1>0, <1>5, <1>6, InHand DEF SignOutSoFar, TypeOK
  <2> QED
    BY <2>1, <2>2, <2>3, <2>4 DEF Sound
<1>4. ClaimsUnused(r) /\ Shared'
  BY <1>0, <1>5, InHand DEF ClaimsUnused, Claimed, Inv, Shared, TypeOK, SessionsGrow, SessionIds
<1>9. Explains(r)
  BY <1>2, InHand, ReasonsStay DEF Grow, TypeOK, Sound, Control
<1> QED
  BY <1>1, <1>2, <1>3, <1>4, <1>9 DEF Keeps

LEMMA AuditRevocationKeeps ==
  ASSUME Inv, NEW r \in Requests, AuditRevocation(r)
  PROVE  Keeps(r)
<1> USE DEF AuditRevocation, Goto, Reply, Then, Finish, Refuse, Outside, database, history, lockout
<1>1. TypeOK'
  BY InHand DEF TypeOK, Steps, Answers
<1>2. Grow /\ \A q \in Requests \ {r} : Untouched(q)
  BY InHand DEF Grow, SessionsGrow, LinksGrow, Untouched, TypeOK
<1>3. Sound(r)'
  <2>1. Control(r)' /\ Presented(r)'
    BY InHand DEF Sound, Control, Presented, Holds, TypeOK
  <2>2. Made(r)'
    BY InHand DEF Sound, Control, Made, TypeOK
  <2>3. ResetSoFar(r)' /\ BurntSoFar(r)'
    BY InHand DEF Sound, Control, ResetSoFar, Claimed, SweptOf, Owner, BurntSoFar, TypeOK
  <2>4. SignOutSoFar(r)'
    BY InHand DEF Sound, Control, SignOutSoFar, SweptOf, Caller, Recorded, Holds, TypeOK
  <2> QED
    BY <2>1, <2>2, <2>3, <2>4 DEF Sound
<1>4. ClaimsUnused(r) /\ Shared'
  BY InHand DEF ClaimsUnused, Claimed, Inv, Shared, TypeOK
<1>9. Explains(r)
  BY <1>2, InHand, ReasonsStay DEF Grow, TypeOK, Sound, Control
<1> QED
  BY <1>1, <1>2, <1>3, <1>4, <1>9 DEF Keeps

LEMMA AnswerKeeps ==
  ASSUME Inv, NEW r \in Requests, Answer(r)
  PROVE  Keeps(r)
<1> USE DEF Answer, Goto, Reply, Then, Finish, Refuse, Outside, database, history, lockout
<1>1. TypeOK'
  BY InHand DEF TypeOK, Steps, Answers
<1>2. Grow /\ \A q \in Requests \ {r} : Untouched(q)
  BY InHand DEF Grow, SessionsGrow, LinksGrow, Untouched, TypeOK
<1>3. Sound(r)'
  <2>1. Control(r)' /\ Presented(r)'
    BY InHand DEF Sound, Control, Presented, Holds, TypeOK
  <2>2. Made(r)'
    BY InHand DEF Sound, Control, Made, TypeOK
  <2>3. ResetSoFar(r)' /\ BurntSoFar(r)'
    BY InHand DEF Sound, Control, ResetSoFar, Claimed, SweptOf, Owner, BurntSoFar, TypeOK
  <2>4. SignOutSoFar(r)'
    BY InHand DEF Sound, Control, SignOutSoFar, SweptOf, Caller, Recorded, Holds, TypeOK
  <2> QED
    BY <2>1, <2>2, <2>3, <2>4 DEF Sound
<1>4. ClaimsUnused(r) /\ Shared'
  BY InHand DEF ClaimsUnused, Claimed, Inv, Shared, TypeOK
<1>9. Explains(r)
  BY <1>2, InHand, ReasonsStay DEF Grow, TypeOK, Sound, Control
<1> QED
  BY <1>1, <1>2, <1>3, <1>4, <1>9 DEF Keeps

LEMMA FailKeeps ==
  ASSUME Inv, NEW r \in Requests, Fail(r)
  PROVE  Keeps(r)
<1> USE DEF Fail, Goto, Reply, Then, Finish, Refuse, Outside, database, history, lockout
<1>1. TypeOK'
  BY InHand DEF TypeOK, Steps, Answers
<1>2. Grow /\ \A q \in Requests \ {r} : Untouched(q)
  BY InHand DEF Grow, SessionsGrow, LinksGrow, Untouched, TypeOK
<1>3. Sound(r)'
  <2>1. Control(r)' /\ Presented(r)'
    BY InHand DEF Sound, Control, Presented, Holds, TypeOK
  <2>2. Made(r)'
    BY InHand DEF Sound, Control, Made, TypeOK
  <2>3. ResetSoFar(r)' /\ BurntSoFar(r)'
    BY InHand DEF Sound, Control, ResetSoFar, Claimed, SweptOf, Owner, BurntSoFar, TypeOK
  <2>4. SignOutSoFar(r)'
    BY InHand DEF Sound, Control, SignOutSoFar, SweptOf, Caller, Recorded, Holds, TypeOK
  <2> QED
    BY <2>1, <2>2, <2>3, <2>4 DEF Sound
<1>4. ClaimsUnused(r) /\ Shared'
  BY InHand DEF ClaimsUnused, Claimed, Inv, Shared, TypeOK
<1>9. Explains(r)
  BY <1>2, InHand, ReasonsStay DEF Grow, TypeOK, Sound, Control
<1> QED
  BY <1>1, <1>2, <1>3, <1>4, <1>9 DEF Keeps

-----------------------------------------------------------------------------
(* Arrivals, time, and the end of the process.                             *)

\* A session that a client holds is a row.
LEMMA HeldExist ==
  ASSUME Inv, NEW s \in Held
  PROVE  s \in SessionIds /\ sessions[s] # None
<1>1. CASE s \in DOMAIN OpenSessions
  BY <1>1 DEF Inv, Shared, SessionIds
<1>2. CASE s \in Requests /\ answer[s] = "ok" /\ call[s].op = "login"
  BY <1>2, InHand DEF Sound, Made
<1> QED
  BY <1>1, <1>2 DEF Held

LEMMA ArriveKeeps ==
  ASSUME Inv, NEW r \in Requests, Arrive(r)
  PROVE  Keeps(r)
<1>1. PICK c \in Calls :
        /\ Presentable(c)
        /\ call' = [call EXCEPT ![r] = c]
        /\ stale' = [stale EXCEPT ![r] = Dead(c)]
        /\ \/ BadToken(c) /\ Reply(r, "unauthorized")
           \/ BadPassword(c) /\ Reply(r, "invalid")
           \/ ~BadToken(c) /\ ~BadPassword(c) /\ Goto(r, FirstStep(c))
  BY DEF Arrive
<1>2. /\ UNCHANGED <<account, links, sessions, audit, delivered, expired,
                     version, seen, change, swept, misses, barred, unlocked>>
      /\ pc[r] = "idle"
  BY DEF Arrive, database, lockout
<1>3. /\ call[r] = None /\ answer[r] = "none" /\ swept[r] = {} /\ r \notin audit
      /\ links[r] = None /\ sessions[r] = None /\ r \notin barred /\ change[r] = 0
      /\ r \notin unlocked
  BY <1>2, InHand DEF Sound, Control, Made, ResetSoFar, TypeOK
<1>4. /\ call'[r] = c /\ stale'[r] = Dead(c) /\ Dead(c) \in BOOLEAN /\ c # None
      /\ FirstStep(c) \in Steps
  <2>1. Dead(c) \in BOOLEAN /\ FirstStep(c) \in Steps
    BY DEF Dead, FirstStep, Steps
  <2> QED
    BY <2>1, <1>1, CallFields, InHand DEF TypeOK
<1>5. /\ c.op = "reset" /\ c.link # None => c.link \in LinkIds /\ links[c.link] # None
      /\ Holds(c) => c.session \in SessionIds /\ sessions[c.session] # None
      /\ c.op = "revoke" => sessions[c.device] # None
  BY <1>1, CallFields, HeldExist DEF Presentable, Inv, Shared
<1>6. \/ pc'[r] = "done" /\ answer'[r] \in {"unauthorized", "invalid"} /\ ~(Holds(c) /\ answer'[r] = "invalid")
      \/ pc'[r] = FirstStep(c) /\ answer'[r] = "none" /\ ~BadToken(c)
  BY <1>1, <1>3, InHand DEF Goto, Reply, BadPassword, Holds, TypeOK
<1>7. /\ pc' \in [Requests -> Steps] /\ answer' \in [Requests -> Answers]
      /\ \A q \in Requests \ {r} : pc'[q] = pc[q] /\ answer'[q] = answer[q]
  BY <1>1, <1>4, InHand DEF Goto, Reply, TypeOK, Steps, Answers
<1>8. TypeOK'
  BY <1>1, <1>2, <1>4, <1>7, InHand DEF TypeOK
<1>9. Grow /\ \A q \in Requests \ {r} : Untouched(q)
  BY <1>1, <1>2, <1>7, InHand DEF Grow, SessionsGrow, LinksGrow, Untouched, TypeOK
<1>10. Sound(r)'
  <2>1. pc'[r] \in {"done", "credential", "principal", "link", "authenticate"}
    BY <1>6 DEF FirstStep
  <2>2. Control(r)'
    BY <1>2, <1>3, <1>4, <1>6, CallFields DEF Control, FirstStep, Holds
  <2>3. Presented(r)'
    BY <1>2, <1>4, <1>5 DEF Presented, Holds
  <2>4. Made(r)'
    BY <1>2, <1>3, <1>4, <1>6, <2>1 DEF Made
  <2>5. ResetSoFar(r)'
    BY <1>2, <1>3, <1>4, <1>5, <1>6, <2>1 DEF ResetSoFar, Claimed, Dead, Holds
  <2>6. BurntSoFar(r)'
    BY <1>2, <1>3 DEF BurntSoFar
  <2>7. SignOutSoFar(r)'
    BY <1>2, <1>3, <1>4, <1>5, <1>6, <2>1 DEF SignOutSoFar, Dead, BadToken, Holds, FirstStep
  <2> QED
    BY <2>2, <2>3, <2>4, <2>5, <2>6, <2>7 DEF Sound
<1>11. ClaimsUnused(r) /\ Shared'
  <2>1. pc'[r] \in {"done", "credential", "principal", "link", "authenticate"} /\ ~(change'[r] > 0)
    BY <1>2, <1>3, <1>6 DEF FirstStep
  <2> QED
    BY <2>1, <1>2 DEF ClaimsUnused, Claimed, Inv, Shared
<1>12. Explains(r)
  BY <1>2, <1>3 DEF Explains, BurntBy
<1> QED
  BY <1>8, <1>9, <1>10, <1>11, <1>12 DEF Keeps

\* A link or a session past its time.
LEMMA ExpireKeeps ==
  ASSUME Inv, NEW x \in MayExpire, Expire(x)
  PROVE  Inv'
<1>1. /\ UNCHANGED <<account, links, sessions, audit, delivered, pc, call, answer, version,
                     seen, change, stale, swept, misses, barred, unlocked>>
      /\ expired' = expired \cup {x}
  BY DEF Expire, database, history, lockout
<1>2. \A q \in Requests : Sound(q)'
  <2> TAKE q \in Requests
  <2>1. Untouched(q) /\ Grow
    BY <1>1 DEF Untouched, Grow, SessionsGrow, LinksGrow
  <2> QED
    BY <2>1, OthersKeep DEF Inv
<1>3. TypeOK' /\ OneClaim' /\ Shared' /\ BurntForAReason'
  BY <1>1 DEF Inv, TypeOK, OneClaim, Claimed, Shared, BurntForAReason, BurntBy, Resets
<1> QED
  BY <1>2, <1>3 DEF Inv

\* A handler that is gone has done what it did.
LEMMA CrashKeeps ==
  ASSUME Inv, Crash
  PROVE  Inv'
<1>1. UNCHANGED <<account, links, sessions, audit, delivered, expired, call, version,
                  seen, change, stale, swept, misses, barred, unlocked>>
  BY DEF Crash, Outside, database, history, lockout
<1>2. ASSUME NEW r \in Requests
      PROVE  \/ UNCHANGED <<pc[r], answer[r]>>
             \/ pc[r] \notin {"idle", "done"} /\ pc'[r] = "done" /\ answer'[r] = "lost"
  BY DEF Crash, InFlight
<1>3. TypeOK'
  <2>1. pc' \in [Requests -> Steps] /\ answer' \in [Requests -> Answers]
    BY DEF Crash, Inv, TypeOK, Steps, Answers
  <2> QED
    BY <1>1, <2>1 DEF Inv, TypeOK
<1>4. ASSUME NEW r \in Requests PROVE Sound(r)'
  <2>1. CASE UNCHANGED <<pc[r], answer[r]>>
    <3>1. Untouched(r) /\ Grow
      BY <2>1, <1>1 DEF Untouched, Grow, SessionsGrow, LinksGrow
    <3> QED
      BY <3>1, OthersKeep DEF Inv
  <2>2. CASE pc[r] \notin {"idle", "done"} /\ pc'[r] = "done" /\ answer'[r] = "lost"
    <3>1. Control(r)' /\ Presented(r)' /\ Made(r)'
      BY <2>2, <1>1, InHand DEF Sound, Control, Presented, Made, Holds
    <3>2. ResetSoFar(r)' /\ BurntSoFar(r)'
      <4>1. Sound(r)
        BY <2>2, InHand DEF Sound, Control
      <4> QED
        BY <2>2, <1>1, <4>1 DEF Sound, ResetSoFar, Claimed, SweptOf, Owner, BurntSoFar
    <3>3. SignOutSoFar(r)'
      BY <2>2, <1>1, InHand DEF Sound, Control, SignOutSoFar, SweptOf, Caller, Recorded, Holds
    <3> QED
      BY <3>1, <3>2, <3>3 DEF Sound
  <2> QED
    BY <1>2, <2>1, <2>2
<1>5. OneClaim'
  <2>1. \A r \in Requests : Claimed(r)' => Claimed(r)
    BY <1>1, <1>2 DEF Claimed
  <2> QED
    BY <2>1, <1>1 DEF Inv, OneClaim
<1>6. Shared'
  BY <1>1 DEF Inv, Shared
<1>7. BurntForAReason'
  <2>1. \A r \in Requests, k \in LinkIds : BurntBy(r, k) => BurntBy(r, k)'
    BY <1>1, <1>2 DEF BurntBy, Resets
  <2> QED
    BY <2>1, <1>1 DEF Inv, BurntForAReason
<1> QED
  BY <1>3, <1>4, <1>5, <1>6, <1>7 DEF Inv

-----------------------------------------------------------------------------
(* The invariant, and what follows from it.                                *)

LEMMA InitInv == Init => Inv
<1> SUFFICES ASSUME Init PROVE Inv
  OBVIOUS
<1> USE SeedAssumption, AccountAssumption, NoneAssumption
<1>1. links \in [LinkIds -> LinkRows \cup {None}] /\ sessions \in [SessionIds -> SessionRows \cup {None}]
  BY DEF Init, LinkIds, SessionIds, LinkRows, SessionRows
<1>2. misses \in [Accounts -> Nat] /\ \A a \in Accounts : misses[a] = account[a].failed
  BY DEF Init, AccountRows
<1>3. TypeOK
  BY <1>1, <1>2 DEF Init, TypeOK, LinkIds, Steps, Answers
<1>4. \A k \in DOMAIN OpenLinks : links[k] # None
  <2> TAKE k \in DOMAIN OpenLinks
  <2>1. links[k] = [account |-> OpenLinks[k], used |-> FALSE] /\ OpenLinks[k] \in Accounts
    BY DEF Init, LinkIds
  <2>2. \A a \in Accounts : [account |-> a, used |-> FALSE] \in LinkRows
    BY DEF LinkRows
  <2> QED
    BY <2>1, <2>2
<1>5. \A s \in DOMAIN OpenSessions : sessions[s] # None
  <2> TAKE s \in DOMAIN OpenSessions
  <2>1. /\ sessions[s] = [account |-> OpenSessions[s], revoked |-> FALSE, version |-> 0]
        /\ OpenSessions[s] \in Accounts
    BY DEF Init, SessionIds
  <2>2. \A a \in Accounts : [account |-> a, revoked |-> FALSE, version |-> 0] \in SessionRows
    BY DEF SessionRows
  <2> QED
    BY <2>1, <2>2
<1>6. \A r \in Requests : links[r] = None /\ sessions[r] = None
  BY DEF Init, LinkIds, SessionIds
<1>7. \A r \in Requests : Sound(r)
  <2> TAKE r \in Requests
  <2>1. /\ pc[r] = "idle" /\ call[r] = None /\ answer[r] = "none" /\ swept[r] = {}
        /\ r \notin audit /\ r \notin barred /\ r \notin unlocked
        /\ ~(change[r] > 0) /\ ~Claimed(r)
    BY DEF Init, Claimed
  <2> QED
    BY <2>1, <1>6 DEF Sound, Control, Presented, Made, ResetSoFar, BurntSoFar, SignOutSoFar
<1>8. OneClaim
  <2>1. \A r \in Requests : ~Claimed(r)
    BY DEF Init, Claimed
  <2> QED
    BY <2>1 DEF OneClaim
<1>9. Shared
  BY <1>2, <1>4, <1>5 DEF Init, Shared
<1>10. BurntForAReason
  BY NoneAssumption DEF Init, BurntForAReason
<1> QED
  BY <1>3, <1>7, <1>8, <1>9, <1>10 DEF Inv

LEMMA StatementKeeps ==
  ASSUME Inv, NEW r \in Requests, Statement(r)
  PROVE  Keeps(r)
  BY FindCredentialKeeps, RecordFailureKeeps, CreateSessionKeeps, RecordSuccessKeeps,
     FindPrincipalKeeps, InvalidateOutstandingKeeps, IssueLinkKeeps, DeliverKeeps,
     FindLinkKeeps, MarkUsedKeeps, SetPasswordKeeps, RevokeSessionsKeeps, RecordResetKeeps,
     AuthenticateKeeps, ServeKeeps, LogoutKeeps, LogoutAllKeeps, RevokeDeviceKeeps,
     AuditRevocationKeeps, AnswerKeeps
  DEF Statement

LEMMA NextInv == Inv /\ [Next]_vars => Inv'
<1> SUFFICES ASSUME Inv, [Next]_vars PROVE Inv'
  OBVIOUS
<1>1. ASSUME NEW r \in Requests, Arrive(r) \/ Statement(r) \/ Fail(r) PROVE Inv'
  BY <1>1, ArriveKeeps, StatementKeeps, FailKeeps, KeepsInv
<1>2. CASE UNCHANGED vars
  <2>1. UNCHANGED <<account, links, sessions, audit, delivered, expired, pc, call, answer,
                    version, seen, change, stale, swept, misses, barred, unlocked>>
    BY <1>2 DEF vars, database, history, lockout
  <2>2. \A r \in Requests : Sound(r)'
    <3> TAKE r \in Requests
    <3>1. Untouched(r) /\ Grow
      BY <2>1 DEF Untouched, Grow, SessionsGrow, LinksGrow
    <3> QED
      BY <3>1, OthersKeep DEF Inv
  <2> QED
    BY <2>1, <2>2 DEF Inv, TypeOK, OneClaim, Claimed, Shared, BurntForAReason, BurntBy, Resets
<1> QED
  BY <1>1, <1>2, ExpireKeeps, CrashKeeps DEF Next

LEMMA InvHolds == Spec => []Inv
  BY InitInv, NextInv, PTL DEF Spec

\* passwordResetService.js: however many clicks race, one reset per link, and
\* none by a link that was dead when it was clicked.
THEOREM LinkHolds == Spec => []LinkWorksOnce
<1>1. Inv => LinkWorksOnce
  BY DEF Inv, LinkWorksOnce, Resets, OneClaim, Claimed, Sound, ResetSoFar
<1> QED
  BY InvHolds, <1>1, PTL

\* A reset that says "ok" or leaves a record did all of it, one that says
\* "invalid" nothing, and no link is burnt for nothing, wherever a reset stops.
THEOREM ResetHolds == Spec => []ResetIsAccounted
<1>1. Inv => AnswerTellsReset
  BY DEF Inv, AnswerTellsReset, Resets, Claimed, Sound, ResetSoFar, TypeOK
<1>2. Inv => BurntForAReason
  BY DEF Inv
<1> QED
  BY InvHolds, <1>1, <1>2, PTL DEF ResetIsAccounted

\* A session that outlives a reset is one the sweep did not find.
THEOREM SurvivorHolds == Spec => []SurvivorWasInFlight
<1>1. Inv => SurvivorWasInFlight
  BY DEF Inv, SurvivorWasInFlight, Resets, Sound, ResetSoFar, SweptOf, Open
<1> QED
  BY InvHolds, <1>1, PTL

\* Two links of an account work only when they were being issued at once.
THEOREM LinksHold == Spec => []TwoLinksNeedOverlap
<1>1. Inv => TwoLinksNeedOverlap
  BY DEF Inv, TwoLinksNeedOverlap, Outstanding, Sound, Made, BurntSoFar
<1> QED
  BY InvHolds, <1>1, PTL

\* Whoever is told "Signed out." is, and a dead session opens no door again.
THEOREM SignOutIsKept == Spec => []SignOutHolds
<1>1. Inv => DeadSessionStaysDead
  BY DEF Inv, DeadSessionStaysDead, Sound, SignOutSoFar
<1>2. Inv => SignedOutMeansSo
  BY DEF Inv, SignedOutMeansSo, Sound, SignOutSoFar, SweptOf, Open
<1> QED
  BY InvHolds, <1>1, <1>2, PTL DEF SignOutHolds

\* No failed login is missed by the limit, whatever runs at the same time, and
\* only a login that was on its way opens an account again that reached it.
THEOREM LockoutHolds == Spec => []LockoutCountsEveryFailure
<1>1. Inv => LockoutCountsEveryFailure
  BY DEF Inv, LockoutCountsEveryFailure, Sound, Made, TypeOK
<1> QED
  BY InvHolds, <1>1, PTL

\* A record of a sign-out is never of sessions that are open, and an "ok" never
\* without its record.
THEOREM SignOutAuditHolds == Spec => []AuditFollowsSignOut
<1>1. Inv => AuditFollowsSignOut
  <2> SUFFICES ASSUME Inv, NEW r \in Requests, call[r] # None,
                      call[r].op \in {"logout", "logout_all", "revoke"}
               PROVE  /\ r \in audit => Closed(r) \cap Open(Caller(r)) = {}
                      /\ answer[r] = "ok" /\ Recorded(r) => r \in audit
    BY DEF AuditFollowsSignOut
  <2> QED
    BY DEF Inv, Sound, SignOutSoFar, SweptOf, Open, Closed, Holds
<1> QED
  BY InvHolds, <1>1, PTL
=============================================================================
