----------------------------- MODULE MemberDesk -----------------------------
(***************************************************************************)
(* What members do without staff: guest passes and the inbox.              *)
(* src/modules/guestPasses.js and notifications.js over                    *)
(* notificationRepository.js, behind requireMember and                     *)
(* requirePrimaryMember, with lib/validate.js for the times of a pass.     *)
(*                                                                         *)
(* Each operation is one statement that commits by itself, and one step.   *)
(* What makes it hard is around the statement: the same call comes twice   *)
(* because the first answer was lost, members and dependents are numbered  *)
(* separately and use the same routes, and a list of notifications is      *)
(* marked while single ones are. The pass that request r issues has id r,  *)
(* and NOW() of its statement is r: what matters of a time is whose        *)
(* statement set it.                                                       *)
(***************************************************************************)
EXTENDS Naturals, FiniteSets

CONSTANTS
    Requests,    \* requests that may arrive, each handled once
    Numbers,     \* ids of members, and ids of dependents
    OpenPasses,  \* passes issued before the run begins: id -> member
    Notes,       \* ids of notifications
    Times,       \* what a client may write for a time: <<h, m>> or <<h, m, s>>
    Calls,       \* the calls clients may make
    None

\* The claims of a verified token: a member's number or a dependent's.
Tokens == [member : Numbers, dependent : {None}] \cup [member : {None}, dependent : Numbers]
PassIds == Requests \cup DOMAIN OpenPasses
Statuses == {"issued", "used", "revoked"}

PassCalls == [op : {"issue"}, token : Tokens, from : Times \cup {None}, until : Times \cup {None}]
             \cup [op : {"passes"}, token : Tokens]
             \cup [op : {"pass", "revoke"}, token : Tokens, id : PassIds]
InboxCalls == [op : {"inbox", "unread", "read_all"}, token : Tokens]
              \cup [op : {"read"}, token : Tokens, id : Notes]

ASSUME DeskAssumption ==
    /\ IsFiniteSet(Requests) /\ IsFiniteSet(Notes) /\ Numbers \subseteq Nat
    /\ OpenPasses \in [DOMAIN OpenPasses -> Numbers] /\ Requests \cap DOMAIN OpenPasses = {}
    /\ \A t \in Times : DOMAIN t \in {1..2, 1..3} /\ \A i \in DOMAIN t : t[i] \in 0..59
    /\ Calls \subseteq PassCalls \cup InboxCalls
    /\ None \notin PassIds \cup Notes /\ None \notin Numbers /\ None \notin Times
    /\ None \notin Calls
    /\ PassIds \cap Notes = {}

VARIABLES
    passes,  \* the guest_passes table: id -> row
    notes,   \* the notifications table: id -> row
    call,    \* the call of each request
    answer,  \* what each request was answered
    took     \* history: the rows the statement of each request changed

vars == <<passes, notes, call, answer, took>>

Note == [member_id : Numbers \cup {None}, dependent_id : Numbers \cup {None},
         read_at : Requests \cup {None}]
Answers == [code : {"ok"}, rows : SUBSET (PassIds \cup Notes), count : Nat]
           \cup [code : {"invalid", "forbidden", "not_found", "failed", "none"}]

Init ==
    /\ passes = [p \in DOMAIN OpenPasses |->
            [member |-> OpenPasses[p], from |-> None, until |-> None, status |-> "issued",
             revoked_at |-> None]]
    /\ notes = [n \in {} |-> None]
    /\ call = [r \in Requests |-> None]
    /\ answer = [r \in Requests |-> [code |-> "none"]]
    /\ took = [r \in Requests |-> {}]

-----------------------------------------------------------------------------
(* What is asked, and of whose rows.                                       *)

\* A time is compared as the text HH:MM:SS; validate() adds the seconds.
Coerce_slip(t) == t
Coerce(t) == IF DOMAIN t = 1..2 THEN [i \in 1..3 |-> IF i = 3 THEN 0 ELSE t[i]] ELSE t

\* s comes before t in a dictionary; a text before its continuations.
Sooner(s, t) ==
    \E i \in DOMAIN t :
        /\ \A j \in 1..(i - 1) : j \in DOMAIN s /\ s[j] = t[j]
        /\ i \in DOMAIN s => s[i] < t[i]

\* What a row says: a column left out is null.
Column(t) == IF t = None THEN None ELSE Coerce(t)
Pass == [member : Numbers, from : {Column(t) : t \in Times \cup {None}},
         until : {Column(t) : t \in Times \cup {None}}, status : Statuses,
         revoked_at : Requests \cup {None}]

\* guestPasses.js: a window needs to end after it starts, if it has both ends.
WindowRefused(c) ==
    /\ c.from # None /\ c.until # None
    /\ ~Sooner(Coerce(c.from), Coerce(c.until))

\* notifications.js, recipient(): the column and the number to look for in it.
\* One column for everybody.
Recipient_slip(token) ==
    IF token.member # None THEN [column |-> "member_id", id |-> token.member]
    ELSE [column |-> "member_id", id |-> token.dependent]
Recipient(token) ==
    IF token.member # None THEN [column |-> "member_id", id |-> token.member]
    ELSE [column |-> "dependent_id", id |-> token.dependent]

Inbox(to) ==
    {n \in DOMAIN notes :
        to.id = IF to.column = "dependent_id" THEN notes[n].dependent_id ELSE notes[n].member_id}
Unread(to) == {n \in Inbox(to) : notes[n].read_at = None}

OwnPasses(token) == {p \in DOMAIN passes : passes[p].member = token.member}

-----------------------------------------------------------------------------
(* The handlers.                                                           *)

PrimaryOnly == {"issue", "passes", "pass", "revoke"}
Ok(rows, n) == [code |-> "ok", rows |-> rows, count |-> n]
Not(code) == [code |-> code]

\* Request r is call c of this operation, and nothing was said to it yet.
Asks(r, c, op) == call[r] = None /\ c.op = op /\ call' = [call EXCEPT ![r] = c]
May(c) == c.op \in PrimaryOnly => c.token.member # None

\* The client hears the answer, or the connection breaks after the statement.
Reply(r, a) == \E heard \in {a, Not("failed")} : answer' = [answer EXCEPT ![r] = heard]
Quiet == UNCHANGED <<passes, notes, took>>

\* requirePrimaryMember, and the check of a pass's times.
Refuse(r, c) ==
    /\ Asks(r, c, c.op) /\ Quiet
    /\ \/ ~May(c) /\ answer' = [answer EXCEPT ![r] = Not("forbidden")]
       \/ /\ May(c) /\ c.op = "issue" /\ WindowRefused(c)
          /\ answer' = [answer EXCEPT ![r] = Not("invalid")]

\* The statement never runs: the database or the process is gone.
Fail(r, c) ==
    /\ Asks(r, c, c.op) /\ Quiet
    /\ answer' = [answer EXCEPT ![r] = Not("failed")]

IssuePass(r, c) ==
    /\ Asks(r, c, "issue") /\ May(c) /\ ~WindowRefused(c)
    /\ LET row == [member |-> c.token.member, from |-> Column(c.from),
                   until |-> Column(c.until), status |-> "issued", revoked_at |-> None]
       IN  passes' = [p \in DOMAIN passes \cup {r} |-> IF p = r THEN row ELSE passes[p]]
    /\ took' = [took EXCEPT ![r] = {r}] /\ Reply(r, Ok({r}, 0))
    /\ UNCHANGED notes

ListPasses(r, c) ==
    /\ Asks(r, c, "passes") /\ May(c) /\ Quiet
    /\ Reply(r, Ok(OwnPasses(c.token), 0))

GetPass(r, c) ==
    /\ Asks(r, c, "pass") /\ May(c) /\ Quiet
    /\ Reply(r, IF c.id \in OwnPasses(c.token) THEN Ok({c.id}, 0)
                ELSE Not("not_found"))

\* Revoking asks whether the pass is theirs, not whether it is still issued.
RevokePass_slip(r, c) ==
    /\ Asks(r, c, "revoke") /\ May(c)
    /\ LET hit == OwnPasses(c.token) \cap {c.id}
       IN  /\ passes' = [p \in DOMAIN passes |->
                IF p \in hit THEN [passes[p] EXCEPT !.status = "revoked", !.revoked_at = r]
                ELSE passes[p]]
           /\ took' = [took EXCEPT ![r] = hit]
           /\ Reply(r, IF hit # {} THEN Ok(hit, 0) ELSE Not("not_found"))
    /\ UNCHANGED notes

\* UPDATE ... WHERE id = ? AND member_id = ? AND status = 'issued'.
RevokePass(r, c) ==
    /\ Asks(r, c, "revoke") /\ May(c)
    /\ LET hit == {p \in OwnPasses(c.token) \cap {c.id} : passes[p].status = "issued"}
       IN  /\ passes' = [p \in DOMAIN passes |->
                IF p \in hit THEN [passes[p] EXCEPT !.status = "revoked", !.revoked_at = r]
                ELSE passes[p]]
           /\ took' = [took EXCEPT ![r] = hit]
           /\ Reply(r, IF hit # {} THEN Ok(hit, 0) ELSE Not("not_found"))
    /\ UNCHANGED notes

ListInbox(r, c) ==
    /\ Asks(r, c, "inbox") /\ Quiet
    /\ Reply(r, Ok(Inbox(Recipient(c.token)), 0))

UnreadCount(r, c) ==
    /\ Asks(r, c, "unread") /\ Quiet
    /\ Reply(r, Ok({}, Cardinality(Unread(Recipient(c.token)))))

\* SET read_at = NOW() on these rows.
Mark(r, hit) ==
    /\ notes' = [n \in DOMAIN notes |->
            IF n \in hit THEN [notes[n] EXCEPT !.read_at = r] ELSE notes[n]]
    /\ took' = [took EXCEPT ![r] = hit] /\ UNCHANGED passes

MarkRead(r, c) ==
    /\ Asks(r, c, "read")
    /\ LET hit == Unread(Recipient(c.token)) \cap {c.id}
       IN  Mark(r, hit) /\ Reply(r, IF hit # {} THEN Ok(hit, 0) ELSE Not("not_found"))

\* The whole inbox is counted, not what the statement changes.
MarkAllRead_slip(r, c) ==
    /\ Asks(r, c, "read_all")
    /\ LET hit == Unread(Recipient(c.token))
       IN  Mark(r, hit) /\ Reply(r, Ok({}, Cardinality(Inbox(Recipient(c.token)))))
MarkAllRead(r, c) ==
    /\ Asks(r, c, "read_all")
    /\ LET hit == Unread(Recipient(c.token))
       IN  Mark(r, hit) /\ Reply(r, Ok({}, Cardinality(hit)))

\* A decision of the approval workflows, or anything else that has something to
\* say, puts a row into an inbox.
Notify(n) ==
    /\ n \notin DOMAIN notes
    /\ \E t \in {c.token : c \in Calls} :
          notes' = [k \in DOMAIN notes \cup {n} |->
                IF k = n THEN [member_id |-> t.member, dependent_id |-> t.dependent,
                               read_at |-> None]
                ELSE notes[k]]
    /\ UNCHANGED <<passes, call, answer, took>>

\* The front desk lets a guest in; no code of the API does it.
Redeem(p) ==
    /\ passes[p].status = "issued" /\ passes' = [passes EXCEPT ![p].status = "used"]
    /\ UNCHANGED <<notes, call, answer, took>>

Handle(r, c) ==
    \/ Refuse(r, c) \/ Fail(r, c) \/ IssuePass(r, c) \/ ListPasses(r, c) \/ GetPass(r, c)
    \/ RevokePass(r, c) \/ ListInbox(r, c) \/ UnreadCount(r, c) \/ MarkRead(r, c)
    \/ MarkAllRead(r, c)
Next ==
    \/ \E r \in Requests, c \in Calls : Handle(r, c)
    \/ \E n \in Notes : Notify(n)
    \/ \E p \in DOMAIN passes : Redeem(p)
Spec == Init /\ [][Next]_vars

-----------------------------------------------------------------------------
(* Properties.                                                             *)

\* Rows, calls and answers are what the schema and the routes say; a revoked
\* pass says when, and no other does.
TypeOK ==
    /\ DOMAIN passes \subseteq PassIds /\ DOMAIN notes \subseteq Notes
    /\ \A p \in DOMAIN passes :
          passes[p] \in Pass /\ (passes[p].status = "revoked" <=> passes[p].revoked_at # None)
    /\ \A n \in DOMAIN notes :
          notes[n] \in Note /\ (notes[n].member_id = None <=> notes[n].dependent_id # None)
    /\ call \in [Requests -> Calls \cup {None}] /\ answer \in [Requests -> Answers]
    /\ took \in [Requests -> SUBSET (PassIds \cup Notes)]

\* A notification is read once, by one request, and what the requests were told
\* adds up to what was read: a single reading that raced a "read all", or was
\* sent again because its answer was lost, is not counted twice.
ReadingsAddUp ==
    \A r \in Requests :
        /\ \A n \in DOMAIN notes : notes[n].read_at = r <=> n \in took[r]
        /\ answer[r].code = "ok" /\ call[r].op = "read" => took[r] = {call[r].id}
        /\ answer[r].code = "ok" /\ call[r].op = "read_all" => answer[r].count = Cardinality(took[r])

\* Of all the calls to revoke a pass, sent twice or at once, one is told "ok",
\* and the pass is revoked by it; "not found or already used" is not said to a
\* member whose pass was there before and is still good.
RevokedOnce ==
    /\ TypeOK
    /\ \A r \in Requests :
          call[r] # None /\ call[r].op = "revoke" =>
              /\ answer[r].code = "ok" => /\ passes[call[r].id].status = "revoked"
                                         /\ passes[call[r].id].revoked_at = r
              /\ /\ answer[r].code = "not_found" /\ call[r].id \in DOMAIN OpenPasses
                 /\ call[r].id \in OwnPasses(call[r].token)
                 => passes[call[r].id].status # "issued"

\* A request changes and shows rows of the caller only, a dependent's never
\* those of the member with the same number.
Theirs(token) ==
    {p \in DOMAIN passes : token.member # None /\ passes[p].member = token.member}
    \cup {n \in DOMAIN notes : notes[n].member_id = token.member
                                /\ notes[n].dependent_id = token.dependent}
OwnDeskOnly ==
    [][\A r \in Requests : answer'[r] # answer[r] =>
          /\ took'[r] \subseteq Theirs(call[r].token)'
          /\ answer'[r].code = "ok" => answer'[r].rows \subseteq Theirs(call[r].token)']_vars

\* A pass with two ends has time between them, however they were written.
Seconds(t) == t[1] * 3600 + t[2] * 60 + (IF 3 \in DOMAIN t THEN t[3] ELSE 0)
WindowsAreOpen ==
    \A p \in DOMAIN passes :
        passes[p].from # None /\ passes[p].until # None
        => Seconds(passes[p].from) < Seconds(passes[p].until)
=============================================================================
