-------------------------- MODULE MemberDesk_proofs --------------------------
(***************************************************************************)
(* Proofs about guest passes and the inbox, for any members, dependents,   *)
(* rows and requests.                                                      *)
(*                                                                         *)
(* The statements commit one by one, so nothing is remembered between two  *)
(* of them but the rows: a row is read or revoked once because the         *)
(* statement asks for a row that is not, and what a request was told stays *)
(* true because no statement takes a reading or a revocation back.         *)
(***************************************************************************)
EXTENDS MemberDesk, FiniteSetTheorems, TLAPS

\* A request that was not handled yet was told nothing, and left no row.
Untouched == \A r \in Requests :
    call[r] = None => answer[r].code = "none" /\ took[r] = {} /\ r \notin DOMAIN passes

\* Rows are never deleted.
RowsStay == /\ DOMAIN OpenPasses \subseteq DOMAIN passes
            /\ \A r \in Requests : took[r] \subseteq DOMAIN passes \cup DOMAIN notes

\* What a request to revoke a pass was told is so.
ToldRight(r) ==
    call[r] # None /\ call[r].op = "revoke" =>
        /\ answer[r].code = "ok" => /\ call[r].id \in DOMAIN passes
                                   /\ passes[call[r].id].status = "revoked"
                                   /\ passes[call[r].id].revoked_at = r
        /\ /\ answer[r].code = "not_found" /\ call[r].id \in DOMAIN OpenPasses
           /\ passes[call[r].id].member = call[r].token.member
           => passes[call[r].id].status # "issued"

Inv == /\ TypeOK /\ Untouched /\ RowsStay /\ (\A r \in Requests : ToldRight(r))
       /\ ReadingsAddUp /\ WindowsAreOpen

-----------------------------------------------------------------------------
(* What the statements do to the rows.                                     *)

LEMMA CallFields ==
  ASSUME NEW c \in Calls
  PROVE  /\ c.token \in Tokens /\ c # None
         /\ c.op \in {"issue", "passes", "pass", "revoke", "inbox", "unread", "read_all", "read"}
         /\ c.op \in {"pass", "revoke"} => c.id \in PassIds
         /\ c.op = "read" => c.id \in Notes
         /\ c.op = "issue" => c.from \in Times \cup {None} /\ c.until \in Times \cup {None}
<1>1. c \in PassCalls \cup InboxCalls /\ None \notin Calls
  BY DeskAssumption
<1> QED
  BY <1>1 DEF PassCalls, InboxCalls

\* The seconds are a number once validate() has written them out.
LEMMA CoercedTime ==
  ASSUME NEW t \in Times
  PROVE  /\ DOMAIN Coerce(t) = 1..3
         /\ \A i \in 1..3 : Coerce(t)[i] \in 0..59
<1>1. DOMAIN t \in {1..2, 1..3} /\ \A i \in DOMAIN t : t[i] \in 0..59
  BY DeskAssumption
<1>2. CASE DOMAIN t = 1..2
  <2>1. Coerce(t) = [i \in 1..3 |-> IF i = 3 THEN 0 ELSE t[i]]
    BY <1>2 DEF Coerce
  <2>2. \A i \in 1..3 : i = 3 \/ t[i] \in 0..59
    BY <1>1, <1>2
  <2> QED
    BY <2>1, <2>2
<1>3. CASE DOMAIN t # 1..2
  BY <1>1, <1>3 DEF Coerce
<1> QED
  BY <1>2, <1>3

\* Of two times written out, the one that comes first as a text is the earlier.
LEMMA SoonerIsEarlier ==
  ASSUME NEW s, NEW t, DOMAIN s = 1..3, DOMAIN t = 1..3,
         \A i \in 1..3 : s[i] \in 0..59 /\ t[i] \in 0..59, Sooner(s, t)
  PROVE  Seconds(s) < Seconds(t)
<1>1. PICK i \in 1..3 : s[i] < t[i] /\ \A j \in 1..(i - 1) : s[j] = t[j]
  BY DEF Sooner
<1>2. /\ s[1] \in 0..59 /\ s[2] \in 0..59 /\ s[3] \in 0..59
      /\ t[1] \in 0..59 /\ t[2] \in 0..59 /\ t[3] \in 0..59
  OBVIOUS
<1>3. \/ s[1] < t[1]
      \/ s[1] = t[1] /\ s[2] < t[2]
      \/ s[1] = t[1] /\ s[2] = t[2] /\ s[3] < t[3]
  <2>1. CASE i = 1
    BY <2>1, <1>1
  <2>2. CASE i = 2
    BY <2>2, <1>1
  <2>3. CASE i = 3
    BY <2>3, <1>1
  <2> QED
    BY <2>1, <2>2, <2>3
<1>4. PICK a \in 0..59, b \in 0..59, d \in 0..59, x \in 0..59, y \in 0..59, z \in 0..59 :
         a = s[1] /\ b = s[2] /\ d = s[3] /\ x = t[1] /\ y = t[2] /\ z = t[3]
  BY <1>2
<1>5. a < x \/ (a = x /\ b < y) \/ (a = x /\ b = y /\ d < z)
  BY <1>3, <1>4
<1>6. a * 3600 + b * 60 + d < x * 3600 + y * 60 + z
  BY <1>5
<1>7. Seconds(s) = a * 3600 + b * 60 + d /\ Seconds(t) = x * 3600 + y * 60 + z
  BY <1>4 DEF Seconds
<1> QED
  BY <1>6, <1>7

\* An inbox is the caller's rows; what is unread in it can be counted.
LEMMA InboxRows ==
  ASSUME TypeOK, NEW c \in Calls
  PROVE  LET in == Inbox(Recipient(c.token))
             new == Unread(Recipient(c.token))
         IN  /\ new \subseteq in /\ in \subseteq DOMAIN notes
             /\ \A n \in in : /\ notes[n].member_id = c.token.member
                              /\ notes[n].dependent_id = c.token.dependent
             /\ \A n \in new : notes[n].read_at = None
             /\ IsFiniteSet(new) /\ Cardinality(new) \in Nat
<1> DEFINE in == Inbox(Recipient(c.token))
           new == Unread(Recipient(c.token))
<1>1. new \subseteq in /\ in \subseteq DOMAIN notes /\ \A n \in new : notes[n].read_at = None
  BY DEF Inbox, Unread
<1>2. IsFiniteSet(new) /\ Cardinality(new) \in Nat
  <2>1. new \subseteq Notes
    BY <1>1 DEF TypeOK
  <2>2. IsFiniteSet(new)
    BY <2>1, DeskAssumption, FS_Subset
  <2> QED
    BY <2>2, FS_CardinalityType
<1>3. ASSUME NEW n \in in
      PROVE  /\ notes[n].member_id = c.token.member
             /\ notes[n].dependent_id = c.token.dependent
  <2>1. c.token \in Tokens /\ None \notin Numbers
    BY CallFields, DeskAssumption
  <2>2. /\ notes[n] \in Note
        /\ notes[n].member_id = None <=> notes[n].dependent_id # None
    BY <1>1, <1>3 DEF TypeOK
  <2>3. CASE c.token.member # None
    <3>1. c.token.dependent = None
      BY <2>1, <2>3 DEF Tokens
    <3>2. notes[n].member_id = c.token.member
      BY <1>3, <2>3 DEF Inbox, Recipient
    <3> QED
      BY <2>2, <2>3, <3>1, <3>2
  <2>4. CASE c.token.member = None
    <3>1. c.token.dependent # None
      BY <2>1, <2>4 DEF Tokens
    <3>2. notes[n].dependent_id = c.token.dependent
      BY <1>3, <2>4 DEF Inbox, Recipient
    <3> QED
      BY <2>2, <2>4, <3>1, <3>2
  <2> QED
    BY <2>3, <2>4
<1> QED
  BY <1>1, <1>2, <1>3

-----------------------------------------------------------------------------
(* The invariant holds at the start, and every handler keeps it.           *)

LEMMA InitInv == Init => Inv
<1> SUFFICES ASSUME Init PROVE Inv
  OBVIOUS
<1>1. TypeOK
  <2>1. \A p \in DOMAIN passes : passes[p] \in Pass /\ passes[p].status = "issued"
                                 /\ passes[p].revoked_at = None
    BY DeskAssumption DEF Init, Pass, Statuses, Column
  <2>2. answer \in [Requests -> Answers]
    BY DEF Init, Answers
  <2>3. DOMAIN passes \subseteq PassIds /\ DOMAIN notes = {}
    BY DEF Init, PassIds
  <2> QED
    BY <2>1, <2>2, <2>3 DEF Init, TypeOK
<1>2. Untouched /\ RowsStay
  BY DeskAssumption DEF Init, Untouched, RowsStay
<1>3. ReadingsAddUp /\ \A r \in Requests : ToldRight(r)
  BY <1>1 DEF Init, ToldRight, ReadingsAddUp
<1>4. WindowsAreOpen
  BY DEF Init, WindowsAreOpen
<1> QED
  BY <1>1, <1>2, <1>3, <1>4 DEF Inv

\* What one request is told, and what it leaves, says nothing of the others.
LEMMA AnswersTyped ==
  ASSUME TypeOK, NEW r \in Requests, NEW c \in Calls, Asks(r, c, c.op),
         NEW a \in Answers, answer' = [answer EXCEPT ![r] = a]
  PROVE  /\ call' \in [Requests -> Calls \cup {None}] /\ answer' \in [Requests -> Answers]
         /\ call'[r] = c /\ answer'[r] = a /\ c # None
         /\ \A q \in Requests \ {r} : call'[q] = call[q] /\ answer'[q] = answer[q]
BY CallFields DEF TypeOK, Asks

\* A handler that changes no row, and claims no reading and no revocation.
LEMMA QuietInv ==
  ASSUME Inv, NEW r \in Requests, NEW c \in Calls, Asks(r, c, c.op), Quiet,
         NEW a \in Answers, answer' = [answer EXCEPT ![r] = a],
         a.code = "ok" => c.op \notin {"revoke", "read", "read_all"},
         a.code = "not_found" => c.op # "revoke"
  PROVE  Inv'
<1> USE DEF Quiet
<1>1. TypeOK
  BY DEF Inv
<1>2. /\ call' \in [Requests -> Calls \cup {None}] /\ answer' \in [Requests -> Answers]
      /\ call'[r] = c /\ answer'[r] = a /\ c # None
      /\ \A q \in Requests \ {r} : call'[q] = call[q] /\ answer'[q] = answer[q]
  BY <1>1, AnswersTyped
<1>3. TypeOK'
  BY <1>1, <1>2 DEF TypeOK
<1>4. took[r] = {}
  BY DEF Inv, Untouched, Asks
<1>5. Untouched' /\ RowsStay' /\ WindowsAreOpen'
  BY <1>2 DEF Inv, Untouched, RowsStay, WindowsAreOpen
<1>6. ASSUME NEW q \in Requests PROVE ToldRight(q)'
  <2>1. CASE q = r
    BY <1>2, <2>1 DEF ToldRight
  <2>2. CASE q # r
    BY <1>2, <2>2 DEF Inv, ToldRight
  <2> QED
    BY <2>1, <2>2
<1>7. ReadingsAddUp'
  <2>1. ASSUME NEW q \in Requests
        PROVE  /\ \A n \in DOMAIN notes : notes[n].read_at = q <=> n \in took[q]
               /\ answer'[q].code = "ok" /\ call'[q].op = "read" => took[q] = {call'[q].id}
               /\ answer'[q].code = "ok" /\ call'[q].op = "read_all"
                  => answer'[q].count = Cardinality(took[q])
    <3>1. CASE q = r
      BY <1>2, <3>1 DEF Inv, ReadingsAddUp
    <3>2. CASE q # r
      BY <1>2, <3>2 DEF Inv, ReadingsAddUp
    <3> QED
      BY <3>1, <3>2
  <2> QED
    BY <2>1 DEF ReadingsAddUp
<1> QED
  BY <1>3, <1>5, <1>6, <1>7 DEF Inv

\* A new pass has the window that was asked for, which the handler found open.
LEMMA IssueInv ==
  ASSUME Inv, NEW r \in Requests, NEW c \in Calls, IssuePass(r, c)
  PROVE  Inv'
<1> DEFINE row == [member |-> c.token.member, from |-> Column(c.from),
                   until |-> Column(c.until), status |-> "issued", revoked_at |-> None]
<1>1. TypeOK /\ call[r] = None /\ r \notin DOMAIN passes /\ r \in PassIds /\ took[r] = {}
  BY DEF Inv, Untouched, IssuePass, Asks, PassIds
<1>2. /\ passes' = [p \in DOMAIN passes \cup {r} |-> IF p = r THEN row ELSE passes[p]]
      /\ took' = [took EXCEPT ![r] = {r}] /\ notes' = notes
      /\ c.op = "issue" /\ Asks(r, c, c.op) /\ May(c) /\ ~WindowRefused(c)
  BY DEF IssuePass, Asks
<1>3. PICK a \in Answers : answer' = [answer EXCEPT ![r] = a]
  BY <1>1 DEF IssuePass, Reply, Ok, Not, Answers
<1>4. /\ call' \in [Requests -> Calls \cup {None}] /\ answer' \in [Requests -> Answers]
      /\ call'[r] = c /\ answer'[r] = a /\ c # None
      /\ \A q \in Requests \ {r} : call'[q] = call[q] /\ answer'[q] = answer[q]
  BY <1>1, <1>2, <1>3, AnswersTyped
<1>5. /\ DOMAIN passes' = DOMAIN passes \cup {r} /\ passes'[r] = row
      /\ \A p \in DOMAIN passes : passes'[p] = passes[p]
  BY <1>1, <1>2
<1>6. row \in Pass /\ row.status = "issued" /\ row.revoked_at = None
  <2>1. c.token.member \in Numbers
    BY <1>2, CallFields DEF May, PrimaryOnly, Tokens
  <2>2. c.from \in Times \cup {None} /\ c.until \in Times \cup {None}
    BY <1>2, CallFields
  <2> QED
    BY <2>1, <2>2 DEF Pass, Statuses
<1>7. took'[r] = {r} /\ \A q \in Requests \ {r} : took'[q] = took[q]
  BY <1>1, <1>2 DEF TypeOK
<1> HIDE DEF row
<1>8. TypeOK'
  <2>1. took' \in [Requests -> SUBSET (PassIds \cup Notes)]
    BY <1>1, <1>2 DEF TypeOK
  <2>2. \A p \in DOMAIN passes' :
           passes'[p] \in Pass /\ (passes'[p].status = "revoked" <=> passes'[p].revoked_at # None)
    BY <1>1, <1>5, <1>6 DEF TypeOK
  <2> QED
    BY <1>1, <1>2, <1>4, <1>5, <2>1, <2>2 DEF TypeOK
<1>9. Untouched' /\ RowsStay'
  BY <1>2, <1>4, <1>5, <1>7 DEF Inv, Untouched, RowsStay
<1>10. WindowsAreOpen'
  <2>1. row.from = Column(c.from) /\ row.until = Column(c.until)
    BY DEF row
  <2>2. ASSUME row.from # None, row.until # None
        PROVE  Seconds(row.from) < Seconds(row.until)
    <3>1. /\ c.from \in Times /\ c.until \in Times
          /\ row.from = Coerce(c.from) /\ row.until = Coerce(c.until)
      BY <1>2, <2>1, <2>2, CallFields DEF Column
    <3>2. c.from # None /\ c.until # None
      BY <3>1, DeskAssumption
    <3>3. Sooner(Coerce(c.from), Coerce(c.until))
      BY <1>2, <3>2 DEF WindowRefused
    <3> QED
      BY <3>1, <3>3, CoercedTime, SoonerIsEarlier
  <2> QED
    BY <1>5, <2>2 DEF Inv, WindowsAreOpen
<1>11. ASSUME NEW q \in Requests PROVE ToldRight(q)'
  <2>1. CASE q = r
    BY <1>2, <1>4, <2>1 DEF ToldRight
  <2>2. CASE q # r
    <3>1. ToldRight(q) /\ call'[q] = call[q] /\ answer'[q] = answer[q]
      BY <1>4, <2>2 DEF Inv
    <3>2. call[q].id \in DOMAIN OpenPasses => call[q].id \in DOMAIN passes
      BY DEF Inv, RowsStay
    <3> QED
      BY <1>5, <3>1, <3>2 DEF ToldRight
  <2> QED
    BY <2>1, <2>2
<1>12. ReadingsAddUp'
  <2>1. r \notin Notes
    BY <1>1, DeskAssumption
  <2>2. ASSUME NEW q \in Requests
        PROVE  /\ \A n \in DOMAIN notes : notes[n].read_at = q <=> n \in took'[q]
               /\ answer'[q].code = "ok" /\ call'[q].op = "read" => took'[q] = {call'[q].id}
               /\ answer'[q].code = "ok" /\ call'[q].op = "read_all"
                  => answer'[q].count = Cardinality(took'[q])
    <3>1. CASE q = r
      BY <1>1, <1>2, <1>4, <1>7, <2>1, <3>1 DEF Inv, ReadingsAddUp, TypeOK
    <3>2. CASE q # r
      BY <1>4, <1>7, <3>2 DEF Inv, ReadingsAddUp
    <3> QED
      BY <3>1, <3>2
  <2> QED
    BY <1>2, <2>2 DEF ReadingsAddUp
<1> QED
  BY <1>8, <1>9, <1>10, <1>11, <1>12 DEF Inv

\* Of a pass only the status and the time change, and only away from "issued".
LEMMA UsedRow ==
  ASSUME NEW p \in Pass, NEW q, q = [p EXCEPT !.status = "used"]
  PROVE  /\ q \in Pass /\ q.status = "used" /\ q.revoked_at = p.revoked_at
         /\ q.member = p.member /\ q.from = p.from /\ q.until = p.until
BY DEF Pass, Statuses

\* The statement revokes a pass that was issued, and the handler says so; else
\* it says that there is none, which is so.
LEMMA RevokeInv ==
  ASSUME Inv, NEW r \in Requests, NEW c \in Calls, RevokePass(r, c)
  PROVE  Inv'
<1> DEFINE hit == {p \in OwnPasses(c.token) \cap {c.id} : passes[p].status = "issued"}
           told == IF hit # {} THEN Ok(hit, 0) ELSE Not("not_found")
<1>1. TypeOK /\ call[r] = None /\ took[r] = {}
  BY DEF Inv, Untouched, RevokePass, Asks
<1>2. /\ passes' = [p \in DOMAIN passes |->
             IF p \in hit THEN [passes[p] EXCEPT !.status = "revoked", !.revoked_at = r]
             ELSE passes[p]]
      /\ took' = [took EXCEPT ![r] = hit] /\ notes' = notes /\ Reply(r, told)
      /\ c.op = "revoke" /\ Asks(r, c, c.op)
  BY DEF RevokePass, Asks
<1>3. hit \subseteq DOMAIN passes /\ hit \subseteq {c.id} /\ hit \subseteq PassIds
      /\ \A p \in hit : passes[p].status = "issued" /\ passes[p].member = c.token.member
  BY <1>1 DEF OwnPasses, TypeOK
<1>4. PICK a \in {told, Not("failed")} : answer' = [answer EXCEPT ![r] = a]
  BY <1>2 DEF Reply
<1>5. /\ a \in Answers
      /\ a.code = "ok" => hit = {c.id}
      /\ a.code = "not_found" => hit = {}
  <2>1. CASE hit = {}
    BY <1>4, <2>1 DEF Not, Answers
  <2>2. CASE hit # {}
    BY <1>3, <1>4, <2>2 DEF Not, Ok, Answers
  <2> QED
    BY <2>1, <2>2
<1>6. /\ call' \in [Requests -> Calls \cup {None}] /\ answer' \in [Requests -> Answers]
      /\ call'[r] = c /\ answer'[r] = a /\ c # None
      /\ \A q \in Requests \ {r} : call'[q] = call[q] /\ answer'[q] = answer[q]
  <2>1. Asks(r, c, c.op) /\ a \in Answers
    BY <1>2, <1>5
  <2> HIDE DEF hit, told
  <2> QED
    BY <1>1, <1>4, <2>1, AnswersTyped
<1>7. took'[r] = hit /\ \A q \in Requests \ {r} : took'[q] = took[q]
  BY <1>1, <1>2 DEF TypeOK
<1>8. /\ DOMAIN passes' = DOMAIN passes
      /\ \A p \in DOMAIN passes \ hit : passes'[p] = passes[p]
      /\ \A p \in hit : passes'[p].status = "revoked" /\ passes'[p].revoked_at = r
      /\ \A p \in DOMAIN passes :
            /\ passes'[p] \in Pass /\ passes'[p].member = passes[p].member
            /\ passes'[p].from = passes[p].from /\ passes'[p].until = passes[p].until
  <2>1. \A p \in DOMAIN passes : passes[p] \in Pass
    BY <1>1 DEF TypeOK
  <2>3. \A p \in hit : passes'[p] = [passes[p] EXCEPT !.status = "revoked", !.revoked_at = r]
    BY <1>2, <1>3
  <2>4. \A p \in hit : /\ passes'[p].status = "revoked" /\ passes'[p].revoked_at = r
                       /\ passes'[p] \in Pass /\ passes'[p].member = passes[p].member
                       /\ passes'[p].from = passes[p].from /\ passes'[p].until = passes[p].until
    <3> HIDE DEF hit
    <3> SUFFICES ASSUME NEW p \in hit
                 PROVE  /\ passes'[p].status = "revoked" /\ passes'[p].revoked_at = r
                        /\ passes'[p] \in Pass /\ passes'[p].member = passes[p].member
                        /\ passes'[p].from = passes[p].from
                        /\ passes'[p].until = passes[p].until
      OBVIOUS
    <3>1. passes[p] \in Pass
      BY <1>3, <2>1
    <3>2. passes'[p] = [passes[p] EXCEPT !.status = "revoked", !.revoked_at = r]
      BY <2>3
    <3> QED
      BY <3>1, <3>2 DEF Pass, Statuses
  <2>5. DOMAIN passes' = DOMAIN passes /\ \A p \in DOMAIN passes \ hit : passes'[p] = passes[p]
    BY <1>2
  <2> QED
    BY <2>1, <2>4, <2>5
<1> HIDE DEF hit, told
<1>9. TypeOK'
  <2>1. \A p \in DOMAIN passes :
           passes'[p] \in Pass /\ (passes'[p].status = "revoked" <=> passes'[p].revoked_at # None)
    BY <1>1, <1>8, DeskAssumption DEF TypeOK, PassIds
  <2>2. took' \in [Requests -> SUBSET (PassIds \cup Notes)]
    BY <1>1, <1>2, <1>3 DEF TypeOK
  <2> QED
    BY <1>1, <1>2, <1>6, <1>8, <2>1, <2>2 DEF TypeOK
<1>10. Untouched' /\ RowsStay'
  <2>1. \A q \in Requests \ {r} : call'[q] = None =>
           answer'[q].code = "none" /\ took'[q] = {} /\ q \notin DOMAIN passes'
    BY <1>6, <1>7, <1>8 DEF Inv, Untouched
  <2>2. \A q \in Requests : took'[q] \subseteq DOMAIN passes' \cup DOMAIN notes'
    BY <1>2, <1>3, <1>7, <1>8 DEF Inv, RowsStay
  <2> QED
    BY <1>6, <1>8, <2>1, <2>2 DEF Inv, Untouched, RowsStay
<1>11. WindowsAreOpen'
  BY <1>8 DEF Inv, WindowsAreOpen
<1>12. ASSUME NEW q \in Requests PROVE ToldRight(q)'
  <2> DEFINE id == call'[q].id
  <2>1. id \in DOMAIN OpenPasses => id \in DOMAIN passes
    BY DEF Inv, RowsStay
  <2>2. CASE q = r
    <3>1. call'[q] = c /\ answer'[q] = a /\ id = c.id
      BY <1>6, <2>2
    <3>2. a.code = "ok" => id \in hit
      BY <1>5, <3>1
    <3>3. ASSUME a.code = "not_found", id \in DOMAIN OpenPasses,
                 passes'[id].member = c.token.member
          PROVE  passes'[id].status # "issued"
      <4>1. id \notin hit /\ id \in DOMAIN passes /\ passes[id].member = c.token.member
        BY <1>5, <1>8, <2>1, <3>3
      <4>2. passes[id].status # "issued"
        BY <3>1, <4>1 DEF hit, OwnPasses
      <4> QED
        BY <1>8, <4>1, <4>2
    <3>4. a.code = "ok" => /\ id \in DOMAIN passes'
                           /\ passes'[id].status = "revoked" /\ passes'[id].revoked_at = q
      BY <1>3, <1>8, <2>2, <3>2
    <3> QED
      BY <3>1, <3>3, <3>4 DEF ToldRight
  <2>3. CASE q # r
    <3>1. ToldRight(q) /\ call'[q] = call[q] /\ answer'[q] = answer[q]
      BY <1>6, <2>3 DEF Inv
    <3>2. ASSUME id \in DOMAIN passes, passes[id].status = "revoked"
          PROVE  passes'[id] = passes[id]
      BY <1>3, <1>8, <3>2
    <3>3. ASSUME id \in DOMAIN passes, passes[id].status # "issued"
          PROVE  passes'[id].status # "issued"
      BY <1>3, <1>8, <3>3
    <3>4. id \in DOMAIN passes => passes'[id].member = passes[id].member
      BY <1>8
    <3> QED
      BY <1>8, <2>1, <3>1, <3>2, <3>3, <3>4 DEF ToldRight
  <2> QED
    BY <2>2, <2>3
<1>13. ReadingsAddUp'
  <2>1. \A n \in DOMAIN notes : n \notin hit
    BY <1>1, <1>3, DeskAssumption DEF TypeOK
  <2>2. ASSUME NEW q \in Requests
        PROVE  /\ \A n \in DOMAIN notes : notes[n].read_at = q <=> n \in took'[q]
               /\ answer'[q].code = "ok" /\ call'[q].op = "read" => took'[q] = {call'[q].id}
               /\ answer'[q].code = "ok" /\ call'[q].op = "read_all"
                  => answer'[q].count = Cardinality(took'[q])
    <3>1. CASE q = r
      BY <1>1, <1>2, <1>6, <1>7, <2>1, <3>1 DEF Inv, ReadingsAddUp
    <3>2. CASE q # r
      BY <1>6, <1>7, <3>2 DEF Inv, ReadingsAddUp
    <3> QED
      BY <3>1, <3>2
  <2> QED
    BY <1>2, <2>2 DEF ReadingsAddUp
<1> QED
  BY <1>9, <1>10, <1>11, <1>12, <1>13 DEF Inv

\* Marking takes what was unread, and what is said of it counts the rows.
LEMMA MarkInv ==
  ASSUME Inv, NEW r \in Requests, NEW c \in Calls, NEW hit, Asks(r, c, c.op), Mark(r, hit),
         c.op # "revoke", hit \subseteq Unread(Recipient(c.token)),
         NEW a \in Answers, answer' = [answer EXCEPT ![r] = a],
         a.code = "ok" /\ c.op = "read" => hit = {c.id},
         a.code = "ok" /\ c.op = "read_all" => a.count = Cardinality(hit)
  PROVE  Inv'
<1>1. TypeOK /\ call[r] = None /\ took[r] = {} /\ r \in PassIds /\ r # None
  BY DeskAssumption DEF Inv, Untouched, Asks, PassIds
<1>2. /\ hit \subseteq DOMAIN notes
      /\ \A n \in hit : notes[n].read_at = None
  BY <1>1, InboxRows
<1>3. /\ notes' = [n \in DOMAIN notes |->
             IF n \in hit THEN [notes[n] EXCEPT !.read_at = r] ELSE notes[n]]
      /\ took' = [took EXCEPT ![r] = hit] /\ passes' = passes
  BY DEF Mark
<1>4. /\ call' \in [Requests -> Calls \cup {None}] /\ answer' \in [Requests -> Answers]
      /\ call'[r] = c /\ answer'[r] = a /\ c # None
      /\ \A q \in Requests \ {r} : call'[q] = call[q] /\ answer'[q] = answer[q]
  BY <1>1, AnswersTyped
<1>5. took'[r] = hit /\ \A q \in Requests \ {r} : took'[q] = took[q]
  BY <1>1, <1>3 DEF TypeOK
<1>6. /\ DOMAIN notes' = DOMAIN notes
      /\ \A n \in DOMAIN notes \ hit : notes'[n] = notes[n]
      /\ \A n \in hit : /\ notes'[n].read_at = r /\ notes'[n] \in Note
                        /\ notes'[n].member_id = notes[n].member_id
                        /\ notes'[n].dependent_id = notes[n].dependent_id
  <2>1. ASSUME NEW n \in hit
        PROVE  /\ notes'[n].read_at = r /\ notes'[n] \in Note
               /\ notes'[n].member_id = notes[n].member_id
               /\ notes'[n].dependent_id = notes[n].dependent_id
    <3>1. notes[n] \in Note
      BY <1>1, <1>2 DEF TypeOK
    <3>2. notes'[n] = [notes[n] EXCEPT !.read_at = r]
      BY <1>2, <1>3
    <3> QED
      BY <3>1, <3>2 DEF Note
  <2> QED
    BY <1>3, <2>1
<1>7. TypeOK'
  <2>1. \A n \in DOMAIN notes :
           notes'[n] \in Note /\ (notes'[n].member_id = None <=> notes'[n].dependent_id # None)
    BY <1>1, <1>6 DEF TypeOK
  <2>2. hit \subseteq Notes
    BY <1>1, <1>2 DEF TypeOK
  <2>3. took' \in [Requests -> SUBSET (PassIds \cup Notes)]
    BY <1>1, <1>3, <2>2 DEF TypeOK
  <2> QED
    BY <1>1, <1>3, <1>4, <1>6, <2>1, <2>3 DEF TypeOK
<1>8. Untouched' /\ RowsStay' /\ WindowsAreOpen'
  BY <1>2, <1>3, <1>4, <1>5, <1>6 DEF Inv, Untouched, RowsStay, WindowsAreOpen
<1>9. ASSUME NEW q \in Requests PROVE ToldRight(q)'
  <2>1. CASE q = r
    BY <1>4, <2>1 DEF ToldRight
  <2>2. CASE q # r
    BY <1>3, <1>4, <2>2 DEF Inv, ToldRight
  <2> QED
    BY <2>1, <2>2
<1>10. ReadingsAddUp'
  <2>1. ASSUME NEW q \in Requests, NEW n \in DOMAIN notes
        PROVE  notes'[n].read_at = q <=> n \in took'[q]
    <3>1. notes[n].read_at = q <=> n \in took[q]
      BY DEF Inv, ReadingsAddUp
    <3>2. CASE q = r
      BY <1>1, <1>5, <1>6, <3>1, <3>2
    <3>3. CASE q # r
      <4>1. n \in hit => notes[n].read_at # q /\ notes'[n].read_at # q
        BY <1>2, <1>6, <3>3, DeskAssumption DEF PassIds
      <4> QED
        BY <1>5, <1>6, <3>1, <3>3, <4>1
    <3> QED
      BY <3>2, <3>3
  <2>2. ASSUME NEW q \in Requests
        PROVE  /\ answer'[q].code = "ok" /\ call'[q].op = "read" => took'[q] = {call'[q].id}
               /\ answer'[q].code = "ok" /\ call'[q].op = "read_all"
                  => answer'[q].count = Cardinality(took'[q])
    <3>1. CASE q = r
      BY <1>4, <1>5, <3>1
    <3>2. CASE q # r
      BY <1>4, <1>5, <3>2 DEF Inv, ReadingsAddUp
    <3> QED
      BY <3>1, <3>2
  <2> QED
    BY <1>6, <2>1, <2>2 DEF ReadingsAddUp
<1> QED
  BY <1>7, <1>8, <1>9, <1>10 DEF Inv

\* A new notification is unread, by every request there was.
LEMMA NotifyInv ==
  ASSUME Inv, NEW m \in Notes, Notify(m)
  PROVE  Inv'
<1>1. TypeOK /\ m \notin DOMAIN notes /\ UNCHANGED <<passes, call, answer, took>>
  BY DEF Inv, Notify
<1>2. PICK c \in Calls :
         notes' = [k \in DOMAIN notes \cup {m} |->
             IF k = m THEN [member_id |-> c.token.member, dependent_id |-> c.token.dependent,
                            read_at |-> None]
             ELSE notes[k]]
  BY DEF Notify
<1>3. /\ DOMAIN notes' = DOMAIN notes \cup {m}
      /\ \A n \in DOMAIN notes : notes'[n] = notes[n]
      /\ notes'[m] = [member_id |-> c.token.member, dependent_id |-> c.token.dependent,
                      read_at |-> None]
  BY <1>1, <1>2
<1>4. /\ notes'[m] \in Note /\ notes'[m].read_at = None
      /\ notes'[m].member_id = None <=> notes'[m].dependent_id # None
  <2>1. c.token \in Tokens /\ None \notin Numbers
    BY CallFields, DeskAssumption
  <2> QED
    BY <1>3, <2>1 DEF Tokens, Note
<1>5. TypeOK'
  <2>1. \A n \in DOMAIN notes' :
           notes'[n] \in Note /\ (notes'[n].member_id = None <=> notes'[n].dependent_id # None)
    BY <1>1, <1>3, <1>4 DEF TypeOK
  <2> QED
    BY <1>1, <1>3, <2>1 DEF TypeOK
<1>6. Untouched' /\ RowsStay' /\ WindowsAreOpen'
  BY <1>1, <1>3 DEF Inv, Untouched, RowsStay, WindowsAreOpen
<1>7. \A q \in Requests : ToldRight(q)'
  BY <1>1 DEF Inv, ToldRight
<1>8. ReadingsAddUp'
  <2>1. ASSUME NEW q \in Requests
        PROVE  m \notin took[q] /\ q # None
    <3>1. m \notin DOMAIN passes
      BY <1>1, DeskAssumption DEF TypeOK
    <3> QED
      BY <1>1, <3>1, DeskAssumption DEF Inv, RowsStay, PassIds
  <2> QED
    BY <1>1, <1>3, <1>4, <2>1 DEF Inv, ReadingsAddUp
<1> QED
  BY <1>5, <1>6, <1>7, <1>8 DEF Inv

\* A pass that is used was issued, so no request was told that it revoked it.
LEMMA RedeemInv ==
  ASSUME Inv, NEW p \in DOMAIN passes, Redeem(p)
  PROVE  Inv'
<1>1. TypeOK /\ passes[p].status = "issued" /\ UNCHANGED <<notes, call, answer, took>>
  BY DEF Inv, Redeem
<1>2. /\ DOMAIN passes' = DOMAIN passes
      /\ \A k \in DOMAIN passes \ {p} : passes'[k] = passes[k]
      /\ passes'[p] = [passes[p] EXCEPT !.status = "used"]
  BY DEF Redeem
<1>3. /\ passes'[p] \in Pass /\ passes'[p].status = "used"
      /\ passes'[p].revoked_at = passes[p].revoked_at
      /\ passes'[p].member = passes[p].member
      /\ passes'[p].from = passes[p].from /\ passes'[p].until = passes[p].until
  <2>1. passes[p] \in Pass
    BY <1>1 DEF TypeOK
  <2> QED
    BY <1>2, <2>1 DEF Pass, Statuses
<1>4. TypeOK'
  <2>1. \A k \in DOMAIN passes' :
           passes'[k] \in Pass /\ (passes'[k].status = "revoked" <=> passes'[k].revoked_at # None)
    <3>1. passes[p].revoked_at = None
      BY <1>1 DEF TypeOK
    <3>2. \A k \in DOMAIN passes \ {p} :
             passes'[k] \in Pass
             /\ (passes'[k].status = "revoked" <=> passes'[k].revoked_at # None)
      BY <1>1, <1>2 DEF TypeOK
    <3> QED
      BY <1>2, <1>3, <3>1, <3>2
  <2> QED
    BY <1>1, <1>2, <2>1 DEF TypeOK
<1>5. Untouched' /\ RowsStay' /\ WindowsAreOpen' /\ ReadingsAddUp'
  <2>1. Untouched' /\ RowsStay'
    BY <1>1, <1>2 DEF Inv, Untouched, RowsStay
  <2>2. ReadingsAddUp'
    BY <1>1 DEF Inv, ReadingsAddUp
  <2>3. \A k \in DOMAIN passes : passes'[k].from = passes[k].from
                                /\ passes'[k].until = passes[k].until
    BY <1>2, <1>3
  <2>4. WindowsAreOpen'
    BY <1>2, <2>3 DEF Inv, WindowsAreOpen
  <2> QED
    BY <2>1, <2>2, <2>4
<1>6. ASSUME NEW q \in Requests PROVE ToldRight(q)'
  <2>1. ToldRight(q) /\ DOMAIN OpenPasses \subseteq DOMAIN passes
    BY DEF Inv, RowsStay
  <2> QED
    BY <1>1, <1>2, <1>3, <2>1 DEF ToldRight
<1> QED
  BY <1>4, <1>5, <1>6 DEF Inv

-----------------------------------------------------------------------------
(* What the handlers answer.                                               *)

LEMMA AnswersExist ==
  /\ \A code \in {"invalid", "forbidden", "not_found", "failed", "none"} :
        Not(code) \in Answers /\ Not(code).code = code
  /\ \A rows \in SUBSET (PassIds \cup Notes), n \in Nat :
        /\ Ok(rows, n) \in Answers /\ Ok(rows, n).code = "ok"
        /\ Ok(rows, n).rows = rows /\ Ok(rows, n).count = n
BY DEF Not, Ok, Answers

\* The rows an answer shows are rows of the tables.
LEMMA Shown ==
  ASSUME TypeOK, NEW c \in Calls
  PROVE  /\ OwnPasses(c.token) \subseteq PassIds
         /\ Inbox(Recipient(c.token)) \subseteq Notes
BY InboxRows DEF TypeOK, OwnPasses

\* Every operation that only looks.
Look(r, c) == ListPasses(r, c) \/ GetPass(r, c) \/ ListInbox(r, c) \/ UnreadCount(r, c)

LEMMA LookInv ==
  ASSUME Inv, NEW r \in Requests, NEW c \in Calls,
         Refuse(r, c) \/ Fail(r, c) \/ Look(r, c)
  PROVE  Inv'
<1>1. TypeOK
  BY DEF Inv
<1>2. Asks(r, c, c.op) /\ Quiet
  BY DEF Refuse, Fail, Look, ListPasses, GetPass, ListInbox, UnreadCount, Asks
<1>3. Cardinality(Unread(Recipient(c.token))) \in Nat
  BY <1>1, InboxRows
<1>4. PICK a \in Answers :
         /\ answer' = [answer EXCEPT ![r] = a]
         /\ a.code = "ok" => c.op \notin {"revoke", "read", "read_all"}
         /\ a.code = "not_found" => c.op # "revoke"
  <2>1. CASE Refuse(r, c) \/ Fail(r, c)
    BY <2>1, AnswersExist DEF Refuse, Fail
  <2>2. CASE ListPasses(r, c)
    <3>1. Ok(OwnPasses(c.token), 0) \in Answers /\ c.op = "passes"
      BY <1>1, <2>2, Shown, AnswersExist DEF ListPasses, Asks
    <3> QED
      BY <2>2, <3>1, AnswersExist DEF ListPasses, Reply
  <2>3. CASE GetPass(r, c)
    <3>1. c.op = "pass" /\ (c.id \in OwnPasses(c.token) => Ok({c.id}, 0) \in Answers)
      BY <1>1, <2>3, Shown, AnswersExist DEF GetPass, Asks
    <3>2. PICK told \in Answers : Reply(r, told)
      BY <2>3, <3>1, AnswersExist DEF GetPass
    <3> QED
      BY <3>1, <3>2, AnswersExist DEF Reply
  <2>4. CASE ListInbox(r, c)
    <3>1. Ok(Inbox(Recipient(c.token)), 0) \in Answers /\ c.op = "inbox"
      BY <1>1, <2>4, Shown, AnswersExist DEF ListInbox, Asks
    <3> QED
      BY <2>4, <3>1, AnswersExist DEF ListInbox, Reply
  <2>5. CASE UnreadCount(r, c)
    <3>1. Ok({}, Cardinality(Unread(Recipient(c.token)))) \in Answers /\ c.op = "unread"
      BY <1>3, <2>5, AnswersExist DEF UnreadCount, Asks
    <3> QED
      BY <2>5, <3>1, AnswersExist DEF UnreadCount, Reply
  <2> QED
    BY <2>1, <2>2, <2>3, <2>4, <2>5 DEF Look
<1> QED
  BY <1>2, <1>4, QuietInv

LEMMA MarkReadInv ==
  ASSUME Inv, NEW r \in Requests, NEW c \in Calls, MarkRead(r, c)
  PROVE  Inv'
<1> DEFINE hit == Unread(Recipient(c.token)) \cap {c.id}
           told == IF hit # {} THEN Ok(hit, 0) ELSE Not("not_found")
<1>1. Asks(r, c, c.op) /\ c.op = "read" /\ Mark(r, hit) /\ Reply(r, told)
  BY DEF MarkRead, Asks
<1>2. hit \subseteq Unread(Recipient(c.token)) /\ hit \subseteq Notes
  BY InboxRows, Shown DEF Inv
<1>3. told \in Answers /\ (told.code = "ok" => hit = {c.id})
  BY <1>2, AnswersExist
<1> HIDE DEF hit, told
<1>4. PICK a \in Answers : answer' = [answer EXCEPT ![r] = a] /\ (a.code = "ok" => hit = {c.id})
  BY <1>1, <1>3, AnswersExist DEF Reply
<1> QED
  BY <1>1, <1>2, <1>4, MarkInv

LEMMA MarkAllReadInv ==
  ASSUME Inv, NEW r \in Requests, NEW c \in Calls, MarkAllRead(r, c)
  PROVE  Inv'
<1> DEFINE hit == Unread(Recipient(c.token))
           told == Ok({}, Cardinality(hit))
<1>1. Asks(r, c, c.op) /\ c.op = "read_all" /\ Mark(r, hit) /\ Reply(r, told)
  BY DEF MarkAllRead, Asks
<1>2. told \in Answers /\ told.count = Cardinality(hit)
  BY InboxRows, AnswersExist DEF Inv
<1>3. hit \subseteq Unread(Recipient(c.token))
  OBVIOUS
<1> HIDE DEF hit, told
<1>4. PICK a \in Answers : /\ answer' = [answer EXCEPT ![r] = a]
                           /\ a.code = "ok" => a.count = Cardinality(hit)
  BY <1>1, <1>2, AnswersExist DEF Reply
<1> QED
  BY <1>1, <1>3, <1>4, MarkInv

LEMMA NextInv == Inv /\ [Next]_vars => Inv'
<1> SUFFICES ASSUME Inv, [Next]_vars PROVE Inv'
  OBVIOUS
<1>1. ASSUME NEW r \in Requests, NEW c \in Calls, Handle(r, c) PROVE Inv'
  BY <1>1, LookInv, IssueInv, RevokeInv, MarkReadInv, MarkAllReadInv DEF Handle, Look
<1>2. ASSUME NEW n \in Notes, Notify(n) PROVE Inv'
  BY <1>2, NotifyInv
<1>3. ASSUME NEW p \in DOMAIN passes, Redeem(p) PROVE Inv'
  BY <1>3, RedeemInv
<1>4. CASE UNCHANGED vars
  BY <1>4 DEF vars, Inv, TypeOK, Untouched, RowsStay, ToldRight, ReadingsAddUp, WindowsAreOpen
<1> QED
  BY <1>1, <1>2, <1>3, <1>4 DEF Next

LEMMA InvHolds == Spec => []Inv
BY InitInv, NextInv, PTL DEF Spec

-----------------------------------------------------------------------------
(* What follows.                                                           *)

\* A notification is read by one request, and the readings that were told add up
\* to the rows that were read.
THEOREM ReadingsHold == Spec => []ReadingsAddUp
<1>1. Inv => ReadingsAddUp
  BY DEF Inv
<1> QED
  BY <1>1, InvHolds, PTL

\* Of all the calls to revoke a pass one is told "ok", and none is told that a
\* good pass is gone; and every variable has its type.
THEOREM RevocationHolds == Spec => []RevokedOnce
<1>1. Inv => RevokedOnce
  BY DEF Inv, RevokedOnce, ToldRight, OwnPasses
<1> QED
  BY <1>1, InvHolds, PTL

\* A pass with two ends has time between them, in seconds and not only as text.
THEOREM WindowsHold == Spec => []WindowsAreOpen
<1>1. Inv => WindowsAreOpen
  BY DEF Inv
<1> QED
  BY <1>1, InvHolds, PTL

-----------------------------------------------------------------------------
(* A request stays with its caller's rows.                                 *)

\* What a handler that runs for a caller may change and show.
LEMMA RowsOfCaller ==
  ASSUME TypeOK, NEW c \in Calls
  PROVE  /\ Inbox(Recipient(c.token)) \subseteq Theirs(c.token)
         /\ May(c) /\ c.op \in PrimaryOnly => OwnPasses(c.token) \subseteq Theirs(c.token)
BY InboxRows DEF Theirs, May, OwnPasses

\* A statement that hands over no row leaves the caller his rows.
LEMMA SameOwners ==
  ASSUME TypeOK, NEW c \in Calls,
         DOMAIN passes \subseteq DOMAIN passes', DOMAIN notes \subseteq DOMAIN notes',
         \A p \in DOMAIN passes : passes'[p].member = passes[p].member,
         \A n \in DOMAIN notes : /\ notes'[n].member_id = notes[n].member_id
                                 /\ notes'[n].dependent_id = notes[n].dependent_id
  PROVE  Theirs(c.token) \subseteq Theirs(c.token)'
BY DEF Theirs

LEMMA LookIsOwn ==
  ASSUME Inv, NEW r \in Requests, NEW c \in Calls,
         Refuse(r, c) \/ Fail(r, c) \/ Look(r, c)
  PROVE  /\ took'[r] \subseteq Theirs(c.token)'
         /\ answer'[r].code = "ok" => answer'[r].rows \subseteq Theirs(c.token)'
<1>1. TypeOK
  BY DEF Inv
<1>2. Asks(r, c, c.op) /\ Quiet
  BY DEF Refuse, Fail, Look, ListPasses, GetPass, ListInbox, UnreadCount, Asks
<1>3. Theirs(c.token)' = Theirs(c.token) /\ took'[r] = {}
  BY <1>2 DEF Inv, Untouched, Asks, Quiet, Theirs
<1>4. \A a \in Answers : answer' = [answer EXCEPT ![r] = a] => answer'[r] = a
  BY <1>1 DEF TypeOK
<1>5. answer'[r].code = "ok" => answer'[r].rows \subseteq Theirs(c.token)
  <2>1. CASE Refuse(r, c) \/ Fail(r, c)
    BY <1>4, <2>1, AnswersExist DEF Refuse, Fail
  <2>2. CASE ListPasses(r, c)
    <3>1. OwnPasses(c.token) \subseteq Theirs(c.token) /\ OwnPasses(c.token) \subseteq PassIds
      BY <1>1, <2>2, RowsOfCaller, Shown DEF ListPasses, Asks, PrimaryOnly
    <3>2. PICK a \in {Ok(OwnPasses(c.token), 0), Not("failed")} :
             answer' = [answer EXCEPT ![r] = a]
      BY <2>2 DEF ListPasses, Reply
    <3>3. a \in Answers /\ (a.code = "ok" => a.rows = OwnPasses(c.token))
      BY <3>1, <3>2, AnswersExist
    <3> QED
      BY <1>4, <3>1, <3>2, <3>3
  <2>3. CASE GetPass(r, c)
    <3>1. OwnPasses(c.token) \subseteq Theirs(c.token) /\ OwnPasses(c.token) \subseteq PassIds
      BY <1>1, <2>3, RowsOfCaller, Shown DEF GetPass, Asks, PrimaryOnly
    <3>2. PICK told : /\ Reply(r, told)
                      /\ told = IF c.id \in OwnPasses(c.token) THEN Ok({c.id}, 0)
                                ELSE Not("not_found")
      BY <2>3 DEF GetPass
    <3>3. PICK a \in {told, Not("failed")} : answer' = [answer EXCEPT ![r] = a]
      BY <3>2 DEF Reply
    <3>4. /\ told \in Answers
          /\ told.code = "ok" => told.rows \subseteq OwnPasses(c.token)
      BY <3>1, <3>2, AnswersExist
    <3>5. a \in Answers /\ (a.code = "ok" => a.rows \subseteq OwnPasses(c.token))
      BY <3>3, <3>4, AnswersExist
    <3> QED
      BY <1>4, <3>1, <3>3, <3>5
  <2>4. CASE ListInbox(r, c)
    <3> DEFINE in == Inbox(Recipient(c.token))
    <3>1. in \subseteq Theirs(c.token) /\ in \subseteq Notes
      BY <1>1, RowsOfCaller, Shown
    <3>2. PICK a \in {Ok(in, 0), Not("failed")} : answer' = [answer EXCEPT ![r] = a]
      BY <2>4 DEF ListInbox, Reply
    <3> HIDE DEF in
    <3>3. a \in Answers /\ (a.code = "ok" => a.rows = in)
      BY <3>1, <3>2, AnswersExist
    <3> QED
      BY <1>4, <3>1, <3>2, <3>3
  <2>5. CASE UnreadCount(r, c)
    <3> DEFINE n == Cardinality(Unread(Recipient(c.token)))
    <3>1. n \in Nat
      BY <1>1, InboxRows
    <3>2. PICK a \in {Ok({}, n), Not("failed")} : answer' = [answer EXCEPT ![r] = a]
      BY <2>5 DEF UnreadCount, Reply
    <3> HIDE DEF n
    <3>3. a \in Answers /\ (a.code = "ok" => a.rows = {})
      BY <3>1, <3>2, AnswersExist
    <3> QED
      BY <1>4, <3>2, <3>3
  <2> QED
    BY <2>1, <2>2, <2>3, <2>4, <2>5 DEF Look
<1> QED
  BY <1>3, <1>5

LEMMA IssueIsOwn ==
  ASSUME Inv, NEW r \in Requests, NEW c \in Calls, IssuePass(r, c)
  PROVE  /\ took'[r] \subseteq Theirs(c.token)'
         /\ answer'[r].code = "ok" => answer'[r].rows \subseteq Theirs(c.token)'
<1>1. TypeOK /\ r \in PassIds
  BY DEF Inv, PassIds
<1>2. took'[r] = {r}
  BY <1>1 DEF TypeOK, IssuePass
<1>3. c.token.member # None
  BY DEF IssuePass, Asks, May, PrimaryOnly
<1>4. r \in DOMAIN passes' /\ passes'[r].member = c.token.member
  BY DEF IssuePass
<1>5. r \in Theirs(c.token)'
  BY <1>3, <1>4 DEF Theirs
<1>6. PICK a \in {Ok({r}, 0), Not("failed")} : answer' = [answer EXCEPT ![r] = a]
  BY DEF IssuePass, Reply
<1>7. a.code = "ok" => a.rows = {r}
  BY <1>1, <1>6, AnswersExist
<1>8. answer'[r] = a
  BY <1>1, <1>6 DEF TypeOK
<1> QED
  BY <1>2, <1>5, <1>7, <1>8

LEMMA RevokeIsOwn ==
  ASSUME Inv, NEW r \in Requests, NEW c \in Calls, RevokePass(r, c)
  PROVE  /\ took'[r] \subseteq Theirs(c.token)'
         /\ answer'[r].code = "ok" => answer'[r].rows \subseteq Theirs(c.token)'
<1> DEFINE hit == {p \in OwnPasses(c.token) \cap {c.id} : passes[p].status = "issued"}
           told == IF hit # {} THEN Ok(hit, 0) ELSE Not("not_found")
<1>1. TypeOK
  BY DEF Inv
<1>2. /\ passes' = [p \in DOMAIN passes |->
             IF p \in hit THEN [passes[p] EXCEPT !.status = "revoked", !.revoked_at = r]
             ELSE passes[p]]
      /\ took' = [took EXCEPT ![r] = hit] /\ notes' = notes /\ Reply(r, told)
      /\ May(c) /\ c.op \in PrimaryOnly
  BY DEF RevokePass, Asks, PrimaryOnly
<1>3. hit \subseteq Theirs(c.token) /\ hit \subseteq PassIds
  BY <1>1, <1>2, RowsOfCaller, Shown
<1> HIDE DEF hit
<1>4. \A p \in DOMAIN passes : passes'[p].member = passes[p].member
  <2>1. \A p \in DOMAIN passes : passes[p] \in Pass
    BY <1>1 DEF TypeOK
  <2>2. ASSUME NEW p \in DOMAIN passes PROVE passes'[p].member = passes[p].member
    <3>1. CASE p \in hit
      <4>1. passes'[p] = [passes[p] EXCEPT !.status = "revoked", !.revoked_at = r]
        BY <1>2, <3>1
      <4> QED
        BY <2>1, <4>1 DEF Pass
    <3>2. CASE p \notin hit
      BY <1>2, <3>2
    <3> QED
      BY <3>1, <3>2
  <2> QED
    BY <2>2
<1>5. Theirs(c.token) \subseteq Theirs(c.token)'
  BY <1>1, <1>2, <1>4, SameOwners
<1>6. PICK a \in {told, Not("failed")} : answer' = [answer EXCEPT ![r] = a]
  BY <1>2 DEF Reply
<1>7. told.code = "ok" => told.rows = hit
  BY <1>3, AnswersExist
<1> HIDE DEF told
<1>8. a.code = "ok" => a.rows = hit
  BY <1>6, <1>7, AnswersExist
<1>9. answer'[r] = a /\ took'[r] = hit
  BY <1>1, <1>2, <1>6 DEF TypeOK
<1> QED
  BY <1>3, <1>5, <1>8, <1>9

LEMMA MarkIsOwn ==
  ASSUME Inv, NEW r \in Requests, NEW c \in Calls, MarkRead(r, c) \/ MarkAllRead(r, c)
  PROVE  /\ took'[r] \subseteq Theirs(c.token)'
         /\ answer'[r].code = "ok" => answer'[r].rows \subseteq Theirs(c.token)'
<1>1. TypeOK
  BY DEF Inv
<1>2. PICK hit, told :
         /\ hit \subseteq Unread(Recipient(c.token))
         /\ Mark(r, hit) /\ Reply(r, told)
         /\ told.code = "ok" => told.rows \subseteq hit
  <2>1. CASE MarkRead(r, c)
    <3> DEFINE hit == Unread(Recipient(c.token)) \cap {c.id}
               told == IF hit # {} THEN Ok(hit, 0) ELSE Not("not_found")
    <3>1. Mark(r, hit) /\ Reply(r, told)
      BY <2>1 DEF MarkRead
    <3>2. hit \subseteq Notes
      BY <1>1, InboxRows, Shown
    <3>3. told.code = "ok" => told.rows \subseteq hit
      BY <3>2, AnswersExist
    <3> HIDE DEF told
    <3> QED
      BY <3>1, <3>3
  <2>2. CASE MarkAllRead(r, c)
    <3> DEFINE hit == Unread(Recipient(c.token))
               told == Ok({}, Cardinality(hit))
    <3>1. Mark(r, hit) /\ Reply(r, told)
      BY <2>2 DEF MarkAllRead
    <3>2. told.rows = {}
      BY <1>1, InboxRows, AnswersExist
    <3> HIDE DEF told
    <3> QED
      BY <3>1, <3>2
  <2> QED
    BY <2>1, <2>2
<1>3. hit \subseteq Theirs(c.token)
  BY <1>1, <1>2, InboxRows, RowsOfCaller
<1>4. DOMAIN notes' = DOMAIN notes /\ passes' = passes
      /\ \A n \in DOMAIN notes : /\ notes'[n].member_id = notes[n].member_id
                                 /\ notes'[n].dependent_id = notes[n].dependent_id
  <2>1. \A n \in DOMAIN notes : notes[n] \in Note
    BY <1>1 DEF TypeOK
  <2> QED
    BY <1>2, <2>1 DEF Mark, Note
<1>5. Theirs(c.token) \subseteq Theirs(c.token)'
  BY <1>1, <1>4, SameOwners
<1>6. PICK a \in {told, Not("failed")} : answer' = [answer EXCEPT ![r] = a]
  BY <1>2 DEF Reply
<1>7. a.code = "ok" => a.rows \subseteq hit
  BY <1>2, <1>6, AnswersExist
<1>8. answer'[r] = a /\ took'[r] = hit
  BY <1>1, <1>2, <1>6 DEF TypeOK, Mark
<1> QED
  BY <1>3, <1>5, <1>7, <1>8

\* A request changes and shows rows of its caller only: no member's rows to a
\* dependent with the same number, and no dependent's to the member.
THEOREM DesksAreApart == Spec => OwnDeskOnly
<1> DEFINE Apart == \A r \in Requests : answer'[r] # answer[r] =>
                      /\ took'[r] \subseteq Theirs(call[r].token)'
                      /\ answer'[r].code = "ok" => answer'[r].rows \subseteq Theirs(call[r].token)'
<1>1. ASSUME Inv, NEW q \in Requests, NEW c \in Calls, Handle(q, c) PROVE Apart
  <2>1. /\ took'[q] \subseteq Theirs(c.token)'
        /\ answer'[q].code = "ok" => answer'[q].rows \subseteq Theirs(c.token)'
    BY <1>1, LookIsOwn, IssueIsOwn, RevokeIsOwn, MarkIsOwn DEF Handle, Look
  <2>2. call'[q] = c
    BY <1>1 DEF Inv, TypeOK, Handle, Refuse, Fail, IssuePass, ListPasses, GetPass, RevokePass,
                ListInbox, UnreadCount, MarkRead, MarkAllRead, Asks
  <2>3. Theirs(call[q].token)' = Theirs(c.token)'
    BY <2>2 DEF Theirs
  <2>4. \E a : answer' = [answer EXCEPT ![q] = a]
    BY <1>1 DEF Handle, Refuse, Fail, IssuePass, ListPasses, GetPass, RevokePass, ListInbox,
                UnreadCount, MarkRead, MarkAllRead, Reply
  <2>5. \A r \in Requests \ {q} : answer'[r] = answer[r]
    BY <1>1, <2>4 DEF Inv, TypeOK
  <2> QED
    BY <2>1, <2>3, <2>5
<1>2. Inv /\ [Next]_vars => [Apart]_vars
  <2>1. ASSUME Inv, NEW n \in Notes, Notify(n) PROVE Apart
    BY <2>1 DEF Notify
  <2>2. ASSUME Inv, NEW p \in DOMAIN passes, Redeem(p) PROVE Apart
    BY <2>2 DEF Redeem
  <2> QED
    BY <1>1, <2>1, <2>2 DEF Next
<1> QED
  BY <1>2, InvHolds, PTL DEF Spec, OwnDeskOnly
=============================================================================
