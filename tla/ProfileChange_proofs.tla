------------------------- MODULE ProfileChange_proofs -------------------------
(***************************************************************************)
(* Proofs about the profile change workflow, for any requests, members,    *)
(* staff, fields and values, and whatever allow-lists the processes have.  *)
(***************************************************************************)
EXTENDS ProfileChange, FiniteSetTheorems, TLAPS

InTransaction == {"update", "notify", "audit", "commit"}
Updated == {"notify", "audit", "commit"}

\* A handler awaits only statements of the operation it was called for; its own
\* row is the last thing a filing handler does.
Control(r) ==
    /\ pc[r] = "idle" <=> call[r] = None
    /\ pc[r] = "done" <=> answer[r] # "none"
    /\ pc[r] \in {"member", "open", "insert"} => call[r].op = "file"
    /\ pc[r] \in {"authorize", "review", "apply"} \cup InTransaction
         => call[r].op \in {"approve", "reject"}
    /\ pc[r] = "apply" => call[r].op = "approve"
    /\ requests[r] # None => pc[r] = "done" /\ call[r].op = "file"
    /\ pc[r] \in {"open", "insert"} => snapshot[r] \in [values : [Fields -> Values]]

\* What a handler learnt from an earlier statement and nobody can undo.
Learnt(r) ==
    /\ pc[r] \in {"review", "apply"} \cup InTransaction => call[r].staff \in Signers
    /\ pc[r] \in {"apply"} \cup InTransaction =>
         /\ Exists(call[r].id)
         /\ call[r].op = "approve" => DOMAIN Applied(r) # {}

\* What a transaction has written so far; the row it decides is pending until then.
Buffered(r) ==
    /\ "members" \in writes[r] <=> pc[r] \in InTransaction /\ call[r].op = "approve"
    /\ "requests" \in writes[r] <=> /\ pc[r] \in Updated
                                    /\ requests[call[r].id].status = "pending"
    /\ "notifications" \in writes[r] <=> pc[r] \in {"audit", "commit"}
    /\ "audit" \in writes[r] <=> pc[r] = "commit"

\* The locks of a handler are those of the statements behind it, and no other's
\* conflict with them.
Locked(r) ==
    \A l \in locks : l.by = r =>
        \/ /\ l.mode = "X" /\ l.row = ReviewedMember(r)
           /\ pc[r] \in InTransaction /\ call[r].op = "approve"
        \/ l.mode = "X" /\ l.row = call[r].id /\ pc[r] \in Updated
        \/ l.mode = "S" /\ l.row = ReviewedMember(r) /\ pc[r] \in {"audit", "commit"}
Locking(r) ==
    /\ pc[r] \in InTransaction /\ call[r].op = "approve" =>
         [by |-> r, row |-> ReviewedMember(r), mode |-> "X"] \in locks
    /\ pc[r] \in Updated => [by |-> r, row |-> call[r].id, mode |-> "X"] \in locks
    /\ pc[r] \in {"audit", "commit"} =>
         [by |-> r, row |-> ReviewedMember(r), mode |-> "S"] \in locks
NoConflict == \A l, k \in locks : ~Conflict(l, k)

\* Audit ids come in the order of the INSERTs, and of the changes of a member:
\* who is about to commit has a higher id than all who changed that member.
Given == {q \in Requests : serial[q] > 0}
Numbered(r) ==
    /\ pc[r] = "commit" => serial[r] > 0
    /\ pc[r] \notin {"commit", "done"} => serial[r] = 0
    /\ serial[r] <= Cardinality(Given)
    /\ pc[r] = "commit" => \A a \in Approvals :
         a.member = ReviewedMember(r) => a.id < serial[r]

Sound(r) == /\ Control(r) /\ Learnt(r) /\ Buffered(r)
            /\ Locked(r) /\ Locking(r) /\ Numbered(r)

\* History: only a handler that ended has left a trace, and what it left is the
\* record of an approval that changed something, or of a rejection.
Past ==
    /\ \A n \in notifications : pc[n.by] = "done"
    /\ \A a \in audit :
         /\ pc[a.by] = "done" /\ a.id = serial[a.by]
         /\ a.action = "profile_change.approved" => DOMAIN a.after # {}
         /\ a.action = "profile_change.rejected" => a.after = <<>>

RowsShaped == \A q \in RequestIds : Exists(q) =>
    DOMAIN requests[q].current = DOMAIN requests[q].requested

Inv == /\ TypeOK /\ (\A r \in Requests : Sound(r)) /\ NoConflict /\ Past /\ RowsShaped
       /\ AuditExplainsRegister /\ ReviewIsAccounted /\ AllowListHolds

-----------------------------------------------------------------------------
(* What the values are made of.                                            *)

LEMMA CallFields ==
  ASSUME NEW c \in Calls
  PROVE  /\ c # None /\ c.op \in {"file", "approve", "reject"}
         /\ c.op = "file" => c.member \in Members /\ c.body \in [Fields -> Values \cup {Spaces}]
         /\ c.op \in {"approve", "reject"} => c.staff \in Staff /\ c.id \in RequestIds
<1>1. c \in FileCalls \cup ReviewCalls /\ None \notin FileCalls \cup ReviewCalls
  BY CallAssumption, NoneAssumption
<1> QED
  BY <1>1 DEF FileCalls, ReviewCalls

\* The filter lets through columns of the document that are on the list.
LEMMA FilterNarrows ==
  ASSUME NEW d, NEW list
  PROVE  DOMAIN FilterEditable(d, list) \subseteq list \cap DOMAIN d
BY DEF FilterEditable

LEMMA FilterType ==
  ASSUME NEW F \in SUBSET Fields, NEW d \in [F -> Values \cup {Spaces}], NEW list
  PROVE  FilterEditable(d, list) \in Documents
<1> DEFINE D == {f \in list \cap DOMAIN d : d[f] # Blank}
<1>1. D \subseteq F /\ \A f \in D : Trim(d[f]) \in Values
  BY ValueAssumption DEF Trim
<1>2. FilterEditable(d, list) \in [D -> Values]
  BY <1>1 DEF FilterEditable
<1> QED
  BY <1>1, <1>2 DEF Documents

LEMMA ProposalFields ==
  ASSUME TypeOK, NEW q \in RequestIds, Exists(q)
  PROVE  /\ requests[q] \in Proposals
         /\ requests[q].member \in Members /\ requests[q].status \in Statuses
         /\ requests[q].current \in Documents /\ requests[q].requested \in Documents
         /\ requests[q].reviewedBy \in Staff \cup {None}
BY DEF TypeOK, Exists, Proposals

\* What is applied are columns of the request that the process allows.
LEMMA AppliedIs ==
  ASSUME TypeOK, NEW r \in Requests, call[r] # None, call[r].op = "approve",
         Exists(call[r].id)
  PROVE  /\ Applied(r) \in Documents
         /\ DOMAIN Applied(r) \subseteq allowed[r]
         /\ DOMAIN Applied(r) \subseteq DOMAIN requests[call[r].id].requested
         /\ DOMAIN Applied(r) \subseteq Fields
         /\ \A f \in DOMAIN Applied(r) : Applied(r)[f] \in Values
<1>1. call[r].id \in RequestIds
  BY CallFields DEF TypeOK
<1>2. requests[call[r].id].requested \in Documents
  BY <1>1, ProposalFields
<1>3. PICK F \in SUBSET Fields : requests[call[r].id].requested \in [F -> Values]
  BY <1>2 DEF Documents
<1>4. requests[call[r].id].requested \in [F -> Values \cup {Spaces}]
  BY <1>3
<1>5. Applied(r) \in Documents
  BY <1>4, FilterType DEF Applied
<1>6. DOMAIN Applied(r) \subseteq Fields /\ \A f \in DOMAIN Applied(r) : Applied(r)[f] \in Values
  BY <1>5 DEF Documents
<1> QED
  BY <1>5, <1>6, FilterNarrows DEF Applied

LEMMA NothingIsADocument == <<>> \in Documents
<1>1. <<>> \in [{} -> Values]
  OBVIOUS
<1> QED
  BY <1>1 DEF Documents

LEMMA WantedIs ==
  ASSUME NEW r
  PROVE  /\ pc[r] = "insert" => Wanted(r) = {[by |-> r, row |-> call[r].member, mode |-> "S"]}
         /\ pc[r] = "apply" => Wanted(r) = {[by |-> r, row |-> ReviewedMember(r), mode |-> "X"]}
         /\ pc[r] = "update" => Wanted(r) = {[by |-> r, row |-> call[r].id, mode |-> "X"]}
         /\ pc[r] = "notify" => Wanted(r) = {[by |-> r, row |-> ReviewedMember(r), mode |-> "S"]}
         /\ pc[r] \notin {"insert", "apply", "update", "notify"} => Wanted(r) = {}
BY DEF Wanted

-----------------------------------------------------------------------------
(* What one handler does is nothing to another.                            *)

\* Everything that is q's own stays as it is.
Same(q) ==
    /\ pc'[q] = pc[q] /\ call'[q] = call[q] /\ allowed'[q] = allowed[q]
    /\ snapshot'[q] = snapshot[q] /\ writes'[q] = writes[q]
    /\ serial'[q] = serial[q] /\ answer'[q] = answer[q]
    /\ \A l \in locks \cup locks' : l.by = q => l \in locks /\ l \in locks'

\* No row is taken back, and only its decision changes.
Kept ==
    /\ \A q \in RequestIds : Exists(q) =>
         /\ requests'[q] # None /\ requests'[q].member = requests[q].member
         /\ requests'[q].requested = requests[q].requested
         /\ requests'[q].current = requests[q].current
    /\ Cardinality(Given) <= Cardinality(Given')

\* Nobody else writes what q has locked.
Apart(q) ==
    /\ requests'[q] = None <=> requests[q] = None
    /\ pc[q] \in Updated => (/\ requests'[call[q].id].status = "pending"
                             <=> requests[call[q].id].status = "pending")
    /\ pc[q] = "commit" =>
         \A a \in Approvals' \ Approvals : a.member # ReviewedMember(q)

LEMMA OthersKeep ==
  ASSUME TypeOK, NEW q \in Requests, Sound(q), Same(q), Kept, Apart(q),
         Cardinality(Given) \in Nat, Cardinality(Given') \in Nat
  PROVE  Sound(q)'
<1>1. call[q] # None => call[q] \in Calls
  BY DEF TypeOK
<1>2. pc[q] \in {"apply"} \cup InTransaction => call[q].id \in RequestIds /\ Exists(call[q].id)
  BY <1>1, CallFields DEF Sound, Control, Learnt, InTransaction
<1>3. Control(q)'
  BY DEF Sound, Control, Same, Apart, InTransaction
<1>4. pc[q] \in {"apply"} \cup InTransaction =>
        ReviewedMember(q)' = ReviewedMember(q) /\ Applied(q)' = Applied(q)
  BY <1>2 DEF ReviewedMember, Applied, Kept, Same
<1>5. Learnt(q)'
  BY <1>2, <1>4 DEF Sound, Learnt, Same, Kept, Exists, InTransaction
<1>6. Buffered(q)'
  BY DEF Sound, Buffered, Same, Apart, InTransaction, Updated
<1>7. Locked(q)' /\ Locking(q)'
  BY <1>4 DEF Sound, Locked, Locking, Same, InTransaction, Updated
<1>8. Numbered(q)'
  <2>1. serial[q] \in Nat
    BY DEF TypeOK
  <2>2. /\ pc'[q] = "commit" => serial'[q] > 0
        /\ pc'[q] \notin {"commit", "done"} => serial'[q] = 0
        /\ serial'[q] <= Cardinality(Given')
    BY <2>1 DEF Sound, Numbered, Same, Kept
  <2>3. pc'[q] = "commit" => \A a \in Approvals' :
          a.member = ReviewedMember(q)' => a.id < serial'[q]
    BY <1>4 DEF Sound, Numbered, Same, Apart, InTransaction
  <2> QED
    BY <2>2, <2>3 DEF Numbered, Given
<1> QED
  BY <1>3, <1>5, <1>6, <1>7, <1>8 DEF Sound

LEMMA GivenCounts ==
  ASSUME TypeOK
  PROVE  IsFiniteSet(Given) /\ Cardinality(Given) \in Nat
<1>1. Given \subseteq Requests
  BY DEF Given
<1>2. IsFiniteSet(Given)
  BY <1>1, RequestAssumption, FS_Subset
<1> QED
  BY <1>2, FS_CardinalityType

LEMMA GivenGrows ==
  ASSUME TypeOK, TypeOK', Given \subseteq Given'
  PROVE  Cardinality(Given) <= Cardinality(Given')
<1>1. Given' \subseteq Requests
  BY DEF Given
<1>2. IsFiniteSet(Given')
  BY <1>1, RequestAssumption, FS_Subset
<1> QED
  BY <1>2, FS_Subset

\* What is shown of every step of a handler.
Keeps(r) ==
    /\ TypeOK' /\ Sound(r)' /\ NoConflict' /\ Given \subseteq Given'
    /\ \A q \in Requests \ {r} : Same(q)

\* A step that writes no table: the answer, the locks, the handler's own.
Quietly(r) ==
    /\ Keeps(r) /\ UNCHANGED database
    /\ pc[r] # "done" /\ answer'[r] # "scope_error"

LEMMA KeepsSound ==
  ASSUME Inv, NEW r \in Requests, Keeps(r), \A q \in Requests \ {r} : Apart(q),
         \A q \in RequestIds : Exists(q) =>
             /\ requests'[q] # None /\ requests'[q].member = requests[q].member
             /\ requests'[q].requested = requests[q].requested
             /\ requests'[q].current = requests[q].current
  PROVE  \A q \in Requests : Sound(q)'
<1>1. Cardinality(Given) <= Cardinality(Given')
  BY GivenGrows DEF Inv, Keeps
<1>2. Cardinality(Given) \in Nat
  BY GivenCounts DEF Inv
<1>3. IsFiniteSet(Given')
  <2>1. Given' \subseteq Requests
    BY DEF Given
  <2> QED
    BY <2>1, RequestAssumption, FS_Subset
<1>4. Cardinality(Given') \in Nat
  BY <1>3, FS_CardinalityType
<1>5. Kept
  BY <1>1 DEF Kept
<1> QED
  BY <1>2, <1>4, <1>5, OthersKeep DEF Inv, Keeps

LEMMA QuietKeepsInv ==
  ASSUME Inv, NEW r \in Requests, Quietly(r)
  PROVE  Inv'
<1> USE DEF database
<1>1. \A q \in Requests \ {r} : Apart(q)
  BY DEF Quietly, Apart, Approvals
<1>2. \A q \in Requests : Sound(q)'
  BY <1>1, KeepsSound DEF Quietly, Exists
<1>3. \A q \in Requests : pc[q] = "done" =>
        pc'[q] = "done" /\ serial'[q] = serial[q] /\ allowed'[q] = allowed[q]
  BY DEF Quietly, Keeps, Same
<1>4. Past'
  BY <1>3 DEF Quietly, Inv, Past, TypeOK
<1>5. AllowListHolds'
  <2>1. \A a \in audit : a.by \in Requests /\ pc[a.by] = "done"
    BY DEF Inv, Past, TypeOK
  <2>2. \A a \in Approvals' : DOMAIN a.after # {} /\ DOMAIN a.after \subseteq allowed'[a.by]
    BY <2>1, <1>3 DEF Quietly, Inv, AllowListHolds, Approvals
  <2>3. \A q \in Requests : answer'[q] # "scope_error"
    BY DEF Quietly, Keeps, Same, Inv, AllowListHolds
  <2> QED
    BY <2>2, <2>3 DEF AllowListHolds
<1>6. RowsShaped' /\ AuditExplainsRegister'
  BY DEF Quietly, Inv, RowsShaped, AuditExplainsRegister, Exists, History, Approvals
<1>7. ReviewIsAccounted'
  BY DEF Quietly, Keeps, Inv, ReviewIsAccounted, Exists
<1> QED
  BY <1>2, <1>4, <1>5, <1>6, <1>7 DEF Quietly, Keeps, Inv

\* What a handler has in hand.
LEMMA InHand ==
  ASSUME Inv, NEW r \in Requests
  PROVE  /\ r \in RequestIds /\ TypeOK /\ Sound(r) /\ pc[r] \in Steps
         /\ call[r] # None => call[r] \in Calls /\ call[r].op \in {"file", "approve", "reject"}
         /\ call[r] # None /\ call[r].op = "file" =>
              call[r].member \in Members /\ call[r].body \in [Fields -> Values \cup {Spaces}]
         /\ call[r] # None /\ call[r].op \in {"approve", "reject"} =>
              call[r].staff \in Staff /\ call[r].id \in RequestIds
         /\ call[r] # None /\ call[r].op \in {"approve", "reject"} /\ Exists(call[r].id) =>
              requests[call[r].id] \in Proposals /\ ReviewedMember(r) \in Members
<1>1. r \in RequestIds /\ TypeOK /\ Sound(r) /\ pc[r] \in Steps
  BY DEF Inv, TypeOK, RequestIds
<1>2. call[r] # None => call[r] \in Calls
  BY <1>1 DEF TypeOK
<1> QED
  BY <1>1, <1>2, CallFields, ProposalFields DEF ReviewedMember

\* A statement that had to wait for nobody adds its lock.
LEMMA TakeKeeps ==
  ASSUME Inv, NEW r \in Requests, pc[r] \in {"apply", "update", "notify"}, Take(r)
  PROVE  /\ NoConflict' /\ locks' = locks \cup Wanted(r)
         /\ locks' \subseteq [by : Requests, row : Members \cup RequestIds, mode : {"S", "X"}]
         /\ \A k \in Wanted(r) : k.by = r
<1>1. call[r] # None /\ call[r].op \in {"approve", "reject"} /\ Exists(call[r].id)
  BY InHand DEF Sound, Control, Learnt, InTransaction
<1>2. call[r].id \in RequestIds /\ ReviewedMember(r) \in Members
  BY <1>1, InHand
<1>3. /\ Wanted(r) \subseteq [by : Requests, row : Members \cup RequestIds, mode : {"S", "X"}]
      /\ \A k \in Wanted(r) : k.by = r
  BY <1>2, WantedIs
<1>4. locks' = locks \cup Wanted(r)
  BY DEF Take
<1>5. \A l \in locks, k \in Wanted(r) : ~Conflict(l, k) /\ ~Conflict(k, l)
  BY DEF Take, Blockers, Conflict
<1>6. \A k, l \in Wanted(r) : ~Conflict(l, k)
  BY <1>3 DEF Conflict
<1>7. NoConflict'
  BY <1>4, <1>5, <1>6 DEF NoConflict, Inv
<1> QED
  BY <1>3, <1>4, <1>7, InHand DEF TypeOK

-----------------------------------------------------------------------------
(* The end of a request, and the statements before a transaction.          *)

LEMMA RefuseKeeps ==
  ASSUME Inv, NEW r \in InFlight,
         NEW a \in {"invalid", "forbidden", "not_found", "busy", "error"},
         Refuse(r, a), EndTransaction(r), UNCHANGED <<serial, local>>
  PROVE  Inv'
<1> USE DEF Refuse, Reply, EndTransaction, database, local
<1>0. r \in Requests /\ pc[r] \notin {"idle", "done"}
  BY DEF InFlight
<1>1. TypeOK'
  <2>1. pc' \in [Requests -> Steps] /\ answer' \in [Requests -> Answers]
    BY <1>0, InHand DEF TypeOK, Steps, Answers
  <2>2. /\ writes' \in [Requests -> SUBSET {"members", "requests", "notifications", "audit"}]
        /\ locks' \subseteq [by : Requests, row : Members \cup RequestIds, mode : {"S", "X"}]
    BY <1>0, InHand DEF TypeOK
  <2> QED
    BY <2>1, <2>2, InHand DEF TypeOK
<1>2. \A q \in Requests \ {r} : Same(q)
  BY <1>0, InHand DEF Same, TypeOK
<1>3. Sound(r)'
  <2>0. pc'[r] = "done" /\ answer'[r] = a /\ writes'[r] = {}
    BY <1>0, InHand DEF TypeOK
  <2>1. Control(r)' /\ Learnt(r)'
    BY <1>0, <2>0, InHand DEF Sound, Control, Learnt, InTransaction
  <2>2. Buffered(r)' /\ Locked(r)' /\ Locking(r)'
    BY <2>0 DEF Buffered, Locked, Locking, InTransaction, Updated
  <2>3. Numbered(r)'
    BY <1>0, <2>0, InHand DEF Sound, Numbered, Given
  <2> QED
    BY <2>1, <2>2, <2>3 DEF Sound
<1>4. NoConflict' /\ Given \subseteq Given'
  BY DEF Inv, NoConflict, Given
<1>5. answer'[r] # "scope_error"
  BY <1>0, InHand DEF TypeOK
<1> QED
  BY <1>0, <1>1, <1>2, <1>3, <1>4, <1>5, QuietKeepsInv DEF Quietly, Keeps

\* Before a transaction begins there is nothing to roll back.
LEMMA OutsideTransaction ==
  ASSUME Inv, NEW r \in Requests, pc[r] \notin InTransaction, NoTransaction
  PROVE  EndTransaction(r) /\ UNCHANGED serial
<1>1. writes[r] = {} /\ writes \in [Requests -> SUBSET {"members", "requests", "notifications", "audit"}]
  BY InHand DEF TypeOK, Sound, Buffered, InTransaction, Updated
<1>2. \A l \in locks : l.by # r
  BY InHand DEF Sound, Locked, InTransaction, Updated
<1> QED
  BY <1>1, <1>2 DEF EndTransaction, NoTransaction

\* A statement that only reads.
LEMMA ReadKeeps ==
  ASSUME Inv, NEW r \in Requests, NEW step \in Steps,
         pc[r] \notin InTransaction, pc[r] # "done",
         NoTransaction, Goto(r, step), step \notin InTransaction \/ call'[r].op = "reject",
         step \notin Updated \cup {"done"},
         TypeOK', Control(r)', Learnt(r)',
         \A q \in Requests \ {r} : call'[q] = call[q] /\ allowed'[q] = allowed[q]
                                   /\ snapshot'[q] = snapshot[q]
  PROVE  Inv'
<1> USE DEF Goto, NoTransaction, database
<1>1. \A q \in Requests \ {r} : Same(q)
  BY InHand DEF Same, TypeOK
<1>2. pc'[r] = step /\ answer'[r] = answer[r] /\ writes'[r] = writes[r] /\ writes[r] = {}
  BY InHand DEF TypeOK, Sound, Buffered, InTransaction, Updated
<1>3. \A l \in locks : l.by # r
  BY InHand DEF Sound, Locked, InTransaction, Updated
<1>4. Buffered(r)' /\ Locked(r)' /\ Locking(r)'
  BY <1>2, <1>3 DEF Buffered, Locked, Locking, InTransaction, Updated
<1>5. Numbered(r)'
  <2>1. serial[r] = 0 /\ serial[r] <= Cardinality(Given)
    BY InHand DEF Sound, Numbered, InTransaction
  <2> QED
    BY <1>2, <2>1 DEF Numbered, Given, InTransaction, Updated
<1>6. answer'[r] # "scope_error" /\ NoConflict' /\ Given \subseteq Given'
  BY <1>2 DEF Inv, AllowListHolds, NoConflict, Given
<1> QED
  BY <1>1, <1>4, <1>5, <1>6, QuietKeepsInv DEF Quietly, Keeps, Sound, InTransaction

LEMMA ArriveKeeps ==
  ASSUME Inv, NEW r \in Requests, Arrive(r)
  PROVE  Inv'
<1> USE DEF Arrive
<1>1. PICK c \in Calls :
        /\ call' = [call EXCEPT ![r] = c]
        /\ met' = met \cup {{q, r} : q \in {q \in InFlight : "file" \in {c.op, call[q].op}}}
        /\ Goto(r, IF c.op = "file" THEN "member" ELSE "authorize")
  OBVIOUS
<1>2. PICK list \in AllowLists : allowed' = [allowed EXCEPT ![r] = list]
  OBVIOUS
<1>3. list \in SUBSET Fields /\ c # None
  BY AllowListAssumption, CallFields
<1>4. TypeOK'
  <2>1. pc' \in [Requests -> Steps]
    BY <1>1, InHand DEF TypeOK, Goto, Steps
  <2>2. call' \in [Requests -> Calls \cup {None}] /\ allowed' \in [Requests -> SUBSET Fields]
    BY <1>1, <1>2, <1>3, InHand DEF TypeOK
  <2>3. met' \subseteq SUBSET Requests
    BY <1>1, InHand DEF TypeOK, InFlight
  <2> QED
    BY <1>1, <2>1, <2>2, <2>3, InHand DEF TypeOK, Goto, NoTransaction, database
<1>5. call'[r] = c /\ pc'[r] = IF c.op = "file" THEN "member" ELSE "authorize"
  BY <1>1, InHand DEF TypeOK, Goto
<1>6. Control(r)' /\ Learnt(r)'
  BY <1>1, <1>3, <1>5, CallFields, InHand
  DEF Sound, Control, Learnt, Goto, database, InTransaction
<1>7. \A q \in Requests \ {r} : call'[q] = call[q] /\ allowed'[q] = allowed[q]
                                /\ snapshot'[q] = snapshot[q]
  BY <1>1, <1>2, InHand DEF TypeOK
<1> DEFINE step == IF c.op = "file" THEN "member" ELSE "authorize"
<1>8. step \in Steps /\ step \notin InTransaction /\ step \notin Updated \cup {"done"}
  BY DEF Steps, InTransaction, Updated
<1>9. pc[r] \notin InTransaction /\ pc[r] # "done" /\ NoTransaction /\ Goto(r, step)
  BY <1>1 DEF InTransaction
<1> HIDE DEF step, Arrive
<1> QED
  BY <1>4, <1>6, <1>7, <1>8, <1>9, ReadKeeps

LEMMA FindMemberKeeps ==
  ASSUME Inv, NEW r \in Requests, FindMember(r)
  PROVE  Inv'
<1> USE DEF FindMember
<1>1. pc[r] \notin InTransaction \cup {"done", "idle"} /\ EndTransaction(r) /\ UNCHANGED serial
  BY OutsideTransaction DEF InTransaction
<1>2. CASE Refuse(r, "invalid") /\ UNCHANGED snapshot
  BY <1>1, <1>2, RefuseKeeps DEF InFlight, local
<1>3. CASE /\ snapshot' = [snapshot EXCEPT ![r] = [values |-> members[call[r].member]]]
           /\ Goto(r, "open")
  <2> USE <1>3
  <2>1. call[r] # None /\ call[r].op = "file" /\ call[r].member \in Members
    BY InHand DEF Sound, Control
  <2>2. [values |-> members[call[r].member]] \in [values : [Fields -> Values]]
    BY <2>1, InHand DEF TypeOK
  <2>3. TypeOK'
    <3>1. snapshot' \in [Requests -> [values : [Fields -> Values]] \cup Proposals \cup {None}]
      BY <2>2, InHand DEF TypeOK
    <3>2. pc' \in [Requests -> Steps]
      BY InHand DEF TypeOK, Steps, Goto
    <3> QED
      BY <3>1, <3>2, InHand DEF TypeOK, Goto, NoTransaction, database
  <2>4. Control(r)' /\ Learnt(r)'
    BY <2>1, <2>2, InHand DEF TypeOK, Sound, Control, Learnt, Goto, database, InTransaction
  <2>5. /\ "open" \in Steps /\ "open" \notin InTransaction /\ "open" \notin Updated \cup {"done"}
        /\ NoTransaction /\ Goto(r, "open") /\ pc[r] \notin InTransaction /\ pc[r] # "done"
    BY <1>1 DEF Steps, InTransaction, Updated
  <2>6. \A q \in Requests \ {r} : call'[q] = call[q] /\ allowed'[q] = allowed[q]
                                  /\ snapshot'[q] = snapshot[q]
    BY InHand DEF TypeOK
  <2> HIDE <1>3 DEF FindMember
  <2> QED
    BY <2>3, <2>4, <2>5, <2>6, ReadKeeps
<1> QED
  BY <1>2, <1>3

LEMMA FindPendingForMemberKeeps ==
  ASSUME Inv, NEW r \in Requests, FindPendingForMember(r)
  PROVE  Inv'
<1> USE DEF FindPendingForMember, local
<1>1. pc[r] \notin InTransaction \cup {"done", "idle"} /\ EndTransaction(r) /\ UNCHANGED serial
  BY OutsideTransaction DEF InTransaction
<1>2. CASE Refuse(r, "invalid")
  BY <1>1, <1>2, RefuseKeeps DEF InFlight
<1>3. CASE Goto(r, "insert")
  <2> USE <1>3
  <2>1. TypeOK'
    BY InHand DEF TypeOK, Steps, Goto, NoTransaction, database
  <2>2. Control(r)' /\ Learnt(r)'
    BY InHand DEF TypeOK, Sound, Control, Learnt, Goto, database, InTransaction
  <2>3. /\ "insert" \in Steps /\ "insert" \notin InTransaction /\ "insert" \notin Updated \cup {"done"}
        /\ NoTransaction /\ Goto(r, "insert") /\ pc[r] \notin InTransaction /\ pc[r] # "done"
    BY <1>1 DEF Steps, InTransaction, Updated
  <2>4. \A q \in Requests \ {r} : call'[q] = call[q] /\ allowed'[q] = allowed[q]
                                  /\ snapshot'[q] = snapshot[q]
    BY InHand DEF TypeOK
  <2> HIDE <1>3 DEF FindPendingForMember, local
  <2> QED
    BY <2>1, <2>2, <2>3, <2>4, ReadKeeps
<1> QED
  BY <1>2, <1>3

LEMMA AuthorizeKeeps ==
  ASSUME Inv, NEW r \in Requests, Authorize(r)
  PROVE  Inv'
<1> USE DEF Authorize, local
<1>1. pc[r] \notin InTransaction \cup {"done", "idle"} /\ EndTransaction(r) /\ UNCHANGED serial
  BY OutsideTransaction DEF InTransaction
<1>2. CASE call[r].staff \notin Permitted \cap Approvers
  BY <1>1, <1>2, RefuseKeeps DEF InFlight
<1>3. CASE call[r].staff \in Permitted \cap Approvers
  <2> USE <1>3
  <2>1. TypeOK'
    BY InHand DEF TypeOK, Steps, Goto, NoTransaction, database
  <2>2. Control(r)' /\ Learnt(r)'
    BY InHand DEF TypeOK, Sound, Control, Learnt, Goto, database, InTransaction, Signers
  <2>3. /\ "review" \in Steps /\ "review" \notin InTransaction /\ "review" \notin Updated \cup {"done"}
        /\ NoTransaction /\ Goto(r, "review") /\ pc[r] \notin InTransaction /\ pc[r] # "done"
    BY <1>1 DEF Steps, InTransaction, Updated
  <2>4. \A q \in Requests \ {r} : call'[q] = call[q] /\ allowed'[q] = allowed[q]
                                  /\ snapshot'[q] = snapshot[q]
    BY InHand DEF TypeOK
  <2> HIDE <1>3 DEF Authorize, local
  <2> QED
    BY <2>1, <2>2, <2>3, <2>4, ReadKeeps
<1> QED
  BY <1>2, <1>3

LEMMA ReadRequestKeeps ==
  ASSUME Inv, NEW r \in Requests, ReadRequest(r)
  PROVE  Inv'
<1> USE DEF ReadRequest
<1>1. pc[r] \notin InTransaction \cup {"done", "idle"} /\ EndTransaction(r) /\ UNCHANGED serial
  BY OutsideTransaction DEF InTransaction
<1>2. CASE (Refuse(r, "not_found") \/ Refuse(r, "invalid")) /\ UNCHANGED snapshot
  BY <1>1, <1>2, RefuseKeeps DEF InFlight, local
<1>3. CASE /\ Exists(call[r].id)
           /\ call[r].op = "approve" => DOMAIN Applied(r) # {}
           /\ snapshot' = [snapshot EXCEPT ![r] = requests[call[r].id]]
           /\ Goto(r, IF call[r].op = "approve" THEN "apply" ELSE "update")
  <2> USE <1>3
  <2>0. pc[r] = "review" /\ Exists(call[r].id)
    OBVIOUS
  <2>6. call[r] # None /\ call[r].op \in {"approve", "reject"} /\ call[r].staff \in Signers
    BY <2>0, InHand DEF Sound, Control, Learnt
  <2>1. /\ call[r] # None /\ call[r].op \in {"approve", "reject"} /\ call[r].id \in RequestIds
        /\ requests[call[r].id] \in Proposals /\ call[r].staff \in Signers
    BY <2>0, <2>6, InHand
  <2>2. TypeOK'
    <3>1. snapshot' \in [Requests -> [values : [Fields -> Values]] \cup Proposals \cup {None}]
      BY <2>1, InHand DEF TypeOK
    <3>2. pc' \in [Requests -> Steps]
      BY InHand DEF TypeOK, Steps, Goto
    <3> QED
      BY <3>1, <3>2, InHand DEF TypeOK, Goto, NoTransaction, database
  <2>3. Control(r)' /\ Learnt(r)'
    BY <2>1, InHand
    DEF TypeOK, Sound, Control, Learnt, Goto, database, InTransaction, Exists, Applied
  <2> DEFINE step == IF call[r].op = "approve" THEN "apply" ELSE "update"
  <2>4. /\ step \in Steps /\ step \notin Updated \cup {"done"}
        /\ step \notin InTransaction \/ call'[r].op = "reject"
        /\ NoTransaction /\ Goto(r, step) /\ pc[r] \notin InTransaction /\ pc[r] # "done"
    BY <1>1, <2>1 DEF Steps, InTransaction, Updated
  <2>5. \A q \in Requests \ {r} : call'[q] = call[q] /\ allowed'[q] = allowed[q]
                                  /\ snapshot'[q] = snapshot[q]
    BY InHand DEF TypeOK
  <2> HIDE <1>3 DEF ReadRequest, step
  <2> QED
    BY <2>2, <2>3, <2>4, <2>5, ReadKeeps
<1> QED
  BY <1>2, <1>3

-----------------------------------------------------------------------------
(* The transaction up to its commit, and failures.                         *)

\* A statement of the transaction that locks a row and writes a table.
Wrote(r) ==
    CASE pc[r] = "apply"  -> {"members"}
      [] pc[r] = "update" -> IF requests[call[r].id].status = "pending" THEN {"requests"} ELSE {}
      [] pc[r] = "notify" -> {"notifications"}
After(r) ==
    CASE pc[r] = "apply" -> "update" [] pc[r] = "update" -> "notify" [] pc[r] = "notify" -> "audit"

LEMMA WriteKeeps ==
  ASSUME Inv, NEW r \in Requests, pc[r] \in {"apply", "update", "notify"}, Take(r),
         writes' = [writes EXCEPT ![r] = @ \cup Wrote(r)],
         Goto(r, After(r)), UNCHANGED <<serial, local>>
  PROVE  Inv'
<1> USE DEF Goto, local, database
<1>0. call[r] # None /\ call[r].op \in {"approve", "reject"} /\ Exists(call[r].id)
  BY InHand DEF Sound, Control, Learnt, InTransaction
<1>1. TypeOK'
  <2>1. pc' \in [Requests -> Steps]
    BY InHand DEF TypeOK, Steps, After
  <2>2. writes' \in [Requests -> SUBSET {"members", "requests", "notifications", "audit"}]
    BY InHand DEF TypeOK, Wrote
  <2>3. locks' \subseteq [by : Requests, row : Members \cup RequestIds, mode : {"S", "X"}]
    BY TakeKeeps
  <2> QED
    BY <2>1, <2>2, <2>3, InHand DEF TypeOK
<1>2. \A q \in Requests \ {r} : Same(q)
  BY TakeKeeps, InHand DEF Same, TypeOK
<1>3. /\ pc'[r] = After(r) /\ answer'[r] = answer[r] /\ writes'[r] = writes[r] \cup Wrote(r)
      /\ ReviewedMember(r)' = ReviewedMember(r)
  BY InHand DEF TypeOK, ReviewedMember
<1>4. Control(r)' /\ Learnt(r)'
  BY <1>0, <1>3, InHand
  DEF Sound, Control, Learnt, After, InTransaction, Exists, Applied
<1>5. Buffered(r)'
  BY <1>0, <1>3, InHand DEF Sound, Control, Buffered, After, Wrote, InTransaction, Updated
<1>6. Locked(r)' /\ Locking(r)'
  <2>1. \A l \in locks' : l.by = r => l \in locks \/ l \in Wanted(r)
    BY TakeKeeps
  <2>2. locks \subseteq locks' /\ Wanted(r) \subseteq locks'
    BY TakeKeeps
  <2>3. CASE pc[r] = "apply"
    BY <1>0, <1>3, <2>1, <2>2, <2>3, WantedIs, InHand
    DEF Sound, Control, Locked, Locking, After, InTransaction, Updated
  <2>4. CASE pc[r] = "update"
    BY <1>0, <1>3, <2>1, <2>2, <2>4, WantedIs, InHand
    DEF Sound, Locked, Locking, After, InTransaction, Updated
  <2>5. CASE pc[r] = "notify"
    BY <1>0, <1>3, <2>1, <2>2, <2>5, WantedIs, InHand
    DEF Sound, Locked, Locking, After, InTransaction, Updated
  <2> QED
    BY <2>3, <2>4, <2>5
<1>7. Numbered(r)'
  BY <1>3, InHand DEF Sound, Numbered, Given, After
<1>8. /\ answer'[r] # "scope_error" /\ pc[r] # "done" /\ NoConflict' /\ Given \subseteq Given'
  BY <1>3, TakeKeeps DEF Inv, AllowListHolds, Given
<1> QED
  BY <1>1, <1>2, <1>4, <1>5, <1>6, <1>7, <1>8, QuietKeepsInv DEF Quietly, Keeps, Sound

LEMMA ApplyChangesKeeps ==
  ASSUME Inv, NEW r \in Requests, ApplyChanges(r)
  PROVE  Inv'
<1>1. DOMAIN Applied(r) \subseteq allowed[r]
  BY AppliedIs, InHand DEF ApplyChanges, Sound, Control, Learnt
<1>2. /\ pc[r] = "apply" /\ Take(r) /\ Goto(r, "update") /\ UNCHANGED <<serial, local>>
      /\ writes' = [writes EXCEPT ![r] = @ \cup {"members"}]
  BY <1>1 DEF ApplyChanges
<1>3. Wrote(r) = {"members"} /\ After(r) = "update"
  BY <1>2 DEF Wrote, After
<1> QED
  BY <1>2, <1>3, WriteKeeps

LEMMA UpdateRequestKeeps ==
  ASSUME Inv, NEW r \in Requests, UpdateRequest(r)
  PROVE  Inv'
<1>1. pc[r] = "update" /\ Take(r) /\ Goto(r, "notify") /\ UNCHANGED <<serial, local>>
  BY DEF UpdateRequest
<1>2. After(r) = "notify"
  BY <1>1 DEF After
<1>3. writes' = [writes EXCEPT ![r] = @ \cup Wrote(r)]
  BY <1>1 DEF UpdateRequest, Wrote
<1> QED
  BY <1>1, <1>2, <1>3, WriteKeeps

LEMMA CreateNotificationKeeps ==
  ASSUME Inv, NEW r \in Requests, CreateNotification(r)
  PROVE  Inv'
<1>1. /\ pc[r] = "notify" /\ Take(r) /\ Goto(r, "audit") /\ UNCHANGED <<serial, local>>
      /\ writes' = [writes EXCEPT ![r] = @ \cup {"notifications"}]
  BY DEF CreateNotification
<1>2. Wrote(r) = {"notifications"} /\ After(r) = "audit"
  BY <1>1 DEF Wrote, After
<1> QED
  BY <1>1, <1>2, WriteKeeps

\* The id of the audit record is above all ids given before.
LEMMA RecordAuditKeeps ==
  ASSUME Inv, NEW r \in Requests, RecordAudit(r)
  PROVE  Inv'
<1> USE DEF RecordAudit, Goto, local, database
<1>0. /\ call[r] # None /\ call[r].op \in {"approve", "reject"} /\ Exists(call[r].id)
      /\ serial[r] = 0
  BY InHand DEF Sound, Control, Learnt, Numbered, InTransaction
<1>1. serial' = [serial EXCEPT ![r] = 1 + Cardinality(Given)]
  BY DEF Given
<1>2. Cardinality(Given) \in Nat /\ IsFiniteSet(Given)
  BY GivenCounts, InHand
<1>3. serial \in [Requests -> Nat] /\ serial'[r] = 1 + Cardinality(Given)
  BY <1>1, InHand DEF TypeOK
<1>4. Given' = Given \cup {r} /\ r \notin Given
  BY <1>0, <1>1, <1>2, <1>3 DEF Given
<1>5. Cardinality(Given') = 1 + Cardinality(Given)
  <2>1. Cardinality(Given \cup {r}) = Cardinality(Given) + 1
    BY <1>2, <1>4, FS_AddElement
  <2> QED
    BY <1>2, <1>4, <2>1
<1>6. TypeOK'
  <2>1. pc' \in [Requests -> Steps]
    BY InHand DEF TypeOK, Steps
  <2>2. writes' \in [Requests -> SUBSET {"members", "requests", "notifications", "audit"}]
    BY InHand DEF TypeOK
  <2>3. serial' \in [Requests -> Nat]
    BY <1>1, <1>2, InHand DEF TypeOK
  <2> QED
    BY <2>1, <2>2, <2>3, InHand DEF TypeOK
<1>7. \A q \in Requests \ {r} : Same(q)
  BY InHand DEF Same, TypeOK
<1>8. /\ pc'[r] = "commit" /\ answer'[r] = answer[r] /\ writes'[r] = writes[r] \cup {"audit"}
      /\ ReviewedMember(r)' = ReviewedMember(r)
  BY InHand DEF TypeOK, ReviewedMember
<1>9. Sound(r)'
  <2>1. Control(r)' /\ Learnt(r)'
    BY <1>0, <1>8, InHand DEF Sound, Control, Learnt, InTransaction, Exists, Applied
  <2>2. Buffered(r)'
    BY <1>8, InHand DEF Sound, Buffered, InTransaction, Updated
  <2>3. Locked(r)' /\ Locking(r)'
    BY <1>8, InHand DEF Sound, Locked, Locking, InTransaction, Updated
  <2>4. Numbered(r)'
    <3>1. \A a \in Approvals : a.id \in Nat /\ a.id <= Cardinality(Given)
      <4> TAKE a \in Approvals
      <4>1. a.by \in Requests /\ a.id = serial[a.by]
        BY DEF Approvals, Inv, Past, TypeOK
      <4> QED
        BY <4>1, <1>3 DEF Inv, Sound, Numbered
    <3>2. \A a \in Approvals' : a.id < serial'[r]
      BY <1>2, <1>3, <3>1 DEF Approvals
    <3>3. serial'[r] <= Cardinality(Given') /\ serial'[r] > 0
      BY <1>2, <1>3, <1>5
    <3> QED
      BY <1>8, <3>2, <3>3 DEF Numbered, Given
  <2> QED
    BY <2>1, <2>2, <2>3, <2>4 DEF Sound
<1>10. /\ answer'[r] # "scope_error" /\ pc[r] # "done" /\ NoConflict' /\ Given \subseteq Given'
  BY <1>4, <1>8 DEF Inv, AllowListHolds, NoConflict
<1> QED
  BY <1>6, <1>7, <1>9, <1>10, QuietKeepsInv DEF Quietly, Keeps

LEMMA FailKeeps ==
  ASSUME Inv, NEW r \in Requests, Fail(r)
  PROVE  Inv'
BY RefuseKeeps DEF Fail

LEMMA BreakDeadlockKeeps ==
  ASSUME Inv, NEW r \in Requests, BreakDeadlock(r)
  PROVE  Inv'
<1>1. r \in InFlight
  BY DEF BreakDeadlock, ShortestCycles, WaitCycles, Waiting
<1> QED
  BY <1>1, RefuseKeeps DEF BreakDeadlock

-----------------------------------------------------------------------------
(* The two statements that change the database.                            *)

\* The row a member files has the shape of one.
LEMMA RowIs ==
  ASSUME Inv, NEW r \in Requests, pc[r] = "insert"
  PROVE  /\ Row(r) \in Proposals /\ Row(r) # None
         /\ Row(r).member = call[r].member /\ Row(r).status = "pending"
         /\ Row(r).current = [f \in DOMAIN Proposed(r) |-> snapshot[r].values[f]]
         /\ DOMAIN Row(r).current = DOMAIN Row(r).requested
<1>1. call[r] # None /\ call[r].op = "file" /\ snapshot[r] \in [values : [Fields -> Values]]
  BY InHand DEF Sound, Control
<1>2. call[r].member \in Members /\ call[r].body \in [Fields -> Values \cup {Spaces}]
  BY <1>1, InHand
<1>3. Proposed(r) \in Documents
  BY <1>2, FilterType DEF Proposed
<1>4. DOMAIN Proposed(r) \subseteq Fields
  BY <1>3 DEF Documents
<1>5. [f \in DOMAIN Proposed(r) |-> snapshot[r].values[f]] \in [DOMAIN Proposed(r) -> Values]
  BY <1>1, <1>4
<1>6. [f \in DOMAIN Proposed(r) |-> snapshot[r].values[f]] \in Documents
  BY <1>4, <1>5 DEF Documents
<1>7. Row(r) \in Proposals
  BY <1>2, <1>3, <1>6 DEF Row, Proposals, Statuses
<1> QED
  BY <1>7, NoneAssumption DEF Row

LEMMA CreateRequestKeeps ==
  ASSUME Inv, NEW r \in Requests, CreateRequest(r)
  PROVE  Inv'
<1> USE DEF CreateRequest, Reply, NoTransaction, local
<1>0. /\ pc[r] = "insert" /\ call[r] # None /\ call[r].op = "file" /\ requests[r] = None
      /\ writes[r] = {} /\ serial[r] = 0
  BY InHand DEF TypeOK, Sound, Control, Buffered, Numbered, InTransaction, Updated
<1>1. requests' \in [RequestIds -> Proposals \cup {None}] /\ requests'[r] = Row(r)
  BY <1>0, RowIs, InHand DEF TypeOK
<1>2. \A q \in RequestIds \ {r} : requests'[q] = requests[q]
  BY InHand DEF TypeOK
<1>3. TypeOK'
  <2>1. pc' \in [Requests -> Steps] /\ answer' \in [Requests -> Answers]
    BY InHand DEF TypeOK, Steps, Answers
  <2> QED
    BY <1>1, <2>1, InHand DEF TypeOK
<1>4. \A q \in Requests \ {r} : Same(q)
  BY InHand DEF Same, TypeOK
<1>5. \A q \in Requests \ {r} : Apart(q)
  <2> TAKE q \in Requests \ {r}
  <2>1. pc[q] \in Updated => call[q].id \in RequestIds \ {r}
    BY <1>0, InHand DEF Sound, Control, Learnt, Exists, InTransaction, Updated
  <2> QED
    BY <1>2, <2>1 DEF Apart, RequestIds, Approvals
<1>6. \A q \in RequestIds : Exists(q) => q # r /\ requests'[q] = requests[q]
  BY <1>0, <1>2 DEF Exists
<1>7. Sound(r)'
  <2>1. pc'[r] = "done" /\ answer'[r] \in {"ok", "error"}
    BY InHand DEF TypeOK
  <2>2. Control(r)' /\ Learnt(r)'
    BY <1>0, <2>1, InHand DEF Sound, Control, Learnt, InTransaction
  <2>3. Buffered(r)'
    BY <1>0, <2>1 DEF Buffered, InTransaction, Updated
  <2>4. Locked(r)' /\ Locking(r)'
    BY <1>0, <2>1, InHand DEF Sound, Locked, Locking, InTransaction, Updated
  <2>5. Numbered(r)'
    BY <2>1, InHand DEF Sound, Numbered, Given
  <2> QED
    BY <2>2, <2>3, <2>4, <2>5 DEF Sound
<1>8. NoConflict' /\ Given \subseteq Given'
  BY DEF Inv, NoConflict, Given
<1>9. \A q \in Requests : Sound(q)'
  <2>1. \A q \in RequestIds : Exists(q) =>
          /\ requests'[q] # None /\ requests'[q].member = requests[q].member
          /\ requests'[q].requested = requests[q].requested
          /\ requests'[q].current = requests[q].current
    BY <1>6 DEF Exists
  <2>2. Keeps(r)
    BY <1>3, <1>4, <1>7, <1>8 DEF Keeps
  <2> QED
    BY <1>5, <2>1, <2>2, KeepsSound
<1>10. Past' /\ AllowListHolds'
  <2>1. \A q \in Requests : pc[q] = "done" => pc'[q] = "done"
    BY <1>4, <1>0 DEF Same
  <2>2. \A q \in Requests : answer'[q] # "scope_error"
    BY InHand DEF Inv, AllowListHolds, TypeOK
  <2>3. Past'
    BY <2>1 DEF Inv, Past, TypeOK
  <2> QED
    BY <2>2, <2>3 DEF Inv, AllowListHolds, Approvals
<1>11. RowsShaped'
  BY <1>0, <1>1, <1>2, RowIs DEF Inv, RowsShaped, Exists
<1>12. AuditExplainsRegister'
  BY DEF Inv, AuditExplainsRegister, History, Approvals
<1>13. ReviewIsAccounted'
  <2>1. requests'[r].status = "pending"
    BY <1>0, <1>1, RowIs
  <2> QED
    BY <1>2, <1>3, <2>1 DEF Inv, ReviewIsAccounted, Exists
<1> QED
  BY <1>3, <1>8, <1>9, <1>10, <1>11, <1>12, <1>13 DEF Inv

\* What a commit publishes, put in terms of the call.
LEMMA Published ==
  ASSUME Inv, NEW r \in Requests, Commit(r)
  PROVE  /\ pc[r] = "commit" /\ call[r] # None /\ call[r].op \in {"approve", "reject"}
         /\ call[r].id \in RequestIds /\ requests[call[r].id] \in Proposals
         /\ call[r].staff \in Signers /\ Exists(call[r].id)
         /\ ReviewedMember(r) \in Members /\ serial[r] \in Nat
         /\ members' = IF call[r].op = "approve"
              THEN [members EXCEPT ![ReviewedMember(r)] =
                     [f \in Fields |-> IF f \in DOMAIN Applied(r) THEN Applied(r)[f] ELSE @[f]]]
              ELSE members
         /\ IF requests[call[r].id].status = "pending"
            THEN /\ requests' = [requests EXCEPT ![call[r].id].status = Verdict(call[r]),
                                                 ![call[r].id].reviewedBy = call[r].staff]
                 /\ decider' = [decider EXCEPT ![call[r].id] = r]
            ELSE UNCHANGED <<requests, decider>>
         /\ notifications' = notifications \cup {Notification(r)}
         /\ audit' = audit \cup {AuditRecord(r)}
<1>1. /\ pc[r] = "commit" /\ call[r] # None /\ call[r].op \in {"approve", "reject"}
      /\ call[r].staff \in Signers /\ Exists(call[r].id)
  BY InHand DEF Commit, Sound, Control, Learnt, InTransaction
<1>2. /\ call[r].id \in RequestIds /\ requests[call[r].id] \in Proposals
      /\ ReviewedMember(r) \in Members /\ serial[r] \in Nat
  BY <1>1, InHand DEF TypeOK
<1>3. /\ "members" \in writes[r] <=> call[r].op = "approve"
      /\ "requests" \in writes[r] <=> requests[call[r].id].status = "pending"
      /\ "notifications" \in writes[r] /\ "audit" \in writes[r]
  BY <1>1, InHand DEF Sound, Buffered, InTransaction, Updated
<1>4. Publish(r)
  BY DEF Commit
<1>5. members' = IF call[r].op = "approve"
              THEN [members EXCEPT ![ReviewedMember(r)] =
                     [f \in Fields |-> IF f \in DOMAIN Applied(r) THEN Applied(r)[f] ELSE @[f]]]
              ELSE members
  BY <1>3, <1>4 DEF Publish
<1>6. IF requests[call[r].id].status = "pending"
            THEN /\ requests' = [requests EXCEPT ![call[r].id].status = Verdict(call[r]),
                                                 ![call[r].id].reviewedBy = call[r].staff]
                 /\ decider' = [decider EXCEPT ![call[r].id] = r]
            ELSE UNCHANGED <<requests, decider>>
  BY <1>3, <1>4 DEF Publish
<1>7. /\ notifications' = notifications \cup {Notification(r)}
      /\ audit' = audit \cup {AuditRecord(r)}
  BY <1>3, <1>4 DEF Publish
<1> QED
  BY <1>1, <1>2, <1>5, <1>6, <1>7

\* The row it decides, if nobody has, and no other.
LEMMA Decides ==
  ASSUME Inv, NEW r \in Requests, Commit(r)
  PROVE  /\ requests' \in [RequestIds -> Proposals \cup {None}]
         /\ \A q \in RequestIds : Exists(q) =>
              /\ requests'[q] # None /\ requests'[q].member = requests[q].member
              /\ requests'[q].requested = requests[q].requested
              /\ requests'[q].current = requests[q].current
         /\ \A q \in RequestIds :
              IF q = call[r].id /\ requests[q].status = "pending"
              THEN /\ requests'[q].status = Verdict(call[r])
                   /\ requests'[q].reviewedBy = call[r].staff /\ decider'[q] = r
              ELSE requests'[q] = requests[q] /\ decider'[q] = decider[q]
<1> DEFINE id == call[r].id
<1>1. id \in RequestIds /\ requests[id] \in Proposals /\ call[r].staff \in Staff
  BY Published, StaffAssumption DEF Signers
<1>2. requests \in [RequestIds -> Proposals \cup {None}] /\ decider \in [RequestIds -> Requests \cup {None}]
  BY InHand DEF TypeOK
<1>3. CASE requests[id].status = "pending"
  <2>1. /\ requests' = [requests EXCEPT ![id].status = Verdict(call[r]),
                                       ![id].reviewedBy = call[r].staff]
        /\ decider' = [decider EXCEPT ![id] = r]
    BY <1>3, Published
  <2>2. requests'[id] = [requests[id] EXCEPT !.status = Verdict(call[r]),
                                             !.reviewedBy = call[r].staff]
    BY <1>1, <1>2, <2>1
  <2>3. Verdict(call[r]) \in Statuses
    BY DEF Verdict, Statuses
  <2>4. /\ requests'[id] \in Proposals /\ requests'[id].status = Verdict(call[r])
        /\ requests'[id].reviewedBy = call[r].staff
        /\ requests'[id].member = requests[id].member
        /\ requests'[id].requested = requests[id].requested
        /\ requests'[id].current = requests[id].current
    BY <1>1, <2>2, <2>3 DEF Proposals
  <2>5. /\ \A q \in RequestIds \ {id} : requests'[q] = requests[q] /\ decider'[q] = decider[q]
        /\ decider'[id] = r /\ requests' = [q \in RequestIds |-> requests'[q]]
    BY <1>1, <1>2, <2>1
  <2> QED
    BY <1>2, <1>3, <2>4, <2>5, NoneAssumption DEF Exists
<1>4. CASE requests[id].status # "pending"
  <2>1. UNCHANGED <<requests, decider>>
    BY <1>4, Published
  <2> QED
    BY <1>2, <1>4, <2>1 DEF Exists
<1> QED
  BY <1>3, <1>4

\* The register after it.
LEMMA Writes ==
  ASSUME Inv, NEW r \in Requests, Commit(r)
  PROVE  /\ members' \in [Members -> [Fields -> Values]]
         /\ \A m \in Members, f \in Fields :
              members'[m][f] = IF /\ call[r].op = "approve" /\ m = ReviewedMember(r)
                                  /\ f \in DOMAIN Applied(r)
                               THEN Applied(r)[f] ELSE members[m][f]
<1>1. members \in [Members -> [Fields -> Values]]
  BY InHand DEF TypeOK
<1>2. CASE call[r].op # "approve"
  BY <1>1, <1>2, Published
<1>3. CASE call[r].op = "approve"
  <2> DEFINE m == ReviewedMember(r)
             row == [f \in Fields |-> IF f \in DOMAIN Applied(r) THEN Applied(r)[f]
                                                                 ELSE members[m][f]]
  <2>1. m \in Members /\ \A f \in DOMAIN Applied(r) : Applied(r)[f] \in Values
    BY <1>3, Published, AppliedIs, InHand
  <2>2. row \in [Fields -> Values]
    BY <1>1, <2>1
  <2>3. members' = [members EXCEPT ![m] = row]
    <3> HIDE DEF m
    <3>1. members' = [members EXCEPT ![m] =
             [f \in Fields |-> IF f \in DOMAIN Applied(r) THEN Applied(r)[f] ELSE @[f]]]
      BY <1>3, Published DEF m
    <3> QED
      BY <3>1
  <2> HIDE DEF row, m
  <2>4. members' \in [Members -> [Fields -> Values]]
    BY <1>1, <2>1, <2>2, <2>3
  <2>5. \A f \in Fields : row[f] = IF f \in DOMAIN Applied(r) THEN Applied(r)[f]
                                                              ELSE members[m][f]
    BY DEF row
  <2> QED
    BY <1>1, <1>3, <2>1, <2>3, <2>4, <2>5 DEF m
<1> QED
  BY <1>2, <1>3

\* The records it leaves.
LEMMA Leaves ==
  ASSUME Inv, NEW r \in Requests, Commit(r)
  PROVE  /\ Notification(r) \in [by : Requests, request : RequestIds,
                                 says : {"approved", "rejected"}, member : Members]
         /\ AuditRecord(r) \in [id : Nat, by : Requests, request : RequestIds,
                                member : Members, actor : Staff, action : Actions,
                                before : Documents, after : Documents]
         /\ AuditRecord(r).id = serial[r] /\ AuditRecord(r).by = r
         /\ AuditRecord(r).request = call[r].id /\ AuditRecord(r).actor = call[r].staff
         /\ AuditRecord(r).member = ReviewedMember(r)
         /\ call[r].op = "approve" => /\ AuditRecord(r).action = "profile_change.approved"
                                      /\ AuditRecord(r).after = Applied(r)
                                      /\ AuditRecord(r).before = Before(r)
         /\ call[r].op = "reject" => /\ AuditRecord(r).action = "profile_change.rejected"
                                     /\ AuditRecord(r).after = <<>>
         /\ AuditRecord(r) \in Approvals' <=> call[r].op = "approve"
<1>1. /\ call[r].op \in {"approve", "reject"} /\ call[r].id \in RequestIds
      /\ call[r].staff \in Staff /\ ReviewedMember(r) \in Members /\ serial[r] \in Nat
      /\ audit' = audit \cup {AuditRecord(r)} /\ Exists(call[r].id) /\ call[r] # None
  BY Published, StaffAssumption DEF Signers
<1>2. Verdict(call[r]) \in {"approved", "rejected"}
  BY DEF Verdict
<1>3. /\ AuditRecord(r).id = serial[r] /\ AuditRecord(r).by = r
      /\ AuditRecord(r).request = call[r].id /\ AuditRecord(r).actor = call[r].staff
      /\ AuditRecord(r).member = ReviewedMember(r)
      /\ call[r].op = "approve" => /\ AuditRecord(r).action = "profile_change.approved"
                                   /\ AuditRecord(r).after = Applied(r)
                                   /\ AuditRecord(r).before = Before(r)
      /\ call[r].op = "reject" => /\ AuditRecord(r).action = "profile_change.rejected"
                                  /\ AuditRecord(r).after = <<>>
  BY DEF AuditRecord
<1>4. call[r].op = "approve" => Applied(r) \in Documents /\ Before(r) \in Documents
  <2> SUFFICES ASSUME call[r].op = "approve"
               PROVE  Applied(r) \in Documents /\ Before(r) \in Documents
    OBVIOUS
  <2> DEFINE row == requests[call[r].id]
  <2>1. /\ Applied(r) \in Documents /\ DOMAIN Applied(r) \subseteq Fields
        /\ DOMAIN Applied(r) \subseteq DOMAIN row.requested
    BY <1>1, AppliedIs, InHand
  <2>2. row.current \in Documents /\ DOMAIN row.current = DOMAIN row.requested
    BY <1>1, ProposalFields, InHand DEF Inv, RowsShaped
  <2>3. PICK F \in SUBSET Fields : row.current \in [F -> Values]
    BY <2>2 DEF Documents
  <2>4. [f \in DOMAIN Applied(r) |-> row.current[f]] \in [DOMAIN Applied(r) -> Values]
    BY <2>1, <2>2, <2>3
  <2>5. Before(r) = [f \in DOMAIN Applied(r) |-> row.current[f]]
    BY DEF Before
  <2>6. Before(r) \in Documents
    BY <2>1, <2>4, <2>5 DEF Documents
  <2> QED
    BY <2>1, <2>6
<1>5. Notification(r) \in [by : Requests, request : RequestIds,
                           says : {"approved", "rejected"}, member : Members]
  BY <1>1, <1>2 DEF Notification
<1>6. AuditRecord(r) \in [id : Nat, by : Requests, request : RequestIds,
                          member : Members, actor : Staff, action : Actions,
                          before : Documents, after : Documents]
  <2>1. CASE call[r].op = "approve"
    BY <1>1, <1>4, <2>1 DEF AuditRecord, Actions
  <2>2. CASE call[r].op = "reject"
    BY <1>1, <2>2, NothingIsADocument DEF AuditRecord, Actions
  <2> QED
    BY <1>1, <2>1, <2>2
<1>7. AuditRecord(r) \in Approvals' <=> call[r].op = "approve"
  BY <1>1, <1>3 DEF Approvals
<1> QED
  BY <1>3, <1>5, <1>6, <1>7

\* Whoever holds the lock on a row is alone with it until it commits.
LEMMA CommitApart ==
  ASSUME Inv, NEW r \in Requests, Commit(r), NEW q \in Requests \ {r}
  PROVE  Apart(q)
<1>0. pc[r] = "commit" /\ Exists(call[r].id) /\ call[r].op \in {"approve", "reject"}
  BY Published
<1>1. requests'[q] = None <=> requests[q] = None
  <2>1. q \in RequestIds
    BY DEF RequestIds
  <2> QED
    BY <1>0, <2>1, Decides DEF Exists
<1>2. ASSUME pc[q] \in Updated
      PROVE  /\ requests'[call[q].id].status = "pending"
             <=> requests[call[q].id].status = "pending"
  <2>1. call[q].id \in RequestIds
    BY <1>2, InHand DEF Sound, Control, Learnt, InTransaction, Updated
  <2>2. /\ [by |-> r, row |-> call[r].id, mode |-> "X"] \in locks
        /\ [by |-> q, row |-> call[q].id, mode |-> "X"] \in locks
    BY <1>0, <1>2, InHand DEF Sound, Locking, Updated
  <2>3. call[q].id # call[r].id
    BY <2>2 DEF Inv, NoConflict, Conflict
  <2> QED
    BY <2>1, <2>3, Decides
<1>3. ASSUME pc[q] = "commit", NEW a \in Approvals' \ Approvals
      PROVE  a.member # ReviewedMember(q)
  <2>1. a = AuditRecord(r) /\ call[r].op = "approve"
    <3>1. audit' = audit \cup {AuditRecord(r)}
      BY Published
    <3>2. a = AuditRecord(r)
      BY <1>3, <3>1 DEF Approvals
    <3> QED
      BY <1>3, <3>2, Leaves
  <2>2. /\ [by |-> r, row |-> ReviewedMember(r), mode |-> "X"] \in locks
        /\ [by |-> q, row |-> ReviewedMember(q), mode |-> "S"] \in locks
    BY <1>0, <1>3, <2>1, InHand DEF Sound, Locking, InTransaction
  <2>3. ReviewedMember(q) # ReviewedMember(r)
    BY <2>2 DEF Inv, NoConflict, Conflict
  <2> QED
    BY <2>1, <2>3, Leaves
<1> QED
  BY <1>1, <1>2, <1>3 DEF Apart

LEMMA CommitKeeps ==
  ASSUME Inv, NEW r \in Requests, Commit(r)
  PROVE  Inv'
<1> USE DEF Reply, EndTransaction
<1>1. /\ pc' = [pc EXCEPT ![r] = "done"] /\ locks' = {l \in locks : l.by # r}
      /\ writes' = [writes EXCEPT ![r] = {}] /\ UNCHANGED <<serial, local>>
      /\ \E a \in {"ok", "error"} : answer' = [answer EXCEPT ![r] = a]
  BY DEF Commit
<1>p. /\ pc[r] = "commit" /\ call[r] # None /\ call[r].op \in {"approve", "reject"}
      /\ call[r].id \in RequestIds /\ Exists(call[r].id) /\ serial[r] \in Nat
      /\ audit' = audit \cup {AuditRecord(r)}
      /\ notifications' = notifications \cup {Notification(r)}
  BY Published
<1>a. /\ AuditRecord(r).by = r /\ AuditRecord(r).id = serial[r]
      /\ AuditRecord(r).member = ReviewedMember(r)
      /\ AuditRecord(r) \in Approvals' <=> call[r].op = "approve"
      /\ call[r].op = "approve" => AuditRecord(r).after = Applied(r)
      /\ call[r].op = "approve" => AuditRecord(r).action = "profile_change.approved"
      /\ call[r].op = "reject" => /\ AuditRecord(r).after = <<>>
                                  /\ AuditRecord(r).action = "profile_change.rejected"
  BY Leaves
<1>b. call[r].op = "approve" => DOMAIN Applied(r) # {}
  BY <1>p, InHand DEF Sound, Learnt, InTransaction
<1>c. Approvals' = Approvals \cup (IF call[r].op = "approve" THEN {AuditRecord(r)} ELSE {})
  BY <1>p, <1>a DEF Approvals
<1>2. TypeOK'
  <2>1. pc' \in [Requests -> Steps] /\ answer' \in [Requests -> Answers]
    BY <1>1, InHand DEF TypeOK, Steps, Answers
  <2>2. /\ writes' \in [Requests -> SUBSET {"members", "requests", "notifications", "audit"}]
        /\ locks' \subseteq [by : Requests, row : Members \cup RequestIds, mode : {"S", "X"}]
    BY <1>1, InHand DEF TypeOK
  <2>3. decider' \in [RequestIds -> Requests \cup {None}]
    <3>1. \/ decider' = [decider EXCEPT ![call[r].id] = r]
          \/ UNCHANGED decider
      BY Published
    <3> QED
      BY <3>1, InHand DEF TypeOK
  <2>4. /\ members' \in [Members -> [Fields -> Values]]
        /\ requests' \in [RequestIds -> Proposals \cup {None}]
    BY Writes, Decides
  <2>5. notifications' \subseteq [by : Requests, request : RequestIds,
                                  says : {"approved", "rejected"}, member : Members]
    <3>1. Notification(r) \in [by : Requests, request : RequestIds,
                               says : {"approved", "rejected"}, member : Members]
      BY Leaves
    <3> QED
      BY <1>p, <3>1, InHand DEF TypeOK
  <2>6. audit' \subseteq [id : Nat, by : Requests, request : RequestIds, member : Members,
                          actor : Staff, action : Actions, before : Documents,
                          after : Documents]
    <3>1. AuditRecord(r) \in [id : Nat, by : Requests, request : RequestIds,
                              member : Members, actor : Staff, action : Actions,
                              before : Documents, after : Documents]
      BY Leaves
    <3> QED
      BY <1>p, <3>1, InHand DEF TypeOK
  <2> QED
    BY <1>1, <2>1, <2>2, <2>3, <2>4, <2>5, <2>6, InHand DEF TypeOK, local
<1>3. \A q \in Requests \ {r} : Same(q)
  BY <1>1, InHand DEF Same, TypeOK, local
<1>4. NoConflict' /\ Given \subseteq Given'
  BY <1>1 DEF Inv, NoConflict, Given
<1>5. pc'[r] = "done" /\ writes'[r] = {} /\ answer'[r] \in {"ok", "error"}
  BY <1>1, InHand DEF TypeOK
<1>6. Sound(r)'
  <2>1. Control(r)'
    <3>1. requests'[r] = None <=> requests[r] = None
      <4>1. r \in RequestIds
        BY InHand
      <4> QED
        BY <1>p, <4>1, Decides DEF Exists
    <3> QED
      BY <1>1, <1>5, <1>p, <3>1, InHand DEF Sound, Control, InTransaction, local
  <2>2. Learnt(r)' /\ Buffered(r)'
    BY <1>5 DEF Learnt, Buffered, InTransaction, Updated
  <2>3. Locked(r)' /\ Locking(r)'
    BY <1>1, <1>5 DEF Locked, Locking, InTransaction, Updated
  <2>4. Numbered(r)'
    BY <1>1, <1>5, InHand DEF Sound, Numbered, Given
  <2> QED
    BY <2>1, <2>2, <2>3, <2>4 DEF Sound
<1>7. \A q \in Requests : Sound(q)'
  <2>1. Keeps(r)
    BY <1>2, <1>3, <1>4, <1>6 DEF Keeps
  <2>2. \A q \in Requests \ {r} : Apart(q)
    BY CommitApart
  <2> HIDE DEF Reply, EndTransaction
  <2> QED
    BY <2>1, <2>2, Decides, KeepsSound
<1>8. Past'
  <2>1. \A q \in Requests : pc[q] = "done" => pc'[q] = "done"
    BY <1>1, InHand DEF TypeOK
  <2>2. \A n \in notifications' : pc'[n.by] = "done"
    <3>1. Notification(r).by = r
      BY DEF Notification
    <3>2. \A n \in notifications : n.by \in Requests /\ pc[n.by] = "done"
      BY InHand DEF Inv, Past, TypeOK
    <3> QED
      BY <1>5, <1>p, <2>1, <3>1, <3>2
  <2>3. \A a \in audit' : pc'[a.by] = "done" /\ a.id = serial'[a.by]
    <3>1. \A a \in audit : a.by \in Requests /\ pc[a.by] = "done" /\ a.id = serial[a.by]
      BY InHand DEF Inv, Past, TypeOK
    <3> QED
      BY <1>1, <1>5, <1>p, <1>a, <2>1, <3>1
  <2>4. \A a \in audit' :
          /\ a.action = "profile_change.approved" => DOMAIN a.after # {}
          /\ a.action = "profile_change.rejected" => a.after = <<>>
    BY <1>p, <1>a, <1>b DEF Inv, Past
  <2> QED
    BY <2>2, <2>3, <2>4 DEF Past
<1>9. AllowListHolds'
  <2>1. \A q \in Requests : answer'[q] # "scope_error"
    BY <1>1, InHand DEF Inv, AllowListHolds, TypeOK
  <2>2. allowed' = allowed
    BY <1>1 DEF local
  <2>3. \A a \in Approvals' : DOMAIN a.after # {} /\ DOMAIN a.after \subseteq allowed[a.by]
    <3> TAKE a \in Approvals'
    <3>1. CASE a \in Approvals
      BY <3>1 DEF Inv, AllowListHolds
    <3>2. CASE a \notin Approvals
      <4>1. a = AuditRecord(r) /\ call[r].op = "approve"
        BY <1>c, <3>2
      <4>2. DOMAIN Applied(r) \subseteq allowed[r]
        BY <1>p, <4>1, AppliedIs, InHand
      <4> QED
        BY <1>a, <1>b, <4>1, <4>2
    <3> QED
      BY <3>1, <3>2
  <2> QED
    BY <2>1, <2>2, <2>3 DEF AllowListHolds
<1>10. RowsShaped'
  <2>1. \A q \in RequestIds : IF Exists(q)
          THEN /\ requests'[q].requested = requests[q].requested
               /\ requests'[q].current = requests[q].current
          ELSE requests'[q] = requests[q]
    BY <1>p, Decides
  <2> QED
    BY <2>1 DEF Inv, RowsShaped, Exists
<1>11. AuditExplainsRegister'
  <2> SUFFICES ASSUME NEW m \in Members, NEW f \in Fields
               PROVE  \/ History(m, f)' = {} /\ members'[m][f] = Register[m][f]
                      \/ \E last \in History(m, f)' :
                           /\ \A a \in History(m, f)' : a.id <= last.id
                           /\ members'[m][f] = last.after[f]
    BY DEF AuditExplainsRegister
  <2>1. CASE call[r].op = "approve" /\ m = ReviewedMember(r) /\ f \in DOMAIN Applied(r)
    <3>1. History(m, f)' = History(m, f) \cup {AuditRecord(r)}
      BY <1>a, <1>c, <2>1 DEF History
    <3>2. \A a \in History(m, f) : a.id < serial[r] /\ a.id \in Nat
      BY <2>1, Published, InHand DEF History, Sound, Numbered, Approvals, TypeOK
    <3>3. \A a \in History(m, f)' : a.id <= AuditRecord(r).id
      BY <3>1, <3>2, Published, Leaves
    <3>4. members'[m][f] = AuditRecord(r).after[f]
      BY <2>1, Writes, Leaves
    <3> QED
      BY <3>1, <3>3, <3>4
  <2>2. CASE ~(call[r].op = "approve" /\ m = ReviewedMember(r) /\ f \in DOMAIN Applied(r))
    <3>1. History(m, f)' = History(m, f)
      BY <1>a, <1>c, <2>2 DEF History
    <3>2. members'[m][f] = members[m][f]
      BY <2>2, Writes
    <3> QED
      BY <3>1, <3>2 DEF Inv, AuditExplainsRegister
  <2> QED
    BY <2>1, <2>2
<1>12. ReviewIsAccounted'
  <2> SUFFICES ASSUME NEW q \in RequestIds, Exists(q)', requests'[q].status # "pending"
               PROVE  /\ \E n \in notifications' :
                           /\ n.by = decider'[q] /\ n.request = q
                           /\ n.says = requests'[q].status /\ n.member = requests'[q].member
                      /\ \E a \in audit' :
                           /\ a.by = decider'[q] /\ a.request = q
                           /\ a.actor = requests'[q].reviewedBy /\ a.actor \in Signers
                           /\ a.action = IF requests'[q].status = "approved"
                                         THEN "profile_change.approved"
                                         ELSE "profile_change.rejected"
    BY <1>2 DEF ReviewIsAccounted
  <2>1. CASE q = call[r].id /\ requests[q].status = "pending"
    <3>1. /\ requests'[q].status = Verdict(call[r]) /\ requests'[q].reviewedBy = call[r].staff
          /\ decider'[q] = r /\ requests'[q].member = ReviewedMember(r)
      <4>1. requests'[q].member = requests[q].member
        BY <1>p, <2>1, Decides
      <4> QED
        BY <2>1, <4>1, Decides DEF ReviewedMember
    <3>2. /\ Notification(r).by = r /\ Notification(r).request = q
          /\ Notification(r).says = Verdict(call[r]) /\ Notification(r).member = ReviewedMember(r)
      BY <2>1 DEF Notification
    <3>3. AuditRecord(r).action = IF Verdict(call[r]) = "approved"
                                  THEN "profile_change.approved"
                                  ELSE "profile_change.rejected"
      BY Leaves, Published DEF Verdict
    <3> QED
      <4>1. /\ AuditRecord(r).request = call[r].id /\ AuditRecord(r).actor = call[r].staff
            /\ call[r].staff \in Signers
        BY Leaves, Published
      <4> QED
        BY <1>p, <1>a, <2>1, <3>1, <3>2, <3>3, <4>1
  <2>2. CASE ~(q = call[r].id /\ requests[q].status = "pending")
    <3>1. requests'[q] = requests[q] /\ decider'[q] = decider[q]
      BY <2>2, Decides
    <3> QED
      BY <1>p, <3>1 DEF Inv, ReviewIsAccounted, Exists
  <2> QED
    BY <2>1, <2>2
<1> QED
  BY <1>2, <1>4, <1>7, <1>8, <1>9, <1>10, <1>11, <1>12 DEF Inv

-----------------------------------------------------------------------------
(* Every reachable state.                                                  *)

\* A crash ends every handler and, with the transactions, every lock.
LEMMA CrashKeeps == Inv /\ Crash => Inv'
<1> SUFFICES ASSUME Inv, Crash PROVE Inv'
  OBVIOUS
<1> USE DEF Crash, local, database
<1>0. TypeOK
  BY DEF Inv
<1>1. \A r \in Requests :
        /\ pc'[r] \in {"idle", "done"}
        /\ pc'[r] = "idle" <=> pc[r] = "idle"
        /\ pc[r] = "done" => answer'[r] = answer[r]
        /\ pc[r] = "idle" => answer'[r] = answer[r]
        /\ pc[r] \notin {"idle", "done"} => answer'[r] = "lost"
        /\ writes'[r] = {}
  BY <1>0 DEF TypeOK, InFlight
<1>2. TypeOK'
  <2>1. pc' \in [Requests -> Steps] /\ answer' \in [Requests -> Answers]
    BY <1>0 DEF TypeOK, Steps, Answers
  <2> QED
    BY <1>0, <2>1 DEF TypeOK
<1>3. \A r \in Requests : Sound(r)'
  <2> TAKE r \in Requests
  <2>0. Sound(r)
    BY DEF Inv
  <2>1. Control(r)' /\ Learnt(r)'
    BY <1>1, <2>0 DEF Sound, Control, Learnt, InTransaction
  <2>2. Buffered(r)' /\ Locked(r)' /\ Locking(r)'
    BY <1>1 DEF Buffered, Locked, Locking, InTransaction, Updated
  <2>3. Numbered(r)'
    BY <1>1, <2>0 DEF Sound, Numbered, Given
  <2> QED
    BY <2>1, <2>2, <2>3 DEF Sound
<1>4. NoConflict'
  BY DEF NoConflict
<1>5. Past' /\ RowsShaped' /\ AuditExplainsRegister'
  BY <1>0, <1>1 DEF Inv, Past, RowsShaped, AuditExplainsRegister, Exists, History, Approvals, TypeOK
<1>6. ReviewIsAccounted'
  BY <1>2 DEF Inv, ReviewIsAccounted, Exists
<1>7. AllowListHolds'
  BY <1>0 DEF Inv, AllowListHolds, Approvals, TypeOK
<1> QED
  BY <1>2, <1>3, <1>4, <1>5, <1>6, <1>7 DEF Inv

LEMMA InitInv == Init => Inv
<1> SUFFICES ASSUME Init PROVE Inv
  OBVIOUS
<1> USE DEF Init
<1>1. TypeOK
  <2>1. requests \in [RequestIds -> Proposals \cup {None}]
    BY SeedAssumption DEF RequestIds
  <2> QED
    BY <2>1, RegisterAssumption DEF TypeOK, Steps, Answers
<1>2. ASSUME NEW r \in Requests PROVE Sound(r)
  <2>1. requests[r] = None
    BY SeedAssumption DEF RequestIds
  <2>2. Given = {} /\ Cardinality(Given) = 0
    <3>1. Given = {}
      BY DEF Given
    <3> QED
      BY <3>1, FS_EmptySet
  <2>3. Control(r) /\ Learnt(r)
    BY <2>1 DEF Control, Learnt, InTransaction
  <2>4. Buffered(r) /\ Locked(r) /\ Locking(r)
    BY DEF Buffered, Locked, Locking, InTransaction, Updated
  <2>5. Numbered(r)
    BY <2>2 DEF Numbered
  <2> QED
    BY <2>3, <2>4, <2>5 DEF Sound
<1>3. NoConflict /\ Past
  BY DEF NoConflict, Past
<1>4. RowsShaped
  BY SeedAssumption DEF RowsShaped, RequestIds, Exists
<1>5. AuditExplainsRegister /\ AllowListHolds
  BY DEF AuditExplainsRegister, AllowListHolds, History, Approvals
<1>6. ReviewIsAccounted
  BY <1>1, SeedAssumption DEF ReviewIsAccounted, RequestIds, Exists
<1> QED
  BY <1>1, <1>2, <1>3, <1>4, <1>5, <1>6 DEF Inv

LEMMA StutterInv == Inv /\ UNCHANGED vars => Inv'
<1> SUFFICES ASSUME Inv, UNCHANGED vars PROVE Inv'
  OBVIOUS
<1> USE DEF vars, database, local
<1>1. TypeOK' /\ NoConflict' /\ Past' /\ RowsShaped'
  BY DEF Inv, TypeOK, NoConflict, Past, RowsShaped, Exists
<1>2. \A r \in Requests : Sound(r)'
  <2> TAKE r \in Requests
  <2>0. Sound(r)
    BY DEF Inv
  <2>1. Control(r)' /\ Learnt(r)' /\ Buffered(r)'
    BY <2>0 DEF Sound, Control, Learnt, Buffered, Applied, Exists
  <2>2. Locked(r)' /\ Locking(r)' /\ Numbered(r)'
    BY <2>0 DEF Sound, Locked, Locking, Numbered, ReviewedMember, Given, Approvals
  <2> QED
    BY <2>1, <2>2 DEF Sound
<1>3. AuditExplainsRegister' /\ AllowListHolds' /\ ReviewIsAccounted'
  BY <1>1 DEF Inv, AuditExplainsRegister, AllowListHolds, ReviewIsAccounted, History, Approvals, Exists
<1> QED
  BY <1>1, <1>2, <1>3 DEF Inv

LEMMA StatementKeeps ==
  ASSUME Inv, NEW r \in Requests, Statement(r)
  PROVE  Inv'
BY FindMemberKeeps, FindPendingForMemberKeeps, CreateRequestKeeps, AuthorizeKeeps,
   ReadRequestKeeps, ApplyChangesKeeps, UpdateRequestKeeps, CreateNotificationKeeps,
   RecordAuditKeeps, CommitKeeps DEF Statement

LEMMA NextInv == Inv /\ [Next]_vars => Inv'
<1> SUFFICES ASSUME Inv, [Next]_vars PROVE Inv'
  OBVIOUS
<1>1. ASSUME NEW r \in Requests, Arrive(r) PROVE Inv'
  BY <1>1, ArriveKeeps
<1>2. ASSUME NEW r \in Requests, Statement(r) PROVE Inv'
  BY <1>2, StatementKeeps
<1>3. ASSUME NEW r \in Requests, Fail(r) PROVE Inv'
  BY <1>3, FailKeeps
<1>4. ASSUME NEW r \in Requests, BreakDeadlock(r) PROVE Inv'
  BY <1>4, BreakDeadlockKeeps
<1>5. CASE Crash
  BY <1>5, CrashKeeps
<1>6. CASE Finished \/ UNCHANGED vars
  BY <1>6, StutterInv DEF Finished
<1> QED
  BY <1>1, <1>2, <1>3, <1>4, <1>5, <1>6 DEF Next

LEMMA InvHolds == Spec => []Inv
BY InitInv, NextInv, PTL DEF Spec

\* The audit trail explains the register: every field of every member holds what
\* the last audit record about it says, or what it held at the start.
THEOREM RegisterIsExplained == Spec => []AuditExplainsRegister
<1>1. Inv => AuditExplainsRegister
  BY DEF Inv
<1> QED
  BY <1>1, InvHolds, PTL

\* A decided request was decided by a signer, whose handler left its notification
\* and its audit record; and every variable has its type.
THEOREM ReviewsAreAccounted == Spec => []ReviewIsAccounted
<1>1. Inv => ReviewIsAccounted
  BY DEF Inv
<1> QED
  BY <1>1, InvHolds, PTL

\* An approval writes something, and nothing its process does not allow.
THEOREM AllowListIsKept == Spec => []AllowListHolds
<1>1. Inv => AllowListHolds
  BY DEF Inv
<1> QED
  BY <1>1, InvHolds, PTL

-----------------------------------------------------------------------------
(* Deadlocks.                                                              *)

\* Somebody who waits, and makes others wait, is an approval that waits for the
\* request's row, or a reviewer that waits for the member's.
LEMMA BlockerIs ==
  ASSUME Inv, NEW b \in Requests, Wanted(b) # {}, NEW l \in locks, l.by = b
  PROVE  /\ call[b].op \in {"approve", "reject"} /\ call[b].id \in RequestIds
         /\ ReviewedMember(b) \in Members
         /\ \/ /\ pc[b] = "update" /\ call[b].op = "approve" /\ l.mode = "X"
               /\ l.row = ReviewedMember(b)
            \/ /\ pc[b] = "notify" /\ l.mode = "X"
               /\ \/ l.row = call[b].id
                  \/ l.row = ReviewedMember(b) /\ call[b].op = "approve"
<1>1. pc[b] \in {"insert", "apply", "update", "notify"}
  BY WantedIs
<1>2. pc[b] \in {"update", "notify"}
  BY <1>1, InHand DEF Sound, Locked, InTransaction, Updated
<1>3. /\ call[b].op \in {"approve", "reject"} /\ call[b].id \in RequestIds
      /\ ReviewedMember(b) \in Members
  BY <1>2, InHand DEF Sound, Control, Learnt, InTransaction
<1>4. \/ /\ l.mode = "X" /\ l.row = ReviewedMember(b) /\ call[b].op = "approve"
      \/ l.mode = "X" /\ l.row = call[b].id /\ pc[b] = "notify"
  BY <1>2, InHand DEF Sound, Locked, InTransaction, Updated
<1> QED
  BY <1>2, <1>3, <1>4

\* An approval that waits for the request's row waits for a rejection of it.
LEMMA WaitsForRejection ==
  ASSUME Inv, NEW a \in Requests, NEW b \in Blockers(a), Wanted(b) # {},
         pc[a] = "update", call[a].op = "approve"
  PROVE  b \in Requests /\ pc[b] = "notify" /\ call[b].op = "reject" /\ call[b].id = call[a].id
<1>1. PICK l \in locks : l.by = b /\ \E k \in Wanted(a) : Conflict(l, k)
  BY DEF Blockers
<1>2. b \in Requests
  BY <1>1, InHand DEF TypeOK
<1>3. l.row = call[a].id /\ b # a
  BY <1>1, WantedIs DEF Conflict
<1>4. call[a].id \in RequestIds /\ Members \cap RequestIds = {}
  BY RowAssumption, InHand DEF Sound, Control, InTransaction
<1>5. pc[b] = "notify" /\ call[b].op \in {"approve", "reject"} /\ call[b].id = call[a].id
  BY <1>1, <1>2, <1>3, <1>4, BlockerIs
<1>6. [by |-> a, row |-> ReviewedMember(a), mode |-> "X"] \in locks
  BY InHand DEF Sound, Locking, InTransaction
<1>7. call[b].op = "approve" => [by |-> b, row |-> ReviewedMember(b), mode |-> "X"] \in locks
  BY <1>2, <1>5, InHand DEF Sound, Locking, InTransaction
<1>8. ReviewedMember(b) = ReviewedMember(a)
  BY <1>5 DEF ReviewedMember
<1>9. call[b].op # "approve"
  BY <1>3, <1>6, <1>7, <1>8 DEF Inv, NoConflict, Conflict
<1> QED
  BY <1>2, <1>5, <1>9

\* Who waits for the member's row waits for an approval that waits as well, and
\* that one for the request's row.
LEMMA WaitsForApproval ==
  ASSUME Inv, NEW a \in Requests, NEW b \in Blockers(a), Wanted(b) # {},
         pc[a] = "notify"
  PROVE  b \in Requests /\ call[b].op = "approve" /\ pc[b] \in {"update", "notify"}
         /\ [by |-> b, row |-> ReviewedMember(a), mode |-> "X"] \in locks
<1>1. PICK l \in locks : l.by = b /\ \E k \in Wanted(a) : Conflict(l, k)
  BY DEF Blockers
<1>2. b \in Requests
  BY <1>1, InHand DEF TypeOK
<1>3. l.row = ReviewedMember(a) /\ l.mode = "X" /\ b # a
  BY <1>1, WantedIs DEF Conflict
<1>4. ReviewedMember(a) \in Members /\ Members \cap RequestIds = {}
  BY RowAssumption, InHand DEF Sound, Control, Learnt, InTransaction
<1>5. /\ call[b].op = "approve" /\ ReviewedMember(b) = ReviewedMember(a)
      /\ pc[b] \in {"update", "notify"}
  BY <1>1, <1>2, <1>3, <1>4, BlockerIs
<1> QED
  BY <1>2, <1>5, InHand DEF Sound, Locking, InTransaction

LEMMA CyclesAreReviews == Inv => CycleIsARacedReview
<1> SUFFICES ASSUME Inv, NEW S \in WaitCycles
             PROVE  \E a, b \in S : /\ call[a].op = "approve" /\ call[b].op = "reject"
                                    /\ call[a].id = call[b].id
  BY DEF CycleIsARacedReview
<1>1. \A r \in S : /\ r \in Requests /\ Wanted(r) # {}
                   /\ \E b \in S : b \in Blockers(r)
  BY DEF WaitCycles, Waiting, InFlight, Blockers
<1>2. S # {}
  BY DEF WaitCycles
<1>3. ASSUME NEW a \in S, pc[a] = "update", call[a].op = "approve"
      PROVE  \E b \in S : /\ call[b].op = "reject" /\ call[a].id = call[b].id
  BY <1>1, <1>3, WaitsForRejection
\* Whoever blocks somebody is such an approval, or is blocked by one.
<1>4. ASSUME NEW a \in S, pc[a] = "notify"
      PROVE  \E b \in S : pc[b] = "update" /\ call[b].op = "approve"
  <2>1. PICK b \in S : b \in Blockers(a)
    BY <1>1
  <2>2. /\ b \in Requests /\ call[b].op = "approve" /\ pc[b] \in {"update", "notify"}
        /\ [by |-> b, row |-> ReviewedMember(a), mode |-> "X"] \in locks
    BY <1>1, <1>4, <2>1, WaitsForApproval
  <2>3. ASSUME pc[b] = "notify" PROVE FALSE
    <3>1. PICK c \in S : c \in Blockers(b)
      BY <1>1
    <3>2. /\ [by |-> c, row |-> ReviewedMember(b), mode |-> "X"] \in locks
      BY <1>1, <2>3, <3>1, WaitsForApproval
    <3>3. [by |-> b, row |-> ReviewedMember(b), mode |-> "X"] \in locks
      BY <2>2, InHand DEF Sound, Locking, InTransaction
    <3>4. c = b
      BY <3>2, <3>3 DEF Inv, NoConflict, Conflict
    <3>5. \A k \in Wanted(b) : k.by = b
      BY <2>3, WantedIs
    <3>6. b \notin Blockers(b)
      BY <3>5 DEF Blockers, Conflict
    <3> QED
      BY <3>1, <3>4, <3>6
  <2> QED
    BY <2>2, <2>3
<1>5. PICK r \in S : TRUE
  BY <1>2
<1>6. PICK b \in S : b \in Blockers(r)
  BY <1>1
<1>7. pc[b] = "notify" \/ (pc[b] = "update" /\ call[b].op = "approve")
  <2>1. PICK l \in locks : l.by = b
    BY <1>6 DEF Blockers
  <2> QED
    BY <1>1, <2>1, BlockerIs
<1> QED
  BY <1>3, <1>4, <1>7

\* Only a raced review can deadlock: an approval and a rejection of one request.
THEOREM CyclesAreRacedReviews == Spec => []CycleIsARacedReview
BY CyclesAreReviews, InvHolds, PTL

-----------------------------------------------------------------------------
(* Races: who was there at the same time.                                  *)

\* Two handlers of which one files are in flight at once only if they met; and
\* nobody met a request that has not arrived.
MetInFlight ==
    /\ \A p, q \in InFlight : p # q /\ "file" \in {call[p].op, call[q].op} => {p, q} \in met
    /\ \A P \in met : \A p \in P : call[p] # None

\* A request that is open although the check of another one found none open was
\* being filed as well.
Checked == \A q \in Requests : pc[q] = "insert" =>
    \A p \in Pending(call[q].member) : {p, q} \in met

Overlap == MetInFlight /\ Checked /\ TwoOpenNeedOverlap

\* Whoever approves a request while another one of the member is open raced the
\* filing of that one.
Approving(r) == pc[r] \in {"apply"} \cup InTransaction /\ call[r].op = "approve"
Raced == \A r \in Requests : Approving(r) =>
    \A q \in Pending(ReviewedMember(r)) : q # call[r].id => FiledInRace(q)

\* The values a member's request shows as current are, unless it was filed in a race.
Current(m, values) == \A f \in DOMAIN values : values[f] = members[m][f]
Exact ==
    /\ \A q \in Requests : pc[q] \in {"open", "insert"} /\ ~FiledInRace(q) =>
         Current(call[q].member, snapshot[q].values)
    /\ \A q \in RequestIds : Exists(q) /\ requests[q].status = "pending" /\ ~FiledInRace(q) =>
         Current(requests[q].member, requests[q].current)

\* No two requests of a member are open in the beginning, and they show its row.
SeedsApart == \A p, q \in DOMAIN Seed : Seed[p].member = Seed[q].member => p = q
SeedsExact == \A q \in DOMAIN Seed : \A f \in DOMAIN Seed[q].current :
    Seed[q].current[f] = Register[Seed[q].member][f]

\* Every step: a request that has arrived keeps its call, one that has ended stays so.
LEMMA StepIs ==
  ASSUME Inv, [Next]_vars
  PROVE  /\ \/ \E r \in Requests : Arrive(r)
            \/ /\ UNCHANGED <<call, met>>
               /\ \A q \in Requests : pc[q] = "idle" => pc'[q] = "idle"
         /\ \A q \in Requests : pc[q] = "done" => pc'[q] = "done"
<1>0. pc \in [Requests -> Steps]
  BY DEF Inv, TypeOK
<1>1. ASSUME NEW r \in Requests, Arrive(r)
      PROVE  \A q \in Requests : pc[q] = "done" => pc'[q] = "done"
  BY <1>0, <1>1 DEF Arrive, Goto
<1> DEFINE Own(r) == /\ UNCHANGED <<call, met>> /\ pc[r] \notin {"idle", "done"}
                     /\ \A q \in Requests \ {r} : pc'[q] = pc[q]
<1>2. ASSUME NEW r \in Requests, Statement(r) PROVE Own(r)
  <2>1. CASE FindMember(r) \/ FindPendingForMember(r) \/ CreateRequest(r)
    BY <1>0, <2>1 DEF FindMember, FindPendingForMember, CreateRequest, Goto, Refuse, Reply, local
  <2>2. CASE Authorize(r) \/ ReadRequest(r) \/ ApplyChanges(r) \/ UpdateRequest(r)
    BY <1>0, <2>2 DEF Authorize, ReadRequest, ApplyChanges, UpdateRequest, Goto, Refuse, Reply, local
  <2>3. CASE CreateNotification(r) \/ RecordAudit(r) \/ Commit(r)
    BY <1>0, <2>3 DEF CreateNotification, RecordAudit, Commit, Goto, Refuse, Reply, local
  <2> QED
    BY <1>2, <2>1, <2>2, <2>3 DEF Statement
<1>3. ASSUME NEW r \in Requests, Fail(r) \/ BreakDeadlock(r) PROVE Own(r)
  BY <1>0, <1>3
  DEF Fail, BreakDeadlock, ShortestCycles, WaitCycles, Waiting, InFlight, Refuse, Reply, local
<1>4. CASE Crash
  BY <1>0, <1>4 DEF Crash, InFlight, local
<1>5. CASE Finished \/ UNCHANGED vars
  BY <1>5 DEF Finished, vars, local
<1> QED
  BY <1>1, <1>2, <1>3, <1>4, <1>5 DEF Next

LEMMA ArrivalIs ==
  ASSUME Inv, NEW r \in Requests, Arrive(r)
  PROVE  /\ pc[r] = "idle" /\ call[r] = None /\ call'[r] # None
         /\ pc'[r] \in {"member", "authorize"} /\ UNCHANGED <<database, snapshot>>
         /\ met' = met \cup {{q, r} : q \in {q \in InFlight : "file" \in {call'[r].op, call[q].op}}}
         /\ \A q \in Requests \ {r} : pc'[q] = pc[q] /\ call'[q] = call[q]
<1>1. PICK c \in Calls :
        /\ call' = [call EXCEPT ![r] = c]
        /\ met' = met \cup {{q, r} : q \in {q \in InFlight : "file" \in {c.op, call[q].op}}}
        /\ Goto(r, IF c.op = "file" THEN "member" ELSE "authorize")
  BY DEF Arrive
<1>2. c # None /\ pc[r] = "idle" /\ call[r] = None /\ call'[r] = c
  BY <1>1, CallFields, InHand DEF Arrive, Sound, Control, TypeOK
<1>3. \A q \in Requests \ {r} : pc'[q] = pc[q] /\ call'[q] = call[q]
  BY <1>1, InHand DEF TypeOK, Goto
<1>4. pc'[r] \in {"member", "authorize"} /\ UNCHANGED <<database, snapshot>>
  BY <1>1, InHand DEF Arrive, TypeOK, Goto
<1> QED
  BY <1>1, <1>2, <1>3, <1>4

LEMMA MetKeeps ==
  ASSUME Inv, MetInFlight, [Next]_vars
  PROVE  MetInFlight' /\ \A q \in RequestIds : FiledInRace(q) => FiledInRace(q)'
<1>0. met \subseteq SUBSET Requests
  BY DEF Inv, TypeOK
<1>1. ASSUME NEW r \in Requests, Arrive(r)
      PROVE  MetInFlight' /\ \A q \in RequestIds : FiledInRace(q) => FiledInRace(q)'
  <2>1. /\ call[r] = None /\ call'[r] # None
        /\ met' = met \cup {{q, r} : q \in {q \in InFlight : "file" \in {call'[r].op, call[q].op}}}
        /\ \A q \in Requests \ {r} : pc'[q] = pc[q] /\ call'[q] = call[q]
    BY <1>1, ArrivalIs
  <2>2. \A q \in InFlight : q \in Requests /\ q # r /\ call[q] # None
    BY <1>1, InHand DEF InFlight, Arrive, Sound, Control
  <2>3. InFlight' \subseteq InFlight \cup {r}
    BY <2>1 DEF InFlight
  <2>4. ASSUME NEW p \in InFlight', NEW q \in InFlight', p # q,
               "file" \in {call'[p].op, call'[q].op}
        PROVE  {p, q} \in met'
    <3>1. CASE p # r /\ q # r
      BY <2>1, <2>2, <2>3, <2>4, <3>1 DEF MetInFlight
    <3>2. CASE q = r
      BY <2>1, <2>2, <2>3, <2>4, <3>2
    <3>3. CASE p = r
      <4>1. {q, p} \in met'
        BY <2>1, <2>2, <2>3, <2>4, <3>3
      <4>2. {q, p} = {p, q}
        OBVIOUS
      <4> QED
        BY <4>1, <4>2
    <3> QED
      BY <3>1, <3>2, <3>3
  <2>5. \A P \in met' : \A p \in P : call'[p] # None
    <3> TAKE P \in met'
    <3> TAKE p \in P
    <3>1. CASE P \in met
      BY <1>0, <2>1, <3>1 DEF MetInFlight
    <3>2. CASE P \notin met
      BY <2>1, <2>2, <3>2
    <3> QED
      BY <3>1, <3>2
  <2>6. \A q \in RequestIds : FiledInRace(q) => FiledInRace(q)'
    <3> TAKE q \in RequestIds
    <3> HAVE FiledInRace(q)
    <3>1. PICK s \in Requests : {s, q} \in met /\ call[s].op \in {"file", "approve"}
      BY DEF FiledInRace
    <3>2. s # r
      BY <2>1, <3>1 DEF MetInFlight
    <3> QED
      BY <2>1, <3>1, <3>2 DEF FiledInRace
  <2> QED
    BY <2>4, <2>5, <2>6 DEF MetInFlight
<1>2. CASE /\ UNCHANGED <<call, met>>
           /\ \A q \in Requests : pc[q] = "idle" => pc'[q] = "idle"
           /\ \A q \in Requests : pc[q] = "done" => pc'[q] = "done"
  <2>1. InFlight' \subseteq InFlight
    BY <1>2 DEF InFlight
  <2> QED
    BY <1>2, <2>1 DEF MetInFlight, FiledInRace
<1> QED
  BY <1>1, <1>2, StepIs

\* Steps after which no more is open, about to be filed or about to be approved.
Calm ==
    /\ \A q \in Requests :
        /\ pc'[q] = "insert" => pc[q] = "insert"
        /\ Approving(q)' => Approving(q)
        /\ pc[q] # "idle" => call'[q] = call[q]
    /\ met \subseteq met'
    /\ \A m \in Members : Pending(m)' \subseteq Pending(m)
    /\ \A q \in RequestIds : Exists(q) =>
        requests'[q] # None /\ requests'[q].member = requests[q].member

LEMMA CalmKeeps ==
  ASSUME Inv, Overlap, Raced, Calm, \A q \in RequestIds : FiledInRace(q) => FiledInRace(q)'
  PROVE  Checked' /\ TwoOpenNeedOverlap' /\ Raced'
<1>1. Checked'
  <2> SUFFICES ASSUME NEW q \in Requests, pc'[q] = "insert", NEW p \in Pending(call[q].member)'
               PROVE  {p, q} \in met'
    BY DEF Checked
  <2>1. pc[q] = "insert" /\ call'[q] = call[q] /\ call[q].member \in Members
    BY InHand DEF Calm, Sound, Control
  <2>2. PICK m \in Members : m = call[q].member
    BY <2>1
  <2>3. p \in Pending(m)'
    BY <2>1, <2>2 DEF Pending, Exists
  <2>4. p \in Pending(m)
    BY <2>3 DEF Calm
  <2> QED
    BY <2>1, <2>2, <2>4 DEF Overlap, Checked, Calm
<1>2. TwoOpenNeedOverlap'
  <2> SUFFICES ASSUME NEW m \in Members, NEW p \in Pending(m)', NEW q \in Pending(m)', p # q
               PROVE  {p, q} \in met'
    BY DEF TwoOpenNeedOverlap
  <2>1. p \in Pending(m) /\ q \in Pending(m) /\ met \subseteq met'
    BY DEF Calm
  <2> QED
    BY <2>1 DEF Overlap, TwoOpenNeedOverlap
<1>3. Raced'
  <2> SUFFICES ASSUME NEW r \in Requests, Approving(r)',
                      NEW q \in Pending(ReviewedMember(r))', q # call'[r].id
               PROVE  FiledInRace(q)'
    BY DEF Raced
  <2>1. Approving(r) /\ call'[r] = call[r]
    BY DEF Calm, Approving, InTransaction
  <2>2. call[r].id \in RequestIds /\ Exists(call[r].id)
    BY <2>1, InHand DEF Approving, Sound, Control, Learnt, InTransaction
  <2>6. PICK m \in Members : m = ReviewedMember(r)
    BY <2>1, <2>2, InHand DEF Approving, Sound, Control, InTransaction
  <2>3. ReviewedMember(r)' = m
    BY <2>1, <2>2, <2>6 DEF Calm, ReviewedMember
  <2>4. q \in RequestIds /\ q \in Pending(m)'
    BY <2>3 DEF Pending, Exists
  <2>5. q \in Pending(m)
    BY <2>2, <2>4 DEF Calm
  <2> QED
    BY <2>1, <2>4, <2>5, <2>6 DEF Raced
<1> QED
  BY <1>1, <1>2, <1>3

LEMMA QuietIsCalm ==
  ASSUME UNCHANGED <<requests, call, met>>,
         \A q \in Requests : pc'[q] = "insert" => pc[q] = "insert",
         \A q \in Requests : Approving(q)' => Approving(q)
  PROVE  Calm
BY DEF Calm, Pending, Exists

\* All steps but three are calm.
LEMMA CalmSteps ==
  ASSUME Inv, NEW r \in Requests,
         \/ Arrive(r) \/ FindMember(r) \/ Authorize(r) \/ ApplyChanges(r) \/ UpdateRequest(r)
         \/ CreateNotification(r) \/ RecordAudit(r) \/ Commit(r) \/ Fail(r) \/ BreakDeadlock(r)
  PROVE  Calm
<1>0. pc \in [Requests -> Steps]
  BY DEF Inv, TypeOK
<1>1. CASE Arrive(r)
  <2>1. /\ UNCHANGED database /\ pc[r] = "idle" /\ pc'[r] \in {"member", "authorize"}
        /\ \A q \in Requests \ {r} : pc'[q] = pc[q] /\ call'[q] = call[q]
        /\ met \subseteq met'
    BY <1>1, ArrivalIs
  <2> QED
    BY <2>1 DEF Calm, Approving, InTransaction, Pending, Exists, database
<1>2. CASE FindMember(r) \/ Authorize(r) \/ RecordAudit(r) \/ CreateNotification(r)
  BY <1>0, <1>2, QuietIsCalm
  DEF FindMember, Authorize, RecordAudit, CreateNotification, Goto, Refuse, Reply, local,
      database, Approving, InTransaction
<1>3. CASE ApplyChanges(r) \/ UpdateRequest(r) \/ Fail(r) \/ BreakDeadlock(r)
  BY <1>0, <1>3, QuietIsCalm
  DEF ApplyChanges, UpdateRequest, Fail, BreakDeadlock, Goto, Refuse, Reply, local,
      database, Approving, InTransaction
<1>4. CASE Commit(r)
  <2>1. pc' = [pc EXCEPT ![r] = "done"] /\ UNCHANGED <<call, met>>
    BY <1>4 DEF Commit, Reply, local
  <2>2. /\ \A q \in RequestIds : Exists(q) =>
             requests'[q] # None /\ requests'[q].member = requests[q].member
        /\ \A q \in RequestIds : q # call[r].id => requests'[q] = requests[q]
        /\ call[r].id \in RequestIds /\ Exists(call[r].id)
        /\ requests'[call[r].id].status = "pending" => requests[call[r].id].status = "pending"
    <3>1. Verdict(call[r]) # "pending"
      BY DEF Verdict
    <3>2. call[r].id \in RequestIds /\ Exists(call[r].id)
      BY <1>4, Published
    <3> QED
      BY <1>4, <3>1, <3>2, Decides
  <2>3. \A m \in Members : Pending(m)' \subseteq Pending(m)
    BY <2>2 DEF Pending, Exists
  <2> QED
    BY <1>0, <2>1, <2>2, <2>3 DEF Calm, Approving, InTransaction
<1> QED
  BY <1>1, <1>2, <1>3, <1>4

LEMMA RacesKeep ==
  ASSUME Inv, Overlap, Raced, [Next]_vars
  PROVE  Overlap' /\ Raced'
<1>0. /\ MetInFlight' /\ \A q \in RequestIds : FiledInRace(q) => FiledInRace(q)'
      /\ pc \in [Requests -> Steps] /\ met \subseteq SUBSET Requests
  BY MetKeeps DEF Overlap, Inv, TypeOK
<1> DEFINE Goal == Checked' /\ TwoOpenNeedOverlap' /\ Raced'
<1>1. ASSUME Calm PROVE Goal
  BY <1>0, <1>1, CalmKeeps
<1>2. ASSUME NEW r \in Requests, FindPendingForMember(r) PROVE Goal
  <2>1. CASE Pending(call[r].member) # {}
    <3>1. Calm
      BY <1>0, <1>2, <2>1, QuietIsCalm
      DEF FindPendingForMember, Refuse, Reply, local, database, Approving, InTransaction
    <3> QED
      BY <3>1, <1>1
  <2>2. CASE Pending(call[r].member) = {}
    <3>1. /\ pc' = [pc EXCEPT ![r] = "insert"] /\ pc[r] = "open"
          /\ UNCHANGED <<requests, call, met>>
      BY <1>2, <2>2 DEF FindPendingForMember, Goto, local, database
    <3>2. Checked'
      BY <1>0, <2>2, <3>1 DEF Overlap, Checked, Pending, Exists
    <3>3. TwoOpenNeedOverlap'
      BY <3>1 DEF Overlap, TwoOpenNeedOverlap, Pending, Exists
    <3>4. Raced'
      BY <1>0, <3>1 DEF Raced, Approving, InTransaction, Pending, Exists, ReviewedMember,
                        FiledInRace
    <3> QED
      BY <3>2, <3>3, <3>4
  <2> QED
    BY <2>1, <2>2
<1>3. ASSUME NEW r \in Requests, ReadRequest(r) PROVE Goal
  <2>1. UNCHANGED <<requests, call, met>>
    BY <1>3 DEF ReadRequest, Refuse, Goto, database
  <2>2. \A q \in Requests \ {r} : pc'[q] = pc[q]
    BY <1>0, <1>3 DEF ReadRequest, Refuse, Reply, Goto
  <2>3. pc'[r] # "insert"
    BY <1>0, <1>3 DEF ReadRequest, Refuse, Reply, Goto
  <2>4. CASE ~Approving(r)'
    <3>1. \A q \in Requests : pc'[q] = "insert" => pc[q] = "insert"
      BY <2>2, <2>3
    <3>2. \A q \in Requests : Approving(q)' => Approving(q)
      BY <2>1, <2>2, <2>4 DEF Approving
    <3>3. Calm
      BY <2>1, <3>1, <3>2, QuietIsCalm
    <3> QED
      BY <3>3, <1>1
  <2>5. CASE Approving(r)'
    <3>1. Exists(call[r].id) /\ requests[call[r].id].status = "pending" /\ pc[r] = "review"
      BY <1>0, <1>3, <2>5 DEF ReadRequest, Refuse, Reply, Goto, Approving, InTransaction
    <3>2. Checked' /\ TwoOpenNeedOverlap'
      BY <2>1, <2>2, <2>3 DEF Overlap, Checked, TwoOpenNeedOverlap, Pending, Exists
    <3>3. ASSUME NEW q \in Pending(ReviewedMember(r)), q # call[r].id
          PROVE  FiledInRace(q)
      <4>1. /\ call[r].id \in RequestIds /\ ReviewedMember(r) \in Members
            /\ call[r].op \in {"approve", "reject"}
        BY <3>1, InHand DEF Sound, Control
      <4>2. call[r].id \in Pending(ReviewedMember(r))
        BY <3>1, <4>1 DEF Pending, ReviewedMember
      <4>3. {call[r].id, q} \in met
        BY <3>3, <4>1, <4>2 DEF Overlap, TwoOpenNeedOverlap
      <4>4. call[r].id \in Requests
        BY <1>0, <4>3
      <4>5. call[call[r].id].op = "file"
        BY <3>1, <4>4, InHand DEF Sound, Control, Exists
      <4> QED
        BY <4>3, <4>4, <4>5 DEF FiledInRace
    <3>4. Raced'
      <4> SUFFICES ASSUME NEW s \in Requests, Approving(s)',
                          NEW q \in Pending(ReviewedMember(s))', q # call'[s].id
                   PROVE  FiledInRace(q)'
        BY DEF Raced
      <4>1. q \in Pending(ReviewedMember(s)) /\ q # call[s].id
        BY <2>1 DEF Pending, ReviewedMember, Exists
      <4>2. CASE s = r
        BY <2>1, <3>3, <4>1, <4>2 DEF FiledInRace
      <4>3. CASE s # r
        BY <2>1, <2>2, <4>1, <4>3 DEF Raced, Approving, FiledInRace
      <4> QED
        BY <4>2, <4>3
    <3> QED
      BY <3>2, <3>4
  <2> QED
    BY <2>4, <2>5
<1>4. ASSUME NEW r \in Requests, CreateRequest(r) PROVE Goal
  <2>1. /\ pc[r] = "insert" /\ UNCHANGED <<call, met>> /\ requests' = [requests EXCEPT ![r] = Row(r)]
        /\ pc' = [pc EXCEPT ![r] = "done"]
    BY <1>4 DEF CreateRequest, Reply, local
  <2>2. /\ call[r].op = "file" /\ call[r] # None /\ requests[r] = None /\ r \in InFlight
        /\ Row(r).member = call[r].member /\ Row(r).status = "pending" /\ Row(r) # None
    BY <2>1, RowIs, InHand DEF Sound, Control, InFlight
  <2>3. \A q \in RequestIds \ {r} : requests'[q] = requests[q]
    BY <2>1, InHand DEF TypeOK
  <2>4. ASSUME NEW m PROVE Pending(m)' \subseteq Pending(m) \cup {r}
    BY <2>3 DEF Pending, Exists
  <2>5. ASSUME NEW m, r \in Pending(m)' PROVE m = call[r].member
    BY <2>1, <2>2, <2>5, InHand DEF Pending, TypeOK
  <2>6. ASSUME NEW q \in InFlight, q # r PROVE {r, q} \in met /\ {q, r} \in met
    <3>1. {r, q} \in met
      BY <2>2, <2>6 DEF Overlap, MetInFlight
    <3>2. {r, q} = {q, r}
      OBVIOUS
    <3> QED
      BY <3>1, <3>2
  <2>7. Checked'
    <3> SUFFICES ASSUME NEW q \in Requests, pc'[q] = "insert", NEW p \in Pending(call[q].member)'
                 PROVE  {p, q} \in met
      BY <2>1 DEF Checked
    <3>1. q # r /\ pc[q] = "insert" /\ q \in InFlight
      BY <1>0, <2>1 DEF InFlight
    <3>2. p \in Pending(call[q].member) \cup {r}
      BY <2>1, <2>3 DEF Pending, Exists
    <3> QED
      BY <2>6, <3>1, <3>2 DEF Overlap, Checked
  <2>8. TwoOpenNeedOverlap'
    <3> SUFFICES ASSUME NEW m \in Members, NEW p \in Pending(m)', NEW q \in Pending(m)', p # q
                 PROVE  {p, q} \in met
      BY <2>1 DEF TwoOpenNeedOverlap
    <3>1. CASE p # r /\ q # r
      BY <2>4, <3>1 DEF Overlap, TwoOpenNeedOverlap
    <3>2. CASE q = r
      <4>1. p \in Pending(m) /\ m = call[r].member
        BY <2>4, <2>5, <3>2
      <4> QED
        BY <2>1, <3>2, <4>1 DEF Overlap, Checked
    <3>3. CASE p = r
      <4>1. q \in Pending(m) /\ m = call[r].member
        BY <2>4, <2>5, <3>3
      <4>2. {q, p} \in met
        BY <2>1, <3>3, <4>1 DEF Overlap, Checked
      <4>3. {q, p} = {p, q}
        OBVIOUS
      <4> QED
        BY <4>2, <4>3
    <3> QED
      BY <3>1, <3>2, <3>3
  <2>9. Raced'
    <3> SUFFICES ASSUME NEW s \in Requests, Approving(s)',
                        NEW q \in Pending(ReviewedMember(s))', q # call'[s].id
                 PROVE  FiledInRace(q)'
      BY DEF Raced
    <3>1. Approving(s) /\ s # r /\ s \in InFlight
      BY <1>0, <2>1 DEF Approving, InTransaction, InFlight
    <3>2. call[s].id \in RequestIds /\ Exists(call[s].id)
      BY <3>1, InHand DEF Approving, Sound, Control, Learnt, InTransaction
    <3>3. q \in Pending(ReviewedMember(s)) \cup {r}
      BY <2>1, <2>2, <2>3, <3>2 DEF Pending, Exists, ReviewedMember
    <3>4. CASE q # r
      BY <2>1, <3>1, <3>3, <3>4 DEF Raced, FiledInRace
    <3>5. CASE q = r
      BY <2>1, <2>6, <3>1, <3>5 DEF FiledInRace, Approving
    <3> QED
      BY <3>4, <3>5
  <2> QED
    BY <2>7, <2>8, <2>9
<1>5. ASSUME Crash PROVE Goal
  <2>1. Calm
    BY <1>0, <1>5, QuietIsCalm DEF Crash, InFlight, database, local, Approving, InTransaction
  <2> QED
    BY <2>1, <1>1
<1>6. ASSUME Finished \/ UNCHANGED vars PROVE Goal
  <2>1. Calm
    BY <1>6, QuietIsCalm DEF Finished, vars, database, local, Approving
  <2> QED
    BY <2>1, <1>1
<1>7. ASSUME NEW r \in Requests, Arrive(r) \/ Statement(r) \/ Fail(r) \/ BreakDeadlock(r) PROVE Goal
  <2> HIDE DEF Goal
  <2> QED
    BY <1>1, <1>2, <1>3, <1>4, <1>7, CalmSteps DEF Statement
<1>8. Goal
  <2> HIDE DEF Goal
  <2> QED
    BY <1>5, <1>6, <1>7 DEF Next
<1> QED
  BY <1>0, <1>8 DEF Overlap

LEMMA InitRaces == SeedsApart /\ Init => Overlap /\ Raced
<1> SUFFICES ASSUME SeedsApart, Init PROVE Overlap /\ Raced
  OBVIOUS
<1> USE DEF Init
<1>1. MetInFlight /\ Checked /\ Raced
  BY DEF MetInFlight, Checked, Raced, Approving, InTransaction, InFlight
<1>2. TwoOpenNeedOverlap
  BY SeedAssumption DEF SeedsApart, TwoOpenNeedOverlap, Pending, Exists, RequestIds
<1> QED
  BY <1>1, <1>2 DEF Overlap

\* If no two requests of a member are open when the system starts, two that are
\* open later were being filed at the same moment.
THEOREM TwoOpenOverlapped == SeedsApart /\ Spec => []TwoOpenNeedOverlap
<1>1. SeedsApart /\ Init => Inv /\ Overlap /\ Raced
  BY InitInv, InitRaces
<1>2. Inv /\ Overlap /\ Raced /\ [Next]_vars => (Inv /\ Overlap /\ Raced)'
  BY NextInv, RacesKeep
<1>3. Overlap => TwoOpenNeedOverlap
  BY DEF Overlap
<1> QED
  BY <1>1, <1>2, <1>3, PTL DEF Spec

\* What happens to the values shown as current: unless the register or the rows
\* change, only who has just read the member's row shows new ones.
LEMMA UnreadKeeps ==
  ASSUME Exact, \A q \in RequestIds : FiledInRace(q) => FiledInRace(q)',
         UNCHANGED <<members, requests>>,
         \A q \in Requests : pc'[q] \in {"open", "insert"} =>
            /\ pc[q] \in {"open", "insert"} /\ snapshot'[q] = snapshot[q] /\ call'[q] = call[q]
  PROVE  Exact'
<1>1. Requests \subseteq RequestIds
  BY DEF RequestIds
<1> QED
  BY <1>1 DEF Exact, Current, Exists

LEMMA ExactKeeps ==
  ASSUME Inv, Overlap, Raced, Exact, [Next]_vars
  PROVE  Exact'
<1>0. /\ \A q \in RequestIds : FiledInRace(q) => FiledInRace(q)'
      /\ pc \in [Requests -> Steps] /\ snapshot \in [Requests -> [values : [Fields -> Values]] \cup Proposals \cup {None}]
      /\ members \in [Members -> [Fields -> Values]]
  BY MetKeeps DEF Overlap, Inv, TypeOK
<1>1. ASSUME NEW r \in Requests, Arrive(r) PROVE Exact'
  <2>1. /\ UNCHANGED <<database, snapshot>> /\ pc'[r] \in {"member", "authorize"}
        /\ \A q \in Requests \ {r} : pc'[q] = pc[q] /\ call'[q] = call[q]
    BY <1>1, ArrivalIs
  <2> QED
    BY <1>0, <2>1, UnreadKeeps DEF database
<1>2. ASSUME NEW r \in Requests, FindMember(r) PROVE Exact'
  <2>1. UNCHANGED <<database, call, met>>
    BY <1>2 DEF FindMember, Refuse, Goto
  <2>2. CASE Refuse(r, "invalid") /\ UNCHANGED snapshot
    BY <1>0, <1>2, <2>1, <2>2, UnreadKeeps DEF Refuse, Reply, database
  <2>3. CASE /\ snapshot' = [snapshot EXCEPT ![r] = [values |-> members[call[r].member]]]
             /\ Goto(r, "open")
    <3>1. /\ \A q \in Requests \ {r} : pc'[q] = pc[q] /\ snapshot'[q] = snapshot[q]
          /\ snapshot'[r].values = members[call[r].member]
      BY <1>0, <2>3 DEF Goto
    <3>2. \A q \in Requests : pc'[q] \in {"open", "insert"} /\ ~FiledInRace(q)' =>
            Current(call[q].member, snapshot'[q].values)
      <4>1. Current(call[r].member, snapshot'[r].values)
        BY <3>1 DEF Current
      <4> QED
        BY <1>0, <3>1, <4>1 DEF Exact, RequestIds
    <3> QED
      BY <1>0, <2>1, <3>2 DEF Exact, Current, Exists, database
  <2> QED
    BY <1>2, <2>2, <2>3 DEF FindMember
<1>3. ASSUME NEW r \in Requests, FindPendingForMember(r) PROVE Exact'
  <2>1. UNCHANGED <<database, call, snapshot>>
    BY <1>3 DEF FindPendingForMember, Refuse, Goto, local
  <2>2. \A q \in Requests : pc'[q] \in {"open", "insert"} => pc[q] \in {"open", "insert"}
    BY <1>0, <1>3 DEF FindPendingForMember, Refuse, Reply, Goto
  <2> QED
    BY <1>0, <2>1, <2>2, UnreadKeeps DEF database
<1>4. ASSUME NEW r \in Requests, CreateRequest(r) PROVE Exact'
  <2>1. /\ pc[r] = "insert" /\ UNCHANGED <<call, met, snapshot, members>>
        /\ requests' = [requests EXCEPT ![r] = Row(r)] /\ pc' = [pc EXCEPT ![r] = "done"]
    BY <1>4 DEF CreateRequest, Reply, local
  <2>2. /\ requests'[r] = Row(r) /\ Row(r).member = call[r].member
        /\ Row(r).current = [f \in DOMAIN Proposed(r) |-> snapshot[r].values[f]]
        /\ \A q \in RequestIds \ {r} : requests'[q] = requests[q]
    BY <2>1, RowIs, InHand DEF TypeOK
  <2>3. DOMAIN Proposed(r) \subseteq DOMAIN snapshot[r].values
    <3>1. /\ call[r].body \in [Fields -> Values \cup {Spaces}]
          /\ snapshot[r] \in [values : [Fields -> Values]]
      BY <2>1, InHand DEF Sound, Control
    <3>2. DOMAIN Proposed(r) \subseteq Fields
      BY <3>1, FilterNarrows DEF Proposed
    <3> QED
      BY <3>1, <3>2
  <2>4. ~FiledInRace(r) => Current(Row(r).member, Row(r).current)
    BY <2>1, <2>2, <2>3, InHand DEF Exact, Current
  <2>5. \A q \in Requests : pc'[q] \in {"open", "insert"} => pc[q] \in {"open", "insert"}
    BY <1>0, <2>1
  <2>6. \A q \in RequestIds : Exists(q)' /\ requests'[q].status = "pending" /\ ~FiledInRace(q)' =>
            Current(requests'[q].member, requests'[q].current)
    BY <1>0, <2>2, <2>4 DEF Exact, Exists
  <2>7. \A q \in Requests : pc'[q] \in {"open", "insert"} /\ ~FiledInRace(q)' =>
            Current(call[q].member, snapshot[q].values)
    BY <1>0, <2>5 DEF Exact, RequestIds
  <2> QED
    BY <2>1, <2>6, <2>7 DEF Exact, Current
<1>5. ASSUME NEW r \in Requests, Commit(r) PROVE Exact'
  <2> DEFINE m == ReviewedMember(r)
  <2>1. pc' = [pc EXCEPT ![r] = "done"] /\ UNCHANGED <<call, met, snapshot>>
    BY <1>5 DEF Commit, Reply, local
  <2>2. pc[r] = "commit" /\ r \in InFlight /\ call[r].op \in {"approve", "reject"}
        /\ call[r].id \in RequestIds /\ Exists(call[r].id) /\ Verdict(call[r]) # "pending"
    BY <1>5, Published DEF InFlight, Verdict
  <2>3. \A n \in Members : n # m \/ call[r].op # "approve" =>
            \A f \in Fields : members'[n][f] = members[n][f]
    BY <1>5, Writes
  <2>4. ASSUME NEW q \in Requests, pc'[q] \in {"open", "insert"}, ~FiledInRace(q)'
        PROVE  /\ pc[q] \in {"open", "insert"} /\ ~FiledInRace(q) /\ call[q].member \in Members
               /\ snapshot[q].values \in [Fields -> Values] /\ call[r].op # "approve"
    <3>1. pc[q] \in {"open", "insert"} /\ q # r /\ q \in InFlight
      BY <1>0, <2>1, <2>4 DEF InFlight
    <3>2. call[q].op = "file" /\ call[q].member \in Members
          /\ snapshot[q].values \in [Fields -> Values]
      BY <3>1, InHand DEF Sound, Control
    <3>3. {r, q} \in met
      BY <2>2, <3>1, <3>2 DEF Overlap, MetInFlight
    <3>4. ~FiledInRace(q)
      BY <1>0, <2>4, InHand
    <3> QED
      BY <3>1, <3>2, <3>3, <3>4 DEF FiledInRace
  <2>5. ASSUME NEW q \in RequestIds, Exists(q)', requests'[q].status = "pending", ~FiledInRace(q)'
        PROVE  /\ Exists(q) /\ requests[q].status = "pending" /\ ~FiledInRace(q)
               /\ requests'[q].member = requests[q].member /\ requests'[q].current = requests[q].current
               /\ requests[q].member # m \/ call[r].op # "approve"
    <3>1. q # call[r].id /\ requests'[q] = requests[q]
      BY <1>5, <2>2, <2>5, Decides
    <3>2. Exists(q) /\ requests[q].status = "pending" /\ ~FiledInRace(q)
      BY <1>0, <2>5, <3>1 DEF Exists
    <3>3. ASSUME requests[q].member = m, call[r].op = "approve" PROVE FALSE
      <4>1. Approving(r) /\ q \in Pending(m)
        BY <2>2, <3>2, <3>3 DEF Approving, InTransaction, Pending
      <4> QED
        BY <3>1, <3>2, <4>1 DEF Raced
    <3> QED
      BY <3>1, <3>2, <3>3
  <2>6. \A q \in Requests : pc'[q] \in {"open", "insert"} /\ ~FiledInRace(q)' =>
            \A f \in DOMAIN snapshot[q].values : snapshot[q].values[f] = members'[call[q].member][f]
    BY <2>3, <2>4 DEF Exact, Current
  <2>7. \A q \in RequestIds : Exists(q)' /\ requests'[q].status = "pending" /\ ~FiledInRace(q)' =>
            \A f \in DOMAIN requests'[q].current :
                requests'[q].current[f] = members'[requests'[q].member][f]
    <3> SUFFICES ASSUME NEW q \in RequestIds, Exists(q)', requests'[q].status = "pending",
                        ~FiledInRace(q)', NEW f \in DOMAIN requests[q].current
                 PROVE  requests[q].current[f] = members'[requests[q].member][f]
      BY <2>5
    <3>1. requests[q].current[f] = members[requests[q].member][f]
      BY <2>5 DEF Exact, Current
    <3>2. requests[q].member \in Members /\ f \in Fields
      <4>1. requests[q].member \in Members /\ requests[q].current \in Documents
        BY <2>5, ProposalFields, InHand
      <4> QED
        BY <4>1 DEF Documents
    <3> QED
      BY <2>3, <2>5, <3>1, <3>2
  <2> QED
    BY <2>1, <2>6, <2>7 DEF Exact, Current
<1>6. ASSUME NEW r \in Requests,
             Authorize(r) \/ ReadRequest(r) \/ ApplyChanges(r) \/ UpdateRequest(r)
             \/ CreateNotification(r) \/ RecordAudit(r) \/ Fail(r) \/ BreakDeadlock(r)
      PROVE  Exact'
  <2>1. UNCHANGED <<members, requests, call>>
    BY <1>6 DEF Authorize, ReadRequest, ApplyChanges, UpdateRequest, CreateNotification,
                RecordAudit, Fail, BreakDeadlock, Goto, Refuse, database, local
  <2>2. \A q \in Requests : pc'[q] \in {"open", "insert"} =>
            pc[q] \in {"open", "insert"} /\ snapshot'[q] = snapshot[q]
    <3>1. CASE Authorize(r) \/ ReadRequest(r) \/ ApplyChanges(r) \/ UpdateRequest(r)
      BY <1>0, <3>1 DEF Authorize, ReadRequest, ApplyChanges, UpdateRequest, Goto, Refuse, Reply, local
    <3>2. CASE CreateNotification(r) \/ RecordAudit(r) \/ Fail(r) \/ BreakDeadlock(r)
      BY <1>0, <3>2 DEF CreateNotification, RecordAudit, Fail, BreakDeadlock, Goto, Refuse, Reply, local
    <3> QED
      BY <1>6, <3>1, <3>2
  <2> QED
    BY <1>0, <2>1, <2>2, UnreadKeeps
<1>7. ASSUME Crash PROVE Exact'
  BY <1>0, <1>7, UnreadKeeps DEF Crash, InFlight, database, local
<1>8. ASSUME Finished \/ UNCHANGED vars PROVE Exact'
  BY <1>0, <1>8, UnreadKeeps DEF Finished, vars, database, local
<1> QED
  BY <1>1, <1>2, <1>3, <1>4, <1>5, <1>6, <1>7, <1>8 DEF Next, Statement

\* Only a filing and a commit write tables.
LEMMA WhatChanges ==
  ASSUME [Next]_vars
  PROVE  \/ UNCHANGED <<members, requests, audit>>
         \/ \E r \in Requests : Commit(r) \/ (CreateRequest(r) /\ UNCHANGED <<members, audit>>)
<1> DEFINE Still == UNCHANGED <<members, requests, audit>>
<1>1. ASSUME NEW r \in Requests, Arrive(r) \/ Fail(r) \/ BreakDeadlock(r) PROVE Still
  BY <1>1 DEF Arrive, Fail, BreakDeadlock, Goto, Refuse, database
<1>2. ASSUME NEW r \in Requests, FindMember(r) \/ FindPendingForMember(r) \/ Authorize(r)
                                 \/ ReadRequest(r)
      PROVE  Still
  BY <1>2 DEF FindMember, FindPendingForMember, Authorize, ReadRequest, Goto, Refuse, database
<1>3. ASSUME NEW r \in Requests, ApplyChanges(r) \/ UpdateRequest(r) \/ CreateNotification(r)
                                 \/ RecordAudit(r)
      PROVE  Still
  BY <1>3 DEF ApplyChanges, UpdateRequest, CreateNotification, RecordAudit, Goto, Refuse, database
<1>4. ASSUME NEW r \in Requests, CreateRequest(r) PROVE UNCHANGED <<members, audit>>
  BY <1>4 DEF CreateRequest
<1>5. Crash \/ Finished \/ UNCHANGED vars => Still
  BY DEF Crash, Finished, vars, database
<1> QED
  BY <1>1, <1>2, <1>3, <1>4, <1>5 DEF Next, Statement

LEMMA BeforeStep ==
  ASSUME Inv, Overlap, Raced, Exact, [Next]_vars, NEW a \in Approvals' \ Approvals,
         NEW f \in DOMAIN a.before
  PROVE  \/ a.before[f] = members[a.member][f]
         \/ FiledInRace(a.request)
         \/ requests[a.request].status # "pending"
<1>1. PICK r \in Requests : Commit(r)
  BY WhatChanges DEF Approvals
<1> DEFINE id == call[r].id
<1>2. a = AuditRecord(r) /\ call[r].op = "approve"
  <2>1. audit' = audit \cup {AuditRecord(r)}
    BY <1>1, Published
  <2>2. a = AuditRecord(r)
    BY <2>1 DEF Approvals
  <2> QED
    BY <1>1, <2>2, Leaves
<1>3. a.before = Before(r) /\ a.member = ReviewedMember(r) /\ a.request = id
  BY <1>1, <1>2, Leaves
<1>4. id \in RequestIds /\ Exists(id) /\ call[r] # None
  BY <1>1, Published
<1>5. f \in DOMAIN Applied(r) /\ a.before[f] = requests[id].current[f]
  BY <1>3 DEF Before
<1>6. f \in DOMAIN requests[id].current
  BY <1>2, <1>4, <1>5, AppliedIs, InHand DEF Inv, RowsShaped
<1>7. requests[id].status = "pending" /\ ~FiledInRace(id) =>
        requests[id].current[f] = members[ReviewedMember(r)][f]
  BY <1>4, <1>6 DEF Exact, Current, ReviewedMember
<1> QED
  BY <1>3, <1>5, <1>7

LEMMA InitExact == SeedsExact /\ Init => Exact
<1> SUFFICES ASSUME SeedsExact, Init PROVE Exact
  OBVIOUS
<1>1. \A q \in Requests : pc[q] \notin {"open", "insert"}
  BY DEF Init
<1>2. \A q \in RequestIds : Exists(q) => q \in DOMAIN Seed /\ requests[q] = Seed[q]
  BY DEF Init, Exists
<1> QED
  BY <1>1, <1>2 DEF Init, Exact, Current, SeedsExact

\* The record of an approval shows what the register held before it, unless its
\* request was filed in a race or had been decided by somebody else: of a system
\* that starts with one open request a member at most, which shows its row.
THEOREM BeforeIsExact == SeedsApart /\ SeedsExact /\ Spec => BeforeIsExactUnlessRaced
<1> DEFINE Races == Inv /\ Overlap /\ Raced /\ Exact
           Shown == \A a \in Approvals' \ Approvals : \A f \in DOMAIN a.before :
                      \/ a.before[f] = members[a.member][f]
                      \/ FiledInRace(a.request)
                      \/ requests[a.request].status # "pending"
<1>1. SeedsApart /\ SeedsExact /\ Init => Races
  BY InitInv, InitRaces, InitExact
<1>2. Races /\ [Next]_vars => Races'
  BY NextInv, RacesKeep, ExactKeeps
<1>3. Races /\ [Next]_vars => [Shown]_vars
  BY BeforeStep
<1> QED
  BY <1>1, <1>2, <1>3, PTL DEF Spec, BeforeIsExactUnlessRaced

-----------------------------------------------------------------------------
(* The handlers implement the register of MemberRegister.                  *)

LEMMA RegisterInit == Init => MemberLedger!Init
<1> SUFFICES ASSUME Init PROVE MemberLedger!Init
  OBVIOUS
<1>1. trail = {}
  BY DEF Init, trail
<1>2. ASSUME NEW q \in RequestIds
      PROVE  (IF Exists(q) THEN Proposal(requests[q]) ELSE None)
             = (IF q \in DOMAIN Seed THEN Proposal(Seed[q]) ELSE None)
  <2>1. q \in DOMAIN Seed => Seed[q] # None
    BY SeedAssumption, NoneAssumption
  <2> QED
    BY <2>1 DEF Init, Exists
<1> QED
  BY <1>1, <1>2 DEF Init, MemberLedger!Init, proposals

\* What the register shows of a row.
LEMMA Shown ==
  ASSUME TypeOK, NEW q \in RequestIds, Exists(q)
  PROVE  /\ proposals[q] = Proposal(requests[q]) /\ proposals[q] # None
         /\ proposals[q].member = requests[q].member
         /\ proposals[q].requested = requests[q].requested
         /\ proposals[q].status = requests[q].status
         /\ proposals[q].reviewedBy = requests[q].reviewedBy
<1>1. proposals[q] = Proposal(requests[q])
  BY DEF proposals
<1>2. Proposal(requests[q]) \in [member : Members, requested : Documents, status : Statuses,
                                 reviewedBy : Staff \cup {None}]
  BY ProposalFields DEF Proposal
<1> QED
  BY <1>1, <1>2, NoneAssumption DEF Proposal

\* A filing is a proposal.
LEMMA FilingProposes ==
  ASSUME Inv, NEW r \in Requests, CreateRequest(r)
  PROVE  MemberLedger!Propose(r)
<1>1. /\ pc[r] = "insert" /\ UNCHANGED <<members, audit>> /\ r \in RequestIds
      /\ requests' = [requests EXCEPT ![r] = Row(r)]
  BY InHand DEF CreateRequest
<1>2. /\ Row(r) \in Proposals /\ Row(r) # None /\ Row(r).status = "pending"
      /\ Row(r).reviewedBy = None
  BY <1>1, RowIs DEF Row
<1>3. requests[r] = None /\ requests \in [RequestIds -> Proposals \cup {None}]
  BY <1>1, InHand DEF Sound, Control, TypeOK
<1>4. proposals[r] = None
  BY <1>1, <1>3 DEF proposals, Exists
<1>5. proposals'[r] = Proposal(Row(r))
  BY <1>1, <1>2, <1>3 DEF proposals, Exists
<1>6. \A q \in RequestIds \ {r} : proposals'[q] = proposals[q]
  BY <1>1, <1>3 DEF proposals, Exists
<1>7. proposals' = [proposals EXCEPT ![r] = proposals'[r]]
  BY <1>6 DEF proposals
<1>8. Proposal(Row(r)) \in MemberLedger!Fresh
  BY <1>2 DEF MemberLedger!Fresh, Proposal, Proposals, Documents
<1> QED
  BY <1>1, <1>4, <1>5, <1>7, <1>8 DEF MemberLedger!Propose, trail

\* What a filter leaves of stored values is as it was stored.
LEMMA AppliedAsProposed ==
  ASSUME TypeOK, NEW r \in Requests, call[r] # None, call[r].op = "approve",
         Exists(call[r].id)
  PROVE  Applied(r) = [f \in DOMAIN Applied(r) |-> requests[call[r].id].requested[f]]
<1> DEFINE d == requests[call[r].id].requested
           D == {f \in allowed[r] \cap DOMAIN d : d[f] # Blank}
<1>1. call[r].id \in RequestIds
  BY CallFields DEF TypeOK
<1>2. PICK F \in SUBSET Fields : d \in [F -> Values]
  BY <1>1, ProposalFields DEF Documents
<1>3. \A f \in D : Trim(d[f]) = d[f]
  BY <1>2, ValueAssumption DEF Trim
<1>4. Applied(r) = [f \in D |-> Trim(d[f])]
  BY DEF Applied, FilterEditable
<1> QED
  BY <1>3, <1>4

\* The audit record a commit leaves has the next id and is the handler's only one.
LEMMA CommitLogs ==
  ASSUME Inv, NEW r \in Requests, Commit(r)
  PROVE  LET approve == call[r].op = "approve" IN
         MemberLedger!Log(r, call[r].id,
            IF approve THEN "profile_change.approved" ELSE "profile_change.rejected",
            call[r].staff, IF approve THEN Applied(r) ELSE <<>>)
<1> DEFINE id == call[r].id
           approve == call[r].op = "approve"
           action == IF approve THEN "profile_change.approved" ELSE "profile_change.rejected"
           change == IF approve THEN Applied(r) ELSE <<>>
<1>1. /\ pc[r] = "commit" /\ id \in RequestIds /\ Exists(id) /\ call[r].op \in {"approve", "reject"}
      /\ audit' = audit \cup {AuditRecord(r)} /\ serial[r] \in Nat
  BY Published
<1>2. proposals[id].member = ReviewedMember(r)
  BY <1>1, Shown, InHand DEF ReviewedMember
<1>3. \A a \in trail : a.by # r
  <2>1. \A a \in audit : a.by # r
    BY <1>1 DEF Inv, Past
  <2> QED
    BY <2>1 DEF trail, Logged
<1>4. serial[r] \in 1..Cardinality(Requests)
  <2>1. IsFiniteSet(Requests) /\ Given \subseteq Requests
    BY RequestAssumption DEF Given
  <2>2. Cardinality(Given) <= Cardinality(Requests) /\ Cardinality(Requests) \in Nat
    BY <2>1, FS_Subset, FS_CardinalityType
  <2>3. serial[r] > 0 /\ serial[r] <= Cardinality(Given) /\ Cardinality(Given) \in Nat
    BY <1>1, GivenCounts, InHand DEF Sound, Numbered
  <2> QED
    BY <1>1, <2>2, <2>3
<1>5. \A a \in trail : a.member = ReviewedMember(r) /\ a.after # <<>> => a.id < serial[r]
  <2>1. \A a \in audit : a.after # <<>> => a \in Approvals
    BY InHand DEF Inv, Past, Approvals, TypeOK, Actions
  <2>2. \A a \in audit : a.member = ReviewedMember(r) /\ a.after # <<>> => a.id < serial[r]
    BY <1>1, <2>1, InHand DEF Sound, Numbered
  <2> QED
    BY <2>2 DEF trail, Logged
<1>6. Logged(AuditRecord(r)) = [id |-> serial[r], by |-> r, request |-> id,
         member |-> proposals[id].member, action |-> action, actor |-> call[r].staff,
         after |-> change]
  BY <1>2 DEF Logged, AuditRecord
<1>7. trail' = trail \cup {Logged(AuditRecord(r))}
  BY <1>1 DEF trail
<1> HIDE DEF action, change
<1>8. MemberLedger!Log(r, id, action, call[r].staff, change)
  BY <1>2, <1>3, <1>4, <1>5, <1>6, <1>7 DEF MemberLedger!Log
<1> QED
  BY <1>8 DEF action, change

LEMMA CommitWrites ==
  ASSUME Inv, NEW r \in Requests, Commit(r)
  PROVE  /\ call[r].op = "approve" => MemberLedger!Apply(r, call[r].id, call[r].staff)
         /\ call[r].op = "reject" => MemberLedger!Refuse(r, call[r].id, call[r].staff)
<1> DEFINE id == call[r].id  m == ReviewedMember(r)
<1>1. /\ pc[r] = "commit" /\ id \in RequestIds /\ Exists(id) /\ call[r] # None
  BY Published
<1>2. ASSUME call[r].op = "approve"
      PROVE  MemberLedger!Apply(r, id, call[r].staff)
  <2> DEFINE F == DOMAIN Applied(r)
  <2>1. /\ F \subseteq DOMAIN requests[id].requested
        /\ Applied(r) = [f \in F |-> requests[id].requested[f]]
    BY <1>1, <1>2, AppliedIs, AppliedAsProposed, InHand
  <2>2. F # {}
    BY <1>1, <1>2, InHand DEF Sound, Learnt, InTransaction
  <2>3. proposals[id].requested = requests[id].requested /\ proposals[id].member = m
    BY <1>1, Shown, InHand DEF ReviewedMember
  <2>4. members' = [members EXCEPT ![m] =
          [f \in Fields |-> IF f \in F THEN Applied(r)[f] ELSE @[f]]]
    BY <1>2, Published
  <2>5. MemberLedger!Log(r, id, "profile_change.approved", call[r].staff, Applied(r))
    BY <1>2, CommitLogs
  <2>6. F \in (SUBSET DOMAIN proposals[id].requested) \ {{}}
    BY <2>1, <2>2, <2>3
  <2>7. Applied(r) = [f \in F |-> proposals[id].requested[f]]
    BY <2>1, <2>3
  <2> HIDE DEF F, m, id
  <2> QED
    BY <2>3, <2>4, <2>5, <2>6, <2>7 DEF MemberLedger!Apply
<1>3. ASSUME call[r].op = "reject"
      PROVE  MemberLedger!Refuse(r, id, call[r].staff)
  <2>1. MemberLedger!Log(r, id, "profile_change.rejected", call[r].staff, <<>>)
    BY <1>3, CommitLogs
  <2>2. UNCHANGED members
    BY <1>3, Published
  <2> QED
    BY <2>1, <2>2 DEF MemberLedger!Refuse
<1> QED
  BY <1>2, <1>3

\* A decision as a change of what is shown.
LEMMA SameShown ==
  ASSUME NEW A, NEW B, NEW C, NEW D,
         NEW x \in [member : A, requested : B, status : C, reviewedBy : D],
         NEW y \in [member : A, requested : B, status : C, reviewedBy : D],
         x.member = y.member, x.requested = y.requested, x.status = y.status,
         x.reviewedBy = y.reviewedBy
  PROVE  x = y
OBVIOUS

LEMMA DecisionShown ==
  ASSUME NEW A, NEW B, NEW C, NEW D,
         NEW x \in [member : A, requested : B, status : C, reviewedBy : D],
         NEW y \in [member : A, requested : B, status : C, reviewedBy : D],
         NEW s \in C, NEW u \in D, y.member = x.member, y.requested = x.requested,
         y.status = s, y.reviewedBy = u
  PROVE  y = [x EXCEPT !.status = s, !.reviewedBy = u]
<1> DEFINE z == [x EXCEPT !.status = s, !.reviewedBy = u]
<1>1. z \in [member : A, requested : B, status : C, reviewedBy : D]
  OBVIOUS
<1>2. z.member = x.member /\ z.requested = x.requested /\ z.status = s /\ z.reviewedBy = u
  OBVIOUS
<1> HIDE DEF z
<1>3. y = z
  BY <1>1, <1>2, SameShown
<1> QED
  BY <1>3 DEF z

LEMMA CommitDecides ==
  ASSUME Inv, NEW r \in Requests, Commit(r)
  PROVE  IF requests[call[r].id].status = "pending"
         THEN MemberLedger!Decide(call[r].id, Verdict(call[r]), call[r].staff)
         ELSE proposals[call[r].id].status # "pending" /\ UNCHANGED proposals
<1> DEFINE id == call[r].id
<1>1. /\ id \in RequestIds /\ Exists(id) /\ call[r].op \in {"approve", "reject"}
      /\ requests \in [RequestIds -> Proposals \cup {None}]
  BY Published, InHand DEF TypeOK
<1>2. proposals[id] = Proposal(requests[id]) /\ proposals[id].status = requests[id].status
  BY <1>1, Shown, InHand
<1>3. CASE requests[id].status # "pending"
  <2>1. UNCHANGED requests
    BY <1>3, Published
  <2> QED
    BY <1>2, <1>3, <2>1 DEF proposals, Exists
<1>4. CASE requests[id].status = "pending"
  <2>1. /\ \A q \in RequestIds \ {id} : requests'[q] = requests[q]
        /\ requests'[id].status = Verdict(call[r]) /\ requests'[id].reviewedBy = call[r].staff
        /\ requests'[id].member = requests[id].member /\ requests'[id] # None
        /\ requests'[id].requested = requests[id].requested
    BY <1>1, <1>4, Decides
  <2>2. \A q \in RequestIds \ {id} : proposals'[q] = proposals[q]
    BY <2>1 DEF proposals, Exists
  <2>3. proposals'[id] = Proposal(requests'[id])
    BY <1>1, <2>1 DEF proposals, Exists
  <2>4. Proposal(requests'[id]) = [Proposal(requests[id]) EXCEPT !.status = Verdict(call[r]),
                                                               !.reviewedBy = call[r].staff]
    <3> DEFINE T == [member : Members, requested : Documents, status : Statuses,
                     reviewedBy : Staff \cup {None}]
    <3>1. Proposal(requests[id]) \in T
      BY <1>1, ProposalFields, InHand DEF Proposal
    <3>2. Verdict(call[r]) \in Statuses /\ call[r].staff \in Staff \cup {None}
      BY Published, StaffAssumption DEF Verdict, Statuses, Signers
    <3>3. Proposal(requests'[id]) \in T
      BY <1>1, <2>1, <3>2, ProposalFields, InHand DEF Proposal
    <3>4. /\ Proposal(requests'[id]).member = Proposal(requests[id]).member
          /\ Proposal(requests'[id]).requested = Proposal(requests[id]).requested
          /\ Proposal(requests'[id]).status = Verdict(call[r])
          /\ Proposal(requests'[id]).reviewedBy = call[r].staff
      BY <2>1 DEF Proposal
    <3> QED
      BY <3>1, <3>2, <3>3, <3>4, DecisionShown
  <2>5. proposals' = [proposals EXCEPT ![id].status = Verdict(call[r]),
                                       ![id].reviewedBy = call[r].staff]
    <3>1. proposals'[id] = [proposals[id] EXCEPT !.status = Verdict(call[r]),
                                                 !.reviewedBy = call[r].staff]
      BY <1>2, <2>3, <2>4
    <3>2. /\ proposals = [q \in RequestIds |-> proposals[q]]
          /\ proposals' = [q \in RequestIds |-> proposals'[q]]
      BY DEF proposals
    <3> QED
      BY <1>1, <2>2, <3>1, <3>2
  <2> QED
    BY <1>2, <1>4, <2>5 DEF MemberLedger!Decide
<1> QED
  BY <1>3, <1>4

LEMMA CommitReviews ==
  ASSUME Inv, NEW r \in Requests, Commit(r)
  PROVE  MemberLedger!Next
<1> DEFINE id == call[r].id  u == call[r].staff
<1>1. /\ id \in RequestIds /\ Exists(id) /\ call[r].op \in {"approve", "reject"} /\ u \in Signers
  BY Published
<1>2. proposals[id] # None
  BY <1>1, Shown, InHand
<1>3. trail' # trail
  <2>1. audit' = audit \cup {AuditRecord(r)} /\ pc[r] = "commit"
    BY Published
  <2>2. \A a \in trail : a.by # r
    BY <2>1 DEF Inv, Past, trail, Logged
  <2>3. Logged(AuditRecord(r)) \in trail' /\ Logged(AuditRecord(r)).by = r
    BY <2>1 DEF trail, Logged, AuditRecord
  <2> QED
    BY <2>2, <2>3
<1>4. \/ MemberLedger!Approve(r, id, u) \/ MemberLedger!Reject(r, id, u)
      \/ MemberLedger!Reapply(r, id, u)
  BY <1>1, CommitDecides, CommitWrites
  DEF MemberLedger!Approve, MemberLedger!Reject, MemberLedger!Reapply, Verdict
<1> QED
  BY <1>1, <1>2, <1>3, <1>4 DEF MemberLedger!Next

LEMMA RegisterStep == Inv /\ [Next]_vars => [MemberLedger!Next]_(MemberLedger!vars)
<1> SUFFICES ASSUME Inv, [Next]_vars
             PROVE  MemberLedger!Next \/ UNCHANGED MemberLedger!vars
  OBVIOUS
<1>1. ASSUME UNCHANGED <<members, requests, audit>> PROVE UNCHANGED MemberLedger!vars
  BY <1>1 DEF MemberLedger!vars, proposals, trail, Exists
<1>2. ASSUME NEW r \in Requests, CreateRequest(r) PROVE MemberLedger!Next
  <2>1. r \in RequestIds
    BY DEF RequestIds
  <2> QED
    BY <1>2, <2>1, FilingProposes DEF MemberLedger!Next
<1>3. ASSUME NEW r \in Requests, Commit(r) PROVE MemberLedger!Next
  BY <1>3, CommitReviews
<1> QED
  BY <1>1, <1>2, <1>3, WhatChanges

\* Every handler takes effect at one statement, as a step of the abstract register.
THEOREM RegisterHolds == Spec => ImplementsRegister
BY RegisterInit, RegisterStep, InvHolds, PTL DEF Spec, ImplementsRegister, MemberLedger!Spec
=============================================================================
