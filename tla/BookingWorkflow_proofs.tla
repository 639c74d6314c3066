------------------------ MODULE BookingWorkflow_proofs ------------------------
(***************************************************************************)
(* Proofs about the booking workflow, for any requests, members, staff,    *)
(* facilities, slots and calls.                                            *)
(***************************************************************************)
EXTENDS BookingWorkflow, FiniteSetTheorems, TLAPS

Tail == {"notify", "audit", "commit"}

\* A handler awaits only statements of the operation it was called for.
CallMatchesStep ==
    \A r \in Requests :
        /\ pc[r] # "idle" => call[r] \in Calls
        /\ pc[r] \in {"facility", "closure", "slot", "insert", "recheck", "create"}
             => call[r].op = "book"
        /\ pc[r] \in {"authorize", "review", "clash", "update"}
             => call[r].op \in {"approve", "reject"}
        /\ pc[r] \in {"own", "cancel"} => call[r].op = "cancel"
        /\ pc[r] \in Tail => call[r].op \in {"book", "approve", "reject"}

\* What a handler learnt from an earlier statement and nobody can undo.
Learnt ==
    \A r \in Requests :
        /\ pc[r] # "done" => bookings[r] = None
        /\ pc[r] = "insert" => call[r].facility \notin AutoConfirm
        /\ pc[r] \in {"recheck", "create"} => call[r].facility \in AutoConfirm
        /\ pc[r] \in Tail /\ call[r].op = "book" => call[r].facility \in AutoConfirm
        /\ pc[r] \in {"review", "clash", "update"}
             => call[r].staff \in Permitted \cap Approvers
        /\ pc[r] \in Tail /\ call[r].op # "book"
             => call[r].staff \in Permitted \cap Approvers
        /\ pc[r] \in {"clash", "update", "cancel"} => Exists(call[r].id)
        /\ pc[r] \in Tail /\ call[r].op # "book" => Exists(call[r].id)

\* What a transaction has written so far.
Buffered ==
    \A r \in Requests :
        /\ pc[r] \notin Tail => writes[r] = {}
        /\ pc[r] = "notify" => writes[r] \subseteq {"bookings"}
        /\ pc[r] = "audit" => /\ "notifications" \in writes[r]
                              /\ "audit" \notin writes[r]
        /\ pc[r] = "commit" => /\ "notifications" \in writes[r]
                               /\ "audit" \in writes[r]
        /\ pc[r] \in Tail /\ call[r].op = "book" => "bookings" \in writes[r]

\* From its UPDATE to its end a review holds the row lock, and the row is pending
\* still if and only if the UPDATE found it pending.
Locked ==
    \A r \in Requests :
        pc[r] \in Tail /\ call[r].op # "book" =>
            /\ lock[call[r].id] = r
            /\ "bookings" \in writes[r] <=> bookings[call[r].id].status = "pending"

\* History: only a handler that ended has left a trace.
Past ==
    /\ \A b \in BookingIds : decider[b] # None =>
         /\ Exists(b)
         /\ pc[decider[b]] = "done" /\ answer[decider[b]] \in {"ok", "error"}
    /\ \A e \in notifications \cup audit :
         /\ Exists(e.booking)
         /\ pc[e.by] = "done" /\ answer[e.by] \in {"ok", "error"}

Inv == TypeOK /\ CallMatchesStep /\ Learnt /\ Buffered /\ Locked

----------------------------------------------------------------------------
LEMMA CallFields ==
  ASSUME NEW c \in Calls
  PROVE  /\ c.op = "book" => /\ c.member \in Members
                            /\ c.facility \in Facilities /\ c.slot \in Slots
         /\ c.op \in {"approve", "reject"} => c.staff \in Staff /\ c.id \in BookingIds
         /\ c.op = "cancel" => c.member \in Members /\ c.id \in BookingIds
         /\ c.op \in {"book", "approve", "reject", "cancel"}
         /\ c # None
BY CallAssumption, NoneAssumption DEF AllCalls, BookCalls, ReviewCalls, CancelCalls

LEMMA WrittenTypes ==
  ASSUME TypeOK, CallMatchesStep, Learnt, NEW r \in Requests, pc[r] = "commit"
  PROVE  /\ Target(r) \in BookingIds
         /\ WrittenRow(r) \in Rows
         /\ Notification(r) \in NotificationRows
         /\ AuditRecord(r) \in AuditRows
<1> USE DEF Target, BookingIds, WrittenRow, NewRow, Rows, Statuses, Verdict, Tail
<1>1. call[r] \in Calls /\ call[r].op \in {"book", "approve", "reject"}
  BY DEF CallMatchesStep, Tail
<1>2. CASE call[r].op = "book"
  BY <1>1, <1>2, CallFields DEF Notification, AuditRecord, NotificationRows, AuditRows, Action, Actor
<1>3. CASE call[r].op \in {"approve", "reject"}
  <2>1. Exists(call[r].id) /\ call[r].id \in BookingIds /\ call[r].staff \in Staff
    BY <1>1, <1>3, CallFields DEF Learnt, Tail
  <2>2. bookings[call[r].id] \in Rows
    BY <2>1 DEF TypeOK, Exists
  <2>3. WrittenRow(r) \in Rows
    BY <2>1, <2>2, <1>3
  <2> QED
    BY <2>1, <2>3, <1>1, <1>3 DEF Notification, AuditRecord, NotificationRows, AuditRows, Action, Actor
<1> QED
  BY <1>1, <1>2, <1>3

LEMMA TypeStep == Inv /\ [Next]_vars => TypeOK'
<1> SUFFICES ASSUME Inv, [Next]_vars PROVE TypeOK'
  OBVIOUS
<1> USE DEF Inv, TypeOK, Steps, Answers, BookingIds, CallMatchesStep
<1>1. ASSUME NEW r \in Requests, Arrive(r) PROVE TypeOK'
  BY <1>1, CallFields DEF Arrive, database
<1>2. ASSUME NEW r \in Requests, FindFacility(r) PROVE TypeOK'
  BY <1>2 DEF FindFacility, Goto, Reply, NoTransaction, database
<1>3. ASSUME NEW r \in Requests, CheckClosure(r) PROVE TypeOK'
  BY <1>3 DEF CheckClosure, Goto, Reply, NoTransaction, database
<1>4. ASSUME NEW r \in Requests, CheckSlot(r) PROVE TypeOK'
  BY <1>4 DEF CheckSlot, Goto, Reply, NoTransaction, database
<1>5. ASSUME NEW r \in Requests, InsertPending(r) PROVE TypeOK'
  BY <1>5, CallFields DEF InsertPending, Reply, NoTransaction, NewRow, Rows, Statuses
<1>6. ASSUME NEW r \in Requests, Recheck(r) PROVE TypeOK'
  BY <1>6 DEF Recheck, Goto, Reply, EndTransaction, NoTransaction, database, Confirmed
<1>7. ASSUME NEW r \in Requests, CreateConfirmed(r) PROVE TypeOK'
  BY <1>7 DEF CreateConfirmed, Goto, database
<1>8. ASSUME NEW r \in Requests, Authorize(r) PROVE TypeOK'
  BY <1>8 DEF Authorize, Goto, Reply, NoTransaction, database
<1>9. ASSUME NEW r \in Requests, ReadForReview(r) PROVE TypeOK'
  BY <1>9 DEF ReadForReview, Goto, Reply, NoTransaction, database
<1>10. ASSUME NEW r \in Requests, CheckClash(r) PROVE TypeOK'
  BY <1>10 DEF CheckClash, Goto, Reply, NoTransaction, database, Confirmed
<1>11. ASSUME NEW r \in Requests, UpdateStatus(r) PROVE TypeOK'
  BY <1>11 DEF UpdateStatus, Goto, database
<1>12. ASSUME NEW r \in Requests, CreateNotification(r) PROVE TypeOK'
  BY <1>12 DEF CreateNotification, Goto, database
<1>13. ASSUME NEW r \in Requests, RecordAudit(r) PROVE TypeOK'
  BY <1>13 DEF RecordAudit, Goto, database
<1>14. ASSUME NEW r \in Requests, Commit(r) PROVE TypeOK'
  <2>1. /\ pc[r] = "commit" /\ Publish(r) /\ EndTransaction(r) /\ UNCHANGED base
        /\ \E a \in {"ok", "error"} : Reply(r, a)
    BY <1>14 DEF Commit
  <2>2. /\ Target(r) \in BookingIds /\ WrittenRow(r) \in Rows
        /\ Notification(r) \in NotificationRows /\ AuditRecord(r) \in AuditRows
    BY <2>1, WrittenTypes
  <2> QED
    BY <2>1, <2>2 DEF Publish, EndTransaction, Reply
<1>15. ASSUME NEW r \in Requests, ReadForCancel(r) PROVE TypeOK'
  BY <1>15 DEF ReadForCancel, Goto, Reply, NoTransaction, database
<1>16. ASSUME NEW r \in Requests, CancelRow(r) PROVE TypeOK'
  BY <1>16, CallFields, NoneAssumption DEF CancelRow, Reply, NoTransaction, Rows, Statuses, Learnt, Exists
<1>17. ASSUME NEW r \in Requests, Fail(r) PROVE TypeOK'
  BY <1>17 DEF Fail, Reply, EndTransaction, database
<1>18. ASSUME Crash PROVE TypeOK'
  BY <1>18 DEF Crash, database, InFlight
<1>19. ASSUME UNCHANGED vars PROVE TypeOK'
  BY <1>19 DEF vars
<1> QED
  BY <1>1, <1>2, <1>3, <1>4, <1>5, <1>6, <1>7, <1>8, <1>9, <1>10, <1>11, <1>12, <1>13, <1>14, <1>15, <1>16, <1>17, <1>18, <1>19 DEF Next, Statement, Finished

\* A commit settles a booking that no other open handler created or reviews.
LEMMA CommitTarget ==
  ASSUME Inv, NEW r \in Requests, pc[r] = "commit", Publish(r)
  PROVE  /\ Target(r) \in BookingIds
         /\ \A b \in BookingIds : b # Target(r) => bookings'[b] = bookings[b]
         /\ \A b \in BookingIds : Exists(b) => bookings'[b] # None
         /\ \A q \in Requests : q # r /\ pc[q] # "done" => Target(r) # q
         /\ \A q \in Requests : q # r /\ pc[q] \in Tail /\ call[q].op # "book"
              => Target(r) # call[q].id
<1> USE DEF Inv, Tail
<1>1. Target(r) \in BookingIds /\ WrittenRow(r) \in Rows
  BY WrittenTypes
<1>2. bookings' = bookings \/ bookings' = [bookings EXCEPT ![Target(r)] = WrittenRow(r)]
  BY DEF Publish
<1>3. \A b \in BookingIds : /\ b # Target(r) => bookings'[b] = bookings[b]
                            /\ Exists(b) => bookings'[b] # None
  BY <1>1, <1>2, NoneAssumption DEF TypeOK, Exists
<1>4. /\ call[r].op = "book" => Target(r) = r /\ ~Exists(r)
      /\ call[r].op # "book" => /\ Target(r) = call[r].id /\ Exists(call[r].id)
                               /\ lock[call[r].id] = r
  BY DEF Target, Learnt, Locked, Exists
<1>5. ASSUME NEW q \in Requests, q # r, pc[q] # "done" PROVE Target(r) # q
  BY <1>4, <1>5 DEF Learnt, Exists
<1>6. ASSUME NEW q \in Requests, q # r, pc[q] \in Tail, call[q].op # "book"
      PROVE  Target(r) # call[q].id
  BY <1>4, <1>6 DEF Learnt, Locked
<1> QED
  BY <1>1, <1>3, <1>5, <1>6

LEMMA CallStep == Inv /\ [Next]_vars => CallMatchesStep'
<1> SUFFICES ASSUME Inv, [Next]_vars PROVE CallMatchesStep'
  OBVIOUS
<1> USE DEF Inv, TypeOK, CallMatchesStep, Tail, Steps
<1>1. ASSUME NEW r \in Requests, Arrive(r) PROVE CallMatchesStep'
  BY <1>1, CallAssumption, CallFields DEF Arrive, database
<1>2. ASSUME NEW r \in Requests, FindFacility(r) PROVE CallMatchesStep'
  BY <1>2 DEF FindFacility, Goto, Reply, NoTransaction, database
<1>3. ASSUME NEW r \in Requests, CheckClosure(r) PROVE CallMatchesStep'
  BY <1>3 DEF CheckClosure, Goto, Reply, NoTransaction, database
<1>4. ASSUME NEW r \in Requests, CheckSlot(r) PROVE CallMatchesStep'
  BY <1>4 DEF CheckSlot, Goto, Reply, NoTransaction, database
<1>5. ASSUME NEW r \in Requests, InsertPending(r) PROVE CallMatchesStep'
  BY <1>5 DEF InsertPending, Reply, NoTransaction, NewRow
<1>6. ASSUME NEW r \in Requests, Recheck(r) PROVE CallMatchesStep'
  BY <1>6 DEF Recheck, Goto, Reply, EndTransaction, NoTransaction, database
<1>7. ASSUME NEW r \in Requests, CreateConfirmed(r) PROVE CallMatchesStep'
  BY <1>7 DEF CreateConfirmed, Goto, database
<1>8. ASSUME NEW r \in Requests, Authorize(r) PROVE CallMatchesStep'
  BY <1>8 DEF Authorize, Goto, Reply, NoTransaction, database
<1>9. ASSUME NEW r \in Requests, ReadForReview(r) PROVE CallMatchesStep'
  BY <1>9 DEF ReadForReview, Goto, Reply, NoTransaction, database
<1>10. ASSUME NEW r \in Requests, CheckClash(r) PROVE CallMatchesStep'
  BY <1>10 DEF CheckClash, Goto, Reply, NoTransaction, database
<1>11. ASSUME NEW r \in Requests, UpdateStatus(r) PROVE CallMatchesStep'
  BY <1>11 DEF UpdateStatus, Goto, database
<1>12. ASSUME NEW r \in Requests, CreateNotification(r) PROVE CallMatchesStep'
  BY <1>12 DEF CreateNotification, Goto, database
<1>13. ASSUME NEW r \in Requests, RecordAudit(r) PROVE CallMatchesStep'
  BY <1>13 DEF RecordAudit, Goto, database
<1>14. ASSUME NEW r \in Requests, Commit(r) PROVE CallMatchesStep'
  BY <1>14 DEF Commit, Publish, Reply, EndTransaction
<1>15. ASSUME NEW r \in Requests, ReadForCancel(r) PROVE CallMatchesStep'
  BY <1>15 DEF ReadForCancel, Goto, Reply, NoTransaction, database
<1>16. ASSUME NEW r \in Requests, CancelRow(r) PROVE CallMatchesStep'
  BY <1>16 DEF CancelRow, Reply, NoTransaction
<1>17. ASSUME NEW r \in Requests, Fail(r) PROVE CallMatchesStep'
  BY <1>17 DEF Fail, Reply, EndTransaction, database, InFlight
<1>18. ASSUME Crash PROVE CallMatchesStep'
  BY <1>18 DEF Crash, database, InFlight
<1>19. ASSUME UNCHANGED vars PROVE CallMatchesStep'
  BY <1>19 DEF vars
<1> QED
  BY <1>1, <1>2, <1>3, <1>4, <1>5, <1>6, <1>7, <1>8, <1>9, <1>10, <1>11, <1>12, <1>13, <1>14, <1>15, <1>16, <1>17, <1>18, <1>19 DEF Next, Statement, Finished

LEMMA BufferStep == Inv /\ [Next]_vars => Buffered'
<1> SUFFICES ASSUME Inv, [Next]_vars PROVE Buffered'
  OBVIOUS
<1> USE DEF Inv, TypeOK, Buffered, CallMatchesStep, Tail, Steps
<1>1. ASSUME NEW r \in Requests, Arrive(r) PROVE Buffered'
  BY <1>1 DEF Arrive, database
<1>2. ASSUME NEW r \in Requests, FindFacility(r) PROVE Buffered'
  BY <1>2 DEF FindFacility, Goto, Reply, NoTransaction, database
<1>3. ASSUME NEW r \in Requests, CheckClosure(r) PROVE Buffered'
  BY <1>3 DEF CheckClosure, Goto, Reply, NoTransaction, database
<1>4. ASSUME NEW r \in Requests, CheckSlot(r) PROVE Buffered'
  BY <1>4 DEF CheckSlot, Goto, Reply, NoTransaction, database
<1>5. ASSUME NEW r \in Requests, InsertPending(r) PROVE Buffered'
  BY <1>5 DEF InsertPending, Reply, NoTransaction, NewRow
<1>6. ASSUME NEW r \in Requests, Recheck(r) PROVE Buffered'
  BY <1>6 DEF Recheck, Goto, Reply, EndTransaction, NoTransaction, database
<1>7. ASSUME NEW r \in Requests, CreateConfirmed(r) PROVE Buffered'
  BY <1>7 DEF CreateConfirmed, Goto, database
<1>8. ASSUME NEW r \in Requests, Authorize(r) PROVE Buffered'
  BY <1>8 DEF Authorize, Goto, Reply, NoTransaction, database
<1>9. ASSUME NEW r \in Requests, ReadForReview(r) PROVE Buffered'
  BY <1>9 DEF ReadForReview, Goto, Reply, NoTransaction, database
<1>10. ASSUME NEW r \in Requests, CheckClash(r) PROVE Buffered'
  BY <1>10 DEF CheckClash, Goto, Reply, NoTransaction, database
<1>11. ASSUME NEW r \in Requests, UpdateStatus(r) PROVE Buffered'
  BY <1>11 DEF UpdateStatus, Goto, database
<1>12. ASSUME NEW r \in Requests, CreateNotification(r) PROVE Buffered'
  BY <1>12 DEF CreateNotification, Goto, database
<1>13. ASSUME NEW r \in Requests, RecordAudit(r) PROVE Buffered'
  BY <1>13 DEF RecordAudit, Goto, database
<1>14. ASSUME NEW r \in Requests, Commit(r) PROVE Buffered'
  BY <1>14 DEF Commit, Publish, Reply, EndTransaction
<1>15. ASSUME NEW r \in Requests, ReadForCancel(r) PROVE Buffered'
  BY <1>15 DEF ReadForCancel, Goto, Reply, NoTransaction, database
<1>16. ASSUME NEW r \in Requests, CancelRow(r) PROVE Buffered'
  BY <1>16 DEF CancelRow, Reply, NoTransaction
<1>17. ASSUME NEW r \in Requests, Fail(r) PROVE Buffered'
  BY <1>17 DEF Fail, Reply, EndTransaction, database, InFlight
<1>18. ASSUME Crash PROVE Buffered'
  BY <1>18 DEF Crash, database, InFlight
<1>19. ASSUME UNCHANGED vars PROVE Buffered'
  BY <1>19 DEF vars
<1> QED
  BY <1>1, <1>2, <1>3, <1>4, <1>5, <1>6, <1>7, <1>8, <1>9, <1>10, <1>11, <1>12, <1>13, <1>14, <1>15, <1>16, <1>17, <1>18, <1>19 DEF Next, Statement, Finished

LEMMA LearntStep == Inv /\ [Next]_vars => Learnt'
<1> SUFFICES ASSUME Inv, [Next]_vars PROVE Learnt'
  OBVIOUS
<1> USE DEF Inv, TypeOK, Learnt, CallMatchesStep, Tail, Steps, BookingIds, Exists
<1>1. ASSUME NEW r \in Requests, Arrive(r) PROVE Learnt'
  BY <1>1, CallFields DEF Arrive, database
<1>2. ASSUME NEW r \in Requests, FindFacility(r) PROVE Learnt'
  BY <1>2 DEF FindFacility, Goto, Reply, NoTransaction, database
<1>3. ASSUME NEW r \in Requests, CheckClosure(r) PROVE Learnt'
  BY <1>3 DEF CheckClosure, Goto, Reply, NoTransaction, database
<1>4. ASSUME NEW r \in Requests, CheckSlot(r) PROVE Learnt'
  BY <1>4 DEF CheckSlot, Goto, Reply, NoTransaction, database
<1>5. ASSUME NEW r \in Requests, InsertPending(r) PROVE Learnt'
  BY <1>5, NoneAssumption DEF InsertPending, Reply, NoTransaction, NewRow, Rows
<1>6. ASSUME NEW r \in Requests, Recheck(r) PROVE Learnt'
  BY <1>6 DEF Recheck, Goto, Reply, EndTransaction, NoTransaction, database
<1>7. ASSUME NEW r \in Requests, CreateConfirmed(r) PROVE Learnt'
  BY <1>7 DEF CreateConfirmed, Goto, database
<1>8. ASSUME NEW r \in Requests, Authorize(r) PROVE Learnt'
  BY <1>8 DEF Authorize, Goto, Reply, NoTransaction, database
<1>9. ASSUME NEW r \in Requests, ReadForReview(r) PROVE Learnt'
  BY <1>9 DEF ReadForReview, Goto, Reply, NoTransaction, database
<1>10. ASSUME NEW r \in Requests, CheckClash(r) PROVE Learnt'
  BY <1>10 DEF CheckClash, Goto, Reply, NoTransaction, database
<1>11. ASSUME NEW r \in Requests, UpdateStatus(r) PROVE Learnt'
  BY <1>11 DEF UpdateStatus, Goto, database
<1>12. ASSUME NEW r \in Requests, CreateNotification(r) PROVE Learnt'
  BY <1>12 DEF CreateNotification, Goto, database
<1>13. ASSUME NEW r \in Requests, RecordAudit(r) PROVE Learnt'
  BY <1>13 DEF RecordAudit, Goto, database
<1>14. ASSUME NEW r \in Requests, Commit(r) PROVE Learnt'
  <2>1. /\ pc[r] = "commit" /\ Publish(r)
        /\ pc' = [pc EXCEPT ![r] = "done"] /\ call' = call
    BY <1>14 DEF Commit, Reply
  <2>2. \A q \in Requests : q # r /\ pc[q] # "done" => bookings'[q] = bookings[q]
    BY <2>1, CommitTarget
  <2>3. \A b \in BookingIds : Exists(b) => bookings'[b] # None
    BY <2>1, CommitTarget
  <2>4. \A q \in Requests : pc[q] \in {"clash", "update", "cancel"} \/ (pc[q] \in Tail /\ call[q].op # "book")
          => call[q].id \in BookingIds
    BY CallFields
  <2> QED
    BY <2>1, <2>2, <2>3, <2>4
<1>15. ASSUME NEW r \in Requests, ReadForCancel(r) PROVE Learnt'
  BY <1>15 DEF ReadForCancel, Goto, Reply, NoTransaction, database, Owns
<1>16. ASSUME NEW r \in Requests, CancelRow(r) PROVE Learnt'
  BY <1>16, NoneAssumption, CallFields DEF CancelRow, Reply, NoTransaction, Rows, Statuses
<1>17. ASSUME NEW r \in Requests, Fail(r) PROVE Learnt'
  BY <1>17 DEF Fail, Reply, EndTransaction, database, InFlight
<1>18. ASSUME Crash PROVE Learnt'
  BY <1>18 DEF Crash, database, InFlight
<1>19. ASSUME UNCHANGED vars PROVE Learnt'
  BY <1>19 DEF vars
<1> QED
  BY <1>1, <1>2, <1>3, <1>4, <1>5, <1>6, <1>7, <1>8, <1>9, <1>10, <1>11, <1>12, <1>13, <1>14, <1>15, <1>16, <1>17, <1>18, <1>19 DEF Next, Statement, Finished

LEMMA LockStep == Inv /\ [Next]_vars => Locked'
<1> SUFFICES ASSUME Inv, [Next]_vars PROVE Locked'
  OBVIOUS
<1> USE DEF Inv, TypeOK, Locked, CallMatchesStep, Buffered, Learnt, Tail, Steps, BookingIds, Exists
<1>1. ASSUME NEW r \in Requests, Arrive(r) PROVE Locked'
  BY <1>1 DEF Arrive, database
<1>2. ASSUME NEW r \in Requests, FindFacility(r) PROVE Locked'
  BY <1>2 DEF FindFacility, Goto, Reply, NoTransaction, database
<1>3. ASSUME NEW r \in Requests, CheckClosure(r) PROVE Locked'
  BY <1>3 DEF CheckClosure, Goto, Reply, NoTransaction, database
<1>4. ASSUME NEW r \in Requests, CheckSlot(r) PROVE Locked'
  BY <1>4 DEF CheckSlot, Goto, Reply, NoTransaction, database
<1>5. ASSUME NEW r \in Requests, InsertPending(r) PROVE Locked'
  BY <1>5 DEF InsertPending, Reply, NoTransaction, NewRow
<1>6. ASSUME NEW r \in Requests, Recheck(r) PROVE Locked'
  BY <1>6, CallFields DEF Recheck, Goto, Reply, EndTransaction, NoTransaction, database
<1>7. ASSUME NEW r \in Requests, CreateConfirmed(r) PROVE Locked'
  BY <1>7 DEF CreateConfirmed, Goto, database
<1>8. ASSUME NEW r \in Requests, Authorize(r) PROVE Locked'
  BY <1>8 DEF Authorize, Goto, Reply, NoTransaction, database
<1>9. ASSUME NEW r \in Requests, ReadForReview(r) PROVE Locked'
  BY <1>9 DEF ReadForReview, Goto, Reply, NoTransaction, database
<1>10. ASSUME NEW r \in Requests, CheckClash(r) PROVE Locked'
  BY <1>10 DEF CheckClash, Goto, Reply, NoTransaction, database
<1>11. ASSUME NEW r \in Requests, UpdateStatus(r) PROVE Locked'
  BY <1>11, CallFields, NoneAssumption DEF UpdateStatus, Goto, database
<1>12. ASSUME NEW r \in Requests, CreateNotification(r) PROVE Locked'
  BY <1>12 DEF CreateNotification, Goto, database
<1>13. ASSUME NEW r \in Requests, RecordAudit(r) PROVE Locked'
  BY <1>13 DEF RecordAudit, Goto, database
<1>14. ASSUME NEW r \in Requests, Commit(r) PROVE Locked'
  <2>1. /\ pc[r] = "commit" /\ Publish(r) /\ EndTransaction(r)
        /\ pc' = [pc EXCEPT ![r] = "done"] /\ call' = call
    BY <1>14 DEF Commit, Reply
  <2> SUFFICES ASSUME NEW q \in Requests, q # r, pc[q] \in Tail, call[q].op # "book"
               PROVE  /\ lock'[call[q].id] = q
                      /\ "bookings" \in writes'[q] <=> bookings'[call[q].id].status = "pending"
    BY <2>1
  <2>2. call[q].id \in BookingIds
    BY CallFields
  <2>3. bookings'[call[q].id] = bookings[call[q].id]
    BY <2>1, <2>2, CommitTarget
  <2> QED
    BY <2>1, <2>2, <2>3 DEF EndTransaction
<1>15. ASSUME NEW r \in Requests, ReadForCancel(r) PROVE Locked'
  BY <1>15 DEF ReadForCancel, Goto, Reply, NoTransaction, database
<1>16. ASSUME NEW r \in Requests, CancelRow(r) PROVE Locked'
  BY <1>16, NoneAssumption DEF CancelRow, Reply, NoTransaction
<1>17. ASSUME NEW r \in Requests, Fail(r) PROVE Locked'
  BY <1>17, CallFields DEF Fail, Reply, EndTransaction, database, InFlight
<1>18. ASSUME Crash PROVE Locked'
  BY <1>18 DEF Crash, database, InFlight
<1>19. ASSUME UNCHANGED vars PROVE Locked'
  BY <1>19 DEF vars
<1> QED
  BY <1>1, <1>2, <1>3, <1>4, <1>5, <1>6, <1>7, <1>8, <1>9, <1>10, <1>11, <1>12, <1>13, <1>14, <1>15, <1>16, <1>17, <1>18, <1>19 DEF Next, Statement, Finished

LEMMA InitInv == Init => Inv
<1> SUFFICES ASSUME Init PROVE Inv
  OBVIOUS
<1> USE DEF Init, BookingIds
<1>1. TypeOK
  BY SeedAssumption DEF TypeOK, Steps, Answers
<1>2. CallMatchesStep /\ Buffered /\ Locked
  BY DEF CallMatchesStep, Buffered, Locked, Tail
<1>3. Learnt
  BY SeedAssumption DEF Learnt, Tail
<1> QED
  BY <1>1, <1>2, <1>3 DEF Inv

LEMMA StepInv == Inv /\ [Next]_vars => Inv'
BY TypeStep, CallStep, LearntStep, BufferStep, LockStep DEF Inv

\* What is always true of handlers, their transactions and the row locks.
THEOREM InvHolds == Spec => []Inv
<1> QED
  BY InitInv, StepInv, PTL DEF Spec

\* Every variable keeps its type, whatever the requests and the bounds.
THEOREM TypeCorrect == Spec => []TypeOK
<1>1. Inv => TypeOK
  BY DEF Inv
<1> QED
  BY <1>1, InvHolds, PTL

----------------------------------------------------------------------------
(* Only three statements change the committed tables.                     *)

LEMMA WhatChanges ==
  Inv /\ [Next]_vars => \/ UNCHANGED database
                        \/ \E r \in Requests : InsertPending(r) \/ Commit(r) \/ CancelRow(r)
<1> SUFFICES ASSUME [Next]_vars,
                    ~ \E r \in Requests : InsertPending(r) \/ Commit(r) \/ CancelRow(r)
             PROVE  UNCHANGED database
  OBVIOUS
<1>1. ASSUME NEW r \in Requests, Arrive(r) \/ Statement(r) \/ Fail(r)
      PROVE  UNCHANGED database
  <2> USE DEF Goto
  <2>1. Arrive(r) \/ Fail(r) => UNCHANGED database
    BY DEF Arrive, Fail
  <2>2. FindFacility(r) \/ CheckClosure(r) \/ CheckSlot(r) => UNCHANGED database
    BY DEF FindFacility, CheckClosure, CheckSlot
  <2>3. Recheck(r) \/ CreateConfirmed(r) => UNCHANGED database
    BY DEF Recheck, CreateConfirmed
  <2>4. Authorize(r) \/ ReadForReview(r) \/ CheckClash(r) \/ UpdateStatus(r)
          => UNCHANGED database
    BY DEF Authorize, ReadForReview, CheckClash, UpdateStatus
  <2>5. CreateNotification(r) \/ RecordAudit(r) \/ ReadForCancel(r) => UNCHANGED database
    BY DEF CreateNotification, RecordAudit, ReadForCancel
  <2> QED
    BY <1>1, <2>1, <2>2, <2>3, <2>4, <2>5 DEF Statement
<1>2. Crash \/ UNCHANGED vars => UNCHANGED database
  BY DEF Crash, vars, database
<1> QED
  BY <1>1, <1>2 DEF Next, Finished

\* What the three writing statements do to the tables.
LEMMA InsertEffect ==
  ASSUME Inv, NEW r \in Requests, InsertPending(r)
  PROVE  /\ bookings[r] = None
         /\ bookings' = [bookings EXCEPT ![r] = NewRow(call[r], "pending")]
         /\ NewRow(call[r], "pending") \in Rows
         /\ call[r].facility \in Facilities \ AutoConfirm
         /\ call[r].slot \in Slots /\ call[r].member \in Members
         /\ UNCHANGED <<notifications, audit, decider, base, writes, call>>
BY CallFields DEF Inv, InsertPending, Reply, NoTransaction, CallMatchesStep, Learnt,
                  NewRow, Rows, Statuses

LEMMA CancelEffect ==
  ASSUME Inv, NEW r \in Requests, CancelRow(r)
  PROVE  /\ \/ UNCHANGED bookings
            \/ /\ Exists(call[r].id) /\ call[r].id \in BookingIds
               /\ bookings[call[r].id].status \in Cancellable
               /\ bookings' = [bookings EXCEPT ![call[r].id].status = "cancelled"]
         /\ UNCHANGED <<notifications, audit, decider, base, writes, call>>
BY CallFields DEF Inv, CancelRow, Reply, NoTransaction, CallMatchesStep, Learnt

LEMMA CommitEffect ==
  ASSUME Inv, NEW r \in Requests, Commit(r)
  PROVE  /\ Target(r) \in BookingIds /\ WrittenRow(r) \in Rows
         /\ call[r] \in Calls /\ call[r].op \in {"book", "approve", "reject"}
         /\ notifications' = notifications \cup {Notification(r)}
         /\ audit' = audit \cup {AuditRecord(r)}
         /\ \/ /\ call[r].op # "book" /\ Exists(Target(r))
               /\ bookings[Target(r)].status # "pending"
               /\ UNCHANGED <<bookings, decider>>
            \/ /\ call[r].op = "book" => bookings[Target(r)] = None
               /\ call[r].op # "book" => /\ Exists(Target(r))
                                         /\ bookings[Target(r)].status = "pending"
               /\ bookings' = [bookings EXCEPT ![Target(r)] = WrittenRow(r)]
               /\ decider' = [decider EXCEPT ![Target(r)] = r]
         /\ UNCHANGED <<base, call>>
<1>1. pc[r] = "commit" /\ Publish(r) /\ UNCHANGED <<base, call>>
  BY DEF Commit, Reply
<1>2. call[r] \in Calls /\ call[r].op \in {"book", "approve", "reject"}
  BY <1>1 DEF Inv, CallMatchesStep, Tail
<1>3. Target(r) \in BookingIds /\ WrittenRow(r) \in Rows
  BY <1>1, WrittenTypes DEF Inv
<1>4. {"notifications", "audit"} \subseteq writes[r]
  BY <1>1 DEF Inv, Buffered
<1>5. call[r].op = "book" => "bookings" \in writes[r] /\ bookings[Target(r)] = None
  BY <1>1, <1>2 DEF Inv, Buffered, Learnt, Target, Tail
<1>6. call[r].op # "book" =>
        /\ Exists(Target(r))
        /\ "bookings" \in writes[r] <=> bookings[Target(r)].status = "pending"
  BY <1>1 DEF Inv, Learnt, Locked, Target, Tail
<1> QED
  BY <1>1, <1>2, <1>3, <1>4, <1>5, <1>6 DEF Publish

----------------------------------------------------------------------------
(* How rows move, and the settlements that are accounted for.             *)

LEMMA RowStep == Inv /\ [Next]_vars => \A b \in BookingIds : RowMove(bookings[b], bookings'[b])
<1> SUFFICES ASSUME Inv, [Next]_vars, NEW b \in BookingIds
             PROVE  RowMove(bookings[b], bookings'[b])
  OBVIOUS
<1> USE DEF RowMove, Exists
<1>0. bookings \in [BookingIds -> Rows \cup {None}] /\ b \in DOMAIN bookings
  BY DEF Inv, TypeOK
<1>1. CASE UNCHANGED database
  BY <1>1 DEF database
<1>2. ASSUME NEW r \in Requests, InsertPending(r)
      PROVE  RowMove(bookings[b], bookings'[b])
  <2>1. /\ bookings[r] = None /\ call[r].facility \notin AutoConfirm
        /\ bookings' = [bookings EXCEPT ![r] = NewRow(call[r], "pending")]
    BY <1>2, InsertEffect
  <2>2. CASE b = r
    BY <1>0, <2>1, <2>2 DEF NewRow
  <2>3. CASE b # r
    BY <1>0, <2>1, <2>3
  <2> QED
    BY <2>2, <2>3
<1>3. ASSUME NEW r \in Requests, CancelRow(r)
      PROVE  RowMove(bookings[b], bookings'[b])
  BY <1>0, <1>3, CancelEffect
<1>4. ASSUME NEW r \in Requests, Commit(r)
      PROVE  RowMove(bookings[b], bookings'[b])
  <2>a. \/ bookings'[b] = bookings[b]
        \/ /\ b = Target(r) /\ bookings'[b] = WrittenRow(r)
           /\ call[r].op = "book" => bookings[b] = None
           /\ call[r].op # "book" => bookings[b].status = "pending"
    <3> HIDE DEF RowMove, Exists
    <3>1. CASE UNCHANGED bookings
      BY <3>1
    <3>2. CASE bookings' # bookings
      <4>1. /\ call[r].op = "book" => bookings[Target(r)] = None
            /\ call[r].op # "book" => bookings[Target(r)].status = "pending"
            /\ bookings' = [bookings EXCEPT ![Target(r)] = WrittenRow(r)]
        BY <1>4, <3>2, CommitEffect
      <4> QED
        BY <1>0, <4>1
    <3> QED
      BY <3>1, <3>2
  <2>b. CASE bookings'[b] = bookings[b]
    BY <2>b
  <2> SUFFICES ASSUME b = Target(r), bookings'[b] = WrittenRow(r),
                      call[r].op = "book" => bookings[b] = None,
                      call[r].op # "book" => bookings[b].status = "pending"
               PROVE  RowMove(bookings[b], WrittenRow(r))
    BY <2>a, <2>b
  <2>1. pc[r] \in Tail
    BY <1>4 DEF Commit, Tail
  <2>2. CASE call[r].op = "book"
    <3>1. bookings[b] = None /\ call[r].facility \in AutoConfirm
      BY <1>4, <2>1, <2>2, CommitEffect, CallFields DEF Inv, Learnt, Target, Tail
    <3> QED
      BY <3>1, <2>2 DEF WrittenRow, NewRow
  <2>3. CASE call[r].op # "book"
    <3>1. /\ call[r].op \in {"approve", "reject"} /\ call[r].staff \in Permitted \cap Approvers
          /\ b = call[r].id /\ Exists(b)
      BY <1>4, <2>1, <2>3, CommitEffect DEF Inv, Learnt, Target, Tail
    <3>2. bookings[b].status = "pending" /\ bookings[b] \in Rows
      BY <1>0, <2>3, <3>1
    <3>3. WrittenRow(r) = [bookings[b] EXCEPT !.status = Verdict(call[r]),
                                              !.reviewedBy = call[r].staff]
      BY <2>3, <3>1 DEF WrittenRow
    <3>4. Verdict(call[r]) \in {"confirmed", "rejected"}
      BY DEF Verdict
    <3> QED
      BY <3>1, <3>2, <3>3, <3>4, NoneAssumption DEF Rows
  <2> QED
    BY <2>2, <2>3
<1> QED
  BY <1>1, <1>2, <1>3, <1>4, WhatChanges

----------------------------------------------------------------------------
(* History: only a handler that ended has left a trace.                   *)

Unmoved(q) == /\ pc'[q] = pc[q] /\ answer'[q] = answer[q]
              /\ base'[q] = base[q] /\ call'[q] = call[q]

\* A handler that ended stays as it is.
LEMMA DoneStays == Inv /\ [Next]_vars => \A q \in Requests : pc[q] = "done" => Unmoved(q)
<1> SUFFICES ASSUME Inv, [Next]_vars PROVE \A q \in Requests : pc[q] = "done" => Unmoved(q)
  OBVIOUS
<1> USE DEF Inv, TypeOK, Unmoved
<1>1. ASSUME NEW r \in Requests, Arrive(r) PROVE \A q \in Requests : pc[q] = "done" => Unmoved(q)
  BY <1>1 DEF Arrive, database
<1>2. ASSUME NEW r \in Requests, FindFacility(r) PROVE \A q \in Requests : pc[q] = "done" => Unmoved(q)
  BY <1>2 DEF FindFacility, Goto, Reply, NoTransaction, database
<1>3. ASSUME NEW r \in Requests, CheckClosure(r) PROVE \A q \in Requests : pc[q] = "done" => Unmoved(q)
  BY <1>3 DEF CheckClosure, Goto, Reply, NoTransaction, database
<1>4. ASSUME NEW r \in Requests, CheckSlot(r) PROVE \A q \in Requests : pc[q] = "done" => Unmoved(q)
  BY <1>4 DEF CheckSlot, Goto, Reply, NoTransaction, database
<1>5. ASSUME NEW r \in Requests, InsertPending(r) PROVE \A q \in Requests : pc[q] = "done" => Unmoved(q)
  BY <1>5 DEF InsertPending, Reply, NoTransaction, NewRow
<1>6. ASSUME NEW r \in Requests, Recheck(r) PROVE \A q \in Requests : pc[q] = "done" => Unmoved(q)
  BY <1>6 DEF Recheck, Goto, Reply, EndTransaction, NoTransaction, database
<1>7. ASSUME NEW r \in Requests, CreateConfirmed(r) PROVE \A q \in Requests : pc[q] = "done" => Unmoved(q)
  BY <1>7 DEF CreateConfirmed, Goto, database
<1>8. ASSUME NEW r \in Requests, Authorize(r) PROVE \A q \in Requests : pc[q] = "done" => Unmoved(q)
  BY <1>8 DEF Authorize, Goto, Reply, NoTransaction, database
<1>9. ASSUME NEW r \in Requests, ReadForReview(r) PROVE \A q \in Requests : pc[q] = "done" => Unmoved(q)
  BY <1>9 DEF ReadForReview, Goto, Reply, NoTransaction, database
<1>10. ASSUME NEW r \in Requests, CheckClash(r) PROVE \A q \in Requests : pc[q] = "done" => Unmoved(q)
  BY <1>10 DEF CheckClash, Goto, Reply, NoTransaction, database
<1>11. ASSUME NEW r \in Requests, UpdateStatus(r) PROVE \A q \in Requests : pc[q] = "done" => Unmoved(q)
  BY <1>11 DEF UpdateStatus, Goto, database
<1>12. ASSUME NEW r \in Requests, CreateNotification(r) PROVE \A q \in Requests : pc[q] = "done" => Unmoved(q)
  BY <1>12 DEF CreateNotification, Goto, database
<1>13. ASSUME NEW r \in Requests, RecordAudit(r) PROVE \A q \in Requests : pc[q] = "done" => Unmoved(q)
  BY <1>13 DEF RecordAudit, Goto, database
<1>14. ASSUME NEW r \in Requests, Commit(r) PROVE \A q \in Requests : pc[q] = "done" => Unmoved(q)
  BY <1>14 DEF Commit, Reply, EndTransaction
<1>15. ASSUME NEW r \in Requests, ReadForCancel(r) PROVE \A q \in Requests : pc[q] = "done" => Unmoved(q)
  BY <1>15 DEF ReadForCancel, Goto, Reply, NoTransaction, database
<1>16. ASSUME NEW r \in Requests, CancelRow(r) PROVE \A q \in Requests : pc[q] = "done" => Unmoved(q)
  BY <1>16 DEF CancelRow, Reply, NoTransaction
<1>17. ASSUME NEW r \in Requests, Fail(r) PROVE \A q \in Requests : pc[q] = "done" => Unmoved(q)
  BY <1>17 DEF Fail, Reply, EndTransaction, database, InFlight
<1>18. ASSUME Crash PROVE \A q \in Requests : pc[q] = "done" => Unmoved(q)
  BY <1>18 DEF Crash, database, InFlight
<1>19. ASSUME UNCHANGED vars PROVE \A q \in Requests : pc[q] = "done" => Unmoved(q)
  BY <1>19 DEF vars
<1> QED
  BY <1>1, <1>2, <1>3, <1>4, <1>5, <1>6, <1>7, <1>8, <1>9, <1>10, <1>11, <1>12, <1>13, <1>14, <1>15, <1>16, <1>17, <1>18, <1>19 DEF Next, Statement, Finished


LEMMA PastStep == Inv /\ Past /\ [Next]_vars => Past'
<1> SUFFICES ASSUME Inv, Past, [Next]_vars PROVE Past'
  OBVIOUS
<1>1. \A q \in Requests : pc[q] = "done" => Unmoved(q)
  BY DoneStays
<1>2. \A b \in BookingIds : Exists(b) => bookings'[b] # None
  <2>1. ASSUME NEW b \in BookingIds, Exists(b) PROVE bookings'[b] # None
    <3>1. RowMove(bookings[b], bookings'[b])
      BY RowStep
    <3>2. bookings[b] \in Rows
      BY <2>1 DEF Inv, TypeOK, Exists
    <3> QED
      BY <2>1, <3>1, <3>2, NoneAssumption, StaffAssumption DEF RowMove, Exists, Rows, Statuses
  <2> QED
    BY <2>1
<1>3. /\ decider \in [BookingIds -> Requests \cup {None}]
      /\ notifications \subseteq NotificationRows /\ audit \subseteq AuditRows
  BY DEF Inv, TypeOK
<1>4. CASE UNCHANGED <<notifications, audit, decider>>
  BY <1>1, <1>2, <1>3, <1>4 DEF Past, Unmoved, NotificationRows, AuditRows, Exists
<1>5. ASSUME NEW r \in Requests, Commit(r) PROVE Past'
  <2>1. pc'[r] = "done" /\ answer'[r] \in {"ok", "error"}
    BY <1>5 DEF Commit, Reply, Inv, TypeOK
  <2>2. /\ Target(r) \in BookingIds /\ bookings'[Target(r)] # None
        /\ notifications' = notifications \cup {Notification(r)}
        /\ audit' = audit \cup {AuditRecord(r)}
        /\ decider' = decider \/ decider' = [decider EXCEPT ![Target(r)] = r]
    BY <1>5, <1>2, CommitEffect, NoneAssumption DEF Inv, TypeOK
  <2>3. /\ Notification(r).by = r /\ Notification(r).booking = Target(r)
        /\ AuditRecord(r).by = r /\ AuditRecord(r).booking = Target(r)
    BY DEF Notification, AuditRecord
  <2>4. \A b \in BookingIds : decider'[b] # None =>
          /\ bookings'[b] # None
          /\ pc'[decider'[b]] = "done" /\ answer'[decider'[b]] \in {"ok", "error"}
    BY <1>1, <1>2, <1>3, <2>1, <2>2 DEF Past, Unmoved
  <2>5. \A e \in notifications' \cup audit' :
          /\ bookings'[e.booking] # None
          /\ pc'[e.by] = "done" /\ answer'[e.by] \in {"ok", "error"}
    BY <1>1, <1>2, <1>3, <2>1, <2>2, <2>3 DEF Past, Unmoved, Exists, NotificationRows, AuditRows
  <2> QED
    BY <2>4, <2>5 DEF Past, Exists
<1> QED
  BY <1>4, <1>5, WhatChanges, InsertEffect, CancelEffect DEF database

----------------------------------------------------------------------------
(* Settlements are accounted for, signed, and whole.                      *)

LEMMA AccountStep ==
  Inv /\ Past /\ DecisionIsAccounted /\ [Next]_vars => DecisionIsAccounted'
<1> SUFFICES ASSUME Inv, Past, DecisionIsAccounted, [Next]_vars, NEW b \in BookingIds
             PROVE  AccountedFor(b)'
  BY DEF DecisionIsAccounted
<1> USE DEF AccountedFor, Decided, Exists
<1>0. bookings[b] \in Rows \cup {None} /\ b \in DOMAIN bookings /\ b \in DOMAIN decider
  BY DEF Inv, TypeOK
<1>1. CASE UNCHANGED database
  BY <1>1 DEF database, DecisionIsAccounted
<1>2. ASSUME NEW r \in Requests, InsertPending(r), b = r
      PROVE  bookings'[b].status = "pending" /\ decider'[b] = None
  <2>1. bookings[b] = None /\ bookings' = [bookings EXCEPT ![b] = NewRow(call[r], "pending")]
        /\ decider' = decider
    BY <1>2, InsertEffect
  <2>2. bookings'[b] = NewRow(call[r], "pending")
    BY <1>0, <2>1
  <2> QED
    BY <2>1, <2>2 DEF Past, NewRow
<1>3. ASSUME NEW r \in Requests, CancelRow(r), Exists(b), bookings'[b] # bookings[b]
      PROVE  bookings'[b] = [bookings[b] EXCEPT !.status = "cancelled"]
  BY <1>0, <1>3, CancelEffect
<1>4. ASSUME NEW r \in Requests, Commit(r), b = Target(r),
             bookings' = [bookings EXCEPT ![b] = WrittenRow(r)],
             decider' = [decider EXCEPT ![b] = r]
      PROVE  /\ Notification(r) \in notifications' /\ AuditRecord(r) \in audit'
             /\ Notification(r).by = decider'[b] /\ Notification(r).booking = b
             /\ Notification(r).member = bookings'[b].member
             /\ bookings'[b].status = Notification(r).says
             /\ AuditRecord(r).by = decider'[b] /\ AuditRecord(r).booking = b
             /\ AuditRecord(r).actor = IF AuditRecord(r).action = "booking.auto_confirmed"
                                       THEN bookings'[b].member
                                       ELSE bookings'[b].reviewedBy
             /\ decider'[b] # None
  <2>1. bookings'[b] = WrittenRow(r) /\ decider'[b] = r
    BY <1>0, <1>4
  <2>2. /\ call[r].op \in {"book", "approve", "reject"}
        /\ call[r].op # "book" => bookings[b] \in Rows /\ b = call[r].id
    BY <1>0, <1>4, CommitEffect DEF Target
  <2>3. CASE call[r].op = "book"
    <3>1. /\ WrittenRow(r).status = "confirmed" /\ WrittenRow(r).member = call[r].member
          /\ Verdict(call[r]) = "confirmed"
      BY <2>3 DEF WrittenRow, NewRow, Verdict
    <3>2. /\ AuditRecord(r).action = "booking.auto_confirmed"
          /\ AuditRecord(r).actor = call[r].member
      BY <2>3 DEF AuditRecord, Action, Actor
    <3> QED
      BY <1>4, <2>1, <3>1, <3>2, CommitEffect, NoneAssumption DEF Notification, AuditRecord
  <2>4. CASE call[r].op # "book"
    <3>1. /\ WrittenRow(r).status = Verdict(call[r])
          /\ WrittenRow(r).reviewedBy = call[r].staff
      BY <2>2, <2>4 DEF WrittenRow, Rows
    <3>2. AuditRecord(r).action # "booking.auto_confirmed" /\ AuditRecord(r).actor = call[r].staff
      BY <2>2, <2>4 DEF AuditRecord, Action, Actor
    <3> QED
      BY <1>4, <2>1, <3>1, <3>2, CommitEffect, NoneAssumption DEF Notification, AuditRecord
  <2> QED
    BY <2>3, <2>4
<1>5. ASSUME bookings'[b] = bookings[b], decider'[b] = decider[b],
             notifications \subseteq notifications', audit \subseteq audit'
      PROVE  AccountedFor(b)'
  BY <1>5 DEF DecisionIsAccounted
<1>6. ASSUME NEW r \in Requests, InsertPending(r) \/ CancelRow(r)
      PROVE  UNCHANGED <<notifications, audit, decider>>
  BY <1>6, InsertEffect, CancelEffect
<1>7. ASSUME NEW r \in Requests, InsertPending(r), b # r
      PROVE  bookings'[b] = bookings[b]
  BY <1>0, <1>7, InsertEffect
<1>8. ASSUME NEW r \in Requests, CancelRow(r), ~Exists(b)
      PROVE  bookings'[b] = bookings[b]
  BY <1>0, <1>8, CancelEffect
<1>9. ASSUME NEW r \in Requests, Commit(r),
             ~ /\ b = Target(r) /\ bookings' = [bookings EXCEPT ![b] = WrittenRow(r)]
               /\ decider' = [decider EXCEPT ![b] = r]
      PROVE  /\ bookings'[b] = bookings[b] /\ decider'[b] = decider[b]
             /\ notifications \subseteq notifications' /\ audit \subseteq audit'
  BY <1>0, <1>9, CommitEffect
<1>10. ASSUME NEW r \in Requests, CancelRow(r), Exists(b), bookings'[b] # bookings[b]
       PROVE  /\ bookings'[b].status = "cancelled"
              /\ bookings'[b].member = bookings[b].member
              /\ bookings'[b].reviewedBy = bookings[b].reviewedBy
  BY <1>0, <1>3, <1>10 DEF Rows
<1>11. CASE \E r \in Requests : CancelRow(r)
  BY <1>5, <1>6, <1>8, <1>10, <1>11 DEF DecisionIsAccounted
<1>12. CASE \E r \in Requests : InsertPending(r)
  BY <1>2, <1>5, <1>6, <1>7, <1>12
<1>13. CASE \E r \in Requests : Commit(r)
  BY <1>4, <1>5, <1>9, <1>13
<1> QED
  BY <1>1, <1>11, <1>12, <1>13, WhatChanges

LEMMA SignedStep == Inv /\ Past /\ SignedByApprover /\ [Next]_vars => SignedByApprover'
<1> SUFFICES ASSUME Inv, Past, SignedByApprover, [Next]_vars, NEW a \in audit'
             PROVE  \/ /\ a.action = "booking.auto_confirmed"
                       /\ bookings'[a.booking].facility \in AutoConfirm
                    \/ a.actor \in Permitted \cap Approvers
  BY DEF SignedByApprover
<1>1. CASE a \in audit
  <2>1. a.booking \in BookingIds /\ Exists(a.booking)
    BY <1>1 DEF Inv, TypeOK, AuditRows, Past
  <2>2. bookings[a.booking] \in Rows /\ RowMove(bookings[a.booking], bookings'[a.booking])
    BY <2>1, RowStep DEF Inv, TypeOK, Exists
  <2>3. bookings'[a.booking].facility = bookings[a.booking].facility
    BY <2>1, <2>2 DEF RowMove, Rows, Exists
  <2> QED
    BY <1>1, <2>3 DEF SignedByApprover
<1>2. CASE a \notin audit
  <2>1. PICK r \in Requests : Commit(r) /\ a = AuditRecord(r)
    <3>1. UNCHANGED database => audit' = audit
      BY DEF database
    <3> QED
      BY <1>2, <3>1, WhatChanges, InsertEffect, CancelEffect, CommitEffect
  <2>2. pc[r] \in Tail /\ call[r].op \in {"book", "approve", "reject"}
    BY <2>1, CommitEffect DEF Commit, Tail
  <2>3. CASE call[r].op = "book"
    <3>1. bookings'[r] = NewRow(call[r], "confirmed")
      BY <2>1, <2>3, CommitEffect DEF Inv, TypeOK, Target, WrittenRow
    <3>2. call[r].facility \in AutoConfirm
      BY <2>2, <2>3 DEF Inv, Learnt
    <3> QED
      BY <2>1, <2>3, <3>1, <3>2 DEF AuditRecord, Action, Target, NewRow
  <2>4. CASE call[r].op # "book"
    BY <2>1, <2>2, <2>4 DEF AuditRecord, Actor, Inv, Learnt
  <2> QED
    BY <2>3, <2>4
<1> QED
  BY <1>1, <1>2

LEMMA InitPast == Init => Past /\ DecisionIsAccounted /\ SignedByApprover
BY SeedAssumption, NoneAssumption
   DEF Init, Past, DecisionIsAccounted, AccountedFor, Decided, SignedByApprover, Exists

\* However the handlers interleave, a row only ever makes one of its moves.
THEOREM MovesHold == Spec => StatusMoves
<1>1. Inv /\ [Next]_vars => [\A b \in BookingIds : RowMove(bookings[b], bookings'[b])]_vars
  BY RowStep
<1> QED
  BY <1>1, InvHolds, PTL DEF Spec, StatusMoves

LEMMA PastHolds == Spec => [](Inv /\ Past)
<1> QED
  BY InvHolds, InitPast, PastStep, PTL DEF Spec

\* A decision never lacks its notification or its audit record.
THEOREM AccountHolds == Spec => []DecisionIsAccounted
<1> QED
  BY PastHolds, InitPast, AccountStep, PTL DEF Spec

\* Nobody but an approver of the deployment settles a booking.
THEOREM SignedHolds == Spec => []SignedByApprover
<1> QED
  BY PastHolds, InitPast, SignedStep, PTL DEF Spec

----------------------------------------------------------------------------
(* Double bookings.                                                        *)

\* The booking r is about to confirm.
Candidate(r) == IF call[r].op = "book" THEN call[r] ELSE bookings[call[r].id]

\* From its check on, a handler's candidate overlaps no booking it saw confirmed.
HandlerChecked(r) ==
    /\ \A c \in base[r] : /\ Exists(c)
                          /\ bookings[c].status \in {"confirmed", "cancelled"}
    /\ \/ pc[r] = "create"
       \/ pc[r] \in Tail /\ call[r].op = "book"
       \/ pc[r] \in {"update"} \cup Tail /\ call[r].op = "approve"
       => \A c \in base[r] : c # Target(r) => ~Overlaps(bookings[c], Candidate(r))

HandlersChecked == \A r \in Requests : HandlerChecked(r)

ConfirmedChecked ==
    \A b \in Confirmed : \A c \in base[decider[b]] :
        c # b => ~Overlaps(bookings[c], bookings[b])

\* What no step takes from a booking.
Kept(b) == /\ bookings'[b] # None
           /\ bookings'[b].facility = bookings[b].facility
           /\ bookings'[b].slot = bookings[b].slot
           /\ bookings[b].status \in {"confirmed", "cancelled"}
                => bookings'[b].status \in {"confirmed", "cancelled"}

LEMMA KeepStep == Inv /\ [Next]_vars => \A b \in BookingIds : Exists(b) => Kept(b)
<1> SUFFICES ASSUME Inv, [Next]_vars, NEW b \in BookingIds, Exists(b) PROVE Kept(b)
  OBVIOUS
<1>1. RowMove(bookings[b], bookings'[b]) /\ bookings[b] \in Rows
  BY RowStep DEF Inv, TypeOK, Exists
<1> QED
  BY <1>1, NoneAssumption, StaffAssumption DEF RowMove, Kept, Exists, Rows, Statuses

\* A handler reaches its writes only through its check.
CarriesOn(r) ==
    /\ base'[r] = base[r] /\ call'[r] = call[r]
    /\ pc'[r] = "create" => pc[r] = "create"
    /\ pc'[r] \in Tail => pc[r] \in {"create", "update"} \cup Tail
    /\ pc'[r] = "update" /\ call[r].op = "approve" => pc[r] = "update"

LEMMA HowHandlersMove == Inv /\ [Next]_vars => \A q \in Requests : CarriesOn(q) \/ Arrive(q) \/ Recheck(q) \/ CheckClash(q)
<1> SUFFICES ASSUME Inv, [Next]_vars PROVE \A q \in Requests : CarriesOn(q) \/ Arrive(q) \/ Recheck(q) \/ CheckClash(q)
  OBVIOUS
<1> USE DEF Inv, TypeOK, CallMatchesStep, CarriesOn, Tail
<1>1. ASSUME NEW r \in Requests, Arrive(r) PROVE \A q \in Requests : CarriesOn(q) \/ Arrive(q) \/ Recheck(q) \/ CheckClash(q)
  BY <1>1 DEF Arrive, database
<1>2. ASSUME NEW r \in Requests, FindFacility(r) PROVE \A q \in Requests : CarriesOn(q) \/ Arrive(q) \/ Recheck(q) \/ CheckClash(q)
  BY <1>2 DEF FindFacility, Goto, Reply, NoTransaction, database
<1>3. ASSUME NEW r \in Requests, CheckClosure(r) PROVE \A q \in Requests : CarriesOn(q) \/ Arrive(q) \/ Recheck(q) \/ CheckClash(q)
  BY <1>3 DEF CheckClosure, Goto, Reply, NoTransaction, database
<1>4. ASSUME NEW r \in Requests, CheckSlot(r) PROVE \A q \in Requests : CarriesOn(q) \/ Arrive(q) \/ Recheck(q) \/ CheckClash(q)
  BY <1>4 DEF CheckSlot, Goto, Reply, NoTransaction, database
<1>5. ASSUME NEW r \in Requests, InsertPending(r) PROVE \A q \in Requests : CarriesOn(q) \/ Arrive(q) \/ Recheck(q) \/ CheckClash(q)
  BY <1>5 DEF InsertPending, Reply, NoTransaction, NewRow
<1>6. ASSUME NEW r \in Requests, Recheck(r) PROVE \A q \in Requests : CarriesOn(q) \/ Arrive(q) \/ Recheck(q) \/ CheckClash(q)
  <2>1. \A q \in Requests : q # r => CarriesOn(q)
    BY <1>6 DEF Recheck, Goto, Reply, EndTransaction, NoTransaction, database
  <2> QED
    BY <1>6, <2>1
<1>7. ASSUME NEW r \in Requests, CreateConfirmed(r) PROVE \A q \in Requests : CarriesOn(q) \/ Arrive(q) \/ Recheck(q) \/ CheckClash(q)
  BY <1>7 DEF CreateConfirmed, Goto, database
<1>8. ASSUME NEW r \in Requests, Authorize(r) PROVE \A q \in Requests : CarriesOn(q) \/ Arrive(q) \/ Recheck(q) \/ CheckClash(q)
  BY <1>8 DEF Authorize, Goto, Reply, NoTransaction, database
<1>9. ASSUME NEW r \in Requests, ReadForReview(r) PROVE \A q \in Requests : CarriesOn(q) \/ Arrive(q) \/ Recheck(q) \/ CheckClash(q)
  BY <1>9 DEF ReadForReview, Goto, Reply, NoTransaction, database
<1>10. ASSUME NEW r \in Requests, CheckClash(r) PROVE \A q \in Requests : CarriesOn(q) \/ Arrive(q) \/ Recheck(q) \/ CheckClash(q)
  BY <1>10 DEF CheckClash, Goto, Reply, NoTransaction, database
<1>11. ASSUME NEW r \in Requests, UpdateStatus(r) PROVE \A q \in Requests : CarriesOn(q) \/ Arrive(q) \/ Recheck(q) \/ CheckClash(q)
  BY <1>11 DEF UpdateStatus, Goto, database
<1>12. ASSUME NEW r \in Requests, CreateNotification(r) PROVE \A q \in Requests : CarriesOn(q) \/ Arrive(q) \/ Recheck(q) \/ CheckClash(q)
  BY <1>12 DEF CreateNotification, Goto, database
<1>13. ASSUME NEW r \in Requests, RecordAudit(r) PROVE \A q \in Requests : CarriesOn(q) \/ Arrive(q) \/ Recheck(q) \/ CheckClash(q)
  BY <1>13 DEF RecordAudit, Goto, database
<1>14. ASSUME NEW r \in Requests, Commit(r) PROVE \A q \in Requests : CarriesOn(q) \/ Arrive(q) \/ Recheck(q) \/ CheckClash(q)
  BY <1>14 DEF Commit, Reply, EndTransaction
<1>15. ASSUME NEW r \in Requests, ReadForCancel(r) PROVE \A q \in Requests : CarriesOn(q) \/ Arrive(q) \/ Recheck(q) \/ CheckClash(q)
  BY <1>15 DEF ReadForCancel, Goto, Reply, NoTransaction, database
<1>16. ASSUME NEW r \in Requests, CancelRow(r) PROVE \A q \in Requests : CarriesOn(q) \/ Arrive(q) \/ Recheck(q) \/ CheckClash(q)
  BY <1>16 DEF CancelRow, Reply, NoTransaction
<1>17. ASSUME NEW r \in Requests, Fail(r) PROVE \A q \in Requests : CarriesOn(q) \/ Arrive(q) \/ Recheck(q) \/ CheckClash(q)
  BY <1>17 DEF Fail, Reply, EndTransaction, database, InFlight
<1>18. ASSUME Crash PROVE \A q \in Requests : CarriesOn(q) \/ Arrive(q) \/ Recheck(q) \/ CheckClash(q)
  BY <1>18 DEF Crash, database, InFlight
<1>19. ASSUME UNCHANGED vars PROVE \A q \in Requests : CarriesOn(q) \/ Arrive(q) \/ Recheck(q) \/ CheckClash(q)
  BY <1>19 DEF vars
<1> QED
  BY <1>1, <1>2, <1>3, <1>4, <1>5, <1>6, <1>7, <1>8, <1>9, <1>10, <1>11, <1>12, <1>13, <1>14, <1>15, <1>16, <1>17, <1>18, <1>19 DEF Next, Statement, Finished

\* It keeps what it checked.
LEMMA CheckedStays ==
  ASSUME Inv, [Next]_vars, NEW r \in Requests, HandlerChecked(r),
         CarriesOn(r)
  PROVE  HandlerChecked(r)'
<1> USE DEF CarriesOn
<1>1. \A b \in BookingIds : Exists(b) => Kept(b)
  BY KeepStep
<1>2. base[r] \subseteq BookingIds
  BY DEF Inv, TypeOK
<1>3. \A c \in base[r] : bookings'[c] # None /\ bookings'[c].status \in {"confirmed", "cancelled"}
  BY <1>1, <1>2 DEF HandlerChecked, Kept
<1>4. ASSUME \/ pc'[r] = "create"
             \/ pc'[r] \in Tail /\ call[r].op = "book"
             \/ pc'[r] \in {"update"} \cup Tail /\ call[r].op = "approve",
             NEW c \in base[r], c # Target(r)
      PROVE  ~Overlaps(bookings[c], Candidate(r))
  BY <1>4 DEF HandlerChecked, Inv, CallMatchesStep, Tail
<1>5. ASSUME \/ pc'[r] = "create"
             \/ pc'[r] \in Tail /\ call[r].op = "book"
             \/ pc'[r] \in {"update"} \cup Tail /\ call[r].op = "approve"
      PROVE  /\ Candidate(r)'.facility = Candidate(r).facility
             /\ Candidate(r)'.slot = Candidate(r).slot
  <2>1. CASE call[r].op = "book"
    BY <2>1 DEF Candidate
  <2>2. CASE call[r].op # "book"
    <3>1. Exists(call[r].id) /\ call[r].id \in BookingIds
      BY <1>5, <2>2, CallFields DEF Inv, CallMatchesStep, Learnt, Tail
    <3> QED
      BY <1>1, <2>2, <3>1 DEF Candidate, Kept
  <2> QED
    BY <2>1, <2>2
<1>6. ASSUME \/ pc'[r] = "create"
             \/ pc'[r] \in Tail /\ call[r].op = "book"
             \/ pc'[r] \in {"update"} \cup Tail /\ call[r].op = "approve",
             NEW c \in base[r], c # Target(r)
      PROVE  ~Overlaps(bookings'[c], Candidate(r)')
  <2>1. /\ bookings'[c].facility = bookings[c].facility
        /\ bookings'[c].slot = bookings[c].slot
    BY <1>1, <1>2, <1>6 DEF HandlerChecked, Kept
  <2> QED
    BY <1>4, <1>5, <1>6, <2>1 DEF Overlaps
<1>7. Target(r)' = Target(r)
  BY DEF Target
<1> QED
  BY <1>3, <1>6, <1>7 DEF HandlerChecked, Exists

LEMMA CheckedStep == Inv /\ HandlersChecked /\ [Next]_vars => HandlersChecked'
<1> SUFFICES ASSUME Inv, HandlersChecked, [Next]_vars, NEW r \in Requests
             PROVE  HandlerChecked(r)'
  BY DEF HandlersChecked
<1>1. CASE CarriesOn(r)
  BY <1>1, CheckedStays DEF HandlersChecked
<1>2. CASE Arrive(r)
  <2>1. /\ base' = base /\ bookings' = bookings
        /\ pc'[r] \in {"facility", "own", "authorize"}
    BY <1>2 DEF Arrive, database, Inv, TypeOK
  <2> QED
    BY <2>1 DEF HandlersChecked, HandlerChecked, Exists, Tail
<1>3. ASSUME base'[r] = Confirmed, bookings' = bookings, call' = call,
             \A b \in Confirmed : b # Target(r) => ~Overlaps(bookings[b], Candidate(r))
      PROVE  HandlerChecked(r)'
  <2>1. Candidate(r)' = Candidate(r) /\ Target(r)' = Target(r)
    BY <1>3 DEF Candidate, Target
  <2> QED
    BY <1>3, <2>1 DEF HandlerChecked, Confirmed, Exists
<1>4. CASE Recheck(r)
  <2>1. /\ base'[r] = Confirmed /\ bookings' = bookings /\ call' = call
        /\ call[r].op = "book"
    BY <1>4 DEF Recheck, Reply, Goto, database, Inv, TypeOK, CallMatchesStep
  <2>2. CASE FindOverlapping(call[r], {"confirmed"}) = {}
    BY <1>3, <2>1, <2>2 DEF FindOverlapping, Confirmed, Candidate
  <2>3. CASE FindOverlapping(call[r], {"confirmed"}) # {}
    <3>1. pc'[r] = "done"
      BY <1>4, <2>3 DEF Recheck, Reply, Inv, TypeOK
    <3> QED
      BY <2>1, <3>1 DEF HandlerChecked, Confirmed, Exists, Tail
  <2> QED
    BY <2>2, <2>3
<1>5. CASE CheckClash(r)
  <2>1. /\ base'[r] = Confirmed /\ bookings' = bookings /\ call' = call
        /\ call[r].op # "book"
    BY <1>5 DEF CheckClash, Reply, Goto, database, Inv, TypeOK, CallMatchesStep
  <2>2. CASE FindOverlapping(bookings[call[r].id], {"confirmed"}) \ {call[r].id} = {}
    BY <1>3, <2>1, <2>2 DEF FindOverlapping, Confirmed, Candidate, Target
  <2>3. CASE FindOverlapping(bookings[call[r].id], {"confirmed"}) \ {call[r].id} # {}
    <3>1. pc'[r] = "done"
      BY <1>5, <2>3 DEF CheckClash, Reply, Inv, TypeOK
    <3> QED
      BY <2>1, <3>1 DEF HandlerChecked, Confirmed, Exists, Tail
  <2> QED
    BY <2>2, <2>3
<1> QED
  BY <1>1, <1>2, <1>4, <1>5, HowHandlersMove

\* How a booking comes to be confirmed.
LEMMA HowConfirmed ==
  ASSUME Inv, [Next]_vars, NEW b \in Confirmed', b \notin Confirmed
  PROVE  \E r \in Requests :
           /\ Commit(r) /\ b = Target(r) /\ decider'[b] = r /\ base' = base
           /\ call[r].op \in {"book", "approve"}
           /\ bookings'[b].facility = Candidate(r).facility
           /\ bookings'[b].slot = Candidate(r).slot
<1> USE DEF Confirmed, Exists
<1>0. bookings \in [BookingIds -> Rows \cup {None}] /\ b \in DOMAIN decider
  BY DEF Inv, TypeOK
<1>1. ~ UNCHANGED database
  BY DEF database
<1>2. ~ \E r \in Requests : InsertPending(r)
  <2>1. ASSUME NEW r \in Requests, InsertPending(r) PROVE FALSE
    <3>1. bookings' = [bookings EXCEPT ![r] = NewRow(call[r], "pending")]
      BY <2>1, InsertEffect
    <3>2. bookings'[b] = bookings[b] \/ bookings'[b] = NewRow(call[r], "pending")
      BY <1>0, <3>1
    <3> QED
      BY <3>2 DEF NewRow
  <2> QED
    BY <2>1
<1>3. ~ \E r \in Requests : CancelRow(r)
  <2>1. ASSUME NEW r \in Requests, CancelRow(r) PROVE FALSE
    <3>1. \/ bookings' = bookings
          \/ /\ call[r].id \in BookingIds /\ bookings[call[r].id] \in Rows
             /\ bookings' = [bookings EXCEPT ![call[r].id].status = "cancelled"]
      BY <1>0, <2>1, CancelEffect
    <3> QED
      BY <1>0, <3>1 DEF Rows
  <2> QED
    BY <2>1
<1>4. PICK r \in Requests : Commit(r)
  BY <1>1, <1>2, <1>3, WhatChanges
<1>5. /\ b = Target(r) /\ bookings'[b] = WrittenRow(r) /\ decider'[b] = r
      /\ base' = base /\ call[r].op \in {"book", "approve", "reject"}
      /\ call[r].op # "book" => bookings[b] \in Rows
  BY <1>0, <1>4, CommitEffect
<1>6. CASE call[r].op = "book"
  BY <1>4, <1>5, <1>6 DEF WrittenRow, NewRow, Candidate
<1>7. CASE call[r].op # "book"
  <2>1. b = call[r].id
    BY <1>5, <1>7 DEF Target
  <2>2. WrittenRow(r) = [bookings[b] EXCEPT !.status = Verdict(call[r]),
                                            !.reviewedBy = call[r].staff]
    BY <1>7, <2>1 DEF WrittenRow
  <2>3. /\ WrittenRow(r).status = Verdict(call[r])
        /\ WrittenRow(r).facility = bookings[b].facility
        /\ WrittenRow(r).slot = bookings[b].slot
    BY <1>5, <1>7, <2>2 DEF Rows
  <2> QED
    BY <1>4, <1>5, <1>7, <2>1, <2>3 DEF Verdict, Candidate
<1> QED
  BY <1>6, <1>7

LEMMA ConfirmedStep ==
  Inv /\ Past /\ DecisionIsAccounted /\ HandlersChecked /\ ConfirmedChecked /\ [Next]_vars
    => ConfirmedChecked'
<1> SUFFICES ASSUME Inv, Past, DecisionIsAccounted, HandlersChecked, ConfirmedChecked, [Next]_vars,
                    NEW b \in Confirmed', NEW c \in base'[decider'[b]], c # b
             PROVE  ~Overlaps(bookings'[c], bookings'[b])
  BY DEF ConfirmedChecked
<1>0. /\ \A x \in BookingIds : Exists(x) => Kept(x)
      /\ b \in BookingIds
  BY KeepStep DEF Confirmed
<1>1. CASE b \in Confirmed
  <2>1. decider[b] # None /\ decider[b] \in Requests
    BY <1>1 DEF DecisionIsAccounted, AccountedFor, Decided, Confirmed, Inv, TypeOK
  <2>2. decider'[b] = decider[b]
    <3>1. ASSUME NEW r \in Requests, Commit(r) PROVE decider'[b] = decider[b]
      BY <1>0, <1>1, <3>1, CommitEffect DEF Confirmed, Exists, Inv, TypeOK
    <3> QED
      BY <3>1, WhatChanges, InsertEffect, CancelEffect DEF database
  <2>3. base'[decider[b]] = base[decider[b]]
    BY <1>0, <2>1, DoneStays DEF Past, Unmoved
  <2>4. Exists(c) /\ c \in BookingIds /\ Exists(b)
    BY <1>1, <2>1, <2>2, <2>3 DEF HandlersChecked, HandlerChecked, Inv, TypeOK, Confirmed
  <2>5. ~Overlaps(bookings[c], bookings[b])
    BY <1>1, <2>2, <2>3 DEF ConfirmedChecked
  <2> QED
    BY <1>0, <2>4, <2>5 DEF Overlaps, Kept
<1>2. CASE b \notin Confirmed
  <2>1. PICK r \in Requests :
          /\ Commit(r) /\ b = Target(r) /\ decider'[b] = r /\ base' = base
          /\ call[r].op \in {"book", "approve"}
          /\ bookings'[b].facility = Candidate(r).facility
          /\ bookings'[b].slot = Candidate(r).slot
    BY <1>2, HowConfirmed
  <2>2. pc[r] \in Tail
    BY <2>1 DEF Commit, Tail
  <2>3. ~Overlaps(bookings[c], Candidate(r)) /\ Exists(c) /\ c \in BookingIds
    BY <2>1, <2>2 DEF HandlersChecked, HandlerChecked, Inv, TypeOK
  <2> QED
    BY <1>0, <2>1, <2>3 DEF Overlaps, Kept
<1> QED
  BY <1>1, <1>2

LEMMA OverlapsSymmetric ==
  ASSUME NEW a \in Rows, NEW b \in Rows, Overlaps(a, b)
  PROVE  Overlaps(b, a)
BY SlotAssumption DEF Rows, Overlaps

LEMMA CheckedHolds ==
  Spec => [](Inv /\ Past /\ DecisionIsAccounted /\ HandlersChecked /\ ConfirmedChecked)
<1>1. Init => HandlersChecked /\ ConfirmedChecked
  BY SeedAssumption DEF Init, HandlersChecked, HandlerChecked, ConfirmedChecked, Confirmed,
                        Exists, Tail
<1> QED
  BY <1>1, PastHolds, AccountHolds, CheckedStep, ConfirmedStep, PTL DEF Spec

\* Double booking takes two confirming handlers, each of which looked for a
\* clash before the other committed.
THEOREM OverlapNeeded == Spec => []DoubleBookingNeedsOverlap
<1>1. Inv /\ DecisionIsAccounted /\ HandlersChecked /\ ConfirmedChecked => DoubleBookingNeedsOverlap
  <2> SUFFICES ASSUME Inv, DecisionIsAccounted, HandlersChecked, ConfirmedChecked,
                      NEW b \in BookingIds, NEW c \in BookingIds, DoubleBooked(b, c)
               PROVE  b \notin base[decider[c]] /\ c \notin base[decider[b]]
    BY DEF DoubleBookingNeedsOverlap
  <2>1. bookings[b] \in Rows /\ bookings[c] \in Rows
    BY DEF DoubleBooked, Confirmed, Exists, Inv, TypeOK
  <2>2. Overlaps(bookings[b], bookings[c]) /\ Overlaps(bookings[c], bookings[b])
    BY <2>1, OverlapsSymmetric DEF DoubleBooked
  <2> QED
    BY <2>2 DEF DoubleBooked, ConfirmedChecked
<1> QED
  BY <1>1, CheckedHolds, PTL

----------------------------------------------------------------------------
(* The handlers implement the ledger.                                      *)

LEMMA LedgerInit == Init => Ledger!Init
BY DEF Init, Ledger!Init

LEMMA LedgerStep == Inv /\ Past /\ [Next]_vars => [Ledger!Next]_(Ledger!vars)
<1> SUFFICES ASSUME Inv, Past, [Next]_vars PROVE Ledger!Next \/ UNCHANGED Ledger!vars
  OBVIOUS
<1> USE DEF Ledger!vars
<1>0. \A r \in Requests : r \in BookingIds
  BY DEF BookingIds
<1>1. CASE UNCHANGED database
  BY <1>1 DEF database
<1>2. ASSUME NEW r \in Requests, InsertPending(r) PROVE Ledger!Ask(r)
  <2>1. PICK w \in [facility : Facilities, slot : Slots, member : Members] :
          /\ w.facility = call[r].facility /\ w.slot = call[r].slot
          /\ w.member = call[r].member
    <3>1. [facility |-> call[r].facility, slot |-> call[r].slot, member |-> call[r].member]
            \in [facility : Facilities, slot : Slots, member : Members]
      BY <1>2, InsertEffect
    <3> QED
      BY <3>1
  <2>2. Ledger!Booking(w, "pending") = NewRow(call[r], "pending")
    BY <2>1 DEF Ledger!Booking, NewRow
  <2> QED
    BY <1>2, <2>1, <2>2, InsertEffect DEF Ledger!Ask
<1>3. ASSUME NEW r \in Requests, CancelRow(r)
      PROVE  (Ledger!GiveUp(call[r].id) /\ call[r].id \in BookingIds) \/ UNCHANGED Ledger!vars
  BY <1>3, CancelEffect DEF Ledger!GiveUp, Exists, Cancellable
<1>4. ASSUME NEW r \in Requests, Commit(r)
      PROVE  \/ Ledger!Confirm(r, Target(r)) \/ Ledger!Settle(r, Target(r))
             \/ Ledger!Overrule(r, Target(r))
  <2>1. Ledger!Fresh(r)
    BY <1>4 DEF Commit, Past, Ledger!Fresh
  <2>2. pc[r] \in Tail /\ call[r] \in Calls
    BY <1>4, CommitEffect DEF Commit, Tail
  <2>3. CASE call[r].op = "book"
    <3>1. PICK w \in [facility : Facilities, slot : Slots, member : Members] :
            /\ w.facility = call[r].facility /\ w.slot = call[r].slot
            /\ w.member = call[r].member
      <4>1. [facility |-> call[r].facility, slot |-> call[r].slot, member |-> call[r].member]
              \in [facility : Facilities, slot : Slots, member : Members]
        BY <2>2, <2>3, CallFields
      <4> QED
        BY <4>1
    <3>2. Ledger!Booking(w, "confirmed") = WrittenRow(r)
      BY <2>3, <3>1 DEF Ledger!Booking, WrittenRow, NewRow
    <3>3. w.facility \in AutoConfirm
      BY <2>2, <2>3, <3>1 DEF Inv, Learnt
    <3>4. Ledger!Record(r, Target(r), "confirmed", w.member, "booking.auto_confirmed", w.member)
      <4>1. /\ Notification(r) = [by |-> r, booking |-> Target(r), says |-> "confirmed",
                                 member |-> w.member]
            /\ AuditRecord(r) = [by |-> r, booking |-> Target(r),
                                 action |-> "booking.auto_confirmed", actor |-> w.member]
        BY <2>3, <3>1 DEF Notification, AuditRecord, Verdict, Action, Actor, WrittenRow, NewRow
      <4> QED
        BY <1>4, <2>1, <4>1, CommitEffect DEF Ledger!Record
    <3>5. bookings[Target(r)] = None /\ bookings' = [bookings EXCEPT ![Target(r)] = WrittenRow(r)]
      BY <1>4, <2>3, CommitEffect
    <3>6. Ledger!Confirm(r, Target(r))
      BY <3>1, <3>2, <3>3, <3>4, <3>5 DEF Ledger!Confirm
    <3> QED
      BY <3>6
  <2>4. CASE call[r].op # "book"
    <3> DEFINE u == call[r].staff
               v == <<Verdict(call[r]), Action(call[r])>>
    <3>1. /\ call[r].op \in {"approve", "reject"} /\ u \in Permitted \cap Approvers
          /\ Target(r) = call[r].id
      BY <1>4, <2>2, <2>4, CommitEffect DEF Inv, Learnt, Target
    <3>2. v \in Ledger!Verdicts
      BY <3>1 DEF Ledger!Verdicts, Verdict, Action
    <3>3. bookings[Target(r)] # None /\ bookings[Target(r)] \in Rows
      BY <1>4, <2>4, CommitEffect DEF Exists, Inv, TypeOK
    <3>4. WrittenRow(r) = [bookings[Target(r)] EXCEPT !.status = v[1], !.reviewedBy = u]
      BY <2>4, <3>1 DEF WrittenRow
    <3>5. Ledger!Record(r, Target(r), v[1], bookings[Target(r)].member, v[2], u)
      <4>1. WrittenRow(r).member = bookings[Target(r)].member
        BY <3>3, <3>4 DEF Rows
      <4>2. /\ Notification(r) = [by |-> r, booking |-> Target(r), says |-> v[1],
                                 member |-> bookings[Target(r)].member]
            /\ AuditRecord(r) = [by |-> r, booking |-> Target(r), action |-> v[2], actor |-> u]
        BY <2>4, <4>1 DEF Notification, AuditRecord, Actor
      <4> QED
        BY <1>4, <2>1, <4>2, CommitEffect DEF Ledger!Record
    <3>6. CASE bookings' = [bookings EXCEPT ![Target(r)] = WrittenRow(r)]
               /\ bookings[Target(r)].status = "pending"
      <4>1. bookings' = [bookings EXCEPT ![Target(r)].status = v[1], ![Target(r)].reviewedBy = u]
        BY <3>3, <3>4, <3>6 DEF Inv, TypeOK
      <4> QED
        BY <3>1, <3>2, <3>3, <3>5, <3>6, <4>1 DEF Ledger!Settle
    <3>7. CASE UNCHANGED bookings /\ bookings[Target(r)].status # "pending"
      BY <3>1, <3>2, <3>3, <3>5, <3>7 DEF Ledger!Overrule
    <3>8. \/ bookings[Target(r)].status = "pending"
             /\ bookings' = [bookings EXCEPT ![Target(r)] = WrittenRow(r)]
          \/ bookings[Target(r)].status # "pending" /\ UNCHANGED bookings
      BY <1>4, <2>4, CommitEffect
    <3> QED
      BY <3>6, <3>7, <3>8
  <2> QED
    BY <2>3, <2>4
<1>5. \A r \in Requests : Commit(r) => Target(r) \in BookingIds
  BY CommitEffect
<1> QED
  BY <1>0, <1>1, <1>2, <1>3, <1>4, <1>5, WhatChanges DEF Ledger!Next

\* The concurrent handlers implement the ledger of atomic operations.
THEOREM LedgerHolds == Spec => ImplementsLedger
<1> QED
  BY LedgerInit, LedgerStep, PastHolds, PTL DEF Spec, ImplementsLedger, Ledger!Spec

----------------------------------------------------------------------------
(* Whoever is told `ok' can rely on it.                                    *)

\* What the client of r was told when it was told `ok'.
Settled(r) ==
    CASE call[r].op = "book"   -> Exists(r)
      [] call[r].op = "cancel" -> bookings[call[r].id].status \notin Cancellable
      [] OTHER -> /\ bookings[call[r].id].status # "pending"
                  /\ AuditRecord(r) \in audit

\* A client is told `ok' at the end of its handler, about a booking that is there.
ToldOk(r) == answer[r] = "ok" => /\ pc[r] = "done" /\ Settled(r)
                                 /\ call[r].op # "book" => Exists(call[r].id)
AllToldOk == \A r \in Requests : ToldOk(r)

\* Only the three statements that change a table end with `ok'.
LEMMA HowToldOk ==
  ASSUME Inv, [Next]_vars, NEW q \in Requests, answer'[q] = "ok", answer[q] # "ok"
  PROVE  InsertPending(q) \/ Commit(q) \/ CancelRow(q)
<1> DEFINE G == InsertPending(q) \/ Commit(q) \/ CancelRow(q)
<1> USE DEF Inv, TypeOK, Goto, Reply
<1>1. ASSUME NEW r \in Requests, Arrive(r) \/ Fail(r) PROVE G
  BY <1>1 DEF Arrive, Fail
<1>2. ASSUME NEW r \in Requests, FindFacility(r) \/ CheckClosure(r) \/ CheckSlot(r) PROVE G
  BY <1>2 DEF FindFacility, CheckClosure, CheckSlot
<1>3. ASSUME NEW r \in Requests, Recheck(r) \/ CreateConfirmed(r) \/ Authorize(r) PROVE G
  BY <1>3 DEF Recheck, CreateConfirmed, Authorize
<1>4. ASSUME NEW r \in Requests, ReadForReview(r) \/ CheckClash(r) \/ UpdateStatus(r) PROVE G
  BY <1>4 DEF ReadForReview, CheckClash, UpdateStatus
<1>5. ASSUME NEW r \in Requests, CreateNotification(r) \/ RecordAudit(r) \/ ReadForCancel(r)
      PROVE  G
  BY <1>5 DEF CreateNotification, RecordAudit, ReadForCancel
<1>6. ASSUME NEW r \in Requests, InsertPending(r) \/ Commit(r) \/ CancelRow(r) PROVE G
  <2>1. \E a \in {"ok", "error"} : answer' = [answer EXCEPT ![r] = a]
    BY <1>6 DEF InsertPending, Commit, CancelRow
  <2>2. q = r
    BY <2>1
  <2> QED
    BY <1>6, <2>2
<1>7. CASE Crash
  BY <1>7 DEF Crash
<1>8. CASE UNCHANGED vars
  BY <1>8 DEF vars
<1> QED
  BY <1>1, <1>2, <1>3, <1>4, <1>5, <1>6, <1>7, <1>8 DEF Next, Statement, Finished

\* What a client was told stays true: rows never go back, and the audit trail
\* only grows.
LEMMA ToldStays ==
  ASSUME Inv, [Next]_vars, NEW q \in Requests, ToldOk(q), answer[q] = "ok"
  PROVE  ToldOk(q)'
<1>1. pc[q] = "done" /\ Settled(q) /\ (call[q].op # "book" => Exists(call[q].id))
  BY DEF ToldOk
<1>2. Unmoved(q) /\ call[q] \in Calls
  BY <1>1, DoneStays DEF Inv, CallMatchesStep
<1>3. audit \subseteq audit'
  <2>1. UNCHANGED database => audit' = audit
    BY DEF database
  <2> QED
    BY <2>1, WhatChanges, InsertEffect, CancelEffect, CommitEffect
<1>4. AuditRecord(q)' = AuditRecord(q)
  BY <1>2 DEF Unmoved, AuditRecord, Target, Action, Actor
<1>5. ASSUME NEW b \in BookingIds, Exists(b)
      PROVE  /\ bookings'[b] # None
             /\ bookings[b].status # "pending" => bookings'[b].status # "pending"
             /\ bookings[b].status \notin Cancellable => bookings'[b].status \notin Cancellable
  <2>1. RowMove(bookings[b], bookings'[b]) /\ bookings[b] \in Rows
    BY <1>5, RowStep DEF Inv, TypeOK, Exists
  <2> QED
    BY <1>5, <2>1, NoneAssumption, StaffAssumption DEF RowMove, Exists, Rows, Statuses, Cancellable
<1>6. CASE call[q].op = "book"
  <2>1. q \in BookingIds /\ bookings'[q] # None
    BY <1>1, <1>5, <1>6 DEF Settled, BookingIds
  <2> QED
    BY <1>1, <1>2, <1>6, <2>1 DEF ToldOk, Settled, Unmoved, Exists
<1>7. CASE call[q].op # "book"
  <2>1. call[q].id \in BookingIds /\ Exists(call[q].id)
    BY <1>1, <1>2, <1>7, CallFields
  <2>2. /\ bookings'[call[q].id] # None
        /\ bookings[call[q].id].status # "pending" => bookings'[call[q].id].status # "pending"
        /\ bookings[call[q].id].status \notin Cancellable
             => bookings'[call[q].id].status \notin Cancellable
    BY <1>5, <2>1
  <2> QED
    BY <1>1, <1>2, <1>3, <1>4, <1>7, <2>2 DEF ToldOk, Settled, Unmoved, Exists
<1> QED
  BY <1>6, <1>7

\* What the statement that ends with `ok' did.
LEMMA ToldNow ==
  ASSUME Inv, [Next]_vars, NEW q \in Requests, InsertPending(q) \/ Commit(q) \/ CancelRow(q)
  PROVE  ToldOk(q)'
<1>0. /\ q \in BookingIds /\ bookings \in [BookingIds -> Rows \cup {None}]
      /\ pc'[q] = "done" /\ call' = call
  BY DEF Inv, TypeOK, BookingIds, InsertPending, Commit, CancelRow, Reply
<1>1. CASE InsertPending(q)
  <2>1. call[q].op = "book" /\ bookings'[q] # None
    BY <1>0, <1>1, InsertEffect, NoneAssumption DEF InsertPending, Inv, CallMatchesStep
  <2> QED
    BY <1>0, <2>1 DEF ToldOk, Settled, Exists
<1>2. CASE CancelRow(q)
  <2>1. call[q] \in Calls /\ call[q].op = "cancel" /\ Exists(call[q].id)
    BY <1>2 DEF CancelRow, Inv, CallMatchesStep, Learnt
  <2>2. call[q].id \in BookingIds /\ bookings[call[q].id] \in Rows
    BY <1>0, <2>1, CallFields DEF Exists
  <2>3. bookings'[call[q].id] # None /\ bookings'[call[q].id].status \notin Cancellable
    BY <1>0, <1>2, <2>1, <2>2, NoneAssumption DEF CancelRow, Rows, Statuses, Cancellable, Exists
  <2> QED
    BY <1>0, <2>1, <2>3 DEF ToldOk, Settled, Exists
<1>3. CASE Commit(q)
  <2>1. /\ call[q].op \in {"book", "approve", "reject"} /\ AuditRecord(q) \in audit'
        /\ Target(q) \in BookingIds /\ bookings'[Target(q)] # None
    BY <1>0, <1>3, CommitEffect, NoneAssumption DEF Exists
  <2>2. AuditRecord(q)' = AuditRecord(q)
    BY <1>0 DEF AuditRecord, Target, Action, Actor
  <2>3. CASE call[q].op = "book"
    BY <1>0, <2>1, <2>3 DEF ToldOk, Settled, Exists, Target
  <2>4. CASE call[q].op # "book"
    <3>1. Target(q) = call[q].id
      BY <2>4 DEF Target
    <3>2. bookings[Target(q)] \in Rows
      BY <1>0, <1>3, <2>4, CommitEffect DEF Exists
    <3>3. WrittenRow(q).status = Verdict(call[q])
      BY <2>4, <3>1, <3>2 DEF WrittenRow, Rows
    <3>4. bookings'[Target(q)].status # "pending"
      BY <1>0, <1>3, <2>1, <3>3, CommitEffect DEF Verdict
    <3> QED
      BY <1>0, <2>1, <2>2, <2>4, <3>1, <3>4 DEF ToldOk, Settled, Exists
  <2> QED
    BY <2>3, <2>4
<1> QED
  BY <1>1, <1>2, <1>3

\* A booking's creation, decision or cancellation that a client was told of holds
\* in every later state, whatever other handlers do.
THEOREM OkHolds == Spec => []OkIsSettled
<1>1. Init => AllToldOk
  BY DEF Init, AllToldOk, ToldOk
<1>2. Inv /\ AllToldOk /\ [Next]_vars => AllToldOk'
  <2> SUFFICES ASSUME Inv, AllToldOk, [Next]_vars, NEW q \in Requests PROVE ToldOk(q)'
    BY DEF AllToldOk
  <2>1. CASE answer'[q] # "ok"
    BY <2>1 DEF ToldOk
  <2>2. CASE answer[q] = "ok"
    BY <2>2, ToldStays DEF AllToldOk
  <2>3. CASE answer'[q] = "ok" /\ answer[q] # "ok"
    BY <2>3, HowToldOk, ToldNow
  <2> QED
    BY <2>1, <2>2, <2>3
<1>3. AllToldOk => OkIsSettled
  BY DEF AllToldOk, ToldOk, Settled, OkIsSettled
<1> QED
  BY <1>1, <1>2, <1>3, InvHolds, PTL DEF Spec

----------------------------------------------------------------------------
(* One request at a time.                                                  *)

AtMostOne == \A q, r \in InFlight : q = r

LEMMA OneStep ==
  ASSUME MaxInFlight = 1
  PROVE  Inv /\ AtMostOne /\ [Next]_vars => AtMostOne'
<1> SUFFICES ASSUME Inv /\ AtMostOne, [Next]_vars PROVE AtMostOne'
  OBVIOUS
<1> USE DEF Inv, TypeOK, AtMostOne, InFlight
<1>1. ASSUME NEW r \in Requests, Arrive(r) PROVE AtMostOne'
  <2>1. InFlight = {}
    <3>1. IsFiniteSet(InFlight)
      BY RequestAssumption, FS_Subset DEF InFlight
    <3>2. Cardinality(InFlight) \in Nat /\ Cardinality(InFlight) < 1
      BY <1>1, <3>1, FS_CardinalityType DEF Arrive
    <3>3. Cardinality(InFlight) = 0
      BY <3>2
    <3> QED
      BY <3>1, <3>3, FS_EmptySet
  <2> QED
    BY <1>1, <2>1 DEF Arrive
<1>2. ASSUME NEW r \in Requests, FindFacility(r) PROVE AtMostOne'
  BY <1>2 DEF FindFacility, Goto, Reply, NoTransaction, database
<1>3. ASSUME NEW r \in Requests, CheckClosure(r) PROVE AtMostOne'
  BY <1>3 DEF CheckClosure, Goto, Reply, NoTransaction, database
<1>4. ASSUME NEW r \in Requests, CheckSlot(r) PROVE AtMostOne'
  BY <1>4 DEF CheckSlot, Goto, Reply, NoTransaction, database
<1>5. ASSUME NEW r \in Requests, InsertPending(r) PROVE AtMostOne'
  BY <1>5 DEF InsertPending, Reply, NoTransaction, NewRow
<1>6. ASSUME NEW r \in Requests, Recheck(r) PROVE AtMostOne'
  BY <1>6 DEF Recheck, Goto, Reply, EndTransaction, NoTransaction, database
<1>7. ASSUME NEW r \in Requests, CreateConfirmed(r) PROVE AtMostOne'
  BY <1>7 DEF CreateConfirmed, Goto, database
<1>8. ASSUME NEW r \in Requests, Authorize(r) PROVE AtMostOne'
  BY <1>8 DEF Authorize, Goto, Reply, NoTransaction, database
<1>9. ASSUME NEW r \in Requests, ReadForReview(r) PROVE AtMostOne'
  BY <1>9 DEF ReadForReview, Goto, Reply, NoTransaction, database
<1>10. ASSUME NEW r \in Requests, CheckClash(r) PROVE AtMostOne'
  BY <1>10 DEF CheckClash, Goto, Reply, NoTransaction, database
<1>11. ASSUME NEW r \in Requests, UpdateStatus(r) PROVE AtMostOne'
  BY <1>11 DEF UpdateStatus, Goto, database
<1>12. ASSUME NEW r \in Requests, CreateNotification(r) PROVE AtMostOne'
  BY <1>12 DEF CreateNotification, Goto, database
<1>13. ASSUME NEW r \in Requests, RecordAudit(r) PROVE AtMostOne'
  BY <1>13 DEF RecordAudit, Goto, database
<1>14. ASSUME NEW r \in Requests, Commit(r) PROVE AtMostOne'
  BY <1>14 DEF Commit, Reply, EndTransaction
<1>15. ASSUME NEW r \in Requests, ReadForCancel(r) PROVE AtMostOne'
  BY <1>15 DEF ReadForCancel, Goto, Reply, NoTransaction, database
<1>16. ASSUME NEW r \in Requests, CancelRow(r) PROVE AtMostOne'
  BY <1>16 DEF CancelRow, Reply, NoTransaction
<1>17. ASSUME NEW r \in Requests, Fail(r) PROVE AtMostOne'
  BY <1>17 DEF Fail, Reply, EndTransaction, database
<1>18. ASSUME Crash PROVE AtMostOne'
  BY <1>18 DEF Crash, database, InFlight
<1>19. ASSUME UNCHANGED vars PROVE AtMostOne'
  BY <1>19 DEF vars
<1> QED
  BY <1>1, <1>2, <1>3, <1>4, <1>5, <1>6, <1>7, <1>8, <1>9, <1>10, <1>11, <1>12, <1>13, <1>14, <1>15, <1>16, <1>17, <1>18, <1>19 DEF Next, Statement, Finished


\* Nothing changes between a handler's reads and its writes.
Undisturbed(r) ==
    /\ \/ pc[r] = "create"
       \/ pc[r] \in Tail /\ call[r].op = "book"
       \/ pc[r] \in {"update"} \cup Tail /\ call[r].op = "approve"
       => base[r] = Confirmed
    /\ pc[r] \in {"clash", "update"} \/ (pc[r] \in Tail /\ call[r].op # "book")
       => bookings[call[r].id].status = "pending"

AllUndisturbed == \A r \in Requests : Undisturbed(r)

LEMMA OwnStep ==
  ASSUME Inv, AllUndisturbed, NEW r \in Requests, Arrive(r) \/ Statement(r) \/ Fail(r)
  PROVE  Undisturbed(r)'
<1> USE DEF Inv, TypeOK, CallMatchesStep, AllUndisturbed, Undisturbed, Confirmed, Exists, Tail
<1>1. CASE Arrive(r)
  BY <1>1 DEF Arrive
<1>2. CASE Fail(r)
  BY <1>2 DEF Fail, Reply
<1>3. CASE FindFacility(r) \/ CheckClosure(r) \/ CheckSlot(r)
  BY <1>3 DEF FindFacility, CheckClosure, CheckSlot, Goto, Reply, database
<1>4. CASE InsertPending(r) \/ CancelRow(r) \/ Commit(r)
  BY <1>4 DEF InsertPending, CancelRow, Commit, Reply
<1>5. CASE Recheck(r) \/ CheckClash(r)
  BY <1>5 DEF Recheck, CheckClash, Goto, Reply, database
<1>6. CASE CreateConfirmed(r)
  BY <1>6 DEF CreateConfirmed, Goto, database
<1>7. CASE Authorize(r) \/ ReadForReview(r) \/ ReadForCancel(r)
  BY <1>7 DEF Authorize, ReadForReview, ReadForCancel, Goto, Reply, database
<1>8. CASE UpdateStatus(r) \/ CreateNotification(r) \/ RecordAudit(r)
  BY <1>8 DEF UpdateStatus, CreateNotification, RecordAudit, Goto, database
<1> QED
  BY <1>1, <1>2, <1>3, <1>4, <1>5, <1>6, <1>7, <1>8 DEF Statement

LEMMA OthersWait ==
  ASSUME Inv, NEW q \in Requests, NEW r \in Requests, q # r,
         Arrive(q) \/ Statement(q) \/ Fail(q)
  PROVE  pc'[r] = pc[r]
<1> USE DEF Goto, Reply, Inv, TypeOK
<1>1. Arrive(q) \/ Fail(q) => pc'[r] = pc[r]
  BY DEF Arrive, Fail
<1>2. FindFacility(q) \/ CheckClosure(q) \/ CheckSlot(q) \/ InsertPending(q) => pc'[r] = pc[r]
  BY DEF FindFacility, CheckClosure, CheckSlot, InsertPending
<1>3. Recheck(q) \/ CreateConfirmed(q) \/ Authorize(q) \/ ReadForReview(q) => pc'[r] = pc[r]
  BY DEF Recheck, CreateConfirmed, Authorize, ReadForReview
<1>4. CheckClash(q) \/ UpdateStatus(q) \/ CreateNotification(q) \/ RecordAudit(q) => pc'[r] = pc[r]
  BY DEF CheckClash, UpdateStatus, CreateNotification, RecordAudit
<1>5. Commit(q) \/ ReadForCancel(q) \/ CancelRow(q) => pc'[r] = pc[r]
  BY DEF Commit, ReadForCancel, CancelRow
<1> QED
  BY <1>1, <1>2, <1>3, <1>4, <1>5 DEF Statement

LEMMA UndisturbedStep ==
  ASSUME MaxInFlight = 1
  PROVE  Inv /\ AtMostOne /\ AllUndisturbed /\ [Next]_vars => AllUndisturbed'
<1> SUFFICES ASSUME Inv, AtMostOne, AllUndisturbed, [Next]_vars, NEW r \in Requests
             PROVE  Undisturbed(r)'
  BY DEF AllUndisturbed
<1>1. CASE pc'[r] \in {"idle", "done"}
  BY <1>1 DEF Undisturbed, Tail
<1>2. CASE pc'[r] \notin {"idle", "done"}
  <2>1. CASE Crash
    BY <1>2, <2>1 DEF Crash, Inv, TypeOK, InFlight
  <2>2. CASE UNCHANGED vars
    BY <2>2 DEF vars, AllUndisturbed, Undisturbed, Confirmed, Exists
  <2>3. ASSUME NEW q \in Requests, Arrive(q) \/ Statement(q) \/ Fail(q) PROVE q = r
    <3>1. AtMostOne'
      BY OneStep
    <3>2. q \in InFlight \/ q \in InFlight'
      <4>1. Arrive(q) => q \in InFlight'
        BY CallAssumption DEF Arrive, InFlight, Inv, TypeOK
      <4>2. Fail(q) => q \in InFlight
        BY DEF Fail
      <4>3. Statement(q) => q \in InFlight
        BY DEF Statement, InFlight, FindFacility, CheckClosure, CheckSlot, InsertPending,
               Recheck, CreateConfirmed, Authorize, ReadForReview, CheckClash, UpdateStatus,
               CreateNotification, RecordAudit, Commit, ReadForCancel, CancelRow
      <4> QED
        BY <2>3, <4>1, <4>2, <4>3
    <3>3. r \in InFlight'
      BY <1>2 DEF InFlight
    <3>4. CASE q # r
      <4>1. pc'[r] = pc[r]
        BY <2>3, <3>4, OthersWait
      <4>2. r \in InFlight
        BY <1>2, <4>1 DEF InFlight
      <4> QED
        BY <3>1, <3>2, <3>3, <4>2 DEF AtMostOne
    <3> QED
      BY <3>4
  <2> QED
    BY <2>1, <2>2, <2>3, OwnStep DEF Next, Finished
<1> QED
  BY <1>1, <1>2

LEMMA SerialStep ==
  ASSUME MaxInFlight = 1
  PROVE  Inv /\ Past /\ HandlersChecked /\ AllUndisturbed /\ NoDoubleBooking /\ [Next]_vars
           => NoDoubleBooking'
<1> SUFFICES ASSUME Inv, Past, HandlersChecked, AllUndisturbed, NoDoubleBooking, [Next]_vars,
                    NEW b \in Confirmed', NEW c \in Confirmed', b # c,
                    Overlaps(bookings'[b], bookings'[c])
             PROVE  FALSE
  BY DEF NoDoubleBooking, DoubleBooked
<1>0. /\ \A x \in BookingIds : Exists(x) => Kept(x)
      /\ b \in BookingIds /\ c \in BookingIds
  BY KeepStep DEF Confirmed
<1>1. ASSUME NEW x \in Confirmed', x \notin Confirmed, NEW y \in Confirmed', y # x
      PROVE  ~Overlaps(bookings'[y], bookings'[x])
  <2>1. PICK r \in Requests :
          /\ Commit(r) /\ x = Target(r) /\ decider'[x] = r /\ base' = base
          /\ call[r].op \in {"book", "approve"}
          /\ bookings'[x].facility = Candidate(r).facility
          /\ bookings'[x].slot = Candidate(r).slot
    BY <1>1, HowConfirmed
  <2>2. y \in Confirmed
    BY <1>0, <1>1, <2>1, CommitEffect DEF Confirmed, Exists, Inv, TypeOK
  <2>3. pc[r] \in Tail
    BY <2>1 DEF Commit, Tail
  <2>4. base[r] = Confirmed
    BY <2>1, <2>3 DEF AllUndisturbed, Undisturbed
  <2>5. ~Overlaps(bookings[y], Candidate(r)) /\ y \in BookingIds /\ Exists(y)
    BY <1>1, <2>1, <2>2, <2>3, <2>4 DEF HandlersChecked, HandlerChecked, Confirmed
  <2> QED
    BY <1>0, <2>1, <2>5 DEF Overlaps, Kept
<1>2. CASE b \in Confirmed /\ c \in Confirmed
  BY <1>0, <1>2 DEF NoDoubleBooking, DoubleBooked, Confirmed, Overlaps, Kept
<1>3. CASE c \notin Confirmed
  BY <1>1, <1>3
<1>4. CASE b \notin Confirmed
  <2>1. TypeOK'
    BY TypeStep
  <2>2. bookings'[b] \in Rows /\ bookings'[c] \in Rows
    BY <2>1 DEF TypeOK, Confirmed, Exists
  <2> QED
    BY <1>1, <1>4, <2>2, OverlapsSymmetric
<1> QED
  BY <1>2, <1>3, <1>4

LEMMA TruthStep ==
  ASSUME MaxInFlight = 1
  PROVE  Inv /\ Past /\ AllUndisturbed /\ AuditTellsTheTruth /\ [Next]_vars
           => AuditTellsTheTruth'
<1> DEFINE Shown(action) == IF action = "booking.rejected" THEN "rejected" ELSE "confirmed"
<1> SUFFICES ASSUME Inv, Past, AllUndisturbed, AuditTellsTheTruth, [Next]_vars, NEW a \in audit'
             PROVE  bookings'[a.booking].status \in {"cancelled", Shown(a.action)}
  BY DEF AuditTellsTheTruth
<1>1. CASE a \in audit
  <2>1. a.booking \in BookingIds /\ Exists(a.booking)
    BY <1>1 DEF Inv, TypeOK, AuditRows, Past
  <2>2. bookings[a.booking] \in Rows /\ RowMove(bookings[a.booking], bookings'[a.booking])
    BY <2>1, RowStep DEF Inv, TypeOK, Exists
  <2>3. bookings[a.booking].status \in {"cancelled", Shown(a.action)}
    BY <1>1 DEF AuditTellsTheTruth
  <2> QED
    BY <2>1, <2>2, <2>3 DEF RowMove, Rows, Exists, Cancellable
<1>2. CASE a \notin audit
  <2>1. PICK r \in Requests : Commit(r) /\ a = AuditRecord(r)
    <3>1. UNCHANGED database => audit' = audit
      BY DEF database
    <3> QED
      BY <1>2, <3>1, WhatChanges, InsertEffect, CancelEffect, CommitEffect
  <2>2. /\ pc[r] \in Tail /\ Target(r) \in BookingIds
        /\ call[r].op \in {"book", "approve", "reject"}
    BY <2>1, CommitEffect DEF Commit, Tail
  <2>3. call[r].op # "book" => bookings[Target(r)].status = "pending"
    BY <2>2 DEF AllUndisturbed, Undisturbed, Target
  <2>4. bookings'[Target(r)] = WrittenRow(r)
    BY <2>1, <2>2, <2>3, CommitEffect DEF Inv, TypeOK
  <2>5. CASE call[r].op = "book"
    BY <2>1, <2>4, <2>5 DEF AuditRecord, Action, WrittenRow, NewRow
  <2>6. CASE call[r].op # "book"
    <3>1. bookings[Target(r)] \in Rows /\ Target(r) = call[r].id
      BY <2>1, <2>6, CommitEffect DEF Target, Exists, Inv, TypeOK
    <3>2. WrittenRow(r).status = Verdict(call[r])
      BY <2>6, <3>1 DEF WrittenRow, Rows
    <3> QED
      BY <2>1, <2>2, <2>4, <2>6, <3>2 DEF AuditRecord, Action, Verdict
  <2> QED
    BY <2>5, <2>6
<1> QED
  BY <1>1, <1>2

LEMMA UndisturbedHolds ==
  ASSUME MaxInFlight = 1
  PROVE  Spec => [](Inv /\ Past /\ HandlersChecked /\ AllUndisturbed)
<1>1. Init => AtMostOne /\ AllUndisturbed
  BY DEF Init, AtMostOne, InFlight, AllUndisturbed, Undisturbed, Tail
<1>2. Inv /\ AtMostOne /\ [Next]_vars => AtMostOne'
  BY OneStep
<1>3. Inv /\ AtMostOne /\ AllUndisturbed /\ [Next]_vars => AllUndisturbed'
  BY UndisturbedStep
<1> QED
  BY <1>1, <1>2, <1>3, CheckedHolds, PTL DEF Spec

\* When requests are handled one at a time, no slot is ever confirmed twice.
THEOREM SerialNoDoubleBooking ==
  ASSUME MaxInFlight = 1
  PROVE  Spec => []NoDoubleBooking
<1>1. Init => NoDoubleBooking
  BY SeedAssumption DEF Init, NoDoubleBooking, DoubleBooked, Confirmed, Exists
<1>2. Inv /\ Past /\ HandlersChecked /\ AllUndisturbed /\ NoDoubleBooking /\ [Next]_vars
        => NoDoubleBooking'
  BY SerialStep
<1> QED
  BY <1>1, <1>2, UndisturbedHolds, PTL DEF Spec

\* When requests are handled one at a time, the audit trail tells what happened.
THEOREM SerialAuditTrue ==
  ASSUME MaxInFlight = 1
  PROVE  Spec => []AuditTellsTheTruth
<1>1. Init => AuditTellsTheTruth
  BY DEF Init, AuditTellsTheTruth
<1>2. Inv /\ Past /\ AllUndisturbed /\ AuditTellsTheTruth /\ [Next]_vars => AuditTellsTheTruth'
  BY TruthStep
<1> QED
  BY <1>1, <1>2, UndisturbedHolds, PTL DEF Spec
=============================================================================
