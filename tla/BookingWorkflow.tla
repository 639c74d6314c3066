--------------------------- MODULE BookingWorkflow ---------------------------
(***************************************************************************)
(* The booking workflow: src/services/bookingWorkflow.js over              *)
(* src/repositories/bookingRepository.js, reached from the member routes   *)
(* (src/modules/bookings.js) and the staff routes                          *)
(* (src/modules/admin/bookings.js).                                        *)
(*                                                                         *)
(* A request is an asynchronous handler.  Node runs it up to the next      *)
(* `await' of a database statement, so one action is one statement with    *)
(* the code that follows it up to the next one, and the handlers of several*)
(* requests (of one process or of many) interleave between statements.     *)
(*                                                                         *)
(* The database is MySQL/InnoDB at its default isolation level:            *)
(*   - a statement of the pool is its own transaction;                     *)
(*   - a SELECT takes no lock and sees committed rows only (the one SELECT *)
(*     inside a transaction is that transaction's first, so its snapshot is*)
(*     taken there);                                                       *)
(*   - an UPDATE reads the current row, waits for its lock and keeps it    *)
(*     until the transaction ends, also when its status predicate fails;   *)
(*   - what a transaction wrote becomes visible at COMMIT, all at once.    *)
(*                                                                         *)
(* A booking created by request r has id r: AUTO_INCREMENT gives a fresh   *)
(* id, and a handler inserts at most one booking.                          *)
(***************************************************************************)
EXTENDS Integers, FiniteSets

CONSTANTS
    Requests,      \* requests that may arrive, each handled once
    Members,       \* membros titulares, primary members of the tenant
    Staff,         \* staff users of the tenant
    Permitted,     \* staff whose role holds the bookings.approve permission
    Approvers,     \* staff whose role the deployment lets sign off bookings
    Facilities,    \* rows of table facilities
    Active,        \* the ones with is_active = 1 and not deleted
    AutoConfirm,   \* the ones with requires_approval = 0
    MaxAdvance,    \* max_advance_days of each facility, 0 or less: no limit
    Slots,         \* [date, starts, ends] triples a member may ask for
    Closures,      \* [facility, starts, ends] rows, in hours since day 0
    Today,         \* the UTC date, as a day number
    Calls,         \* the calls clients may make
    Seed,          \* bookings already pending when the run begins, by id
    MaxInFlight,   \* bound: requests being handled at the same time
    None

Statuses == {"pending", "confirmed", "rejected", "cancelled"}
Cancellable == {"pending", "confirmed"}
BookingIds == Requests \cup DOMAIN Seed

BookCalls   == [op : {"book"}, member : Members, facility : Facilities, slot : Slots]
ReviewCalls == [op : {"approve", "reject"}, staff : Staff, id : BookingIds]
CancelCalls == [op : {"cancel"}, member : Members, id : BookingIds]
AllCalls    == BookCalls \cup ReviewCalls \cup CancelCalls

Rows == [facility : Facilities, slot : Slots, member : Members,
         status : Statuses, reviewedBy : Staff \cup {None}]

ASSUME SlotAssumption == Slots \subseteq [date : Int, starts : Int, ends : Int]
ASSUME FacilityAssumption == /\ Active \subseteq Facilities
                             /\ AutoConfirm \subseteq Facilities
                             /\ MaxAdvance \in [Facilities -> Int]
ASSUME ClosureAssumption ==
    Closures \subseteq [facility : Facilities, starts : Int, ends : Int]
ASSUME RequestAssumption == IsFiniteSet(Requests)
ASSUME StaffAssumption == Permitted \subseteq Staff /\ Approvers \subseteq Staff
ASSUME CallAssumption == Calls \subseteq AllCalls
ASSUME SeedAssumption ==
    /\ Seed \in [DOMAIN Seed -> Rows]
    /\ Requests \cap DOMAIN Seed = {}
    /\ \A b \in DOMAIN Seed : Seed[b].status = "pending" /\ Seed[b].reviewedBy = None
ASSUME NumberAssumption == Today \in Int /\ MaxInFlight \in Nat
ASSUME NoneAssumption == /\ None \notin Rows /\ None \notin Requests
                         /\ None \notin AllCalls /\ None \notin Staff

VARIABLES
    bookings,      \* committed rows of table bookings, None where there is none
    notifications, \* committed rows of table notifications about bookings
    audit,         \* committed rows of table audit_logs about bookings
    lock,          \* the request whose transaction holds the row lock, or None
    pc,            \* the statement each request's handler awaits next
    call,          \* the call the request carries
    writes,        \* tables the request's open transaction has written
    answer,        \* what the client was told
    base,          \* history: bookings confirmed when the handler last checked
    decider        \* history: the request that confirmed or rejected a booking

database == <<bookings, notifications, audit, decider>>
vars == <<bookings, notifications, audit, lock, pc, call, writes, answer,
          base, decider>>

Steps == {"idle", "facility", "closure", "slot", "insert", "recheck", "create",
          "authorize", "review", "clash", "update", "own", "cancel",
          "notify", "audit", "commit", "done"}
Answers == {"none", "ok", "invalid", "forbidden", "not_found", "conflict",
            "error", "lost"}

----------------------------------------------------------------------------
(* What the statements compute.                                           *)

\* (Names that end in _slip are plausible mistakes in the code a definition
\* models: each one shows which property would notice it.)

\* Half-open comparison, so a booking that ends at 11:00 and one that starts
\* at 11:00 do not collide.
Overlaps(a, b) == /\ a.facility = b.facility
                  /\ a.slot.date = b.slot.date
                  /\ a.slot.starts < b.slot.ends
                  /\ a.slot.ends > b.slot.starts

Exists(b) == bookings[b] # None
Confirmed == {b \in BookingIds : Exists(b) /\ bookings[b].status = "confirmed"}

\* findOverlapping: the ids of the rows in one of the statuses that overlap.
FindOverlapping(row, statuses) ==
    {b \in BookingIds : /\ Exists(b)
                        /\ bookings[b].status \in statuses
                        /\ Overlaps(bookings[b], row)}

TooFarAhead(c) == /\ MaxAdvance[c.facility] > 0
                  /\ c.slot.date - Today > MaxAdvance[c.facility]

FindClosure(c) ==
    {w \in Closures : /\ w.facility = c.facility
                      /\ w.starts < c.slot.date * 24 + c.slot.ends
                      /\ w.ends > c.slot.date * 24 + c.slot.starts}

NewRow(c, status) == [facility |-> c.facility, slot |-> c.slot, member |-> c.member,
                      status |-> status, reviewedBy |-> None]

Target(r) == IF call[r].op = "book" THEN r ELSE call[r].id
\* `approved' is no value of the status column's ENUM.
Verdict_slip(c) == IF c.op = "reject" THEN "rejected" ELSE "approved"

Verdict(c) == IF c.op = "reject" THEN "rejected" ELSE "confirmed"
Action(c) == CASE c.op = "book"    -> "booking.auto_confirmed"
               [] c.op = "approve" -> "booking.approved"
               [] c.op = "reject"  -> "booking.rejected"
Actor(c) == IF c.op = "book" THEN c.member ELSE c.staff

\* The row the transaction of r wrote, as COMMIT makes it visible.
WrittenRow(r) ==
    IF call[r].op = "book"
    THEN NewRow(call[r], "confirmed")
    ELSE [bookings[call[r].id] EXCEPT !.status = Verdict(call[r]),
                                      !.reviewedBy = call[r].staff]

Notification(r) ==
    [by |-> r, booking |-> Target(r), says |-> Verdict(call[r]),
     member |-> WrittenRow(r).member]
AuditRecord(r) ==
    [by |-> r, booking |-> Target(r), action |-> Action(call[r]),
     actor |-> Actor(call[r])]

InFlight == {r \in Requests : pc[r] \notin {"idle", "done"}}

----------------------------------------------------------------------------
Init ==
    /\ bookings = [b \in BookingIds |-> IF b \in DOMAIN Seed THEN Seed[b] ELSE None]
    /\ notifications = {}
    /\ audit = {}
    /\ lock = [b \in BookingIds |-> None]
    /\ pc = [r \in Requests |-> "idle"]
    /\ call = [r \in Requests |-> None]
    /\ writes = [r \in Requests |-> {}]
    /\ answer = [r \in Requests |-> "none"]
    /\ base = [r \in Requests |-> {}]
    /\ decider = [b \in BookingIds |-> None]

\* The handler goes on to its next statement; it has changed nothing committed.
Goto(r, step) == pc' = [pc EXCEPT ![r] = step] /\ UNCHANGED <<database, call, answer>>

\* The handler ends and the client gets its answer.
Reply(r, a) == /\ pc' = [pc EXCEPT ![r] = "done"]
               /\ answer' = [answer EXCEPT ![r] = a]
               /\ UNCHANGED call

\* The connection goes back to the pool with its transaction open.
EndTransaction_slip(r) == writes' = [writes EXCEPT ![r] = {}] /\ UNCHANGED lock

\* The transaction of r ends: its row locks are released, its buffer is empty.
EndTransaction(r) ==
    /\ lock' = [b \in BookingIds |-> IF lock[b] = r THEN None ELSE lock[b]]
    /\ writes' = [writes EXCEPT ![r] = {}]

NoTransaction == UNCHANGED <<lock, writes>>

Arrive(r) ==
    /\ pc[r] = "idle"
    /\ Cardinality(InFlight) < MaxInFlight
    /\ \E c \in Calls :
        /\ call' = [call EXCEPT ![r] = c]
        /\ pc' = [pc EXCEPT ![r] = CASE c.op = "book"   -> "facility"
                                     [] c.op = "cancel" -> "own"
                                     [] OTHER           -> "authorize"]
    /\ UNCHANGED <<database, lock, writes, answer, base>>

(* requestBooking *)

FindFacility(r) ==
    /\ pc[r] = "facility"
    /\ LET c == call[r] IN
       \/ /\ c.facility \notin Active
          /\ Reply(r, "not_found") /\ UNCHANGED database
       \/ /\ c.facility \in Active
          /\ ~(c.slot.starts < c.slot.ends /\ ~TooFarAhead(c))
          /\ Reply(r, "invalid") /\ UNCHANGED database
       \/ /\ c.facility \in Active
          /\ c.slot.starts < c.slot.ends /\ ~TooFarAhead(c)
          /\ Goto(r, "closure")
    /\ NoTransaction /\ UNCHANGED base

CheckClosure(r) ==
    /\ pc[r] = "closure"
    /\ IF FindClosure(call[r]) # {}
       THEN Reply(r, "conflict") /\ UNCHANGED database
       ELSE Goto(r, "slot")
    /\ NoTransaction /\ UNCHANGED base

\* A pending booking blocks the slot for another request, not for an approval.
CheckSlot(r) ==
    /\ pc[r] = "slot"
    /\ IF FindOverlapping(call[r], {"pending", "confirmed"}) # {}
       THEN Reply(r, "conflict") /\ UNCHANGED database
       ELSE Goto(r, IF call[r].facility \in AutoConfirm THEN "recheck" ELSE "insert")
    /\ NoTransaction /\ UNCHANGED base

\* One INSERT through the pool.  If the connection breaks after the server ran
\* it, the row is there and the client is told of an error.
InsertPending(r) ==
    /\ pc[r] = "insert"
    /\ bookings' = [bookings EXCEPT ![r] = NewRow(call[r], "pending")]
    /\ \E a \in {"ok", "error"} : Reply(r, a)
    /\ NoTransaction /\ UNCHANGED <<notifications, audit, decider, base>>

(* createAutoConfirmed: BEGIN is sent with the first statement. *)

\* The slot is not checked again inside the transaction.
Recheck_slip(r) ==
    /\ pc[r] = "recheck"
    /\ base' = [base EXCEPT ![r] = Confirmed]
    /\ Goto(r, "create") /\ NoTransaction

Recheck(r) ==
    /\ pc[r] = "recheck"
    /\ base' = [base EXCEPT ![r] = Confirmed]
    /\ IF FindOverlapping(call[r], {"confirmed"}) # {}
       THEN Reply(r, "conflict") /\ EndTransaction(r) /\ UNCHANGED database
       ELSE Goto(r, "create") /\ NoTransaction

CreateConfirmed(r) ==
    /\ pc[r] = "create"
    /\ writes' = [writes EXCEPT ![r] = @ \cup {"bookings"}]
    /\ Goto(r, "notify")
    /\ UNCHANGED <<lock, base>>

(* approveBooking and rejectBooking *)

\* The permission alone lets a role sign off.
Authorize_slip(r) ==
    /\ pc[r] = "authorize"
    /\ IF call[r].staff \in Permitted
       THEN Goto(r, "review")
       ELSE Reply(r, "forbidden") /\ UNCHANGED database
    /\ NoTransaction /\ UNCHANGED base

\* authorize("bookings.approve"), requireApprover("booking"), assertCanReview.
Authorize(r) ==
    /\ pc[r] = "authorize"
    /\ IF call[r].staff \in Permitted /\ call[r].staff \in Approvers
       THEN Goto(r, "review")
       ELSE Reply(r, "forbidden") /\ UNCHANGED database
    /\ NoTransaction /\ UNCHANGED base

ReadForReview(r) ==
    /\ pc[r] = "review"
    /\ LET id == call[r].id IN
       \/ /\ ~Exists(id)
          /\ Reply(r, "not_found") /\ UNCHANGED database
       \/ /\ Exists(id) /\ bookings[id].status # "pending"
          /\ Reply(r, "invalid") /\ UNCHANGED database
       \/ /\ Exists(id) /\ bookings[id].status = "pending"
          /\ Goto(r, IF call[r].op = "approve" THEN "clash" ELSE "update")
    /\ NoTransaction /\ UNCHANGED base

\* Outside the transaction that follows, and against confirmed rows only.
CheckClash(r) ==
    /\ pc[r] = "clash"
    /\ base' = [base EXCEPT ![r] = Confirmed]
    /\ IF FindOverlapping(bookings[call[r].id], {"confirmed"}) \ {call[r].id} # {}
       THEN Reply(r, "conflict") /\ UNCHANGED database
       ELSE Goto(r, "update")
    /\ NoTransaction

\* The UPDATE has no status predicate.
UpdateStatus_slip(r) ==
    /\ pc[r] = "update"
    /\ lock[call[r].id] = None
    /\ lock' = [lock EXCEPT ![call[r].id] = r]
    /\ writes' = [writes EXCEPT ![r] = @ \cup {"bookings"}]
    /\ Goto(r, "notify")
    /\ UNCHANGED base

\* The UPDATE goes through the pool instead of the transaction.
UpdateStatus_slip2(r) ==
    /\ pc[r] = "update"
    /\ lock[call[r].id] = None
    /\ pc' = [pc EXCEPT ![r] = "notify"]
    /\ IF bookings[call[r].id].status = "pending"
       THEN /\ bookings' = [bookings EXCEPT ![call[r].id] = WrittenRow(r)]
            /\ decider' = [decider EXCEPT ![call[r].id] = r]
       ELSE UNCHANGED <<bookings, decider>>
    /\ UNCHANGED <<notifications, audit, lock, call, writes, answer, base>>

\* confirm and reject: the UPDATE waits for the row, changes it only while it is
\* pending, and the workflow ignores how many rows it changed.
UpdateStatus(r) ==
    /\ pc[r] = "update"
    /\ lock[call[r].id] = None
    /\ lock' = [lock EXCEPT ![call[r].id] = r]
    /\ writes' = [writes EXCEPT ![r] =
         IF bookings[call[r].id].status = "pending" THEN @ \cup {"bookings"} ELSE @]
    /\ Goto(r, "notify")
    /\ UNCHANGED base

(* The tail every transaction shares. *)

CreateNotification(r) ==
    /\ pc[r] = "notify"
    /\ writes' = [writes EXCEPT ![r] = @ \cup {"notifications"}]
    /\ Goto(r, "audit")
    /\ UNCHANGED <<lock, base>>

RecordAudit(r) ==
    /\ pc[r] = "audit"
    /\ writes' = [writes EXCEPT ![r] = @ \cup {"audit"}]
    /\ Goto(r, "commit")
    /\ UNCHANGED <<lock, base>>

\* What the transaction wrote becomes visible at once.
Publish(r) ==
    /\ IF "bookings" \in writes[r]
       THEN /\ bookings' = [bookings EXCEPT ![Target(r)] = WrittenRow(r)]
            /\ decider' = [decider EXCEPT ![Target(r)] = r]
       ELSE UNCHANGED <<bookings, decider>>
    /\ notifications' = IF "notifications" \in writes[r]
                        THEN notifications \cup {Notification(r)} ELSE notifications
    /\ audit' = IF "audit" \in writes[r]
                THEN audit \cup {AuditRecord(r)} ELSE audit

\* The client may be told of an error although the server committed.
Commit(r) ==
    /\ pc[r] = "commit"
    /\ Publish(r)
    /\ EndTransaction(r)
    /\ \E a \in {"ok", "error"} : Reply(r, a)
    /\ UNCHANGED base

(* cancelBooking *)

\* findByIdForMember
Owns(m, id) == Exists(id) /\ bookings[id].member = m

ReadForCancel(r) ==
    /\ pc[r] = "own"
    /\ LET id == call[r].id IN
       \/ /\ ~Owns(call[r].member, id)
          /\ Reply(r, "not_found") /\ UNCHANGED database
       \/ /\ Owns(call[r].member, id)
          /\ bookings[id].status \notin Cancellable
          /\ Reply(r, "invalid") /\ UNCHANGED database
       \/ /\ Owns(call[r].member, id)
          /\ bookings[id].status \in Cancellable
          /\ Goto(r, "cancel")
    /\ NoTransaction /\ UNCHANGED base

\* The predicate of the UPDATE forgot that a confirmed booking can be cancelled.
CancelRow_slip(r) ==
    /\ pc[r] = "cancel"
    /\ LET id == call[r].id IN
       /\ lock[id] = None
       /\ bookings' = IF bookings[id].status = "pending"
                      THEN [bookings EXCEPT ![id].status = "cancelled"] ELSE bookings
    /\ \E a \in {"ok", "error"} : Reply(r, a)
    /\ NoTransaction /\ UNCHANGED <<notifications, audit, decider, base>>

\* One UPDATE through the pool: it waits for the row like any other, and the
\* workflow answers `cancelled' whether or not a row changed.
CancelRow(r) ==
    /\ pc[r] = "cancel"
    /\ LET id == call[r].id IN
       /\ lock[id] = None
       /\ bookings' = IF bookings[id].status \in Cancellable
                      THEN [bookings EXCEPT ![id].status = "cancelled"] ELSE bookings
    /\ \E a \in {"ok", "error"} : Reply(r, a)
    /\ NoTransaction /\ UNCHANGED <<notifications, audit, decider, base>>

(* Failures *)

\* The catch branch does not roll back what was written.
Fail_slip(r) ==
    /\ r \in InFlight
    /\ Reply(r, "error")
    /\ Publish(r)
    /\ EndTransaction(r)
    /\ UNCHANGED base

\* A statement fails (or waits too long for a lock): scope.transaction rolls
\* back and releases, the error handler answers.
Fail(r) ==
    /\ r \in InFlight
    /\ Reply(r, "error")
    /\ EndTransaction(r)
    /\ UNCHANGED <<database, base>>

\* The process dies: its handlers vanish, the server rolls their transactions
\* back, their clients get no answer.
Crash ==
    /\ InFlight # {}
    /\ pc' = [r \in Requests |-> IF r \in InFlight THEN "done" ELSE pc[r]]
    /\ answer' = [r \in Requests |-> IF r \in InFlight THEN "lost" ELSE answer[r]]
    /\ lock' = [b \in BookingIds |-> None]
    /\ writes' = [r \in Requests |-> {}]
    /\ UNCHANGED <<database, call, base>>

Statement(r) ==
    \/ FindFacility(r) \/ CheckClosure(r) \/ CheckSlot(r) \/ InsertPending(r)
    \/ Recheck(r) \/ CreateConfirmed(r)
    \/ Authorize(r) \/ ReadForReview(r) \/ CheckClash(r) \/ UpdateStatus(r)
    \/ CreateNotification(r) \/ RecordAudit(r) \/ Commit(r)
    \/ ReadForCancel(r) \/ CancelRow(r)

Finished == (\A r \in Requests : pc[r] = "done") /\ UNCHANGED vars

Next == \/ \E r \in Requests : Arrive(r) \/ Statement(r) \/ Fail(r)
        \/ Crash
        \/ Finished

Spec == Init /\ [][Next]_vars

\* The database answers every statement in the end: a failed one is an answer.
FairSpec == Spec /\ \A r \in Requests : WF_vars(Statement(r))

----------------------------------------------------------------------------
(* Correctness. *)

NotificationRows == [by : Requests, booking : BookingIds,
                     says : {"confirmed", "rejected"}, member : Members]
AuditRows == [by : Requests, booking : BookingIds, actor : Members \cup Staff,
              action : {"booking.auto_confirmed", "booking.approved", "booking.rejected"}]

\* Every variable has its type.
TypeOK ==
    /\ bookings \in [BookingIds -> Rows \cup {None}]
    /\ notifications \subseteq NotificationRows
    /\ audit \subseteq AuditRows
    /\ lock \in [BookingIds -> Requests \cup {None}]
    /\ pc \in [Requests -> Steps]
    /\ call \in [Requests -> Calls \cup {None}]
    /\ writes \in [Requests -> SUBSET {"bookings", "notifications", "audit"}]
    /\ answer \in [Requests -> Answers]
    /\ base \in [Requests -> SUBSET BookingIds]
    /\ decider \in [BookingIds -> Requests \cup {None}]

\* The moves a row may make: an approval or a rejection settles a pending one,
\* a member gives up a pending or a confirmed one, and nothing else about a row
\* ever changes (bookingRepository.js:109-137, the status predicates).
RowMove(old, new) ==
    \/ old = new
    \/ /\ old = None
       /\ new.status = "pending"
       /\ new.facility \notin AutoConfirm
    \/ /\ old = None
       /\ new.status = "confirmed"
       /\ new.facility \in AutoConfirm
    \/ /\ old # None
       /\ old.status = "pending"
       /\ new.reviewedBy \in Permitted \cap Approvers
       /\ \E s \in {"confirmed", "rejected"} :
            new = [old EXCEPT !.status = s, !.reviewedBy = new.reviewedBy]
    \/ /\ old # None
       /\ old.status \in Cancellable
       /\ new = [old EXCEPT !.status = "cancelled"]

\* A booking only ever makes one of those moves, however handlers interleave: a
\* decision computed from a stale read never overwrites a decision, a
\* cancellation or a row's owner, facility or slot.
StatusMoves == [][\A b \in BookingIds : RowMove(bookings[b], bookings'[b])]_vars

Decided(b) == Exists(b) /\ decider[b] # None

AccountedFor(b) ==
    /\ (Exists(b) /\ bookings[b].status \in {"confirmed", "rejected"}) => Decided(b)
    /\ Decided(b) =>
         /\ \E n \in notifications :
              /\ n.by = decider[b] /\ n.booking = b
              /\ n.member = bookings[b].member
              /\ bookings[b].status \in {n.says, "cancelled"}
         /\ \E a \in audit :
              /\ a.by = decider[b] /\ a.booking = b
              /\ a.actor = IF a.action = "booking.auto_confirmed"
                           THEN bookings[b].member ELSE bookings[b].reviewedBy

\* A decision, its notification and its audit record stand or fall together,
\* whatever statement fails and wherever the process dies: a decided booking has
\* both, from the very request that decided it, and they tell the decision and
\* the reviewer the row carries (auditRepository.js:10-14,
\* notificationRepository.js:6-9).
DecisionIsAccounted == \A b \in BookingIds : AccountedFor(b)

\* Whoever is told `ok' can rely on it: an approved or rejected booking is not
\* pending again, a cancelled one blocks no slot (although cancelBooking ignores
\* how many rows its UPDATE changed), a created one exists.
OkIsSettled ==
    \A r \in Requests :
        answer[r] = "ok" =>
            CASE call[r].op = "book"   -> Exists(r)
              [] call[r].op = "cancel" -> bookings[call[r].id].status \notin Cancellable
              [] OTHER -> /\ bookings[call[r].id].status # "pending"
                          /\ AuditRecord(r) \in audit

\* A booking of a facility that requires approval is confirmed or rejected only
\* by a staff user who both holds the permission and is an approver of the
\* deployment (admin/bookings.js:15-26).
SignedByApprover ==
    \A a \in audit :
        \/ /\ a.action = "booking.auto_confirmed"
           /\ bookings[a.booking].facility \in AutoConfirm
        \/ a.actor \in Permitted \cap Approvers

\* Two confirmed bookings of one slot.
DoubleBooked(b, c) == /\ b # c /\ b \in Confirmed /\ c \in Confirmed
                      /\ Overlaps(bookings[b], bookings[c])

\* A slot is double booked only when the two confirming handlers overlapped:
\* each looked for a clash before the other had committed.  A handler that
\* looks after the other's commit never confirms (bookingWorkflow.js:161-170,
\* 237-246).
DoubleBookingNeedsOverlap ==
    \A b, c \in BookingIds :
        DoubleBooked(b, c) => /\ b \notin base[decider[c]]
                              /\ c \notin base[decider[b]]

\* No slot is ever confirmed twice (bookingWorkflow.js:30-32).
NoDoubleBooking == \A b, c \in BookingIds : ~DoubleBooked(b, c)

\* What an audit record says was decided is what the row shows, unless the member
\* cancelled it later (auditRepository.js:10-14).
AuditTellsTheTruth ==
    \A a \in audit :
        bookings[a.booking].status = "cancelled"
        \/ bookings[a.booking].status =
             IF a.action = "booking.rejected" THEN "rejected" ELSE "confirmed"

\* Every request that arrives is answered, or its process died.
Answered == \A r \in Requests : (pc[r] # "idle") ~> (answer[r] # "none")

----------------------------------------------------------------------------
Ledger == INSTANCE BookingLedger WITH
    Ids <- BookingIds,
    Keys <- Requests,
    Wishes <- [facility : Facilities, slot : Slots, member : Members],
    Initial <- [b \in BookingIds |-> IF b \in DOMAIN Seed THEN Seed[b] ELSE None],
    Signers <- Permitted \cap Approvers

\* The handlers implement the atomic ledger: each takes effect in one step, at
\* its single committing statement, or not at all.
ImplementsLedger == Ledger!Spec
=============================================================================
