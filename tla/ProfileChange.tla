---------------------------- MODULE ProfileChange ----------------------------
(***************************************************************************)
(* The profile change workflow: src/services/profileChangeWorkflow.js over *)
(* src/repositories/profileChangeRepository.js and memberRepository.js,    *)
(* reached from src/modules/profile.js and                                 *)
(* src/modules/admin/profileChangeRequests.js.                             *)
(*                                                                         *)
(* Handlers, statements and transactions are those of BookingWorkflow.  What*)
(* is new are the locks: an approval writes the member's row first and the *)
(* request's row second, a rejection writes the request's row and then     *)
(* inserts a notification, whose foreign key takes a shared lock on the    *)
(* member's row.  The two can wait for each other; InnoDB then rolls one   *)
(* back and the client is told that the database is busy.                  *)
(*                                                                         *)
(* The allow-list of editable fields is configuration: each handler runs in*)
(* a process that was started with one, and a deployment replaces processes*)
(* while proposals wait, so a handler has the list of its own process.     *)
(***************************************************************************)
EXTENDS Integers, FiniteSets

CONSTANTS
    Requests,      \* HTTP requests that may arrive, each handled once
    Members,       \* membros titulares of the tenant
    Register,      \* the members' rows when the run begins
    Fields,        \* columns of a member's row
    Values,        \* what a column may hold
    Blank,         \* the empty string, also standing for null and for no value
    Spaces,        \* a string of spaces
    AllowLists,    \* values MEMBER_EDITABLE_FIELDS takes in this deployment
    Staff,         \* staff users of the tenant
    Permitted,     \* staff whose role holds the members.edit permission
    Approvers,     \* staff whose role the deployment lets sign off profile changes
    Calls,         \* the calls clients may make
    Seed,          \* change requests already pending when the run begins, by id
    MaxInFlight,   \* bound: requests being handled at the same time
    None

RequestIds == Requests \cup DOMAIN Seed
Statuses == {"pending", "approved", "rejected"}

\* What a JSON document of column values may be: some columns, each with a value.
Documents == UNION {[F -> Values] : F \in SUBSET Fields}

FileCalls   == [op : {"file"}, member : Members, body : [Fields -> Values \cup {Spaces}]]
ReviewCalls == [op : {"approve", "reject"}, staff : Staff, id : RequestIds]

Proposals == [member : Members, current : Documents, requested : Documents,
              status : Statuses, reviewedBy : Staff \cup {None}]

ASSUME RegisterAssumption == Register \in [Members -> [Fields -> Values]]
ASSUME ValueAssumption == Blank \in Values /\ Spaces \notin Values
ASSUME AllowListAssumption == AllowLists \subseteq SUBSET Fields
ASSUME StaffAssumption == Permitted \subseteq Staff /\ Approvers \subseteq Staff
ASSUME RequestAssumption == IsFiniteSet(Requests)
ASSUME CallAssumption == Calls \subseteq FileCalls \cup ReviewCalls
ASSUME SeedAssumption ==
    /\ Seed \in [DOMAIN Seed -> Proposals]
    /\ Requests \cap DOMAIN Seed = {}
    /\ \A q \in DOMAIN Seed :
        /\ Seed[q].status = "pending" /\ Seed[q].reviewedBy = None
        /\ DOMAIN Seed[q].current = DOMAIN Seed[q].requested
ASSUME NumberAssumption == MaxInFlight \in Nat
ASSUME NoneAssumption ==
    /\ None \notin Proposals \cup Requests \cup Staff \cup FileCalls \cup ReviewCalls
    /\ None \notin [member : Members, requested : Documents, status : Statuses,
                     reviewedBy : Staff \cup {None}]
ASSUME RowAssumption == Members \cap RequestIds = {}

VARIABLES
    members,       \* committed rows of table members
    requests,      \* committed rows of table profile_change_requests, or None
    notifications, \* committed rows of table notifications about them
    audit,         \* committed rows of table audit_logs about them
    locks,         \* row locks the open transactions hold
    pc,            \* the statement each request's handler awaits next
    call,          \* the call the request carries
    allowed,       \* the allow-list of the process that handles it
    snapshot,      \* the row the handler read: the member's, or the request under review
    writes,        \* tables the request's open transaction has written
    serial,        \* the audit_logs id its transaction was given, 0 for none
    answer,        \* what the client was told
    decider,       \* history: the HTTP request that decided a change request
    met            \* history: the pairs of HTTP requests, one at least filing, that were
                   \* handled at the same time

database == <<members, requests, notifications, audit, decider>>
local == <<call, allowed, snapshot, met>>
vars == <<database, locks, pc, local, writes, serial, answer>>

Steps == {"idle", "member", "open", "insert", "authorize", "review", "apply", "update",
          "notify", "audit", "commit", "done"}
Answers == {"none", "ok", "invalid", "forbidden", "not_found", "scope_error", "busy",
            "error", "lost"}

----------------------------------------------------------------------------
(* What the statements compute.                                           *)

\* (Names that end in _slip are plausible mistakes in the code a definition
\* models: each one shows which property would notice it.)

\* String(value).trim()
Trim(v) == IF v = Spaces THEN Blank ELSE v

\* A value of spaces survives the filter and is stored as the empty string.
FilterEditable(document, list) ==
    [f \in {f \in list \cap DOMAIN document : document[f] # Blank} |-> Trim(document[f])]

Exists(q) == requests[q] # None
Pending(m) == {q \in RequestIds : /\ Exists(q) /\ requests[q].member = m
                                  /\ requests[q].status = "pending"}

\* The member's JSON body, filtered at submission.
Proposed(r) == FilterEditable(call[r].body, allowed[r])

\* The stored values are taken as they are.
Applied_slip(r) == requests[call[r].id].requested

\* The stored values, filtered again at approval.
Applied(r) == FilterEditable(requests[call[r].id].requested, allowed[r])

\* The audit record shows the values just written as the ones before.
Before_slip(r) == Applied(r)

\* The snapshot of the submission, narrowed to the fields applied.
Before(r) == [f \in DOMAIN Applied(r) |-> requests[call[r].id].current[f]]

Verdict(c) == IF c.op = "approve" THEN "approved" ELSE "rejected"

Row(r) == [member |-> call[r].member,
           current |-> [f \in DOMAIN Proposed(r) |-> snapshot[r].values[f]],
           requested |-> Proposed(r), status |-> "pending", reviewedBy |-> None]

ReviewedMember(r) == requests[call[r].id].member

Notification(r) ==
    [by |-> r, request |-> call[r].id, says |-> Verdict(call[r]), member |-> ReviewedMember(r)]

AuditRecord(r) ==
    [id |-> serial[r], by |-> r, request |-> call[r].id, member |-> ReviewedMember(r),
     actor |-> call[r].staff,
     action |-> IF call[r].op = "approve" THEN "profile_change.approved"
                                          ELSE "profile_change.rejected",
     before |-> IF call[r].op = "approve" THEN Before(r) ELSE <<>>,
     after  |-> IF call[r].op = "approve" THEN Applied(r) ELSE <<>>]

InFlight == {r \in Requests : pc[r] \notin {"idle", "done"}}

----------------------------------------------------------------------------
(* Row locks. *)

\* The lock the next statement of r asks for: its own on the row it updates, a
\* shared one on the member a row it inserts refers to.
Wanted(r) ==
    CASE pc[r] = "insert" -> {[by |-> r, row |-> call[r].member, mode |-> "S"]}
      [] pc[r] = "apply"  -> {[by |-> r, row |-> ReviewedMember(r), mode |-> "X"]}
      [] pc[r] = "update" -> {[by |-> r, row |-> call[r].id, mode |-> "X"]}
      [] pc[r] = "notify" -> {[by |-> r, row |-> ReviewedMember(r), mode |-> "S"]}
      [] OTHER            -> {}

\* The UPDATE of a request scans, and so locks, the table.
Conflict_slip(l, k) ==
    /\ l.by # k.by /\ "X" \in {l.mode, k.mode}
    /\ l.row = k.row \/ {l.row, k.row} \subseteq RequestIds

Conflict(l, k) == l.row = k.row /\ l.by # k.by /\ "X" \in {l.mode, k.mode}

Blockers(r) == {l.by : l \in {l \in locks : \E k \in Wanted(r) : Conflict(l, k)}}

Take(r) == Blockers(r) = {} /\ locks' = locks \cup Wanted(r)

\* Handlers each of which waits for another one of them.
Waiting == {r \in InFlight : Blockers(r) # {}}
WaitCycles == {S \in (SUBSET Waiting) \ {{}} : \A r \in S : Blockers(r) \cap S # {}}
ShortestCycles == {S \in WaitCycles : \A T \in WaitCycles : T \subseteq S => T = S}

----------------------------------------------------------------------------
Init ==
    /\ members = Register
    /\ requests = [q \in RequestIds |-> IF q \in DOMAIN Seed THEN Seed[q] ELSE None]
    /\ notifications = {}
    /\ audit = {}
    /\ locks = {}
    /\ pc = [r \in Requests |-> "idle"]
    /\ call = [r \in Requests |-> None]
    /\ allowed = [r \in Requests |-> {}]
    /\ snapshot = [r \in Requests |-> None]
    /\ writes = [r \in Requests |-> {}]
    /\ serial = [r \in Requests |-> 0]
    /\ answer = [r \in Requests |-> "none"]
    /\ decider = [q \in RequestIds |-> None]
    /\ met = {}

Goto(r, step) == pc' = [pc EXCEPT ![r] = step] /\ UNCHANGED <<database, answer>>

Reply(r, a) == /\ pc' = [pc EXCEPT ![r] = "done"]
               /\ answer' = [answer EXCEPT ![r] = a]

Refuse(r, a) == Reply(r, a) /\ UNCHANGED database

EndTransaction(r) == /\ locks' = {l \in locks : l.by # r}
                     /\ writes' = [writes EXCEPT ![r] = {}]

NoTransaction == UNCHANGED <<locks, writes, serial>>

\* A client's call reaches one of the processes.
Arrive(r) ==
    /\ pc[r] = "idle"
    /\ Cardinality(InFlight) < MaxInFlight
    /\ \E c \in Calls :
        /\ call' = [call EXCEPT ![r] = c]
        /\ met' = met \cup {{q, r} : q \in {q \in InFlight : "file" \in {c.op, call[q].op}}}
        /\ Goto(r, IF c.op = "file" THEN "member" ELSE "authorize")
    /\ \E list \in AllowLists : allowed' = [allowed EXCEPT ![r] = list]
    /\ NoTransaction /\ UNCHANGED snapshot

(* requestProfileChange *)

\* The filter comes first; then the member's row is read.  (Nothing in the code
\* deletes a member, so the row is found.)
FindMember(r) ==
    /\ pc[r] = "member"
    /\ IF DOMAIN Proposed(r) = {}
       THEN Refuse(r, "invalid") /\ UNCHANGED snapshot
       ELSE /\ snapshot' = [snapshot EXCEPT ![r] = [values |-> members[call[r].member]]]
            /\ Goto(r, "open")
    /\ NoTransaction /\ UNCHANGED <<call, allowed, met>>

\* A request that is already open does not stop another one.
FindPendingForMember_slip(r) ==
    /\ pc[r] = "open"
    /\ Goto(r, "insert")
    /\ NoTransaction /\ UNCHANGED local

FindPendingForMember(r) ==
    /\ pc[r] = "open"
    /\ IF Pending(call[r].member) # {}
       THEN Refuse(r, "invalid")
       ELSE Goto(r, "insert")
    /\ NoTransaction /\ UNCHANGED local

\* One INSERT through the pool: it waits for the member's row, and keeps no lock.
CreateRequest(r) ==
    /\ pc[r] = "insert"
    /\ Blockers(r) = {}
    /\ requests' = [requests EXCEPT ![r] = Row(r)]
    /\ \E a \in {"ok", "error"} : Reply(r, a)
    /\ NoTransaction /\ UNCHANGED <<members, notifications, audit, decider, local>>

(* approveProfileChange and rejectProfileChange *)

\* authorize("members.edit"), requireApprover("profile_change"), assertCanReview.
Authorize(r) ==
    /\ pc[r] = "authorize"
    /\ IF call[r].staff \in Permitted \cap Approvers
       THEN Goto(r, "review")
       ELSE Refuse(r, "forbidden")
    /\ NoTransaction /\ UNCHANGED local

\* An approval that would apply nothing is refused.
ReadRequest(r) ==
    /\ pc[r] = "review"
    /\ LET id == call[r].id
           reviewable == /\ requests[id].status = "pending"
                         /\ call[r].op = "approve" => DOMAIN Applied(r) # {}
       IN
       \/ ~Exists(id) /\ Refuse(r, "not_found") /\ UNCHANGED snapshot
       \/ Exists(id) /\ ~reviewable /\ Refuse(r, "invalid") /\ UNCHANGED snapshot
       \/ /\ Exists(id) /\ reviewable
          /\ snapshot' = [snapshot EXCEPT ![r] = requests[id]]
          /\ Goto(r, IF call[r].op = "approve" THEN "apply" ELSE "update")
    /\ NoTransaction /\ UNCHANGED <<call, allowed, met>>

\* members.applyChanges goes through the pool instead of the transaction.
ApplyChanges_slip(r) ==
    /\ pc[r] = "apply"
    /\ Blockers(r) = {}
    /\ members' = [members EXCEPT ![ReviewedMember(r)] =
         [f \in Fields |-> IF f \in DOMAIN Applied(r) THEN Applied(r)[f] ELSE @[f]]]
    /\ pc' = [pc EXCEPT ![r] = "update"]
    /\ NoTransaction
    /\ UNCHANGED <<requests, notifications, audit, decider, answer, local>>

\* The repository checks every column against the allow-list once more; a column
\* outside it is a programming error, and the transaction is rolled back.
ApplyChanges(r) ==
    /\ pc[r] = "apply"
    /\ \/ /\ ~(DOMAIN Applied(r) \subseteq allowed[r])
          /\ Refuse(r, "scope_error") /\ EndTransaction(r)
       \/ /\ DOMAIN Applied(r) \subseteq allowed[r]
          /\ Take(r)
          /\ writes' = [writes EXCEPT ![r] = @ \cup {"members"}]
          /\ Goto(r, "update")
    /\ UNCHANGED <<serial, local>>

\* The UPDATE goes through the pool instead of the transaction.
UpdateRequest_slip(r) ==
    /\ pc[r] = "update"
    /\ Blockers(r) = {}
    /\ pc' = [pc EXCEPT ![r] = "notify"]
    /\ IF requests[call[r].id].status = "pending"
       THEN /\ requests' = [requests EXCEPT ![call[r].id].status = Verdict(call[r]),
                                            ![call[r].id].reviewedBy = call[r].staff]
            /\ decider' = [decider EXCEPT ![call[r].id] = r]
       ELSE UNCHANGED <<requests, decider>>
    /\ NoTransaction /\ UNCHANGED <<members, notifications, audit, answer, local>>

\* approve and reject: the UPDATE waits for the row and changes it only while it
\* is pending; the workflow ignores how many rows it changed.
UpdateRequest(r) ==
    /\ pc[r] = "update"
    /\ Take(r)
    /\ writes' = [writes EXCEPT ![r] =
         IF requests[call[r].id].status = "pending" THEN @ \cup {"requests"} ELSE @]
    /\ Goto(r, "notify")
    /\ UNCHANGED <<serial, local>>

CreateNotification(r) ==
    /\ pc[r] = "notify"
    /\ Take(r)
    /\ writes' = [writes EXCEPT ![r] = @ \cup {"notifications"}]
    /\ Goto(r, "audit")
    /\ UNCHANGED <<serial, local>>

\* AUTO_INCREMENT gives ids in the order of the INSERTs, also of those that are
\* rolled back.
RecordAudit(r) ==
    /\ pc[r] = "audit"
    /\ serial' = [serial EXCEPT ![r] = 1 + Cardinality({q \in Requests : serial[q] > 0})]
    /\ writes' = [writes EXCEPT ![r] = @ \cup {"audit"}]
    /\ Goto(r, "commit")
    /\ UNCHANGED <<locks, local>>

\* What the transaction wrote becomes visible at once.
Publish(r) ==
    LET id == call[r].id  m == ReviewedMember(r)  wrote == writes[r] IN
    /\ members' = IF "members" \in wrote
         THEN [members EXCEPT ![m] =
                [f \in Fields |-> IF f \in DOMAIN Applied(r) THEN Applied(r)[f] ELSE @[f]]]
         ELSE members
    /\ IF "requests" \in wrote
       THEN /\ requests' = [requests EXCEPT ![id].status = Verdict(call[r]),
                                            ![id].reviewedBy = call[r].staff]
            /\ decider' = [decider EXCEPT ![id] = r]
       ELSE UNCHANGED <<requests, decider>>
    /\ notifications' = IF "notifications" \in wrote
                        THEN notifications \cup {Notification(r)} ELSE notifications
    /\ audit' = IF "audit" \in wrote THEN audit \cup {AuditRecord(r)} ELSE audit

\* The client may be told of an error although the server committed.
Commit(r) ==
    /\ pc[r] = "commit"
    /\ Publish(r)
    /\ EndTransaction(r)
    /\ \E a \in {"ok", "error"} : Reply(r, a)
    /\ UNCHANGED <<serial, local>>

(* Failures *)

\* The catch branch does not roll back what was written.
Fail_slip(r) ==
    /\ r \in InFlight
    /\ Publish(r)
    /\ Reply(r, "error")
    /\ EndTransaction(r)
    /\ UNCHANGED <<serial, local>>

\* A statement fails, or waits too long for a lock: rollback, release, answer.
Fail(r) ==
    /\ r \in InFlight
    /\ Refuse(r, "error")
    /\ EndTransaction(r)
    /\ UNCHANGED <<serial, local>>

\* ER_LOCK_DEADLOCK is not noticed, both handlers wait.
BreakDeadlock_slip(r) == r \in {} /\ UNCHANGED vars

\* InnoDB finds handlers that wait for each other and rolls one of them back;
\* the client is told to retry.
BreakDeadlock(r) ==
    /\ \E S \in ShortestCycles : r \in S
    /\ Refuse(r, "busy")
    /\ EndTransaction(r)
    /\ UNCHANGED <<serial, local>>

\* The process dies: its handlers vanish, the server rolls their transactions
\* back, their clients get no answer.
Crash ==
    /\ InFlight # {}
    /\ pc' = [r \in Requests |-> IF r \in InFlight THEN "done" ELSE pc[r]]
    /\ answer' = [r \in Requests |-> IF r \in InFlight THEN "lost" ELSE answer[r]]
    /\ locks' = {}
    /\ writes' = [r \in Requests |-> {}]
    /\ UNCHANGED <<database, serial, local>>

Statement(r) ==
    \/ FindMember(r) \/ FindPendingForMember(r) \/ CreateRequest(r)
    \/ Authorize(r) \/ ReadRequest(r) \/ ApplyChanges(r) \/ UpdateRequest(r)
    \/ CreateNotification(r) \/ RecordAudit(r) \/ Commit(r)

Finished == (\A r \in Requests : pc[r] = "done") /\ UNCHANGED vars

Next == \/ \E r \in Requests : Arrive(r) \/ Statement(r) \/ Fail(r) \/ BreakDeadlock(r)
        \/ Crash
        \/ Finished

Spec == Init /\ [][Next]_vars

\* The database answers every statement that nothing blocks and breaks every
\* deadlock.  (A blocked statement waits; it may also fail, but need not.)
FairSpec == Spec /\ \A r \in Requests : WF_vars(Statement(r)) /\ WF_vars(BreakDeadlock(r))

----------------------------------------------------------------------------
(* Correctness. *)

Signers == Permitted \cap Approvers
Actions == {"profile_change.approved", "profile_change.rejected"}

\* Every variable has its type.
TypeOK ==
    /\ members \in [Members -> [Fields -> Values]]
    /\ requests \in [RequestIds -> Proposals \cup {None}]
    /\ notifications \subseteq [by : Requests, request : RequestIds,
                                says : {"approved", "rejected"}, member : Members]
    /\ audit \subseteq [id : Nat, by : Requests, request : RequestIds, member : Members,
                        actor : Staff, action : Actions, before : Documents,
                        after : Documents]
    /\ locks \subseteq [by : Requests, row : Members \cup RequestIds, mode : {"S", "X"}]
    /\ pc \in [Requests -> Steps]
    /\ call \in [Requests -> Calls \cup {None}]
    /\ allowed \in [Requests -> SUBSET Fields]
    /\ snapshot \in [Requests -> [values : [Fields -> Values]] \cup Proposals \cup {None}]
    /\ writes \in [Requests -> SUBSET {"members", "requests", "notifications", "audit"}]
    /\ serial \in [Requests -> Nat]
    /\ answer \in [Requests -> Answers]
    /\ decider \in [RequestIds -> Requests \cup {None}]
    /\ met \subseteq SUBSET Requests

Approvals == {a \in audit : a.action = "profile_change.approved"}

\* The audit rows that say something of a field of a member's row.
History(m, f) == {a \in Approvals : a.member = m /\ f \in DOMAIN a.after}

\* The register is what the audit trail says it is: a field holds what the last
\* audit record about it says was written, in the order of the record ids, or
\* what it held at the start (profileChangeWorkflow.js:27-29, "A member register
\* that changed with no record of who changed it is exactly the thing an
\* association cannot explain later").  It takes the transaction and the lock
\* on the member's row: without the lock, ids and commits would disagree.
AuditExplainsRegister ==
    \A m \in Members, f \in Fields :
        \/ History(m, f) = {} /\ members[m][f] = Register[m][f]
        \/ \E last \in History(m, f) :
             /\ \A a \in History(m, f) : a.id <= last.id
             /\ members[m][f] = last.after[f]

\* A decided request was decided by a signer, and the handler that decided it
\* left the notification of its member and the audit record that tell so.
ReviewIsAccounted ==
    TypeOK /\ \A q \in RequestIds :
        (Exists(q) /\ requests[q].status # "pending") =>
            /\ \E n \in notifications :
                 /\ n.by = decider[q] /\ n.request = q
                 /\ n.says = requests[q].status /\ n.member = requests[q].member
            /\ \E a \in audit :
                 /\ a.by = decider[q] /\ a.request = q
                 /\ a.actor = requests[q].reviewedBy /\ a.actor \in Signers
                 /\ a.action = IF requests[q].status = "approved"
                               THEN "profile_change.approved" ELSE "profile_change.rejected"

\* Whatever list a proposal was filed under, an approval writes something, and
\* only fields the approving process allows; the repository's own check never
\* has to stop it (profileChangeWorkflow.js:18-23).
AllowListHolds ==
    /\ \A a \in Approvals : DOMAIN a.after # {} /\ DOMAIN a.after \subseteq allowed[a.by]
    /\ \A r \in Requests : answer[r] # "scope_error"

\* Handlers that wait for each other are always an approval and a rejection of
\* one request that both found it pending: no other mix of calls can deadlock.
CycleIsARacedReview ==
    \A S \in WaitCycles : \E a, b \in S :
        /\ call[a].op = "approve" /\ call[b].op = "reject"
        /\ call[a].id = call[b].id

\* A member has one open request at a time (profileChangeWorkflow.test.js:175),
\* unless both were being filed at the same moment.
TwoOpenNeedOverlap ==
    \A m \in Members : \A p, q \in Pending(m) : p # q => {p, q} \in met

\* Nothing of a rejected request was written to the register
\* (profileChangeWorkflow.js:166, 205).
RejectedLeavesRegister ==
    \A a \in Approvals : requests[a.request].status # "rejected"

\* An approval's audit record shows what the register held before it, unless its
\* request was filed while another one was being filed or approved, or somebody
\* else had decided it already.
FiledInRace(q) == \E r \in Requests : {q, r} \in met /\ call[r].op \in {"file", "approve"}
BeforeIsExactUnlessRaced ==
    [][\A a \in Approvals' \ Approvals : \A f \in DOMAIN a.before :
         \/ a.before[f] = members[a.member][f]
         \/ FiledInRace(a.request)
         \/ requests[a.request].status # "pending"]_vars

\* Every request that arrives is answered, or its process died.
Answered == \A r \in Requests : (pc[r] # "idle") ~> (answer[r] # "none")

----------------------------------------------------------------------------
Proposal(row) == [member |-> row.member, requested |-> row.requested,
                  status |-> row.status, reviewedBy |-> row.reviewedBy]
Logged(a) == [id |-> a.id, by |-> a.by, request |-> a.request, member |-> a.member,
              action |-> a.action, actor |-> a.actor, after |-> a.after]

\* What the register shows of the tables.
proposals == [q \in RequestIds |-> IF Exists(q) THEN Proposal(requests[q]) ELSE None]
trail == {Logged(a) : a \in audit}

MemberLedger == INSTANCE MemberRegister WITH
    Ids <- RequestIds,
    Keys <- Requests,
    Serials <- 1..Cardinality(Requests),
    Initial <- [q \in RequestIds |-> IF q \in DOMAIN Seed THEN Proposal(Seed[q]) ELSE None],
    audit <- trail

\* The handlers implement the atomic register: each takes effect in one step, at
\* its single committing statement, or not at all, and the ids of the audit
\* records follow the order of the changes of each member.
ImplementsRegister == MemberLedger!Spec
=============================================================================
