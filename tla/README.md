# TLA+ verification of membership-platform-api

The API of a membership association: members book facilities and ask for changes of
their record, staff review both, everybody logs in and out, all of it multi-tenant over
one MySQL database. The handlers are asynchronous JavaScript. Every awaited SQL
statement is a point where the handlers of other requests, in the same process or in
another one behind the load balancer, may run. That is where this program is hard, and
what the modules here are about.

Paths below are relative to the repository: code is under `src/`, the schema is
`database/schema.sql`.

## 1. Inventory

| Part | State | Operations | Modelled in |
|---|---|---|---|
| Booking workflow: `services/bookingWorkflow.js`, `bookingRepository.js`, `modules/bookings.js`, `modules/admin/bookings.js` | `bookings` rows, row locks, one open transaction per handler | request, auto-confirm, approve, reject, cancel | `BookingWorkflow` |
| Profile change workflow: `services/profileChangeWorkflow.js`, `profileChangeRepository.js`, `memberRepository.js`, `modules/profile.js`, `modules/admin/profileChangeRequests.js` | `members`, `profile_change_requests`, locks | file, approve, reject | `ProfileChange` |
| Login, sessions, password reset: `modules/auth.js`, `modules/admin/auth.js`, `passwordResetService.js`, their repositories, `middleware/authenticate.js`, `services/notifier.js` | credentials, `auth_sessions`, `password_reset_tokens` | login, me, logout, logout everywhere, revoke a device, forgot, reset | `AccountAccess` |
| Audit and notifications: `auditRepository.js`, `notificationRepository.js`, `modules/notifications.js` | `audit_logs`, `notifications` | record, create; list, count, mark one or all read | the rows in the modules above; the inbox in `MemberDesk` |
| Approval policy: `middleware/authorize.js` | configuration | permission and policy | `Authorize` in the two workflow modules |
| Tenant scope: `data/tenantScope.js`, `data/global.js` | none; a cursor over the text of a statement | compile, insert, transaction | `TenantSql`; begin, commit, rollback in `ApiProcess` and the workflow modules |
| Connection pool and process: `config/db.js`, `server.js`, `modules/health.js` | the pool and its queue, HTTP connections, `shuttingDown` | take and give back a connection, probe, stop | `ApiProcess` |
| Request plumbing: `middleware/errorHandler.js`, `lib/http.js`, `lib/validate.js`, request context, logger, environment | none | pure functions of one request | the classes of answers in `ApiProcess`, times in `MemberDesk`; the rest is not |
| Facilities: `facilityRepository.js`, `modules/facilities.js` | `facilities`, `facility_closures` | lookup, closure check, availability view | the lookups in `BookingWorkflow`, the view in `Availability` |
| Guest passes: `modules/guestPasses.js` | `guest_passes` | issue, list, read, revoke | `MemberDesk` |
| Invoices: `modules/invoices.js` | none of its own | list, read | no: nothing changes state |
| Schema and provisioning scripts | tables | run by hand once | by the rows of the modules |

How the parts interact. A route authenticates (one SELECT), authorises, and calls a
service. The service reads through `req.scope`, which takes a pooled connection for each
statement, and decides; what must happen together it does in `scope.transaction`, which
holds one connection from BEGIN to COMMIT. The parts share the database and, within
a process, the connection pool with its queue of waiters; there is no in-memory cache and
no lock of the program's own, only what InnoDB does for an UPDATE and a foreign key.

What is hard, and which property each hazard has, is listed in `PROJECT.json`
(`hazards`). In short:

* every check (`SELECT`) is outside the statement or the transaction that acts on it, or
  in it but without a lock, so what was checked may be stale when it is used;
* the UPDATEs carry a status predicate, and several callers ignore how many rows changed;
* a transaction may fail at any statement, lose the answer to its COMMIT, or die with its
  process; the account operations have no transaction at all;
* two transactions may wait for each other's rows, and handlers for a connection to
  come free;
* the process may be told to stop while clients hold connections open, hang up, or the
  database stops answering;
* a statement's parameters are bound by position after a hand-written scan of its text;
* views are put together from several reads, and what they show may be over;
* configuration (who may sign, which fields may be edited) may differ between two
  processes during a deployment.

What makes each component correct:

* bookings: a slot is confirmed once; a decision, its notification and its audit record
  stand or fall together; a row makes legal moves only; only signers sign;
* profile changes: the register is explained by the audit trail; a rejected request
  changed nothing; only editable fields are written; one open request per member;
* accounts: a link works once and not after its time; a completed reset leaves no older
  session; a revoked session opens nothing; the lockout counts every wrong password;
* tenant scope: each statement is bound as it was written, with the scope's own tenant;
* the process: no connection goes back dirty, no answer invites a retry of what was
  committed, everybody is answered, a clean stop cuts off nobody who waits, and a stop
  comes to an end;
* guest passes and inbox: what is revoked or read is so once, by one request, and
  everybody acts on their own rows;
* availability: a slot shown free was free, a slot shown taken was taken, at some time
  while the view was being read.

## 2. Modules

| Module | What it is |
|---|---|
| `BookingLedger` | what the booking workflow promises: every operation in one atomic step |
| `BookingWorkflow` | the handlers, one action per awaited statement; `ImplementsLedger` is the refinement |
| `BookingWorkflow_proofs` | theorems about it |
| `MCBookingReview`, `MCBookingRequest` | instances for TLC |
| `MemberRegister` | what the profile workflow promises |
| `ProfileChange` | its handlers, with shared and exclusive row locks and deadlocks; `ImplementsRegister` is the refinement |
| `ProfileChange_proofs` | theorems about it, the refinement among them |
| `MCProfileReview`, `MCProfileRequest` | instances for TLC |
| `AccountAccess` | login, sessions, reset, one action per statement |
| `AccountAccess_proofs`, `MCAccountAccess` | theorems, instance |
| `TenantSql` | the scan of a statement, one pass of its loop per action, beside a lexer of the database |
| `TenantSql_proofs` | what is bound, for texts of any length |
| `TenantScan_proofs` | that the scan and the lexer agree, for texts of any length |
| `MCTenantSql` | instance |
| `ApiProcess` | handlers as sequences of database units, the pool, HTTP connections, the shutdown |
| `ApiProcess_proofs`, `MCApiProcess` | theorems, instance |
| `MemberDesk` | guest passes and the inbox, one action per operation |
| `MemberDesk_proofs`, `MCMemberDesk` | theorems, instance |
| `Availability` | the availability view against the tables it reads |
| `Availability_proofs`, `MCAvailability` | theorems, instance |

### How a model corresponds to the code

**A handler** is a request `r` with a program counter `pc[r]`, the name of the statement
it awaits. An action runs that statement on the committed tables and then the JavaScript
up to the next `await`: `CheckClash` is `findOverlapping` together with the `if` that
throws the conflict. A thrown error is a `Reply` with the kind of the error. `Arrive`
picks a call from `Calls`; each request id is used once.

**The tables** are functions from ids to rows, `None` where there is no row. The row that
request `r` inserts has id `r` (`AUTO_INCREMENT`, at most one insert per handler).

**A transaction** buffers which tables it has written in `writes[r]`. Since no
statement of a workflow reads what its own transaction wrote, the rows are computed at
`Commit` by `Publish`, from the row that the held lock has kept unchanged. An UPDATE
takes the row's lock (`lock`, or `locks` with modes in `ProfileChange`), also when its
status predicate matches nothing, and `EndTransaction` lets go of it. SELECTs take no
lock. The one plain SELECT inside a transaction, the re-check of `createAutoConfirmed`,
sees what was committed when it ran, because it takes the transaction's snapshot.

**Failure.** `Fail` is any statement that throws: the transaction is rolled back and
the client told. `Commit` may commit and answer an error (its acknowledgement was
lost). `Crash` ends every handler in flight at once, with its transactions. When one
process of several dies, the database sees its handlers fail and the others go on: that
is `Fail`. In `AccountAccess` nothing is in a transaction, so any update may
take effect and still be answered with an error, and what was done before a failure
stays. There the last statement of a handler and its answer are two steps (`Answer`): a
process that dies between them leaves all of the work and no answer.

**Deadlock.** `ProfileChange` has the lock conflicts of an approval (member's row, then
request's row) and a rejection (request's row, then, through the foreign key of its
notification, a shared lock of the member's row). `BreakDeadlock` rolls one handler of a
shortest cycle back, which is what InnoDB does; the error handler says "busy".

**Configuration.** `Permitted` and `Approvers` are two sets of staff. The allow-list of
editable fields is chosen per handler from `AllowLists`, because two processes of a
deployment may disagree; `AllowLists` with one element is the ordinary case.

**History variables** record what a property needs and no action reads: `decider` (which
request decided a row), `base` (what was confirmed when a handler last checked),
`version`/`seen`/`change` (which password a login compared with, which one a reset made),
`met` (which handlers were ever in flight together), `misses`, `barred` and `unlocked` (wrong
passwords since the counter was zeroed, who read the account after too many, and who
zeroed a counter that was full),
`took` (which rows a statement changed), `kept` (whose transaction the server committed),
`always` and `ever` (what held a slot while a view was being read), `stale` (what was presented was dead on arrival), `swept` (which rows a sweep found).

**The scan.** `TenantSql` takes a text as a sequence of symbols, one for each kind of
character the scan tells apart. What the database will make of a text is a separate
lexer (`Lexed` applies `Read`, one symbol at a time), so that the scan, which looks ahead and jumps,
is compared with something that does not.

**The pool.** In `ApiProcess` a request is the sequence of its database units, a
statement of its own or a transaction; what they do to tables is in the other modules.
`GiveBack` hands a connection to the first waiter. `getPool()` makes a new pool when the
variable is null, which it is again after `closePool()`, so a connection is a pair of pool
and number. A client is one HTTP connection; when it hangs up its handler runs on. A
lost connection takes its transaction along. It is assumed that a server which is
connected does not refuse ROLLBACK. The timer of the shutdown is `unref`ed, which matters
only to a process that has nothing left to do.

**One statement, one step.** The operations of `MemberDesk` are single statements that
commit by themselves. `Reply` loses the answer or not; a call that is sent again is one
more request with the same call. `NOW()` of a statement is the request that ran it.

Abstractions. One tenant in the workflow modules: that no statement reaches another
tenant's rows is for `TenantSql` to show. Dates are day numbers and times whole hours,
except in `Availability`, which counts seconds, and `MemberDesk`, which compares them as
written; member, staff and facility rows are constants, except what an
operation writes. Password hashes are the passwords; a fresh random name is a fresh id.
The soft-delete columns are left out, no operation sets them.

Definitions whose name ends in `_slip` are plausible mistakes in the definition that
follows them: a dropped guard, a forgotten statement, a wrong comparison. Putting a slip
in the place of its original violates the property it is paired with in `PROJECT.json`
(`mutants`), which is how we know that the properties can fail.

## 3. Runs

| Run | Bounds | Shows |
|---|---|---|
| `booking_review` | 3 requests at once, 2 overlapping pending bookings, 6 calls | decisions are atomic, accounted for and signed; rows make legal moves; refinement of the ledger; every request is answered |
| `booking_request` | 3 requests at once, empty table, 4 kinds of facility and slot | a double booking needs handlers that overlap, auto-confirmation included; refinement of the ledger |
| `profile_review` | 3 calls at once: reviews of 2 pending requests of one member, filing of a third; 2 allow-lists | audit explains the register, allow-list, which calls can deadlock, refinement |
| `profile_request` | 3 requests at once, one change request open | two open requests and a stale before/after need requests that overlap; every request is answered although handlers deadlock |
| `account_access` | 3 requests at once, 2 accounts, 3 sessions, 2 links, lockout at 2 | links work once, dead sessions stay dead, sweeps, the lockout, sign-outs and their audit |
| `tenant_sql` | all texts of up to 5 symbols of 10 kinds, and of 6 of the kinds that make literals or comments; up to 2 parameters | what is sent is bound as it was written, and an INSERT binds each value to its column (`SentAsWritten`, `ScopeBinds`, `InsertBindsItsRow`); what is refused should be |
| `api_process` | 3 clients, a pool of 1 connection, transactions and readiness probes | connections, answers, shutdown |
| `member_desk` | 3 calls, 2 notifications, 1 open pass; a member, a dependent of the same number, another member | what is read or revoked is so once (`ReadingsAddUp`, `RevokedOnce`); own rows only (`OwnDeskOnly`); windows of time (`WindowsAreOpen`) |
| `availability` | 2 bookings, 1 closure, 2 facilities, spans that end within a minute or at midnight | what a view shows was so while it was being read |
| `double_booking_approvals`, `rejected_but_applied`, `session_survives_reset` | 2 or 3 requests | the findings of section 6: each ends in a violation, of `NoDoubleBooking`, `RejectedLeavesRegister` and `SessionsDieWithPassword` |

The type invariant of a module, where it is not checked by its own name, is the first
conjunct of a property of its run: of `ReviewIsAccounted`, `LinkWorksOnce`,
`SentAsWritten`, `ConnectionsAccounted`, `RevokedOnce`, `SlotsFillTheDay`.

Why the bounds are enough to be interesting. A race here is between two handlers; the
third makes the other order, the failed one or the late one. The review runs start from
two open rows because three requests would otherwise be spent on making them: two
overlapping pending bookings are what two members leave behind (a pending booking blocks
only confirmed slots), and two open change requests of one member what the race of
section 6 leaves behind. The
account run starts with open sessions and delivered links for the same reason;
`MaxFailed` is 2, so that the lockout happens and a login can race it. `MayExpire` names
the link that expires. A pool of one connection is the smallest at which handlers wait,
and three clients make a queue in which order matters; two pools are all there can be,
since the variable is set to null once. Six symbols hold an unterminated literal with an
escaped quote before a marker, and a comment that is closed by the star that opened it,
or not. Calls that differ only in what no action looks at are left out. After a view of
`availability` is answered the tables stay as they are: nothing reads them again.

Runs of `Spec` with symmetric request ids use `SYMMETRY`; their call sets are closed
under the permutation. Runs with liveness do not.

Fairness. `FairSpec` has weak fairness of each request's `Statement`: MySQL answers a
statement that is not waiting for a lock, and Node runs the continuation of a settled
promise. `ProfileChange` adds weak fairness of `BreakDeadlock`: InnoDB looks for cycles
when a lock must wait. Nothing is assumed about arrivals, failures and crashes. In `ApiProcess` it
adds that idle HTTP connections are closed after their timeout and that a timer fires;
a statement is answered unless the database is stuck. Weak
fairness is enough because a handler that waits for a row stays in line until the holder
ends. `Answered` excludes that a failed or refused transaction keeps its
locks, for profile changes, that a deadlock lasts, and, in `ApiProcess`, that a handler
waits for a connection nobody will give back. `Stops` holds with clients that never leave
and a database that never answers, because of the timer. `AccountAccess` and `MemberDesk`
have no liveness property: their handlers never wait for each other.

## 4. What is proved

`BookingWorkflow_proofs`, for every value of the constants that satisfies the
assumptions: any number of requests, bookings, facilities, slots.

* `TypeCorrect`: `TypeOK`.
* `MovesHold`: `StatusMoves`, whatever interleaves.
* `AccountHolds`: `DecisionIsAccounted`.
* `SignedHolds`: `SignedByApprover`.
* `OverlapNeeded`: `DoubleBookingNeedsOverlap`. The absence of double bookings is not a
  theorem, it is false (section 6); this is what holds instead.
* `LedgerHolds`: `ImplementsLedger`, the refinement of the atomic ledger.
* `OkHolds`: `OkIsSettled`. A booking created exists, one cancelled blocks no slot again,
  one decided never is pending again and its audit record is there. The decision of the
  row may be another handler's (section 6).
* `SerialNoDoubleBooking`, `SerialAuditTrue`: if at most one request is ever in flight,
  slots are never double booked and the audit trail is true.

The argument. `TypeOK` is not inductive. A step of a handler is typed because its call
is of the kind its step belongs to (`CallMatchesStep`), the row it will write was seen to
exist (`Learnt`), the transaction's buffer matches the step it has reached (`Buffered`)
and it holds the locks of the rows it will publish (`Locked`). Their conjunction `Inv`
is inductive (`InitInv`, `StepInv`). `Past` adds what histories need: only a handler
that has ended left a decision, a notification or an audit record, so nobody adds to them
later. For the overlap theorem `HandlersChecked` says that from its check on a handler's
candidate overlaps none of the bookings the check saw confirmed (`base`), and
`ConfirmedChecked` that a confirmed booking overlaps none that its decider saw; two
confirmed bookings that overlap were therefore each missed by the check of the other.
The serial theorems add `AllUndisturbed`: what the one handler in flight has read is
still so. `AllToldOk` says that a handler which answered "ok" has ended and its booking is
at least as far as the answer said. Each step lemma has one step per action.

`ProfileChange_proofs`, for any members, fields, values, staff and allow-lists:

* `RegisterIsExplained`: `AuditExplainsRegister`; `ReviewsAreAccounted`:
  `ReviewIsAccounted`; `AllowListIsKept`: `AllowListHolds`.
* `CyclesAreRacedReviews`: `CycleIsARacedReview`. Only an approval and a rejection of one
  request deadlock.
* `TwoOpenOverlapped`: `TwoOpenNeedOverlap`, and `BeforeIsExact`:
  `BeforeIsExactUnlessRaced`. Both are about how the races come about, so they assume that
  none is over when the system starts: no member has two open requests (`SeedsApart`), and
  an open request shows the row as it is (`SeedsExact`). The run `profile_request` starts
  so; `profile_review` starts from two open requests, and neither is checked there.
* `RegisterHolds`: `ImplementsRegister`, the refinement of the atomic register.

The argument. The audit trail can explain the register only if ids of audit records come
in the order in which approvals of one member commit, and they do because the record is
written while the member's row is locked. So the invariant has the locks with their modes
(`Locked`, `Locking`, `NoConflict`), what each transaction has buffered, and that who is
about to commit has a higher id than all who changed that member (`Numbered`).

`AccountAccess_proofs`, for any accounts, sessions, links and limit of failures:

* `LinkHolds`: `LinkWorksOnce`; `ResetHolds`: `ResetIsAccounted`; `SurvivorHolds`:
  `SurvivorWasInFlight`; `LinksHold`: `TwoLinksNeedOverlap`.
* `SignOutIsKept`: `SignOutHolds`; `LockoutHolds`: `LockoutCountsEveryFailure`;
  `SignOutAuditHolds`: `AuditFollowsSignOut`.

The argument. Nothing is in a transaction here, so each handler is reasoned about by
itself: `Sound` says what it has already done to the tables, and that stays done because
a used link, a revoked session or a record is never taken back. `Explains` is what a
handler has done to a link that is used, for the second half of `ResetIsAccounted`. The one fact about two
handlers is `OneClaim`: of all that present a link, one gets past the statement that
claims it.

`MemberDesk_proofs`, for any members, rows and requests: `ReadingsHold`
(`ReadingsAddUp`), `RevocationHolds` (`RevokedOnce`), `WindowsHold` (`WindowsAreOpen`) and
the action property `DesksAreApart` (`OwnDeskOnly`). The counts are those of finite sets;
what a request was told of a pass stays true because rows are not deleted.

`Availability_proofs`, for any facility, bookings, closures and order of the two queries:
`FreeHolds` (`FreeWasFree`), `TakenHolds` (`TakenWasTaken`) and `SlotsFill`
(`SlotsFillTheDay`). `SeenIfThere` says that what held all the time is in what the query of
its table returned, `ThereIfSeen` that what a query returned held at some time. The rest is
the arithmetic of cutting a time to minutes.

`TenantSql_proofs`, for texts and parameter lists of any length:

* `ScopeAlwaysBinds`: `ScopeBinds`. The values bound so far are the caller's first
  parameters, in their order, with the scope's tenant at every other place, one place per
  marker; and what is sent has taken all parameters and the tenant at least once. The
  order is stated by a strictly increasing map from parameters to places. The invariant
  adds to it only that the counters are numbers and that no more parameters are used than
  there are; each step extends the map or leaves it.

`TenantScan_proofs`, also for any length, and any number of columns:

* `SentHolds`: `SentAsWritten`. The scan, which looks ahead and jumps, and the lexer, which
  reads symbol by symbol, take the same symbols for code.
* `InsertHolds`: `InsertBindsItsRow`.

The argument. Between two steps of the scan the lexer's mode is known from where the scan
stands and from `quote` (`InStep`); what is copied is the text with its markers replaced
(`Copied`); and what is bound is one value for each place passed, found by its rank
(`Counted`). A comment is skipped in one step of the scan and many of the lexer
(`LineModes`, `BlockModes`). For an insert `InsertPlaces` says where the text that it writes
has its marker and its placeholders. The lexer and `Listed` are recursive functions of a
finite domain. That they have values, and what those are, is proved without a rule of
induction: a set of numbers that is not empty has a least one (`LeastNatural`, from the
well-foundedness of <), and the least position at which a claim fails cannot be.

`ApiProcess_proofs`, for any number of clients, connections and kinds of requests:

* `StopIsClean`: `CleanStop`. The strengthening `StopInv` says that a pool is ended, and
  code 0 returned, only in stages that begin when the last HTTP connection is closed, and
  that none is opened after it.
* `ConnectionsAreClean`: `CleanConnections`. Its invariant adds which handler holds which
  connection: at most one, and only while it is in a unit, and that a waiter is in one
  queue, once, and in no unit, so that whom a connection is handed to begins a unit of its
  own.
* `ConnectionsAreAccounted`: `ConnectionsAccounted`. It adds that nobody waits while a
  connection is free.
* `AnswersFit`: the action property `AnswerFitsCommit`, from which units a handler has
  behind it. Only "Service temporarily unavailable" leaves open what was kept.

The assumptions are those named in the modules, which TLC evaluates on every run: calls
and seeds are well formed and have ids of their own, `None` is none of the values,
`Requests` and `Clients` are finite. Three say something of the code: the columns of an
insert are the keys of an object, hence distinct (`InsertAssumption`); a handler of
`ApiProcess` does nothing in the database after its transaction (`ProcessAssumption`), which
holds of the services' handlers and of those that have no transaction; and a guest pass's
times are two or three numbers below 60, as the validation lets them through
(`DeskAssumption`).

The inductive invariants were checked by TLC on the runs' instances before they were
proved. Every invariant and action property of section 3 whose run passes has a theorem.
Only model-checked: the liveness properties (`Answered` of the two workflows and of the
process, `Stops`), since fairness is out of the prover's reach.

## 5. Reading the properties

* *Refinement.* `ImplementsLedger` and `ImplementsRegister` say that each handler takes
  effect in one step, its commit or its single statement, or not at all: it covers
  partial writes, a rollback that does not, an UPDATE that overwrites a decision. The
  abstract modules are deliberately no stronger than the code: their `Approve` does not
  check for a clash.
* *Overlap needed.* `DoubleBookingNeedsOverlap`, `TwoOpenNeedOverlap`,
  `BeforeIsExactUnlessRaced`, `CycleIsARacedReview`, `SurvivorWasInFlight` and
  `TwoLinksNeedOverlap` bound a flaw the code has: it takes two handlers in flight
  together, and which.
* *Answers.* `OkIsSettled`, `ResetIsAccounted`, `SignOutHolds`, `AnswerFitsCommit`,
  `ReadingsAddUp` and `RevokedOnce` relate what a client was told to what the database
  holds then and later.
* *Both sides of a reading.* `FreeWasFree` and `TakenWasTaken` say of a view that is not
  a snapshot what it is nevertheless good for. `SentAsWritten` says what is refused and
  what is not.
* *One-sided.* `AuditFollowsSignOut` is what the code keeps of "both or neither": a record
  is never about a session that is still open, and "ok" is never said without a record
  where one is due.

## 6. Findings

Each is a run that ends in a violation; the trace is the argument.

* `double_booking_approvals`: two approvals of overlapping bookings both look for a clash
  before either commits, and both confirm. The same holds of two
  auto-confirmations, whose re-check is inside the transaction but is a SELECT that locks
  nothing (`bookingWorkflow.js:163`).
* `rejected_but_applied`: an approval that read `pending` before a rejection committed
  writes the member's row although the request stays rejected.
* `session_survives_reset`: a login that compared with the old password inserts its
  session after a reset swept the account.

Met while modelling, without a run of their own:

* two reviews of one booking race: the second UPDATE changes no row, its notification and
  audit record are written all the same (`bookingWorkflow.js:251`, against
  `bookingWorkflow.js:35-38`). `AuditTellsTheTruth` states the promise; the theorem
  `SerialAuditTrue` shows that it takes requests in flight together to break it;
* two submissions of one member both find no open request
  (`profileChangeWorkflow.js:77`, against `profileChangeWorkflow.test.js:175`);
  `TwoOpenNeedOverlap` shows that it takes two at once;
* the availability view drops seconds, which a booking may have (`validate.js:23`): a slot
  from ten is shown free while a booking until 10:00:30 is queued or confirmed, and is then
  refused (`facilities.js:16`, against the purpose given at `facilities.js:40-42`);
  `FreeWasFree` bounds it by a minute. The view does not look at
  `max_advance_days`, nor the booking check at the opening hours;
* the scan takes `--` for a comment also without a blank after it, and does not know `#`
  comments, unlike MySQL; no statement of the repository has either;
* a COMMIT whose answer is lost with the connection is answered 503, "Service temporarily
  unavailable", although the transaction was kept (`errorHandler.js:32-33`): doing it again
  does it twice, and `AnswerFitsCommit` says that no other answer does that;
* when the statement after the claim of a link fails, the link is burnt and the password is
  not changed, and when the sweep fails the password is changed; both are answered with an
  error (`passwordResetService.js:117-129`). The comment at lines 132-134 guards the caller
  only against a failure of the audit; `ResetIsAccounted` is what holds of the rest;
* a handler whose client hung up outlives the drain of the server; it may create a second
  pool after `closePool()` and is cut off by `process.exit(0)` (`server.js:50-60`):
  `CleanStop` is as much as holds;
* a POST of a guest pass whose answer was lost, sent again, issues a second pass
  (`guestPasses.js:65`);
* the comment that nothing else writes to `audit_logs` (`auditRepository.js:21-22`)
  is not so: `passwordResetRepository.js` does, having no scope;
* two simultaneous requests for a link leave two working links
  (`passwordResetService.js:65-76`, "one live token per principal"): the run
  `account_access` shows that it takes such an overlap (`TwoLinksNeedOverlap`);
* revocations of sessions write their audit record outside a transaction, and a member's
  own logout writes none (`modules/auth.js:240-248`), although `docs/architecture.md:426-428`
  promises a row in the same transaction for every session revocation;
* a change request whose only value is spaces is filed as an empty string and can never
  be approved, because the filter at approval drops empty values
  (`profileChangeWorkflow.js:38-48`);
* `failed_attempts` is set to zero by the success of a login that was compared before
  the limit was reached; `LockoutCountsEveryFailure` says what the limit does guarantee, and that only a login
  which read the account before can do so;
* a notification of the booking workflow takes a shared lock of the member's row
  (`database/schema.sql`, the foreign key of `notifications`), which a profile approval
  may hold: the two workflows can wait for each other, in that direction only.

## 7. Plan

Done, in this order: `BookingLedger`, `BookingWorkflow`, its proofs, `MemberRegister`,
`ProfileChange`, `AccountAccess`, `TenantSql`, `ApiProcess`, `MemberDesk`, `Availability`,
and the proofs of each. Next:

1. An abstract module for accounts (a principal with a password, a link and a set of
   sessions, changed atomically), and the proof that `AccountAccess` implements it when
   requests do not overlap.
2. The serial counterparts of the overlap theorems for the profile workflow: handled one at
   a time, a rejected request leaves the register alone and a member has one open request.
3. The per-request load of staff permissions, and a role that changes meanwhile.

## 8. Not modelled

* `app.js` and `routes.js`: the order of third-party middleware; rate limiting, the HTTP
  server and the driver are libraries, modelled by what the code relies on.
* `tenantGuard.js`, `requestContext.js`, `logger.js`, `env.js`, and of `validate.js` all
  but times: one pass over one request or over the environment, with no state another step
  could see; unit tests reach them.
* `modules/invoices.js`, the audit listings and the reading routes of the admin side: they
  show rows and change none. No code of the repository writes an invoice.
* The provisioning scripts: run by hand, once, by one person.
* Wording, formatting, logging and its redaction; the randomness of tokens and pass codes.
* What an operator does to rows by hand, except closures and facilities in `Availability`
  and guests let in in `MemberDesk`.
* Of modelled code: the statuses `completed` of a booking and `expired` of a guest pass,
  which no code of the repository writes; the checks that a caller passes an array or an
  object (`tenantScope.js:72-74`, `248-250`); a login whose profile row is missing and a
  change request of a member that is (`auth.js:95-99`, `profileChangeWorkflow.js:75`), rows
  the models have as constants; defaults for columns that are NOT NULL
  (`facilities.js:54-56`); a ROLLBACK refused on a connection that lives (section 2).
