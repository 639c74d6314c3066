----------------------------- MODULE ApiProcess -----------------------------
(***************************************************************************)
(* One API process: the requests it is handling, the connection pool they  *)
(* share, and the shutdown.  src/server.js, config/db.js, data/global.js,  *)
(* the transaction() of data/tenantScope.js, middleware/errorHandler.js,   *)
(* lib/http.js and modules/health.js.                                      *)
(*                                                                         *)
(* What the handlers do to the tables is in BookingWorkflow, ProfileChange *)
(* and AccountAccess; here a request is the sequence of its database units:*)
(* a "query" is a statement of its own through the pool, a "tx" is a       *)
(* transaction on a connection it keeps.  A client has one HTTP connection;*)
(* when it hangs up, its handler runs on.                                  *)
(*                                                                         *)
(* The pool is the library's (mysql2): Limit connections, waiters in order,*)
(* no bound on the queue.  getPool() makes one when there is none, so      *)
(* there may be a second one, and a connection is a pair <<pool, number>>. *)
(***************************************************************************)
EXTENDS Naturals, Sequences, FiniteSets

CONSTANTS
    Clients,   \* HTTP connections, with at most one request on each
    Requests,  \* kinds of requests
    Units,     \* Units[r]: the units of a request of kind r, in order
    Asks,      \* bound: Asks[c] are the requests client c sends
    Probes,    \* the kinds that are GET /health/ready
    Limit,     \* connectionLimit
    None

Pools == 1..2
Connections == Pools \X (1..Limit)
Stages == {"serving", "draining", "closing", "exited"}
Steps == {"none", "next", "queue", "query", "begin", "inside", "commit",
          "rollback", "failed"}
\* "refused" is a driver error that is the client's: a duplicate, a reference to
\* nothing, a value too long.
Errors == {"ApiError", "guard", "busy", "refused", "unreachable", "other"}
Answers == {"ok", "rejected", "retry", "unavailable", "internal"}

ASSUME ProcessAssumption ==
    /\ IsFiniteSet(Clients) /\ Limit \in Nat \ {0} /\ Probes \subseteq Requests
    /\ Units \in [Requests -> Seq({"query", "tx"})] /\ Asks \in [Clients -> SUBSET Requests]
    \* After its transaction a handler only answers.
    /\ \A r \in Requests : \A i \in DOMAIN Units[r] : Units[r][i] = "tx" => i = Len(Units[r])
    /\ None \notin Requests \cup Clients \cup Errors \cup Answers /\ None \notin {0, 1}

VARIABLES
    stage,    \* "serving" until shutdown() sets shuttingDown
    code,     \* exit code
    database, \* "up", or "stuck": it answers nothing any more
    pool,     \* the variable of config/db.js, 0 when null
    ended,    \* pools on which end() was called
    owner,    \* who holds each connection
    open,     \* connections with a transaction open at the server
    queue,    \* who waits for a connection of each pool
    link,     \* the HTTP connection of each client
    kind,     \* what each client asked for last
    pc, left, \* where each handler is, the units it has left
    err,      \* the error on its way to errorHandler
    kept,     \* handlers whose transaction the server committed
    answer    \* what each connected client was last told

process == <<stage, code>>
shared == <<pool, ended, owner, open, queue>>
local == <<link, kind, pc, left, err, kept, answer>>
vars == <<process, database, shared, local>>

TypeOK ==
    /\ stage \in Stages /\ code \in {0, 1, None} /\ database \in {"up", "stuck"}
    /\ pool \in Pools \cup {0} /\ ended \subseteq Pools \ {pool}
    /\ owner \in [Connections -> Clients \cup {None}] /\ open \subseteq Connections
    /\ queue \in [Pools -> Seq(Clients)]
    /\ link \in [Clients -> {"closed", "idle", "busy"}]
    /\ kind \in [Clients -> Requests \cup {None}]
    /\ pc \in [Clients -> Steps] /\ left \in [Clients -> Seq({"query", "tx"})]
    /\ err \in [Clients -> Errors \cup {None}] /\ kept \subseteq Clients
    /\ answer \in [Clients -> Answers \cup {None}]

Init ==
    /\ stage = "serving" /\ code = None /\ database = "up"
    /\ pool = 0 /\ ended = {} /\ owner = [k \in Connections |-> None]
    /\ open = {} /\ queue = [p \in Pools |-> <<>>]
    /\ link = [c \in Clients |-> "closed"] /\ kind = [c \in Clients |-> None]
    /\ pc = [c \in Clients |-> "none"] /\ left = [c \in Clients |-> <<>>]
    /\ err = [c \in Clients |-> None] /\ kept = {}
    /\ answer = [c \in Clients |-> None]

Running == stage # "exited"
Alive == Running /\ database = "up"
Waiting(c) == link[c] = "busy"
Held(c) == {k \in Connections : owner[k] = c}

-----------------------------------------------------------------------------
(* The pool.                                                               *)

Idle(p) == {k \in Connections : k[1] = p /\ owner[k] = None}
FirstStep(units) == IF Head(units) = "query" THEN "query" ELSE "begin"

\* The next pool getPool() would create; a third is never needed.
Created == IF pool = 0 /\ ended = {} THEN 1 ELSE 2
CurrentPool == IF pool # 0 THEN pool ELSE Created

\* The handler asks the current pool for a connection, for one statement or
\* for a transaction; a new connection may be refused.
Acquire(c) ==
    /\ Running /\ pc[c] = "next" /\ left[c] # <<>>
    /\ pool' = CurrentPool
    /\ \/ /\ \E k \in Idle(CurrentPool) : owner' = [owner EXCEPT ![k] = c]
          /\ pc' = [pc EXCEPT ![c] = FirstStep(left[c])]
          /\ UNCHANGED <<queue, err>>
       \/ /\ database = "up" /\ Idle(CurrentPool) # {}
          /\ pc' = [pc EXCEPT ![c] = "failed"]
          /\ err' = [err EXCEPT ![c] = "unreachable"]
          /\ UNCHANGED <<owner, queue>>
       \/ /\ Idle(CurrentPool) = {}
          /\ pc' = [pc EXCEPT ![c] = "queue"]
          /\ queue' = [queue EXCEPT ![CurrentPool] = Append(@, c)]
          /\ UNCHANGED <<owner, err>>
    /\ UNCHANGED <<process, database, ended, open, link, kind, left, kept, answer>>

\* Nobody is called from the queue.
GiveBack_slip(c, s) ==
    /\ owner' = [k \in Connections |-> IF owner[k] = c THEN None ELSE owner[k]]
    /\ pc' = [pc EXCEPT ![c] = s] /\ UNCHANGED queue

\* Handler c gives its connection back and goes on at step s; the first of the
\* queue has it next.  A pool that was ended serves nobody.
GiveBack(c, s) ==
    \E k \in Held(c) :
        LET waiters == queue[k[1]]
        IN  IF waiters = <<>> \/ k[1] \in ended
            THEN /\ owner' = [owner EXCEPT ![k] = None]
                 /\ pc' = [pc EXCEPT ![c] = s]
                 /\ UNCHANGED queue
            ELSE /\ owner' = [owner EXCEPT ![k] = Head(waiters)]
                 /\ pc' = [pc EXCEPT ![c] = s,
                                     ![Head(waiters)] = FirstStep(left[Head(waiters)])]
                 /\ queue' = [queue EXCEPT ![k[1]] = Tail(@)]

\* A connection that is lost, or quit because its pool was ended, takes the
\* transaction that was open on it along.
Cut(c) == \E k \in Held(c) : k[1] \in ended

-----------------------------------------------------------------------------
(* A unit of database work.                                                *)

Done(c) == left' = [left EXCEPT ![c] = Tail(@)]
Raise(c, e) == err' = [err EXCEPT ![c] = e]
Stays == UNCHANGED <<process, database, pool, ended, link, kind, answer>>

\* A statement through the pool: answered, or refused, or the connection lost.
Query(c) ==
    /\ Alive /\ pc[c] = "query" /\ Stays /\ UNCHANGED <<open, kept>>
    /\ \/ ~Cut(c) /\ GiveBack(c, "next") /\ Done(c) /\ UNCHANGED err
       \/ /\ \E e \in {"busy", "refused", "other", "unreachable"} :
                Raise(c, e) /\ (Cut(c) => e = "unreachable")
          /\ GiveBack(c, "failed") /\ UNCHANGED left

Begin(c) ==
    /\ Alive /\ pc[c] = "begin" /\ Stays /\ UNCHANGED <<left, kept, owner, queue>>
    /\ \/ /\ ~Cut(c) /\ open' = open \cup Held(c)
          /\ pc' = [pc EXCEPT ![c] = "inside"] /\ UNCHANGED err
       \/ /\ pc' = [pc EXCEPT ![c] = "rollback"]
          /\ Raise(c, "unreachable") /\ UNCHANGED open

\* A statement of the callback takes a connection of its own from the pool.
Callback_slip(c) ==
    /\ Alive /\ pc[c] = "inside" /\ Stays /\ UNCHANGED <<left, kept, owner, queue>>
    /\ Idle(CurrentPool) # {}
    /\ pc' = [pc EXCEPT ![c] = "commit"] /\ UNCHANGED <<err, open>>

\* The callback: its statements, which all go through this connection, and its
\* own refusals.  A deadlock has the server roll the transaction back, a lock
\* that never came only ends the statement.
Callback(c) ==
    /\ Alive /\ pc[c] = "inside" /\ Stays /\ UNCHANGED <<left, kept, owner, queue>>
    /\ \/ /\ pc' = [pc EXCEPT ![c] = "commit"] /\ UNCHANGED <<err, open>>
       \/ /\ pc' = [pc EXCEPT ![c] = "rollback"]
          /\ \/ \E e \in {"ApiError", "guard"} : Raise(c, e) /\ UNCHANGED open
             \/ \E e \in {"busy", "refused", "other"} : ~Cut(c) /\ Raise(c, e) /\ UNCHANGED open
             \/ Raise(c, "busy") /\ open' = open \ Held(c) /\ ~Cut(c)
             \/ Raise(c, "unreachable") /\ open' = open \ Held(c)

\* The commit is not awaited.
Commit_slip(c) ==
    /\ Alive /\ pc[c] = "commit" /\ Stays
    /\ open' = open \ Held(c) /\ kept' \in {kept, kept \cup {c}}
    /\ GiveBack(c, "next") /\ Done(c) /\ UNCHANGED err

\* connection.commit(), and release() when it went well.  A refused COMMIT kept
\* nothing; if the connection is lost the server may have committed or not.
Commit(c) ==
    /\ Alive /\ pc[c] = "commit" /\ Stays
    /\ \/ /\ ~Cut(c) /\ open' = open \ Held(c) /\ kept' = kept \cup {c}
          /\ GiveBack(c, "next") /\ Done(c) /\ UNCHANGED err
       \/ /\ ~Cut(c) /\ \E e \in {"busy", "other"} : Raise(c, e)
          /\ pc' = [pc EXCEPT ![c] = "rollback"]
          /\ UNCHANGED <<open, kept, left, owner, queue>>
       \/ /\ Raise(c, "unreachable") /\ open' = open \ Held(c)
          /\ kept' \in {kept, kept \cup {c}}
          /\ pc' = [pc EXCEPT ![c] = "rollback"] /\ UNCHANGED <<left, owner, queue>>

\* Released without a rollback.
Rollback_slip(c) ==
    /\ Alive /\ pc[c] = "rollback" /\ Stays
    /\ open' = open /\ GiveBack(c, "failed")
    /\ UNCHANGED <<left, err, kept>>

\* The catch and the finally: rollback(), whose own failure is kept aside, then
\* release().  On a connection that is lost there is nothing to roll back.
Rollback(c) ==
    /\ Alive /\ pc[c] = "rollback" /\ Stays
    /\ open' = open \ Held(c) /\ GiveBack(c, "failed")
    /\ UNCHANGED <<left, err, kept>>

-----------------------------------------------------------------------------
(* A request, from its arrival to its answer.                              *)

\* On a connection that is open, also while the server is closing, or on a new
\* one as long as it listens.
Arrive(c) ==
    /\ pc[c] = "none"
    /\ \/ link[c] = "idle" /\ Running
       \/ link[c] = "closed" /\ stage = "serving"
    /\ \E r \in Asks[c] :
          /\ kind' = [kind EXCEPT ![c] = r]
          /\ left' = [left EXCEPT ![c] = Units[r]]
    /\ link' = [link EXCEPT ![c] = "busy"] /\ pc' = [pc EXCEPT ![c] = "next"]
    /\ answer' = [answer EXCEPT ![c] = None]
    /\ UNCHANGED <<process, database, shared, err, kept>>

\* A handler refuses between two units: not signed in, not found, not valid.
\* After its transaction it only answers.
Refuse(c) ==
    /\ Running /\ pc[c] = "next" /\ kind[c] \notin Probes /\ c \notin kept
    /\ \E e \in {"ApiError", "guard"} : Raise(c, e)
    /\ pc' = [pc EXCEPT ![c] = "failed"]
    /\ UNCHANGED <<process, database, shared, link, kind, left, kept, answer>>

\* errorHandler; the readiness probe catches what its query throws itself.
Told(c) ==
    IF kind[c] \in Probes THEN "unavailable"
    ELSE CASE err[c] \in {"ApiError", "refused"} -> "rejected"
           [] err[c] = "busy" -> "retry"
           [] err[c] = "unreachable" -> "unavailable"
           [] OTHER -> "internal"

Tell(c, a) ==
    /\ answer' = [answer EXCEPT ![c] = IF Waiting(c) THEN a ELSE @]
    /\ link' = [link EXCEPT ![c] = IF Waiting(c) THEN "idle" ELSE @]
    /\ pc' = [pc EXCEPT ![c] = "none"] /\ kind' = [kind EXCEPT ![c] = None]
    /\ left' = [left EXCEPT ![c] = <<>>] /\ err' = [err EXCEPT ![c] = None]
    /\ kept' = kept \ {c} /\ UNCHANGED <<process, database, shared>>

Answer(c) ==
    \/ Running /\ pc[c] = "next" /\ left[c] = <<>> /\ Tell(c, "ok")
    \/ Running /\ pc[c] = "failed" /\ Tell(c, Told(c))

\* The client goes away, or an idle connection is closed after its timeout.
Disconnect(c, how) ==
    /\ Running /\ link[c] = how /\ link' = [link EXCEPT ![c] = "closed"]
    /\ answer' = [answer EXCEPT ![c] = None]
    /\ UNCHANGED <<process, database, shared, kind, pc, left, err, kept>>
HangUp(c) == Disconnect(c, "busy")
KeepAliveEnds(c) == Disconnect(c, "idle")

-----------------------------------------------------------------------------
(* The process.                                                            *)

\* The database stops answering, and its connections stay open.
Wedge ==
    /\ Running /\ database = "up" /\ database' = "stuck"
    /\ UNCHANGED <<process, shared, local>>

\* shutdown(): a signal, an unhandled rejection or an uncaught exception; only
\* the first of them counts.
Shutdown ==
    /\ stage = "serving" /\ stage' = "draining"
    /\ UNCHANGED <<code, database, shared, local>>

\* The pool is closed at once.
Drained_slip ==
    /\ stage = "draining" /\ stage' = "closing"
    /\ pool' = 0 /\ ended' = ended \cup ({pool} \ {0})
    /\ UNCHANGED <<code, database, owner, open, queue, local>>

\* server.close() calls back when the last connection is closed: closePool().
Drained ==
    /\ stage = "draining" /\ \A c \in Clients : link[c] = "closed"
    /\ stage' = "closing" /\ pool' = 0 /\ ended' = ended \cup ({pool} \ {0})
    /\ UNCHANGED <<code, database, owner, open, queue, local>>

\* end() returned, the timer is cleared and the process leaves.
Exit ==
    /\ stage = "closing" /\ (ended = {} \/ database = "up")
    /\ stage' = "exited" /\ code' = 0
    /\ UNCHANGED <<database, shared, local>>

\* The timer, cleared before the pool is closed.
TimeOut_slip ==
    /\ stage = "draining" /\ stage' = "exited" /\ code' = 1
    /\ UNCHANGED <<database, shared, local>>

\* The timer, cleared only after the pool is closed.
TimeOut ==
    /\ stage \in {"draining", "closing"} /\ stage' = "exited" /\ code' = 1
    /\ UNCHANGED <<database, shared, local>>

Handle(c) ==
    \/ Acquire(c) \/ Query(c) \/ Begin(c) \/ Callback(c) \/ Commit(c) \/ Rollback(c)
    \/ Refuse(c) \/ Answer(c)
Client(c) == Arrive(c) \/ HangUp(c) \/ KeepAliveEnds(c)
Process == Wedge \/ Shutdown \/ Drained \/ Exit \/ TimeOut
Next == Process \/ \E c \in Clients : Handle(c) \/ Client(c)

\* The event loop runs every handler whose answer came, closes idle connections
\* and fires timers; the database answers unless it is stuck.
Fairness ==
    /\ \A c \in Clients : WF_vars(Handle(c)) /\ WF_vars(KeepAliveEnds(c))
    /\ WF_vars(Drained) /\ WF_vars(Exit) /\ WF_vars(TimeOut)
Spec == Init /\ [][Next]_vars
FairSpec == Spec /\ Fairness

-----------------------------------------------------------------------------
(* Properties.                                                             *)

\* Every connection is accounted for: a handler holds one exactly while it is
\* in a unit, it waits for one without holding another, once and in one queue,
\* and nobody waits while a connection of that pool is free.
Holding == {"query", "begin", "inside", "commit", "rollback"}
ConnectionsAccounted ==
    /\ TypeOK
    /\ \A c \in Clients :
          /\ Cardinality(Held(c)) = IF pc[c] \in Holding THEN 1 ELSE 0
          /\ Cardinality({k \in Pools \X (1..Cardinality(Clients)) :
                            k[2] \in DOMAIN queue[k[1]] /\ queue[k[1]][k[2]] = c})
             = IF pc[c] = "queue" THEN 1 ELSE 0
    /\ \A p \in Pools \ ended : queue[p] # <<>> => Idle(p) = {}

\* A connection goes back to the pool, or to the next in the queue, without a
\* transaction open on it, whichever step of the transaction failed: the next
\* holder's statements would run in it and be undone or kept with it.
CleanConnections ==
    \A k \in open : owner[k] # None /\ pc[owner[k]] \in {"inside", "commit", "rollback"}

\* The pool is closed, and the process leaves with code 0, only when no request
\* is left that somebody still waits for: what a clean stop cuts off belongs to
\* clients that hung up.
CleanStop ==
    (ended # {} \/ code = 0) => \A c \in Clients : pc[c] # "none" => link[c] = "closed"

\* What a client is told fits what the database kept: "ok" after the commit;
\* and a refusal, a retry (503, "The database is busy") or an internal error only
\* when nothing of the transaction stays, so that doing it again does not do it
\* twice.  Only "Service temporarily unavailable" leaves that open: the answer to
\* the COMMIT may have been lost.
AnswerFitsCommit ==
    [][\A c \in Clients : answer'[c] # answer[c] =>
          /\ answer'[c] \in {"rejected", "retry", "internal"} => c \notin kept
          /\ answer'[c] = "ok" /\ "tx" \in {Units[kind[c]][i] : i \in DOMAIN Units[kind[c]]}
             => c \in kept]_vars

\* Whoever waits for an answer gets one, if the database answers and the
\* process stays: no handler waits for the pool for ever, however many there
\* are and wherever they fail.
Answered ==
    \A c \in Clients :
        Waiting(c) ~> (~Waiting(c) \/ database = "stuck" \/ ~Running)

\* Once told to stop the process stops, whatever clients and database do.
Stops == (stage = "draining") ~> (stage = "exited")
=============================================================================
