-------------------------- MODULE ApiProcess_proofs --------------------------
(***************************************************************************)
(* Proofs about the API process, for any number of clients, any size of    *)
(* the pool and any requests: a clean stop cuts off nobody who still       *)
(* waits, connections go back without a transaction on them, each is       *)
(* accounted for, and what a client is told fits what was committed.       *)
(*                                                                         *)
(* Three inductive invariants, each resting on the one before: of the stop,*)
(* of the connections and the lines for them, and of the units a handler   *)
(* has left.                                                               *)
(***************************************************************************)
EXTENDS ApiProcess, SequenceTheorems, FiniteSetTheorems, TLAPS

-----------------------------------------------------------------------------
(* The stop.                                                               *)

\* Nothing of the stop happens before the last connection is closed, unless the
\* timer fires; and none opens after it.
Closed == \A c \in Clients : link[c] = "closed"
StopInv ==
    /\ stage \in {"serving", "draining"} => ended = {} /\ code = None
    /\ stage = "closing" \/ code = 0 \/ ended # {} => Closed
    /\ code = 0 => stage = "exited"
    /\ stage \in Stages /\ code \in {0, 1, None} /\ None \notin {0, 1}
    /\ link \in [Clients -> {"closed", "idle", "busy"}]

\* A server that has answered nothing has stopped nothing.
LEMMA StopInit == Init => StopInv
  BY ProcessAssumption DEF Init, StopInv, Stages

\* A step of a handler opens no connection and ends no pool.
LEMMA StopHandle ==
  ASSUME StopInv, NEW c \in Clients, Handle(c)
  PROVE  StopInv'
<1>1. UNCHANGED <<stage, code, ended>>
  BY DEF Handle, Acquire, Query, Begin, Callback, Commit, Rollback, Refuse, Answer,
         Tell, Stays, process, shared
<1>2. (Closed => Closed') /\ link' \in [Clients -> {"closed", "idle", "busy"}]
  <2>1. CASE Answer(c)
    BY <2>1 DEF Answer, Tell, Waiting, Closed, StopInv
  <2>2. CASE ~Answer(c)
    BY <2>2 DEF Handle, Acquire, Query, Begin, Callback, Commit, Rollback, Refuse,
                Stays, Closed, StopInv
  <2> QED
    BY <2>1, <2>2
<1> QED
  BY <1>1, <1>2 DEF StopInv

\* A client comes on an open connection, or on a new one while the server listens.
LEMMA StopClient ==
  ASSUME StopInv, NEW c \in Clients, Client(c)
  PROVE  StopInv'
<1>1. UNCHANGED <<stage, code, ended>>
  BY DEF Client, Arrive, HangUp, KeepAliveEnds, Disconnect, process, shared
<1>2. /\ (stage # "serving" /\ Closed) => Closed'
      /\ link' \in [Clients -> {"closed", "idle", "busy"}]
  <2>1. CASE Arrive(c)
    BY <2>1 DEF Arrive, Closed, StopInv
  <2>2. CASE HangUp(c) \/ KeepAliveEnds(c)
    BY <2>2 DEF HangUp, KeepAliveEnds, Disconnect, Closed, StopInv
  <2> QED
    BY <2>1, <2>2 DEF Client
<1> QED
  BY <1>1, <1>2 DEF StopInv

\* The process closes the pool after the last connection.
LEMMA StopProcess ==
  ASSUME StopInv, Process
  PROVE  StopInv'
<1>1. CASE Wedge
  BY <1>1 DEF Wedge, StopInv, Closed, process, shared, local
<1>2. CASE Shutdown
  BY <1>2 DEF Shutdown, StopInv, Closed, shared, local, Stages
<1>3. CASE Drained
  <2>1. /\ stage = "draining" /\ stage' = "closing" /\ Closed
        /\ UNCHANGED <<link, code>>
    BY <1>3 DEF Drained, Closed, local
  <2> QED
    BY <2>1 DEF StopInv, Closed, Stages
<1>4. CASE Exit
  BY <1>4 DEF Exit, StopInv, Closed, shared, local, Stages
<1>5. CASE TimeOut
  BY <1>5 DEF TimeOut, StopInv, Closed, shared, local, Stages
<1> QED
  BY <1>1, <1>2, <1>3, <1>4, <1>5 DEF Process

\* server.js: what the stop cuts off belongs to clients that hung up, however
\* many there are and whatever they were doing.
THEOREM StopIsClean == Spec => []CleanStop
<1>1. StopInv /\ [Next]_vars => StopInv'
  <2> SUFFICES ASSUME StopInv, [Next]_vars PROVE StopInv'
    OBVIOUS
  <2>1. CASE UNCHANGED vars
    BY <2>1 DEF vars, process, shared, local, StopInv, Closed
  <2> QED
    BY <2>1, StopHandle, StopClient, StopProcess DEF Next
<1>2. StopInv => CleanStop
  BY DEF StopInv, Closed, CleanStop
<1> QED
  BY StopInit, <1>1, <1>2, PTL DEF Spec

-----------------------------------------------------------------------------
(* The connections.                                                        *)

\* A handler holds a connection only while it works with it, and no second one;
\* who stands in a queue stands there once.
InTransaction == {"inside", "commit", "rollback"}
PoolTyped ==
    /\ owner \in [Connections -> Clients \cup {None}] /\ open \subseteq Connections
    /\ queue \in [Pools -> Seq(Clients)] /\ pool \in Pools \cup {0}
    /\ pc \in [Clients -> Steps]
HoldsOne ==
    \A k, l \in Connections :
        owner[k] # None => /\ pc[owner[k]] \in Holding
                           /\ owner[l] = owner[k] => k = l
InLine ==
    \A p, q \in Pools : \A i \in 1..Len(queue[p]), j \in 1..Len(queue[q]) :
        /\ pc[queue[p][i]] = "queue"
        /\ queue[p][i] = queue[q][j] => p = q /\ i = j
PoolInv == PoolTyped /\ HoldsOne /\ InLine /\ CleanConnections

\* Nobody holds a connection at first, and nobody waits.
LEMMA PoolInit == Init => PoolInv
<1> SUFFICES ASSUME Init PROVE PoolInv
  OBVIOUS
<1>1. \A p \in Pools : Len(queue[p]) = 0
  BY DEF Init
<1>2. PoolTyped
  BY DEF Init, PoolTyped, Steps
<1>3. HoldsOne /\ CleanConnections
  BY DEF Init, HoldsOne, CleanConnections
<1>4. InLine
  BY <1>1 DEF InLine
<1> QED
  BY <1>2, <1>3, <1>4 DEF PoolInv

\* A step of one handler that leaves the connections and the queues alone.
LEMMA MoveKeeps ==
  ASSUME PoolInv, NEW c \in Clients, NEW s \in Steps,
         UNCHANGED <<owner, queue>>, pool' \in Pools \cup {0},
         pc' = [pc EXCEPT ![c] = s], pc[c] # "queue",
         pc[c] \in Holding => s \in Holding,
         open' \subseteq open \cup Held(c),
         open' \cap Held(c) # {} => s \in InTransaction
  PROVE  PoolInv'
<1>1. PoolTyped'
  BY DEF PoolInv, PoolTyped, Held
<1>2. HoldsOne'
  BY DEF PoolInv, PoolTyped, HoldsOne
<1>3. InLine'
  <2> SUFFICES ASSUME NEW p \in Pools, NEW q \in Pools,
                      NEW i \in 1..Len(queue[p]), NEW j \in 1..Len(queue[q])
               PROVE  /\ pc'[queue[p][i]] = "queue"
                      /\ queue[p][i] = queue[q][j] => p = q /\ i = j
    BY DEF InLine
  <2>1. /\ pc[queue[p][i]] = "queue" /\ queue[p][i] \in Clients
        /\ queue[p][i] = queue[q][j] => p = q /\ i = j
    BY DEF PoolInv, InLine, PoolTyped
  <2> QED
    BY <2>1 DEF PoolInv, PoolTyped
<1>4. CleanConnections'
  <2> SUFFICES ASSUME NEW k \in open'
               PROVE  owner[k] # None /\ pc'[owner[k]] \in InTransaction
    BY DEF CleanConnections, InTransaction
  <2>1. CASE k \in Held(c)
    BY <2>1, ProcessAssumption DEF Held, PoolInv, PoolTyped
  <2>2. CASE k \notin Held(c)
    <3>1. k \in open /\ k \in Connections /\ owner[k] # c
      BY <2>2 DEF Held, PoolInv, PoolTyped
    <3>2. owner[k] # None /\ pc[owner[k]] \in InTransaction /\ owner[k] \in Clients
      BY <3>1 DEF PoolInv, PoolTyped, CleanConnections, InTransaction
    <3> QED
      BY <3>1, <3>2 DEF PoolInv, PoolTyped
  <2> QED
    BY <2>1, <2>2
<1> QED
  BY <1>1, <1>2, <1>3, <1>4 DEF PoolInv

\* A connection that is handed out: to the first of the queue, which waited and
\* held none, or to nobody.
LEMMA GiveBackKeeps ==
  ASSUME PoolInv, NEW c \in Clients, NEW s \in Steps \ Holding, s # "queue",
         pc[c] \in Holding, GiveBack(c, s), UNCHANGED pool,
         open' \subseteq open \ Held(c)
  PROVE  PoolInv'
<1>1. PICK k \in Held(c) :
        LET waiters == queue[k[1]]
        IN  IF waiters = <<>> \/ k[1] \in ended
            THEN /\ owner' = [owner EXCEPT ![k] = None]
                 /\ pc' = [pc EXCEPT ![c] = s]
                 /\ UNCHANGED queue
            ELSE /\ owner' = [owner EXCEPT ![k] = Head(waiters)]
                 /\ pc' = [pc EXCEPT ![c] = s,
                                     ![Head(waiters)] = FirstStep(left[Head(waiters)])]
                 /\ queue' = [queue EXCEPT ![k[1]] = Tail(@)]
  BY DEF GiveBack
<1>2. /\ k \in Connections /\ owner[k] = c /\ k[1] \in Pools
      /\ \A l \in Connections : owner[l] = c => l = k
  BY ProcessAssumption DEF Held, PoolInv, HoldsOne, Connections
<1>3. pc \in [Clients -> Steps] /\ owner \in [Connections -> Clients \cup {None}]
  BY DEF PoolInv, PoolTyped
<1>4. \A l \in open' : /\ l \in Connections /\ l # k /\ owner[l] \in Clients \ {c}
                        /\ pc[owner[l]] \in InTransaction
  BY <1>2 DEF Held, PoolInv, PoolTyped, CleanConnections, InTransaction
<1>5. None \notin Clients
  BY ProcessAssumption
<1>6. CASE queue[k[1]] = <<>> \/ k[1] \in ended
  <2>1. /\ owner' = [owner EXCEPT ![k] = None] /\ pc' = [pc EXCEPT ![c] = s]
        /\ UNCHANGED queue
    BY <1>1, <1>6
  <2>2. PoolTyped'
    BY <2>1, <1>2, <1>4 DEF PoolInv, PoolTyped
  <2>3. HoldsOne'
    BY <2>1, <1>2, <1>3, <1>5 DEF PoolInv, HoldsOne
  <2>4. CleanConnections'
    BY <2>1, <1>3, <1>4, <1>5 DEF CleanConnections, InTransaction
  <2>5. InLine'
    <3> SUFFICES ASSUME NEW p \in Pools, NEW q \in Pools,
                        NEW i \in 1..Len(queue[p]), NEW j \in 1..Len(queue[q])
                 PROVE  /\ pc'[queue[p][i]] = "queue"
                        /\ queue[p][i] = queue[q][j] => p = q /\ i = j
      BY <2>1 DEF InLine
    <3>1. /\ pc[queue[p][i]] = "queue" /\ queue[p][i] \in Clients
          /\ queue[p][i] = queue[q][j] => p = q /\ i = j
      BY DEF PoolInv, InLine, PoolTyped
    <3> QED
      BY <3>1, <2>1, <1>3 DEF Holding
  <2> QED
    BY <2>2, <2>3, <2>4, <2>5 DEF PoolInv
<1>7. CASE queue[k[1]] # <<>> /\ k[1] \notin ended
  <2> DEFINE w == Head(queue[k[1]])
             step == FirstStep(left[w])
  <2>1. /\ owner' = [owner EXCEPT ![k] = w]
        /\ pc' = [pc EXCEPT ![c] = s, ![w] = step]
        /\ queue' = [queue EXCEPT ![k[1]] = Tail(@)]
    BY <1>1, <1>7
  <2>2. /\ queue[k[1]] \in Seq(Clients) /\ w \in Clients
        /\ Len(queue[k[1]]) \in Nat /\ Len(queue[k[1]]) >= 1
        /\ w = queue[k[1]][1] /\ Tail(queue[k[1]]) \in Seq(Clients)
        /\ Len(Tail(queue[k[1]])) = Len(queue[k[1]]) - 1
        /\ \A i \in 1..Len(Tail(queue[k[1]])) : Tail(queue[k[1]])[i] = queue[k[1]][i + 1]
    <3>1. queue[k[1]] \in Seq(Clients)
      BY <1>2 DEF PoolInv, PoolTyped
    <3> QED
      BY <3>1, <1>7, HeadTailProperties, EmptySeq, LenProperties
  <2>3. pc[w] = "queue" /\ w # c
    BY <2>2, <1>2 DEF PoolInv, InLine, Holding
  <2>4. \A l \in Connections : owner[l] # w
    BY <2>3, <2>2, <1>5 DEF PoolInv, HoldsOne, Holding
  <2>5. step \in {"query", "begin"}
    BY DEF FirstStep
  <2> HIDE DEF w, step
  <2>6. PoolTyped'
    BY <2>1, <2>2, <2>5, <1>2, <1>4 DEF PoolInv, PoolTyped, Steps
  <2>7. HoldsOne'
    BY <2>1, <2>2, <2>3, <2>4, <2>5, <1>2, <1>3, <1>5 DEF PoolInv, HoldsOne, Holding
  <2>8. CleanConnections'
    BY <2>1, <2>2, <2>4, <1>3, <1>4, <1>5 DEF CleanConnections, InTransaction
  <2>9. InLine'
    <3> SUFFICES ASSUME NEW p \in Pools, NEW q \in Pools,
                        NEW i \in 1..Len(queue'[p]), NEW j \in 1..Len(queue'[q])
                 PROVE  /\ pc'[queue'[p][i]] = "queue"
                        /\ queue'[p][i] = queue'[q][j] => p = q /\ i = j
      BY DEF InLine
    <3> DEFINE At(r, n) == IF r = k[1] THEN n + 1 ELSE n
    <3>1. \A r \in Pools : \A n \in 1..Len(queue'[r]) :
            /\ At(r, n) \in 1..Len(queue[r]) /\ queue'[r][n] = queue[r][At(r, n)]
      BY <2>1, <2>2, <1>2 DEF PoolInv, PoolTyped
    <3>2. /\ pc[queue[p][At(p, i)]] = "queue" /\ queue[p][At(p, i)] \in Clients
          /\ queue[p][At(p, i)] = queue[q][At(q, j)] => p = q /\ At(p, i) = At(q, j)
      BY <3>1 DEF PoolInv, InLine, PoolTyped
    <3>3. queue[p][At(p, i)] # w
      <4>1. k[1] \in Pools /\ 1 \in 1..Len(queue[k[1]]) /\ w = queue[k[1]][1]
        BY <1>2, <2>2
      <4>2. queue[p][At(p, i)] = w => p = k[1] /\ At(p, i) = 1
        BY <4>1, <3>1 DEF PoolInv, InLine
      <4> QED
        BY <4>2, <3>1
    <3>4. queue[p][At(p, i)] # c
      BY <3>2 DEF Holding
    <3>5. queue'[p][i] = queue[p][At(p, i)] /\ queue'[q][j] = queue[q][At(q, j)]
      BY <3>1
    <3>6. p = q /\ At(p, i) = At(q, j) => i = j
      OBVIOUS
    <3> HIDE DEF At
    <3>7. pc'[queue[p][At(p, i)]] = pc[queue[p][At(p, i)]]
      BY <3>2, <3>3, <3>4, <2>1, <1>3
    <3> QED
      BY <3>2, <3>5, <3>6, <3>7
  <2> QED
    BY <2>6, <2>7, <2>8, <2>9 DEF PoolInv
<1> QED
  BY <1>6, <1>7

\* A handler takes a connection that is free, or stands in line.
LEMMA AcquireKeeps ==
  ASSUME PoolInv, NEW c \in Clients, Acquire(c)
  PROVE  PoolInv'
<1> DEFINE P == CurrentPool
<1>1. /\ pc[c] = "next" /\ pool' = P /\ P \in Pools /\ UNCHANGED open
      /\ pc \in [Clients -> Steps] /\ owner \in [Connections -> Clients \cup {None}]
      /\ queue \in [Pools -> Seq(Clients)] /\ None \notin Clients
  BY ProcessAssumption DEF Acquire, CurrentPool, Created, Pools, PoolInv, PoolTyped
<1>2. \A k \in Connections : owner[k] # c
  BY <1>1 DEF PoolInv, HoldsOne, Holding
<1>3. CASE /\ \E k \in Idle(P) : owner' = [owner EXCEPT ![k] = c]
           /\ pc' = [pc EXCEPT ![c] = FirstStep(left[c])]
           /\ UNCHANGED <<queue, err>>
  <2>1. PICK k \in Idle(P) : owner' = [owner EXCEPT ![k] = c]
    BY <1>3
  <2>2. k \in Connections /\ owner[k] = None /\ k \notin open
    BY DEF Idle, PoolInv, CleanConnections
  <2>3. FirstStep(left[c]) \in {"query", "begin"} /\ pc' = [pc EXCEPT ![c] = FirstStep(left[c])]
    BY <1>3 DEF FirstStep
  <2>4. PoolTyped'
    BY <1>1, <2>1, <2>2, <2>3, <1>3 DEF PoolInv, PoolTyped, Steps
  <2>5. HoldsOne'
    BY <1>1, <1>2, <2>1, <2>2, <2>3 DEF PoolInv, HoldsOne, Holding
  <2>6. CleanConnections'
    <3> SUFFICES ASSUME NEW l \in open
                 PROVE  owner'[l] # None /\ pc'[owner'[l]] \in InTransaction
      BY <1>1 DEF CleanConnections, InTransaction
    <3>1. /\ l # k /\ l \in Connections /\ owner[l] \in Clients
          /\ pc[owner[l]] \in InTransaction
      BY <2>2 DEF PoolInv, PoolTyped, CleanConnections, InTransaction
    <3> QED
      BY <3>1, <1>1, <1>2, <2>1, <2>3
  <2>7. InLine'
    <3> SUFFICES ASSUME NEW p \in Pools, NEW q \in Pools,
                        NEW i \in 1..Len(queue[p]), NEW j \in 1..Len(queue[q])
                 PROVE  /\ pc'[queue[p][i]] = "queue"
                        /\ queue[p][i] = queue[q][j] => p = q /\ i = j
      BY <1>3 DEF InLine
    <3>1. /\ pc[queue[p][i]] = "queue" /\ queue[p][i] \in Clients
          /\ queue[p][i] = queue[q][j] => p = q /\ i = j
      BY DEF PoolInv, InLine, PoolTyped
    <3> QED
      BY <3>1, <1>1, <2>3
  <2> QED
    BY <2>4, <2>5, <2>6, <2>7 DEF PoolInv
<1>4. CASE /\ pc' = [pc EXCEPT ![c] = "failed"] /\ UNCHANGED <<owner, queue>>
  <2>1. open \cap Held(c) = {} /\ pool' \in Pools \cup {0} /\ "failed" \in Steps
    BY <1>1, <1>2 DEF Held, Steps
  <2> QED
    BY <1>1, <1>4, <2>1, MoveKeeps DEF Holding
<1>5. CASE /\ pc' = [pc EXCEPT ![c] = "queue"] /\ UNCHANGED owner
           /\ queue' = [queue EXCEPT ![P] = Append(@, c)]
  <2>1. /\ Append(queue[P], c) \in Seq(Clients) /\ Len(queue[P]) \in Nat
        /\ Len(Append(queue[P], c)) = Len(queue[P]) + 1
        /\ \A n \in 1..Len(queue[P]) : Append(queue[P], c)[n] = queue[P][n]
        /\ Append(queue[P], c)[Len(queue[P]) + 1] = c
    BY <1>1, AppendProperties, LenProperties
  <2>2. PoolTyped'
    BY <1>1, <1>5, <2>1 DEF PoolInv, PoolTyped, Steps
  <2>3. HoldsOne'
    BY <1>1, <1>2, <1>5 DEF PoolInv, HoldsOne
  <2>4. CleanConnections'
    BY <1>1, <1>2, <1>5 DEF PoolInv, PoolTyped, CleanConnections
  <2>5. InLine'
    <3> SUFFICES ASSUME NEW p \in Pools, NEW q \in Pools,
                        NEW i \in 1..Len(queue'[p]), NEW j \in 1..Len(queue'[q])
                 PROVE  /\ pc'[queue'[p][i]] = "queue"
                        /\ queue'[p][i] = queue'[q][j] => p = q /\ i = j
      BY DEF InLine
    <3> DEFINE Old(r, n) == n \in 1..Len(queue[r]) /\ queue'[r][n] = queue[r][n]
               New(r, n) == r = P /\ n = Len(queue[P]) + 1 /\ queue'[r][n] = c
    <3>1. \A r \in Pools : \A n \in 1..Len(queue'[r]) : Old(r, n) \/ New(r, n)
      BY <1>1, <1>5, <2>1
    <3>2. \A r \in Pools : \A n \in 1..Len(queue'[r]) : Old(r, n) =>
            pc[queue[r][n]] = "queue" /\ queue[r][n] \in Clients \ {c}
      BY <1>1 DEF PoolInv, InLine, PoolTyped
    <3>3. pc'[queue'[p][i]] = "queue"
      BY <3>1, <3>2, <1>1, <1>5
    <3>4. queue'[p][i] = queue'[q][j] => p = q /\ i = j
      BY <3>1, <3>2 DEF PoolInv, InLine
    <3> QED
      BY <3>3, <3>4
  <2> QED
    BY <2>2, <2>3, <2>4, <2>5 DEF PoolInv
<1> QED
  BY <1>3, <1>4, <1>5 DEF Acquire

\* A transaction is opened on the connection the handler holds.
LEMMA BeginKeeps ==
  ASSUME PoolInv, NEW c \in Clients, Begin(c)
  PROVE  PoolInv'
<1>1. /\ pc[c] = "begin" /\ UNCHANGED <<owner, queue, pool>>
      /\ \E s \in {"inside", "rollback"} : pc' = [pc EXCEPT ![c] = s]
      /\ open' \subseteq open \cup Held(c)
  BY DEF Begin, Stays
<1> QED
  BY <1>1, MoveKeeps DEF Holding, Steps, InTransaction, PoolInv, PoolTyped

\* Inside the transaction nothing is handed out.
LEMMA CallbackKeeps ==
  ASSUME PoolInv, NEW c \in Clients, Callback(c)
  PROVE  PoolInv'
<1>1. /\ pc[c] = "inside" /\ UNCHANGED <<owner, queue, pool>>
      /\ \E s \in {"commit", "rollback"} : pc' = [pc EXCEPT ![c] = s]
      /\ open' \subseteq open
  BY DEF Callback, Stays
<1> QED
  BY <1>1, MoveKeeps DEF Holding, Steps, InTransaction, PoolInv, PoolTyped

\* A commit that fails keeps the connection for the rollback.
LEMMA CommitKeeps ==
  ASSUME PoolInv, NEW c \in Clients, Commit(c)
  PROVE  PoolInv'
<1>1. pc[c] = "commit" /\ UNCHANGED pool
  BY DEF Commit, Stays
<1>2. CASE open' = open \ Held(c) /\ GiveBack(c, "next")
  BY <1>1, <1>2, GiveBackKeeps DEF Holding, Steps
<1>3. CASE /\ UNCHANGED <<owner, queue>> /\ open' \subseteq open
           /\ pc' = [pc EXCEPT ![c] = "rollback"]
  BY <1>1, <1>3, MoveKeeps DEF Holding, Steps, InTransaction, PoolInv, PoolTyped
<1> QED
  BY <1>2, <1>3 DEF Commit

\* A statement through the pool has opened no transaction.
LEMMA QueryKeeps ==
  ASSUME PoolInv, NEW c \in Clients, Query(c)
  PROVE  PoolInv'
<1>1. /\ pc[c] = "query" /\ UNCHANGED <<pool, open>>
      /\ GiveBack(c, "next") \/ GiveBack(c, "failed")
  BY DEF Query, Stays
<1>2. open \cap Held(c) = {}
  BY <1>1 DEF PoolInv, CleanConnections, Held
<1> QED
  BY <1>1, <1>2, GiveBackKeeps DEF Holding, Steps

\* The rollback comes before the release.
LEMMA RollbackKeeps ==
  ASSUME PoolInv, NEW c \in Clients, Rollback(c)
  PROVE  PoolInv'
<1>1. /\ pc[c] = "rollback" /\ UNCHANGED pool /\ open' = open \ Held(c)
      /\ GiveBack(c, "failed")
  BY DEF Rollback, Stays
<1> QED
  BY <1>1, GiveBackKeeps DEF Holding, Steps

\* Arrivals, refusals and answers are the business of handlers without a connection.
LEMMA RequestKeeps ==
  ASSUME PoolInv, NEW c \in Clients, Arrive(c) \/ Refuse(c) \/ Answer(c)
  PROVE  PoolInv'
<1>1. /\ pc[c] \in {"none", "next", "failed"} /\ UNCHANGED <<owner, queue, pool, open>>
      /\ \E s \in {"none", "next", "failed"} : pc' = [pc EXCEPT ![c] = s]
  BY DEF Arrive, Refuse, Answer, Tell, shared
<1>2. open \cap Held(c) = {}
  BY <1>1 DEF PoolInv, CleanConnections, Held
<1> QED
  BY <1>1, <1>2, MoveKeeps DEF Holding, Steps, PoolInv, PoolTyped

\* The stop and the clients' comings and goings leave the connections alone; when
\* the pool is closed its variable is cleared.
LEMMA OthersKeep ==
  ASSUME PoolInv, UNCHANGED <<owner, queue, open, pc>>, pool' \in Pools \cup {0}
  PROVE  PoolInv'
<1>1. PoolTyped' /\ HoldsOne' /\ InLine' /\ CleanConnections'
  BY DEF PoolInv, PoolTyped, HoldsOne, InLine, CleanConnections
<1> QED
  BY <1>1 DEF PoolInv

LEMMA NextPoolInv ==
  ASSUME PoolInv, [Next]_vars
  PROVE  PoolInv'
<1>1. pool \in Pools \cup {0}
  BY DEF PoolInv, PoolTyped
<1>2. CASE UNCHANGED vars
  BY <1>1, <1>2, OthersKeep DEF vars, shared, local
<1>3. CASE Process
  BY <1>1, <1>3, OthersKeep
     DEF Process, Wedge, Shutdown, Drained, Exit, TimeOut, shared, local
<1>4. ASSUME NEW c \in Clients, Handle(c) PROVE PoolInv'
  BY <1>4, AcquireKeeps, QueryKeeps, BeginKeeps, CallbackKeeps, CommitKeeps,
     RollbackKeeps, RequestKeeps DEF Handle
<1>5. ASSUME NEW c \in Clients, Client(c) PROVE PoolInv'
  <2>1. CASE Arrive(c)
    BY <2>1, RequestKeeps
  <2>2. CASE HangUp(c) \/ KeepAliveEnds(c)
    BY <1>1, <2>2, OthersKeep DEF HangUp, KeepAliveEnds, Disconnect, shared
  <2> QED
    BY <1>5, <2>1, <2>2 DEF Client
<1> QED
  BY <1>2, <1>3, <1>4, <1>5 DEF Next

\* tenantScope.js, transaction(): whatever fails in it, the connection it worked
\* on goes to its next user without a transaction on it.
THEOREM ConnectionsAreClean == Spec => []CleanConnections
<1>1. PoolInv => CleanConnections
  BY DEF PoolInv
<1> QED
  BY PoolInit, NextPoolInv, <1>1, PTL DEF Spec

-----------------------------------------------------------------------------
(* The units of a request.                                                 *)

\* What is left of a request is a tail of its units: the first of them is the
\* one its handler is in.
Transacts(units) == \E i \in 1..Len(units) : units[i] = "tx"
TxLast(units) == \A i \in 1..Len(units) : units[i] = "tx" => i = Len(units)
InUnit(c) ==
    /\ pc[c] = "none" => left[c] = <<>> /\ c \notin kept
    /\ pc[c] # "none" => kind[c] \in Requests
    /\ pc[c] \in {"queue", "query", "begin", "inside", "commit", "rollback"} => left[c] # <<>>
    /\ pc[c] = "query" => left[c][1] = "query"
    /\ pc[c] \in {"begin", "inside", "commit", "rollback"} => left[c][1] = "tx"
    /\ TxLast(left[c])

\* What was kept is told, and a transaction that is not kept is still to come.
Owes(c) ==
    /\ c \in kept => \/ pc[c] = "next" /\ left[c] = <<>>
                     \/ pc[c] \in {"rollback", "failed"} /\ err[c] = "unreachable"
    /\ pc[c] # "none" /\ Transacts(Units[kind[c]]) => c \in kept \/ Transacts(left[c])

\* The process makes one pool while it serves, and one more if a handler still
\* runs when that one is closed.
OnePool ==
    /\ stage \in {"serving", "draining"} => ended = {}
    /\ ended = {} => pool \in {0, 1}
    /\ ended # {} => ended = {1} /\ pool \in {0, 2}

\* Who is in a unit has his connection, who waits is in line, and nobody is in
\* line for a pool that has a connection to give.
Served ==
    /\ \A c \in Clients :
          /\ pc[c] \in Holding => \E k \in Connections : owner[k] = c
          /\ pc[c] = "queue" => \E p \in Pools : \E i \in 1..Len(queue[p]) : queue[p][i] = c
    /\ \A p \in Pools \ ended : queue[p] # <<>> => Idle(p) = {}
Inv == PoolInv /\ TypeOK /\ (\A c \in Clients : InUnit(c) /\ Owes(c)) /\ OnePool /\ Served

RestTyped ==
    /\ stage \in Stages /\ code \in {0, 1, None} /\ database \in {"up", "stuck"}
    /\ link \in [Clients -> {"closed", "idle", "busy"}]
    /\ kind \in [Clients -> Requests \cup {None}] /\ left \in [Clients -> Seq({"query", "tx"})]
    /\ err \in [Clients -> Errors \cup {None}] /\ kept \subseteq Clients
    /\ answer \in [Clients -> Answers \cup {None}]

\* Units that are left, and the step a handler starts with.
LEMMA UnitsLeft ==
  ASSUME NEW s \in Seq({"query", "tx"})
  PROVE  /\ ~Transacts(<<>>) /\ TxLast(<<>>)
         /\ s # <<>> =>
              /\ s[1] \in {"query", "tx"} /\ Tail(s) \in Seq({"query", "tx"})
              /\ FirstStep(s) = IF s[1] = "query" THEN "query" ELSE "begin"
              /\ TxLast(s) => TxLast(Tail(s))
              /\ s[1] = "tx" /\ TxLast(s) => Tail(s) = <<>>
              /\ s[1] = "query" /\ Transacts(s) => Transacts(Tail(s))
<1>1. ~Transacts(<<>>) /\ TxLast(<<>>)
  <2>1. Len(<<>>) = 0
    BY EmptySeq
  <2> QED
    BY <2>1 DEF Transacts, TxLast
<1>2. ASSUME s # <<>>
      PROVE  /\ s[1] \in {"query", "tx"} /\ Tail(s) \in Seq({"query", "tx"})
             /\ FirstStep(s) = IF s[1] = "query" THEN "query" ELSE "begin"
             /\ TxLast(s) => TxLast(Tail(s))
             /\ s[1] = "tx" /\ TxLast(s) => Tail(s) = <<>>
             /\ s[1] = "query" /\ Transacts(s) => Transacts(Tail(s))
  <2>1. /\ Head(s) = s[1] /\ s[1] \in {"query", "tx"} /\ Tail(s) \in Seq({"query", "tx"})
        /\ Len(s) \in Nat /\ Len(s) >= 1 /\ Len(Tail(s)) = Len(s) - 1
        /\ \A i \in 1..Len(Tail(s)) : Tail(s)[i] = s[i + 1]
    BY <1>2, HeadTailProperties, EmptySeq, LenProperties, ElementOfSeq
  <2>2. ASSUME TxLast(s) PROVE TxLast(Tail(s))
    <3>1. \A j \in 1..Len(s) : s[j] = "tx" => j = Len(s)
      BY <2>2 DEF TxLast
    <3>2. ASSUME NEW i \in 1..(Len(s) - 1), s[i + 1] = "tx"
          PROVE  i = Len(s) - 1
      <4>1. i \in Int /\ Len(s) \in Int /\ i + 1 \in 1..Len(s)
        BY <2>1
      <4>2. i + 1 = Len(s)
        BY <3>1, <3>2, <4>1
      <4> QED
        BY <4>1, <4>2
    <3> QED
      BY <2>1, <3>2 DEF TxLast
  <2>3. ASSUME s[1] = "tx", TxLast(s) PROVE Len(s) = 1
    <3>1. 1 \in 1..Len(s)
      BY <2>1
    <3> QED
      BY <2>3, <3>1 DEF TxLast
  <2>4. s[1] = "tx" /\ TxLast(s) => Tail(s) = <<>>
    <3>1. Len(s) = 1 => Len(Tail(s)) = 0 /\ Tail(s) \in Seq({"query", "tx"})
      BY <2>1
    <3>2. Len(s) = 1 => Tail(s) = <<>>
      BY <3>1, EmptySeq
    <3> QED
      BY <2>3, <3>2
  <2>5. ASSUME s[1] = "query", Transacts(s) PROVE Transacts(Tail(s))
    <3>1. PICK i \in 1..Len(s) : s[i] = "tx"
      BY <2>5 DEF Transacts
    <3>2. i - 1 \in 1..Len(Tail(s)) /\ Tail(s)[i - 1] = s[i]
      BY <2>1, <2>5, <3>1
    <3> QED
      BY <3>1, <3>2 DEF Transacts
  <2> QED
    BY <2>1, <2>2, <2>4, <2>5 DEF FirstStep
<1> QED
  BY <1>1, <1>2

\* The units of a request as it arrives.
LEMMA UnitsOfRequest ==
  ASSUME NEW r \in Requests
  PROVE  Units[r] \in Seq({"query", "tx"}) /\ TxLast(Units[r])
<1>1. Units[r] \in Seq({"query", "tx"})
  BY ProcessAssumption
<1>2. DOMAIN Units[r] = 1..Len(Units[r])
  BY <1>1, LenProperties
<1>3. \A i \in DOMAIN Units[r] : Units[r][i] = "tx" => i = Len(Units[r])
  BY ProcessAssumption
<1> QED
  BY <1>1, <1>2, <1>3 DEF TxLast

\* Who gives a connection back goes on; the one it goes to starts with his unit.
LEMMA GaveBack ==
  ASSUME PoolInv, NEW c \in Clients, NEW s \in Steps, pc[c] \in Holding, GiveBack(c, s)
  PROVE  /\ pc'[c] = s
         /\ \A d \in Clients \ {c} :
               pc'[d] = pc[d] \/ (pc[d] = "queue" /\ pc'[d] = FirstStep(left[d]))
<1>1. PICK k \in Held(c) :
        LET waiters == queue[k[1]]
        IN  IF waiters = <<>> \/ k[1] \in ended
            THEN /\ owner' = [owner EXCEPT ![k] = None]
                 /\ pc' = [pc EXCEPT ![c] = s]
                 /\ UNCHANGED queue
            ELSE /\ owner' = [owner EXCEPT ![k] = Head(waiters)]
                 /\ pc' = [pc EXCEPT ![c] = s,
                                     ![Head(waiters)] = FirstStep(left[Head(waiters)])]
                 /\ queue' = [queue EXCEPT ![k[1]] = Tail(@)]
  BY DEF GiveBack
<1>2. pc \in [Clients -> Steps] /\ k[1] \in Pools
  BY ProcessAssumption DEF PoolInv, PoolTyped, Held, Connections
<1>3. CASE queue[k[1]] = <<>> \/ k[1] \in ended
  BY <1>1, <1>2, <1>3
<1>4. CASE queue[k[1]] # <<>> /\ k[1] \notin ended
  <2> DEFINE w == Head(queue[k[1]])
  <2>1. w = queue[k[1]][1] /\ Len(queue[k[1]]) \in Nat /\ Len(queue[k[1]]) >= 1
    <3>1. queue[k[1]] \in Seq(Clients)
      BY <1>2 DEF PoolInv, PoolTyped
    <3> QED
      BY <3>1, <1>4, HeadTailProperties, EmptySeq, LenProperties
  <2>2. pc[w] = "queue"
    BY <1>2, <2>1 DEF PoolInv, InLine
  <2>3. w # c
    BY <2>2 DEF Holding
  <2>4. pc' = [pc EXCEPT ![c] = s, ![w] = FirstStep(left[w])]
    BY <1>1, <1>4
  <2> HIDE DEF w
  <2> QED
    BY <1>2, <2>2, <2>3, <2>4
<1> QED
  BY <1>3, <1>4

\* A handler that is not at work changes nothing of itself, except that it may
\* be handed the connection it waits for.
LEMMA OtherUnit ==
  ASSUME NEW d \in Clients, InUnit(d), Owes(d), left[d] \in Seq({"query", "tx"}),
         left'[d] = left[d], kind'[d] = kind[d], err'[d] = err[d], d \in kept' <=> d \in kept,
         pc'[d] = pc[d] \/ (pc[d] = "queue" /\ pc'[d] = FirstStep(left[d]))
  PROVE  InUnit(d)' /\ Owes(d)'
<1>1. CASE pc'[d] = pc[d]
  BY <1>1 DEF InUnit, Owes
<1>2. CASE pc[d] = "queue" /\ pc'[d] = FirstStep(left[d])
  <2>1. left[d] # <<>>
    BY <1>2 DEF InUnit
  <2>2. /\ left[d][1] \in {"query", "tx"}
        /\ pc'[d] = IF left[d][1] = "query" THEN "query" ELSE "begin"
    BY <1>2, <2>1, UnitsLeft
  <2>3. d \notin kept
    BY <1>2 DEF Owes
  <2> QED
    BY <1>2, <2>1, <2>2, <2>3 DEF InUnit, Owes
<1> QED
  BY <1>1, <1>2

\* Every handler does its next unit, and only that.
Sound == PoolInv /\ RestTyped /\ \A c \in Clients : InUnit(c) /\ Owes(c)
LEMMA HandleUnits ==
  ASSUME Sound, NEW c \in Clients, Handle(c) \/ Client(c)
  PROVE  RestTyped' /\ \A d \in Clients : InUnit(d)' /\ Owes(d)'
<1> DEFINE Others == \A d \in Clients \ {c} :
             /\ left'[d] = left[d] /\ kind'[d] = kind[d] /\ err'[d] = err[d]
             /\ d \in kept' <=> d \in kept
             /\ pc'[d] = pc[d] \/ (pc[d] = "queue" /\ pc'[d] = FirstStep(left[d]))
           Goal == RestTyped' /\ Others /\ InUnit(c)' /\ Owes(c)'
<1>1. /\ PoolInv /\ RestTyped /\ InUnit(c) /\ Owes(c) /\ pc \in [Clients -> Steps]
      /\ left[c] \in Seq({"query", "tx"}) /\ kind[c] \in Requests \cup {None}
      /\ None \notin Requests
  BY ProcessAssumption DEF Sound, RestTyped, PoolInv, PoolTyped
<1>2. left[c] # <<>> => /\ left[c][1] \in {"query", "tx"} /\ Tail(left[c]) \in Seq({"query", "tx"})
                        /\ TxLast(Tail(left[c]))
                        /\ left[c][1] = "tx" => Tail(left[c]) = <<>>
                        /\ left[c][1] = "query" /\ Transacts(left[c]) => Transacts(Tail(left[c]))
  BY <1>1, UnitsLeft DEF InUnit
<1>3. ~Transacts(<<>>) /\ TxLast(<<>>) /\ <<>> \in Seq({"query", "tx"})
  BY <1>1, UnitsLeft, EmptySeq
<1> HIDE DEF Goal
<1>4. ASSUME Acquire(c) PROVE Goal
  <2>1. /\ pc[c] = "next" /\ left[c] # <<>> /\ UNCHANGED <<kind, left, kept>>
        /\ pc'[c] \in {FirstStep(left[c]), "failed", "queue"}
        /\ \A d \in Clients \ {c} : pc'[d] = pc[d] /\ err'[d] = err[d]
    BY <1>1, <1>4 DEF Acquire, RestTyped
  <2>2. /\ pc'[c] \in {"query", "begin", "failed", "queue"}
        /\ pc'[c] = "query" => left[c][1] = "query"
        /\ pc'[c] = "begin" => left[c][1] = "tx"
    BY <1>1, <2>1, UnitsLeft
  <2>3. c \notin kept
    BY <1>1, <2>1 DEF Owes
  <2>4. RestTyped'
    BY <1>1, <1>4 DEF Acquire, RestTyped, Errors, process
  <2> QED
    BY <1>1, <2>1, <2>2, <2>3, <2>4 DEF Goal, InUnit, Owes
<1>5. ASSUME Query(c) PROVE Goal
  <2>1. /\ pc[c] = "query" /\ UNCHANGED <<kind, kept, stage, code, database, link, answer>>
        /\ \/ GiveBack(c, "next") /\ Done(c) /\ UNCHANGED err
           \/ /\ \E e \in {"busy", "refused", "other", "unreachable"} : Raise(c, e)
              /\ GiveBack(c, "failed") /\ UNCHANGED left
    BY <1>5 DEF Query, Stays, process
  <2>2. c \notin kept /\ left[c] # <<>> /\ left[c][1] = "query"
    BY <1>1, <2>1 DEF Owes, InUnit
  <2>3. CASE GiveBack(c, "next") /\ Done(c) /\ UNCHANGED err
    <3>1. pc'[c] = "next" /\ Others
      BY <1>1, <2>1, <2>3, GaveBack DEF Holding, Steps, Done, RestTyped
    <3>2. left'[c] = Tail(left[c])
      BY <2>3 DEF Done, Sound, RestTyped
    <3>3. RestTyped'
      BY <1>1, <1>2, <2>1, <2>2, <2>3 DEF Done, RestTyped
    <3> QED
      BY <1>1, <1>2, <2>1, <2>2, <3>1, <3>2, <3>3 DEF Goal, InUnit, Owes
  <2>4. CASE /\ \E e \in {"busy", "refused", "other", "unreachable"} : Raise(c, e)
             /\ GiveBack(c, "failed") /\ UNCHANGED left
    <3>1. pc'[c] = "failed" /\ Others
      BY <1>1, <2>1, <2>4, GaveBack DEF Holding, Steps, Raise, RestTyped
    <3>2. RestTyped'
      BY <1>1, <2>1, <2>4 DEF Raise, RestTyped, Errors
    <3> QED
      BY <1>1, <2>1, <2>2, <2>4, <3>1, <3>2 DEF Goal, InUnit, Owes
  <2> QED
    BY <2>1, <2>3, <2>4
<1>6. ASSUME Begin(c) \/ Callback(c) PROVE Goal
  <2>1. /\ pc[c] \in {"begin", "inside"}
        /\ UNCHANGED <<kind, kept, left, stage, code, database, link, answer>>
        /\ pc'[c] \in {"inside", "commit", "rollback"}
        /\ \A d \in Clients \ {c} : pc'[d] = pc[d] /\ err'[d] = err[d]
    BY <1>1, <1>6 DEF Begin, Callback, Stays, process, Raise, RestTyped
  <2>2. c \notin kept
    BY <1>1, <2>1 DEF Owes
  <2>3. RestTyped'
    BY <1>1, <1>6 DEF Begin, Callback, Stays, process, Raise, RestTyped, Errors
  <2> QED
    BY <1>1, <2>1, <2>2, <2>3 DEF Goal, InUnit, Owes
<1>7. ASSUME Commit(c) PROVE Goal
  <2>1. /\ pc[c] = "commit" /\ UNCHANGED <<kind, stage, code, database, link, answer>>
        /\ left[c] # <<>> /\ left[c][1] = "tx" /\ c \notin kept
    BY <1>1, <1>7 DEF Commit, Stays, process, InUnit, Owes
  <2>2. CASE kept' = kept \cup {c} /\ GiveBack(c, "next") /\ Done(c) /\ UNCHANGED err
    <3>1. pc'[c] = "next" /\ Others
      BY <1>1, <2>1, <2>2, GaveBack DEF Holding, Steps, Done, RestTyped
    <3>2. left'[c] = Tail(left[c])
      BY <2>2 DEF Done, Sound, RestTyped
    <3>3. RestTyped'
      BY <1>1, <1>2, <2>1, <2>2 DEF Done, RestTyped
    <3> QED
      BY <1>1, <1>2, <2>1, <2>2, <3>1, <3>2, <3>3 DEF Goal, InUnit, Owes
  <2>3. CASE /\ pc' = [pc EXCEPT ![c] = "rollback"] /\ UNCHANGED left
             /\ \/ (\E e \in {"busy", "other"} : Raise(c, e)) /\ UNCHANGED kept
                \/ Raise(c, "unreachable") /\ kept' \in {kept, kept \cup {c}}
    <3>1. /\ pc'[c] = "rollback" /\ Others
          /\ c \in kept' => err'[c] = "unreachable"
      BY <1>1, <2>1, <2>3 DEF Raise, RestTyped
    <3>2. RestTyped'
      BY <1>1, <2>1, <2>3 DEF Raise, RestTyped, Errors
    <3> QED
      BY <1>1, <2>1, <2>3, <3>1, <3>2 DEF Goal, InUnit, Owes
  <2> QED
    BY <1>7, <2>2, <2>3 DEF Commit
<1>8. ASSUME Rollback(c) PROVE Goal
  <2>1. /\ pc[c] = "rollback" /\ GiveBack(c, "failed")
        /\ UNCHANGED <<kind, kept, left, err, stage, code, database, link, answer>>
    BY <1>8 DEF Rollback, Stays, process
  <2>2. pc'[c] = "failed" /\ Others
    BY <1>1, <2>1, GaveBack DEF Holding, Steps
  <2>3. RestTyped'
    BY <1>1, <2>1 DEF RestTyped
  <2> QED
    BY <1>1, <2>1, <2>2, <2>3 DEF Goal, InUnit, Owes
<1>9. ASSUME Refuse(c) PROVE Goal
  <2>1. /\ pc[c] = "next" /\ c \notin kept /\ pc'[c] = "failed" /\ UNCHANGED <<kind, kept, left>>
        /\ Others
    BY <1>1, <1>9 DEF Refuse, Raise, RestTyped
  <2>2. RestTyped'
    BY <1>1, <1>9 DEF Refuse, Raise, RestTyped, Errors, process
  <2> QED
    BY <1>1, <2>1, <2>2 DEF Goal, InUnit, Owes
<1>10. ASSUME Answer(c) PROVE Goal
  <2>1. Told(c) \in Answers
    BY DEF Told, Answers
  <2>2. PICK a \in Answers : Tell(c, a)
    BY <1>10, <2>1 DEF Answer, Answers
  <2>3. pc'[c] = "none" /\ left'[c] = <<>> /\ c \notin kept' /\ kind'[c] = None /\ Others
    BY <1>1, <2>2 DEF Tell, RestTyped
  <2>4. RestTyped'
    BY <1>1, <1>3, <2>2 DEF Tell, RestTyped, process
  <2> QED
    BY <1>3, <2>3, <2>4 DEF Goal, InUnit, Owes
<1>11. ASSUME Arrive(c) PROVE Goal
  <2>1. PICK r \in Requests : /\ kind' = [kind EXCEPT ![c] = r]
                              /\ left' = [left EXCEPT ![c] = Units[r]]
    BY <1>11, ProcessAssumption DEF Arrive
  <2>2. /\ pc[c] = "none" /\ pc' = [pc EXCEPT ![c] = "next"] /\ UNCHANGED <<err, kept>>
        /\ stage' = stage /\ code' = code /\ database' = database
        /\ link' = [link EXCEPT ![c] = "busy"] /\ answer' = [answer EXCEPT ![c] = None]
    BY <1>11 DEF Arrive, process
  <2>3. Units[r] \in Seq({"query", "tx"}) /\ TxLast(Units[r]) /\ c \notin kept
    BY <1>1, <2>2, UnitsOfRequest DEF InUnit
  <2>4. pc'[c] = "next" /\ left'[c] = Units[r] /\ kind'[c] = r /\ Others
    BY <1>1, <2>1, <2>2 DEF RestTyped
  <2>5. RestTyped'
    BY <1>1, <2>1, <2>2, <2>3 DEF RestTyped
  <2> QED
    BY <1>1, <2>1, <2>2, <2>3, <2>4, <2>5 DEF Goal, InUnit, Owes
<1>12. ASSUME HangUp(c) \/ KeepAliveEnds(c) PROVE Goal
  <2>1. /\ UNCHANGED <<kind, pc, left, err, kept, stage, code, database>>
        /\ link' = [link EXCEPT ![c] = "closed"] /\ answer' = [answer EXCEPT ![c] = None]
    BY <1>12 DEF HangUp, KeepAliveEnds, Disconnect, process
  <2>2. RestTyped'
    BY <1>1, <2>1 DEF RestTyped
  <2> QED
    BY <1>1, <2>1, <2>2 DEF Goal, InUnit, Owes
<1>13. Goal
  BY <1>4, <1>5, <1>6, <1>7, <1>8, <1>9, <1>10, <1>11, <1>12 DEF Handle, Client
<1>14. \A d \in Clients \ {c} : InUnit(d)' /\ Owes(d)'
  <2> SUFFICES ASSUME NEW d \in Clients \ {c} PROVE InUnit(d)' /\ Owes(d)'
    OBVIOUS
  <2>1. InUnit(d) /\ Owes(d) /\ left[d] \in Seq({"query", "tx"})
    BY DEF Sound, RestTyped
  <2> QED
    BY <1>13, <2>1, OtherUnit DEF Goal
<1> QED
  BY <1>13, <1>14 DEF Goal

-----------------------------------------------------------------------------
(* The accounts of the pool.                                               *)

\* A handler that only moves on, within what it holds or without.
LEMMA MoveServes ==
  ASSUME PoolInv, Served, NEW c \in Clients, NEW s \in Steps, s # "queue",
         UNCHANGED <<owner, queue>>, ended \subseteq ended', pc' = [pc EXCEPT ![c] = s],
         s \in Holding => pc[c] \in Holding
  PROVE  Served'
<1>1. pc \in [Clients -> Steps]
  BY DEF PoolInv, PoolTyped
<1>2. ASSUME NEW d \in Clients
      PROVE  /\ pc'[d] \in Holding => \E k \in Connections : owner[k] = d
             /\ pc'[d] = "queue" => \E p \in Pools : \E i \in 1..Len(queue[p]) : queue[p][i] = d
  <2>1. /\ pc'[d] \in Holding => pc[d] \in Holding
        /\ pc'[d] = "queue" => pc[d] = "queue"
    BY <1>1
  <2> QED
    BY <2>1 DEF Served
<1>3. \A p \in Pools \ ended' : queue[p] # <<>> => Idle(p)' = {}
  BY DEF Served, Idle
<1> QED
  BY <1>2, <1>3 DEF Served

\* The connection is handed to the first in line, and else to nobody: who stands
\* behind him moves up.
LEMMA GiveBackServes ==
  ASSUME PoolInv, Served, NEW c \in Clients, NEW s \in Steps \ Holding, s # "queue",
         pc[c] \in Holding, GiveBack(c, s), UNCHANGED ended
  PROVE  Served'
<1>1. PICK k \in Held(c) :
        LET waiters == queue[k[1]]
        IN  IF waiters = <<>> \/ k[1] \in ended
            THEN /\ owner' = [owner EXCEPT ![k] = None]
                 /\ pc' = [pc EXCEPT ![c] = s]
                 /\ UNCHANGED queue
            ELSE /\ owner' = [owner EXCEPT ![k] = Head(waiters)]
                 /\ pc' = [pc EXCEPT ![c] = s,
                                     ![Head(waiters)] = FirstStep(left[Head(waiters)])]
                 /\ queue' = [queue EXCEPT ![k[1]] = Tail(@)]
  BY DEF GiveBack
<1>2. /\ k \in Connections /\ owner[k] = c /\ k[1] \in Pools
      /\ pc \in [Clients -> Steps] /\ owner \in [Connections -> Clients \cup {None}]
      /\ queue \in [Pools -> Seq(Clients)] /\ None \notin Clients
  BY ProcessAssumption DEF Held, PoolInv, PoolTyped, Connections
<1>3. CASE queue[k[1]] = <<>> \/ k[1] \in ended
  <2>1. /\ owner' = [owner EXCEPT ![k] = None] /\ pc' = [pc EXCEPT ![c] = s]
        /\ UNCHANGED queue
    BY <1>1, <1>3
  <2>2. ASSUME NEW d \in Clients
        PROVE  /\ pc'[d] \in Holding => \E l \in Connections : owner'[l] = d
               /\ pc'[d] = "queue" =>
                    \E p \in Pools : \E i \in 1..Len(queue[p]) : queue[p][i] = d
    <3>1. CASE d = c
      BY <1>2, <2>1, <3>1
    <3>2. CASE d # c
      <4>1. pc'[d] = pc[d]
        BY <1>2, <2>1, <3>2
      <4>2. pc[d] \in Holding => \E l \in Connections \ {k} : owner[l] = d
        BY <1>2, <3>2 DEF Served
      <4>3. pc[d] \in Holding => \E l \in Connections : owner'[l] = d
        BY <1>2, <2>1, <4>2
      <4> QED
        BY <4>1, <4>3 DEF Served
    <3> QED
      BY <3>1, <3>2
  <2>3. ASSUME NEW p \in Pools \ ended, queue[p] # <<>> PROVE Idle(p)' = {}
    <3>1. p # k[1]
      BY <1>3, <2>3
    <3>2. \A l \in Connections : l[1] = p => owner'[l] = owner[l]
      BY <1>2, <2>1, <3>1
    <3> QED
      BY <2>3, <3>2 DEF Served, Idle
  <2> QED
    BY <2>1, <2>2, <2>3 DEF Served
<1>4. CASE queue[k[1]] # <<>> /\ k[1] \notin ended
  <2> DEFINE w == Head(queue[k[1]])
             step == FirstStep(left[w])
  <2>1. /\ owner' = [owner EXCEPT ![k] = w]
        /\ pc' = [pc EXCEPT ![c] = s, ![w] = step]
        /\ queue' = [queue EXCEPT ![k[1]] = Tail(@)]
    BY <1>1, <1>4
  <2>2. /\ queue[k[1]] \in Seq(Clients) /\ w \in Clients
        /\ Len(queue[k[1]]) \in Nat /\ Len(queue[k[1]]) >= 1
        /\ w = queue[k[1]][1] /\ Tail(queue[k[1]]) \in Seq(Clients)
        /\ Len(Tail(queue[k[1]])) = Len(queue[k[1]]) - 1
        /\ \A i \in 1..Len(Tail(queue[k[1]])) : Tail(queue[k[1]])[i] = queue[k[1]][i + 1]
    BY <1>2, <1>4, HeadTailProperties, EmptySeq, LenProperties
  <2>3. pc[w] = "queue" /\ w # c
    BY <2>2, <1>2 DEF PoolInv, InLine, Holding
  <2>4. step \in {"query", "begin"}
    BY DEF FirstStep
  <2> HIDE DEF w, step
  <2>5. ASSUME NEW d \in Clients
        PROVE  /\ pc'[d] \in Holding => \E l \in Connections : owner'[l] = d
               /\ pc'[d] = "queue" =>
                    \E p \in Pools : \E i \in 1..Len(queue'[p]) : queue'[p][i] = d
    <3>1. CASE d = c
      BY <1>2, <2>1, <2>3, <3>1
    <3>2. CASE d = w
      <4>1. pc'[d] = step /\ owner'[k] = d
        BY <1>2, <2>1, <2>2, <2>3, <3>2
      <4> QED
        BY <1>2, <2>4, <4>1
    <3>3. CASE d # c /\ d # w
      <4>1. pc'[d] = pc[d]
        BY <1>2, <2>1, <2>2, <3>3
      <4>2. pc[d] \in Holding => \E l \in Connections \ {k} : owner[l] = d
        BY <1>2, <3>3 DEF Served
      <4>3. pc[d] \in Holding => \E l \in Connections : owner'[l] = d
        BY <1>2, <2>1, <4>2
      <4>4. ASSUME pc[d] = "queue"
            PROVE  \E p \in Pools : \E i \in 1..Len(queue'[p]) : queue'[p][i] = d
        <5>1. PICK p \in Pools : \E i \in 1..Len(queue[p]) : queue[p][i] = d
          BY <4>4 DEF Served
        <5>2. PICK i \in 1..Len(queue[p]) : queue[p][i] = d
          BY <5>1
        <5>3. CASE p # k[1]
          BY <1>2, <2>1, <5>2, <5>3
        <5>4. CASE p = k[1]
          <6>1. queue'[p] = Tail(queue[k[1]])
            BY <1>2, <2>1, <5>4
          <6>2. i # 1
            BY <2>2, <3>3, <5>2, <5>4
          <6>3. i - 1 \in 1..Len(queue'[p]) /\ queue'[p][i - 1] = d
            BY <2>2, <5>2, <5>4, <6>1, <6>2
          <6> QED
            BY <6>3
        <5> QED
          BY <5>3, <5>4
      <4> QED
        BY <4>1, <4>3, <4>4
    <3> QED
      BY <3>1, <3>2, <3>3
  <2>6. ASSUME NEW p \in Pools \ ended, queue'[p] # <<>> PROVE Idle(p)' = {}
    <3>1. queue[p] # <<>>
      <4>1. CASE p = k[1]
        BY <1>4, <4>1
      <4>2. CASE p # k[1]
        BY <1>2, <2>1, <2>6, <4>2
      <4> QED
        BY <4>1, <4>2
    <3>2. \A l \in Connections : l[1] = p => owner[l] # None
      BY <3>1 DEF Served, Idle
    <3>3. \A l \in Connections : l[1] = p => owner'[l] # None
      BY <1>2, <2>1, <2>2, <3>2
    <3> QED
      BY <3>3 DEF Idle
  <2> QED
    BY <2>5, <2>6 DEF Served
<1> QED
  BY <1>3, <1>4

\* Who finds a connection takes it, and who finds none stands in line.
LEMMA AcquireServes ==
  ASSUME PoolInv, Served, NEW c \in Clients, Acquire(c)
  PROVE  Served'
<1> DEFINE P == CurrentPool
<1>1. /\ pc[c] = "next" /\ P \in Pools /\ UNCHANGED ended
      /\ pc \in [Clients -> Steps] /\ owner \in [Connections -> Clients \cup {None}]
      /\ queue \in [Pools -> Seq(Clients)] /\ None \notin Clients
  BY ProcessAssumption DEF Acquire, CurrentPool, Created, Pools, PoolInv, PoolTyped
<1>2. CASE /\ \E k \in Idle(P) : owner' = [owner EXCEPT ![k] = c]
           /\ pc' = [pc EXCEPT ![c] = FirstStep(left[c])] /\ UNCHANGED queue
  <2>1. PICK k \in Idle(P) : owner' = [owner EXCEPT ![k] = c]
    BY <1>2
  <2>2. k \in Connections /\ owner[k] = None
    BY DEF Idle
  <2>3. FirstStep(left[c]) # "queue"
    BY DEF FirstStep
  <2>4. ASSUME NEW d \in Clients
        PROVE  /\ pc'[d] \in Holding => \E l \in Connections : owner'[l] = d
               /\ pc'[d] = "queue" =>
                    \E p \in Pools : \E i \in 1..Len(queue[p]) : queue[p][i] = d
    <3>1. CASE d = c
      BY <1>1, <1>2, <2>1, <2>2, <2>3, <3>1
    <3>2. CASE d # c
      <4>1. pc'[d] = pc[d]
        BY <1>1, <1>2, <3>2
      <4>2. pc[d] \in Holding => \E l \in Connections \ {k} : owner[l] = d
        BY <1>1, <2>2 DEF Served
      <4>3. pc[d] \in Holding => \E l \in Connections : owner'[l] = d
        BY <1>1, <2>1, <4>2
      <4> QED
        BY <4>1, <4>3 DEF Served
    <3> QED
      BY <3>1, <3>2
  <2>5. \A p \in Pools : Idle(p)' \subseteq Idle(p)
    BY <1>1, <2>1, <2>2 DEF Idle
  <2> QED
    BY <1>1, <1>2, <2>4, <2>5 DEF Served
<1>3. CASE pc' = [pc EXCEPT ![c] = "failed"] /\ UNCHANGED <<owner, queue>>
  BY <1>1, <1>3, MoveServes DEF Holding, Steps
<1>4. CASE /\ Idle(P) = {} /\ pc' = [pc EXCEPT ![c] = "queue"] /\ UNCHANGED owner
           /\ queue' = [queue EXCEPT ![P] = Append(@, c)]
  <2>1. /\ Len(queue[P]) \in Nat /\ Len(Append(queue[P], c)) = Len(queue[P]) + 1
        /\ \A n \in 1..Len(queue[P]) : Append(queue[P], c)[n] = queue[P][n]
        /\ Append(queue[P], c)[Len(queue[P]) + 1] = c
    BY <1>1, AppendProperties, LenProperties
  <2>2. queue'[P] = Append(queue[P], c) /\ \A p \in Pools \ {P} : queue'[p] = queue[p]
    BY <1>1, <1>4
  <2> HIDE DEF P
  <2>3. ASSUME NEW d \in Clients
        PROVE  /\ pc'[d] \in Holding => \E l \in Connections : owner[l] = d
               /\ pc'[d] = "queue" =>
                    \E p \in Pools : \E i \in 1..Len(queue'[p]) : queue'[p][i] = d
    <3>1. CASE d = c
      <4>1. Len(queue[P]) + 1 \in 1..Len(queue'[P]) /\ queue'[P][Len(queue[P]) + 1] = c
        BY <2>1, <2>2
      <4> QED
        BY <1>1, <1>4, <3>1, <4>1 DEF Holding
    <3>2. CASE d # c
      <4>1. pc'[d] = pc[d]
        BY <1>1, <1>4, <3>2
      <4>2. ASSUME pc[d] = "queue"
            PROVE  \E p \in Pools : \E i \in 1..Len(queue'[p]) : queue'[p][i] = d
        <5>1. PICK p \in Pools : \E i \in 1..Len(queue[p]) : queue[p][i] = d
          BY <4>2 DEF Served
        <5>2. PICK i \in 1..Len(queue[p]) : queue[p][i] = d
          BY <5>1
        <5>3. i \in 1..Len(queue'[p]) /\ queue'[p][i] = d
          BY <2>1, <2>2, <5>2
        <5> QED
          BY <5>3
      <4> QED
        BY <4>1, <4>2 DEF Served
    <3> QED
      BY <3>1, <3>2
  <2>4. \A p \in Pools \ ended : queue'[p] # <<>> => Idle(p)' = {}
    <3>1. \A p \in Pools : Idle(p)' = Idle(p)
      BY <1>4 DEF Idle
    <3> QED
      BY <1>4, <2>2, <3>1 DEF Served, P
  <2> QED
    BY <1>1, <1>4, <2>3, <2>4 DEF Served
<1> QED
  BY <1>2, <1>3, <1>4 DEF Acquire

LEMMA NextServes ==
  ASSUME PoolInv, Served, [Next]_vars
  PROVE  Served'
<1>1. ASSUME NEW c \in Clients, Handle(c) PROVE Served'
  <2>1. CASE Acquire(c)
    BY <2>1, AcquireServes
  <2>2. CASE Query(c)
    BY <2>2, GiveBackServes DEF Query, Stays, Holding, Steps
  <2>3. CASE Begin(c) \/ Callback(c)
    BY <2>3, MoveServes DEF Begin, Callback, Stays, Holding, Steps
  <2>4. CASE Commit(c)
    <3>1. pc[c] = "commit" /\ UNCHANGED ended
      BY <2>4 DEF Commit, Stays
    <3>2. CASE GiveBack(c, "next")
      BY <3>1, <3>2, GiveBackServes DEF Holding, Steps
    <3>3. CASE UNCHANGED <<owner, queue>> /\ pc' = [pc EXCEPT ![c] = "rollback"]
      BY <3>1, <3>3, MoveServes DEF Holding, Steps
    <3> QED
      BY <2>4, <3>2, <3>3 DEF Commit
  <2>5. CASE Rollback(c)
    BY <2>5, GiveBackServes DEF Rollback, Stays, Holding, Steps
  <2>6. CASE Refuse(c) \/ Answer(c)
    BY <2>6, MoveServes DEF Refuse, Answer, Tell, shared, Holding, Steps
  <2> QED
    BY <1>1, <2>1, <2>2, <2>3, <2>4, <2>5, <2>6 DEF Handle
<1>2. ASSUME NEW c \in Clients, Client(c) PROVE Served'
  <2>1. CASE Arrive(c)
    BY <2>1, MoveServes DEF Arrive, shared, Holding, Steps
  <2>2. CASE HangUp(c) \/ KeepAliveEnds(c)
    BY <2>2 DEF HangUp, KeepAliveEnds, Disconnect, shared, Served, Idle
  <2> QED
    BY <1>2, <2>1, <2>2 DEF Client
<1>3. CASE Process
  <2>1. UNCHANGED <<owner, queue, pc>> /\ ended \subseteq ended'
    BY <1>3 DEF Process, Wedge, Shutdown, Drained, Exit, TimeOut, shared, local
  <2> QED
    BY <2>1 DEF Served, Idle
<1>4. CASE UNCHANGED vars
  BY <1>4 DEF vars, shared, local, Served, Idle
<1> QED
  BY <1>1, <1>2, <1>3, <1>4 DEF Next

\* closePool() runs once, before a second pool can be made.
LEMMA NextPool ==
  ASSUME OnePool, [Next]_vars
  PROVE  OnePool'
<1>1. CASE Drained
  <2>1. /\ stage = "draining" /\ stage' = "closing" /\ pool' = 0
        /\ ended' = ended \cup ({pool} \ {0})
    BY <1>1 DEF Drained
  <2>2. ended = {} /\ pool \in {0, 1}
    BY <2>1 DEF OnePool
  <2> QED
    BY <2>1, <2>2 DEF OnePool
<1>2. CASE Wedge \/ Shutdown \/ Exit \/ TimeOut
  <2>1. UNCHANGED <<pool, ended>>
    BY <1>2 DEF Wedge, Shutdown, Exit, TimeOut, shared, process
  <2>2. stage' \in {"serving", "draining"} => stage \in {"serving", "draining"}
    BY <1>2 DEF Wedge, Shutdown, Exit, TimeOut, process
  <2> QED
    BY <2>1, <2>2 DEF OnePool
<1>3. ASSUME NEW c \in Clients, Acquire(c) PROVE OnePool'
  <2>1. UNCHANGED <<stage, ended>> /\ pool' = CurrentPool
    BY <1>3 DEF Acquire, process
  <2>2. /\ ended = {} => CurrentPool = 1
        /\ ended # {} => CurrentPool = 2
    BY DEF OnePool, CurrentPool, Created
  <2> QED
    BY <2>1, <2>2 DEF OnePool
<1>4. ASSUME NEW c \in Clients, Handle(c) \/ Client(c), ~Acquire(c) PROVE OnePool'
  <2>1. UNCHANGED <<stage, pool, ended>>
    BY <1>4 DEF Handle, Query, Begin, Callback, Commit, Rollback, Refuse, Answer, Tell,
                Client, Arrive, HangUp, KeepAliveEnds, Disconnect, Stays, process, shared
  <2> QED
    BY <2>1 DEF OnePool
<1>5. CASE UNCHANGED vars
  BY <1>5 DEF vars, process, shared, OnePool
<1> QED
  BY <1>1, <1>2, <1>3, <1>4, <1>5 DEF Next, Process

LEMMA InitInv == Init => Inv
<1> SUFFICES ASSUME Init PROVE Inv
  OBVIOUS
<1>1. PoolInv
  BY PoolInit
<1>2. TypeOK
  BY <1>1, EmptySeq DEF Init, TypeOK, PoolInv, PoolTyped, Stages
<1>3. ~Transacts(<<>>) /\ TxLast(<<>>)
  BY UnitsLeft, EmptySeq
<1>4. \A c \in Clients : InUnit(c) /\ Owes(c)
  BY <1>3 DEF Init, InUnit, Owes
<1>5. OnePool /\ Served
  BY DEF Init, OnePool, Served, Holding
<1> QED
  BY <1>1, <1>2, <1>4, <1>5 DEF Inv

LEMMA TypedInParts == PoolInv /\ RestTyped /\ OnePool => TypeOK
BY DEF PoolInv, PoolTyped, RestTyped, OnePool, TypeOK, Pools

LEMMA NextInv == Inv /\ [Next]_vars => Inv'
<1> SUFFICES ASSUME Inv, [Next]_vars PROVE Inv'
  OBVIOUS
<1>1. Sound /\ OnePool /\ Served /\ PoolInv
  BY DEF Inv, Sound, RestTyped, TypeOK
<1>2. PoolInv' /\ OnePool' /\ Served'
  BY <1>1, NextPoolInv, NextPool, NextServes
<1>3. RestTyped' /\ \A d \in Clients : InUnit(d)' /\ Owes(d)'
  <2>1. CASE Process
    <3>1. UNCHANGED local
      BY <2>1 DEF Process, Wedge, Shutdown, Drained, Exit, TimeOut
    <3>2. RestTyped'
      BY <1>1, <2>1, <3>1 DEF Sound, RestTyped, Process, Wedge, Shutdown, Drained, Exit, TimeOut,
                              process, local, Stages
    <3> QED
      BY <1>1, <3>1, <3>2 DEF Sound, local, InUnit, Owes
  <2>2. CASE UNCHANGED vars
    <3>1. RestTyped'
      BY <1>1, <2>2 DEF Sound, vars, process, local, RestTyped
    <3> QED
      BY <1>1, <2>2, <3>1 DEF Sound, vars, local, InUnit, Owes
  <2> QED
    BY <1>1, <2>1, <2>2, HandleUnits DEF Next
<1>4. TypeOK'
  BY <1>2, <1>3, TypedInParts, PTL
<1> QED
  BY <1>2, <1>3, <1>4 DEF Inv

LEMMA InvHolds == Spec => []Inv
BY InitInv, NextInv, PTL DEF Spec

\* A line of clients, each of them once, is not longer than there are clients.
LEMMA LineIsShort ==
  ASSUME PoolInv, NEW p \in Pools
  PROVE  Len(queue[p]) \in Nat /\ Len(queue[p]) <= Cardinality(Clients)
<1> DEFINE n == Len(queue[p])
           place == [i \in 1..n |-> queue[p][i]]
<1>1. queue[p] \in Seq(Clients) /\ n \in Nat
  BY LenProperties DEF PoolInv, PoolTyped
<1>2. \A i \in 1..n : queue[p][i] \in Clients
  BY <1>1, ElementOfSeq
<1>3. \A i, j \in 1..n : queue[p][i] = queue[p][j] => i = j
  BY DEF PoolInv, InLine
<1> HIDE DEF n
<1>4. place \in [1..n -> Clients] /\ \A i, j \in 1..n : place[i] = place[j] => i = j
  BY <1>2, <1>3
<1> HIDE DEF place
<1>5. place \in Injection(1..n, Clients)
  BY <1>4 DEF Injection, IsInjective
<1>6. Cardinality(1..n) <= Cardinality(Clients)
  BY <1>5, ProcessAssumption, FS_Injection
<1>7. Cardinality(1..n) = n
  BY <1>1, FS_Interval
<1> QED
  BY <1>1, <1>6, <1>7 DEF n

\* Every connection is accounted for: who works with the database holds one, who
\* waits stands in line once, and nobody waits while a connection is free; and
\* every variable has its type.
THEOREM ConnectionsAreAccounted == Spec => []ConnectionsAccounted
<1> DEFINE places(c) == {k \in Pools \X (1..Cardinality(Clients)) :
                           k[2] \in DOMAIN queue[k[1]] /\ queue[k[1]][k[2]] = c}
<1>1. ASSUME Inv, NEW c \in Clients
      PROVE  Cardinality(Held(c)) = IF pc[c] \in Holding THEN 1 ELSE 0
  <2>1. CASE pc[c] \in Holding
    <3>1. PICK k \in Connections : owner[k] = c
      BY <1>1, <2>1 DEF Inv, Served
    <3>2. Held(c) = {k}
      BY <1>1, <3>1, ProcessAssumption DEF Inv, PoolInv, HoldsOne, Held
    <3> QED
      BY <2>1, <3>2, FS_Singleton
  <2>2. CASE pc[c] \notin Holding
    <3>1. Held(c) = {}
      BY <1>1, <2>2, ProcessAssumption DEF Inv, PoolInv, HoldsOne, Held
    <3> QED
      BY <2>2, <3>1, FS_EmptySet
  <2> QED
    BY <2>1, <2>2
<1>2. ASSUME Inv, NEW c \in Clients
      PROVE  Cardinality(places(c)) = IF pc[c] = "queue" THEN 1 ELSE 0
  <2>1. \A p \in Pools : /\ Len(queue[p]) \in Nat /\ DOMAIN queue[p] = 1..Len(queue[p])
                         /\ Len(queue[p]) <= Cardinality(Clients)
    <3>1. ASSUME NEW p \in Pools PROVE DOMAIN queue[p] = 1..Len(queue[p])
      BY <1>2, LenProperties DEF Inv, PoolInv, PoolTyped
    <3> QED
      BY <1>2, <3>1, LineIsShort DEF Inv
  <2>2. Cardinality(Clients) \in Nat
    BY ProcessAssumption, FS_CardinalityType
  <2>3. \A p, q \in Pools : \A i \in 1..Len(queue[p]), j \in 1..Len(queue[q]) :
           /\ pc[queue[p][i]] = "queue"
           /\ queue[p][i] = queue[q][j] => p = q /\ i = j
    BY <1>2 DEF Inv, PoolInv, InLine
  <2>4. CASE pc[c] = "queue"
    <3>1. PICK p \in Pools : \E i \in 1..Len(queue[p]) : queue[p][i] = c
      BY <1>2, <2>4 DEF Inv, Served
    <3>2. PICK i \in 1..Len(queue[p]) : queue[p][i] = c
      BY <3>1
    <3>3. <<p, i>> \in places(c)
      BY <2>1, <2>2, <3>2
    <3>4. ASSUME NEW k \in places(c) PROVE k = <<p, i>>
      <4>1. /\ k = <<k[1], k[2]>> /\ k[1] \in Pools /\ k[2] \in 1..Len(queue[k[1]])
            /\ queue[k[1]][k[2]] = c
        BY <2>1
      <4> QED
        BY <2>3, <3>2, <4>1
    <3>5. places(c) = {<<p, i>>}
      BY <3>3, <3>4
    <3> QED
      BY <2>4, <3>5, FS_Singleton
  <2>5. CASE pc[c] # "queue"
    <3>1. places(c) = {}
      BY <2>1, <2>3, <2>5
    <3> QED
      BY <2>5, <3>1, FS_EmptySet
  <2> QED
    BY <2>4, <2>5
<1>3. Inv => ConnectionsAccounted
  BY <1>1, <1>2 DEF Inv, Served, ConnectionsAccounted
<1> QED
  BY <1>3, InvHolds, PTL

\* errorHandler.js: "ok" is said after the commit, and a refusal, "please retry"
\* or an internal error only when nothing of the transaction stays.
THEOREM AnswersFit == Spec => AnswerFitsCommit
<1> DEFINE Fit(c) == answer'[c] # answer[c] =>
             /\ answer'[c] \in {"rejected", "retry", "internal"} => c \notin kept
             /\ answer'[c] = "ok" /\ "tx" \in {Units[kind[c]][i] : i \in DOMAIN Units[kind[c]]}
                => c \in kept
<1>1. ASSUME Inv, NEW d \in Clients, Answer(d) PROVE Fit(d)
  <2>1. InUnit(d) /\ Owes(d) /\ answer \in [Clients -> Answers \cup {None}]
    BY <1>1 DEF Inv, TypeOK
  <2>2. CASE pc[d] = "next" /\ left[d] = <<>> /\ Tell(d, "ok")
    <3>1. answer'[d] \in {"ok", answer[d]}
      BY <2>1, <2>2 DEF Tell
    <3>2. kind[d] \in Requests
      BY <2>1, <2>2 DEF InUnit
    <3>3. DOMAIN Units[kind[d]] = 1..Len(Units[kind[d]])
      BY <3>2, UnitsOfRequest, LenProperties
    <3>4. Transacts(Units[kind[d]]) => d \in kept
      BY <2>1, <2>2, UnitsLeft, EmptySeq DEF Owes
    <3> QED
      BY <3>1, <3>3, <3>4 DEF Transacts
  <2>3. CASE pc[d] = "failed" /\ Tell(d, Told(d))
    <3>1. answer'[d] \in {Told(d), answer[d]}
      BY <2>1, <2>3 DEF Tell
    <3>2. d \in kept => Told(d) = "unavailable"
      BY <2>1, <2>3 DEF Owes, Told
    <3>3. Told(d) # "ok"
      BY DEF Told
    <3> QED
      BY <3>1, <3>2, <3>3
  <2> QED
    BY <1>1, <2>2, <2>3 DEF Answer
<1>2. ASSUME Inv, NEW d \in Clients, Client(d) PROVE Fit(d)
  <2>1. answer'[d] = None /\ None \notin Answers
    BY <1>2, ProcessAssumption
       DEF Inv, TypeOK, Client, Arrive, HangUp, KeepAliveEnds, Disconnect
  <2> QED
    BY <2>1 DEF Answers
<1>3. ASSUME Inv, NEW d \in Clients, Handle(d), ~Answer(d) PROVE UNCHANGED answer
  BY <1>3 DEF Handle, Acquire, Query, Begin, Callback, Commit, Rollback, Refuse, Stays
<1>4. ASSUME Inv, NEW d \in Clients, Answer(d) \/ Client(d)
      PROVE  \A c \in Clients \ {d} : answer'[c] = answer[c]
  BY <1>4 DEF Inv, TypeOK, Answer, Tell, Client, Arrive, HangUp, KeepAliveEnds, Disconnect
<1>5. ASSUME Process PROVE UNCHANGED answer
  BY <1>5 DEF Process, Wedge, Shutdown, Drained, Exit, TimeOut, local
<1>6. Inv /\ [Next]_vars => [\A c \in Clients : Fit(c)]_vars
  <2> SUFFICES ASSUME Inv, Next, NEW c \in Clients PROVE Fit(c)
    OBVIOUS
  <2> HIDE DEF Fit
  <2>1. UNCHANGED answer => Fit(c)
    BY DEF Fit
  <2>2. ASSUME NEW d \in Clients, Answer(d) \/ Client(d) PROVE Fit(c)
    <3>1. CASE c = d
      BY <1>1, <1>2, <2>2, <3>1
    <3>2. CASE c # d
      BY <1>4, <2>2, <3>2 DEF Fit
    <3> QED
      BY <3>1, <3>2
  <2> QED
    BY <1>3, <1>5, <2>1, <2>2 DEF Next
<1> QED
  BY <1>6, InvHolds, PTL DEF Spec, AnswerFitsCommit
=============================================================================
