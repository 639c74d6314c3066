------------------------- MODULE Availability_proofs -------------------------
(***************************************************************************)
(* Proofs about the availability view, for any facility, bookings, closures*)
(* and order of the two queries.                                           *)
(*                                                                         *)
(* A row that was there all the time is in what the query of its table     *)
(* returned, whenever the query came; and what a query returned was there  *)
(* at some time.  The rest is the arithmetic of minutes and seconds: a span*)
(* cut to whole minutes loses less than a minute of a slot, and gains none.*)
(***************************************************************************)
EXTENDS Availability, FiniteSetTheorems, TLAPS

BookingStates == {"pending", "confirmed", "rejected", "cancelled"}

\* The tables have their types, and what holds is a booking or a closure.
Rows ==
    /\ booked \in [DOMAIN booked -> [span : Spans, status : BookingStates]]
    /\ closed \in [DOMAIN closed -> Outages]
    /\ always \cup ever \subseteq (Bookings \X Spans) \cup (Closures \X Outages)

\* Nothing is read before the view is asked for.
Fresh ==
    /\ pc = "idle" => busy = None /\ shut = None
    /\ pc # "idle" => row \in Facilities
    /\ pc = "answered" => busy # None /\ shut # None

\* A closure of another day: the query leaves it out.
Elsewhere(span) == span[1] >= Day - 1 \/ span[2] <= 0

\* What held all the time holds still, and each query saw what it asks for of it.
SeenIfThere ==
    /\ pc = "reading" => always \subseteq Holding(booked, closed)
    /\ busy # None => \A r \in always : r[1] \in Bookings => r[2] \in busy
    /\ shut # None => \A r \in always : r[1] \in Closures => r[2] \in shut \/ Elsewhere(r[2])

\* What a query saw held then, and a closure it saw is of the day.
ThereIfSeen ==
    /\ pc = "reading" => Holding(booked, closed) \subseteq ever
    /\ busy # None => \A s \in busy : s \in Spans /\ \E r \in ever : r[2] = s
    /\ shut # None => \A s \in shut : /\ s \in Outages /\ ~Elsewhere(s)
                                      /\ \E r \in ever : r[2] = s

\* The answer is computed from what was read.
Computed ==
    pc = "answered" => slots = {Slot(row, m, Taken) : m \in Starts(row)}

Inv == TypeOK /\ Rows /\ Fresh /\ SeenIfThere /\ ThereIfSeen /\ Computed

-----------------------------------------------------------------------------
(* The tables.                                                             *)

\* A day in seconds and in minutes.
LEMMA DayLength == /\ Day \in Nat /\ 86400 <= Day /\ Day <= 86400
                   /\ Midnight \in Nat /\ 1440 <= Midnight /\ Midnight <= 1440
BY DEF Day, Midnight

\* A second of the day in whole minutes.
LEMMA Minutes ==
  ASSUME NEW t \in 0..(Day - 1)
  PROVE  /\ t \in Int /\ 0 <= t
         /\ ToMinutes(t) \in Int /\ 0 <= ToMinutes(t) /\ ToMinutes(t) < 1440
         /\ 60 * ToMinutes(t) <= t /\ t < 60 * ToMinutes(t) + 60
<1>1. t \in Int /\ 0 <= t /\ t < 86400
  BY DayLength
<1> QED
  BY <1>1 DEF ToMinutes

\* What holds is bookings and closures, each with its span.
LEMMA HoldingRows ==
  ASSUME TypeOK, Rows
  PROVE  /\ Holding(booked, closed) \subseteq (Bookings \X Spans) \cup (Closures \X Outages)
         /\ \A r \in Holding(booked, closed) :
              /\ r[1] \in Bookings => /\ r[1] \in DOMAIN booked /\ booked[r[1]].span = r[2]
                                      /\ booked[r[1]].status \in Holds
              /\ r[1] \in Closures => r[1] \in DOMAIN closed /\ closed[r[1]] = r[2]
         /\ \A k \in DOMAIN booked : booked[k].status \in Holds
              => booked[k].span \in Spans /\ <<k, booked[k].span>> \in Holding(booked, closed)
         /\ \A k \in DOMAIN closed :
              closed[k] \in Outages /\ <<k, closed[k]>> \in Holding(booked, closed)
<1>1. /\ DOMAIN booked \subseteq Bookings /\ DOMAIN closed \subseteq Closures
      /\ \A k \in DOMAIN booked : booked[k].span \in Spans
      /\ \A k \in DOMAIN closed : closed[k] \in Outages
  BY DEF TypeOK, Rows
<1>2. ASSUME NEW r \in Holding(booked, closed)
      PROVE  /\ r \in (Bookings \X Spans) \cup (Closures \X Outages)
             /\ r[1] \in Bookings => /\ r[1] \in DOMAIN booked /\ booked[r[1]].span = r[2]
                                     /\ booked[r[1]].status \in Holds
             /\ r[1] \in Closures => r[1] \in DOMAIN closed /\ closed[r[1]] = r[2]
  <2>1. CASE \E k \in DOMAIN booked : booked[k].status \in Holds /\ r = <<k, booked[k].span>>
    <3>1. PICK k \in DOMAIN booked : booked[k].status \in Holds /\ r = <<k, booked[k].span>>
      BY <2>1
    <3> QED
      BY <1>1, <3>1, DayAssumption
  <2>2. CASE \E k \in DOMAIN closed : r = <<k, closed[k]>>
    <3>1. PICK k \in DOMAIN closed : r = <<k, closed[k]>>
      BY <2>2
    <3> QED
      BY <1>1, <3>1, DayAssumption
  <2> QED
    BY <1>2, <2>1, <2>2 DEF Holding
<1>3. \A k \in DOMAIN booked : booked[k].status \in Holds
        => <<k, booked[k].span>> \in Holding(booked, closed)
  BY DEF Holding
<1>4. \A k \in DOMAIN closed : <<k, closed[k]>> \in Holding(booked, closed)
  BY DEF Holding
<1> QED
  BY <1>1, <1>2, <1>3, <1>4

\* Nothing is read yet.
LEMMA InitInv == Init => Inv
<1> SUFFICES ASSUME Init PROVE Inv
  OBVIOUS
<1> USE DEF Init
<1>1. TypeOK
  BY DEF TypeOK
<1>2. Rows /\ Fresh
  BY DEF Rows, Fresh
<1>3. SeenIfThere /\ ThereIfSeen /\ Computed
  BY DEF SeenIfThere, ThereIfSeen, Computed
<1> QED
  BY <1>1, <1>2, <1>3 DEF Inv

\* The view is asked for: it knows of what holds now.
LEMMA AskStep == ASSUME Inv, Ask PROVE Inv'
<1>1. /\ UNCHANGED <<facility, booked, closed, busy, shut, slots>> /\ pc' = "reading"
      /\ row' = facility /\ facility # None /\ busy = None /\ shut = None
      /\ always' = Holding(booked, closed) /\ ever' = Holding(booked, closed)
  BY DEF Inv, Fresh, Ask, tables
<1>2. TypeOK'
  BY <1>1 DEF Inv, TypeOK
<1>3. Rows'
  BY <1>1, HoldingRows DEF Inv, Rows
<1>4. Fresh' /\ Computed'
  BY <1>1 DEF Inv, TypeOK, Fresh, Computed
<1>5. SeenIfThere' /\ ThereIfSeen'
  BY <1>1 DEF SeenIfThere, ThereIfSeen, Holding
<1> QED
  BY <1>2, <1>3, <1>4, <1>5 DEF Inv

\* The query of the bookings returns those that hold now.
LEMMA BookingsStep == ASSUME Inv, ListBookings PROVE Inv'
<1>1. /\ UNCHANGED <<facility, booked, closed, pc, row, shut, slots, always, ever>>
      /\ pc = "reading"
      /\ busy' = {booked[k].span : k \in {k \in DOMAIN booked : booked[k].status \in Holds}}
  BY DEF ListBookings, tables
<1>2. \A s \in busy' : s \in Spans /\ \E r \in ever : r[2] = s
  <2> SUFFICES ASSUME NEW s \in busy' PROVE s \in Spans /\ \E r \in ever : r[2] = s
    OBVIOUS
  <2>1. PICK k \in DOMAIN booked : booked[k].status \in Holds /\ s = booked[k].span
    BY <1>1
  <2>2. s \in Spans /\ <<k, s>> \in Holding(booked, closed)
    BY <2>1, HoldingRows DEF Inv
  <2>3. <<k, s>> \in ever
    BY <1>1, <2>2 DEF Inv, ThereIfSeen
  <2> QED
    BY <2>2, <2>3
<1>3. \A r \in always : r[1] \in Bookings => r[2] \in busy'
  <2> SUFFICES ASSUME NEW r \in always, r[1] \in Bookings PROVE r[2] \in busy'
    OBVIOUS
  <2>1. r \in Holding(booked, closed)
    BY <1>1 DEF Inv, SeenIfThere
  <2>2. r[1] \in DOMAIN booked /\ booked[r[1]].span = r[2] /\ booked[r[1]].status \in Holds
    BY <2>1, HoldingRows DEF Inv
  <2> QED
    BY <1>1, <2>2
<1>4. TypeOK'
  BY <1>1, <1>2 DEF Inv, TypeOK
<1>5. Rows' /\ Fresh' /\ Computed'
  BY <1>1 DEF Inv, Rows, Fresh, Computed
<1>6. SeenIfThere' /\ ThereIfSeen'
  BY <1>1, <1>2, <1>3 DEF Inv, SeenIfThere, ThereIfSeen, Holding
<1> QED
  BY <1>4, <1>5, <1>6 DEF Inv

\* The query of the closures returns those of the day.
LEMMA ClosuresStep == ASSUME Inv, ListClosures PROVE Inv'
<1>1. /\ UNCHANGED <<facility, booked, closed, pc, row, busy, slots, always, ever>>
      /\ pc = "reading"
      /\ shut' = {closed[k] : k \in {k \in DOMAIN closed : closed[k][1] < Day - 1 /\ closed[k][2] > 0}}
  BY DEF ListClosures, tables
<1>0. \A s \in Outages : s[1] \in Int /\ s[2] \in Int
  BY DayAssumption
<1>2. \A s \in shut' : s \in Outages /\ ~Elsewhere(s) /\ \E r \in ever : r[2] = s
  <2> SUFFICES ASSUME NEW s \in shut'
               PROVE  s \in Outages /\ ~Elsewhere(s) /\ \E r \in ever : r[2] = s
    OBVIOUS
  <2>1. PICK k \in DOMAIN closed : s = closed[k] /\ s[1] < Day - 1 /\ s[2] > 0
    BY <1>1
  <2>2. s \in Outages /\ <<k, s>> \in Holding(booked, closed)
    BY <2>1, HoldingRows DEF Inv
  <2>3. <<k, s>> \in ever
    BY <1>1, <2>2 DEF Inv, ThereIfSeen
  <2>4. ~Elsewhere(s)
    BY <1>0, <2>1, <2>2, DayLength DEF Elsewhere
  <2> QED
    BY <2>2, <2>3, <2>4
<1>3. \A r \in always : r[1] \in Closures => r[2] \in shut' \/ Elsewhere(r[2])
  <2> SUFFICES ASSUME NEW r \in always, r[1] \in Closures, ~Elsewhere(r[2]) PROVE r[2] \in shut'
    OBVIOUS
  <2>1. r \in Holding(booked, closed)
    BY <1>1 DEF Inv, SeenIfThere
  <2>2. r[1] \in DOMAIN closed /\ closed[r[1]] = r[2] /\ r[2] \in Outages
    BY <2>1, HoldingRows DEF Inv
  <2>3. r[2][1] < Day - 1 /\ r[2][2] > 0
    BY <1>0, <2>2, DayLength DEF Elsewhere
  <2> QED
    BY <1>1, <2>2, <2>3
<1>4. TypeOK'
  BY <1>1, <1>2 DEF Inv, TypeOK
<1>5. Rows' /\ Fresh' /\ Computed'
  BY <1>1 DEF Inv, Rows, Fresh, Computed
<1>6. SeenIfThere' /\ ThereIfSeen'
  BY <1>1, <1>2, <1>3 DEF Inv, SeenIfThere, ThereIfSeen, Holding
<1> QED
  BY <1>4, <1>5, <1>6 DEF Inv

\* The facility's hours in whole minutes, and its slots between them.
LEMMA Hours ==
  ASSUME NEW f \in Facilities
  PROVE  /\ ToMinutes(f.opens_at) \in Int /\ 0 <= ToMinutes(f.opens_at)
         /\ ToMinutes(f.closes_at) \in Int /\ ToMinutes(f.closes_at) < 1440
         /\ SlotLength(f) \in Nat \ {0}
         /\ \A m \in Starts(f) : /\ m \in Int /\ 0 <= m
                                 /\ m + SlotLength(f) \in Int /\ m + SlotLength(f) < 1440
<1>1. /\ f.opens_at \in 0..(Day - 1) /\ f.closes_at \in 0..(Day - 1)
      /\ f.slot_minutes \in Nat
  BY DayAssumption
<1>2. /\ ToMinutes(f.opens_at) \in Int /\ 0 <= ToMinutes(f.opens_at)
      /\ ToMinutes(f.closes_at) \in Int /\ ToMinutes(f.closes_at) < 1440
  BY <1>1, Minutes
<1>3. SlotLength(f) \in Nat \ {0}
  BY <1>1 DEF SlotLength
<1>4. \A m \in Starts(f) : /\ m \in ToMinutes(f.opens_at)..ToMinutes(f.closes_at)
                           /\ m + SlotLength(f) <= ToMinutes(f.closes_at)
  BY DEF Starts
<1>5. \A m \in Starts(f) : /\ m \in Int /\ 0 <= m
                           /\ m + SlotLength(f) \in Int /\ m + SlotLength(f) < 1440
  BY <1>2, <1>3, <1>4
<1> QED
  BY <1>2, <1>3, <1>5

\* The answer is computed once both queries are back.
LEMMA ComputeStep == ASSUME Inv, Compute PROVE Inv'
<1>1. /\ UNCHANGED <<facility, booked, closed, row, busy, shut, always, ever>>
      /\ pc = "reading" /\ pc' = "answered" /\ busy # None /\ shut # None
      /\ slots' = {Slot(row, m, Taken) : m \in Starts(row)}
  BY DEF Compute, tables
<1>2. row \in Facilities
  BY <1>1 DEF Inv, Fresh
<1>3. \A s \in slots' :
        s.starts_at \in 0..Midnight /\ s.ends_at \in 0..Midnight /\ s.available \in BOOLEAN
  <2> SUFFICES ASSUME NEW m \in Starts(row)
               PROVE  LET s == Slot(row, m, Taken) IN
                      /\ s.starts_at \in 0..Midnight /\ s.ends_at \in 0..Midnight
                      /\ s.available \in BOOLEAN
    BY <1>1
  <2>1. /\ m \in Int /\ 0 <= m /\ m + SlotLength(row) \in Int /\ m + SlotLength(row) < 1440
        /\ SlotLength(row) \in Nat
    BY <1>2, Hours
  <2>2. /\ Slot(row, m, Taken).starts_at = m
        /\ Slot(row, m, Taken).ends_at = m + SlotLength(row)
        /\ Slot(row, m, Taken).available \in BOOLEAN
    BY DEF Slot
  <2> QED
    BY <2>1, <2>2, DayLength
<1>4. TypeOK'
  BY <1>1, <1>3 DEF Inv, TypeOK
<1>5. Rows' /\ Fresh'
  BY <1>1 DEF Inv, Rows, Fresh
<1>6. SeenIfThere' /\ ThereIfSeen'
  BY <1>1 DEF Inv, SeenIfThere, ThereIfSeen
<1>7. Computed'
  BY <1>1 DEF Computed, Taken
<1> QED
  BY <1>4, <1>5, <1>6, <1>7 DEF Inv

\* Whatever happens to the tables, the histories follow it.
LEMMA WorldStep ==
  ASSUME Inv, Watched, UNCHANGED handler, facility' \in Facilities \cup {None},
         DOMAIN booked' \subseteq Bookings, DOMAIN closed' \subseteq Closures,
         booked' \in [DOMAIN booked' -> [span : Spans, status : BookingStates]],
         closed' \in [DOMAIN closed' -> Outages]
  PROVE  Inv'
<1>1. UNCHANGED <<pc, row, busy, shut, slots>> /\ pc # "answered"
  BY DEF handler, Watched
<1>2. TypeOK'
  BY <1>1 DEF Inv, TypeOK
<1>3. always' \subseteq always
  BY DEF Watched
<1>4. Holding(booked', closed') \subseteq (Bookings \X Spans) \cup (Closures \X Outages)
  BY DEF Holding
<1>5. Rows'
  BY <1>3, <1>4 DEF Inv, Rows, Watched
<1>6. Fresh' /\ Computed'
  BY <1>1 DEF Inv, Fresh, Computed
<1>7. SeenIfThere'
  <2>1. pc' = "reading" => always' \subseteq Holding(booked', closed')
    BY <1>1 DEF Watched
  <2> QED
    BY <1>1, <1>3, <2>1 DEF Inv, SeenIfThere
<1>8. ThereIfSeen'
  <2>1. ever \subseteq ever' /\ (pc' = "reading" => Holding(booked', closed') \subseteq ever')
    BY <1>1 DEF Watched
  <2> QED
    BY <1>1, <2>1 DEF Inv, ThereIfSeen
<1> QED
  BY <1>2, <1>5, <1>6, <1>7, <1>8 DEF Inv

\* Members book, staff decide, the operator closes and rearranges.
LEMMA TablesStep ==
  ASSUME Inv,
         \/ Rearrange
         \/ \E k \in Bookings : Book(k)
         \/ \E k \in DOMAIN booked : Decide(k)
         \/ \E k \in Closures : Close(k)
         \/ \E k \in DOMAIN closed : Reopen(k)
  PROVE  Inv'
<1>0. /\ facility \in Facilities \cup {None}
      /\ DOMAIN booked \subseteq Bookings /\ DOMAIN closed \subseteq Closures
      /\ booked \in [DOMAIN booked -> [span : Spans, status : BookingStates]]
      /\ closed \in [DOMAIN closed -> Outages]
  BY DEF Inv, TypeOK, Rows
<1>1. CASE Rearrange
  BY <1>0, <1>1, WorldStep DEF Rearrange
<1>2. ASSUME NEW k \in Bookings, Book(k) PROVE Inv'
  <2>1. PICK s \in Spans, st \in Holds :
          booked' = [j \in DOMAIN booked \cup {k} |->
              IF j = k THEN [span |-> s, status |-> st] ELSE booked[j]]
    BY <1>2 DEF Book
  <2>2. DOMAIN booked' = DOMAIN booked \cup {k}
    BY <2>1
  <2>3. \A j \in DOMAIN booked' : booked'[j] \in [span : Spans, status : BookingStates]
    BY <1>0, <2>1 DEF Holds, BookingStates
  <2>4. booked' \in [DOMAIN booked' -> [span : Spans, status : BookingStates]]
    BY <2>1, <2>2, <2>3
  <2>5. UNCHANGED <<facility, closed, handler>> /\ Watched
    BY <1>2 DEF Book
  <2> QED
    BY <1>0, <2>2, <2>4, <2>5, WorldStep
<1>3. ASSUME NEW k \in DOMAIN booked, Decide(k) PROVE Inv'
  <2>1. PICK st \in {"confirmed", "rejected", "cancelled"} :
          booked' = [booked EXCEPT ![k].status = st]
    BY <1>3 DEF Decide
  <2>2. DOMAIN booked' = DOMAIN booked
    BY <2>1
  <2>3. booked' \in [DOMAIN booked' -> [span : Spans, status : BookingStates]]
    BY <1>0, <2>1, <2>2 DEF BookingStates
  <2>4. UNCHANGED <<facility, closed, handler>> /\ Watched
    BY <1>3 DEF Decide
  <2> QED
    BY <1>0, <2>2, <2>3, <2>4, WorldStep
<1>4. ASSUME NEW k \in Closures, Close(k) PROVE Inv'
  <2>1. PICK o \in Outages :
          closed' = [j \in DOMAIN closed \cup {k} |-> IF j = k THEN o ELSE closed[j]]
    BY <1>4 DEF Close
  <2>2. DOMAIN closed' = DOMAIN closed \cup {k}
    BY <2>1
  <2>3. closed' \in [DOMAIN closed' -> Outages]
    BY <1>0, <2>1, <2>2
  <2>4. UNCHANGED <<facility, booked, handler>> /\ Watched
    BY <1>4 DEF Close
  <2> QED
    BY <1>0, <2>2, <2>3, <2>4, WorldStep
<1>5. ASSUME NEW k \in DOMAIN closed, Reopen(k) PROVE Inv'
  <2>1. closed' = [j \in DOMAIN closed \ {k} |-> closed[j]]
    BY <1>5 DEF Reopen
  <2>2. DOMAIN closed' \subseteq DOMAIN closed
    BY <2>1
  <2>3. closed' \in [DOMAIN closed' -> Outages]
    BY <1>0, <2>1, <2>2
  <2>4. UNCHANGED <<facility, booked, handler>> /\ Watched
    BY <1>5 DEF Reopen
  <2> QED
    BY <1>0, <2>2, <2>3, <2>4, WorldStep
<1> QED
  BY <1>1, <1>2, <1>3, <1>4, <1>5

LEMMA StepInv == Inv /\ [Next]_vars => Inv'
<1> SUFFICES ASSUME Inv, [Next]_vars PROVE Inv'
  OBVIOUS
<1>1. CASE UNCHANGED vars
  <2>1. UNCHANGED <<facility, booked, closed, pc, row, busy, shut, slots, always, ever>>
    BY <1>1 DEF vars, tables, handler
  <2>2. TypeOK' /\ Rows' /\ Fresh'
    BY <2>1 DEF Inv, TypeOK, Rows, Fresh
  <2>3. SeenIfThere' /\ ThereIfSeen' /\ Computed'
    <3>1. Holding(booked, closed)' = Holding(booked, closed) /\ Taken' = Taken
      BY <2>1 DEF Holding, Taken
    <3> QED
      BY <2>1, <3>1 DEF Inv, SeenIfThere, ThereIfSeen, Computed
  <2> QED
    BY <2>2, <2>3 DEF Inv
<1> QED
  BY <1>1, AskStep, BookingsStep, ClosuresStep, ComputeStep, TablesStep DEF Next

LEMMA InvHolds == Spec => []Inv
<1> QED
  BY InitInv, StepInv, PTL DEF Spec

-----------------------------------------------------------------------------
(* Minutes and seconds.                                                    *)

\* What cutting a span to the minutes of c means for a slot from m to e.
CutTo(c, span, m, e) == /\ c[1] < e <=> span[1] < 60 * e
                        /\ m < c[2] => 60 * m < span[2]
                        /\ ~(m < c[2]) => span[2] < 60 * m + 60

\* A booking begins and ends at seconds of the day.
LEMMA BookingMinutes ==
  ASSUME NEW span \in Spans, NEW m \in Nat, NEW e \in Nat
  PROVE  /\ CutTo(<<ToMinutes(span[1]), ToMinutes(span[2])>>, span, m, e)
         /\ span[1] \in Int /\ span[2] \in Int /\ span[1] < span[2]
<1>1. span[1] \in 0..(Day - 1) /\ span[2] \in 0..(Day - 1) /\ span[1] < span[2]
  BY DayAssumption
<1>2. PICK a \in Int, b \in Int : a = span[1] /\ b = span[2]
  BY <1>1
<1>3. /\ ToMinutes(a) \in Int /\ 60 * ToMinutes(a) <= a /\ a < 60 * ToMinutes(a) + 60
      /\ ToMinutes(b) \in Int /\ 60 * ToMinutes(b) <= b /\ b < 60 * ToMinutes(b) + 60
  BY <1>1, <1>2, Minutes
<1>4. /\ ToMinutes(a) < e <=> a < 60 * e
      /\ m < ToMinutes(b) => 60 * m < b
      /\ ~(m < ToMinutes(b)) => b < 60 * m + 60
  BY <1>3
<1> QED
  BY <1>1, <1>2, <1>4 DEF CutTo

\* A closure of the day may begin before it and end after it.
LEMMA ClosureMinutes ==
  ASSUME NEW span \in Outages, ~Elsewhere(span),
         NEW m \in Nat, NEW e \in Nat, m < e, e < Midnight
  PROVE  /\ CutTo(ClosedMinutes(span), span, m, e)
         /\ span[1] \in Int /\ span[2] \in Int /\ span[1] < span[2]
<1>1. span[1] \in Int /\ span[2] \in Int /\ span[1] < span[2]
  BY DayAssumption
<1>2. PICK a \in Int, b \in Int : a = span[1] /\ b = span[2]
  BY <1>1
<1> DEFINE c == ClosedMinutes(span)
<1>3. a < Day - 1 /\ b > 0
  BY <1>2, DayLength DEF Elsewhere
<1>4. c[1] < e <=> a < 60 * e
  <2>1. CASE OnDay(a)
    <3>1. a \in 0..(Day - 1) /\ c[1] = ToMinutes(a)
      BY <1>2, <2>1 DEF OnDay, ClosedMinutes
    <3>2. ToMinutes(a) \in Int /\ 60 * ToMinutes(a) <= a /\ a < 60 * ToMinutes(a) + 60
      BY <3>1, Minutes
    <3> QED
      BY <3>1, <3>2
  <2>2. CASE ~OnDay(a)
    <3>1. a < 0 /\ c[1] = 0
      BY <1>2, <1>3, <2>2, DayLength DEF OnDay, ClosedMinutes
    <3> QED
      BY <3>1
  <2> QED
    BY <2>1, <2>2
<1>5. (m < c[2] => 60 * m < b) /\ (~(m < c[2]) => b < 60 * m + 60)
  <2>1. CASE OnDay(b)
    <3>1. b \in 0..(Day - 1) /\ c[2] = ToMinutes(b)
      BY <1>2, <2>1 DEF OnDay, ClosedMinutes
    <3>2. ToMinutes(b) \in Int /\ 60 * ToMinutes(b) <= b /\ b < 60 * ToMinutes(b) + 60
      BY <3>1, Minutes
    <3> QED
      BY <3>1, <3>2
  <2>2. CASE ~OnDay(b)
    <3>1. b > Day - 1 /\ c[2] = Midnight
      BY <1>2, <1>3, <2>2, DayLength DEF OnDay, ClosedMinutes
    <3> QED
      BY <3>1, DayLength
  <2> QED
    BY <2>1, <2>2
<1> QED
  BY <1>1, <1>2, <1>4, <1>5 DEF CutTo

\* Where the minutes do not overlap, less than a minute is in common.
LEMMA FreeMinutes ==
  ASSUME NEW s, NEW span, NEW c, NEW m \in Nat, NEW e \in Nat, m < e,
         s.starts_at = m, s.ends_at = e, span[1] \in Int, span[2] \in Int,
         CutTo(c, span, m, e), ~Overlaps(<<m, e>>, c)
  PROVE  Common(s, span) < 60
<1>1. PICK a \in Int, b \in Int : a = span[1] /\ b = span[2]
  OBVIOUS
<1>2. 60 * e <= a \/ b < 60 * m + 60
  BY <1>1 DEF CutTo, Overlaps
<1>3. Common(s, span) = Least(e * 60, b) - (IF m * 60 < a THEN a ELSE m * 60)
  BY <1>1 DEF Common
<1> QED
  BY <1>2, <1>3 DEF Least

\* Where they overlap, some time is.
LEMMA TakenMinutes ==
  ASSUME NEW s, NEW span, NEW c, NEW m \in Nat, NEW e \in Nat, m < e,
         s.starts_at = m, s.ends_at = e, span[1] \in Int, span[2] \in Int, span[1] < span[2],
         CutTo(c, span, m, e), Overlaps(<<m, e>>, c)
  PROVE  Common(s, span) > 0
<1>1. PICK a \in Int, b \in Int : a = span[1] /\ b = span[2]
  OBVIOUS
<1>2. a < 60 * e /\ 60 * m < b /\ a < b
  BY <1>1 DEF CutTo, Overlaps
<1>3. Common(s, span) = Least(e * 60, b) - (IF m * 60 < a THEN a ELSE m * 60)
  BY <1>1 DEF Common
<1> QED
  BY <1>2, <1>3 DEF Least

\* A slot of the answer.
LEMMA SlotOf ==
  ASSUME Inv, pc = "answered", NEW s \in slots
  PROVE  \E m \in Nat, e \in Nat :
           /\ m < e /\ e < Midnight /\ s.starts_at = m /\ s.ends_at = e
           /\ s.available <=> ~\E t \in Taken : Overlaps(<<m, e>>, t)
<1>1. PICK m \in Starts(row) : s = Slot(row, m, Taken)
  BY DEF Inv, Computed
<1>2. row \in Facilities
  BY DEF Inv, Fresh
<1>3. PICK e : e = m + SlotLength(row)
  OBVIOUS
<1>4. m \in Nat /\ e \in Nat /\ m < e /\ e < Midnight
  BY <1>2, <1>3, Hours, DayLength
<1>5. /\ s.starts_at = m /\ s.ends_at = e
      /\ s.available <=> ~\E t \in Taken : Overlaps(<<m, e>>, t)
  BY <1>1, <1>3 DEF Slot
<1> QED
  BY <1>4, <1>5

\* A member who is shown a free slot is not refused because of anything that was
\* there all the time, but for less than a minute at one end of it.
THEOREM FreeHolds == Spec => []FreeWasFree
<1>1. Inv => FreeWasFree
  <2> SUFFICES ASSUME Inv, pc = "answered", NEW s \in slots, s.available, NEW r \in always
               PROVE  Common(s, r[2]) < 60
    BY DEF FreeWasFree
  <2>1. PICK m \in Nat, e \in Nat :
          /\ m < e /\ e < Midnight /\ s.starts_at = m /\ s.ends_at = e
          /\ ~\E t \in Taken : Overlaps(<<m, e>>, t)
    BY SlotOf
  <2>2. busy # None /\ shut # None
    BY DEF Inv, Fresh
  <2>3. CASE r[1] \in Bookings /\ r[2] \in Spans
    <3>1. r[2] \in busy
      BY <2>2, <2>3 DEF Inv, SeenIfThere
    <3>2. <<ToMinutes(r[2][1]), ToMinutes(r[2][2])>> \in Taken
      BY <3>1 DEF Taken
    <3> QED
      BY <2>1, <2>3, <3>2, BookingMinutes, FreeMinutes
  <2>4. CASE r[1] \in Closures /\ r[2] \in Outages
    <3>1. CASE Elsewhere(r[2])
      <4>1. PICK a \in Int, b \in Int : a = r[2][1] /\ b = r[2][2]
        BY <2>4, DayAssumption
      <4>2. a >= 60 * e \/ b <= 0
        BY <2>1, <3>1, <4>1, DayLength DEF Elsewhere
      <4>3. Common(s, r[2]) = Least(e * 60, b) - (IF m * 60 < a THEN a ELSE m * 60)
        BY <2>1, <4>1 DEF Common
      <4> QED
        BY <2>1, <4>2, <4>3 DEF Least
    <3>2. CASE ~Elsewhere(r[2])
      <4>1. r[2] \in shut
        BY <2>2, <2>4, <3>2 DEF Inv, SeenIfThere
      <4>2. ClosedMinutes(r[2]) \in Taken
        BY <4>1 DEF Taken
      <4> QED
        BY <2>1, <2>4, <3>2, <4>2, ClosureMinutes, FreeMinutes
    <3> QED
      BY <3>1, <3>2
  <2> QED
    BY <2>3, <2>4 DEF Inv, Rows
<1> QED
  BY <1>1, InvHolds, PTL

\* A member who is shown a taken slot would have been refused it at some time
\* while the view was being read.
THEOREM TakenHolds == Spec => []TakenWasTaken
<1>1. Inv => TakenWasTaken
  <2> SUFFICES ASSUME Inv, pc = "answered", NEW s \in slots, ~s.available
               PROVE  \E r \in ever : Common(s, r[2]) > 0
    BY DEF TakenWasTaken
  <2>1. PICK m \in Nat, e \in Nat :
          /\ m < e /\ e < Midnight /\ s.starts_at = m /\ s.ends_at = e
          /\ \E t \in Taken : Overlaps(<<m, e>>, t)
    BY SlotOf
  <2>2. busy # None /\ shut # None
    BY DEF Inv, Fresh
  <2>3. PICK t \in Taken : Overlaps(<<m, e>>, t)
    BY <2>1
  <2>4. CASE \E span \in busy : t = <<ToMinutes(span[1]), ToMinutes(span[2])>>
    <3>1. PICK span \in busy : t = <<ToMinutes(span[1]), ToMinutes(span[2])>>
      BY <2>4
    <3>2. span \in Spans /\ \E r \in ever : r[2] = span
      BY <2>2 DEF Inv, ThereIfSeen
    <3>3. CutTo(t, span, m, e) /\ span[1] \in Int /\ span[2] \in Int /\ span[1] < span[2]
      BY <3>1, <3>2, BookingMinutes
    <3>4. Common(s, span) > 0
      BY <2>1, <2>3, <3>3, TakenMinutes
    <3> QED
      BY <3>2, <3>4
  <2>5. CASE \E span \in shut : t = ClosedMinutes(span)
    <3>1. PICK span \in shut : t = ClosedMinutes(span)
      BY <2>5
    <3>2. span \in Outages /\ ~Elsewhere(span) /\ \E r \in ever : r[2] = span
      BY <2>2 DEF Inv, ThereIfSeen
    <3>3. CutTo(t, span, m, e) /\ span[1] \in Int /\ span[2] \in Int /\ span[1] < span[2]
      BY <2>1, <3>1, <3>2, ClosureMinutes
    <3>4. Common(s, span) > 0
      BY <2>1, <2>3, <3>3, TakenMinutes
    <3> QED
      BY <3>2, <3>4
  <2> QED
    BY <2>3, <2>4, <2>5 DEF Taken
<1> QED
  BY <1>1, InvHolds, PTL

-----------------------------------------------------------------------------
(* The slots fill the day.                                                 *)

\* Division by the length of a slot.
LEMMA Division ==
  ASSUME NEW d \in Nat, NEW l \in Nat \ {0}
  PROVE  d \div l \in Nat /\ d % l \in 0..(l - 1) /\ d = ((d \div l) * l) + (d % l)
OBVIOUS

\* One slot more is the length of one more.
LEMMA OneMore ==
  ASSUME NEW i \in Int, NEW j \in Int, NEW l \in Nat \ {0}, i < j
  PROVE  i * l + l <= j * l
OBVIOUS

LEMMA Multiple ==
  ASSUME NEW i \in Nat, NEW l \in Nat \ {0}
  PROVE  i * l \in Nat /\ (i * l) % l = 0
OBVIOUS

\* How many slots fit between two minutes.
Fit(begin, end, l) == IF begin <= end THEN (end - begin) \div l ELSE 0

\* The starts are the multiples of the length that leave room for a slot.
LEMMA StartsAre ==
  ASSUME NEW f \in Facilities
  PROVE  LET begin == ToMinutes(f.opens_at)
             end == ToMinutes(f.closes_at)
             l == SlotLength(f)
             n == Fit(begin, end, l)
         IN  /\ n \in Nat
             /\ Starts(f) = {begin + i * l : i \in 0..(n - 1)}
             /\ begin <= end => end - (begin + n * l) < l
<1>1. PICK begin \in Int, end \in Int, l \in Nat \ {0} :
        /\ begin = ToMinutes(f.opens_at) /\ end = ToMinutes(f.closes_at)
        /\ l = SlotLength(f)
  BY Hours
<1> DEFINE n == Fit(begin, end, l)
<1>2. Starts(f) = {m \in begin..end : m + l <= end /\ (m - begin) % l = 0}
  BY <1>1 DEF Starts
<1>3. CASE begin > end
  <2>1. n = 0 /\ Starts(f) = {}
    BY <1>2, <1>3 DEF Fit
  <2>2. {begin + i * l : i \in 0..(n - 1)} = {}
    BY <2>1
  <2> QED
    BY <1>1, <1>3, <2>1, <2>2
<1>4. CASE begin <= end
  <2>1. PICK d \in Nat : d = end - begin
    BY <1>4
  <2>2. n = d \div l
    BY <1>4, <2>1 DEF Fit
  <2>3. PICK r \in 0..(l - 1) : n \in Nat /\ d = (n * l) + r
    BY <2>2, Division
  <2> HIDE DEF n
  <2>4. n * l \in Int /\ end - (begin + n * l) < l
    BY <2>1, <2>3
  <2>5. ASSUME NEW m \in Starts(f)
        PROVE  \E i \in 0..(n - 1) : m = begin + i * l
    <3>1. PICK x \in Nat : x = m - begin /\ x + l <= d /\ x % l = 0
      BY <1>2, <2>1, <2>5
    <3>2. PICK i \in Nat : x = i * l
      <4>1. x \div l \in Nat /\ x = ((x \div l) * l) + (x % l)
        BY Division
      <4>2. (x \div l) * l = x
        BY <3>1, <4>1
      <4> QED
        BY <4>1, <4>2
    <3>3. i < n
      <4>1. CASE i = n
        BY <2>3, <3>1, <3>2, <4>1
      <4>2. CASE n < i
        <5>1. n * l + l <= i * l
          BY <2>3, <4>2, OneMore
        <5>2. n * l \in Int /\ i * l \in Int
          BY <2>3, <3>2
        <5> QED
          BY <2>3, <3>1, <3>2, <5>1, <5>2
      <4> QED
        BY <2>3, <4>1, <4>2
    <3>4. m \in Int
      BY <1>2
    <3>5. m = begin + i * l /\ i \in 0..(n - 1)
      BY <2>3, <3>1, <3>2, <3>3, <3>4
    <3> QED
      BY <3>5
  <2>6. ASSUME NEW i \in 0..(n - 1)
        PROVE  begin + i * l \in Starts(f)
    <3>1. i \in Nat /\ i < n
      BY <2>3
    <3>2. PICK x \in Nat : x = i * l /\ x % l = 0
      BY <3>1, Multiple
    <3>3. x + l <= n * l
      BY <2>3, <3>1, <3>2, OneMore
    <3>4. x + l <= d
      BY <2>3, <2>4, <3>3
    <3>5. (begin + x) - begin = x /\ begin + x \in begin..end /\ (begin + x) + l <= end
      BY <2>1, <3>4
    <3> QED
      BY <1>2, <3>2, <3>5
  <2>7. Starts(f) = {begin + i * l : i \in 0..(n - 1)}
    BY <2>5, <2>6
  <2> QED
    BY <1>1, <2>3, <2>4, <2>7 DEF n
<1> QED
  BY <1>3, <1>4

\* There are as many slots as starts.
LEMMA SlotsCounted ==
  ASSUME NEW f \in Facilities, NEW taken
  PROVE  Cardinality({Slot(f, m, taken) : m \in Starts(f)})
           = Fit(ToMinutes(f.opens_at), ToMinutes(f.closes_at), SlotLength(f))
<1>0. PICK begin \in Int, n \in Nat :
        /\ n = Fit(ToMinutes(f.opens_at), ToMinutes(f.closes_at), SlotLength(f))
        /\ Starts(f) = {begin + i * SlotLength(f) : i \in 0..(n - 1)}
  BY StartsAre, Hours
<1> DEFINE all == {Slot(f, m, taken) : m \in Starts(f)}
           nth == [i \in 0..(n - 1) |-> Slot(f, begin + i * SlotLength(f), taken)]
<1>1. PICK l \in Nat \ {0} : l = SlotLength(f)
  BY Hours
<1>2. \A m : Slot(f, m, taken).starts_at = m
  BY DEF Slot
<1>3. nth \in [0..(n - 1) -> all]
  BY <1>0
<1>4. ASSUME NEW i \in 0..(n - 1), NEW j \in 0..(n - 1), nth[i] = nth[j]
      PROVE  i = j
  <2>1. begin + i * l = begin + j * l /\ i \in Int /\ j \in Int
    BY <1>1, <1>2, <1>4
  <2>2. i * l = j * l
    BY <2>1
  <2>3. ~(i < j) /\ ~(j < i)
    <3>1. i < j => i * l + l <= j * l
      BY <2>1, OneMore
    <3>2. j < i => j * l + l <= i * l
      BY <2>1, OneMore
    <3>3. i * l \in Int
      BY <2>1
    <3> QED
      BY <2>2, <3>1, <3>2, <3>3
  <2> QED
    BY <2>1, <2>3
<1>5. \A s \in all : \E i \in 0..(n - 1) : nth[i] = s
  BY <1>0
<1>6. nth \in Bijection(0..(n - 1), all)
  <2> HIDE DEF nth, all
  <2> QED
    BY <1>3, <1>4, <1>5 DEF Bijection, Injection, Surjection, IsInjective
<1>7. IsFiniteSet(0..(n - 1)) /\ Cardinality(0..(n - 1)) = n
  BY FS_Interval
<1>8. Cardinality(all) = Cardinality(0..(n - 1))
  <2> HIDE DEF nth, all
  <2> QED
    BY <1>6, <1>7, FS_Bijection DEF ExistsBijection
<1> QED
  BY <1>0, <1>7, <1>8

\* The slots of the answer follow one another from opening, each within the hours,
\* and no further one would fit.
THEOREM SlotsFill == Spec => []SlotsFillTheDay
<1>1. Inv => SlotsFillTheDay
  <2> SUFFICES ASSUME Inv, pc = "answered"
               PROVE  LET begin == ToMinutes(row.opens_at)
                          end == ToMinutes(row.closes_at)
                          n == Cardinality(slots)
                      IN  /\ {s.starts_at : s \in slots} = {begin + i * SlotLength(row) : i \in 0..(n - 1)}
                          /\ \A s \in slots : s.ends_at = s.starts_at + SlotLength(row) /\ s.ends_at <= end
                          /\ begin <= end => end - (begin + n * SlotLength(row)) < SlotLength(row)
    BY DEF SlotsFillTheDay, Inv
  <2>1. row \in Facilities /\ slots = {Slot(row, m, Taken) : m \in Starts(row)}
    BY DEF Inv, Fresh, Computed
  <2>2. PICK begin \in Int, end \in Int :
          begin = ToMinutes(row.opens_at) /\ end = ToMinutes(row.closes_at)
    BY <2>1, Hours
  <2>3. PICK n \in Nat :
          /\ n = Fit(begin, end, SlotLength(row))
          /\ Starts(row) = {begin + i * SlotLength(row) : i \in 0..(n - 1)}
          /\ begin <= end => end - (begin + n * SlotLength(row)) < SlotLength(row)
    BY <2>1, <2>2, StartsAre
  <2>4. Cardinality(slots) = n
    <3>1. PICK f \in Facilities, taken \in {Taken} : f = row
      BY <2>1
    <3>2. Cardinality({Slot(f, m, taken) : m \in Starts(f)}) = n
      BY <2>2, <2>3, <3>1, SlotsCounted
    <3> QED
      BY <2>1, <3>1, <3>2
  <2>5. \A m : /\ Slot(row, m, Taken).starts_at = m
               /\ Slot(row, m, Taken).ends_at = m + SlotLength(row)
    BY DEF Slot
  <2>6. {s.starts_at : s \in slots} = Starts(row)
    BY <2>1, <2>5
  <2>7. \A s \in slots : s.ends_at = s.starts_at + SlotLength(row) /\ s.ends_at <= end
    BY <2>1, <2>2, <2>5 DEF Starts
  <2> QED
    BY <2>2, <2>3, <2>4, <2>6, <2>7
<1> QED
  BY <1>1, InvHolds, PTL
=============================================================================
