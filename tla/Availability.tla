---------------------------- MODULE Availability ----------------------------
(***************************************************************************)
(* GET /facilities/:id/availability: which slots of a day are free.        *)
(* src/modules/facilities.js over facilityRepository.js, while members     *)
(* book and staff decide.                                                  *)
(*                                                                         *)
(* The view reads the facility, then the bookings and the closures of the  *)
(* day by two queries on two connections, in whatever order they come, and *)
(* computes in whole minutes.  The tables count in seconds: a booking may  *)
(* begin and end at any second of the day (lib/validate.js, TIME), and a   *)
(* closure is a pair of datetimes, here seconds from the day's midnight,   *)
(* negative before it.                                                     *)
(***************************************************************************)
EXTENDS Integers, FiniteSets

CONSTANTS
    Bookings,    \* ids of the bookings of the facility on the day asked for
    Closures,    \* ids of its closures
    Facilities,  \* rows of the facility: opens_at, closes_at, slot_minutes
    Spans,       \* bound: from and until of bookings, in seconds of the day
    Outages,     \* bound: from and until of closures
    None

Day == 86400
Midnight == Day \div 60
ASSUME DayAssumption ==
    /\ Spans \subseteq {s \in (0..(Day - 1)) \X (0..(Day - 1)) : s[1] < s[2]}
    /\ Outages \subseteq Int \X Int /\ \A o \in Outages : o[1] < o[2]
    /\ \A f \in Facilities :
          /\ f.opens_at \in 0..(Day - 1) /\ f.closes_at \in 0..(Day - 1) /\ f.slot_minutes \in Nat
    /\ Bookings \cap Closures = {} /\ None \notin Bookings \cup Closures \cup Facilities

VARIABLES
    facility,  \* the row of the facility, None when it is not active
    booked,    \* the bookings table: id -> row
    closed,    \* the facility_closures table: id -> from and until
    pc,        \* "idle", "reading" or "answered"
    row,       \* the facility as the handler read it
    busy,      \* what the queries of the handler returned, None before
    shut,
    slots,     \* the answer: a slot is a record of minutes and a Boolean
    always,    \* history: the holding rows there since the handler began
    ever       \* history: what held at any time since then

tables == <<facility, booked, closed>>
handler == <<pc, row, busy, shut, slots>>
vars == <<tables, handler, always, ever>>

Holds == {"pending", "confirmed"}

\* Rows that keep a slot from being free: a booking that is pending or confirmed,
\* and a closure; as pairs of seconds.
Holding(b, c) ==
    {<<k, b[k].span>> : k \in {k \in DOMAIN b : b[k].status \in Holds}}
    \cup {<<k, c[k]>> : k \in DOMAIN c}

Init ==
    /\ facility \in Facilities
    /\ booked = [k \in {} |-> None] /\ closed = [k \in {} |-> None]
    /\ pc = "idle" /\ row = None /\ busy = None /\ shut = None /\ slots = {}
    /\ always = {} /\ ever = {}

-----------------------------------------------------------------------------
(* The arithmetic.                                                         *)

ToMinutes(t) == t \div 60

\* Touching is not overlapping.
Overlaps_slip(a, b) == a[1] <= b[2] /\ b[1] <= a[2]
Overlaps(a, b) == a[1] < b[2] /\ b[1] < a[2]

\* A closure that begins or ends on another day is cut at midnight.
OnDay(t) == t \in 0..(Day - 1)
ClosedMinutes(span) ==
    <<IF OnDay(span[1]) THEN ToMinutes(span[1]) ELSE 0,
      IF OnDay(span[2]) THEN ToMinutes(span[2]) ELSE Midnight>>

SlotLength(f) == IF f.slot_minutes = 0 THEN 60 ELSE f.slot_minutes

\* The loop over the starts; a slot that would end after closing is not offered.
\* The last start is before closing.
Starts_slip(f) ==
    {m \in ToMinutes(f.opens_at)..ToMinutes(f.closes_at) :
        m < ToMinutes(f.closes_at) /\ (m - ToMinutes(f.opens_at)) % SlotLength(f) = 0}
Starts(f) ==
    {m \in ToMinutes(f.opens_at)..ToMinutes(f.closes_at) :
        /\ m + SlotLength(f) <= ToMinutes(f.closes_at)
        /\ (m - ToMinutes(f.opens_at)) % SlotLength(f) = 0}

Slot(f, m, taken) ==
    LET span == <<m, m + SlotLength(f)>>
    IN  [starts_at |-> span[1], ends_at |-> span[2],
         available |-> ~\E t \in taken : Overlaps(span, t)]

-----------------------------------------------------------------------------
(* The handler.                                                            *)

\* findActiveById: the facility, or 404.
Ask ==
    /\ pc = "idle" /\ facility # None
    /\ pc' = "reading" /\ row' = facility
    /\ always' = Holding(booked, closed) /\ ever' = Holding(booked, closed)
    /\ UNCHANGED <<tables, busy, shut, slots>>

\* Only what staff has confirmed.
ListBookings_slip ==
    /\ pc = "reading" /\ busy = None
    /\ busy' = {booked[k].span : k \in {k \in DOMAIN booked : booked[k].status = "confirmed"}}
    /\ UNCHANGED <<tables, pc, row, shut, slots, always, ever>>
ListBookings ==
    /\ pc = "reading" /\ busy = None
    /\ busy' = {booked[k].span : k \in {k \in DOMAIN booked : booked[k].status \in Holds}}
    /\ UNCHANGED <<tables, pc, row, shut, slots, always, ever>>

\* starts_at < date 23:59:59 and ends_at > date 00:00:00.
ListClosures ==
    /\ pc = "reading" /\ shut = None
    /\ shut' = {closed[k] : k \in {k \in DOMAIN closed : closed[k][1] < Day - 1 /\ closed[k][2] > 0}}
    /\ UNCHANGED <<tables, pc, row, busy, slots, always, ever>>

Taken ==
    {<<ToMinutes(s[1]), ToMinutes(s[2])>> : s \in busy} \cup {ClosedMinutes(s) : s \in shut}

Compute ==
    /\ pc = "reading" /\ busy # None /\ shut # None
    /\ slots' = {Slot(row, m, Taken) : m \in Starts(row)}
    /\ pc' = "answered"
    /\ UNCHANGED <<tables, row, busy, shut, always, ever>>

-----------------------------------------------------------------------------
(* What goes on meanwhile.                                                 *)

\* The histories of a view that is being read follow the tables; once it is
\* answered, what happens is nothing to it.
Watched ==
    /\ pc # "answered"
    /\ always' = IF pc = "reading" THEN always \cap Holding(booked', closed') ELSE always
    /\ ever' = IF pc = "reading" THEN ever \cup Holding(booked', closed') ELSE ever

\* A request, pending or confirmed at once (BookingWorkflow).
Book(k) ==
    /\ k \notin DOMAIN booked
    /\ \E s \in Spans, st \in Holds :
          booked' = [j \in DOMAIN booked \cup {k} |->
              IF j = k THEN [span |-> s, status |-> st] ELSE booked[j]]
    /\ UNCHANGED <<facility, closed, handler>> /\ Watched

\* Staff or the member decide.
Decide(k) ==
    /\ \E st \in {"confirmed", "rejected", "cancelled"} :
          /\ booked[k].status = "pending" \/ (booked[k].status = "confirmed" /\ st = "cancelled")
          /\ booked' = [booked EXCEPT ![k].status = st]
    /\ UNCHANGED <<facility, closed, handler>> /\ Watched

\* The operator closes the facility for some time, or takes that back, or
\* changes the facility itself.
Close(k) ==
    /\ k \notin DOMAIN closed
    /\ \E o \in Outages :
          closed' = [j \in DOMAIN closed \cup {k} |-> IF j = k THEN o ELSE closed[j]]
    /\ UNCHANGED <<facility, booked, handler>> /\ Watched
Reopen(k) ==
    /\ closed' = [j \in DOMAIN closed \ {k} |-> closed[j]]
    /\ UNCHANGED <<facility, booked, handler>> /\ Watched
Rearrange ==
    /\ facility' \in (Facilities \cup {None}) \ {facility}
    /\ UNCHANGED <<booked, closed, handler>> /\ Watched

Next ==
    \/ Ask \/ ListBookings \/ ListClosures \/ Compute \/ Rearrange
    \/ \E k \in Bookings : Book(k)
    \/ \E k \in DOMAIN booked : Decide(k)
    \/ \E k \in Closures : Close(k)
    \/ \E k \in DOMAIN closed : Reopen(k)
Spec == Init /\ [][Next]_vars

-----------------------------------------------------------------------------
(* Properties.                                                             *)

\* The answer is slots of the day; what was read is spans of seconds.
TypeOK ==
    /\ facility \in Facilities \cup {None} /\ row \in Facilities \cup {None}
    /\ pc \in {"idle", "reading", "answered"} /\ (pc # "idle" => row # None)
    /\ DOMAIN booked \subseteq Bookings /\ DOMAIN closed \subseteq Closures
    /\ busy = None \/ busy \subseteq Spans
    /\ shut = None \/ shut \subseteq Outages
    /\ \A s \in slots :
          s.starts_at \in 0..Midnight /\ s.ends_at \in 0..Midnight /\ s.available \in BOOLEAN

\* The seconds that a slot and a row have in common.
Least(a, b) == IF a < b THEN a ELSE b
Common(s, span) ==
    Least(s.ends_at * 60, span[2]) - (IF s.starts_at * 60 < span[1] THEN span[1] ELSE s.starts_at * 60)

\* No slot is shown as free that a booking, pending ones included, or a closure
\* took all the time the view was being read, but for less than a minute: the
\* minutes leave out the seconds.
FreeWasFree ==
    pc = "answered" =>
        \A s \in slots : s.available => \A r \in always : Common(s, r[2]) < 60

\* No slot is shown as taken unless something took some of it at a time when the
\* view was being read: whoever would have been refused for it then.
TakenWasTaken ==
    pc = "answered" =>
        \A s \in slots : ~s.available => \E r \in ever : Common(s, r[2]) > 0

\* The slots fill the day of the facility as it was read: they follow one another
\* from opening, and what is left before closing is too short for one more.
SlotsFillTheDay ==
    /\ TypeOK
    /\ pc = "answered" =>
        LET begin == ToMinutes(row.opens_at)
            end == ToMinutes(row.closes_at)
            n == Cardinality(slots)
        IN  /\ {s.starts_at : s \in slots} = {begin + i * SlotLength(row) : i \in 0..(n - 1)}
            /\ \A s \in slots : s.ends_at = s.starts_at + SlotLength(row) /\ s.ends_at <= end
            /\ begin <= end => end - (begin + n * SlotLength(row)) < SlotLength(row)
=============================================================================
