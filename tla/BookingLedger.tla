---------------------------- MODULE BookingLedger ----------------------------
(***************************************************************************)
(* What the booking workflow promises, without handlers, transactions or   *)
(* locks: every operation takes effect in one step or not at all.  A member*)
(* asks for a slot; a facility that needs no approval confirms it there and*)
(* then; a staff signer settles a pending booking; a member gives one up.  *)
(* Every settlement comes with one notification and one audit record.      *)
(*                                                                         *)
(* Overrule is the promise the code does not keep: a signer whose review   *)
(* began while the booking was pending may find it settled, and then the   *)
(* notification and the audit record are written although the booking stays*)
(* as it is.                                                               *)
(***************************************************************************)
CONSTANTS Ids,          \* ids of bookings
          Keys,         \* identities of notification and audit rows
          Wishes,       \* what a member may ask for: facility, slot, member
          Initial,      \* the table at the start, None where there is no row
          AutoConfirm,  \* facilities that need no approval
          Signers,      \* staff who may settle a booking
          None

VARIABLES bookings, notifications, audit
vars == <<bookings, notifications, audit>>

Init == bookings = Initial /\ notifications = {} /\ audit = {}

Booking(w, status) == [facility |-> w.facility, slot |-> w.slot, member |-> w.member,
                       status |-> status, reviewedBy |-> None]

Fresh(k) == \A e \in notifications \cup audit : e.by # k

Record(k, b, says, member, action, actor) ==
    /\ Fresh(k)
    /\ notifications' = notifications \cup
         {[by |-> k, booking |-> b, says |-> says, member |-> member]}
    /\ audit' = audit \cup
         {[by |-> k, booking |-> b, action |-> action, actor |-> actor]}

Ask(b) ==
    /\ bookings[b] = None
    /\ \E w \in Wishes :
        /\ w.facility \notin AutoConfirm
        /\ bookings' = [bookings EXCEPT ![b] = Booking(w, "pending")]
    /\ UNCHANGED <<notifications, audit>>

Confirm(k, b) ==
    /\ bookings[b] = None
    /\ \E w \in Wishes :
        /\ w.facility \in AutoConfirm
        /\ bookings' = [bookings EXCEPT ![b] = Booking(w, "confirmed")]
        /\ Record(k, b, "confirmed", w.member, "booking.auto_confirmed", w.member)

Verdicts == {<<"confirmed", "booking.approved">>, <<"rejected", "booking.rejected">>}

Settle(k, b) ==
    /\ bookings[b] # None /\ bookings[b].status = "pending"
    /\ \E v \in Verdicts, u \in Signers :
        /\ bookings' = [bookings EXCEPT ![b].status = v[1], ![b].reviewedBy = u]
        /\ Record(k, b, v[1], bookings[b].member, v[2], u)

Overrule(k, b) ==
    /\ bookings[b] # None /\ bookings[b].status # "pending"
    /\ \E v \in Verdicts, u \in Signers :
        Record(k, b, v[1], bookings[b].member, v[2], u)
    /\ UNCHANGED bookings

GiveUp(b) ==
    /\ bookings[b] # None /\ bookings[b].status \in {"pending", "confirmed"}
    /\ bookings' = [bookings EXCEPT ![b].status = "cancelled"]
    /\ UNCHANGED <<notifications, audit>>

Next == \E b \in Ids : \/ Ask(b) \/ GiveUp(b)
                       \/ \E k \in Keys : Confirm(k, b) \/ Settle(k, b) \/ Overrule(k, b)

Spec == Init /\ [][Next]_vars
=============================================================================
