--------------------------- MODULE MCBookingRequest ---------------------------
(* Members ask for overlapping slots of a court that needs approval, of a   *)
(* gym that does not and of a facility withdrawn from use, on a day the     *)
(* court closes early, while staff review what appears.                     *)
EXTENDS BookingWorkflow, TLC

CONSTANTS r1, r2, r3, ana, bob, sue, court, gym, hall

Slot(d, s, e) == [date |-> d, starts |-> s, ends |-> e]
MCRequests == {r1, r2, r3}
MCSlots == {Slot(1, 10, 12), Slot(1, 11, 13), Slot(1, 12, 13), Slot(1, 13, 12), Slot(9, 10, 12)}
MCClosures == {[facility |-> court, starts |-> 36, ends |-> 40]}
MCMaxAdvance == [f \in {court, gym, hall} |-> IF f = gym THEN 7 ELSE 0]

Book(m, f, s) == [op |-> "book", member |-> m, facility |-> f, slot |-> s]
MCCalls ==
    {Book(ana, court, Slot(1, 10, 12)), Book(bob, court, Slot(1, 12, 13)),
     Book(ana, gym, Slot(1, 10, 12)), Book(bob, gym, Slot(1, 11, 13)),
     Book(bob, gym, Slot(1, 12, 13)), Book(bob, gym, Slot(1, 13, 12)),
     Book(bob, gym, Slot(9, 10, 12)), Book(bob, hall, Slot(1, 10, 12))}
    \cup [op : {"approve"}, staff : {sue}, id : MCRequests]
    \cup [op : {"cancel"}, member : {ana}, id : MCRequests]
MCSeed == <<>>
Symmetry == Permutations(MCRequests)
=============================================================================
