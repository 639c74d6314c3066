---------------------------- MODULE MCBookingReview ----------------------------
(* Two members wait for the same court; staff and members act at once.     *)
EXTENDS BookingWorkflow, TLC

CONSTANTS r1, r2, r3, b1, b2, ana, bob, sue, jim, court

Slot(d, s, e) == [date |-> d, starts |-> s, ends |-> e]
Waiting(m, s) == [facility |-> court, slot |-> s, member |-> m,
                  status |-> "pending", reviewedBy |-> None]

MCRequests == {r1, r2, r3}
MCSlots == {Slot(1, 10, 12), Slot(1, 11, 13)}
MCSeed == (b1 :> Waiting(ana, Slot(1, 10, 12))) @@ (b2 :> Waiting(bob, Slot(1, 11, 13)))
MCMaxAdvance == [f \in {court} |-> 0]

Review(op, s, b) == [op |-> op, staff |-> s, id |-> b]
MCCalls == {Review("approve", sue, b1), Review("approve", sue, b2),
            Review("reject", sue, b1), Review("approve", jim, b1),
            [op |-> "cancel", member |-> ana, id |-> b1],
            [op |-> "cancel", member |-> bob, id |-> b1]}
Symmetry == Permutations(MCRequests)
=============================================================================
