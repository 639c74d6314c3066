--------------------------- MODULE MCProfileRequest ---------------------------
(* Members file change requests while staff review them; one is open already. *)
EXTENDS ProfileChange, TLC

CONSTANTS r1, r2, r3, open, ana, sue, email, phone, old, new

MCRequests == {r1, r2, r3}
MCRegister == [m \in {ana} |-> [f \in {email, phone} |-> old]]
MCValues == {old, new, Blank}
MCAllowLists == {{email, phone}}
MCSeed == open :> [member |-> ana, current |-> (phone :> old), requested |-> (phone :> new),
                   status |-> "pending", reviewedBy |-> None]

Review(op, s, q) == [op |-> op, staff |-> s, id |-> q]
File(m, e, p) == [op |-> "file", member |-> m, body |-> (email :> e) @@ (phone :> p)]

\* A new address with a phone number of spaces, or nothing, and the reviews.
MCCalls == {File(ana, new, Spaces), File(ana, Blank, Blank),
            Review("approve", sue, open), Review("reject", sue, open),
            Review("approve", sue, r1)}
=============================================================================
