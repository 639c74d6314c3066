---------------------------- MODULE MCProfileReview ----------------------------
(* Staff review two pending change requests of one member, who may file a  *)
(* third once they are decided; that two are open is what two simultaneous  *)
(* submissions leave behind (TwoOpenNeedOverlap).                           *)
EXTENDS ProfileChange, TLC

CONSTANTS r1, r2, r3, q1, q2, ana, sue, jim, email, phone, old, new, newer

MCRequests == {r1, r2, r3}
MCRegister == [m \in {ana} |-> [f \in {email, phone} |-> old]]
MCValues == {old, new, newer, Blank}
MCAllowLists == {{email, phone}, {phone}}
MCOneList == {{email, phone}}

OpenRow(cur, req) == [member |-> ana, current |-> cur, requested |-> req,
                      status |-> "pending", reviewedBy |-> None]
MCSeed == (q1 :> OpenRow((email :> old) @@ (phone :> old), (email :> new) @@ (phone :> new)))
          @@ (q2 :> OpenRow(phone :> old, phone :> newer))

Review(op, s, q) == [op |-> op, staff |-> s, id |-> q]
File(m, e, p) == [op |-> "file", member |-> m, body |-> (email :> e) @@ (phone :> p)]
\* Jim may edit members but is no approver; Ana files again once both are decided.
MCCalls == {Review("approve", sue, q1), Review("reject", sue, q1), Review("approve", sue, q2),
            Review("approve", jim, q2), File(ana, Spaces, new)}
MCRaceCalls == {Review("approve", sue, q1), Review("reject", sue, q1)}
Symmetry == Permutations(MCRequests)
=============================================================================
