---------------------------- MODULE MCMemberDesk ----------------------------
(* MemberDesk with member 1, dependent 1 of the same number, and member 2.  *)
EXTENDS MemberDesk, TLC

CONSTANTS r1, r2, r3, p1, n1, n2

MCRequests == {r1, r2, r3}
MCNumbers == {1, 2}
MCOpenPasses == p1 :> 1
MCNotes == {n1, n2}
MCTimes == {<<18, 0>>, <<18, 0, 0>>, <<18, 30>>}
One == [member |-> 1, dependent |-> None]
Kid == [member |-> None, dependent |-> 1]
Two == [member |-> 2, dependent |-> None]
MCCalls ==
    {c \in PassCalls :
        \/ c.op = "issue" /\ c.token = One /\ c.from = <<18, 0>> /\ c.until \in MCTimes \ {<<18, 0>>}
        \/ c.op = "passes" /\ c.token \in {One, Kid}
        \/ c.op = "pass" /\ c.token = Two /\ c.id = p1
        \/ c.op = "revoke" /\ c.token = One /\ c.id \in {p1, r1}
        \/ c.op = "revoke" /\ c.token = Two /\ c.id = p1}
    \cup {c \in InboxCalls :
        \/ c.op = "inbox" /\ c.token = Kid
        \/ c.op = "unread" /\ c.token = One
        \/ c.op = "read" /\ c.token \in {One, Kid} /\ c.id = n1
        \/ c.op = "read_all" /\ c.token \in {One, Kid}}
MCSymmetry == Permutations({r2, r3})
=============================================================================
