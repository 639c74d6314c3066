---------------------------- MODULE MCAccountAccess ----------------------------
(* A member with two devices and a staff user with one, each of whom has a   *)
(* reset link in the mail.                                                   *)
EXTENDS AccountAccess, TLC

CONSTANTS r1, r2, r3, ana, sue, anas, sues, phone, laptop, desk, old, new, short

MCRequests == {r1, r2, r3}
MCOpening == [a \in {ana, sue} |->
    [password |-> old, failed |-> 0,
     status |-> IF a = ana THEN "pending_activation" ELSE "active"]]
MCOpenSessions == (phone :> ana) @@ (laptop :> ana) @@ (desk :> sue)
MCOpenLinks == (anas :> ana) @@ (sues :> sue)

Login(a, w)   == [op |-> "login", account |-> a, password |-> w]
Forgot(a)     == [op |-> "forgot", account |-> a]
Reset(k, w)   == [op |-> "reset", link |-> k, password |-> w]
Own(o, s)     == [op |-> o, session |-> s]
Device(s, d)  == [op |-> "revoke", session |-> s, device |-> d]

\* Everything ana may do, what sue may do differently, and what is made up.
MCCalls ==
    {Login(ana, old), Login(ana, new), Login(None, new), Forgot(ana), Forgot(None),
     Reset(anas, new), Reset(sues, new), Reset(sues, short),
     Own("me", phone), Own("logout", phone), Own("logout_all", phone),
     Own("logout", desk), Own("logout_all", desk),
     Device(phone, laptop), Device(phone, desk)}
    \cup {Reset(r, new) : r \in MCRequests} \cup {Own("me", r) : r \in MCRequests}
MCRaceCalls == {Login(ana, old), Reset(anas, new)}
Symmetry == Permutations(MCRequests)
=============================================================================
