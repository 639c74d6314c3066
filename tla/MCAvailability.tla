--------------------------- MODULE MCAvailability ---------------------------
(* Availability of a court from ten to twelve in slots of an hour, which may *)
(* become a room that closes a minute before midnight and names no length;   *)
(* bookings that end or begin in the middle of a minute, and a closure from  *)
(* the day before.                                                           *)
EXTENDS Availability, TLC

CONSTANTS b1, b2, c1

MCBookings == {b1, b2}
MCClosures == {c1}
At(h, m, s) == h * 3600 + m * 60 + s
MCFacilities ==
    {[opens_at |-> At(10, 0, 0), closes_at |-> At(12, 0, 0), slot_minutes |-> 60],
     [opens_at |-> At(21, 30, 0), closes_at |-> At(23, 59, 0), slot_minutes |-> 0]}
MCSpans == {<<At(10, 0, 0), At(11, 0, 0)>>, <<At(9, 30, 0), At(10, 0, 30)>>,
            <<At(22, 0, 0), At(23, 59, 59)>>}
MCOutages == {<<-At(5, 0, 0), At(10, 30, 0)>>, <<At(11, 0, 0), At(30, 0, 0)>>,
              <<At(22, 40, 0), At(22, 40, 20)>>}
MCSymmetry == Permutations(MCBookings)
=============================================================================
