CONSTANTS
    b1 = b1
    b2 = b2
    c1 = c1
    None = None
    Bookings <- MCBookings
    Closures <- MCClosures
    Facilities <- MCFacilities
    Spans <- MCSpans
    Outages <- MCOutages
SPECIFICATION Spec
SYMMETRY MCSymmetry
INVARIANTS SlotsFillTheDay FreeWasFree TakenWasTaken
CHECK_DEADLOCK FALSE
