SPECIFICATION Spec
CONSTANTS
    r1 = r1  r2 = r2  r3 = r3
    ana = ana  bob = bob  sue = sue
    court = court  gym = gym  hall = hall
    None = None
    Requests <- MCRequests
    Members = {ana, bob}
    Staff = {sue}
    Permitted = {sue}
    Approvers = {sue}
    Facilities = {court, gym, hall}
    Active = {court, gym}
    AutoConfirm = {gym, hall}
    MaxAdvance <- MCMaxAdvance
    Slots <- MCSlots
    Closures <- MCClosures
    Today = 0
    Calls <- MCCalls
    Seed <- MCSeed
    MaxInFlight = 3
SYMMETRY Symmetry
INVARIANTS DoubleBookingNeedsOverlap
PROPERTIES ImplementsLedger
