SPECIFICATION FairSpec
CONSTANTS
    r1 = r1  r2 = r2  r3 = r3
    b1 = b1  b2 = b2
    ana = ana  bob = bob  sue = sue  jim = jim
    court = court
    None = None
    Requests <- MCRequests
    Members = {ana, bob}
    Staff = {sue, jim}
    Permitted = {sue, jim}
    Approvers = {sue}
    Facilities = {court}
    Active = {court}
    AutoConfirm = {}
    MaxAdvance <- MCMaxAdvance
    Slots <- MCSlots
    Closures = {}
    Today = 0
    Calls <- MCCalls
    Seed <- MCSeed
    MaxInFlight = 3
INVARIANTS TypeOK DecisionIsAccounted OkIsSettled SignedByApprover
PROPERTIES StatusMoves ImplementsLedger Answered
