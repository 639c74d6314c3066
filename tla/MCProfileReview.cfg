SPECIFICATION Spec
CONSTANTS
    r1 = r1  r2 = r2  r3 = r3
    q1 = q1  q2 = q2
    ana = ana  sue = sue  jim = jim
    email = email  phone = phone
    old = old  new = new  newer = newer
    Blank = Blank  Spaces = Spaces
    None = None
    Requests <- MCRequests
    Members = {ana}
    Register <- MCRegister
    Fields = {email, phone}
    Values <- MCValues
    AllowLists <- MCAllowLists
    Staff = {sue, jim}
    Permitted = {sue, jim}
    Approvers = {sue}
    Calls <- MCCalls
    Seed <- MCSeed
    MaxInFlight = 3
SYMMETRY Symmetry
INVARIANTS AuditExplainsRegister ReviewIsAccounted AllowListHolds CycleIsARacedReview
PROPERTIES ImplementsRegister
