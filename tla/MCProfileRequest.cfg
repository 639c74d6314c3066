SPECIFICATION FairSpec
CONSTANTS
    r1 = r1  r2 = r2  r3 = r3  open = open
    ana = ana  sue = sue
    email = email  phone = phone
    old = old  new = new
    Blank = Blank  Spaces = Spaces
    None = None
    Requests <- MCRequests
    Members = {ana}
    Register <- MCRegister
    Fields = {email, phone}
    Values <- MCValues
    AllowLists <- MCAllowLists
    Staff = {sue}
    Permitted = {sue}
    Approvers = {sue}
    Calls <- MCCalls
    Seed <- MCSeed
    MaxInFlight = 2
INVARIANTS TwoOpenNeedOverlap
PROPERTIES BeforeIsExactUnlessRaced Answered
