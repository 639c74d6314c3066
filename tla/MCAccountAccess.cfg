SPECIFICATION Spec
CONSTANTS
    r1 = r1  r2 = r2  r3 = r3
    ana = ana  sue = sue
    anas = anas  sues = sues
    phone = phone  laptop = laptop  desk = desk
    old = old  new = new  short = short
    None = None
    Requests <- MCRequests
    Accounts = {ana, sue}
    StaffAccounts = {sue}
    Passwords = {old, new, short}
    Weak = {short}
    Opening <- MCOpening
    OpenSessions <- MCOpenSessions
    OpenLinks <- MCOpenLinks
    MaxFailed = 2
    MayExpire = {anas}
    Calls <- MCCalls
    MaxInFlight = 3
SYMMETRY Symmetry
INVARIANTS LinkWorksOnce ResetIsAccounted SurvivorWasInFlight TwoLinksNeedOverlap SignOutHolds
           LockoutCountsEveryFailure AuditFollowsSignOut
