CONSTANTS
    r1 = r1
    r2 = r2
    r3 = r3
    p1 = p1
    n1 = n1
    n2 = n2
    None = None
    Requests <- MCRequests
    Numbers <- MCNumbers
    OpenPasses <- MCOpenPasses
    Notes <- MCNotes
    Times <- MCTimes
    Calls <- MCCalls
SPECIFICATION Spec
SYMMETRY MCSymmetry
INVARIANTS ReadingsAddUp RevokedOnce WindowsAreOpen
PROPERTIES OwnDeskOnly
CHECK_DEADLOCK FALSE
