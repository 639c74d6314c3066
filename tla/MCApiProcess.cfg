CONSTANTS
    c1 = c1
    c2 = c2
    c3 = c3
    None = None
    Clients <- MCClients
    Requests <- MCRequests
    Units <- MCUnits
    Asks <- MCAsks
    Probes <- MCProbes
    Limit = 1
SPECIFICATION FairSpec
INVARIANTS ConnectionsAccounted CleanConnections CleanStop
PROPERTIES  Answered Stops
CHECK_DEADLOCK FALSE
