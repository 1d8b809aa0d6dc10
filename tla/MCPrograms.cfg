CONSTANTS
    v4 = v4
    v6 = v6
    c1 = c1
    c2 = c2
    Acceptors <- MCAcceptors
    Clients <- MCClients
    Refusable <- MCRefusable
    Ticks = 2
SPECIFICATION FairSpec
INVARIANTS LeavesEmpty
PROPERTIES NoneSpawnedAfterStop Exits TimeoutEnds
CHECK_DEADLOCK FALSE
