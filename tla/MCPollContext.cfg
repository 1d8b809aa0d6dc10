CONSTANTS
    a1 = a1
    a2 = a2
    o1 = o1
    o2 = o2
    o3 = o3
    o4 = o4
    t1 = t1
    Acceptors <- MCAcceptors
    Accepts <- MCAccepts
    Others <- MCOthers
    On <- MCOn
    MaxBacklog = 2
SPECIFICATION FairSpec
INVARIANTS InStep NoneLost NeverBlocks ToldAtStartOrNever
PROPERTIES Served
