CONSTANTS
    o1 = o1
    o2 = o2
    i1 = i1
    i2 = i2
    h1 = h1
    h2 = h2
    Ids <- MCIds
    Handles <- MCHandles
    Ops <- MCOps
    Refusable <- MCRefusable
    MaxIn = 1
    MaxRoom = 1
    Size = 2
SPECIFICATION FairSpec
INVARIANTS TypeOK OwnSocket OnlySendBlocks OnlyFailuresRemain
PROPERTIES StaysReady ReadyIsServed ActsDirectly
CHECK_DEADLOCK FALSE
