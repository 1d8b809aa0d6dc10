CONSTANTS
    a1 = a1
    a2 = a2
    s1 = s1
    s2 = s2
    s3 = s3
    h1 = h1
    h2 = h2
    h3 = h3
    h4 = h4
    Acceptors <- MCAcceptors
    Streams <- MCStreams
    Handles <- MCHandles
    MaxSlots = 3
SYMMETRY Alike
SPECIFICATION Spec
INVARIANTS OwnedOnce OnlyFailedConstructionsLeak MisuseIsContained
CHECK_DEADLOCK FALSE
