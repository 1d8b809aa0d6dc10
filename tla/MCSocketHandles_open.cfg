CONSTANTS
    a1 = a1
    a2 = a2
    s1 = s1
    s2 = s2
    s3 = s3
    h1 = h1
    h2 = h2
    h3 = h3
    h4 = h4
    Acceptors <- OneAcceptor
    Streams <- TwoStreams
    Handles <- MCHandles
    MaxSlots = 3
SPECIFICATION Spec
PROPERTIES OpenOnce
CHECK_DEADLOCK FALSE
