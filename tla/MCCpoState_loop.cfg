CONSTANTS
    connect = connect
    receive = receive
    timer = timer
    connection = connection
    timeout = timeout
    Ops <- MCOps
    Sources <- MCSources
    Token <- MCToken
    Kind <- MCKind
    Nonblocking <- MCNonblocking
    StopThread = "loop"
SPECIFICATION FairSpec
INVARIANTS ValueIsEarned NoDanglingEvent ResultDelivered NotForgotten
PROPERTIES KeepsContract StopCompletes CompletionIsLastTouch
CHECK_DEADLOCK FALSE
