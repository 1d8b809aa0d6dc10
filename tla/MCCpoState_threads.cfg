CONSTANTS
    connect = connect
    receive = receive
    timer = timer
    connection = connection
    timeout = timeout
    Ops <- ThreadOps
    Sources <- ThreadSources
    Token <- ThreadToken
    Kind <- ThreadKind
    Nonblocking <- MCNonblocking
    StopThread = "other"
SPECIFICATION FairSpec
INVARIANTS NoneOutlivesStop AtMostOnce ResultOrStop
PROPERTIES StopCompletesOrWedges
CHECK_DEADLOCK FALSE
