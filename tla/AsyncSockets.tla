---------------------------- MODULE AsyncSockets ----------------------------
(***************************************************************************)
(* What the asynchronous operations on sockets promise to a program that   *)
(* has at most one of them for each direction of a socket: each is as if a *)
(* thread of its own made its system call, and the call lasted until it    *)
(* could do what it is for - or the operation is stopped, and has done     *)
(* nothing.  No call would block, none acts on another socket than the one *)
(* its operation was started for, and there is no order among them.        *)
(***************************************************************************)
EXTENDS Integers, KernelSockets

CONSTANTS Ids,      \* the _Socket_ids
          Ops,      \* the operation states
          Size      \* what a send has to send

VARIABLES table,        \* the native handles of the ids in use: see SocketTable
          nonblocking,  \* the handles that have O_NONBLOCK
          waiting,      \* what an operation in flight waits for, where
          left          \* what a send has still to send

vars == <<table, socket, nonblocking, waiting, left>>

T == INSTANCE SocketTable

Timer == [kind |-> "resume"]
Nothing == [kind |-> "none"]
Stopped == [kind |-> "stopped"]

Init == /\ T!Init
        /\ AllClosed
        /\ nonblocking = {}
        /\ waiting = [o \in Ops |-> Nothing]
        /\ left = [o \in Ops |-> Size]

\* A socket's native handle is given back when no operation uses it.
MakeSocket(id, h, kind) == /\ Fresh(h, kind)
                           /\ T!Insert(id, h)
                           /\ UNCHANGED nonblocking

Users(id) == {o \in Ops : waiting[o].kind \in IoKinds /\ waiting[o].id = id}

Release(id) == /\ Users(id) = {}
               /\ T!Erase(id)
               /\ Close(table[id])
               /\ nonblocking' = nonblocking \ {table[id]}

-----------------------------------------------------------------------------
Usable(o, kind, id) == /\ waiting[o] \in {Nothing, Stopped}
                       /\ id \in T!Live
                       /\ \A p \in Users(id) : ~Compete(kind, waiting[p].kind)

Begin(o, new) == /\ waiting' = [waiting EXCEPT ![o] = new]
                 /\ UNCHANGED <<table, left>>

Start(o, kind, id) == /\ Usable(o, kind, id)
                      /\ Begin(o, [kind |-> kind, id |-> id])
                      /\ UNCHANGED <<socket, nonblocking>>

\* A connect has an answer at once, or waits for it; one that fails may leave
\* the socket non-blocking, and even connecting.
Connect(o, id) ==
    LET h == table[id]
    IN  /\ Usable(o, "connect", id)
        /\ nonblocking' = nonblocking \cup {h}
        /\ \/ /\ \/ UNCHANGED socket
                 \/ /\ socket[h].kind \in {"fresh", "refused"}
                    /\ socket' = [socket EXCEPT ![h] = SocketOf("connected")]
              /\ UNCHANGED <<table, waiting, left>>
           \/ /\ socket[h].kind \in {"fresh", "refused"}
              /\ socket' = [socket EXCEPT ![h].kind = "connecting"]
              /\ \/ Begin(o, [kind |-> "connect", id |-> id])
                 \/ UNCHANGED <<table, waiting, left>>

Resume(o) == /\ waiting[o] \in {Nothing, Stopped}
             /\ Begin(o, Timer)
             /\ UNCHANGED <<socket, nonblocking>>

-----------------------------------------------------------------------------
Over(o, how) == /\ waiting' = [waiting EXCEPT ![o] = how]
                /\ left' = [left EXCEPT ![o] = Size]

Untouched == UNCHANGED <<table, socket, nonblocking>>

Stop(o) == waiting[o] \notin {Nothing, Stopped} /\ Over(o, Stopped) /\ Untouched

Elapse(o) == waiting[o] = Timer /\ Over(o, Nothing) /\ Untouched

\* A connection that is waiting is accepted, or there is no handle for it.
Accept(o, h) ==
    \/ /\ socket[h].kind = "listening" => /\ socket[h].in > 0
                                          /\ \A k \in Handles : socket[k].kind # "closed"
       /\ Untouched
    \/ /\ socket[h].kind = "listening" /\ socket[h].in > 0
       /\ \E i \in Ids, k \in Handles :
             /\ socket[k].kind = "closed"
             /\ socket' = [socket EXCEPT ![h].in = @ - 1, ![k] = SocketOf("connected")]
             /\ T!Insert(i, k)
       /\ UNCHANGED nonblocking

\* Data; the end of it only when the peer is gone and nothing is left; or an
\* error.
Receive(h) ==
    /\ \/ /\ socket[h].kind = "connected" /\ socket[h].in > 0
          /\ socket' = [socket EXCEPT ![h].in = @ - 1]
       \/ /\ socket[h].kind = "connected" => socket[h].in = 0 /\ socket[h].gone
          /\ socket[h].kind # "connecting"
          /\ UNCHANGED socket
    /\ UNCHANGED <<table, nonblocking>>

\* A send is over when all is sent, on a non-blocking socket when some is.
Send(o, h) ==
    \/ /\ socket[h].kind = "connected" /\ ~socket[h].gone
       /\ \E n \in 1..left[o] :
             /\ n = socket[h].room \/ (n = left[o] /\ n <= socket[h].room)
             /\ socket' = [socket EXCEPT ![h].room = @ - n]
             /\ IF n = left[o] \/ h \in nonblocking
                THEN Over(o, Nothing)
                ELSE left' = [left EXCEPT ![o] = @ - n] /\ UNCHANGED waiting
       /\ UNCHANGED <<table, nonblocking>>
    \/ /\ socket[h].kind = "connected" => socket[h].gone
       /\ socket[h].kind # "connecting"
       /\ Over(o, Nothing)
       /\ Untouched

\* Only a connect that has an answer is over.
Call(o, h) ==
    \/ waiting[o].kind = "accept" /\ Accept(o, h) /\ Over(o, Nothing)
    \/ waiting[o].kind = "receive" /\ Receive(h) /\ Over(o, Nothing)
    \/ waiting[o].kind = "send" /\ Send(o, h)
    \/ /\ waiting[o].kind = "connect" /\ socket[h].kind # "connecting"
       /\ Over(o, Nothing) /\ Untouched

-----------------------------------------------------------------------------
\* The sockets themselves, without the operations.
SocketStep ==
    /\ UNCHANGED <<waiting, left>>
    /\ \/ \E id \in Ids, h \in Handles, kind \in {"fresh", "listening"} : MakeSocket(id, h, kind)
       \/ \E id \in Ids : Release(id)
       \/ (\E h \in Handles : Peer(h)) /\ UNCHANGED <<table, nonblocking>>

Next ==
    \/ SocketStep
    \/ \E o \in Ops, id \in Ids :
          Connect(o, id) \/ \E kind \in {"accept", "receive", "send"} : Start(o, kind, id)
    \/ \E o \in Ops : Resume(o) \/ Stop(o) \/ Elapse(o) \/ Call(o, table[waiting[o].id])

Spec == Init /\ [][Next]_vars
=============================================================================
