---------------------------- MODULE KernelSockets ----------------------------
(***************************************************************************)
(* The kernel's sockets, as far as the system calls of the asynchronous    *)
(* operations can tell them apart, and the peers they talk to.             *)
(***************************************************************************)
LOCAL INSTANCE Integers

CONSTANTS Handles,  \* the native handles
          MaxIn,    \* bound: connections or data waiting at a socket
          MaxRoom   \* what the kernel buffers of the data sent on a socket

VARIABLE socket

\* Listening sockets have waiting connections, connected ones received data
\* and room for more to send; "gone" is a peer that has closed or reset.
Sockets == [kind : {"closed", "fresh", "listening", "connecting", "refused", "connected"},
            in : 0..MaxIn, room : 0..MaxRoom, gone : BOOLEAN]

SocketOf(kind) == [kind |-> kind, in |-> 0, room |-> MaxRoom, gone |-> FALSE]

AllClosed == socket = [h \in Handles |-> SocketOf("closed")]

\* socket() and accept() give any handle that is not open.
Fresh(h, kind) == /\ socket[h].kind = "closed"
                  /\ socket' = [socket EXCEPT ![h] = SocketOf(kind)]

Close(h) == socket' = [socket EXCEPT ![h] = SocketOf("closed")]

\* What operations wait for, and do then.
IoKinds == {"accept", "connect", "receive", "send"}
Reads == {"accept", "receive", "connect"}
Writes == {"send", "connect"}

\* Whether two operations on a socket wait for the same direction of it.
Compete(j, k) == {j, k} \subseteq Reads \/ {j, k} \subseteq Writes

(***************************************************************************)
(* The peers.                                                              *)
(***************************************************************************)
Peer(h) == \/ /\ socket[h].kind \in {"listening", "connected"}
              /\ socket[h].in < MaxIn /\ ~socket[h].gone
              /\ socket' = [socket EXCEPT ![h].in = @ + 1]
           \/ /\ socket[h].kind = "connected"
              /\ socket[h].room < MaxRoom /\ ~socket[h].gone
              /\ socket' = [socket EXCEPT ![h].room = @ + 1]
           \/ /\ socket[h].kind = "connected"
              /\ ~socket[h].gone
              /\ socket' = [socket EXCEPT ![h].gone = TRUE, ![h].room = MaxRoom]
           \/ /\ socket[h].kind = "connecting"
              /\ \E kind \in {"connected", "refused"} :
                    socket' = [socket EXCEPT ![h] = SocketOf(kind)]
=============================================================================
