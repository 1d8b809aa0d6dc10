--------------------------- MODULE LibeventContext ---------------------------
(***************************************************************************)
(* Programs of one thread on the libevent context: any number of sockets   *)
(* and operations share one event_base.  How a single operation completes  *)
(* is CpoState's matter; here a start, a stop, a call of _Work and each    *)
(* part of run_one() is one step.  What the steps share is the table of    *)
(* sockets (SocketTable, which Container implements), the kernel's sockets *)
(* and the batch of events that one run_one() serves.                      *)
(*                                                                         *)
(* An event watches the native handle its operation found at the start;    *)
(* _Work looks the handle up again when it fires.  A program is            *)
(* disciplined if it never has two operations for the same direction of a  *)
(* socket in flight and never closes a socket with an operation in flight. *)
(***************************************************************************)
EXTENDS Integers, FiniteSets, KernelSockets

CONSTANTS
    Ids,   \* the _Socket_ids: see SocketTable
    Ops,   \* the operation states
    Refusable,  \* bound: the operations whose event_add may fail
    Size   \* what one sendmsg() is given

ASSUME KernelAssumption == MaxIn \in Nat \ {0} /\ MaxRoom \in Nat \ {0} /\ Size \in Nat \ {0}
ASSUME IdsSuffice == IsFiniteSet(Ids) /\ IsFiniteSet(Handles)
                     /\ Cardinality(Handles) <= Cardinality(Ids)

VARIABLES
    table,        \* _D_sockets: the native handles of the ids in use
    nonblocking,  \* the handles that have O_NONBLOCK
    event,        \* where an operation's event is
    target,       \* what it is, its socket's id, the handle its event watches
    loop,         \* where the thread is in run_one()
    stuck,        \* the operation whose system call blocks, what it has to send
    disciplined   \* history: the program has been disciplined

vars == <<table, socket, nonblocking, event, target, loop, stuck, disciplined>>

T == INSTANCE SocketTable

Targets == [kind : IoKinds, id : Ids, handle : Handles]
Timer == [kind |-> "resume"]
Nothing == [kind |-> "none"]
Stopped == [kind |-> "stopped"]
Nobody == [op |-> "none", left |-> 0]

\* "none": the operation is not in flight; in flight, but with its event not in
\* libevent, are "refused", event_add failed, and "lost", _Work returned false.
Events == {"none", "pending", "active", "refused", "lost"}

\* Where run() has returned: no events were left, or event_base_loop failed.
Returned == {"ended", "failed"}

TypeOK ==
    /\ T!Live \subseteq Ids
    /\ \A i \in T!Live : table[i] \in Handles
    /\ socket \in [Handles -> Sockets]
    /\ \A h \in Handles : socket[h].kind # "closed" <=> \E i \in T!Live : table[i] = h
    /\ nonblocking \subseteq Handles
    /\ event \in [Ops -> Events]
    /\ target \in [Ops -> Targets \cup {Timer, Nothing, Stopped}]
    /\ loop \in {"out", "waiting", "woken", "dispatching", "blocked", "terminated"} \cup Returned
    /\ stuck \in [op : Ops, left : 0..Size] \cup {Nobody}
    /\ disciplined \in BOOLEAN

Init ==
    /\ T!Init
    /\ AllClosed
    /\ nonblocking = {}
    /\ event = [o \in Ops |-> "none"]
    /\ target = [o \in Ops |-> Nothing]
    /\ loop = "out"
    /\ stuck = Nobody
    /\ disciplined = TRUE

-----------------------------------------------------------------------------
Kind(o) == target[o].kind

Timers == {o \in Ops : target[o] = Timer}
InFlight == {o \in Ops : event[o] # "none"}
Pending == {o \in Ops : event[o] = "pending"}
Active == {o \in Ops : event[o] = "active"}

\* The program runs outside run_one() and in what a callback completes.
Running == loop \in {"out", "dispatching"} \cup Returned

Turn == /\ Running
        /\ loop' = IF loop \in Returned THEN "out" ELSE loop
        /\ UNCHANGED stuck

\* Bound: nothing is started once the program has lapsed (see Next).
Starting == Turn /\ disciplined

Users(id) == {o \in InFlight \ Timers : target[o].id = id}

-----------------------------------------------------------------------------
(***************************************************************************)
(* What the program does.                                                  *)
(***************************************************************************)
\* A socket, or an acceptor with what its constructor does to the socket.
MakeSocket(id, h, kind) ==
    /\ Starting
    /\ Fresh(h, kind)
    /\ T!Insert(id, h)
    /\ UNCHANGED <<nonblocking, event, target, disciplined>>

\* As a bug: the hole is filled with another socket, as _Poll_context does.
ReleaseCompacts(id) ==
    /\ Turn
    /\ id \in T!Live
    /\ \E last \in T!Live :
          table' = [i \in T!Live \ {last} |-> IF i = id THEN table[last] ELSE table[i]]
    /\ Close(table[id])
    /\ nonblocking' = nonblocking \ {table[id]}
    /\ disciplined' = (disciplined /\ Users(id) = {})
    /\ UNCHANGED <<event, target>>

\* As a bug: the id is erased, and the native handle stays open.
ReleaseKeepsOpen(id) ==
    /\ Turn
    /\ T!Erase(id)
    /\ disciplined' = (disciplined /\ Users(id) = {})
    /\ UNCHANGED <<socket, nonblocking, event, target>>

Release(id) ==
    /\ Turn
    /\ T!Erase(id)
    /\ Close(table[id])
    /\ nonblocking' = nonblocking \ {table[id]}
    /\ disciplined' = (disciplined /\ Users(id) = {})
    /\ UNCHANGED <<event, target>>

\* event_add or evtimer_add, whose failure goes unnoticed.
AddEvent(o) ==
    \/ event' = [event EXCEPT ![o] = "pending"]
    \/ o \in Refusable /\ event' = [event EXCEPT ![o] = "refused"]

Await(o, kind, id) ==
    /\ AddEvent(o)
    /\ target' = [target EXCEPT ![o] = [kind |-> kind, id |-> id, handle |-> table[id]]]

Engage(o, kind, id) ==
    /\ Starting
    /\ event[o] = "none"
    /\ id \in T!Live
    /\ disciplined' = (\A p \in Users(id) : ~Compete(kind, Kind(p)))
    /\ UNCHANGED table

\* _Accept, _Receive, _Send: event_new, event_add.  (When event_new fails,
\* the operation is over and nothing else has happened.)  Only an acceptor has
\* the socket_type async_accept needs ...  (Bound: nothing else is started on it.)
Start(o, kind, id) ==
    /\ Engage(o, kind, id)
    /\ (kind = "accept") <=> (socket[table[id]].kind = "listening")
    /\ Await(o, kind, id)
    /\ UNCHANGED <<socket, nonblocking>>

\* ... and only the others the endpoint of async_connect.  _Connect makes the
\* socket non-blocking, or else stops there.  Once connect() is in progress it
\* goes on, also if there is no event to wait with and the operation is over.
Connect(o, id, outcome) ==
    LET h == table[id]
        nonblock == nonblocking' = nonblocking \cup {h}
        started == socket[h].kind \in {"fresh", "refused"}
    IN
    /\ Engage(o, "connect", id)
    /\ socket[h].kind # "listening"
    /\ \/ /\ outcome = "error"
          /\ UNCHANGED nonblocking \/ nonblock
          /\ UNCHANGED <<socket, event, target>>
       \/ /\ outcome = "value" /\ started
          /\ nonblock
          /\ socket' = [socket EXCEPT ![h] = SocketOf("connected")]
          /\ UNCHANGED <<event, target>>
       \/ /\ outcome = "progress" /\ started
          /\ nonblock
          /\ socket' = [socket EXCEPT ![h].kind = "connecting"]
          /\ Await(o, "connect", id) \/ UNCHANGED <<event, target>>

Resume(o) ==
    /\ Starting
    /\ event[o] = "none"
    /\ AddEvent(o)
    /\ target' = [target EXCEPT ![o] = Timer]
    /\ UNCHANGED <<table, socket, nonblocking, disciplined>>

\* An operation that was stopped is told from one whose system call was made.
Over(o, how) == /\ event' = [event EXCEPT ![o] = "none"]
                /\ target' = [target EXCEPT ![o] = how]

\* _Cancel: event_del takes the event out of libevent, and out of the batch.
Cancel(o) ==
    /\ Turn
    /\ event[o] # "none"
    /\ Over(o, Stopped)
    /\ UNCHANGED <<table, socket, nonblocking, disciplined>>

-----------------------------------------------------------------------------
(***************************************************************************)
(* run_one(): event_base_loop(EVLOOP_ONCE) waits until some event is       *)
(* ready, and calls back for every event that was ready then.              *)
(***************************************************************************)
Readable(h) == \/ socket[h].kind \in {"fresh", "refused"}
               \/ socket[h].in > 0
               \/ socket[h].gone

Writable(h) == \/ socket[h].kind \in {"fresh", "refused"}
               \/ socket[h].kind = "connected" /\ (socket[h].room > 0 \/ socket[h].gone)

Ready(o) == \/ Kind(o) \in Reads /\ Readable(target[o].handle)
            \/ Kind(o) \in Writes /\ Writable(target[o].handle)

RunOne ==
    /\ loop \in {"out"} \cup Returned
    /\ Pending # {}
    /\ loop' = "waiting"
    /\ UNCHANGED <<table, socket, nonblocking, event, target, stuck, disciplined>>

\* Without events it returns at once, and run() with it.
RunEnds ==
    /\ loop = "out"
    /\ Pending = {}
    /\ loop' = "ended"
    /\ UNCHANGED <<table, socket, nonblocking, event, target, stuck, disciplined>>

\* -1 from event_base_loop counts as no event, too: run() returns.
RunFails ==
    /\ loop = "waiting"
    /\ loop' = "failed"
    /\ UNCHANGED <<table, socket, nonblocking, event, target, stuck, disciplined>>

\* The batch: the ready operations, and timers whose time has come.
Batch(B) == B \ Timers = {o \in Pending \ Timers : Ready(o)}

\* As a bug: only one of the ready events is served, any one.
WakeOne ==
    /\ loop = "waiting"
    /\ \E o \in Pending :
          /\ o \in Timers \/ Ready(o)
          /\ event' = [event EXCEPT ![o] = "active"]
    /\ loop' = "woken"
    /\ UNCHANGED <<table, socket, nonblocking, target, stuck, disciplined>>

Wake ==
    /\ loop = "waiting"
    /\ \E B \in SUBSET Pending \ {{}} :
          /\ Batch(B)
          /\ event' = [o \in Ops |-> IF o \in B THEN "active" ELSE event[o]]
    /\ loop' = "woken"
    /\ UNCHANGED <<table, socket, nonblocking, target, stuck, disciplined>>

TurnEnds ==
    /\ loop = "dispatching"
    /\ Active = {}
    /\ loop' = "out"
    /\ UNCHANGED <<table, socket, nonblocking, event, target, stuck, disciplined>>

-----------------------------------------------------------------------------
(***************************************************************************)
(* _Work, which does the I/O on the handle the id stands for now.  An      *)
(* operation completes, or its system call blocks the thread, or would     *)
(* block on a non-blocking socket: then false is returned and nothing adds *)
(* the event again.                                                        *)
(***************************************************************************)
Return(o) == Over(o, Nothing) /\ loop' = "dispatching" /\ stuck' = Nobody

WouldBlock(o, h) ==
    IF h \in nonblocking
    THEN /\ event' = [event EXCEPT ![o] = "lost"]
         /\ loop' = "dispatching"
         /\ stuck' = Nobody
         /\ UNCHANGED <<table, socket, nonblocking, target>>
    ELSE /\ loop' = "blocked"
         /\ stuck' = [op |-> o, left |-> 0]
         /\ UNCHANGED <<table, socket, nonblocking, event, target>>

\* accept(): a handle for the connection, and an id for the handle.  (It is
\* left unserved when there is no handle, and for lack of a listening socket.)
AcceptWork(o, h) ==
    \/ /\ socket[h].kind = "listening" /\ socket[h].in = 0
       /\ WouldBlock(o, h)
    \/ /\ socket[h].kind = "listening" /\ socket[h].in > 0
       /\ \E i \in Ids, k \in Handles :
             /\ socket[k].kind = "closed"
             /\ socket' = [socket EXCEPT ![h].in = @ - 1, ![k] = SocketOf("connected")]
             /\ T!Insert(i, k)
       /\ Return(o)
       /\ UNCHANGED nonblocking
    \/ /\ socket[h].kind = "listening" => \A k \in Handles : socket[k].kind # "closed"
       /\ Return(o)
       /\ UNCHANGED <<table, socket, nonblocking>>

\* As a bug: data is received until there is no more.
ReceiveWorkAll(o, h) ==
    IF socket[h].kind = "connected" /\ ~socket[h].gone
    THEN /\ socket' = [socket EXCEPT ![h].in = 0]
         /\ loop' = "blocked"
         /\ stuck' = [op |-> o, left |-> 0]
         /\ UNCHANGED <<table, nonblocking, event, target>>
    ELSE /\ Return(o)
         /\ UNCHANGED <<table, socket, nonblocking>>

\* recvmsg(): data, or 0 when the peer is gone, or an error.
ReceiveWork(o, h) ==
    IF socket[h].kind \in {"connected", "connecting"} /\ socket[h].in = 0 /\ ~socket[h].gone
    THEN WouldBlock(o, h)
    ELSE /\ socket' = [socket EXCEPT ![h].in =
                           IF socket[h].kind = "connected" /\ @ > 0 THEN @ - 1 ELSE @]
         /\ Return(o)
         /\ UNCHANGED <<table, nonblocking>>

\* sendmsg(): non-blocking sockets take what there is room for, on the others
\* the call lasts until all of it is taken.
SendWork(o, h) ==
    LET connected == socket[h].kind = "connected" /\ ~socket[h].gone
        left == IF loop = "blocked" THEN stuck.left ELSE Size
        taken == IF socket[h].room < left THEN socket[h].room ELSE left
    IN
    \/ /\ \/ socket[h].kind = "connecting"
          \/ connected /\ h \in nonblocking /\ taken = 0
       /\ WouldBlock(o, h)
    \/ /\ connected /\ (h \in nonblocking => taken > 0)
       /\ socket' = [socket EXCEPT ![h].room = @ - taken]
       /\ \/ /\ h \in nonblocking \/ taken = left
             /\ Return(o)
          \/ /\ h \notin nonblocking /\ taken < left
             /\ loop' = "blocked"
             /\ stuck' = [op |-> o, left |-> left - taken]
             /\ UNCHANGED <<event, target>>
       /\ UNCHANGED <<table, nonblocking>>
    \/ /\ ~connected /\ socket[h].kind # "connecting"
       /\ Return(o)
       /\ UNCHANGED <<table, socket, nonblocking>>

\* As a bug: false is returned when the connection was refused.
ConnectWorkRetries(o) ==
    /\ IF socket[target[o].handle].kind = "refused"
       THEN /\ event' = [event EXCEPT ![o] = "lost"]
            /\ loop' = "dispatching"
            /\ stuck' = Nobody
            /\ UNCHANGED target
       ELSE Return(o)
    /\ UNCHANGED <<table, socket, nonblocking>>

\* getsockopt(SO_ERROR) tells a connect that has waited how it went.
ConnectWork(o) == Return(o) /\ UNCHANGED <<table, socket, nonblocking>>

IoWork(o, h) == \/ Kind(o) = "accept" /\ AcceptWork(o, h)
                \/ Kind(o) = "receive" /\ ReceiveWork(o, h)
                \/ Kind(o) = "send" /\ SendWork(o, h)
                \/ Kind(o) = "connect" /\ ConnectWork(o)

ResumeWork(o) == Return(o) /\ UNCHANGED <<table, socket, nonblocking>>

\* An id that is not in use any more ends the program: std::get throws.
Work(o) ==
    /\ loop \in {"woken", "dispatching"}
    /\ event[o] = "active"
    /\ \/ o \in Timers /\ ResumeWork(o)
       \/ /\ o \notin Timers
          /\ target[o].id \in T!Live
          /\ IoWork(o, table[target[o].id])
       \/ /\ o \notin Timers
          /\ target[o].id \notin T!Live
          /\ loop' = "terminated"
          /\ UNCHANGED <<table, socket, nonblocking, event, target, stuck>>
    /\ UNCHANGED disciplined

\* A blocked call goes on when the peer lets it.
Unblock ==
    /\ loop = "blocked"
    /\ LET o == stuck.op
           h == table[target[o].id]
       IN /\ socket[h].gone \/ IF Kind(o) = "send" THEN socket[h].room > 0 ELSE socket[h].in > 0
          /\ IoWork(o, h)
    /\ UNCHANGED disciplined

-----------------------------------------------------------------------------
PeerStep == /\ \E h \in Handles : Peer(h)
            /\ UNCHANGED <<table, nonblocking, event, target, loop, stuck, disciplined>>

-----------------------------------------------------------------------------
ProgramStep ==
    \/ \E id \in Ids, h \in Handles, kind \in {"fresh", "listening"} : MakeSocket(id, h, kind)
    \/ \E id \in Ids : Release(id)
    \/ \E o \in Ops, id \in Ids :
          \/ \E kind \in {"accept", "receive", "send"} : Start(o, kind, id)
          \/ \E outcome \in {"error", "value", "progress"} : Connect(o, id, outcome)
    \/ \E o \in Ops : Resume(o) \/ Cancel(o)

LoopStep == RunOne \/ Wake \/ TurnEnds \/ Unblock \/ \E o \in Ops : Work(o)

\* Bound: of a program that has lapsed, the callbacks left in the batch are
\* followed.  (What libevent does afterwards with a handle that was closed
\* under a watch is not known here.)
Next == \/ disciplined /\ (ProgramStep \/ LoopStep \/ RunEnds \/ RunFails \/ PeerStep)
        \/ \E o \in Ops : Work(o)

Spec == Init /\ [][Next]_vars

\* The program runs its context, and the thread what it has begun.
Fairness == WF_vars(RunOne \/ Wake \/ TurnEnds \/ \E o \in Ops : Work(o))

FairSpec == Spec /\ Fairness

-----------------------------------------------------------------------------
\* The handle an event watches is (still) the operation's.
Watched(o) == target[o].id \in T!Live /\ table[target[o].id] = target[o].handle

(***************************************************************************)
(* Under a disciplined program, the id of an operation that can still be   *)
(* called back stands for the socket its event watches: _Work never acts   *)
(* on another one, and never finds its id out of use.                      *)
(***************************************************************************)
OwnSocket ==
    disciplined => /\ \A o \in InFlight \ Timers : Watched(o)
                   /\ loop # "terminated"

(***************************************************************************)
(* Accepting and receiving never block the thread, although the sockets    *)
(* are blocking ones and other callbacks of the batch come between finding *)
(* a socket ready and reading from it; only a send does, of more than the  *)
(* kernel has room for.                                                    *)
(***************************************************************************)
OnlySendBlocks ==
    disciplined /\ loop = "blocked" => Kind(stuck.op) = "send" /\ stuck.left > 0

(***************************************************************************)
(* When run() returns, only failures nobody looked at are behind what is   *)
(* still in flight: event_add was refused, or event_base_loop failed - and *)
(* then the others are all still in libevent, and running again serves     *)
(* them.  No operation is dropped on EWOULDBLOCK, even on the sockets that *)
(* _Connect made non-blocking, and none is left in the middle of a batch.  *)
(***************************************************************************)
OnlyFailuresRemain == disciplined /\ loop \in Returned =>
    \A o \in InFlight : event[o] = "refused" \/ (loop = "failed" /\ event[o] = "pending")

(***************************************************************************)
(* What makes an operation ready is not taken by another one, and does not *)
(* go away by itself: it stays ready until it is served or stopped, unless *)
(* it is a send that has begun and blocks.  (libevent's report is acted on *)
(* later, after other callbacks.)                                          *)
(***************************************************************************)
StaysReady == [][disciplined' => \A o \in InFlight \ Timers :
    Ready(o) /\ event'[o] # "none" => Ready(o)' \/ (loop' = "blocked" /\ o = stuck'.op)]_vars

(***************************************************************************)
(* An operation whose socket is ready is served - or stopped - whatever    *)
(* else is going on, as long as no send blocks the thread, and however     *)
(* often event_base_loop fails before it works.                            *)
(***************************************************************************)
ReadyIsServed == \A o \in Ops :
    event[o] = "pending" /\ Ready(o)
        ~> event[o] \notin {"pending", "active"} \/ ~disciplined \/ loop \in {"blocked", "failed"}
-----------------------------------------------------------------------------
(***************************************************************************)
(* The context as what it promises: without events, a loop and batches.    *)
(***************************************************************************)
Waiting == [o \in Ops |-> IF target[o] \in Targets
                          THEN [kind |-> Kind(o), id |-> target[o].id]
                          ELSE target[o]]

Left == [o \in Ops |-> IF loop = "blocked" /\ o = stuck.op THEN stuck.left ELSE Size]

Direct == INSTANCE AsyncSockets WITH waiting <- Waiting, left <- Left

(***************************************************************************)
(* As long as the program is disciplined every step is one of the promised *)
(* ones: whatever comes between an event and its callback, an operation    *)
(* completes as its system call would have by itself.                      *)
(***************************************************************************)
ActsDirectly == Direct!Init /\ [][disciplined' => Direct!Next]_(Direct!vars)
=============================================================================
