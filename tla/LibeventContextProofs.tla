------------------------ MODULE LibeventContextProofs ------------------------
(***************************************************************************)
(* The safety of programs on the libevent context, for any number of       *)
(* sockets, handles and operations and any sizes of the kernel's buffers.  *)
(***************************************************************************)
EXTENDS LibeventContext, TLAPS

USE DEF Returned

\* No handle has two ids.
Injective == \A i, j \in T!Live : table[i] = table[j] => i = j

\* Whatever is in flight waits for something.
Aimed == \A o \in Ops : event[o] = "none" <=> target[o] \in {Nothing, Stopped}

\* Only listening and connected sockets get something, and only connections
\* have a peer that can go.
Quiet == \A h \in Handles :
    /\ socket[h].in > 0 => socket[h].kind \in {"listening", "connected"}
    /\ socket[h].gone => socket[h].kind = "connected"

\* The operation whose call blocks is one that was called back.
StuckSound == loop = "blocked" => /\ stuck.op \in Ops
                                  /\ event[stuck.op] = "active"
                                  /\ target[stuck.op] \in Targets
                                  /\ target[stuck.op].id \in T!Live

\* A batch is served to its end.
Idle == loop \in {"out", "waiting"} \cup Returned => Active = {}

Shape == TypeOK /\ Injective /\ Aimed /\ Quiet /\ StuckSound /\ Idle

\* The system call of the operation would not block now - or, sending, it has
\* at least room for some.
RipeFor(kind, s) ==
    /\ kind = "accept" /\ s.kind = "listening" => s.in > 0
    /\ kind = "receive" => /\ s.kind # "connecting"
                           /\ s.kind = "connected" => s.in > 0 \/ s.gone
    /\ kind = "send" => /\ s.kind # "connecting"
                        /\ s.kind = "connected" => s.room > 0 \/ s.gone
    /\ kind = "connect" => s.kind # "connecting"

Ripe(o) == RipeFor(Kind(o), socket[target[o].handle])

Watching == \A o \in InFlight \ Timers : Watched(o)

Apart == \A o, p \in InFlight \ Timers :
    o # p /\ target[o].id = target[p].id => ~Compete(Kind(o), Kind(p))

\* No callback of the batch finds that another has taken what woke it.
AllRipe == \A o \in Active \ Timers : (loop = "blocked" /\ o = stuck.op) \/ Ripe(o)

Sending == loop = "blocked" =>
    /\ Kind(stuck.op) = "send"
    /\ stuck.left > 0
    /\ target[stuck.op].handle \notin nonblocking
    /\ socket[target[stuck.op].handle].kind = "connected"

Kept == /\ loop # "terminated"
        /\ \A o \in Ops : event[o] # "lost"
        /\ Watching
        /\ Apart
        /\ AllRipe
        /\ Sending
        /\ loop = "ended" => Pending = {}

IInv == Shape /\ (disciplined => Kept)

-----------------------------------------------------------------------------
\* What _Insert and _Erase do to the table.
LEMMA Inserted ==
    ASSUME NEW id, NEW h, T!Insert(id, h)
    PROVE  /\ T!Live' = T!Live \cup {id}
           /\ id \notin T!Live
           /\ table'[id] = h
           /\ \A i \in T!Live : table'[i] = table[i]
           /\ \A i \in T!Live : table[i] # h
           /\ Injective => Injective'
  BY DEF T!Insert, T!Live, Injective

LEMMA Erased ==
    ASSUME NEW id, T!Erase(id)
    PROVE  /\ id \in T!Live
           /\ T!Live' = T!Live \ {id}
           /\ \A i \in T!Live \ {id} : table'[i] = table[i]
           /\ Injective => Injective'
  BY DEF T!Erase, T!Live, Injective

LEMMA InitInv == Init => IInv
  <1> SUFFICES ASSUME Init PROVE IInv
    OBVIOUS
  <1> USE KernelAssumption DEF Init, AllClosed, SocketOf
  <1>1. T!Live = {}
    BY DEF T!Init, T!Live
  <1>2. TypeOK
    BY <1>1 DEF TypeOK, Sockets, Events, Nobody
  <1>3. Injective /\ Aimed /\ Quiet /\ StuckSound /\ Idle
    BY <1>1 DEF Injective, Aimed, Quiet, StuckSound, Idle, Active
  <1>4. InFlight = {} /\ Active = {}
    BY DEF InFlight, Active
  <1>5. Kept
    BY <1>4 DEF Kept, Watching, Apart, AllRipe, Sending
  <1> QED BY <1>2, <1>3, <1>5 DEF IInv, Shape

-----------------------------------------------------------------------------
(***************************************************************************)
(* run_one(), from its start to the end of the batch.                      *)
(***************************************************************************)
LEMMA RunOneInv == ASSUME IInv, RunOne \/ TurnEnds \/ RunEnds \/ RunFails PROVE IInv'
  <1> USE DEF RunOne, TurnEnds, RunEnds, RunFails
  <1>1. T!Live' = T!Live /\ Active' = Active /\ InFlight' = InFlight /\ Timers' = Timers
      /\ Pending' = Pending
    BY DEF T!Live, Active, InFlight, Timers, Pending
  <1>2. TypeOK' /\ Injective' /\ Aimed' /\ Quiet' /\ StuckSound' /\ Idle'
    BY <1>1 DEF IInv, Shape, TypeOK, Injective, Aimed, Quiet, StuckSound, Idle
  <1>3. ASSUME Kept PROVE Kept'
    BY <1>1, <1>3 DEF Kept, Watching, Watched, Apart, Compete, AllRipe, Ripe, Sending, Kind
  <1> QED BY <1>2, <1>3 DEF IInv, Shape

\* An operation that is ready is ripe: what is found readable and is not
\* listening or connected does not block a receive.
LEMMA ReadyIsRipe ==
    ASSUME IInv, NEW o \in Ops, target[o] \in Targets, Ready(o) PROVE Ripe(o)
  <1>1. target[o].handle \in Handles /\ Kind(o) \in IoKinds
    BY DEF Targets, Kind
  <1>2. socket[target[o].handle] \in Sockets
    BY <1>1 DEF IInv, Shape, TypeOK
  <1> QED BY <1>1, <1>2 DEF Ready, Ripe, RipeFor, Readable, Writable, Reads, Writes,
          IInv, Shape, Quiet, Sockets, IoKinds

LEMMA WakeInv == ASSUME IInv, Wake PROVE IInv'
  <1> USE DEF Wake
  <1>1. PICK B \in SUBSET Pending :
            Batch(B) /\ event' = [o \in Ops |-> IF o \in B THEN "active" ELSE event[o]]
    OBVIOUS
  <1>2. /\ T!Live' = T!Live /\ Timers' = Timers /\ InFlight' = InFlight
        /\ loop' = "woken" /\ loop = "waiting"
        /\ \A o \in Ops : event'[o] = IF o \in B THEN "active" ELSE event[o]
    BY <1>1 DEF T!Live, Timers, InFlight, Pending
  <1>3. TypeOK' /\ Injective' /\ Aimed' /\ Quiet' /\ StuckSound' /\ Idle'
    <2>1. event' \in [Ops -> Events]
      BY <1>1 DEF IInv, Shape, TypeOK, Events
    <2>2. TypeOK'
      BY <1>2, <2>1 DEF IInv, Shape, TypeOK
    <2>3. Aimed'
      BY <1>2 DEF IInv, Shape, Aimed, Pending
    <2> QED BY <1>2, <2>2, <2>3 DEF IInv, Shape, Injective, Quiet, StuckSound, Idle
  <1>4. ASSUME Kept PROVE Kept'
    <2>1. \A o \in Ops : event'[o] # "lost"
      BY <1>2, <1>4 DEF Kept
    <2>2. AllRipe'
      <3> SUFFICES ASSUME NEW o \in Ops, o \in Active' \ Timers PROVE Ripe(o)'
        BY <1>2 DEF AllRipe, Active
      <3>1. Ripe(o)' <=> Ripe(o)
        BY DEF Ripe, Kind
      <3>2. CASE o \in Active
        BY <1>2, <1>4, <3>1, <3>2 DEF Kept, AllRipe
      <3>3. CASE o \notin Active
        <4>1. o \in Pending /\ Ready(o)
          BY <1>1, <1>2, <3>3 DEF Active, Batch, Pending
        <4>2. target[o] \in Targets
          BY <4>1 DEF IInv, Shape, TypeOK, Aimed, Timers, Pending
        <4> QED BY <3>1, <4>1, <4>2, ReadyIsRipe
      <3> QED BY <3>2, <3>3
    <2> QED BY <1>2, <1>4, <2>1, <2>2
            DEF Kept, Watching, Watched, Apart, Compete, Sending, Kind
  <1> QED BY <1>3, <1>4 DEF IInv, Shape
-----------------------------------------------------------------------------
(***************************************************************************)
(* What the program does.                                                  *)
(***************************************************************************)
\* Outside of run_one() and in callbacks no system call blocks.
LEMMA Turned ==
    ASSUME IInv, Turn
    PROVE  /\ loop' \in {"out", "dispatching"} /\ stuck' = stuck
           /\ StuckSound'
           /\ Active' \subseteq Active => Idle'
           /\ Sending'
           /\ disciplined /\ Kept => \A o \in Active \ Timers : Ripe(o)
  BY DEF Turn, Running, IInv, Shape, StuckSound, Idle, Sending, Kept, AllRipe, Active

LEMMA MakeSocketInv ==
    ASSUME IInv, NEW id \in Ids, NEW h \in Handles, NEW kind \in {"fresh", "listening"},
           MakeSocket(id, h, kind)
    PROVE  IInv'
  <1> USE DEF MakeSocket, Starting, Fresh
  <1>1. /\ T!Live' = T!Live \cup {id} /\ id \notin T!Live /\ table'[id] = h
        /\ \A i \in T!Live : table'[i] = table[i] /\ table[i] # h
        /\ Injective'
    BY Inserted DEF IInv, Shape
  <1>2. socket' = [socket EXCEPT ![h] = SocketOf(kind)] /\ SocketOf(kind) \in Sockets
        /\ SocketOf(kind).in = 0 /\ ~SocketOf(kind).gone /\ SocketOf(kind).kind = kind
    BY KernelAssumption DEF SocketOf, Sockets
  <1>3. Active' = Active /\ InFlight' = InFlight /\ Timers' = Timers
    BY DEF Active, InFlight, Timers
  <1>4. TypeOK'
    <2>1. \A g \in Handles : socket'[g].kind # "closed" <=> \E i \in T!Live' : table'[i] = g
      BY <1>1, <1>2 DEF IInv, Shape, TypeOK
    <2> QED BY <1>1, <1>2, <2>1, Turned DEF IInv, Shape, TypeOK
  <1>5. Aimed' /\ Quiet' /\ StuckSound' /\ Idle'
    BY <1>2, <1>3, Turned DEF IInv, Shape, TypeOK, Aimed, Quiet
  <1>6. ASSUME Kept PROVE Kept'
    <2>1. Watching'
      BY <1>1, <1>3, <1>6 DEF Kept, Watching, Watched
    <2>2. AllRipe'
      <3> SUFFICES ASSUME NEW o \in Active \ Timers PROVE Ripe(o)'
        BY <1>3 DEF AllRipe
      <3>1. target[o].handle # h /\ target[o].handle \in Handles
        BY <1>1, <1>6 DEF Kept, Watching, Watched, Active, InFlight, IInv, Shape, TypeOK
      <3> QED BY <1>2, <1>6, <3>1, Turned DEF Ripe, Kind, IInv, Shape, TypeOK
    <2> QED BY <1>3, <1>6, <2>1, <2>2, Turned DEF Kept, Apart, Compete, Kind
  <1> QED BY <1>1, <1>4, <1>5, <1>6 DEF IInv, Shape

LEMMA ReleaseInv == ASSUME IInv, NEW id \in Ids, Release(id) PROVE IInv'
  <1> USE DEF Release, Close
  <1>1. /\ id \in T!Live /\ T!Live' = T!Live \ {id}
        /\ \A i \in T!Live \ {id} : table'[i] = table[i]
        /\ Injective'
    BY Erased DEF IInv, Shape
  <1>2. /\ socket' = [socket EXCEPT ![table[id]] = SocketOf("closed")]
        /\ SocketOf("closed") \in Sockets /\ SocketOf("closed").kind = "closed"
        /\ SocketOf("closed").in = 0 /\ ~SocketOf("closed").gone
    BY KernelAssumption DEF SocketOf, Sockets
  <1>3. Active' = Active /\ InFlight' = InFlight /\ Timers' = Timers
    BY DEF Active, InFlight, Timers
  <1>4. TypeOK'
    <2>1. \A g \in Handles : socket'[g].kind # "closed" <=> \E i \in T!Live' : table'[i] = g
      BY <1>1, <1>2 DEF IInv, Shape, TypeOK, Injective
    <2> QED BY <1>1, <1>2, <2>1, Turned DEF IInv, Shape, TypeOK
  <1>5. Aimed' /\ Quiet' /\ StuckSound' /\ Idle'
    BY <1>1, <1>2, <1>3, Turned DEF IInv, Shape, TypeOK, Aimed, Quiet
  <1>6. ASSUME disciplined, Kept, Users(id) = {} PROVE Kept'
    <2>1. Watching'
      BY <1>1, <1>3, <1>6 DEF Kept, Watching, Watched, Users
    <2>2. AllRipe'
      <3> SUFFICES ASSUME NEW o \in Active \ Timers PROVE Ripe(o)'
        BY <1>3 DEF AllRipe
      <3>1. target[o].handle # table[id] /\ target[o].handle \in Handles
        BY <1>1, <1>6
           DEF Kept, Watching, Watched, Active, InFlight, Users, IInv, Shape, TypeOK, Injective
      <3> QED BY <1>1, <1>2, <1>6, <3>1, Turned DEF Ripe, Kind, IInv, Shape, TypeOK
    <2> QED BY <1>3, <1>6, <2>1, <2>2, Turned DEF Kept, Apart, Compete, Kind
  <1> QED BY <1>1, <1>4, <1>5, <1>6 DEF IInv, Shape

\* A new operation watches its own socket, and competes with none.
LEMMA Awaited ==
    ASSUME IInv, NEW o \in Ops, NEW kind \in IoKinds, NEW id \in Ids,
           Engage(o, kind, id), Await(o, kind, id)
    PROVE  /\ event' \in [Ops -> Events]
           /\ target' \in [Ops -> Targets \cup {Timer, Nothing, Stopped}]
           /\ Aimed'
           /\ Active' = Active /\ Active' \ Timers' = Active \ Timers
           /\ \A p \in Active : target'[p] = target[p]
           /\ disciplined' => Watching' /\ Apart' /\ \A p \in Ops : event'[p] # "lost"
  <1> DEFINE new == [kind |-> kind, id |-> id, handle |-> table[id]]
  <1> USE DEF Engage, Await, AddEvent
  <1>1. T!Live' = T!Live /\ table' = table /\ id \in T!Live /\ event[o] = "none"
    BY DEF T!Live
  <1>2. new \in Targets /\ new # Timer /\ new \notin {Nothing, Stopped}
    BY <1>1 DEF IInv, Shape, TypeOK, Targets, Timer, Nothing, Stopped, IoKinds
  <1>3. /\ event'[o] \in {"pending", "refused"} /\ target'[o] = new
        /\ \A p \in Ops \ {o} : event'[p] = event[p] /\ target'[p] = target[p]
    BY DEF IInv, Shape, TypeOK
  <1>4. /\ event' \in [Ops -> Events]
        /\ target' \in [Ops -> Targets \cup {Timer, Nothing, Stopped}]
    BY <1>2 DEF IInv, Shape, TypeOK, Events
  <1>5. Aimed'
    BY <1>2, <1>3 DEF IInv, Shape, Aimed
  <1>6. Active' = Active /\ o \notin Active
    BY <1>1, <1>3 DEF Active
  <1>7. InFlight' = InFlight \cup {o} /\ o \notin InFlight /\ o \notin Timers'
        /\ \A p \in Ops \ {o} : p \in Timers' <=> p \in Timers
    BY <1>1, <1>2, <1>3 DEF InFlight, Timers
  <1>8. ASSUME disciplined' PROVE Watching' /\ Apart' /\ \A p \in Ops : event'[p] # "lost"
    <2>1. Kept /\ \A p \in Users(id) : ~Compete(kind, Kind(p))
      BY <1>8 DEF Starting, IInv
    <2>2. Watching'
      BY <1>1, <1>3, <1>7, <2>1 DEF Kept, Watching, Watched, InFlight
    <2>3. Apart'
      <3>1. \A j, k : Compete(j, k) => Compete(k, j)
        BY DEF Compete
      <3>2. \A p \in InFlight \ Timers : target[p].id = id => ~Compete(kind, Kind(p))
        BY <2>1 DEF Users
      <3> QED BY <1>3, <1>7, <2>1, <3>1, <3>2 DEF Kept, Apart, Kind, InFlight
    <2>4. \A p \in Ops : event'[p] # "lost"
      BY <1>3, <2>1 DEF Kept
    <2> QED BY <2>2, <2>3, <2>4
  <1> QED BY <1>3, <1>4, <1>5, <1>6, <1>7, <1>8 DEF Active

LEMMA StartInv ==
    ASSUME IInv, NEW o \in Ops, NEW kind \in {"accept", "receive", "send"}, NEW id \in Ids,
           Start(o, kind, id)
    PROVE  IInv'
  <1>1. Engage(o, kind, id) /\ Await(o, kind, id) /\ Turn /\ kind \in IoKinds
        /\ table' = table /\ socket' = socket /\ nonblocking' = nonblocking
        /\ T!Live' = T!Live
    BY DEF Start, Engage, Starting, IoKinds, T!Live
  <1>2. disciplined' \in BOOLEAN /\ (disciplined' => disciplined)
    BY <1>1 DEF Engage, Starting
  <1>3. TypeOK'
    BY <1>1, <1>2, Awaited, Turned DEF IInv, Shape, TypeOK
  <1>4. Injective' /\ Aimed' /\ Quiet' /\ StuckSound' /\ Idle'
    BY <1>1, Awaited, Turned DEF IInv, Shape, Injective, Quiet
  <1>5. ASSUME disciplined' PROVE Kept'
    <2>1. AllRipe'
      BY <1>1, <1>2, <1>5, Awaited, Turned DEF IInv, AllRipe, Ripe, Kind
    <2> QED BY <1>1, <1>2, <1>5, <2>1, Awaited, Turned DEF Kept
  <1> QED BY <1>3, <1>4, <1>5 DEF IInv, Shape

\* Every operation on a socket competes with a connect.
LEMMA ConnectAlone ==
    ASSUME IInv, NEW id, NEW o \in Ops, Engage(o, "connect", id), disciplined'
    PROVE  Kept /\ Users(id) = {}
  <1>1. \A p \in Users(id) : Kind(p) \in IoKinds
    BY DEF Users, InFlight, Timers, Kind, IInv, Shape, TypeOK, Aimed, Targets
  <1>2. \A k \in IoKinds : Compete("connect", k)
    BY DEF Compete, IoKinds, Reads, Writes
  <1> QED BY <1>1, <1>2 DEF Engage, Starting, IInv

LEMMA ConnectInv ==
    ASSUME IInv, NEW o \in Ops, NEW id \in Ids, NEW outcome \in {"error", "value", "progress"},
           Connect(o, id, outcome)
    PROVE  IInv'
  <1> DEFINE h == table[id]
  <1>1. /\ Engage(o, "connect", id) /\ Turn /\ id \in T!Live /\ h \in Handles
        /\ table' = table /\ T!Live' = T!Live /\ nonblocking' \subseteq Handles
    BY DEF Connect, Engage, Starting, T!Live, IInv, Shape, TypeOK
  <1>2. disciplined' \in BOOLEAN /\ (disciplined' => disciplined)
    BY <1>1 DEF Engage, Starting
  <1>3. PICK s \in Sockets :
            /\ socket' = [socket EXCEPT ![h] = s]
            /\ s = socket[h] \/ (s.in = 0 /\ ~s.gone)
            /\ s.kind # "closed"
    <2>1. socket[h] \in Sockets /\ socket[h].kind # "closed"
      BY <1>1 DEF IInv, Shape, TypeOK
    <2>2. CASE socket' = socket
      BY <1>1, <2>1, <2>2 DEF IInv, Shape, TypeOK
    <2>3. CASE socket' = [socket EXCEPT ![h] = SocketOf("connected")]
      <3> DEFINE t == SocketOf("connected")
      <3>1. t \in Sockets /\ t.in = 0 /\ ~t.gone /\ t.kind # "closed"
        BY KernelAssumption DEF SocketOf, Sockets
      <3> HIDE DEF t
      <3> QED BY <2>3, <3>1 DEF t
    <2>4. CASE /\ socket[h].kind \in {"fresh", "refused"}
               /\ socket' = [socket EXCEPT ![h].kind = "connecting"]
      <3> DEFINE t == socket'[h]
      <3>1. socket[h].in = 0 /\ ~socket[h].gone
        BY <1>1, <2>1, <2>4 DEF IInv, Shape, Quiet, Sockets
      <3>2. t \in Sockets /\ t.in = 0 /\ ~t.gone /\ t.kind # "closed"
        BY <1>1, <2>1, <2>4, <3>1 DEF Sockets, IInv, Shape, TypeOK
      <3>3. socket' = [socket EXCEPT ![h] = t]
        BY <1>1, <2>4 DEF IInv, Shape, TypeOK
      <3> QED BY <3>2, <3>3
    <2> QED BY <2>2, <2>3, <2>4 DEF Connect
  <1>4. CASE event' = event /\ target' = target
    <2>1. Active' = Active /\ InFlight' = InFlight /\ Timers' = Timers
      BY <1>4 DEF Active, InFlight, Timers
    <2>2. TypeOK'
      BY <1>1, <1>2, <1>3, <1>4, Turned DEF IInv, Shape, TypeOK
    <2>3. Injective' /\ Aimed' /\ Quiet' /\ StuckSound' /\ Idle'
      BY <1>1, <1>3, <1>4, <2>1, Turned DEF IInv, Shape, TypeOK, Injective, Aimed, Quiet
    <2>4. ASSUME disciplined' PROVE Kept'
      <3>1. Kept /\ Users(id) = {} /\ disciplined
        BY <1>1, <1>2, <2>4, ConnectAlone
      <3>2. AllRipe'
        <4> SUFFICES ASSUME NEW p \in Active \ Timers PROVE Ripe(p)'
          BY <2>1 DEF AllRipe
        <4>1. target[p].handle # h
          BY <1>1, <3>1 DEF Kept, Watching, Watched, Active, InFlight, Users, IInv, Shape,
             Injective
        <4> QED BY <1>1, <1>3, <1>4, <3>1, <4>1, Turned
                DEF Ripe, Kind, Kept, Watching, Watched, Active, InFlight, IInv, Shape, TypeOK
      <3> QED BY <1>1, <1>4, <2>1, <3>1, <3>2, Turned
              DEF Kept, Watching, Watched, Apart, Compete, Kind
    <2> QED BY <2>2, <2>3, <2>4 DEF IInv, Shape
  <1>5. CASE Await(o, "connect", id)
    <2>1. "connect" \in IoKinds
      BY DEF IoKinds
    <2>2. TypeOK'
      BY <1>1, <1>2, <1>3, <1>5, <2>1, Awaited, Turned DEF IInv, Shape, TypeOK
    <2>3. Injective' /\ Aimed' /\ Quiet' /\ StuckSound' /\ Idle'
      BY <1>1, <1>3, <1>5, <2>1, Awaited, Turned DEF IInv, Shape, TypeOK, Injective, Quiet
    <2>4. ASSUME disciplined' PROVE Kept'
      <3>1. Kept /\ Users(id) = {} /\ disciplined
        BY <1>1, <1>2, <2>4, ConnectAlone
      <3>2. AllRipe'
        <4> SUFFICES ASSUME NEW p \in Active \ Timers PROVE Ripe(p)'
          BY <1>1, <1>5, <2>1, Awaited DEF AllRipe
        <4>1. target[p].handle # h
          BY <1>1, <3>1 DEF Kept, Watching, Watched, Active, InFlight, Users, IInv, Shape,
             Injective
        <4>2. target'[p] = target[p]
          BY <1>1, <1>5, <2>1, Awaited
        <4> QED BY <1>1, <1>3, <3>1, <4>1, <4>2, Turned
                DEF Ripe, Kind, Kept, Watching, Watched, Active, InFlight, IInv, Shape, TypeOK
      <3> QED BY <1>1, <1>5, <2>1, <2>4, <3>2, Awaited, Turned DEF Kept
    <2> QED BY <2>2, <2>3, <2>4 DEF IInv, Shape
  <1> QED BY <1>4, <1>5 DEF Connect

LEMMA ResumeInv == ASSUME IInv, NEW o \in Ops, Resume(o) PROVE IInv'
  <1> USE DEF Resume, Starting
  <1>1. /\ event'[o] \in {"pending", "refused"} /\ target'[o] = Timer
        /\ \A p \in Ops \ {o} : event'[p] = event[p] /\ target'[p] = target[p]
        /\ event' \in [Ops -> Events]
    BY DEF IInv, Shape, TypeOK, AddEvent, Events
  <1>2. T!Live' = T!Live /\ Active' = Active
        /\ Active' \ Timers' = Active \ Timers /\ InFlight' \ Timers' = InFlight \ Timers
        /\ \A p \in InFlight : target'[p] = target[p] /\ Kind(p)' = Kind(p)
    BY <1>1 DEF T!Live, Active, InFlight, Timers, Kind
  <1>3. TypeOK'
    BY <1>1, <1>2, Turned DEF IInv, Shape, TypeOK
  <1>4. Injective' /\ Aimed' /\ Quiet' /\ StuckSound' /\ Idle'
    <2>1. Timer \notin {Nothing, Stopped}
      BY DEF Timer, Nothing, Stopped
    <2> QED BY <1>1, <1>2, <2>1, Turned DEF IInv, Shape, Injective, Aimed, Quiet
  <1>5. ASSUME Kept PROVE Kept'
    <2>1. AllRipe'
      BY <1>1, <1>2, <1>5, Turned DEF AllRipe, Ripe, Active, InFlight
    <2>2. Watching' /\ Apart'
      BY <1>2, <1>5 DEF Kept, Watching, Watched, Apart, Compete
    <2> QED BY <1>1, <1>5, <2>1, <2>2, Turned DEF Kept
  <1> QED BY <1>3, <1>4, <1>5 DEF IInv, Shape

\* What is over leaves the others as they are.
LEMMA OverOnly ==
    ASSUME IInv, NEW o \in Ops, NEW how \in {Nothing, Stopped}, Over(o, how)
    PROVE  /\ event' \in [Ops -> Events]
           /\ target' \in [Ops -> Targets \cup {Timer, Nothing, Stopped}]
           /\ Aimed'
           /\ event'[o] = "none"
           /\ \A p \in Ops \ {o} : event'[p] = event[p] /\ target'[p] = target[p]
           /\ InFlight' = InFlight \ {o} /\ Active' = Active \ {o}
           /\ Active' \ Timers' = (Active \ Timers) \ {o}
           /\ InFlight' \ Timers' = (InFlight \ Timers) \ {o}
           /\ Kept => Apart' /\ \A p \in Ops : event'[p] # "lost"
  <1> USE DEF Over
  <1>1. /\ event'[o] = "none" /\ target'[o] = how
        /\ \A p \in Ops \ {o} : event'[p] = event[p] /\ target'[p] = target[p]
    BY DEF IInv, Shape, TypeOK
  <1>2. /\ event' \in [Ops -> Events]
        /\ target' \in [Ops -> Targets \cup {Timer, Nothing, Stopped}]
        /\ Aimed'
    BY <1>1 DEF IInv, Shape, TypeOK, Events, Aimed
  <1>3. /\ InFlight' = InFlight \ {o} /\ Active' = Active \ {o}
        /\ Active' \ Timers' = (Active \ Timers) \ {o}
        /\ InFlight' \ Timers' = (InFlight \ Timers) \ {o}
    BY <1>1 DEF InFlight, Active, Timers
  <1>4. ASSUME Kept PROVE Apart' /\ \A p \in Ops : event'[p] # "lost"
    BY <1>1, <1>3, <1>4 DEF Kept, Apart, Compete, Kind, InFlight
  <1> QED BY <1>1, <1>2, <1>3, <1>4

LEMMA CancelInv == ASSUME IInv, NEW o \in Ops, Cancel(o) PROVE IInv'
  <1> USE DEF Cancel
  <1>1. T!Live' = T!Live
    BY DEF T!Live
  <1>2. TypeOK'
    BY <1>1, OverOnly, Turned DEF IInv, Shape, TypeOK
  <1>3. Injective' /\ Aimed' /\ Quiet' /\ StuckSound' /\ Idle'
    BY <1>1, OverOnly, Turned DEF IInv, Shape, Injective, Quiet
  <1>4. ASSUME disciplined, Kept PROVE Kept'
    <2>1. AllRipe'
      BY <1>4, OverOnly, Turned DEF AllRipe, Ripe, Kind, Active
    <2>2. Watching'
      BY <1>1, <1>4, OverOnly DEF Kept, Watching, Watched, InFlight
    <2> QED BY <1>4, <2>1, <2>2, OverOnly, Turned DEF Kept
  <1> QED BY <1>2, <1>3, <1>4 DEF IInv, Shape

-----------------------------------------------------------------------------
(***************************************************************************)
(* The system calls.                                                       *)
(***************************************************************************)
\* The operation is called back, or its call goes on; h is its socket.
Called(o, h) == /\ o \in Ops
                /\ event[o] = "active"
                /\ target[o] \in Targets
                /\ target[o].id \in T!Live
                /\ h = table[target[o].id]
                /\ loop \in {"woken", "dispatching"} \/ (loop = "blocked" /\ o = stuck.op)

LEMMA CalledTyped ==
    ASSUME IInv, NEW o, NEW h, Called(o, h)
    PROVE  /\ h \in Handles /\ socket[h] \in Sockets /\ socket[h].kind # "closed"
           /\ o \in Active \ Timers /\ o \in InFlight \ Timers /\ Kind(o) \in IoKinds
           /\ Kept => h = target[o].handle
  <1>1. target[o] # Timer
    BY DEF Called, Targets, Timer, IoKinds
  <1> QED BY <1>1 DEF Called, IInv, Shape, TypeOK, Active, InFlight, Timers, Kind, Targets,
          Kept, Watching, Watched

\* The rest of the batch is on other sockets, or in the other direction.
LEMMA Undisturbed ==
    ASSUME IInv, Kept, NEW o, NEW h, Called(o, h), NEW p \in (Active \ Timers) \ {o}
    PROVE  /\ target[p].handle \in Handles
           /\ socket[target[p].handle] \in Sockets
           /\ socket[target[p].handle].kind # "closed"
           /\ target[p].handle = h => ~Compete(Kind(o), Kind(p))
           /\ Ripe(p)
  <1>1. o \in InFlight \ Timers /\ p \in InFlight \ Timers
    BY CalledTyped DEF Active, InFlight
  <1>2. Watched(p) /\ Watched(o)
    BY <1>1 DEF Kept, Watching
  <1>3. /\ target[p].handle \in Handles
        /\ socket[target[p].handle] \in Sockets
        /\ socket[target[p].handle].kind # "closed"
    BY <1>2 DEF Watched, IInv, Shape, TypeOK
  <1>4. target[p].handle = h => target[p].id = target[o].id
    BY <1>2 DEF Watched, Called, IInv, Shape, Injective
  <1>5. Ripe(p)
    BY DEF Kept, AllRipe, Called
  <1> QED BY <1>1, <1>3, <1>4, <1>5 DEF Kept, Apart

\* A callback that completes its operation, and leaves the rest ripe.
LEMMA Served ==
    ASSUME IInv, NEW o, NEW h, Called(o, h), Return(o),
           nonblocking' = nonblocking, disciplined' = disciplined,
           T!Live' \subseteq Ids, \A i \in T!Live' : table'[i] \in Handles,
           \A i \in T!Live : i \in T!Live' /\ table'[i] = table[i],
           Injective',
           socket' \in [Handles -> Sockets],
           \A g \in Handles : socket'[g].kind # "closed" <=> \E i \in T!Live' : table'[i] = g,
           Quiet',
           Kept => \A p \in (Active \ Timers) \ {o} :
                       RipeFor(Kind(p), socket'[target[p].handle])
    PROVE  IInv'
  <1>1. o \in Ops /\ Over(o, Nothing) /\ loop' = "dispatching" /\ stuck' = Nobody
    BY DEF Called, Return
  <1>2. TypeOK'
    BY <1>1, OverOnly DEF IInv, Shape, TypeOK
  <1>3. StuckSound' /\ Idle' /\ Sending'
    BY <1>1 DEF StuckSound, Idle, Sending
  <1>4. ASSUME Kept PROVE Kept'
    <2>1. AllRipe'
      <3> SUFFICES ASSUME NEW p \in (Active \ Timers) \ {o} PROVE Ripe(p)'
        BY <1>1, OverOnly DEF AllRipe
      <3>1. target'[p] = target[p]
        BY <1>1, OverOnly DEF Active
      <3> QED BY <1>4, <3>1 DEF Ripe, Kind
    <2>2. Watching'
      BY <1>1, <1>4, OverOnly DEF Kept, Watching, Watched, InFlight
    <2> QED BY <1>1, <1>3, <1>4, <2>1, <2>2, OverOnly DEF Kept
  <1> QED BY <1>1, <1>2, <1>3, <1>4, OverOnly DEF IInv, Shape

\* The same when nothing else changes.
LEMMA ServedOnly ==
    ASSUME IInv, NEW o, NEW h, Called(o, h), Return(o),
           UNCHANGED <<table, socket, nonblocking, disciplined>>
    PROVE  IInv'
  <1>1. T!Live' = T!Live
    BY DEF T!Live
  <1>2. Injective' /\ Quiet'
    BY <1>1 DEF IInv, Shape, Injective, Quiet
  <1>3. Kept => \A p \in (Active \ Timers) \ {o} : RipeFor(Kind(p), socket'[target[p].handle])
    BY Undisturbed DEF Ripe
  <1> QED BY <1>1, <1>2, <1>3, Served DEF IInv, Shape, TypeOK

\* A call that would block keeps the shape; that a disciplined program makes
\* none is shown call by call.
LEMMA WouldBlockShape ==
    ASSUME IInv, NEW o, NEW h, Called(o, h), WouldBlock(o, h), disciplined' = disciplined
    PROVE  Shape'
  <1>1. T!Live' = T!Live /\ o \in Ops /\ o \in Active
        /\ UNCHANGED <<table, socket, nonblocking, target>>
        /\ loop' \in {"dispatching", "blocked"}
    BY DEF T!Live, WouldBlock, Called, Active
  <1>2. Injective' /\ Quiet' /\ Idle'
    BY <1>1 DEF IInv, Shape, Injective, Quiet, Idle
  <1>3. CASE h \in nonblocking
    <2>1. event' = [event EXCEPT ![o] = "lost"] /\ loop' = "dispatching" /\ stuck' = Nobody
      BY <1>3 DEF WouldBlock
    <2>2. TypeOK'
      BY <1>1, <2>1 DEF IInv, Shape, TypeOK, Events
    <2>3. Aimed'
      BY <1>1, <2>1 DEF IInv, Shape, TypeOK, Aimed, Active
    <2> QED BY <1>2, <2>1, <2>2, <2>3 DEF Shape, StuckSound
  <1>4. CASE h \notin nonblocking
    <2>1. event' = event /\ loop' = "blocked" /\ stuck' = [op |-> o, left |-> 0]
      BY <1>4 DEF WouldBlock
    <2>2. stuck' \in [op : Ops, left : 0..Size]
      BY <1>1, <2>1, KernelAssumption
    <2>3. TypeOK'
      BY <1>1, <2>1, <2>2 DEF IInv, Shape, TypeOK
    <2> QED BY <1>1, <1>2, <2>1, <2>3 DEF IInv, Shape, Aimed, StuckSound, Called
  <1> QED BY <1>3, <1>4

\* A change of one open socket.
QuietOne(s) == /\ s.in > 0 => s.kind \in {"listening", "connected"}
               /\ s.gone => s.kind = "connected"

LEMMA OneSocket ==
    ASSUME IInv, NEW h \in Handles, NEW s \in Sockets, socket' = [socket EXCEPT ![h] = s],
           socket[h].kind # "closed", s.kind # "closed", QuietOne(s), table' = table
    PROVE  /\ T!Live' = T!Live
           /\ socket' \in [Handles -> Sockets]
           /\ socket'[h] = s
           /\ \A g \in Handles \ {h} : socket'[g] = socket[g]
           /\ \A g \in Handles : socket'[g].kind # "closed" <=> \E i \in T!Live' : table'[i] = g
           /\ Injective' /\ Quiet'
  <1>1. T!Live' = T!Live
    BY DEF T!Live
  <1>2. socket' \in [Handles -> Sockets] /\ socket'[h] = s
        /\ \A g \in Handles \ {h} : socket'[g] = socket[g]
    BY DEF IInv, Shape, TypeOK
  <1>3. Injective' /\ Quiet'
    BY <1>1, <1>2 DEF IInv, Shape, Injective, Quiet, QuietOne
  <1> QED BY <1>1, <1>2, <1>3 DEF IInv, Shape, TypeOK

LEMMA AcceptInv ==
    ASSUME IInv, NEW o, NEW h, Called(o, h), Kind(o) = "accept", AcceptWork(o, h),
           disciplined' = disciplined
    PROVE  IInv'
  <1>1. CASE socket[h].kind = "listening" /\ socket[h].in = 0 /\ WouldBlock(o, h)
    <2>1. Kept => FALSE
      <3> SUFFICES ASSUME Kept PROVE FALSE
        OBVIOUS
      <3>1. h = target[o].handle /\ o \in Active \ Timers
        BY CalledTyped
      <3>2. ~(loop = "blocked" /\ o = stuck.op)
        BY DEF Kept, Sending
      <3> QED BY <1>1, <3>1, <3>2 DEF Kept, AllRipe, Ripe, RipeFor
    <2> QED BY <1>1, <2>1, WouldBlockShape DEF IInv
  <1>2. ASSUME NEW i \in Ids, NEW k \in Handles,
               socket[h].kind = "listening", socket[h].in > 0,
               socket[k].kind = "closed",
               socket' = [socket EXCEPT ![h].in = @ - 1, ![k] = SocketOf("connected")],
               T!Insert(i, k), Return(o), nonblocking' = nonblocking
        PROVE IInv'
    <2>1. /\ T!Live' = T!Live \cup {i} /\ i \notin T!Live /\ table'[i] = k
          /\ \A j \in T!Live : table'[j] = table[j] /\ table[j] # k
          /\ Injective'
      BY <1>2, Inserted DEF IInv, Shape
    <2>2. h \in Handles /\ h # k /\ socket[h] \in Sockets
      BY <1>2, CalledTyped
    <2>3. /\ socket'[k] = SocketOf("connected")
          /\ socket'[h] = [kind |-> "listening", in |-> socket[h].in - 1,
                           room |-> socket[h].room, gone |-> socket[h].gone]
          /\ \A g \in Handles \ {h, k} : socket'[g] = socket[g]
      BY <1>2, <2>2 DEF IInv, Shape, TypeOK, Sockets
    <2>4. /\ SocketOf("connected") \in Sockets /\ SocketOf("connected").kind = "connected"
          /\ SocketOf("connected").in = 0 /\ ~SocketOf("connected").gone
      BY KernelAssumption DEF SocketOf, Sockets
    <2>5. socket'[h] \in Sockets
      BY <1>2, <2>2, <2>3, KernelAssumption DEF Sockets
    <2>6. socket' \in [Handles -> Sockets]
      <3>1. \A g \in Handles : socket'[g] \in Sockets
        BY <2>3, <2>4, <2>5 DEF IInv, Shape, TypeOK
      <3>2. socket' = [g \in Handles |-> socket'[g]]
        BY <1>2 DEF IInv, Shape, TypeOK
      <3> QED BY <3>1, <3>2
    <2>7. ASSUME NEW g \in Handles
          PROVE  socket'[g].kind # "closed" <=> \E j \in T!Live' : table'[j] = g
      <3>1. (\E j \in T!Live' : table'[j] = g) <=> g = k \/ \E j \in T!Live : table[j] = g
        BY <2>1
      <3>2. socket'[g].kind # "closed" <=> g = k \/ socket[g].kind # "closed"
        <4>1. CASE g = k
          BY <2>3, <2>4, <4>1
        <4>2. CASE g = h
          BY <1>2, <2>2, <2>3, <4>2
        <4>3. CASE g # k /\ g # h
          BY <2>3, <4>3
        <4> QED BY <4>1, <4>2, <4>3
      <3>3. socket[g].kind # "closed" <=> \E j \in T!Live : table[j] = g
        BY DEF IInv, Shape, TypeOK
      <3> QED BY <3>1, <3>2, <3>3
    <2>8. Quiet'
      <3> SUFFICES ASSUME NEW g \in Handles
                   PROVE  /\ socket'[g].in > 0 => socket'[g].kind \in {"listening", "connected"}
                          /\ socket'[g].gone => socket'[g].kind = "connected"
        BY DEF Quiet
      <3>1. CASE g = h
        BY <1>2, <2>2, <2>3, <3>1 DEF IInv, Shape, Quiet
      <3>2. CASE g # h
        BY <2>3, <2>4, <3>2 DEF IInv, Shape, Quiet
      <3> QED BY <3>1, <3>2
    <2>9. ASSUME Kept, NEW p \in (Active \ Timers) \ {o}
          PROVE  RipeFor(Kind(p), socket'[target[p].handle])
      <3>1. target[p].handle \in Handles \ {k} /\ Ripe(p)
            /\ (target[p].handle = h => ~Compete("accept", Kind(p)))
        BY <1>2, <2>9, Undisturbed
      <3>2. CASE target[p].handle # h
        BY <2>3, <3>1, <3>2 DEF Ripe
      <3>3. CASE target[p].handle = h
        BY <1>2, <2>3, <3>1, <3>3 DEF Ripe, RipeFor, Compete, Reads
      <3> QED BY <3>2, <3>3
    <2>10. T!Live' \subseteq Ids /\ (\A j \in T!Live' : table'[j] \in Handles)
           /\ \A j \in T!Live : j \in T!Live' /\ table'[j] = table[j]
      BY <2>1 DEF IInv, Shape, TypeOK
    <2> QED BY <1>2, <2>1, <2>6, <2>7, <2>8, <2>9, <2>10, Served
  <1>3. CASE Return(o) /\ UNCHANGED <<table, socket, nonblocking>>
    BY <1>3, ServedOnly
  <1> QED BY <1>1, <1>2, <1>3 DEF AcceptWork

LEMMA ReceiveInv ==
    ASSUME IInv, NEW o, NEW h, Called(o, h), Kind(o) = "receive", ReceiveWork(o, h),
           disciplined' = disciplined
    PROVE  IInv'
  <1>1. CASE /\ socket[h].kind \in {"connected", "connecting"}
             /\ socket[h].in = 0 /\ ~socket[h].gone
             /\ WouldBlock(o, h)
    <2>1. Kept => FALSE
      <3> SUFFICES ASSUME Kept PROVE FALSE
        OBVIOUS
      <3>1. h = target[o].handle /\ o \in Active \ Timers
        BY CalledTyped
      <3>2. ~(loop = "blocked" /\ o = stuck.op)
        BY DEF Kept, Sending
      <3> QED BY <1>1, <3>1, <3>2 DEF Kept, AllRipe, Ripe, RipeFor
    <2> QED BY <1>1, <2>1, WouldBlockShape DEF IInv
  <1>2. CASE /\ socket' = [socket EXCEPT ![h].in =
                               IF socket[h].kind = "connected" /\ @ > 0 THEN @ - 1 ELSE @]
             /\ Return(o) /\ UNCHANGED <<table, nonblocking>>
    <2> DEFINE m == IF socket[h].kind = "connected" /\ socket[h].in > 0
                    THEN socket[h].in - 1 ELSE socket[h].in
               t == [kind |-> socket[h].kind, in |-> m,
                     room |-> socket[h].room, gone |-> socket[h].gone]
    <2>1. h \in Handles /\ socket[h] \in Sockets /\ socket[h].kind # "closed"
      BY CalledTyped
    <2>2. m \in 0..MaxIn /\ m <= socket[h].in
      BY <2>1, KernelAssumption DEF Sockets
    <2>3. socket' = [socket EXCEPT ![h] = t]
      <3>1. socket'[h] = t
        BY <1>2, <2>1 DEF IInv, Shape, TypeOK, Sockets
      <3>2. socket' = [socket EXCEPT ![h] = socket'[h]]
        BY <1>2, <2>1 DEF IInv, Shape, TypeOK
      <3> QED BY <3>1, <3>2
    <2>4. QuietOne(socket[h])
      BY <2>1 DEF IInv, Shape, Quiet, QuietOne
    <2> HIDE DEF m
    <2>5. t \in Sockets /\ t.kind # "closed" /\ QuietOne(t)
      BY <2>1, <2>2, <2>4, KernelAssumption DEF Sockets, QuietOne
    <2>6. t.kind = socket[h].kind /\ t.room = socket[h].room /\ t.gone = socket[h].gone
      OBVIOUS
    <2> HIDE DEF t
    <2>7. ASSUME Kept, NEW p \in (Active \ Timers) \ {o}
          PROVE  RipeFor(Kind(p), socket'[target[p].handle])
      <3>1. target[p].handle \in Handles /\ Ripe(p)
            /\ (target[p].handle = h => ~Compete("receive", Kind(p)))
        BY <2>7, Undisturbed
      <3>2. CASE target[p].handle # h
        BY <1>2, <2>1, <2>3, <2>5, <3>1, <3>2, OneSocket DEF Ripe
      <3>3. CASE target[p].handle = h
        BY <1>2, <2>1, <2>3, <2>5, <2>6, <3>1, <3>3, OneSocket DEF Ripe, RipeFor, Compete, Reads
      <3> QED BY <3>2, <3>3
    <2> QED BY <1>2, <2>1, <2>3, <2>5, <2>7, OneSocket, Served DEF IInv, Shape, TypeOK
  <1> QED BY <1>1, <1>2 DEF ReceiveWork

LEMMA SendInv ==
    ASSUME IInv, NEW o, NEW h, Called(o, h), Kind(o) = "send", SendWork(o, h),
           disciplined' = disciplined
    PROVE  IInv'
  <1> DEFINE connected == socket[h].kind = "connected" /\ ~socket[h].gone
             left == IF loop = "blocked" THEN stuck.left ELSE Size
             taken == IF socket[h].room < left THEN socket[h].room ELSE left
             s == [kind |-> socket[h].kind, in |-> socket[h].in,
                   room |-> socket[h].room - taken, gone |-> socket[h].gone]
  <1>1. h \in Handles /\ socket[h] \in Sockets /\ socket[h].kind # "closed"
        /\ o \in Active \ Timers /\ o \in Ops
    BY CalledTyped DEF Called
  <1>2. left \in 0..Size /\ socket[h].room \in 0..MaxRoom /\ MaxRoom \in Nat /\ Size \in Nat \ {0}
    BY <1>1, KernelAssumption DEF Sockets, IInv, Shape, TypeOK, Nobody
  <1>3. taken \in 0..left /\ taken \in 0..socket[h].room
    BY <1>2
  <1>4. Kept => /\ socket[h].kind # "connecting"
                /\ connected => h \notin nonblocking \/ taken > 0
                /\ h = target[o].handle
    <2> SUFFICES ASSUME Kept
                 PROVE  /\ socket[h].kind # "connecting"
                        /\ connected => h \notin nonblocking \/ taken > 0
                        /\ h = target[o].handle
      OBVIOUS
    <2>1. h = target[o].handle
      BY CalledTyped
    <2>2. CASE loop = "blocked"
      BY <2>1, <2>2 DEF Kept, Sending, Called
    <2>3. CASE loop # "blocked"
      <3>1. /\ socket[h].kind # "connecting"
            /\ socket[h].kind = "connected" => socket[h].room > 0 \/ socket[h].gone
        BY <1>1, <2>1, <2>3 DEF Kept, AllRipe, Ripe, RipeFor
      <3>2. connected => taken > 0
        BY <1>2, <2>3, <3>1
      <3> QED BY <2>1, <3>1, <3>2
    <2> QED BY <2>2, <2>3
  <1>5. CASE /\ socket[h].kind = "connecting" \/ (connected /\ h \in nonblocking /\ taken = 0)
             /\ WouldBlock(o, h)
    <2>1. ~Kept
      BY <1>3, <1>4, <1>5
    <2> QED BY <1>5, <2>1, WouldBlockShape DEF IInv
  <1>6. CASE /\ connected
             /\ socket' = [socket EXCEPT ![h].room = @ - taken]
             /\ UNCHANGED <<table, nonblocking>>
             /\ \/ Return(o)
                \/ /\ h \notin nonblocking /\ taken < left
                   /\ loop' = "blocked"
                   /\ stuck' = [op |-> o, left |-> left - taken]
                   /\ UNCHANGED <<event, target>>
    <2>1. socket' = [socket EXCEPT ![h] = s]
      <3>1. socket'[h] = s
        BY <1>1, <1>6 DEF IInv, Shape, TypeOK, Sockets
      <3>2. socket' = [socket EXCEPT ![h] = socket'[h]]
        BY <1>1, <1>6 DEF IInv, Shape, TypeOK
      <3> QED BY <3>1, <3>2
    <2>2. QuietOne(socket[h])
      BY <1>1 DEF IInv, Shape, Quiet, QuietOne
    <2> HIDE DEF taken, left
    <2>3. s \in Sockets /\ s.kind # "closed" /\ QuietOne(s)
      BY <1>1, <1>2, <1>3, <2>2 DEF Sockets, QuietOne
    <2>4. s.kind = socket[h].kind /\ s.in = socket[h].in /\ s.gone = socket[h].gone
      OBVIOUS
    <2> HIDE DEF s
    <2>5. /\ T!Live' = T!Live
          /\ socket' \in [Handles -> Sockets]
          /\ socket'[h] = s
          /\ \A g \in Handles \ {h} : socket'[g] = socket[g]
          /\ \A g \in Handles :
                socket'[g].kind # "closed" <=> \E i \in T!Live' : table'[i] = g
          /\ Injective' /\ Quiet'
      BY <1>1, <1>6, <2>1, <2>3, OneSocket
    <2>6. ASSUME Kept, NEW p \in (Active \ Timers) \ {o}
          PROVE  RipeFor(Kind(p), socket'[target[p].handle])
      <3>1. target[p].handle \in Handles /\ Ripe(p)
            /\ (target[p].handle = h => ~Compete("send", Kind(p)))
        BY <2>6, Undisturbed
      <3>2. CASE target[p].handle # h
        BY <2>5, <3>1, <3>2 DEF Ripe
      <3>3. CASE target[p].handle = h
        BY <2>4, <2>5, <3>1, <3>3 DEF Ripe, RipeFor, Compete, Writes
      <3> QED BY <3>2, <3>3
    <2>7. CASE Return(o)
      BY <1>6, <2>5, <2>6, <2>7, Served DEF IInv, Shape, TypeOK
    <2>8. CASE /\ h \notin nonblocking /\ taken < left
               /\ loop' = "blocked"
               /\ stuck' = [op |-> o, left |-> left - taken]
               /\ UNCHANGED <<event, target>>
      <3>1. Active' = Active /\ InFlight' = InFlight /\ Timers' = Timers
        BY <2>8 DEF Active, InFlight, Timers
      <3>2. left - taken \in 0..Size /\ left - taken > 0
        BY <1>2, <1>3, <2>8
      <3>3. TypeOK'
        BY <1>1, <1>6, <2>5, <2>8, <3>2 DEF IInv, Shape, TypeOK
      <3>4. Aimed' /\ StuckSound' /\ Idle'
        BY <2>5, <2>8, <3>1 DEF IInv, Shape, Aimed, StuckSound, Idle, Called
      <3>5. ASSUME Kept PROVE Kept'
        <4>1. Sending'
          BY <1>4, <1>6, <2>4, <2>5, <2>8, <3>2, <3>5 DEF Sending, Kind
        <4>2. AllRipe'
          BY <2>6, <2>8, <3>1, <3>5 DEF AllRipe, Ripe, Kind
        <4> QED BY <1>6, <2>5, <2>8, <3>1, <3>5, <4>1, <4>2
                DEF Kept, Watching, Watched, Apart, Compete, Kind
      <3> QED BY <2>5, <3>3, <3>4, <3>5 DEF IInv, Shape
    <2> QED BY <1>6, <2>7, <2>8
  <1>7. CASE Return(o) /\ UNCHANGED <<table, socket, nonblocking>>
    BY <1>7, ServedOnly
  <1> QED BY <1>5, <1>6, <1>7 DEF SendWork

LEMMA IoWorkInv ==
    ASSUME IInv, NEW o, NEW h, Called(o, h), IoWork(o, h), disciplined' = disciplined
    PROVE  IInv'
  <1>1. CASE Kind(o) = "connect" /\ ConnectWork(o)
    BY <1>1, ServedOnly DEF ConnectWork
  <1> QED BY <1>1, AcceptInv, ReceiveInv, SendInv DEF IoWork

LEMMA WorkInv == ASSUME IInv, NEW o \in Ops, Work(o) PROVE IInv'
  <1>1. /\ loop \in {"woken", "dispatching"} /\ event[o] = "active"
        /\ disciplined' = disciplined
    BY DEF Work
  <1>2. CASE o \in Timers /\ ResumeWork(o)
    <2>1. /\ Over(o, Nothing) /\ loop' = "dispatching" /\ stuck' = Nobody
          /\ UNCHANGED <<table, socket, nonblocking>>
          /\ T!Live' = T!Live
      BY <1>2 DEF ResumeWork, Return, T!Live
    <2>2. TypeOK'
      BY <1>1, <2>1, OverOnly DEF IInv, Shape, TypeOK
    <2>3. Injective' /\ Aimed' /\ Quiet' /\ StuckSound' /\ Idle'
      BY <2>1, OverOnly DEF IInv, Shape, Injective, Quiet, StuckSound, Idle
    <2>4. ASSUME Kept PROVE Kept'
      <3>1. AllRipe'
        BY <1>1, <2>1, <2>4, OverOnly DEF Kept, AllRipe, Ripe, Kind, Active
      <3>2. Watching'
        BY <2>1, <2>4, OverOnly DEF Kept, Watching, Watched, InFlight
      <3> QED BY <2>1, <2>4, <3>1, <3>2, OverOnly DEF Kept, Sending
    <2> QED BY <1>1, <2>2, <2>3, <2>4 DEF IInv, Shape
  <1>3. CASE o \notin Timers
    <2>1. target[o] \in Targets
      BY <1>1, <1>3 DEF IInv, Shape, TypeOK, Aimed, Timers
    <2>2. CASE target[o].id \in T!Live /\ IoWork(o, table[target[o].id])
      <3>1. Called(o, table[target[o].id])
        BY <1>1, <2>1, <2>2 DEF Called
      <3> QED BY <1>1, <2>2, <3>1, IoWorkInv
    <2>3. CASE /\ target[o].id \notin T!Live /\ loop' = "terminated"
               /\ UNCHANGED <<table, socket, nonblocking, event, target, stuck>>
      <3>1. ~Kept
        BY <1>1, <1>3, <2>3 DEF Kept, Watching, Watched, InFlight
      <3>2. T!Live' = T!Live /\ Active' = Active
        BY <2>3 DEF T!Live, Active
      <3>3. Shape'
        BY <1>1, <2>3, <3>2
           DEF IInv, Shape, TypeOK, Injective, Aimed, Quiet, StuckSound, Idle
      <3> QED BY <1>1, <3>1, <3>3 DEF IInv
    <2> QED BY <1>3, <2>2, <2>3 DEF Work
  <1> QED BY <1>2, <1>3 DEF Work

LEMMA UnblockInv == ASSUME IInv, Unblock PROVE IInv'
  <1> DEFINE o == stuck.op
             h == table[target[o].id]
  <1>1. Called(o, h)
    BY DEF Unblock, Called, IInv, Shape, StuckSound
  <1>2. IoWork(o, h) /\ disciplined' = disciplined
    BY DEF Unblock
  <1> HIDE DEF o, h
  <1> QED BY <1>1, <1>2, IoWorkInv

-----------------------------------------------------------------------------
(***************************************************************************)
(* What a peer does takes nothing away from an operation.                  *)
(***************************************************************************)
LEMMA PeerInv == ASSUME IInv, PeerStep PROVE IInv'
  <1>1. PICK h \in Handles : Peer(h)
    BY DEF PeerStep
  <1> DEFINE s == socket[h]
             t == socket'[h]
  <1>2. /\ UNCHANGED <<table, nonblocking, event, target, loop, stuck, disciplined>>
        /\ Active' = Active /\ InFlight' = InFlight /\ Timers' = Timers
        /\ Pending' = Pending
    BY DEF PeerStep, Active, InFlight, Timers, Pending
  <1>3. s \in Sockets /\ QuietOne(s)
    BY DEF IInv, Shape, TypeOK, Quiet, QuietOne
  <1> DEFINE Better == /\ t \in Sockets /\ QuietOne(t)
                       /\ s.kind # "closed" /\ t.kind # "closed"
                       /\ s.kind = "connected" => t.kind = "connected"
                       /\ \A kind : RipeFor(kind, s) => RipeFor(kind, t)
  <1>4. socket' = [socket EXCEPT ![h] = t] /\ Better
    <2>1. CASE /\ s.kind \in {"listening", "connected"} /\ s.in < MaxIn /\ ~s.gone
               /\ socket' = [socket EXCEPT ![h].in = @ + 1]
      <3>1. socket' = [socket EXCEPT ![h] = t]
        BY <2>1 DEF IInv, Shape, TypeOK
      <3>2. t = [kind |-> s.kind, in |-> s.in + 1, room |-> s.room, gone |-> s.gone]
        BY <1>3, <2>1 DEF IInv, Shape, TypeOK, Sockets
      <3>3. s.kind \in {"listening", "connected"} /\ s.in < MaxIn /\ ~s.gone
        BY <2>1
      <3> HIDE DEF t
      <3> QED BY <1>3, <3>1, <3>2, <3>3, KernelAssumption DEF Sockets, QuietOne, RipeFor
    <2>2. CASE /\ s.kind = "connected" /\ s.room < MaxRoom /\ ~s.gone
               /\ socket' = [socket EXCEPT ![h].room = @ + 1]
      <3>1. socket' = [socket EXCEPT ![h] = t]
        BY <2>2 DEF IInv, Shape, TypeOK
      <3>2. t = [kind |-> s.kind, in |-> s.in, room |-> s.room + 1, gone |-> s.gone]
        BY <1>3, <2>2 DEF IInv, Shape, TypeOK, Sockets
      <3>3. s.kind = "connected" /\ s.room < MaxRoom /\ ~s.gone
        BY <2>2
      <3> HIDE DEF t
      <3> QED BY <1>3, <3>1, <3>2, <3>3, KernelAssumption DEF Sockets, QuietOne, RipeFor
    <2>3. CASE /\ s.kind = "connected" /\ ~s.gone
               /\ socket' = [socket EXCEPT ![h].gone = TRUE, ![h].room = MaxRoom]
      <3>1. socket' = [socket EXCEPT ![h] = t]
        BY <2>3 DEF IInv, Shape, TypeOK
      <3>2. t = [kind |-> s.kind, in |-> s.in, room |-> MaxRoom, gone |-> TRUE]
        BY <1>3, <2>3 DEF IInv, Shape, TypeOK, Sockets
      <3>3. s.kind = "connected" /\ ~s.gone
        BY <2>3
      <3> HIDE DEF t
      <3> QED BY <1>3, <3>1, <3>2, <3>3, KernelAssumption DEF Sockets, QuietOne, RipeFor
    <2>4. ASSUME NEW kind \in {"connected", "refused"}, s.kind = "connecting",
                 socket' = [socket EXCEPT ![h] = SocketOf(kind)]
          PROVE  socket' = [socket EXCEPT ![h] = t] /\ Better
      <3>1. socket' = [socket EXCEPT ![h] = t] /\ t = SocketOf(kind)
        BY <2>4 DEF IInv, Shape, TypeOK
      <3> HIDE DEF t
      <3> QED BY <1>3, <2>4, <3>1, KernelAssumption DEF SocketOf, Sockets, QuietOne, RipeFor
    <2> QED BY <1>1, <2>1, <2>2, <2>3, <2>4 DEF Peer
  <1> HIDE DEF t
  <1>5. /\ T!Live' = T!Live
        /\ socket' \in [Handles -> Sockets]
        /\ socket'[h] = t
        /\ \A g \in Handles \ {h} : socket'[g] = socket[g]
        /\ \A g \in Handles :
              socket'[g].kind # "closed" <=> \E i \in T!Live' : table'[i] = g
        /\ Injective' /\ Quiet'
    BY <1>2, <1>4, OneSocket
  <1>6. TypeOK' /\ Aimed' /\ StuckSound' /\ Idle'
    BY <1>2, <1>5 DEF IInv, Shape, TypeOK, Aimed, StuckSound, Idle
  <1>7. ASSUME Kept PROVE Kept'
    <2>1. AllRipe'
      <3> SUFFICES ASSUME NEW o \in Active \ Timers, ~(loop = "blocked" /\ o = stuck.op)
                   PROVE  Ripe(o)'
        BY <1>2 DEF AllRipe
      <3>1. Ripe(o) /\ target[o].handle \in Handles
        BY <1>7 DEF Kept, AllRipe, Watching, Watched, Active, InFlight, IInv, Shape, TypeOK
      <3>2. CASE target[o].handle = h
        BY <1>2, <1>4, <1>5, <3>1, <3>2 DEF Ripe, Kind
      <3>3. CASE target[o].handle # h
        BY <1>2, <1>5, <3>1, <3>3 DEF Ripe, Kind
      <3> QED BY <3>2, <3>3
    <2>2. Sending'
      <3> SUFFICES ASSUME loop = "blocked" PROVE Sending'
        BY <1>2 DEF Sending
      <3>1. Sending /\ target[stuck.op].handle \in Handles
        BY <1>7 DEF Kept, IInv, Shape, StuckSound, Targets
      <3> QED BY <1>2, <1>4, <1>5, <3>1 DEF Sending, Kind
    <2> QED BY <1>2, <1>5, <1>7, <2>1, <2>2
            DEF Kept, Watching, Watched, Apart, Compete, Kind
  <1> QED BY <1>2, <1>5, <1>6, <1>7 DEF IInv, Shape

-----------------------------------------------------------------------------
LEMMA NextParts == Next => ProgramStep \/ LoopStep \/ RunEnds \/ RunFails \/ PeerStep
  BY DEF Next, LoopStep

LEMMA NextInv == ASSUME IInv, [Next]_vars PROVE IInv'
  <1>1. CASE UNCHANGED vars
    <2> USE <1>1 DEF vars
    <2>1. T!Live' = T!Live /\ Active' = Active /\ InFlight' = InFlight /\ Timers' = Timers
          /\ Pending' = Pending
      BY DEF T!Live, Active, InFlight, Timers, Pending
    <2>2. Shape'
      BY <2>1 DEF IInv, Shape, TypeOK, Injective, Aimed, Quiet, StuckSound, Idle
    <2>3. ASSUME Kept PROVE Kept'
      BY <2>1, <2>3 DEF Kept, Watching, Watched, Apart, Compete, AllRipe, Ripe, Sending, Kind
    <2> QED BY <2>2, <2>3 DEF IInv
  <1>2. CASE ProgramStep
    BY <1>2, MakeSocketInv, ReleaseInv, StartInv, ConnectInv, ResumeInv, CancelInv
       DEF ProgramStep
  <1>3. CASE LoopStep
    BY <1>3, RunOneInv, WakeInv, UnblockInv, WorkInv DEF LoopStep
  <1>4. CASE RunEnds \/ RunFails
    BY <1>4, RunOneInv
  <1>5. CASE PeerStep
    BY <1>5, PeerInv
  <1> QED BY <1>1, <1>2, <1>3, <1>4, <1>5, NextParts

(***************************************************************************)
(* The invariant of every program on the context: its shape, and - as long *)
(* as the program is disciplined - that events watch their own sockets and *)
(* that no callback of a batch takes what woke another one.                *)
(***************************************************************************)
THEOREM Invariance == Spec => []IInv
  <1>1. Init => IInv
    BY InitInv
  <1>2. IInv /\ [Next]_vars => IInv'
    BY NextInv
  <1> QED BY <1>1, <1>2, PTL DEF Spec

\* Every variable keeps its type; a socket is open if and only if some id
\* stands for it.
THEOREM ContextTyped == Spec => []TypeOK
  <1>1. IInv => TypeOK
    BY DEF IInv, Shape
  <1> QED BY <1>1, Invariance, PTL

\* _Work of a disciplined program acts on the socket its event watches.
THEOREM ActsOnOwnSocket == Spec => []OwnSocket
  <1>1. IInv => OwnSocket
    BY DEF IInv, Kept, Watching, OwnSocket
  <1> QED BY <1>1, Invariance, PTL

\* Only sends block the thread of a disciplined program.
THEOREM ReadsNeverBlock == Spec => []OnlySendBlocks
  <1>1. IInv => OnlySendBlocks
    BY DEF IInv, Kept, Sending, OnlySendBlocks
  <1> QED BY <1>1, Invariance, PTL

\* When run() of a disciplined program returns, an operation is still in flight
\* only if its event was refused, or if the loop failed while it was waiting.
THEOREM OnlyFailuresAreLeft == Spec => []OnlyFailuresRemain
  <1>1. IInv => OnlyFailuresRemain
    <2> SUFFICES ASSUME IInv, disciplined, loop \in Returned, NEW o \in InFlight
                 PROVE  event[o] = "refused" \/ (loop = "failed" /\ event[o] = "pending")
      BY DEF OnlyFailuresRemain
    <2>1. event[o] \in {"pending", "active", "refused", "lost"} /\ o \in Ops
      BY DEF InFlight, IInv, Shape, TypeOK, Events
    <2>2. event[o] \notin {"active", "lost"}
      BY <2>1 DEF IInv, Shape, Idle, Active, Kept
    <2>3. event[o] = "pending" => loop = "failed"
      BY <2>1 DEF IInv, Kept, Pending
    <2> QED BY <2>1, <2>2, <2>3
  <1> QED BY <1>1, Invariance, PTL

-----------------------------------------------------------------------------
(***************************************************************************)
(* The context does what AsyncSockets promises, step by step.              *)
(***************************************************************************)
\* What an operation waits for, as a program sees it.
LEMMA WaitingIs ==
    ASSUME IInv, NEW o \in Ops
    PROVE  /\ target[o] \in Targets => /\ Waiting[o] = [kind |-> Kind(o), id |-> target[o].id]
                                       /\ Kind(o) \in IoKinds
           /\ target[o] \notin Targets => Waiting[o] = target[o] /\ Kind(o) \notin IoKinds
           /\ event[o] = "none" <=> Waiting[o] \in {Nothing, Stopped}
           /\ o \in InFlight \ Timers <=> target[o] \in Targets
           /\ Waiting[o].kind = Kind(o)
  <1>1. target[o] \in Targets \cup {Timer, Nothing, Stopped}
    BY DEF IInv, Shape, TypeOK
  <1>2. CASE target[o] \in Targets
    <2>1. Waiting[o] = [kind |-> Kind(o), id |-> target[o].id] /\ Kind(o) \in IoKinds
      BY <1>2 DEF Waiting, Kind, Targets
    <2>2. target[o] \notin {Timer, Nothing, Stopped} /\ Waiting[o] \notin {Nothing, Stopped}
      BY <1>2, <2>1 DEF Targets, Timer, Nothing, Stopped, IoKinds
    <2> QED BY <1>2, <2>1, <2>2 DEF IInv, Shape, Aimed, InFlight, Timers
  <1>3. CASE target[o] \notin Targets
    <2>1. Waiting[o] = target[o] /\ Kind(o) \notin IoKinds
      BY <1>1, <1>3 DEF Waiting, Kind, Timer, Nothing, Stopped, IoKinds
    <2> QED BY <1>1, <1>3, <2>1 DEF IInv, Shape, Aimed, InFlight, Timers, Kind
  <1> QED BY <1>2, <1>3

LEMMA SameUsers ==
    ASSUME IInv, NEW id
    PROVE  Direct!Users(id) = Users(id)
  <1>1. ASSUME NEW o \in Ops PROVE o \in Direct!Users(id) <=> o \in Users(id)
    <2>1. o \in Direct!Users(id) <=> Waiting[o].kind \in IoKinds /\ Waiting[o].id = id
      BY DEF Direct!Users, Direct!IoKinds, IoKinds
    <2>2. Waiting[o].kind \in IoKinds <=> o \in InFlight \ Timers
      BY WaitingIs
    <2>3. o \in InFlight \ Timers => Waiting[o] = [kind |-> Kind(o), id |-> target[o].id]
      BY WaitingIs
    <2> QED BY <2>1, <2>2, <2>3 DEF Users
  <1> QED BY <1>1 DEF Direct!Users, Users, InFlight

\* Except while a send is blocked, every send has all of it to send.
LEMMA NoneLeft == ASSUME loop # "blocked" PROVE Left = [o \in Ops |-> Size]
  BY DEF Left

LEMMA DirectInit == Init => Direct!Init
  <1> SUFFICES ASSUME Init PROVE Direct!Init
    OBVIOUS
  <1>1. IInv
    BY InitInv
  <1>2. Waiting = [o \in Ops |-> Nothing]
    <2>1. \A o \in Ops : target[o] = Nothing /\ event[o] = "none"
      BY DEF Init
    <2>2. \A o \in Ops : Waiting[o] = Nothing
      BY <1>1, <2>1, WaitingIs DEF InFlight
    <2> QED BY <2>2 DEF Waiting
  <1>3. Left = [o \in Ops |-> Size]
    BY NoneLeft DEF Init
  <1> QED BY <1>2, <1>3 DEF Init, Direct!Init, Direct!T!Init, T!Init, Direct!AllClosed,
          AllClosed, Direct!SocketOf, SocketOf, Direct!Nothing, Nothing

DirectStep == Direct!Next \/ UNCHANGED Direct!vars

\* run_one() by itself does nothing a program can tell.
LEMMA LoopIsHidden ==
    ASSUME RunOne \/ Wake \/ TurnEnds \/ RunEnds \/ RunFails
    PROVE  DirectStep
  <1>1. target' = target /\ UNCHANGED <<table, socket, nonblocking>>
        /\ loop # "blocked" /\ loop' # "blocked"
    BY DEF RunOne, Wake, TurnEnds, RunEnds, RunFails
  <1>2. Waiting' = Waiting
    BY <1>1 DEF Waiting, Kind
  <1>3. Left' = Left
    BY <1>1 DEF Left
  <1> QED BY <1>1, <1>2, <1>3 DEF DirectStep, Direct!vars

LEMMA TurnKeeps == ASSUME Turn PROVE Left = [o \in Ops |-> Size] /\ Left' = Left
  BY DEF Turn, Running, Left

LEMMA MakeSocketDirect ==
    ASSUME NEW id \in Ids, NEW h \in Handles, NEW kind \in {"fresh", "listening"},
           MakeSocket(id, h, kind)
    PROVE  Direct!Next
  <1>1. Waiting' = Waiting /\ Left' = Left
    BY TurnKeeps DEF MakeSocket, Starting, Waiting, Kind
  <1>2. Direct!MakeSocket(id, h, kind)
    BY DEF MakeSocket, Direct!MakeSocket, Fresh, Direct!Fresh, SocketOf, Direct!SocketOf,
       T!Insert, Direct!T!Insert, T!Live, Direct!T!Live
  <1> QED BY <1>1, <1>2 DEF Direct!SocketStep, Direct!Next

LEMMA ReleaseDirect ==
    ASSUME IInv, NEW id \in Ids, Release(id), disciplined'
    PROVE  Direct!Next
  <1>1. Waiting' = Waiting /\ Left' = Left
    BY TurnKeeps DEF Release, Waiting, Kind
  <1>2. Direct!Users(id) = {}
    BY SameUsers DEF Release
  <1>3. Direct!Release(id)
    BY <1>2 DEF Release, Direct!Release, Close, Direct!Close, SocketOf, Direct!SocketOf,
       T!Erase, Direct!T!Erase, T!Live, Direct!T!Live
  <1> QED BY <1>1, <1>3 DEF Direct!SocketStep, Direct!Next

\* An operation that begins.
LEMMA Begun ==
    ASSUME IInv, NEW o \in Ops, NEW kind \in IoKinds, NEW id \in Ids,
           Engage(o, kind, id), disciplined'
    PROVE  /\ Direct!Usable(o, kind, id)
           /\ Await(o, kind, id) => Direct!Begin(o, [kind |-> kind, id |-> id])
  <1>1. Waiting[o] \in {Nothing, Stopped} /\ Turn /\ id \in T!Live /\ event[o] = "none"
        /\ table' = table
    BY WaitingIs DEF Engage, Starting
  <1>2. ASSUME NEW p \in Users(id) PROVE ~Compete(kind, Waiting[p].kind)
    BY <1>2, WaitingIs DEF Engage, Users, InFlight
  <1>3. Direct!Usable(o, kind, id)
    BY <1>1, <1>2, SameUsers DEF Direct!Usable, Direct!Nothing, Direct!Stopped, Nothing,
       Stopped,
       Direct!T!Live, T!Live, Direct!Compete, Compete, Direct!Reads, Reads, Direct!Writes,
       Writes
  <1>4. ASSUME Await(o, kind, id)
        PROVE  Waiting' = [Waiting EXCEPT ![o] = [kind |-> kind, id |-> id]]
    <2> DEFINE new == [kind |-> kind, id |-> id, handle |-> table[id]]
    <2>1. target' = [target EXCEPT ![o] = new]
      BY <1>4 DEF Await
    <2>2. new \in Targets
      BY <1>1 DEF Targets, IInv, Shape, TypeOK
    <2>3. target'[o] = new /\ \A p \in Ops \ {o} : target'[p] = target[p]
      BY <2>1 DEF IInv, Shape, TypeOK
    <2>4. Waiting' = [p \in Ops |-> IF target'[p] \in Targets
                                     THEN [kind |-> target'[p].kind, id |-> target'[p].id]
                                     ELSE target'[p]]
      BY DEF Waiting, Kind, Targets
    <2>5. Waiting'[o] = [kind |-> kind, id |-> id]
      BY <2>2, <2>3, <2>4
    <2>6. ASSUME NEW p \in Ops \ {o} PROVE Waiting'[p] = Waiting[p]
      BY <2>3, <2>4 DEF Waiting, Kind
    <2> QED BY <2>4, <2>5, <2>6 DEF Waiting
  <1> QED BY <1>1, <1>3, <1>4, TurnKeeps DEF Direct!Begin

LEMMA StartDirect ==
    ASSUME IInv, NEW o \in Ops, NEW id \in Ids, NEW kind \in {"accept", "receive", "send"},
           Start(o, kind, id), disciplined'
    PROVE  Direct!Next
  <1>1. Engage(o, kind, id) /\ Await(o, kind, id) /\ kind \in IoKinds
        /\ UNCHANGED <<socket, nonblocking>>
    BY DEF Start, IoKinds
  <1>2. Direct!Start(o, kind, id)
    BY <1>1, Begun DEF Direct!Start
  <1> QED BY <1>2 DEF Direct!Next

LEMMA ConnectDirect ==
    ASSUME IInv, NEW o \in Ops, NEW id \in Ids, NEW outcome \in {"error", "value", "progress"},
           Connect(o, id, outcome), disciplined'
    PROVE  DirectStep
  <1>1. Engage(o, "connect", id) /\ Turn /\ table' = table /\ "connect" \in IoKinds
    BY DEF Connect, Engage, Starting, IoKinds
  <1>2. /\ Direct!Usable(o, "connect", id)
        /\ Await(o, "connect", id) => Direct!Begin(o, [kind |-> "connect", id |-> id])
    BY <1>1, Begun
  <1>3. UNCHANGED <<event, target>> => Waiting' = Waiting /\ Left' = Left
    BY <1>1, TurnKeeps DEF Waiting, Kind
  <1>4. CASE UNCHANGED <<socket, nonblocking, event, target>>
    BY <1>1, <1>3, <1>4 DEF DirectStep, Direct!vars
  <1>5. CASE nonblocking' = nonblocking \cup {table[id]}
    <2>1. Direct!Connect(o, id)
      BY <1>1, <1>2, <1>3, <1>5 DEF Connect, Direct!Connect, Direct!SocketOf, SocketOf
    <2> QED BY <2>1 DEF DirectStep, Direct!Next
  <1> QED BY <1>4, <1>5 DEF Connect

\* The other states of operations do not change when one is over.
LEMMA OverDirect ==
    ASSUME IInv, NEW o \in Ops, NEW how \in {Nothing, Stopped}, Over(o, how),
           loop = "blocked" => o = stuck.op, loop' # "blocked"
    PROVE  Direct!Over(o, how)
  <1>1. target'[o] = how /\ \A p \in Ops \ {o} : target'[p] = target[p]
    BY DEF Over, IInv, Shape, TypeOK
  <1>2. how \notin Targets
    BY DEF Targets, Nothing, Stopped, IoKinds
  <1>3. Waiting' = [p \in Ops |-> IF target'[p] \in Targets
                                   THEN [kind |-> target'[p].kind, id |-> target'[p].id]
                                   ELSE target'[p]]
    BY DEF Waiting, Kind, Targets
  <1>4. Waiting'[o] = how /\ \A p \in Ops \ {o} : Waiting'[p] = Waiting[p]
    BY <1>1, <1>2, <1>3 DEF Waiting, Kind
  <1>5. Waiting' = [Waiting EXCEPT ![o] = how]
    BY <1>3, <1>4 DEF Waiting
  <1>6. Left' = [Left EXCEPT ![o] = Size]
    BY DEF Left
  <1> QED BY <1>5, <1>6 DEF Direct!Over

LEMMA ResumeDirect == ASSUME IInv, NEW o \in Ops, Resume(o) PROVE Direct!Next
  <1>1. Waiting[o] \in {Nothing, Stopped} /\ Turn
    BY WaitingIs DEF Resume, Starting
  <1>2. target'[o] = Timer /\ \A p \in Ops \ {o} : target'[p] = target[p]
    BY DEF Resume, IInv, Shape, TypeOK
  <1>3. Waiting' = [p \in Ops |-> IF target'[p] \in Targets
                                   THEN [kind |-> target'[p].kind, id |-> target'[p].id]
                                   ELSE target'[p]]
    BY DEF Waiting, Kind, Targets
  <1>4. Timer \notin Targets
    BY DEF Targets, Timer, IoKinds
  <1>5. Waiting' = [Waiting EXCEPT ![o] = Timer]
    BY <1>2, <1>3, <1>4 DEF Waiting, Kind
  <1>6. Direct!Resume(o)
    BY <1>1, <1>5, TurnKeeps DEF Resume, Direct!Resume, Direct!Begin, Direct!Nothing, Nothing,
       Direct!Stopped, Stopped, Direct!Timer, Timer
  <1> QED BY <1>6 DEF Direct!Next

LEMMA CancelDirect == ASSUME IInv, NEW o \in Ops, Cancel(o) PROVE Direct!Next
  <1>1. Waiting[o] \notin {Nothing, Stopped} /\ loop # "blocked" /\ loop' # "blocked"
        /\ Over(o, Stopped) /\ UNCHANGED <<table, socket, nonblocking>>
    BY WaitingIs DEF Cancel, Turn, Running
  <1>2. Direct!Over(o, Stopped)
    BY <1>1, OverDirect
  <1>3. Direct!Stop(o)
    BY <1>1, <1>2 DEF Direct!Stop, Direct!Untouched, Direct!Nothing, Nothing,
       Direct!Stopped, Stopped
  <1> QED BY <1>3 DEF Direct!Next
-----------------------------------------------------------------------------
\* A system call that is made when it would not block.
LEMMA AcceptDirect ==
    ASSUME IInv, NEW o, NEW h, Called(o, h), Kind(o) = "accept", Kept, RipeFor("accept",
    socket[h]),
           AcceptWork(o, h)
    PROVE  Direct!Accept(o, h) /\ Return(o)
  <1>1. socket[h].kind = "listening" => socket[h].in > 0 /\ socket[h].in # 0
    BY CalledTyped DEF RipeFor
  <1>2. CASE /\ socket[h].kind = "listening" /\ socket[h].in > 0
             /\ \E i \in Ids, k \in Handles :
                   /\ socket[k].kind = "closed"
                   /\ socket' = [socket EXCEPT ![h].in = @ - 1, ![k] = SocketOf("connected")]
                   /\ T!Insert(i, k)
             /\ Return(o)
             /\ UNCHANGED nonblocking
    BY <1>2 DEF Direct!Accept, Direct!SocketOf, SocketOf,
       T!Insert, Direct!T!Insert, T!Live, Direct!T!Live
  <1>3. CASE /\ socket[h].kind = "listening" => \A k \in Handles : socket[k].kind # "closed"
             /\ Return(o)
             /\ UNCHANGED <<table, socket, nonblocking>>
    BY <1>1, <1>3 DEF Direct!Accept, Direct!Untouched
  <1> QED BY <1>1, <1>2, <1>3 DEF AcceptWork

LEMMA ReceiveDirect ==
    ASSUME IInv, NEW o, NEW h, Called(o, h), RipeFor("receive", socket[h]), ReceiveWork(o, h)
    PROVE  Direct!Receive(h) /\ Return(o)
  <1>1. socket[h] \in Sockets /\ h \in Handles
    BY CalledTyped
  <1>2. socket[h].in \in Nat /\ ~(socket[h].kind \in {"connected", "connecting"}
                                 /\ socket[h].in = 0 /\ ~socket[h].gone)
    BY <1>1, KernelAssumption DEF Sockets, RipeFor
  <1>3. /\ socket' = [socket EXCEPT ![h].in =
                          IF socket[h].kind = "connected" /\ @ > 0 THEN @ - 1 ELSE @]
        /\ Return(o) /\ UNCHANGED <<table, nonblocking>>
    BY <1>2 DEF ReceiveWork
  <1>4. CASE socket[h].kind = "connected" /\ socket[h].in > 0
    BY <1>3, <1>4 DEF Direct!Receive
  <1>5. CASE ~(socket[h].kind = "connected" /\ socket[h].in > 0)
    <2>1. socket' = socket
      BY <1>1, <1>3, <1>5 DEF IInv, Shape, TypeOK, Sockets
    <2> QED BY <1>2, <1>3, <1>5, <2>1 DEF Direct!Receive, RipeFor
  <1> QED BY <1>4, <1>5

LEMMA SendDirect ==
    ASSUME IInv, NEW o, NEW h, Called(o, h), Kind(o) = "send", Kept, RipeFor("send", socket[h]),
           SendWork(o, h)
    PROVE  Direct!Send(o, h)
  <1> DEFINE connected == socket[h].kind = "connected" /\ ~socket[h].gone
             rest == IF loop = "blocked" THEN stuck.left ELSE Size
             taken == IF socket[h].room < rest THEN socket[h].room ELSE rest
  <1>1. socket[h] \in Sockets /\ h \in Handles /\ o \in Ops
    BY CalledTyped DEF Called
  <1>2. rest \in Nat \ {0} /\ socket[h].room \in Nat
    BY <1>1, KernelAssumption DEF Sockets, IInv, Shape, TypeOK, Nobody, Kept, Sending
  <1>3. Left[o] = rest
    BY <1>1 DEF Left, Called
  <1>4. connected => socket[h].room > 0
    BY <1>1, <1>2 DEF RipeFor, Sockets
  <1>5. connected => /\ taken \in 1..rest
                     /\ taken = socket[h].room \/ (taken = rest /\ taken <= socket[h].room)
    BY <1>2, <1>4
  <1>6. Return(o) => Direct!Over(o, Nothing)
    BY <1>1, OverDirect DEF Return, Called
  <1>7. CASE /\ connected
             /\ socket' = [socket EXCEPT ![h].room = @ - taken]
             /\ UNCHANGED <<table, nonblocking>>
             /\ \/ /\ h \in nonblocking \/ taken = rest
                   /\ Return(o)
                \/ /\ h \notin nonblocking /\ taken < rest
                   /\ loop' = "blocked"
                   /\ stuck' = [op |-> o, left |-> rest - taken]
                   /\ UNCHANGED <<event, target>>
    <2> HIDE DEF taken, rest
    <2>1. CASE (h \in nonblocking \/ taken = rest) /\ Return(o)
      BY <1>3, <1>5, <1>6, <1>7, <2>1 DEF Direct!Send, Direct!Nothing, Nothing
    <2>2. CASE /\ h \notin nonblocking /\ taken < rest
               /\ loop' = "blocked"
               /\ stuck' = [op |-> o, left |-> rest - taken]
               /\ UNCHANGED <<event, target>>
      <3>1. Waiting' = Waiting
        BY <2>2 DEF Waiting, Kind
      <3>2. Left' = [Left EXCEPT ![o] = @ - taken]
        <4>1. \A p \in Ops : Left[p] = IF p = o THEN rest ELSE Size
          BY <1>3 DEF Left, Called
        <4>2. Left' = [p \in Ops |-> IF p = o THEN rest - taken ELSE Size]
          BY <2>2 DEF Left
        <4> QED BY <1>1, <4>1, <4>2 DEF Left
      <3>3. taken # rest
        BY <1>5, <1>7, <1>2, <2>2
      <3> QED BY <1>3, <1>5, <1>7, <2>2, <3>1, <3>2, <3>3 DEF Direct!Send
    <2> QED BY <1>7, <2>1, <2>2
  <1>8. CASE ~connected /\ socket[h].kind # "connecting" /\ Return(o)
             /\ UNCHANGED <<table, socket, nonblocking>>
    BY <1>6, <1>8 DEF Direct!Send, Direct!Untouched, Direct!Nothing, Nothing
  <1>9. socket[h].kind # "connecting" /\ ~(connected /\ taken = 0)
    BY <1>5 DEF RipeFor
  <1> QED BY <1>7, <1>8, <1>9 DEF SendWork

LEMMA IoDirect ==
    ASSUME IInv, Kept, NEW o, NEW h, Called(o, h), Ripe(o), IoWork(o, h)
    PROVE  Direct!Next
  <1>1. /\ o \in Ops /\ h = table[target[o].id] /\ h = target[o].handle
        /\ RipeFor(Kind(o), socket[h])
        /\ Waiting[o].kind = Kind(o) /\ Waiting[o].id = target[o].id
    <2>1. o \in Ops /\ target[o] \in Targets /\ h = table[target[o].id]
      BY DEF Called
    <2>2. h = target[o].handle
      BY CalledTyped
    <2>3. Waiting[o] = [kind |-> Kind(o), id |-> target[o].id]
      BY <2>1, WaitingIs
    <2> QED BY <2>1, <2>2, <2>3 DEF Ripe
  <1>2. Return(o) => Direct!Over(o, Nothing)
    BY <1>1, OverDirect DEF Return, Called
  <1>3. Direct!Call(o, h)
    <2>1. CASE Kind(o) = "accept" /\ AcceptWork(o, h)
      BY <1>1, <1>2, <2>1, AcceptDirect DEF Direct!Call, Direct!Nothing, Nothing
    <2>2. CASE Kind(o) = "receive" /\ ReceiveWork(o, h)
      BY <1>1, <1>2, <2>2, ReceiveDirect DEF Direct!Call, Direct!Nothing, Nothing
    <2>3. CASE Kind(o) = "send" /\ SendWork(o, h)
      BY <1>1, <2>3, SendDirect DEF Direct!Call
    <2>4. CASE Kind(o) = "connect" /\ ConnectWork(o)
      BY <1>1, <1>2, <2>4 DEF Direct!Call, Direct!Untouched, ConnectWork, RipeFor,
         Direct!Nothing, Nothing
    <2> QED BY <2>1, <2>2, <2>3, <2>4 DEF IoWork
  <1> QED BY <1>1, <1>3 DEF Direct!Next

LEMMA WorkDirect == ASSUME IInv, IInv', disciplined', NEW o \in Ops, Work(o) PROVE Direct!Next
  <1>1. /\ loop \in {"woken", "dispatching"} /\ event[o] = "active" /\ Kept /\ Kept'
    BY DEF Work, IInv
  <1>2. CASE o \in Timers /\ ResumeWork(o)
    <2>1. Direct!Over(o, Nothing) /\ Waiting[o] = Timer
      <3>1. target[o] = Timer /\ Timer \notin Targets
        BY <1>2 DEF Timers, Timer, Targets, IoKinds
      <3> QED BY <1>1, <1>2, <3>1, OverDirect, WaitingIs DEF ResumeWork, Return
    <2>2. Direct!Elapse(o)
      BY <1>2, <2>1 DEF ResumeWork, Direct!Elapse, Direct!Untouched, Direct!Nothing, Nothing,
         Direct!Timer, Timer
    <2> QED BY <2>2 DEF Direct!Next
  <1>3. CASE o \notin Timers /\ target[o].id \in T!Live /\ IoWork(o, table[target[o].id])
    <2>1. target[o] \in Targets /\ o \in Active \ Timers
      BY <1>1, <1>3, WaitingIs DEF InFlight, Active
    <2>2. Called(o, table[target[o].id])
      BY <1>1, <1>3, <2>1 DEF Called
    <2>3. Ripe(o)
      BY <1>1, <2>1 DEF Kept, AllRipe
    <2> QED BY <1>1, <1>3, <2>2, <2>3, IoDirect
  <1>4. CASE loop' = "terminated"
    BY <1>1, <1>4 DEF Kept
  <1> QED BY <1>2, <1>3, <1>4 DEF Work

LEMMA UnblockDirect == ASSUME IInv, disciplined', Unblock PROVE Direct!Next
  <1> DEFINE o == stuck.op
             h == table[target[o].id]
  <1>1. Called(o, h) /\ Kept
    BY DEF Unblock, Called, IInv, Shape, StuckSound
  <1>2. /\ Kind(o) = "send" /\ socket[h].kind = "connected"
        /\ socket[h].gone \/ socket[h].room > 0
        /\ h = target[o].handle /\ IoWork(o, h)
    BY <1>1, CalledTyped DEF Unblock, Kept, Sending
  <1> HIDE DEF o, h
  <1>3. Ripe(o)
    BY <1>2 DEF Ripe, RipeFor
  <1> QED BY <1>1, <1>2, <1>3, IoDirect

LEMMA PeerDirect == ASSUME PeerStep PROVE Direct!Next
  <1>1. Waiting' = Waiting /\ Left' = Left
    BY DEF PeerStep, Waiting, Kind, Left
  <1> QED BY <1>1 DEF PeerStep, Direct!SocketStep, Direct!Next, Peer, Direct!Peer,
                  SocketOf, Direct!SocketOf

LEMMA NextDirect == ASSUME IInv, IInv', disciplined', [Next]_vars PROVE DirectStep
  <1>1. CASE UNCHANGED vars
    BY <1>1 DEF vars, DirectStep, Direct!vars, Waiting, Kind, Left
  <1>2. CASE ProgramStep
    BY <1>2, MakeSocketDirect, ReleaseDirect, StartDirect, ConnectDirect, ResumeDirect,
       CancelDirect
       DEF ProgramStep, DirectStep
  <1>3. CASE LoopStep
    BY <1>3, LoopIsHidden, WorkDirect, UnblockDirect DEF LoopStep, DirectStep
  <1>4. CASE RunEnds \/ RunFails
    BY <1>4, LoopIsHidden
  <1>5. CASE PeerStep
    BY <1>5, PeerDirect DEF DirectStep
  <1> QED BY <1>1, <1>2, <1>3, <1>4, <1>5, NextParts

(***************************************************************************)
(* The context implements AsyncSockets as long as the program is           *)
(* disciplined: each step of it - a callback between others of its batch,  *)
(* a blocked send that goes on - is the step that the operation's system   *)
(* call would have been by itself, on the socket it was started for, or is *)
(* not seen.                                                               *)
(***************************************************************************)
THEOREM ContextActsDirectly == Spec => ActsDirectly
  <1>1. Init => Direct!Init
    BY DirectInit
  <1>2. IInv /\ IInv' /\ [Next]_vars => [disciplined' => Direct!Next]_(Direct!vars)
    BY NextDirect DEF DirectStep
  <1> QED BY <1>1, <1>2, Invariance, PTL DEF Spec, ActsDirectly

\* A program that is disciplined throughout cannot tell the event loop from
\* operations with threads of their own.
THEOREM DisciplinedIsDirect == Spec /\ []disciplined => Direct!Spec
  <1>1. ActsDirectly /\ []disciplined => Direct!Spec
    BY PTL DEF ActsDirectly, Direct!Spec
  <1> QED BY <1>1, ContextActsDirectly, PTL

-----------------------------------------------------------------------------
(***************************************************************************)
(* What is ready stays so.                                                 *)
(***************************************************************************)
\* An operation on a socket that stays as readable and as writable as it was.
LEMMA StillReady ==
    ASSUME NEW p, target'[p] = target[p], Ready(p),
           Kind(p) \in Reads /\ Readable(target[p].handle) => Readable(target[p].handle)',
           Kind(p) \in Writes /\ Writable(target[p].handle) => Writable(target[p].handle)'
    PROVE  Ready(p)'
  BY DEF Ready, Kind, Readable, Writable

LEMMA SameSocket ==
    ASSUME NEW p, target'[p] = target[p], Ready(p),
           socket'[target[p].handle] = socket[target[p].handle]
    PROVE  Ready(p)'
  BY StillReady DEF Readable, Writable

\* Operations in flight watch open sockets, that the one called back has for
\* itself but for the other direction.
LEMMA Elsewhere ==
    ASSUME IInv, Kept, NEW p \in InFlight \ Timers
    PROVE  /\ target[p].handle \in Handles /\ Kind(p) \in IoKinds
           /\ socket[target[p].handle].kind # "closed"
           /\ target[p].id \in T!Live /\ target[p].handle = table[target[p].id]
           /\ \A o, h : Called(o, h) /\ o # p /\ target[p].handle = h
                 => ~Compete(Kind(o), Kind(p))
  <1>1. Watched(p) /\ Kind(p) \in IoKinds
    BY WaitingIs DEF Kept, Watching, InFlight
  <1>2. /\ target[p].handle \in Handles
        /\ socket[target[p].handle].kind # "closed"
    BY <1>1 DEF Watched, IInv, Shape, TypeOK
  <1>3. ASSUME NEW o, NEW h, Called(o, h), o # p, target[p].handle = h
        PROVE  ~Compete(Kind(o), Kind(p))
    <2>1. o \in InFlight \ Timers
      BY <1>3, CalledTyped
    <2>2. target[p].id = target[o].id
      BY <1>1, <1>3 DEF Watched, Called, IInv, Shape, Injective
    <2> QED BY <1>3, <2>1, <2>2 DEF Kept, Apart
  <1> QED BY <1>1, <1>2, <1>3 DEF Watched

LEMMA CallKeepsOthers ==
    ASSUME IInv, Kept, NEW o, NEW h, Called(o, h), IoWork(o, h),
           NEW p \in InFlight \ Timers, p # o, Ready(p)
    PROVE  Ready(p)'
  <1> DEFINE g == target[p].handle
  <1>1. /\ g \in Handles /\ Kind(p) \in IoKinds /\ socket[g].kind # "closed"
        /\ g = h => ~Compete(Kind(o), Kind(p))
    BY Elsewhere
  <1>2. h \in Handles /\ socket[h] \in Sockets /\ o \in Ops /\ p \in Ops
    BY CalledTyped DEF Called, InFlight
  <1>3. target' = target \/ target' = [target EXCEPT ![o] = Nothing]
    BY DEF IoWork, AcceptWork, ReceiveWork, SendWork, ConnectWork, WouldBlock, Return, Over
  <1>4. target'[p] = target[p]
    BY <1>2, <1>3 DEF IInv, Shape, TypeOK
  <1>5. CASE socket'[g] = socket[g]
    BY <1>4, <1>5, SameSocket
  <1>6. CASE Kind(o) = "accept" /\ AcceptWork(o, h)
    <2>1. CASE socket[h].kind = "listening" /\ g = h
      <3>1. Kind(p) = "send"
        BY <1>1, <1>6, <2>1 DEF Compete, Reads, IoKinds
      <3> QED BY <2>1, <3>1 DEF Ready, Reads, Writable
    <2>2. CASE ~(socket[h].kind = "listening" /\ g = h)
      <3>1. socket'[g] = socket[g]
        BY <1>1, <1>2, <1>6, <2>2 DEF AcceptWork, WouldBlock, IInv, Shape, TypeOK
      <3> QED BY <3>1, <1>5
    <2> QED BY <2>1, <2>2
  <1>7. CASE Kind(o) = "receive" /\ ReceiveWork(o, h)
    <2>1. CASE g = h
      <3>1. Kind(p) = "send"
        BY <1>1, <1>7, <2>1 DEF Compete, Reads, IoKinds
      <3>2. /\ socket'[g].kind = socket[g].kind /\ socket'[g].room = socket[g].room
            /\ socket'[g].gone = socket[g].gone
        BY <1>2, <1>7, <2>1 DEF ReceiveWork, WouldBlock, IInv, Shape, TypeOK, Sockets
      <3> QED BY <1>4, <3>1, <3>2, StillReady DEF Reads, Writable
    <2>2. CASE g # h
      <3>1. socket'[g] = socket[g]
        BY <1>1, <1>2, <1>7, <2>2 DEF ReceiveWork, WouldBlock, IInv, Shape, TypeOK
      <3> QED BY <3>1, <1>5
    <2> QED BY <2>1, <2>2
  <1>8. CASE Kind(o) = "send" /\ SendWork(o, h)
    <2>1. CASE g = h
      <3>1. Kind(p) \notin Writes
        BY <1>1, <1>8, <2>1 DEF Compete, Writes
      <3>2. /\ socket'[g].kind = socket[g].kind /\ socket'[g].in = socket[g].in
            /\ socket'[g].gone = socket[g].gone
        BY <1>2, <1>8, <2>1 DEF SendWork, WouldBlock, IInv, Shape, TypeOK, Sockets
      <3> QED BY <1>4, <3>1, <3>2, StillReady DEF Readable
    <2>2. CASE g # h
      <3>1. socket'[g] = socket[g]
        BY <1>1, <1>2, <1>8, <2>2 DEF SendWork, WouldBlock, IInv, Shape, TypeOK
      <3> QED BY <3>1, <1>5
    <2> QED BY <2>1, <2>2
  <1>9. CASE Kind(o) = "connect" /\ ConnectWork(o)
    BY <1>5, <1>9 DEF ConnectWork
  <1> QED BY <1>6, <1>7, <1>8, <1>9 DEF IoWork

\* The operation itself is over, or blocks.
LEMMA CallEnds ==
    ASSUME IInv, Kept', NEW o, NEW h, Called(o, h), IoWork(o, h)
    PROVE  event'[o] = "none" \/ (loop' = "blocked" /\ o = stuck'.op)
  <1>1. o \in Ops /\ event \in [Ops -> Events] /\ event'[o] # "lost"
    BY DEF Called, IInv, Shape, TypeOK, Kept
  <1>2. Return(o) => event'[o] = "none"
    BY <1>1 DEF Return, Over
  <1>3. WouldBlock(o, h) => loop' = "blocked" /\ o = stuck'.op
    BY <1>1 DEF WouldBlock
  <1> QED BY <1>2, <1>3 DEF IoWork, AcceptWork, ReceiveWork, SendWork, ConnectWork

\* The property of one step, for one operation.
Steady(p) == Ready(p) /\ event'[p] # "none" => Ready(p)' \/ (loop' = "blocked" /\ p = stuck'.op)

LEMMA CallSteady ==
    ASSUME IInv, Kept, Kept', NEW o, NEW h, Called(o, h), IoWork(o, h),
           NEW p \in InFlight \ Timers
    PROVE  Steady(p)
  BY CallKeepsOthers, CallEnds DEF Steady

LEMMA ProgramSteady ==
    ASSUME IInv, IInv', disciplined', ProgramStep, NEW p \in InFlight \ Timers
    PROVE  Steady(p)
  <1> DEFINE g == target[p].handle
  <1>1. /\ p \in Ops /\ event[p] # "none"
        /\ target \in [Ops -> Targets \cup {Timer, Nothing, Stopped}]
        /\ event \in [Ops -> Events] /\ socket \in [Handles -> Sockets]
    BY DEF InFlight, IInv, Shape, TypeOK
  <1>2. ASSUME Kept, target'[p] = target[p], socket'[g] = socket[g] PROVE Steady(p)
    BY <1>2, SameSocket DEF Steady
  <1>3. ASSUME NEW id \in Ids, NEW h \in Handles, NEW kind \in {"fresh", "listening"},
               MakeSocket(id, h, kind)
        PROVE  Steady(p)
    <2>1. Kept
      BY <1>3 DEF MakeSocket, Starting, IInv
    <2>2. g \in Handles /\ g # h
      BY <1>3, <2>1, Elsewhere DEF MakeSocket, Fresh
    <2> QED BY <1>1, <1>2, <1>3, <2>1, <2>2 DEF MakeSocket, Fresh
  <1>4. ASSUME NEW id \in Ids, Release(id) PROVE Steady(p)
    <2>1. Kept /\ Users(id) = {} /\ id \in T!Live
      BY <1>4 DEF Release, IInv, T!Erase
    <2>2. g \in Handles /\ g # table[id]
      BY <2>1, Elsewhere DEF Users, IInv, Shape, Injective
    <2> QED BY <1>1, <1>2, <1>4, <2>1, <2>2 DEF Release, Close
  <1>5. ASSUME NEW o \in Ops, NEW id \in Ids, NEW kind \in {"accept", "receive", "send"},
               Start(o, kind, id)
        PROVE  Steady(p)
    BY <1>1, <1>2, <1>5 DEF Start, Engage, Starting, Await, IInv
  <1>6. ASSUME NEW o \in Ops, NEW id \in Ids, NEW outcome \in {"error", "value", "progress"},
               Connect(o, id, outcome)
        PROVE  Steady(p)
    <2>1. Kept /\ Users(id) = {} /\ id \in T!Live /\ o # p
      BY <1>1, <1>6, ConnectAlone DEF Connect, Engage
    <2>2. g \in Handles /\ g # table[id]
      BY <2>1, Elsewhere DEF Users, IInv, Shape, Injective
    <2>3. target'[p] = target[p]
      BY <1>1, <1>6, <2>1 DEF Connect, Await
    <2>4. socket'[g] = socket[g]
      BY <1>1, <1>6, <2>2 DEF Connect
    <2> QED BY <1>2, <2>1, <2>3, <2>4
  <1>7. ASSUME NEW o \in Ops, Resume(o) PROVE Steady(p)
    BY <1>1, <1>2, <1>7 DEF Resume, Starting, IInv
  <1>8. ASSUME NEW o \in Ops, Cancel(o) PROVE Steady(p)
    <2>1. o # p \/ event'[p] = "none"
      BY <1>1, <1>8 DEF Cancel, Over
    <2>2. o # p => target'[p] = target[p] /\ Kept /\ socket' = socket
      BY <1>1, <1>8 DEF Cancel, Over, IInv
    <2> QED BY <1>2, <2>1, <2>2 DEF Steady
  <1> QED BY <1>3, <1>4, <1>5, <1>6, <1>7, <1>8 DEF ProgramStep

LEMMA PeerSteady ==
    ASSUME IInv, PeerStep, NEW p \in InFlight \ Timers
    PROVE  Steady(p)
  <1> SUFFICES ASSUME Ready(p) PROVE Ready(p)'
    BY DEF Steady
  <1>1. target' = target /\ socket \in [Handles -> Sockets] /\ MaxRoom \in Nat \ {0}
    BY KernelAssumption DEF PeerStep, IInv, Shape, TypeOK
  <1>2. PICK h \in Handles : Peer(h)
    BY DEF PeerStep
  <1> DEFINE g == target[p].handle
  <1>3. CASE g # h
    <2>1. PICK s : socket' = [socket EXCEPT ![h] = s]
      BY <1>1, <1>2 DEF Peer
    <2>2. socket'[g] = socket[g]
      BY <2>1, <1>3
    <2> QED BY <1>1, <2>2, SameSocket
  <1>4. CASE g = h
    <2>1. socket[h] \in Sockets /\ (socket[h].gone => socket[h].kind = "connected")
          /\ (socket[h].in > 0 => socket[h].kind \in {"listening", "connected"})
      BY <1>1 DEF IInv, Shape, Quiet
    <2>2. socket[h].in \in Nat /\ socket[h].room \in Nat
      BY <2>1, <1>1, KernelAssumption DEF Sockets
    <2>3. CASE socket[h].kind = "connecting"
      BY <1>4, <2>1, <2>2, <2>3 DEF Ready, Readable, Writable
    <2>4. CASE socket[h].kind # "connecting"
      <3>1. /\ socket'[h].kind = socket[h].kind
            /\ socket[h].in > 0 => socket'[h].in > 0
            /\ socket[h].room > 0 => socket'[h].room > 0
            /\ socket[h].gone => socket'[h].gone
        BY <1>1, <1>2, <2>1, <2>2, <2>4 DEF Peer, Sockets
      <3> QED BY <1>1, <1>4, <3>1, StillReady DEF Readable, Writable
    <2> QED BY <2>3, <2>4
  <1> QED BY <1>3, <1>4

LEMMA StepSteady ==
    ASSUME IInv, IInv', disciplined', [Next]_vars, NEW p \in InFlight \ Timers
    PROVE  Steady(p)
  <1>1. CASE UNCHANGED <<socket, target>>
    BY <1>1, SameSocket DEF Steady
  <1>2. CASE ProgramStep
    BY <1>2, ProgramSteady
  <1>3. ASSUME NEW o \in Ops, Work(o) PROVE Steady(p)
    <2>1. Kept /\ Kept' /\ event[o] = "active"
      BY <1>3 DEF Work, IInv
    <2>2. CASE o \in Timers /\ ResumeWork(o)
      <3>1. socket' = socket /\ target' = [target EXCEPT ![o] = Nothing] /\ p # o /\ p \in Ops
        BY <2>2 DEF ResumeWork, Return, Over, InFlight
      <3>2. target'[p] = target[p]
        BY <3>1 DEF IInv, Shape, TypeOK
      <3> QED BY <3>1, <3>2, SameSocket DEF Steady
    <2>3. CASE o \notin Timers /\ target[o].id \in T!Live /\ IoWork(o, table[target[o].id])
      <3>1. target[o] \in Targets
        BY <2>1, <2>3, WaitingIs DEF InFlight
      <3>2. Called(o, table[target[o].id])
        BY <1>3, <2>1, <2>3, <3>1 DEF Called, Work
      <3> QED BY <2>1, <2>3, <3>2, CallSteady
    <2>4. CASE loop' = "terminated"
      BY <2>1, <2>4 DEF Kept
    <2> QED BY <1>3, <2>2, <2>3, <2>4 DEF Work
  <1>4. CASE Unblock
    <2> DEFINE o == stuck.op
               h == table[target[o].id]
    <2>1. Called(o, h) /\ IoWork(o, h) /\ Kept /\ Kept'
      BY <1>4 DEF Unblock, Called, IInv, Shape, StuckSound
    <2> HIDE DEF o, h
    <2> QED BY <2>1, CallSteady
  <1>5. CASE PeerStep
    BY <1>5, PeerSteady
  <1> QED BY <1>1, <1>2, <1>3, <1>4, <1>5, NextParts
          DEF LoopStep, RunOne, RunEnds, RunFails, Wake, TurnEnds, vars

\* What libevent reported stays true until the callback acts on it: the other
\* callbacks of the batch, the program and the peers take nothing from it.
THEOREM ReadyStaysReady == Spec => StaysReady
  <1>1. IInv /\ IInv' /\ [Next]_vars =>
          [disciplined' => \A o \in InFlight \ Timers :
              Ready(o) /\ event'[o] # "none"
                 => Ready(o)' \/ (loop' = "blocked" /\ o = stuck'.op)]_vars
    BY StepSteady DEF Steady
  <1> QED BY <1>1, Invariance, PTL DEF Spec, StaysReady

-----------------------------------------------------------------------------
\* The part of the context that Container plays: whatever the program does,
\* the table changes as SocketTable says, which Container implements.
THEOREM ContextUsesTable == Spec => T!Spec
  <1>1. Init => T!Init
    BY DEF Init
  <1>2. [Next]_vars => [T!Next]_table
    <2>1. ASSUME NEW o, NEW h, IoWork(o, h) PROVE [T!Next]_table
      BY <2>1 DEF IoWork, AcceptWork, ReceiveWork, SendWork, ConnectWork, WouldBlock, T!Next
    <2>2. CASE ProgramStep
      BY <2>2 DEF ProgramStep, MakeSocket, Release, Start, Connect, Engage, Resume, Cancel,
                  T!Next
    <2>3. CASE LoopStep \/ RunEnds \/ RunFails \/ PeerStep
      <3>1. CASE Unblock
        <4>1. PICK o, h : IoWork(o, h)
          BY <3>1 DEF Unblock
        <4> QED BY <2>1, <4>1
      <3> QED BY <2>1, <2>3, <3>1 DEF LoopStep, RunOne, RunEnds, RunFails, Wake, TurnEnds,
                                     Work, ResumeWork, PeerStep
    <2>4. CASE UNCHANGED vars
      BY <2>4 DEF vars
    <2> QED BY <2>2, <2>3, <2>4, NextParts
  <1> QED BY <1>1, <1>2, PTL DEF Spec, T!Spec
=============================================================================
