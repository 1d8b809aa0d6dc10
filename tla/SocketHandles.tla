---------------------------- MODULE SocketHandles ----------------------------
(***************************************************************************)
(* Who owns the sockets of a context: acceptors (basic_socket_acceptor)    *)
(* and streams (basic_stream_socket, basic_socket) hold the _Socket_id of  *)
(* a slot of the context's Container through construction, moves, open(),  *)
(* close() and destruction.  Each constructor, destructor and member       *)
(* function is one step; all run on one thread.                            *)
(***************************************************************************)
EXTENDS Integers, FiniteSets

CONSTANTS
    Acceptors,  \* basic_socket_acceptor objects
    Streams,    \* basic_stream_socket objects
    Handles,    \* the native handles the kernel can give out
    MaxSlots    \* bound: the container does not grow beyond it

ASSUME SlotsAssumption == MaxSlots \in Nat
ASSUME ObjectsAssumption == Acceptors \cap Streams = {}

VARIABLES
    slots, size, free, open,  \* the container and the kernel: see Container
    id,         \* _D_id of each object
    life,       \* whether the object exists
    terminated, \* std::terminate() was called
    called      \* history: which of open() and close() the program has called

container == <<slots, size, free, open>>
vars == <<slots, size, free, open, id, life, terminated, called>>

C == INSTANCE Container

Objects == Acceptors \cup Streams

Invalid == -1

Ids == {Invalid} \cup 0..MaxSlots-1

TypeOK == /\ C!TypeOK
          /\ id \in [Objects -> Ids]
          /\ life \in [Objects -> {"unborn", "alive", "failed", "dead"}]
          /\ terminated \in BOOLEAN
          /\ called \subseteq {"open", "close"}

Init == /\ C!Init
        /\ id = [o \in Objects |-> Invalid]
        /\ life = [o \in Objects |-> "unborn"]
        /\ terminated = FALSE
        /\ called = {}

IsOpen(o) == id[o] # Invalid

-----------------------------------------------------------------------------
\* An object is born with the id that _Insert returns: the head of the free
\* list, or the end of the vector.
Born(o, h) ==
    /\ life[o] = "unborn"
    /\ C!MakeSocket(h)
    /\ life' = [life EXCEPT ![o] = "alive"]
    /\ id' = [id EXCEPT ![o] = free]
    /\ UNCHANGED <<terminated, called>>

\* The acceptor's constructor: open(), set_option(), bind() and listen() ...
ConstructAcceptor(a, h) == Born(a, h)

\* ... of which the last three may throw; no destructor runs then.  (When
\* open() throws, nothing has happened.)
ConstructionFails(a, h) ==
    /\ life[a] = "unborn"
    /\ C!MakeSocket(h)
    /\ life' = [life EXCEPT ![a] = "failed"]
    /\ UNCHANGED <<id, terminated, called>>

ConstructStream(s, h) == Born(s, h)

\* async_accept completes with a stream for the accepted connection.
Accept(a, s, h) ==
    /\ life[a] = "alive"
    /\ id[a] \in C!Used
    /\ Born(s, h)

\* As a bug: the id is copied and not exchanged.
MoveCopies(s, t) ==
    /\ life[s] = "alive"
    /\ life[t] = "unborn"
    /\ life' = [life EXCEPT ![t] = "alive"]
    /\ id' = [id EXCEPT ![t] = id[s]]
    /\ UNCHANGED <<slots, size, free, open, terminated, called>>

Move(s, t) ==
    /\ life[s] = "alive"
    /\ life[t] = "unborn"
    /\ life' = [life EXCEPT ![t] = "alive"]
    /\ id' = [id EXCEPT ![s] = Invalid, ![t] = id[s]]
    /\ UNCHANGED <<slots, size, free, open, terminated, called>>

\* _Release by a destructor: what std::get throws there ends the program.
ReleaseNoexcept(n) ==
    IF n \in C!Used
    THEN C!Release(n) /\ UNCHANGED terminated
    ELSE terminated' = TRUE /\ UNCHANGED container

\* As a bug: the destructor leaves the socket.
DestroyLeaks(o) ==
    /\ life[o] = "alive"
    /\ life' = [life EXCEPT ![o] = "dead"]
    /\ UNCHANGED <<container, terminated, id, called>>

Destroy(o) ==
    /\ life[o] = "alive"
    /\ life' = [life EXCEPT ![o] = "dead"]
    /\ IF IsOpen(o) THEN ReleaseNoexcept(id[o]) ELSE UNCHANGED <<container, terminated>>
    /\ UNCHANGED <<id, called>>

-----------------------------------------------------------------------------
\* open() makes a socket, whether or not it reports already_open first.
Open(a, h) ==
    /\ life[a] = "alive"
    /\ C!MakeSocket(h)
    /\ id' = [id EXCEPT ![a] = free]
    /\ called' = called \cup {"open"}
    /\ UNCHANGED <<life, terminated>>

\* open() when socket() fails.
OpenFails(a) ==
    /\ life[a] = "alive"
    /\ id' = [id EXCEPT ![a] = Invalid]
    /\ called' = called \cup {"open"}
    /\ UNCHANGED <<container, life, terminated>>

\* As a bug: _Release erases without the checked lookup before it.
CloseUnchecked(a) ==
    /\ life[a] = "alive"
    /\ IsOpen(a)
    /\ C!Erase(id[a])
    /\ open' = open \ {slots[id[a]].value}
    /\ called' = called \cup {"close"}
    /\ UNCHANGED <<id, life, terminated>>

\* close() releases the id and keeps it; closed twice, std::get throws.
Close(a) ==
    /\ life[a] = "alive"
    /\ IsOpen(a)
    /\ id[a] \in C!Used
    /\ C!Release(id[a])
    /\ called' = called \cup {"close"}
    /\ UNCHANGED <<id, life, terminated>>

AcceptorStep(a) == \/ \E h \in Handles : \/ ConstructAcceptor(a, h)
                                         \/ ConstructionFails(a, h)
                                         \/ Open(a, h)
                   \/ OpenFails(a)
                   \/ Close(a)

StreamStep(s) == \/ \E h \in Handles : \/ ConstructStream(s, h)
                                       \/ \E a \in Acceptors : Accept(a, s, h)
                 \/ \E t \in Streams : Move(s, t)

Next == /\ ~terminated
        /\ \/ \E a \in Acceptors : AcceptorStep(a)
           \/ \E s \in Streams : StreamStep(s)
           \/ \E o \in Objects : Destroy(o)

Spec == Init /\ [][Next]_vars

-----------------------------------------------------------------------------
Alive == {o \in Objects : life[o] = "alive"}

Owned == {id[o] : o \in {p \in Alive : IsOpen(p)}}

OwnersSound ==
    /\ Owned \subseteq C!Used
    /\ \A o, p \in Alive : IsOpen(o) /\ id[o] = id[p] => o = p
    /\ ~terminated

(***************************************************************************)
(* Until close() is called, an open socket object has a slot in use and    *)
(* shares it with no other, so that what it releases is its own; in        *)
(* particular no destructor throws.                                        *)
(***************************************************************************)
OwnedOnce == "close" \notin called => OwnersSound

(***************************************************************************)
(* Until close() is called, a native handle is closed by nothing but the   *)
(* destructor of the object it belongs to, and an object keeps its handle  *)
(* while others are made, moved, opened and destroyed.                     *)
(***************************************************************************)
HandleOf(o) == slots[id[o]].value

OnlyOwnersClose == [][ "close" \notin called' =>
    /\ open \ open' \subseteq {HandleOf(o) : o \in {p \in Alive \ Alive' : IsOpen(p)}}
    /\ \A o \in Alive \cap Alive' :
          IsOpen(o) /\ id'[o] = id[o] => HandleOf(o)' = HandleOf(o) /\ HandleOf(o) \in open']_vars

(***************************************************************************)
(* Until open() or close() is called, the sockets nobody owns are those of *)
(* acceptors whose construction failed: one each, and nothing else leaks   *)
(* one.                                                                    *)
(***************************************************************************)
OnlyFailedConstructionsLeak ==
    called = {} =>
    Cardinality(C!Used \ Owned) = Cardinality({a \in Acceptors : life[a] = "failed"})

(***************************************************************************)
(* Whatever ids the objects are left with by open() and close(), the       *)
(* container keeps its free list and knows every open native handle.       *)
(***************************************************************************)
MisuseIsContained == C!FreeListSound /\ C!HandlesAccounted

(***************************************************************************)
(* open() on an acceptor that is open reports already_open and leaves it   *)
(* as it is.                                                               *)
(***************************************************************************)
OpenOnce == [][\A a \in Acceptors :
    life[a] = "alive" /\ life'[a] = "alive" /\ IsOpen(a) => id'[a] = id[a]]_vars
=============================================================================
