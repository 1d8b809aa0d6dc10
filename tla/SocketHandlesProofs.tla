------------------------- MODULE SocketHandlesProofs -------------------------
(***************************************************************************)
(* The ownership of sockets, for any number of objects, handles and slots. *)
(* It rests on the theorems about Container: every step of the objects is  *)
(* a step of the container or none.                                        *)
(***************************************************************************)
EXTENDS SocketHandles, FiniteSetTheorems, TLAPS

CP == INSTANCE ContainerProofs

-----------------------------------------------------------------------------
LEMMA InitIsContainer == Init => C!Init
  BY DEF Init

LEMMA StepIsContainer == [Next]_vars => [C!Next]_container
  <1> SUFFICES ASSUME [Next]_vars PROVE [C!Next]_container
    OBVIOUS
  <1>1. ASSUME NEW h \in Handles, C!MakeSocket(h) PROVE C!Next
    BY <1>1 DEF C!Next
  <1>2. ASSUME NEW n \in C!Used, C!Release(n) PROVE C!Next
    BY <1>2 DEF C!Next, C!Used
  <1>3. ASSUME NEW a \in Acceptors, AcceptorStep(a) PROVE [C!Next]_container
    BY <1>1, <1>2, <1>3
       DEF AcceptorStep, ConstructAcceptor, Born, ConstructionFails, Open, OpenFails, Close
  <1>4. ASSUME NEW s \in Streams, StreamStep(s) PROVE [C!Next]_container
    BY <1>1, <1>4 DEF StreamStep, ConstructStream, Accept, Born, Move, container
  <1>5. ASSUME NEW o \in Objects, Destroy(o) PROVE [C!Next]_container
    BY <1>2, <1>5 DEF Destroy, ReleaseNoexcept, container
  <1>6. CASE UNCHANGED vars
    BY <1>6 DEF vars, container
  <1> QED BY <1>3, <1>4, <1>5, <1>6 DEF Next

\* Container, as ContainerProofs and as SocketHandles instantiate it.
LEMMA SameContainer ==
    /\ C!Init <=> CP!Init
    /\ [C!Next]_container <=> [CP!Next]_CP!vars
    /\ C!Used = CP!Used
    /\ C!TypeOK <=> CP!TypeOK
  <1>1. C!Init <=> CP!Init
    BY DEF C!Init, CP!Init, C!Link, CP!Link
  <1>2. \A h \in Handles : C!MakeSocket(h) <=> CP!MakeSocket(h)
    BY DEF C!MakeSocket, CP!MakeSocket, C!Grow, CP!Grow, C!Reuse, CP!Reuse, C!Record, CP!Record
  <1>3. \A n \in 0..size-1 : C!Release(n) <=> CP!Release(n)
    BY DEF C!Release, CP!Release, C!Erase, CP!Erase, C!Link, CP!Link
  <1>4. C!Next <=> CP!Next
    BY <1>2, <1>3 DEF C!Next, CP!Next
  <1>5. C!Used = CP!Used
    BY DEF C!Used, CP!Used
  <1>6. C!TypeOK <=> CP!TypeOK
    BY DEF C!TypeOK, CP!TypeOK, C!Slots, CP!Slots
  <1> QED BY <1>1, <1>4, <1>5, <1>6 DEF container, CP!vars

\* The objects keep to the operations of the container.
LEMMA ContainerIsKept == Spec => []CP!ContainerInv
  <1>1. Init => CP!ContainerInv
    BY InitIsContainer, SameContainer, CP!InitInv, SlotsAssumption
  <1>2. CP!ContainerInv /\ [Next]_vars => CP!ContainerInv'
    BY StepIsContainer, SameContainer, CP!NextInv, SlotsAssumption
  <1> QED BY <1>1, <1>2, PTL DEF Spec

\* Whatever open() and close() are called on, the container stays sound.
THEOREM MisuseNeverCorrupts == Spec => []MisuseIsContained
  <1>1. CP!ContainerInv => MisuseIsContained
    <2>1. C!FreeListSound <=> CP!FreeListSound
      BY DEF C!FreeListSound, CP!FreeListSound, C!IsChain, CP!IsChain,
             C!Unused, CP!Unused
    <2>2. C!HandlesAccounted <=> CP!HandlesAccounted
      BY DEF C!HandlesAccounted, CP!HandlesAccounted, C!Used, CP!Used
    <2> QED BY <2>1, <2>2 DEF CP!ContainerInv, MisuseIsContained
  <1> QED BY <1>1, ContainerIsKept, PTL

-----------------------------------------------------------------------------
\* What _Insert and _Erase do to the ids in use.
LEMMA Inserted ==
    ASSUME C!TypeOK, NEW h \in Handles, C!MakeSocket(h)
    PROVE  /\ free \in 0..MaxSlots-1 /\ free \notin C!Used
           /\ C!Used' = C!Used \cup {free}
  <1>1. size \in Nat /\ free \in 0..size /\ size \in 0..MaxSlots /\ MaxSlots \in Nat
    BY SlotsAssumption DEF C!TypeOK
  <1>2. CASE C!Grow(h)
    BY <1>1, <1>2 DEF C!Grow, C!Record, C!Used, C!TypeOK
  <1>3. CASE C!Reuse(h)
    <2>1. free \in 0..size-1 /\ free \notin C!Used
      BY <1>1, <1>3 DEF C!Reuse, C!Used
    <2>2. C!Used' = C!Used \cup {free}
      BY <1>1, <1>3, <2>1 DEF C!Reuse, C!Record, C!Used, C!TypeOK
    <2> QED BY <1>1, <2>1, <2>2
  <1> QED BY <1>2, <1>3 DEF C!MakeSocket

LEMMA Erased ==
    ASSUME C!TypeOK, NEW n \in C!Used, C!Release(n)
    PROVE  C!Used' = C!Used \ {n}
  BY DEF C!Release, C!Erase, C!Link, C!Used, C!TypeOK

-----------------------------------------------------------------------------
\* What the objects' own variables can be ...
IdsOK == /\ id \in [Objects -> Ids]
         /\ life \in [Objects -> {"unborn", "alive", "failed", "dead"}]
         /\ terminated \in BOOLEAN
         /\ called \subseteq {"open", "close"}

\* ... and what no step but close() breaks.
Kept == C!TypeOK /\ IdsOK /\ OwnersSound

Leaked == C!Used \ Owned
Failed == {a \in Acceptors : life[a] = "failed"}

\* How the step of an object moves the sockets that nobody owns.
LEMMA BirthOwns ==
    ASSUME Kept, NEW o \in Objects, NEW h \in Handles, Born(o, h)
    PROVE  IdsOK' /\ OwnersSound' /\ Leaked' = Leaked /\ Failed' = Failed
  <1>1. /\ free \in 0..MaxSlots-1 /\ free \notin C!Used /\ free # Invalid
        /\ C!Used' = C!Used \cup {free}
    BY Inserted DEF Born, Kept, Invalid
  <1>2. IdsOK'
    BY <1>1 DEF Kept, IdsOK, Born, Ids
  <1>3. Alive' = Alive \cup {o} /\ o \notin Alive
    BY DEF Kept, IdsOK, Born, Alive
  <1>4. id'[o] = free /\ \A p \in Objects \ {o} : id'[p] = id[p]
    BY DEF Kept, IdsOK, Born
  <1>5. Owned' = Owned \cup {free}
    BY <1>1, <1>3, <1>4 DEF Owned, IsOpen, Alive
  <1>6. OwnersSound'
    <2>1. \A p \in Alive : IsOpen(p) => id[p] # free
      BY <1>1 DEF Kept, OwnersSound, Owned
    <2>2. \A p, q \in Alive' : IsOpen(p)' /\ id'[p] = id'[q] => p = q
      BY <1>1, <1>3, <1>4, <2>1 DEF Kept, OwnersSound, IsOpen, Alive
    <2> QED BY <1>1, <1>5, <2>2 DEF Kept, OwnersSound, Born
  <1> QED BY <1>1, <1>2, <1>5, <1>6 DEF Leaked, Failed, Kept, OwnersSound, IdsOK, Born

LEMMA FailureLeaksOne ==
    ASSUME Kept, NEW a \in Acceptors, NEW h \in Handles, ConstructionFails(a, h)
    PROVE  /\ IdsOK' /\ OwnersSound'
           /\ Leaked' = Leaked \cup {free} /\ free \notin Leaked
           /\ Failed' = Failed \cup {a} /\ a \notin Failed
  <1>1. free \notin C!Used /\ C!Used' = C!Used \cup {free}
    BY Inserted DEF ConstructionFails, Kept
  <1>2. IdsOK' /\ Alive' = Alive /\ id' = id
    BY DEF Kept, IdsOK, ConstructionFails, Alive, Objects
  <1>3. Owned' = Owned
    BY <1>2 DEF Owned, IsOpen
  <1>4. OwnersSound'
    BY <1>1, <1>2, <1>3 DEF Kept, OwnersSound, ConstructionFails, IsOpen
  <1>5. Failed' = Failed \cup {a} /\ a \notin Failed
    BY DEF Failed, Kept, IdsOK, ConstructionFails, Objects
  <1> QED BY <1>1, <1>2, <1>3, <1>4, <1>5 DEF Leaked, Kept, OwnersSound

LEMMA MoveOwns ==
    ASSUME Kept, NEW s \in Objects, NEW t \in Objects, Move(s, t)
    PROVE  IdsOK' /\ OwnersSound' /\ Leaked' = Leaked /\ Failed' = Failed
  <1>1. s # t /\ s \in Alive /\ t \notin Alive /\ Alive' = Alive \cup {t}
    BY DEF Kept, IdsOK, Move, Alive
  <1>2. /\ id'[s] = Invalid /\ id'[t] = id[s]
        /\ \A p \in Objects \ {s, t} : id'[p] = id[p]
    BY <1>1 DEF Kept, IdsOK, Move
  <1>3. IdsOK' /\ C!Used' = C!Used
    BY DEF Kept, IdsOK, Move, Ids, C!Used
  <1>4. Owned' = Owned
    BY <1>1, <1>2 DEF Owned, IsOpen, Alive
  <1>5. OwnersSound'
    <2>1. \A p, q \in Alive' : IsOpen(p)' /\ id'[p] = id'[q] => p = q
      BY <1>1, <1>2 DEF Kept, OwnersSound, IsOpen, Alive
    <2> QED BY <1>3, <1>4, <2>1 DEF Kept, OwnersSound, Move
  <1>6. Failed' = Failed
    BY DEF Failed, Kept, IdsOK, Move, Objects
  <1> QED BY <1>3, <1>4, <1>5, <1>6 DEF Leaked

LEMMA DestroyOwns ==
    ASSUME Kept, NEW o \in Objects, Destroy(o)
    PROVE  IdsOK' /\ OwnersSound' /\ Leaked' = Leaked /\ Failed' = Failed
  <1>1. o \in Alive /\ Alive' = Alive \ {o} /\ id' = id
    BY DEF Kept, IdsOK, Destroy, Alive
  <1>2. Failed' = Failed
    BY DEF Failed, Kept, IdsOK, Destroy, Objects
  <1>3. CASE ~IsOpen(o)
    <2>1. C!Used' = C!Used /\ terminated' = terminated
      BY <1>3 DEF Destroy, container, C!Used
    <2>2. Owned' = Owned
      BY <1>1, <1>3 DEF Owned, IsOpen
    <2>3. IdsOK'
      BY <2>1 DEF Kept, IdsOK, Destroy
    <2> QED BY <1>1, <1>2, <2>1, <2>2, <2>3 DEF Kept, OwnersSound, IsOpen, Leaked
  <1>4. CASE IsOpen(o)
    <2>1. id[o] \in C!Used /\ id[o] \in Owned
      BY <1>1, <1>4 DEF Kept, OwnersSound, Owned
    <2>2. C!Release(id[o]) /\ terminated' = terminated
      BY <1>4, <2>1 DEF Destroy, ReleaseNoexcept
    <2>3. C!Used' = C!Used \ {id[o]}
      BY <2>1, <2>2, Erased DEF Kept
    <2>4. Owned' = Owned \ {id[o]}
      BY <1>1, <1>4 DEF Kept, OwnersSound, Owned, IsOpen
    <2>5. IdsOK'
      BY <2>2 DEF Kept, IdsOK, Destroy
    <2>6. OwnersSound'
      BY <1>1, <2>2, <2>3, <2>4 DEF Kept, OwnersSound, IsOpen
    <2>7. Leaked' = Leaked
      BY <2>1, <2>3, <2>4 DEF Leaked
    <2> QED BY <1>2, <2>5, <2>6, <2>7
  <1> QED BY <1>3, <1>4

LEMMA OpenOwns ==
    ASSUME Kept, NEW a \in Acceptors, NEW h \in Handles, Open(a, h)
    PROVE  IdsOK' /\ OwnersSound'
  <1>1. /\ free \in 0..MaxSlots-1 /\ free \notin C!Used /\ free # Invalid
        /\ C!Used' = C!Used \cup {free}
    BY Inserted DEF Open, Kept, Invalid
  <1>2. IdsOK'
    BY <1>1 DEF Kept, IdsOK, Open, Ids
  <1>3. /\ Alive' = Alive /\ a \in Objects /\ id'[a] = free
        /\ \A p \in Objects \ {a} : id'[p] = id[p]
    BY DEF Kept, IdsOK, Open, Alive, Objects
  <1>4. \A p \in Alive : IsOpen(p) => id[p] # free
    BY <1>1 DEF Kept, OwnersSound, Owned
  <1>5. \A p, q \in Alive' : IsOpen(p)' /\ id'[p] = id'[q] => p = q
    BY <1>1, <1>3, <1>4 DEF Kept, OwnersSound, IsOpen, Alive
  <1>6. Owned' \subseteq Owned \cup {free}
    BY <1>3 DEF Owned, IsOpen, Alive
  <1> QED BY <1>1, <1>2, <1>5, <1>6 DEF Kept, OwnersSound, Open

LEMMA OpenFailureOwns ==
    ASSUME Kept, NEW a \in Acceptors, OpenFails(a)
    PROVE  IdsOK' /\ OwnersSound'
  <1>1. IdsOK' /\ C!Used' = C!Used
    BY DEF Kept, IdsOK, OpenFails, Ids, container, C!Used
  <1>2. /\ Alive' = Alive /\ a \in Objects /\ id'[a] = Invalid
        /\ \A p \in Objects \ {a} : id'[p] = id[p]
    BY DEF Kept, IdsOK, OpenFails, Alive, Objects
  <1>3. \A p, q \in Alive' : IsOpen(p)' /\ id'[p] = id'[q] => p = q
    BY <1>2 DEF Kept, OwnersSound, IsOpen, Alive
  <1>4. Owned' \subseteq Owned
    BY <1>2 DEF Owned, IsOpen, Alive
  <1> QED BY <1>1, <1>3, <1>4 DEF Kept, OwnersSound, OpenFails

-----------------------------------------------------------------------------
LEMMA InitKept == Init => Kept /\ Leaked = {} /\ Failed = {}
  <1> SUFFICES ASSUME Init PROVE Kept /\ Leaked = {} /\ Failed = {}
    OBVIOUS
  <1>1. C!TypeOK
    BY InitIsContainer, SameContainer, CP!InitInv, SlotsAssumption DEF CP!ContainerInv
  <1>2. C!Used = {} /\ Alive = {} /\ Failed = {} /\ Owned = {}
    BY DEF Init, C!Init, C!Used, Alive, Failed, Owned, Objects
  <1>3. IdsOK
    BY DEF Init, IdsOK, Ids
  <1> QED BY <1>1, <1>2, <1>3 DEF Kept, OwnersSound, Leaked, Init

LEMMA NextIdsOK ==
    ASSUME C!TypeOK, IdsOK, [Next]_vars
    PROVE  IdsOK'
  <1>1. ASSUME NEW o \in Objects, NEW h \in Handles, Born(o, h) PROVE IdsOK'
    BY <1>1, Inserted DEF IdsOK, Born, Ids
  <1>2. ASSUME NEW a \in Acceptors, AcceptorStep(a) PROVE IdsOK'
    <2>1. ASSUME NEW h \in Handles, ConstructionFails(a, h) PROVE IdsOK'
      BY <2>1 DEF IdsOK, ConstructionFails, Objects
    <2>2. ASSUME NEW h \in Handles, Open(a, h) PROVE IdsOK'
      BY <2>2, Inserted DEF IdsOK, Open, Ids, Objects
    <2>3. CASE OpenFails(a)
      BY <2>3 DEF IdsOK, OpenFails, Ids
    <2>4. CASE Close(a)
      BY <2>4 DEF IdsOK, Close
    <2> QED BY <1>1, <1>2, <2>1, <2>2, <2>3, <2>4 DEF AcceptorStep, ConstructAcceptor, Objects
  <1>3. ASSUME NEW s \in Streams, StreamStep(s) PROVE IdsOK'
    <2>1. ASSUME NEW t \in Streams, Move(s, t) PROVE IdsOK'
      BY <2>1 DEF IdsOK, Move, Ids, Objects
    <2> QED BY <1>1, <1>3, <2>1 DEF StreamStep, ConstructStream, Accept, Objects
  <1>4. ASSUME NEW o \in Objects, Destroy(o) PROVE IdsOK'
    BY <1>4 DEF IdsOK, Destroy, ReleaseNoexcept
  <1>5. CASE UNCHANGED vars
    BY <1>5 DEF vars, IdsOK
  <1> QED BY <1>2, <1>3, <1>4, <1>5 DEF Next

LEMMA NextKept ==
    ASSUME Kept, "close" \notin called', [Next]_vars, C!TypeOK'
    PROVE  Kept'
  <1>1. ASSUME NEW a \in Acceptors, AcceptorStep(a) PROVE OwnersSound'
    BY <1>1, BirthOwns, FailureLeaksOne, OpenOwns, OpenFailureOwns
       DEF AcceptorStep, ConstructAcceptor, Close, Objects
  <1>2. ASSUME NEW s \in Streams, StreamStep(s) PROVE OwnersSound'
    BY <1>2, BirthOwns, MoveOwns DEF StreamStep, ConstructStream, Accept, Objects
  <1>3. ASSUME NEW o \in Objects, Destroy(o) PROVE OwnersSound'
    BY <1>3, DestroyOwns
  <1>4. CASE UNCHANGED vars
    <2>1. C!Used' = C!Used /\ Alive' = Alive /\ Owned' = Owned
      BY <1>4 DEF vars, C!Used, Alive, Owned, IsOpen
    <2>2. OwnersSound'
      BY <1>4, <2>1 DEF vars, Kept, OwnersSound, IsOpen
    <2> QED BY <2>2, NextIdsOK DEF Kept
  <1> QED BY <1>1, <1>2, <1>3, <1>4, NextIdsOK DEF Next, Kept

\* What the program has called it has called for good.
LEMMA CallsStay == IdsOK /\ [Next]_vars => called \subseteq called'
  BY DEF Next, AcceptorStep, StreamStep, ConstructAcceptor, ConstructStream, Born, Accept,
         ConstructionFails, Move, Destroy, Open, OpenFails, Close, vars, IdsOK

\* The invariant: the types always, the owners until close() is called.
IInv == C!TypeOK /\ IdsOK /\ OwnedOnce

LEMMA InitIInv == Init => IInv
  BY InitKept DEF Kept, IInv, OwnedOnce

LEMMA NextIInv == IInv /\ [Next]_vars /\ C!TypeOK' => IInv'
  BY NextIdsOK, NextKept, CallsStay DEF IInv, Kept, OwnedOnce

LEMMA IInvIsKept == Spec => []IInv
  <1>1. IInv /\ [Next]_vars /\ CP!ContainerInv' => IInv'
    BY NextIInv, SameContainer DEF CP!ContainerInv, CP!TypeOK, C!TypeOK, C!Slots, CP!Slots
  <1> QED BY <1>1, InitIInv, ContainerIsKept, PTL DEF Spec

(***************************************************************************)
(* The objects' ids are ids of slots, whatever is called on them.          *)
(***************************************************************************)
THEOREM HandlesTyped == Spec => []TypeOK
  <1>1. IInv => TypeOK
    BY DEF IInv, IdsOK, TypeOK
  <1> QED BY <1>1, IInvIsKept, PTL

(***************************************************************************)
(* Until close() is called, socket objects own distinct sockets that are   *)
(* in use, whatever they are moved to, opened or destroyed.                *)
(***************************************************************************)
THEOREM OwnersAreUnique == Spec => []OwnedOnce
  <1>1. IInv => OwnedOnce
    BY DEF IInv
  <1> QED BY <1>1, IInvIsKept, PTL

-----------------------------------------------------------------------------
LeakCount == /\ IsFiniteSet(Leaked) /\ IsFiniteSet(Failed)
             /\ Cardinality(Leaked) = Cardinality(Failed)

LEMMA NextLeakCount ==
    ASSUME Kept, LeakCount, [Next]_vars, called' = {}
    PROVE  LeakCount'
  <1>1. CASE Leaked' = Leaked /\ Failed' = Failed
    BY <1>1 DEF LeakCount
  <1>2. ASSUME NEW a \in Acceptors, NEW h \in Handles, ConstructionFails(a, h)
        PROVE  LeakCount'
    <2>1. PICK n : n \notin Leaked /\ Leaked' = Leaked \cup {n}
      BY <1>2, FailureLeaksOne
    <2>2. a \notin Failed /\ Failed' = Failed \cup {a}
      BY <1>2, FailureLeaksOne
    <2>3. IsFiniteSet(Leaked') /\ Cardinality(Leaked') = Cardinality(Leaked) + 1
      BY <2>1, FS_AddElement DEF LeakCount
    <2>4. IsFiniteSet(Failed') /\ Cardinality(Failed') = Cardinality(Failed) + 1
      BY <2>2, FS_AddElement DEF LeakCount
    <2> QED BY <2>3, <2>4 DEF LeakCount
  <1>3. ASSUME NEW a \in Acceptors, AcceptorStep(a) PROVE LeakCount'
    BY <1>1, <1>2, <1>3, BirthOwns
       DEF AcceptorStep, ConstructAcceptor, Open, OpenFails, Close, Objects
  <1>4. ASSUME NEW s \in Streams, StreamStep(s) PROVE LeakCount'
    BY <1>1, <1>4, BirthOwns, MoveOwns DEF StreamStep, ConstructStream, Accept, Objects
  <1>5. ASSUME NEW o \in Objects, Destroy(o) PROVE LeakCount'
    BY <1>1, <1>5, DestroyOwns
  <1>6. CASE UNCHANGED vars
    BY <1>1, <1>6 DEF vars, Leaked, Failed, C!Used, Owned, Alive, IsOpen
  <1> QED BY <1>3, <1>4, <1>5, <1>6 DEF Next

(***************************************************************************)
(* Until open() or close() is called, each failed construction of an       *)
(* acceptor leaks one socket and nothing else leaks any.                   *)
(***************************************************************************)
THEOREM LeaksAreFailures == Spec => []OnlyFailedConstructionsLeak
  <1> DEFINE Counted == called = {} => LeakCount
  <1>1. Init => Counted
    BY InitKept, FS_EmptySet DEF LeakCount
  <1>2. IInv /\ Counted /\ [Next]_vars => Counted'
    BY NextLeakCount, CallsStay DEF IInv, Kept, OwnedOnce
  <1>3. Counted => OnlyFailedConstructionsLeak
    BY DEF LeakCount, Leaked, Failed, OnlyFailedConstructionsLeak
  <1> HIDE DEF Counted
  <1> QED BY <1>1, <1>2, <1>3, IInvIsKept, PTL DEF Spec

-----------------------------------------------------------------------------
\* A step of the container that opens a handle, or closes the one it releases,
\* leaves the handles of the other ids.
LEMMA InsertKeeps ==
    ASSUME C!TypeOK, NEW h \in Handles, C!MakeSocket(h), NEW n \in C!Used
    PROVE  slots'[n] = slots[n] /\ open \subseteq open'
  <1>1. size \in Nat /\ free \in 0..size
    BY DEF C!TypeOK
  <1>2. CASE C!Grow(h)
    BY <1>1, <1>2 DEF C!MakeSocket, C!Grow, C!Used, C!TypeOK
  <1>3. CASE C!Reuse(h)
    <2>1. free # n
      BY <1>3 DEF C!Reuse, C!Used
    <2> QED BY <1>3, <2>1 DEF C!MakeSocket, C!Reuse, C!Used, C!TypeOK
  <1> QED BY <1>2, <1>3 DEF C!MakeSocket

\* What a step leaves to an object that lives through it.
KeepsHandle(o) == HandleOf(o)' = HandleOf(o) /\ HandleOf(o) \in open'

LEMMA Accounted ==
    ASSUME C!HandlesAccounted, Kept, NEW o \in Alive, IsOpen(o)
    PROVE  /\ id[o] \in C!Used /\ HandleOf(o) \in open
           /\ \A n \in C!Used : slots[n].value = HandleOf(o) => n = id[o]
  <1>1. id[o] \in C!Used
    BY DEF Kept, OwnersSound, Owned
  <1> QED BY <1>1 DEF C!HandlesAccounted, HandleOf

HandlesKept ==
    /\ open \ open' \subseteq {HandleOf(o) : o \in {p \in Alive \ Alive' : IsOpen(p)}}
    /\ \A o \in Alive \cap Alive' : IsOpen(o) /\ id'[o] = id[o] => KeepsHandle(o)

LEMMA StepKeepsHandles ==
    ASSUME C!HandlesAccounted, Kept, [Next]_vars, "close" \notin called'
    PROVE  HandlesKept
  <1>1. ASSUME NEW h \in Handles, C!MakeSocket(h) PROVE HandlesKept
    <2>1. open \ open' = {}
      BY <1>1 DEF C!MakeSocket
    <2>2. ASSUME NEW o \in Alive, IsOpen(o), id'[o] = id[o] PROVE KeepsHandle(o)
      BY <1>1, <2>2, InsertKeeps, Accounted DEF Kept, KeepsHandle, HandleOf
    <2> QED BY <2>1, <2>2 DEF HandlesKept
  <1>2. CASE UNCHANGED container
    BY <1>2, Accounted DEF container, HandlesKept, KeepsHandle, HandleOf
  <1>3. ASSUME NEW o \in Objects, Destroy(o), IsOpen(o) PROVE HandlesKept
    <2>1. o \in Alive /\ Alive' = Alive \ {o} /\ id' = id
      BY <1>3 DEF Kept, IdsOK, Destroy, Alive
    <2>2. id[o] \in C!Used /\ C!Release(id[o])
      BY <1>3, <2>1, Accounted DEF Destroy, ReleaseNoexcept
    <2>3. open' = open \ {HandleOf(o)}
      BY <2>2 DEF C!Release, HandleOf
    <2>4. ASSUME NEW p \in Alive \ {o}, IsOpen(p) PROVE KeepsHandle(p)
      <3>1. id[p] # id[o] /\ id[p] \in C!Used /\ HandleOf(p) \in open
        BY <2>1, <2>4, Accounted DEF Kept, OwnersSound
      <3>2. HandleOf(p) # HandleOf(o)
        BY <1>3, <2>1, <3>1, Accounted DEF HandleOf
      <3>3. slots'[id[p]] = slots[id[p]]
        BY <2>2, <3>1 DEF C!Release, C!Erase, C!Used, Kept, C!TypeOK
      <3> QED BY <2>1, <2>3, <3>1, <3>2, <3>3 DEF KeepsHandle, HandleOf
    <2> QED BY <1>3, <2>1, <2>3, <2>4 DEF HandlesKept
  <1>4. ASSUME NEW a \in Acceptors, AcceptorStep(a) PROVE HandlesKept
    BY <1>1, <1>2, <1>4 DEF AcceptorStep, ConstructAcceptor, Born, ConstructionFails,
                            Open, OpenFails, Close
  <1>5. ASSUME NEW s \in Streams, StreamStep(s) PROVE HandlesKept
    BY <1>1, <1>2, <1>5 DEF StreamStep, ConstructStream, Accept, Born, Move, container
  <1>6. ASSUME NEW o \in Objects, Destroy(o) PROVE HandlesKept
    BY <1>2, <1>3, <1>6 DEF Destroy
  <1>7. CASE UNCHANGED vars
    BY <1>2, <1>7 DEF vars, container
  <1> QED BY <1>4, <1>5, <1>6, <1>7 DEF Next

(***************************************************************************)
(* Until close() is called, nothing but the owner's destructor closes a    *)
(* native handle, and an object keeps the one it has.                      *)
(***************************************************************************)
THEOREM OwnersCloseOnly == Spec => OnlyOwnersClose
  <1>1. IInv /\ MisuseIsContained /\ [Next]_vars => [ "close" \notin called' =>
          /\ open \ open' \subseteq {HandleOf(o) : o \in {p \in Alive \ Alive' : IsOpen(p)}}
          /\ \A o \in Alive \cap Alive' : IsOpen(o) /\ id'[o] = id[o]
                => HandleOf(o)' = HandleOf(o) /\ HandleOf(o) \in open']_vars
    BY StepKeepsHandles, CallsStay DEF IInv, Kept, OwnedOnce, MisuseIsContained,
       HandlesKept, KeepsHandle
  <1> QED BY <1>1, IInvIsKept, MisuseNeverCorrupts, PTL DEF Spec, OnlyOwnersClose

-----------------------------------------------------------------------------
(***************************************************************************)
(* The ids that the objects hold are those of a SocketTable, whatever is   *)
(* called on them.                                                         *)
(***************************************************************************)
THEOREM ObjectsShareTable == Spec => CP!IsTable
  <1>1. Init => CP!Table!Init
    <2> SUFFICES ASSUME Init PROVE CP!Table!Init
      OBVIOUS
    <2>1. CP!Used = {}
      BY InitIsContainer, SameContainer DEF CP!Init, CP!Used
    <2> QED BY <2>1 DEF CP!Table!Init
  <1>2. CP!ContainerInv /\ [Next]_vars => [CP!Table!Next]_CP!Contents
    BY StepIsContainer, SameContainer, CP!StepIsTable, SlotsAssumption
  <1> QED BY <1>1, <1>2, ContainerIsKept, PTL DEF Spec, CP!IsTable, CP!Table!Spec, CP!Contents
=============================================================================
