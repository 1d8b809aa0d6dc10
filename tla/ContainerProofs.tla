--------------------------- MODULE ContainerProofs ---------------------------
(***************************************************************************)
(* The free list of Container, for every bound on the vector and every set *)
(* of native handles: it is sound, so that the container is a table.       *)
(***************************************************************************)
EXTENDS Container, FiniteSetTheorems, TLAPS

ContainerInv == TypeOK /\ FreeListSound /\ HandlesAccounted

LEMMA InitInv == Init => ContainerInv
<1> SUFFICES ASSUME Init PROVE ContainerInv
  OBVIOUS
<1>1. 0..size-1 = {} /\ 1..0 = {}
  BY DEF Init
<1>2. Used = {} /\ Unused = {}
  BY <1>1 DEF Used, Unused
<1>3. TypeOK
  BY <1>1, MaxSlotsAssumption DEF Init, TypeOK
<1>4. FreeListSound
  <2>1. [i \in 1..0 |-> 0] \in [1..0 -> Unused]
    BY <1>1
  <2>2. IsChain(0, [i \in 1..0 |-> 0])
    BY <1>1, <1>2 DEF IsChain, Init
  <2>3. 0 \in 0..size
    BY DEF Init
  <2> QED
    BY <2>1, <2>2, <2>3, Zenon DEF FreeListSound
<1>5. HandlesAccounted
  BY <1>2 DEF HandlesAccounted, Init
<1> QED
  BY <1>3, <1>4, <1>5 DEF ContainerInv

(***************************************************************************)
(* A chain is never longer than the vector: its slots are distinct.        *)
(***************************************************************************)
LEMMA ChainFits ==
    ASSUME NEW n \in Nat, NEW m \in Nat, NEW c \in [1..n -> 0..m-1],
           \A i \in 1..n : \A j \in 1..n : c[i] = c[j] => i = j
    PROVE  n <= m
<1> SUFFICES ASSUME m < n PROVE FALSE
  OBVIOUS
<1>1. IsFiniteSet(1..n) /\ Cardinality(1..n) = n
  BY FS_Interval
<1>2. IsFiniteSet(0..m-1) /\ Cardinality(0..m-1) = m
  <2>1. 0 \in Int /\ m - 1 \in Int
    OBVIOUS
  <2>2. /\ IsFiniteSet(0..m-1)
        /\ Cardinality(0..m-1) = IF 0 > m - 1 THEN 0 ELSE m - 1 - 0 + 1
    BY <2>1, FS_Interval, Zenon
  <2> QED
    BY <2>2
<1>3. \E i, j \in 1..n : i # j /\ c[i] = c[j]
  BY <1>1, <1>2, FS_PigeonHole
<1> QED
  BY <1>3

(***************************************************************************)
(* A list that starts at the size is empty, and it holds every free slot.  *)
(***************************************************************************)
LEMMA EmptyList ==
    ASSUME ContainerInv, free = size
    PROVE  Unused = {}
<1>1. PICK n \in 0..size : \E c \in [1..n -> Unused] : IsChain(n, c)
  BY DEF ContainerInv, FreeListSound
<1>2. PICK c \in [1..n -> Unused] : IsChain(n, c)
  BY <1>1
<1>3. n = 0
  <2> SUFFICES ASSUME n # 0 PROVE FALSE
    OBVIOUS
  <2>1. c[1] \in Unused /\ free = c[1]
    BY <1>1, <1>2 DEF IsChain, ContainerInv, TypeOK
  <2> QED
    BY <2>1 DEF Unused, ContainerInv, TypeOK
<1> QED
  BY <1>2, <1>3 DEF IsChain

LEMMA GrowInv ==
    ASSUME ContainerInv, NEW h \in Handles, h \notin open, Grow(h), open' = open \cup {h}
    PROVE  ContainerInv'
<1>1. Unused = {}
  BY EmptyList DEF Grow
<1>2. /\ size' = size + 1 /\ free' = size + 1
      /\ \A i \in 0..size-1 : slots'[i] = slots[i]
      /\ slots'[size] = [alt |-> 1, value |-> h]
      /\ size \in Nat /\ size < MaxSlots
  BY DEF Grow, Record, ContainerInv, TypeOK
<1>3. TypeOK'
  <2>1. 0..size' - 1 = 0..size
    BY <1>2
  <2>2. slots' \in [0..size -> Slots]
    BY <1>2 DEF ContainerInv, TypeOK, Grow, Record, Slots
  <2> QED
    BY <1>2, <2>1, <2>2, MaxSlotsAssumption DEF ContainerInv, TypeOK
<1>4. Unused' = {} /\ Used' = Used \cup {size}
  BY <1>1, <1>2 DEF Unused, Used
<1>5. FreeListSound'
  <2>1. 1..0 = {} /\ [i \in 1..0 |-> 0] \in [1..0 -> Unused']
    OBVIOUS
  <2>2. IsChain(0, [i \in 1..0 |-> 0])'
    BY <1>2, <1>4, <2>1 DEF IsChain
  <2>3. 0 \in 0..size'
    BY <1>2
  <2> QED
    BY <2>1, <2>2, <2>3, Zenon DEF FreeListSound
<1>6. HandlesAccounted'
  <2>1. \A i \in Used : slots'[i].value = slots[i].value /\ slots[i].value # h
    BY <1>2 DEF HandlesAccounted, ContainerInv, Used
  <2>2. slots'[size].value = h /\ size \notin Used
    BY <1>2 DEF Used
  <2>3. open' = {slots'[i].value : i \in Used'}
    BY <1>4, <2>1, <2>2 DEF HandlesAccounted, ContainerInv
  <2>4. \A i, j \in Used' : slots'[i].value = slots'[j].value => i = j
    BY <1>4, <2>1, <2>2 DEF HandlesAccounted, ContainerInv
  <2> QED
    BY <2>3, <2>4 DEF HandlesAccounted
<1> QED
  BY <1>3, <1>5, <1>6 DEF ContainerInv

LEMMA ReuseInv ==
    ASSUME ContainerInv, NEW h \in Handles, h \notin open, Reuse(h), open' = open \cup {h}
    PROVE  ContainerInv'
<1>1. PICK n \in 0..size : \E c \in [1..n -> Unused] : IsChain(n, c)
  BY DEF ContainerInv, FreeListSound
<1>2. PICK c \in [1..n -> Unused] : IsChain(n, c)
  BY <1>1
<1>3. n # 0 /\ free = c[1] /\ free \in Unused /\ size \in Nat /\ n \in Nat
  BY <1>1, <1>2 DEF IsChain, Reuse, ContainerInv, TypeOK
<1>4. slots[free].value \in 0..size
  <2>1. slots[free].value = IF n = 1 THEN size ELSE c[2]
    BY <1>2, <1>3 DEF IsChain
  <2>2. n # 1 => c[2] \in 0..size-1
    BY <1>2, <1>3 DEF Unused
  <2> QED
    BY <1>3, <2>1, <2>2
<1>5. TypeOK'
  BY <1>3, <1>4 DEF ContainerInv, TypeOK, Reuse, Record, Slots
<1>6. /\ slots' = [slots EXCEPT ![free] = [alt |-> 1, value |-> h]]
      /\ free' = slots[free].value
      /\ size' = size
      /\ DOMAIN slots = 0..size-1
      /\ free \in 0..size-1
  BY <1>3 DEF Reuse, Record, ContainerInv, TypeOK, Unused
<1>7. Unused' = Unused \ {free} /\ Used' = Used \cup {free}
  BY <1>3, <1>6 DEF Unused, Used
<1>8. FreeListSound'
  <2> DEFINE d == [i \in 1..n-1 |-> c[i + 1]]
  <2>1. d \in [1..n-1 -> Unused']
    <3>1. \A i \in 1..n-1 : i + 1 \in 1..n /\ c[i + 1] \in Unused /\ c[i + 1] # c[1]
      BY <1>2, <1>3 DEF IsChain
    <3> QED
      BY <3>1, <1>3, <1>7
  <2>2. \A i, j \in 1..n-1 : d[i] = d[j] => i = j
    <3>1. \A i \in 1..n-1 : i + 1 \in 1..n /\ d[i] = c[i + 1]
      BY <1>3
    <3>2. \A i, j \in 1..n : c[i] = c[j] => i = j
      BY <1>2 DEF IsChain
    <3> QED
      BY <3>1, <3>2, <1>3
  <2>3. \A id \in Unused' : \E i \in 1..n-1 : d[i] = id
    <3> SUFFICES ASSUME NEW id \in Unused' PROVE \E i \in 1..n-1 : d[i] = id
      OBVIOUS
    <3>1. PICK i \in 1..n : c[i] = id
      BY <1>2, <1>7 DEF IsChain
    <3>2. i # 1
      BY <1>3, <1>7, <3>1
    <3>3. i - 1 \in 1..n-1 /\ d[i - 1] = id
      BY <1>3, <3>1, <3>2
    <3> QED
      BY <3>3
  <2>4. free' = IF n - 1 = 0 THEN size' ELSE d[1]
    BY <1>2, <1>3, <1>6 DEF IsChain
  <2>5. \A i \in 1..n-1 : slots'[d[i]].value = IF i = n - 1 THEN size' ELSE d[i + 1]
    <3> SUFFICES ASSUME NEW i \in 1..n-1
                 PROVE  slots'[d[i]].value = IF i = n - 1 THEN size' ELSE d[i + 1]
      OBVIOUS
    <3>1. d[i] = c[i + 1] /\ i + 1 \in 1..n /\ d[i] # free
      BY <1>3, <1>7, <2>1
    <3>2. slots'[d[i]] = slots[c[i + 1]]
      BY <3>1, <1>6, <2>1, <1>7 DEF Unused
    <3>3. slots[c[i + 1]].value = IF i + 1 = n THEN size ELSE c[i + 2]
      BY <1>2, <3>1, <1>3 DEF IsChain
    <3>4. i + 1 # n => d[i + 1] = c[i + 2]
      BY <1>3
    <3> QED
      BY <3>2, <3>3, <3>4, <1>3, <1>6
  <2> HIDE DEF d
  <2>6. IsChain(n - 1, d)'
    BY <2>2, <2>3, <2>4, <2>5 DEF IsChain
  <2>7. n - 1 \in 0..size'
    BY <1>1, <1>3, <1>6
  <2> QED
    BY <2>1, <2>6, <2>7 DEF FreeListSound
<1>9. HandlesAccounted'
  BY <1>3, <1>6, <1>7 DEF HandlesAccounted, ContainerInv, Used, Unused
<1> QED
  BY <1>5, <1>8, <1>9 DEF ContainerInv

LEMMA ReleaseInv ==
    ASSUME ContainerInv, NEW id \in 0..size-1, Release(id)
    PROVE  ContainerInv'
<1>1. PICK n \in 0..size : \E c \in [1..n -> Unused] : IsChain(n, c)
  BY DEF ContainerInv, FreeListSound
<1>2. PICK c \in [1..n -> Unused] : IsChain(n, c)
  BY <1>1
<1>3. size \in Nat /\ n \in Nat /\ id \in Used /\ id \notin Unused
  BY <1>1 DEF Release, ContainerInv, TypeOK, Used, Unused
<1>4. /\ slots' = [slots EXCEPT ![id] = [alt |-> 0, value |-> free]]
      /\ free' = id
      /\ size' = size
      /\ open' = open \ {slots[id].value}
      /\ DOMAIN slots = 0..size-1
  BY DEF Release, Erase, Link, ContainerInv, TypeOK
<1>5. TypeOK'
  BY <1>3, <1>4, MaxSlotsAssumption DEF ContainerInv, TypeOK, Slots
<1>6. Unused' = Unused \cup {id} /\ Used' = Used \ {id}
  BY <1>3, <1>4 DEF Unused, Used
<1>7. FreeListSound'
  <2> DEFINE d == [i \in 1..n+1 |-> IF i = 1 THEN id ELSE c[i - 1]]
  <2>1. d \in [1..n+1 -> Unused']
    BY <1>2, <1>3, <1>6
  <2>2. \A i, j \in 1..n+1 : d[i] = d[j] => i = j
    <3>1. \A i \in 1..n+1 : i # 1 => i - 1 \in 1..n /\ d[i] = c[i - 1] /\ d[i] # id
      BY <1>2, <1>3
    <3>2. \A i, j \in 1..n : c[i] = c[j] => i = j
      BY <1>2 DEF IsChain
    <3> QED
      BY <3>1, <3>2, <1>3
  <2>3. \A u \in Unused' : \E i \in 1..n+1 : d[i] = u
    <3> SUFFICES ASSUME NEW u \in Unused', u # id PROVE \E i \in 1..n+1 : d[i] = u
      BY <1>3
    <3>1. PICK i \in 1..n : c[i] = u
      BY <1>2, <1>6 DEF IsChain
    <3>2. i + 1 \in 1..n+1 /\ d[i + 1] = u
      BY <1>3, <3>1
    <3> QED
      BY <3>2
  <2>4. free' = IF n + 1 = 0 THEN size' ELSE d[1]
    BY <1>3, <1>4
  <2>5. \A i \in 1..n+1 : slots'[d[i]].value = IF i = n + 1 THEN size' ELSE d[i + 1]
    <3> SUFFICES ASSUME NEW i \in 1..n+1
                 PROVE  slots'[d[i]].value = IF i = n + 1 THEN size' ELSE d[i + 1]
      OBVIOUS
    <3>1. CASE i = 1
      <4>1. slots'[d[i]].value = free
        BY <1>3, <1>4, <3>1
      <4>2. free = IF n = 0 THEN size ELSE c[1]
        BY <1>2 DEF IsChain
      <4> QED
        BY <1>3, <1>4, <3>1, <4>1, <4>2
    <3>2. CASE i # 1
      <4>1. i - 1 \in 1..n /\ d[i] = c[i - 1] /\ d[i] \in Unused /\ d[i] # id
        BY <1>2, <1>3, <3>2
      <4>2. slots'[d[i]] = slots[c[i - 1]]
        BY <1>4, <4>1 DEF Unused
      <4>3. slots[c[i - 1]].value = IF i - 1 = n THEN size ELSE c[i]
        BY <1>2, <1>3, <4>1 DEF IsChain
      <4>4. i # n + 1 => d[i + 1] = c[i]
        BY <1>3, <3>2
      <4> QED
        BY <1>3, <1>4, <4>2, <4>3, <4>4
    <3> QED
      BY <3>1, <3>2
  <2> HIDE DEF d
  <2>6. IsChain(n + 1, d)'
    BY <2>2, <2>3, <2>4, <2>5 DEF IsChain
  <2>7. n + 1 \in 0..size'
    <3>1. d \in [1..n+1 -> 0..size-1]
      BY <2>1, <1>4 DEF Unused
    <3>2. n + 1 \in Nat
      BY <1>3
    <3>3. n + 1 <= size
      BY <3>1, <3>2, <2>2, <1>3, ChainFits
    <3> QED
      BY <3>2, <3>3, <1>3, <1>4
  <2> QED
    BY <2>1, <2>6, <2>7 DEF FreeListSound
<1>8. HandlesAccounted'
  BY <1>3, <1>4, <1>6 DEF HandlesAccounted, ContainerInv, Used, Unused
<1> QED
  BY <1>5, <1>7, <1>8 DEF ContainerInv

LEMMA NextInv == ContainerInv /\ [Next]_vars => ContainerInv'
<1> SUFFICES ASSUME ContainerInv, [Next]_vars PROVE ContainerInv'
  OBVIOUS
<1>1. ASSUME NEW h \in Handles, MakeSocket(h) PROVE ContainerInv'
  BY <1>1, GrowInv, ReuseInv DEF MakeSocket
<1>2. ASSUME NEW id \in 0..size-1, Release(id) PROVE ContainerInv'
  BY <1>2, ReleaseInv
<1>3. CASE UNCHANGED vars
  <2>1. TypeOK' /\ Used' = Used /\ Unused' = Unused
    BY <1>3 DEF vars, ContainerInv, TypeOK, Used, Unused
  <2>2. FreeListSound'
    BY <1>3, <2>1 DEF vars, ContainerInv, FreeListSound, IsChain
  <2>3. HandlesAccounted'
    BY <1>3, <2>1 DEF vars, ContainerInv, HandlesAccounted
  <2> QED
    BY <2>1, <2>2, <2>3 DEF ContainerInv
<1> QED
  BY <1>1, <1>2, <1>3 DEF Next

THEOREM Invariance == Spec => []ContainerInv
<1>1. Init => ContainerInv
  BY InitInv
<1>2. ContainerInv /\ [Next]_vars => ContainerInv'
  BY NextInv
<1> QED
  BY <1>1, <1>2, PTL DEF Spec

(***************************************************************************)
(* The links are one list of exactly the free slots, ending at the size.   *)
(***************************************************************************)
THEOREM FreeListIsSound == Spec => []FreeListSound
<1>1. ContainerInv => FreeListSound
  BY DEF ContainerInv
<1> QED
  BY <1>1, Invariance, PTL

(***************************************************************************)
(* Every open native handle has exactly one id.                            *)
(***************************************************************************)
THEOREM HandlesAreAccounted == Spec => []HandlesAccounted
<1>1. ContainerInv => HandlesAccounted
  BY DEF ContainerInv
<1> QED
  BY <1>1, Invariance, PTL

(***************************************************************************)
(* The container keeps its types: the free list begins with a slot of the  *)
(* vector, or has its end.                                                 *)
(***************************************************************************)
THEOREM ContainerTyped == Spec => []TypeOK
<1>1. ContainerInv => TypeOK
  BY DEF ContainerInv
<1> QED
  BY <1>1, Invariance, PTL

-----------------------------------------------------------------------------
(***************************************************************************)
(* The vector grows only when every slot is in use.                        *)
(***************************************************************************)
THEOREM GrowsWhenFull == Spec => GrowsOnlyWhenFull
<1>1. ContainerInv /\ [Next]_vars => [size' # size => Unused = {}]_vars
  <2> SUFFICES ASSUME ContainerInv, [Next]_vars, size' # size PROVE Unused = {}
    OBVIOUS
  <2>1. \E h \in Handles : Grow(h)
    BY DEF Next, MakeSocket, Reuse, Release, Erase, vars
  <2> QED
    BY <2>1, EmptyList DEF Grow
<1> QED
  BY <1>1, Invariance, PTL DEF Spec, GrowsOnlyWhenFull

(***************************************************************************)
(* The container implements the table: an id is handed out only while it   *)
(* is not in use and stands for the handle it was handed out for until it  *)
(* is erased, whatever the other ids do.                                   *)
(***************************************************************************)
Contents == [i \in Used |-> slots[i].value]

LEMMA InsertedAt ==
    ASSUME ContainerInv, NEW h \in Handles, h \notin open, NEW id \in 0..MaxSlots,
           id \notin Used, Used' = Used \cup {id}, slots'[id].value = h,
           \A i \in Used : slots'[i] = slots[i]
    PROVE  Table!Insert(id, h)
<1>1. \A i \in Used : Contents[i] # h
  BY DEF ContainerInv, HandlesAccounted, Contents
<1>2. Contents' = [i \in Used \cup {id} |-> IF i = id THEN h ELSE Contents[i]]
  BY DEF Contents
<1> QED
  BY <1>1, <1>2 DEF Table!Insert, Table!Live, Contents

LEMMA StepIsTable == ContainerInv /\ [Next]_vars => [Table!Next]_Contents
<1> SUFFICES ASSUME ContainerInv, [Next]_vars PROVE [Table!Next]_Contents
  OBVIOUS
<1>1. ASSUME NEW h \in Handles, MakeSocket(h) PROVE Table!Next
  <2>1. CASE Grow(h)
    <3>1. Used' = Used \cup {size} /\ size \notin Used
      BY <2>1 DEF Grow, Record, ContainerInv, TypeOK, Used
    <3>2. slots'[size].value = h /\ \A i \in Used : slots'[i] = slots[i]
      BY <2>1 DEF Grow, Record, ContainerInv, TypeOK, Used
    <3>3. size \in 0..MaxSlots
      BY DEF ContainerInv, TypeOK
    <3> QED
      BY <1>1, <3>1, <3>2, <3>3, InsertedAt DEF MakeSocket, Table!Next
  <2>2. CASE Reuse(h)
    <3>1. free \in Unused
      BY <2>2 DEF Reuse, ContainerInv, TypeOK, Unused
    <3>2. Used' = Used \cup {free} /\ free \notin Used
      BY <2>2, <3>1 DEF Reuse, Record, ContainerInv, TypeOK, Used, Unused
    <3>3. slots'[free].value = h /\ \A i \in Used : slots'[i] = slots[i]
      BY <2>2, <3>1, <3>2 DEF Reuse, Record, ContainerInv, TypeOK, Used, Unused
    <3>4. free \in 0..MaxSlots
      BY MaxSlotsAssumption DEF ContainerInv, TypeOK
    <3> QED
      BY <1>1, <3>2, <3>3, <3>4, InsertedAt DEF MakeSocket, Table!Next
  <2> QED
    BY <1>1, <2>1, <2>2 DEF MakeSocket
<1>2. ASSUME NEW id \in 0..size-1, Release(id) PROVE Table!Next
  <2>1. id \in Used /\ id \in 0..MaxSlots
    BY <1>2, MaxSlotsAssumption DEF Release, Used, ContainerInv, TypeOK
  <2>2. Used' = Used \ {id} /\ \A i \in Used \ {id} : slots'[i] = slots[i]
    BY <1>2 DEF Release, Erase, Link, Used, ContainerInv, TypeOK
  <2>3. Contents' = [i \in Used \ {id} |-> Contents[i]]
    BY <2>2 DEF Contents
  <2>4. Table!Erase(id)
    BY <2>1, <2>3 DEF Table!Erase, Table!Live, Contents
  <2> QED
    BY <2>1, <2>4 DEF Table!Next
<1>3. CASE UNCHANGED vars
  BY <1>3 DEF vars, Contents, Used
<1> QED
  BY <1>1, <1>2, <1>3 DEF Next

THEOREM ImplementsTable == Spec => IsTable
<1>1. Init => Table!Init
  <2> SUFFICES ASSUME Init PROVE Table!Init
    OBVIOUS
  <2>1. Used = {}
    BY DEF Init, Used
  <2> QED
    BY <2>1 DEF Table!Init
<1>2. ContainerInv /\ [Next]_vars => [Table!Next]_Contents
  BY StepIsTable
<1> QED
  BY <1>1, <1>2, Invariance, PTL DEF Spec, IsTable, Table!Spec, Contents
=============================================================================
