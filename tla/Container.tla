------------------------------ MODULE Container ------------------------------
(***************************************************************************)
(* _Container of container.hpp as the contexts use it: a vector of         *)
(* variants that holds either a record (alternative 1: a socket's native   *)
(* handle) or, in a free slot, the index of the next free slot             *)
(* (alternative 0).  _Free heads that list; it ends at the vector's size.  *)
(* _Make_socket and _Release of the contexts are the only callers.         *)
(***************************************************************************)
EXTENDS Integers

CONSTANTS Handles,  \* the native handles the kernel can give out
          MaxSlots  \* bound: the vector does not grow beyond it

ASSUME MaxSlotsAssumption == MaxSlots \in Nat

VARIABLES slots,  \* _Records
          size,   \* _Records.size()
          free,   \* _Free
          open    \* the native handles the process has open

vars == <<slots, size, free, open>>

Link(n) == [alt |-> 0, value |-> n]
Record(h) == [alt |-> 1, value |-> h]

Slots == [alt : {0}, value : 0..MaxSlots] \cup [alt : {1}, value : Handles]

TypeOK == /\ size \in 0..MaxSlots
          /\ slots \in [0..size-1 -> Slots]
          /\ free \in 0..size
          /\ open \in SUBSET Handles

Used == {i \in 0..size-1 : slots[i].alt = 1}
Unused == {i \in 0..size-1 : slots[i].alt = 0}

Init == /\ slots = [i \in 0..-1 |-> Link(0)]
        /\ size = 0
        /\ free = 0
        /\ open = {}

-----------------------------------------------------------------------------
\* _Insert with no free slot: emplace_back, _Free++
Grow(h) == /\ free = size
           /\ size < MaxSlots
           /\ slots' = [i \in 0..size |-> IF i = size THEN Record(h) ELSE slots[i]]
           /\ size' = size + 1
           /\ free' = free + 1

\* _Insert with a free slot: std::get<0> throws if the slot is not free
Reuse(h) == /\ free # size
            /\ slots[free].alt = 0
            /\ slots' = [slots EXCEPT ![free] = Record(h)]
            /\ free' = slots[free].value
            /\ UNCHANGED size

\* socket() or accept() makes a handle, _Insert gives it an id.
MakeSocket(h) == /\ h \notin open
                 /\ Grow(h) \/ Reuse(h)
                 /\ open' = open \cup {h}

\* As a bug: the slot's link is set, but to the end instead of the list.
EraseDropsList(id) == /\ slots' = [slots EXCEPT ![id] = Link(size)]
                      /\ free' = id
                      /\ UNCHANGED size

\* As a bug: the hole is filled with the last slot, as _Poll_context does.
EraseCompacts(id) ==
    /\ slots' = [i \in 0..size-2 |-> IF i = id THEN slots[size - 1] ELSE slots[i]]
    /\ size' = size - 1
    /\ free' = size - 1

Erase(id) == /\ slots' = [slots EXCEPT ![id] = Link(free)]
             /\ free' = id
             /\ UNCHANGED size

\* _Release: std::get<1> throws if the id is not in use; then erase, close().
Release(id) == /\ slots[id].alt = 1
               /\ Erase(id)
               /\ open' = open \ {slots[id].value}

Next == \/ \E h \in Handles : MakeSocket(h)
        \/ \E id \in 0..size-1 : Release(id)

Spec == Init /\ [][Next]_vars

-----------------------------------------------------------------------------
\* The free list as a function c: c[1] is its head, c[n] its last slot.
IsChain(n, c) ==
    /\ \A i \in 1..n : \A j \in 1..n : c[i] = c[j] => i = j
    /\ \A id \in Unused : \E i \in 1..n : c[i] = id
    /\ free = IF n = 0 THEN size ELSE c[1]
    /\ \A i \in 1..n : slots[c[i]].value = IF i = n THEN size ELSE c[i + 1]

(***************************************************************************)
(* The links form one list, without a cycle, of exactly the free slots     *)
(* that ends at the current size: no slot is lost, none is handed out      *)
(* twice, and no link keeps an older size of the vector.                   *)
(***************************************************************************)
FreeListSound == \E n \in 0..size : \E c \in [1..n -> Unused] : IsChain(n, c)

(***************************************************************************)
(* Every open native handle is in the container under exactly one id, and  *)
(* nothing else is: no descriptor leaks, none is closed twice.             *)
(***************************************************************************)
HandlesAccounted ==
    /\ open = {slots[i].value : i \in Used}
    /\ \A i, j \in Used : slots[i].value = slots[j].value => i = j

\* The vector grows only when every slot is in use.
GrowsOnlyWhenFull == [][size' # size => Unused = {}]_vars

Table == INSTANCE SocketTable
    WITH Ids <- 0..MaxSlots, table <- [i \in Used |-> slots[i].value]

\* The container is a table from ids to handles.
IsTable == Table!Spec
=============================================================================
