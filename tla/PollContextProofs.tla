-------------------------- MODULE PollContextProofs --------------------------
(***************************************************************************)
(* Theorems about PollContext: the two vectors stay in step through every  *)
(* sequence of additions and removals, and so accept() never blocks.       *)
(***************************************************************************)
EXTENDS PollContext, TLAPS

\* How often an operation is still counted in, and what its receiver knows.
Counts == /\ \A o \in Ops : phase[o] \in {"idle", "queued"} => count[o] = 0
          /\ \A o \in Ops : phase[o] = "idle" => completed[o] = "none"
          /\ ToldAtStartOrNever

IInv == TypeOK /\ Counts /\ InStep /\ NoneLost /\ NeverBlocks

-----------------------------------------------------------------------------
\* What moving the back into the hole does to a vector.
LEMMA RemoveProperties ==
    ASSUME NEW S, NEW s \in Seq(S), NEW i \in 1..Len(s)
    PROVE  /\ Remove(s, i) \in Seq(S)
           /\ Len(Remove(s, i)) = Len(s) - 1
           /\ \A j \in 1..Len(s)-1 :
                Remove(s, i)[j] = IF j = i THEN s[Len(s)] ELSE s[j]
  <1> DEFINE t == [s EXCEPT ![i] = s[Len(s)]]
  <1>1. Len(s) \in Nat /\ Len(s) \in 1..Len(s)
    OBVIOUS
  <1>2. t \in Seq(S) /\ Len(t) = Len(s)
    BY <1>1
  <1>3. \A j \in 1..Len(s) : t[j] = IF j = i THEN s[Len(s)] ELSE s[j]
    BY <1>1
  <1> HIDE DEF t
  <1>4. /\ SubSeq(t, 1, Len(s) - 1) \in Seq(S)
        /\ Len(SubSeq(t, 1, Len(s) - 1)) = Len(s) - 1
        /\ \A j \in 1..Len(s)-1 : SubSeq(t, 1, Len(s) - 1)[j] = t[j]
    BY <1>1, <1>2
  <1> QED BY <1>1, <1>3, <1>4 DEF Remove, t

LEMMA AcceptKeeps ==
    ASSUME IInv, NEW o \in Accepts, StartAccept(o)
    PROVE  IInv'
  <1> USE DEF IInv
  <1>1. /\ fds' \in Seq(Acceptors) /\ outstanding' \in Seq(Accepts)
        /\ Len(fds') = Len(fds) + 1 /\ Len(outstanding') = Len(outstanding) + 1
        /\ fds'[Len(fds')] = On[o] /\ outstanding'[Len(outstanding')] = o
        /\ \A i \in 1..Len(fds) : fds'[i] = fds[i]
        /\ \A i \in 1..Len(outstanding) : outstanding'[i] = outstanding[i]
    BY OnAssumption DEF StartAccept, TypeOK
  <1>2. Len(fds) = Len(outstanding) /\ Len(fds) \in Nat
    BY DEF InStep, TypeOK
  <1>3. TypeOK' /\ Counts'
    BY <1>1 DEF TypeOK, Counts, ToldAtStartOrNever, StartAccept, CountOut, Ops
  <1>4. InStep'
    BY <1>1, <1>2 DEF InStep
  <1>5. NoneLost'
    <2>1. /\ phase'[o] = "queued"
          /\ \A p \in Accepts : p # o => phase'[p] = phase[p]
      BY DEF StartAccept, TypeOK, Ops
    <2>2. \A i \in 1..Len(outstanding) : outstanding[i] # o
      BY DEF NoneLost, StartAccept
    <2>3. 1..Len(outstanding') = (1..Len(outstanding)) \cup {Len(outstanding')}
      BY <1>1, <1>2
    <2>4. ASSUME NEW p \in Accepts
          PROVE  phase'[p] = "queued" <=> \E i \in 1..Len(outstanding') : outstanding'[i] = p
      <3>1. CASE p = o
        BY <1>1, <1>2, <2>1, <3>1
      <3>2. CASE p # o
        <4>1. phase[p] = "queued" <=> \E i \in 1..Len(outstanding) : outstanding[i] = p
          BY DEF NoneLost
        <4>2. (\E i \in 1..Len(outstanding) : outstanding[i] = p)
                <=> (\E i \in 1..Len(outstanding') : outstanding'[i] = p)
          BY <1>1, <2>3, <3>2
        <4> QED BY <2>1, <3>2, <4>1, <4>2
      <3> QED BY <3>1, <3>2
    <2>5. \A i, j \in 1..Len(outstanding') : outstanding'[i] = outstanding'[j] => i = j
      BY <1>1, <2>2, <2>3 DEF NoneLost
    <2> QED BY <2>4, <2>5 DEF NoneLost
  <1>6. NeverBlocks'
    BY DEF NeverBlocks, StartAccept
  <1> QED BY <1>3, <1>4, <1>5, <1>6

LEMMA ServeKeeps ==
    ASSUME IInv, NEW i \in 1..Len(fds), Serve(i)
    PROVE  IInv'
  <1> USE DEF IInv
  <1> DEFINE o == outstanding[i]
             n == Len(outstanding)
  <1>1. n \in Nat /\ Len(fds) = n /\ i \in 1..n
    BY DEF InStep, TypeOK
  <1>2. o \in Accepts /\ o \in Ops /\ phase[o] = "queued" /\ fds[i] = On[o]
    BY <1>1 DEF NoneLost, InStep, TypeOK, Ops
  <1>3. /\ fds' \in Seq(Acceptors) /\ Len(fds') = n - 1
        /\ \A j \in 1..n-1 : fds'[j] = IF j = i THEN fds[n] ELSE fds[j]
    <2>1. fds \in Seq(Acceptors) /\ fds' = Remove(fds, i)
      BY DEF Serve, TypeOK
    <2> QED BY <1>1, <2>1, RemoveProperties
  <1>4. /\ outstanding' \in Seq(Accepts) /\ Len(outstanding') = n - 1
        /\ \A j \in 1..n-1 : outstanding'[j] = IF j = i THEN outstanding[n] ELSE outstanding[j]
    BY <1>1, RemoveProperties DEF Serve, TypeOK
  <1>5. backlog[On[o]] > 0 /\ backlog[On[o]] # 0
    BY <1>2, OnAssumption DEF Serve, IsReady, TypeOK
  <1>6. PICK outcome \in {"value", "error"} :
          /\ result' = [result EXCEPT ![o] = outcome]
          /\ backlog' = IF outcome = "value"
                        THEN [backlog EXCEPT ![On[o]] = @ - 1] ELSE backlog
          /\ CountOut(o, count[o], outcome)
          /\ loop' = loop
    BY <1>5 DEF Serve, Work
  <1>7. phase' = [phase EXCEPT ![o] = "done"] /\ stopRequested' = stopRequested
    BY DEF Serve, Work
  <1>8. NeverBlocks'
    BY <1>6 DEF NeverBlocks
  <1> HIDE DEF o, n
  <1>9. TypeOK'
    <2>1. backlog' \in [Acceptors -> 0..MaxBacklog]
      BY <1>2, <1>5, <1>6, OnAssumption, BacklogAssumption DEF TypeOK
    <2>2. count' \in [Ops -> -1..1] /\ completed' \in [Ops -> {"none", "value", "error"}]
      BY <1>2, <1>6 DEF TypeOK, Counts, ToldAtStartOrNever, CountOut
    <2> QED BY <1>2, <1>3, <1>4, <1>6, <1>7, <2>1, <2>2 DEF TypeOK
  <1>10. Counts'
    BY <1>6, <1>7, <1>2 DEF Counts, ToldAtStartOrNever, TypeOK, CountOut
  <1>11. InStep'
    BY <1>1, <1>3, <1>4 DEF InStep
  <1>12. NoneLost'
    <2>1. phase'[o] # "queued" /\ \A p \in Accepts : p # o => phase'[p] = phase[p]
      BY <1>2, <1>7 DEF TypeOK, Ops
    <2>2. \A j, k \in 1..n : outstanding[j] = outstanding[k] => j = k
      BY DEF NoneLost, n
    <2>3. \A j \in 1..n-1 : outstanding'[j] # o
      BY <1>1, <1>4, <2>2 DEF o
    <2>4. \A j, k \in 1..n-1 : outstanding'[j] = outstanding'[k] => j = k
      BY <1>1, <1>4, <2>2
    <2>5. ASSUME NEW p \in Accepts
          PROVE  phase'[p] = "queued" <=> \E j \in 1..n-1 : outstanding'[j] = p
      <3>1. CASE p = o
        BY <2>1, <2>3, <3>1
      <3>2. CASE p # o
        <4>1. phase[p] = "queued" <=> \E j \in 1..n : outstanding[j] = p
          BY DEF NoneLost, n
        <4>2. ASSUME NEW j \in 1..n, outstanding[j] = p
              PROVE  \E k \in 1..n-1 : outstanding'[k] = p
          <5>1. j # i
            BY <3>2, <4>2 DEF o
          <5>2. CASE j = n
            BY <1>1, <1>4, <4>2, <5>1, <5>2
          <5>3. CASE j # n
            BY <1>1, <1>4, <4>2, <5>1, <5>3
          <5> QED BY <5>2, <5>3
        <4>3. ASSUME NEW k \in 1..n-1, outstanding'[k] = p
              PROVE  \E j \in 1..n : outstanding[j] = p
          BY <1>1, <1>4, <4>3
        <4> QED BY <2>1, <3>2, <4>1, <4>2, <4>3
      <3> QED BY <3>1, <3>2
    <2> QED BY <1>4, <2>4, <2>5 DEF NoneLost
  <1> QED BY <1>8, <1>9, <1>10, <1>11, <1>12

\* The steps that leave the vectors alone, and what is queued.
LEMMA OthersKeep ==
    ASSUME IInv, UNCHANGED vectors, TypeOK', Counts', loop' # "blocked",
           \A o \in Accepts : phase'[o] = "queued" <=> phase[o] = "queued"
    PROVE  IInv'
  BY DEF IInv, vectors, InStep, NoneLost, NeverBlocks

(***************************************************************************)
(* The invariant behind the results below.                                 *)
(***************************************************************************)
THEOREM Invariance == Spec => []IInv
  <1>1. Init => IInv
    <2> SUFFICES ASSUME Init PROVE IInv
      OBVIOUS
    <2>1. fds = <<>> /\ outstanding = <<>> /\ Len(<<>>) = 0
      BY DEF Init
    <2>2. TypeOK
      <3>1. fds \in Seq(Acceptors) /\ outstanding \in Seq(Accepts)
        BY <2>1
      <3>2. 0 \in -1..1 /\ 0 \in 0..MaxBacklog
        BY BacklogAssumption
      <3>3. count \in [Ops -> -1..1] /\ backlog \in [Acceptors -> 0..MaxBacklog]
        BY <3>2 DEF Init
      <3> QED BY <3>1, <3>3 DEF Init, TypeOK
    <2>3. Counts /\ NeverBlocks
      BY DEF Init, Counts, ToldAtStartOrNever, NeverBlocks
    <2>4. InStep
      BY <2>1 DEF InStep
    <2>5. NoneLost
      BY <2>1 DEF Init, NoneLost, Ops
    <2> QED BY <2>2, <2>3, <2>4, <2>5 DEF IInv
  <1>2. IInv /\ [Next]_vars => IInv'
    <2> SUFFICES ASSUME IInv, [Next]_vars PROVE IInv'
      OBVIOUS
    <2>1. ASSUME NEW o \in Ops, StartStopped(o) PROVE IInv'
      <3>1. TypeOK' /\ Counts'
        BY <2>1 DEF IInv, TypeOK, Counts, ToldAtStartOrNever, StartStopped, CountOut, vectors
      <3> QED BY <2>1, <3>1, OthersKeep DEF IInv, TypeOK, NeverBlocks, StartStopped, Ops
    <2>2. ASSUME NEW o \in Accepts, StartAccept(o) PROVE IInv'
      BY <2>2, AcceptKeeps
    <2>3. ASSUME NEW o \in Others, StartOther(o) PROVE IInv'
      <3>1. TypeOK' /\ Counts'
        BY <2>3 DEF IInv, TypeOK, Counts, ToldAtStartOrNever, StartOther, CountOut, vectors, Ops
      <3> QED BY <2>3, <3>1, OthersKeep, KindsAssumption
              DEF IInv, TypeOK, NeverBlocks, StartOther, Ops
    <2>4. ASSUME NEW a \in Acceptors, Arrive(a) PROVE IInv'
      <3>1. TypeOK' /\ Counts'
        BY <2>4, BacklogAssumption DEF IInv, TypeOK, Counts, ToldAtStartOrNever, Arrive,
              vectors, operation
      <3> QED BY <2>4, <3>1, OthersKeep DEF IInv, NeverBlocks, Arrive, operation
    <2>5. ASSUME NEW i \in 1..Len(fds), Serve(i) PROVE IInv'
      BY <2>5, ServeKeeps
    <2>6. CASE RequestStop \/ Run \/ LoopEnds
      <3>1. TypeOK' /\ Counts'
        BY <2>6 DEF IInv, TypeOK, Counts, ToldAtStartOrNever, RequestStop,
              Run, LoopEnds, vectors, operation
      <3> QED BY <2>6, <3>1, OthersKeep
              DEF IInv, NeverBlocks, RequestStop, Run, LoopEnds, operation
    <2>7. CASE UNCHANGED vars
      BY <2>7 DEF vars, IInv, TypeOK, Counts, ToldAtStartOrNever, InStep, NoneLost, NeverBlocks
    <2>8. ASSUME NEW o \in Accepts, Renew(o) PROVE IInv'
      <3>1. TypeOK' /\ Counts'
        BY <2>8 DEF IInv, TypeOK, Counts, ToldAtStartOrNever, Renew, vectors, Ops
      <3> QED BY <2>8, <3>1, OthersKeep DEF IInv, TypeOK, NeverBlocks, Renew, Ops
    <2> QED BY <2>1, <2>2, <2>3, <2>4, <2>5, <2>6, <2>7, <2>8 DEF Next
  <1> QED BY <1>1, <1>2, PTL DEF Spec

(***************************************************************************)
(* Type correctness: an operation is counted out at most once too often.   *)
(***************************************************************************)
THEOREM TypeCorrect == Spec => []TypeOK
  BY Invariance, PTL DEF IInv

(***************************************************************************)
(* The entries of the two vectors belong together.                         *)
(***************************************************************************)
THEOREM VectorsInStep == Spec => []InStep
  BY Invariance, PTL DEF IInv

(***************************************************************************)
(* No waiting operation loses its entry, and none has two.                 *)
(***************************************************************************)
THEOREM WaitersHaveEntries == Spec => []NoneLost
  BY Invariance, PTL DEF IInv

(***************************************************************************)
(* No accept() of the loop blocks it.                                      *)
(***************************************************************************)
THEOREM AcceptNeverBlocks == Spec => []NeverBlocks
  BY Invariance, PTL DEF IInv

(***************************************************************************)
(* No receiver hears of a failed accept(), or of being stopped.            *)
(***************************************************************************)
THEOREM ReceiversAreToldTooEarly == Spec => []ToldAtStartOrNever
  BY Invariance, PTL DEF IInv, Counts
=============================================================================
