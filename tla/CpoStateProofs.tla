--------------------------- MODULE CpoStateProofs ---------------------------
(***************************************************************************)
(* The safety of CpoState for every set of operations and stop sources,    *)
(* wherever stop is requested: a receiver is completed at most once, with  *)
(* a value only if the attempt succeeded, as AsyncOp promises.             *)
(*                                                                         *)
(* OpInv(o) speaks of one operation and its stop source only, and a step   *)
(* is the step of one operation or of one stop source: the proof that a    *)
(* step preserves IInv looks at the operation that moves (one lemma per    *)
(* action) and leaves the others to OneMoves.                              *)
(*                                                                         *)
(* The second half is about stop requested on the loop's thread: LoopInv   *)
(* says what that adds, again operation by operation, and is proved with   *)
(* IInv as what is known of the step before.                               *)
(***************************************************************************)
EXTENDS CpoState, TLAPS

\* The variables of an operation.
Local(o) == <<outstanding[o], callback[o], event[o], result[o], signals[o],
              frame[o], cancel[o]>>

LEMMA Untouched ==
    ASSUME NEW o \in Ops, OpInv(o), UNCHANGED Local(o),
           stop[Token[o]] => stop'[Token[o]]
    PROVE  OpInv(o)'
BY DEF OpInv, Accounting, Registration, Attempt, Unadded, Unready, Asked, Local, StateCount,
       CallbackCount, Floor, Signalled

LEMMA OneMoves ==
    ASSUME IInv, NEW o \in Ops, UNCHANGED stop, TypeOK', OpInv(o)',
           \A p \in Ops \ {o} : UNCHANGED Local(p)
    PROVE  IInv'
BY Untouched DEF IInv

\* A first signal is the only one.
LEMMA FirstSignal ==
    ASSUME NEW how \in Completions
    PROVE  /\ Append(<<>>, how) = <<how>>
           /\ <<how>> \in Histories
           /\ Len(<<how>>) = 1
           /\ <<how>> # <<>>
           /\ Head(<<how>>) = how
BY DEF Histories

LEMMA InitInv == Init => IInv
<1>1. <<>> \in Histories
  BY DEF Histories
<1> QED
  BY <1>1 DEF Init, IInv, TypeOK, OpInv, Accounting, Registration, Attempt, Asked,
       StateCount, CallbackCount, Floor, Signalled, Frames, AtRest, Drops

-----------------------------------------------------------------------------
(***************************************************************************)
(* What a decrement of _D_outstanding does: the count is 1 exactly if the  *)
(* receiver is not completed and nobody else has to count the operation    *)
(* out, so the signal it gives then is the first.                          *)
(***************************************************************************)
LEMMA DropFacts ==
    ASSUME IInv, NEW o \in Ops, NEW how \in Completions, Drop(o, how),
           frame[o] \in Drops \/ cancel[o] # "off"
    PROVE  /\ outstanding' \in [Ops -> -2..2]
           /\ signals' \in [Ops -> Histories]
           /\ outstanding'[o] = outstanding[o] - 1
           /\ \A p \in Ops \ {o} : UNCHANGED <<outstanding[p], signals[p]>>
           /\ outstanding[o] = 1
                 <=> ~Signalled(o) /\ cancel[o] \in {"off", "inc", "dropState"}
           /\ outstanding[o] = 1
                 => signals'[o] = <<how>> /\ Len(signals'[o]) = 1 /\ signals'[o] # <<>>
           /\ outstanding[o] # 1 => signals'[o] = signals[o]
<1>1. outstanding[o] - 1 \in -2..2
  BY DEF IInv, TypeOK, OpInv, Accounting, StateCount, CallbackCount, Floor, Drops, Registration
<1>2. outstanding[o] = 1 <=> ~Signalled(o) /\ cancel[o] \in {"off", "inc", "dropState"}
  BY DEF IInv, TypeOK, OpInv, Accounting, StateCount, CallbackCount, Floor, Drops, Registration
<1>3. outstanding[o] = 1 => Append(signals[o], how) = <<how>>
  BY <1>2, FirstSignal DEF Signalled
<1>4. signals' \in [Ops -> Histories]
  BY <1>3, FirstSignal DEF IInv, TypeOK, Drop
<1> QED
  BY <1>1, <1>2, <1>3, <1>4, FirstSignal DEF IInv, TypeOK, Drop

\* An operation whose callback is engaged got no value.
LEMMA NoValueYet ==
    ASSUME IInv, NEW o \in Ops, callback[o] # "none"
    PROVE  signals[o] # <<"value">>
<1>1. <<"value">> # <<>> /\ <<"value">> # <<"stopped">>
  OBVIOUS
<1>2. Signalled(o) => callback[o] = "spent"
  BY DEF IInv, TypeOK, OpInv, Registration, Accounting
<1> QED
  BY <1>1, <1>2 DEF IInv, OpInv, Registration, Signalled

-----------------------------------------------------------------------------
LEMMA LaunchInv ==
    ASSUME IInv, NEW o \in Ops, Launch(o)
    PROVE  IInv'
<1>1. TypeOK'
  BY DEF IInv, TypeOK, Launch, Goto, AtRest, Frames
<1>2. OpInv(o)'
  BY DEF IInv, TypeOK, Launch, Goto, Drops, OpInv,
     Accounting, Registration, Attempt, Unadded, Unready, Asked, StateCount, CallbackCount,
     Floor, Signalled
<1>3. \A p \in Ops \ {o} : UNCHANGED Local(p)
  BY DEF IInv, TypeOK, Launch, Goto, Local
<1> QED
  BY <1>1, <1>2, <1>3, OneMoves DEF Launch

LEMMA UpstreamValueInv ==
    ASSUME IInv, NEW o \in Ops, UpstreamValue(o)
    PROVE  IInv'
<1>1. TypeOK'
  BY DEF IInv, TypeOK, UpstreamValue, Goto, AtRest, Frames, OpInv, Accounting,
         Registration, StateCount, CallbackCount
<1>2. OpInv(o)'
  BY DEF IInv, TypeOK, UpstreamValue, Goto, Drops, OpInv,
     Accounting, Registration, Attempt, Unadded, Unready, Asked, StateCount, CallbackCount,
     Floor, Signalled
<1>3. \A p \in Ops \ {o} : UNCHANGED Local(p)
  BY DEF IInv, TypeOK, UpstreamValue, Goto, Local
<1> QED
  BY <1>1, <1>2, <1>3, OneMoves DEF UpstreamValue

LEMMA UpstreamFailsInv ==
    ASSUME IInv, NEW o \in Ops, NEW how \in {"error", "stopped"}, UpstreamFails(o, how)
    PROVE  IInv'
<1>1. signals[o] = <<>> /\ outstanding[o] = 0 /\ cancel[o] = "off" /\ callback[o] = "none"
  BY DEF IInv, TypeOK, UpstreamFails, OpInv, Registration, Accounting, StateCount,
         CallbackCount, Signalled
<1>2. /\ signals' = [signals EXCEPT ![o] = <<how>>]
      /\ <<how>> \in Histories /\ <<how>> # <<>> /\ Len(<<how>>) = 1
      /\ <<how>> # <<"value">>
  BY <1>1, FirstSignal DEF UpstreamFails, Completions
<1>3. TypeOK'
  <2>1. frame' = [frame EXCEPT ![o] = "parked"]
    BY DEF UpstreamFails, Goto
  <2>2. UNCHANGED <<outstanding, callback, event, result, cancel, stop>>
    BY DEF UpstreamFails
  <2> QED
    BY <1>2, <2>1, <2>2 DEF IInv, TypeOK, Frames, AtRest
<1>4. OpInv(o)'
  BY <1>1, <1>2 DEF IInv, TypeOK, UpstreamFails, Goto, Drops, OpInv, Accounting,
     Registration, Attempt, Unadded, Unready, Asked, StateCount, CallbackCount, Floor, Signalled
<1>5. \A p \in Ops \ {o} : UNCHANGED Local(p)
  BY DEF IInv, TypeOK, UpstreamFails, Goto, Local
<1> QED
  BY <1>3, <1>4, <1>5, OneMoves DEF UpstreamFails

LEMMA EmplaceInv ==
    ASSUME IInv, NEW o \in Ops, Emplace(o)
    PROVE  IInv'
<1>1. TypeOK'
  BY DEF IInv, TypeOK, Emplace, Goto, Frames
<1>2. OpInv(o)'
  BY DEF IInv, TypeOK, Emplace, Goto, Drops, OpInv,
     Accounting, Registration, Attempt, Unadded, Unready, Asked, StateCount, CallbackCount,
     Floor, Signalled
<1>3. \A p \in Ops \ {o} : UNCHANGED Local(p)
  BY DEF IInv, TypeOK, Emplace, Goto, Local
<1> QED
  BY <1>1, <1>2, <1>3, OneMoves DEF Emplace

LEMMA LeaveEmplaceInv ==
    ASSUME IInv, NEW o \in Ops, LeaveEmplace(o)
    PROVE  IInv'
<1>1. TypeOK'
  BY DEF IInv, TypeOK, LeaveEmplace, Goto, Frames
<1>2. OpInv(o)'
  BY DEF IInv, TypeOK, LeaveEmplace, Goto, Drops, OpInv,
     Accounting, Registration, Attempt, Unadded, Unready, Asked, StateCount, CallbackCount,
     Floor, Signalled
<1>3. \A p \in Ops \ {o} : UNCHANGED Local(p)
  BY DEF IInv, TypeOK, LeaveEmplace, Goto, Local
<1> QED
  BY <1>1, <1>2, <1>3, OneMoves DEF LeaveEmplace

LEMMA CheckInv ==
    ASSUME IInv, NEW o \in Ops, Check(o)
    PROVE  IInv'
<1>1. TypeOK'
  BY DEF IInv, TypeOK, Check, Goto, Frames, Resets
<1>2. OpInv(o)'
  BY DEF IInv, TypeOK, Check, Goto, Drops, OpInv,
     Accounting, Registration, Attempt, Unadded, Unready, Asked, StateCount, CallbackCount,
     Floor, Signalled
<1>3. \A p \in Ops \ {o} : UNCHANGED Local(p)
  BY DEF IInv, TypeOK, Check, Goto, Local
<1> QED
  BY <1>1, <1>2, <1>3, OneMoves DEF Check

LEMMA ResetCallbackInv ==
    ASSUME IInv, NEW o \in Ops, ResetCallback(o)
    PROVE  IInv'
<1>1. TypeOK'
  BY DEF IInv, TypeOK, ResetCallback, Goto, Frames, Resets, Drops, AfterReset
<1>2. OpInv(o)'
  BY DEF IInv, TypeOK, ResetCallback, Goto, Frames, Resets, Drops, AfterReset, OpInv,
     Accounting, Registration, Attempt, Unadded, Unready, Asked, StateCount, CallbackCount,
     Floor, Signalled
<1>3. \A p \in Ops \ {o} : UNCHANGED Local(p)
  BY DEF IInv, TypeOK, ResetCallback, Goto, Local
<1> QED
  BY <1>1, <1>2, <1>3, OneMoves DEF ResetCallback

LEMMA CancelStartInv ==
    ASSUME IInv, NEW o \in Ops, CancelStart(o)
    PROVE  IInv'
<1>1. "stopped" \in Completions
  BY DEF Completions
<1>2. Drop(o, "stopped") /\ frame[o] \in Drops
  BY DEF CancelStart, Drops
<1>3. TypeOK'
  BY <1>1, <1>2, DropFacts DEF IInv, TypeOK, CancelStart, Goto, Frames, AtRest
<1>4. OpInv(o)'
  BY <1>1, <1>2, DropFacts DEF IInv, TypeOK, CancelStart, Goto, Drops,
         OpInv,
     Accounting, Registration, Attempt, Unadded, Unready, Asked, StateCount, CallbackCount,
     Floor, Signalled
<1>5. \A p \in Ops \ {o} : UNCHANGED Local(p)
  BY <1>1, <1>2, DropFacts DEF IInv, TypeOK, CancelStart, Goto, Local
<1> QED
  BY <1>3, <1>4, <1>5, OneMoves DEF CancelStart

LEMMA SubmitPendingInv ==
    ASSUME IInv, NEW o \in Ops, SubmitPending(o)
    PROVE  IInv'
<1>1. TypeOK'
  BY DEF IInv, TypeOK, SubmitPending, Goto, Frames
<1>2. OpInv(o)'
  BY DEF IInv, TypeOK, SubmitPending, Goto, Drops, OpInv,
     Accounting, Registration, Attempt, Unadded, Unready, Asked, StateCount, CallbackCount,
     Floor, Signalled
<1>3. \A p \in Ops \ {o} : UNCHANGED Local(p)
  BY DEF IInv, TypeOK, SubmitPending, Goto, Local
<1> QED
  BY <1>1, <1>2, <1>3, OneMoves DEF SubmitPending

LEMMA EventAddInv ==
    ASSUME IInv, NEW o \in Ops, EventAdd(o)
    PROVE  IInv'
<1>1. TypeOK'
  BY DEF IInv, TypeOK, EventAdd, Goto, Frames, AtRest
<1>2. OpInv(o)'
  BY DEF IInv, TypeOK, EventAdd, Goto, Drops, OpInv,
     Accounting, Registration, Attempt, Unadded, Unready, Asked, StateCount, CallbackCount,
     Floor, Signalled
<1>3. \A p \in Ops \ {o} : UNCHANGED Local(p)
  BY DEF IInv, TypeOK, EventAdd, Goto, Local
<1> QED
  BY <1>1, <1>2, <1>3, OneMoves DEF EventAdd

LEMMA SubmitSyncInv ==
    ASSUME IInv, NEW o \in Ops, NEW outcome \in {"value", "error"}, SubmitSync(o, outcome)
    PROVE  IInv'
<1>1. signals[o] # <<"value">>
  BY NoValueYet DEF IInv, OpInv, SubmitSync, Registration
<1>2. TypeOK'
  BY DEF IInv, TypeOK, SubmitSync, Goto, Frames, Resets
<1>3. OpInv(o)'
  BY <1>1 DEF IInv, TypeOK, SubmitSync, Goto, Drops, OpInv, Accounting, Registration,
     Attempt, Unadded, Unready, Asked, StateCount, CallbackCount, Floor, Signalled
<1>4. \A p \in Ops \ {o} : UNCHANGED Local(p)
  BY DEF IInv, TypeOK, SubmitSync, Goto, Local
<1> QED
  BY <1>2, <1>3, <1>4, OneMoves DEF SubmitSync

LEMMA CompleteSyncInv ==
    ASSUME IInv, NEW o \in Ops, CompleteSync(o)
    PROVE  IInv'
<1>1. result[o] \in Completions
  BY DEF IInv, TypeOK, OpInv, Attempt, CompleteSync, Completions
<1>2. Drop(o, result[o]) /\ frame[o] \in Drops
  BY DEF CompleteSync, Drops
<1>3. TypeOK'
  BY <1>1, <1>2, DropFacts DEF IInv, TypeOK, CompleteSync, Goto, Frames, AtRest, Resets
<1>4. OpInv(o)'
  BY <1>1, <1>2, DropFacts DEF IInv, TypeOK, CompleteSync, Goto, Drops,
         OpInv,
     Accounting, Registration, Attempt, Unadded, Unready, Asked, StateCount, CallbackCount,
     Floor, Signalled
<1>5. \A p \in Ops \ {o} : UNCHANGED Local(p)
  BY <1>1, <1>2, DropFacts DEF IInv, TypeOK, CompleteSync, Goto, Local
<1> QED
  BY <1>3, <1>4, <1>5, OneMoves DEF CompleteSync

LEMMA CompleteStartInv ==
    ASSUME IInv, NEW o \in Ops, CompleteStart(o)
    PROVE  IInv'
<1>1. "value" \in Completions
  BY DEF Completions
<1>2. Drop(o, "value") /\ frame[o] \in Drops
  BY DEF CompleteStart, Drops
<1>3. TypeOK'
  BY <1>1, <1>2, DropFacts DEF IInv, TypeOK, CompleteStart, Goto, Frames, AtRest
<1>4. OpInv(o)'
  BY <1>1, <1>2, DropFacts DEF IInv, TypeOK, CompleteStart, Goto, Drops,
         OpInv,
     Accounting, Registration, Attempt, Unadded, Unready, Asked, StateCount, CallbackCount,
     Floor, Signalled
<1>5. \A p \in Ops \ {o} : UNCHANGED Local(p)
  BY <1>1, <1>2, DropFacts DEF IInv, TypeOK, CompleteStart, Goto, Local
<1> QED
  BY <1>3, <1>4, <1>5, OneMoves DEF CompleteStart

LEMMA ActivateInv ==
    ASSUME IInv, NEW o \in Ops, Activate(o)
    PROVE  IInv'
<1>1. TypeOK'
  BY DEF IInv, TypeOK, Activate
<1>2. OpInv(o)'
  BY DEF IInv, TypeOK, Activate, Drops, OpInv,
     Accounting, Registration, Attempt, Unadded, Unready, Asked, StateCount, CallbackCount,
     Floor, Signalled
<1>3. \A p \in Ops \ {o} : UNCHANGED Local(p)
  BY DEF IInv, TypeOK, Activate, Local
<1> QED
  BY <1>1, <1>2, <1>3, OneMoves DEF Activate

LEMMA WorkInv ==
    ASSUME IInv, NEW o \in Ops, NEW outcome \in {"value", "error", "again"}, Work(o, outcome)
    PROVE  IInv'
<1>1. signals[o] # <<"value">> /\ frame[o] = "parked" /\ callback[o] # "none"
  BY NoValueYet DEF IInv, OpInv, Work, Attempt
<1>2. TypeOK'
  BY DEF IInv, TypeOK, Work, Goto, Frames, Resets
<1>3. OpInv(o)'
  <2>1. CASE outcome = "again"
    <3>1. o \in Nonblocking
      BY <2>1 DEF Work, WorkOutcomes
    <3> QED
      BY <1>1, <2>1, <3>1 DEF IInv, TypeOK, Work, Drops, OpInv, Accounting, Registration,
         Attempt, Unadded, Unready, Asked, StateCount, CallbackCount, Floor, Signalled
  <2>2. CASE outcome # "again"
    BY <1>1, <2>2 DEF IInv, TypeOK, Work, Goto, Drops, OpInv, Accounting, Registration,
       Attempt, Unadded, Unready, Asked, StateCount, CallbackCount, Floor, Signalled
  <2> QED BY <2>1, <2>2
<1>4. \A p \in Ops \ {o} : UNCHANGED Local(p)
  BY DEF IInv, TypeOK, Work, Goto, Local
<1> QED
  BY <1>2, <1>3, <1>4, OneMoves DEF Work

LEMMA CompleteWorkInv ==
    ASSUME IInv, NEW o \in Ops, CompleteWork(o)
    PROVE  IInv'
<1>1. result[o] \in Completions
  BY DEF IInv, TypeOK, OpInv, Attempt, CompleteWork, Completions
<1>2. Drop(o, result[o]) /\ frame[o] \in Drops
  BY DEF CompleteWork, Drops
<1>3. TypeOK'
  BY <1>1, <1>2, DropFacts DEF IInv, TypeOK, CompleteWork, Goto, Frames, AtRest
<1>4. OpInv(o)'
  BY <1>1, <1>2, DropFacts DEF IInv, TypeOK, CompleteWork, Goto, Drops,
         OpInv,
     Accounting, Registration, Attempt, Unadded, Unready, Asked, StateCount, CallbackCount,
     Floor, Signalled
<1>5. \A p \in Ops \ {o} : UNCHANGED Local(p)
  BY <1>1, <1>2, DropFacts DEF IInv, TypeOK, CompleteWork, Goto, Local
<1> QED
  BY <1>3, <1>4, <1>5, OneMoves DEF CompleteWork

LEMMA BeginCancelInv ==
    ASSUME IInv, NEW o \in Ops, BeginCancel(o)
    PROVE  IInv'
<1>1. cancel[o] = "off" /\ ~Signalled(o) /\ OpInv(o)
  BY DEF IInv, BeginCancel, OpInv, Registration
<1>2. cancel'[o] = "inc" /\ callback'[o] = "running"
  BY DEF IInv, TypeOK, BeginCancel
<1>3. UNCHANGED <<outstanding, event, result, signals, frame, stop>>
  BY DEF BeginCancel
<1>4. TypeOK'
  BY DEF IInv, TypeOK, BeginCancel
<1>5. OpInv(o)'
  BY <1>1, <1>2, <1>3 DEF BeginCancel, Drops, OpInv, Accounting, Registration,
     Attempt, Unadded, Unready, Asked, StateCount, CallbackCount, Signalled
<1>6. \A p \in Ops \ {o} : UNCHANGED Local(p)
  BY DEF IInv, TypeOK, BeginCancel, Local
<1> QED
  BY <1>3, <1>4, <1>5, <1>6, OneMoves

LEMMA CancelIncInv ==
    ASSUME IInv, NEW o \in Ops, CancelInc(o)
    PROVE  IInv'
<1>1. outstanding[o] = 1 /\ ~Signalled(o) /\ callback[o] = "running"
  BY DEF IInv, TypeOK, CancelInc, OpInv, Accounting, StateCount, CallbackCount, Registration
<1>2. /\ outstanding' = [outstanding EXCEPT ![o] = 2]
      /\ cancel' = [cancel EXCEPT ![o] = "del"]
      /\ UNCHANGED <<callback, event, result, signals, frame, stop>>
  BY <1>1 DEF CancelInc
<1>3. TypeOK'
  BY <1>2 DEF IInv, TypeOK
<1>4. OpInv(o)'
  BY <1>1, <1>2 DEF IInv, TypeOK, CancelInc, OpInv, Accounting, Registration,
     Attempt, Unadded, Unready, Asked, StateCount, CallbackCount, Signalled, Drops
<1>5. \A p \in Ops \ {o} : UNCHANGED Local(p)
  BY <1>2 DEF IInv, TypeOK, Local
<1> QED
  BY <1>2, <1>3, <1>4, <1>5, OneMoves

LEMMA CancelDelInv ==
    ASSUME IInv, NEW o \in Ops, CancelDel(o)
    PROVE  IInv'
<1>1. TypeOK'
  BY DEF IInv, TypeOK, CancelDel
<1>2. OpInv(o)'
  BY DEF IInv, TypeOK, CancelDel, Drops, OpInv,
     Accounting, Registration, Attempt, Unadded, Unready, Asked, StateCount, CallbackCount,
     Floor, Signalled
<1>3. \A p \in Ops \ {o} : UNCHANGED Local(p)
  BY DEF IInv, TypeOK, CancelDel, Local
<1> QED
  BY <1>1, <1>2, <1>3, OneMoves DEF CancelDel

LEMMA CancelDropCallbackInv ==
    ASSUME IInv, NEW o \in Ops, CancelDropCallback(o)
    PROVE  IInv'
<1>1. "stopped" \in Completions
  BY DEF Completions
<1>2. Drop(o, "stopped") /\ cancel[o] # "off"
  BY DEF CancelDropCallback, Drops
<1>3. TypeOK'
  BY <1>1, <1>2, DropFacts DEF IInv, TypeOK, CancelDropCallback
<1>4. OpInv(o)'
  BY <1>1, <1>2, DropFacts DEF IInv, TypeOK, CancelDropCallback, Drops,
         OpInv,
     Accounting, Registration, Attempt, Unadded, Unready, Asked, StateCount, CallbackCount,
     Floor, Signalled
<1>5. \A p \in Ops \ {o} : UNCHANGED Local(p)
  BY <1>1, <1>2, DropFacts DEF IInv, TypeOK, CancelDropCallback, Local
<1> QED
  BY <1>3, <1>4, <1>5, OneMoves DEF CancelDropCallback

LEMMA CancelDropStateInv ==
    ASSUME IInv, NEW o \in Ops, CancelDropState(o)
    PROVE  IInv'
<1>1. "stopped" \in Completions
  BY DEF Completions
<1>2. Drop(o, "stopped") /\ cancel[o] # "off"
  BY DEF CancelDropState, Drops
<1>3. TypeOK'
  BY <1>1, <1>2, DropFacts DEF IInv, TypeOK, CancelDropState
<1>4. OpInv(o)'
  BY <1>1, <1>2, DropFacts DEF IInv, TypeOK, CancelDropState, Drops,
         OpInv,
     Accounting, Registration, Attempt, Unadded, Unready, Asked, StateCount, CallbackCount,
     Floor, Signalled
<1>5. \A p \in Ops \ {o} : UNCHANGED Local(p)
  BY <1>1, <1>2, DropFacts DEF IInv, TypeOK, CancelDropState, Local
<1> QED
  BY <1>3, <1>4, <1>5, OneMoves DEF CancelDropState

LEMMA RequestStopInv ==
    ASSUME IInv, NEW s \in Sources, RequestStop(s)
    PROVE  IInv'
<1>1. TypeOK'
  BY DEF IInv, TypeOK, RequestStop
<1>2. ASSUME NEW o \in Ops PROVE OpInv(o)'
  <2>1. stop[Token[o]] => stop'[Token[o]]
    BY TokenAssumption DEF IInv, TypeOK, RequestStop
  <2>2. UNCHANGED Local(o)
    BY DEF RequestStop, Local
  <2> QED
    BY <2>1, <2>2, Untouched DEF IInv
<1> QED
  BY <1>1, <1>2 DEF IInv

LEMMA NextInv == IInv /\ [Next]_vars => IInv'
<1> SUFFICES ASSUME IInv, [Next]_vars PROVE IInv'
  OBVIOUS
<1>1. ASSUME NEW o \in Ops, Launch(o) \/ UpstreamStep(o) PROVE IInv'
  BY <1>1, LaunchInv, UpstreamValueInv, UpstreamFailsInv DEF UpstreamStep
<1>2. ASSUME NEW o \in Ops, StartStep(o) PROVE IInv'
  BY <1>2, EmplaceInv, LeaveEmplaceInv, CheckInv, ResetCallbackInv, CancelStartInv,
     SubmitPendingInv, EventAddInv, SubmitSyncInv, CompleteSyncInv, CompleteStartInv
     DEF StartStep
<1>3. ASSUME NEW o \in Ops, Activate(o) \/ WorkStep(o) PROVE IInv'
  BY <1>3, ActivateInv, WorkInv, CompleteWorkInv DEF WorkStep
<1>4. ASSUME NEW o \in Ops, CancelStep(o) PROVE IInv'
  BY <1>4, BeginCancelInv, CancelIncInv, CancelDelInv, CancelDropCallbackInv,
     CancelDropStateInv DEF CancelStep
<1>5. ASSUME NEW s \in Sources, RequestStop(s) PROVE IInv'
  BY <1>5, RequestStopInv
<1>6. CASE UNCHANGED vars
  <2>1. \A o \in Ops : UNCHANGED Local(o) /\ UNCHANGED stop
    BY <1>6 DEF vars, Local
  <2>2. TypeOK'
    BY <1>6 DEF IInv, TypeOK, vars
  <2> QED
    BY <2>1, <2>2, Untouched DEF IInv
<1> QED
  BY <1>1, <1>2, <1>3, <1>4, <1>5, <1>6 DEF Next

(***************************************************************************)
(* The accounting of _D_outstanding, the callback and the event is an      *)
(* invariant; the types are part of it.                                    *)
(***************************************************************************)
THEOREM Invariance == Spec => []IInv
<1>1. Init => IInv
  BY InitInv
<1>2. IInv /\ [Next]_vars => IInv'
  BY NextInv
<1> QED
  BY <1>1, <1>2, PTL DEF Spec

(***************************************************************************)
(* The count stays between -2 and 2, and every variable in its set.        *)
(***************************************************************************)
THEOREM TypeCorrect == Spec => []TypeOK
<1>1. IInv => TypeOK
  BY DEF IInv
<1> QED
  BY <1>1, Invariance, PTL

(***************************************************************************)
(* No interleaving of the start, the event and the stop request completes  *)
(* a receiver twice.                                                       *)
(***************************************************************************)
THEOREM CompletesOnce == Spec => []AtMostOnce
<1>1. IInv => AtMostOnce
  <2> SUFFICES ASSUME IInv, NEW o \in Ops PROVE Len(signals[o]) <= 1
    BY DEF AtMostOnce
  <2>1. Signalled(o) => Len(signals[o]) = 1
    BY DEF IInv, OpInv, Accounting
  <2>2. ~Signalled(o) => Len(signals[o]) = 0
    BY DEF Signalled
  <2>3. Len(signals[o]) \in {0, 1}
    BY <2>1, <2>2 DEF Signalled
  <2>4. \A n \in {0, 1} : n <= 1
    OBVIOUS
  <2> QED
    BY <2>3, <2>4, Zenon
<1> QED
  BY <1>1, Invariance, PTL

(***************************************************************************)
(* A receiver gets a value only from an attempt that succeeded.            *)
(***************************************************************************)
THEOREM ValuesAreEarned == Spec => []ValueIsEarned
<1>1. IInv => ValueIsEarned
  BY DEF IInv, OpInv, Attempt, ValueIsEarned
<1> QED
  BY <1>1, Invariance, PTL

(***************************************************************************)
(* An operation that is parked and neither completed nor being stopped is  *)
(* waited for by libevent, or is one of the two kinds that nobody waits    *)
(* for, and can still be stopped; whichever thread stops other operations. *)
(***************************************************************************)
THEOREM NoneForgotten == Spec => []NotForgotten
<1>1. IInv => NotForgotten
  <2> SUFFICES ASSUME IInv, NEW o \in Ops, frame[o] = "parked", ~Signalled(o),
                      cancel[o] = "off"
               PROVE  /\ event[o] \in {"pending", "active"} \/ Unadded(o) \/ Unready(o)
                      /\ callback[o] = "armed" /\ outstanding[o] = 1
    BY DEF NotForgotten
  <2>1. callback[o] = "armed"
    <3>1. <<"stopped">> # <<>>
      OBVIOUS
    <3>2. callback[o] # "spent"
      BY <3>1 DEF IInv, OpInv, Registration, Signalled
    <3>3. callback[o] \notin {"none", "running"}
      BY DEF IInv, OpInv, Registration
    <3> QED
      BY <3>2, <3>3 DEF IInv, TypeOK
  <2>2. outstanding[o] = 1
    BY DEF IInv, OpInv, Accounting, StateCount, CallbackCount
  <2> QED
    BY <2>1, <2>2 DEF IInv, OpInv, Attempt
<1> QED
  BY <1>1, Invariance, PTL

(***************************************************************************)
(* Whoever requests stop, and whenever: a result is delivered, or the      *)
(* receiver is told that the operation was stopped.                        *)
(***************************************************************************)
THEOREM ResultsAreAnswered == Spec => []ResultOrStop
<1>1. IInv => ResultOrStop
  <2> SUFFICES ASSUME IInv, NEW o \in Ops, result[o] # "none", frame[o] = "parked"
               PROVE  signals[o] \in {<<result[o]>>, <<"stopped">>}
    BY DEF ResultOrStop
  <2> QED
    BY DEF IInv, OpInv, Attempt
<1> QED
  BY <1>1, Invariance, PTL

(***************************************************************************)
(* A callback that has been executed has completed its operation, and one  *)
(* that is not registered is not needed any more: so when request_stop()   *)
(* has gone through the callbacks, nobody is left to be stopped.           *)
(***************************************************************************)
THEOREM StoppingIsComplete == Spec => []NoneOutlivesStop
<1>1. IInv => NoneOutlivesStop
  <2> SUFFICES ASSUME IInv, NEW o \in Ops, frame[o] = "parked", StopReturned(Token[o])
               PROVE  Signalled(o)
    BY DEF NoneOutlivesStop
  <2>1. callback[o] \in {"none", "spent"}
    BY DEF IInv, TypeOK, OpInv, Registration, StopReturned
  <2>2. CASE callback[o] = "none"
    BY <2>2 DEF IInv, OpInv, Registration
  <2>3. CASE callback[o] = "spent"
    BY <2>3 DEF IInv, OpInv, Registration, Signalled
  <2> QED
    BY <2>1, <2>2, <2>3
<1> QED
  BY <1>1, Invariance, PTL

-----------------------------------------------------------------------------
(***************************************************************************)
(* The contract: a step gives an operation its first signal, starts it,    *)
(* requests stop, or is none of the contract's business.                   *)
(***************************************************************************)
StartedAsBefore == \A o \in Ops : frame'[o] = "idle" <=> frame[o] = "idle"

LEMMA SilentStep ==
    ASSUME UNCHANGED <<signals, stop>>, StartedAsBefore
    PROVE  UNCHANGED Contract!vars
BY DEF StartedAsBefore, Contract!vars, Phase, Signalled

LEMMA SignalStep ==
    ASSUME NEW o \in Ops, NEW how \in Completions, StartedAsBefore, UNCHANGED stop,
           signals \in [Ops -> Histories],
           signals' = [signals EXCEPT ![o] = Append(@, how)],
           frame[o] # "idle", ~Signalled(o), how = "stopped" => stop[Token[o]]
    PROVE  Contract!Next
<1>1. signals' = [signals EXCEPT ![o] = <<how>>] /\ <<how>> # <<>> /\ Head(<<how>>) = how
  BY FirstSignal DEF Signalled
<1>2. Phase[o] = "started"
  BY DEF Phase, Signalled
<1>3. Phase' = [Phase EXCEPT ![o] = how]
  BY <1>1 DEF Phase, Signalled, StartedAsBefore
<1>4. Contract!Finish(o, how)
  BY <1>2, <1>3 DEF Contract!Finish
<1> QED
  BY <1>4 DEF Contract!Next, Contract!Completions, Completions

LEMMA DropStep ==
    ASSUME IInv, NEW o \in Ops, NEW how \in Completions, Drop(o, how),
           StartedAsBefore, UNCHANGED stop, frame[o] \in Drops \/ cancel[o] # "off",
           how = "stopped" => stop[Token[o]]
    PROVE  [Contract!Next]_(Contract!vars)
<1>1. CASE outstanding[o] = 1
  <2>1. ~Signalled(o) /\ frame[o] # "idle"
    BY <1>1, DropFacts DEF IInv, OpInv, Registration, Drops
  <2>2. signals' = [signals EXCEPT ![o] = Append(@, how)] /\ signals \in [Ops -> Histories]
    BY <1>1 DEF Drop, IInv, TypeOK
  <2> QED
    BY <2>1, <2>2, SignalStep
<1>2. CASE outstanding[o] # 1
  <2>1. signals' = signals
    BY <1>2 DEF Drop, IInv, TypeOK
  <2> QED
    BY <2>1, SilentStep
<1> QED
  BY <1>1, <1>2

LEMMA InitKeepsContract == Init => Contract!Init
BY DEF Init, Contract!Init, Phase, Signalled

LEMMA StepKeepsContract == IInv /\ [Next]_vars => [Contract!Next]_(Contract!vars)
<1> SUFFICES ASSUME IInv, [Next]_vars PROVE [Contract!Next]_(Contract!vars)
  OBVIOUS
<1>1. ASSUME NEW o \in Ops, Launch(o) PROVE Contract!Next
  <2>1. ~Signalled(o) /\ frame[o] = "idle"
    BY <1>1 DEF IInv, OpInv, Registration, Launch
  <2>2. Phase[o] = "connected" /\ Phase' = [Phase EXCEPT ![o] = "started"]
    BY <1>1, <2>1 DEF IInv, TypeOK, Launch, Goto, Phase, Signalled
  <2> QED
    BY <1>1, <2>2 DEF Launch, Contract!Next, Contract!Start
<1>2. ASSUME NEW o \in Ops, UpstreamStep(o) PROVE [Contract!Next]_(Contract!vars)
  <2>1. StartedAsBefore /\ UNCHANGED stop /\ frame[o] # "idle"
    BY <1>2 DEF IInv, TypeOK, StartedAsBefore, UpstreamStep, UpstreamValue, UpstreamFails, Goto
  <2>2. CASE UpstreamValue(o)
    BY <2>1, <2>2, SilentStep DEF UpstreamValue
  <2>3. ASSUME NEW how \in {"error", "stopped"}, UpstreamFails(o, how) PROVE Contract!Next
    <3>1. ~Signalled(o) /\ signals \in [Ops -> Histories] /\ how \in Completions
      BY <2>3 DEF IInv, TypeOK, OpInv, Registration, UpstreamFails, Completions
    <3> QED
      BY <2>1, <2>3, <3>1, SignalStep DEF UpstreamFails
  <2> QED
    BY <1>2, <2>2, <2>3 DEF UpstreamStep
<1>3. ASSUME NEW o \in Ops, StartStep(o) PROVE [Contract!Next]_(Contract!vars)
  <2>1. StartedAsBefore /\ UNCHANGED stop
    <3>1. frame[o] # "idle" /\ (\E f \in Frames \ {"idle"} : Goto(o, f)) /\ UNCHANGED stop
      BY <1>3 DEF StartStep, Emplace, LeaveEmplace, Check, ResetCallback, CancelStart,
         SubmitPending, EventAdd, SubmitSync, CompleteSync, CompleteStart,
         Frames, AtRest, Resets, Drops, AfterReset
    <3> QED
      BY <3>1 DEF IInv, TypeOK, Goto, StartedAsBefore
  <2>2. CASE CancelStart(o) \/ CompleteSync(o) \/ CompleteStart(o)
    <3>1. frame[o] \in Drops /\ (frame[o] = "stopDrop" => stop[Token[o]])
      BY <2>2 DEF CancelStart, CompleteSync, CompleteStart, Drops, IInv, OpInv, Asked
    <3>2. frame[o] = "syncDrop" => result[o] \in {"value", "error"}
      BY DEF IInv, TypeOK, OpInv, Attempt
    <3>3. CASE CancelStart(o)
      BY <2>1, <3>1, <3>3, DropStep DEF CancelStart, Completions
    <3>4. CASE CompleteSync(o)
      BY <2>1, <3>1, <3>2, <3>4, DropStep DEF CompleteSync, Completions
    <3>5. CASE CompleteStart(o)
      BY <2>1, <3>1, <3>5, DropStep DEF CompleteStart, Completions
    <3> QED
      BY <2>2, <3>3, <3>4, <3>5
  <2>3. CASE ~(CancelStart(o) \/ CompleteSync(o) \/ CompleteStart(o))
    <3>1. UNCHANGED signals
      BY <1>3, <2>3 DEF StartStep, Emplace, LeaveEmplace, Check, ResetCallback,
         SubmitPending, EventAdd, SubmitSync
    <3> QED
      BY <2>1, <3>1, SilentStep
  <2> QED
    BY <2>2, <2>3
<1>4. ASSUME NEW o \in Ops, Activate(o) \/ WorkStep(o) PROVE [Contract!Next]_(Contract!vars)
  <2>1. CASE CompleteWork(o)
    <3>1. result[o] \in {"value", "error"} /\ frame[o] \in Drops
      BY <2>1 DEF IInv, TypeOK, OpInv, Attempt, CompleteWork, Drops
    <3>2. StartedAsBefore
      BY <2>1 DEF IInv, TypeOK, CompleteWork, Goto, StartedAsBefore
    <3> QED
      BY <2>1, <3>1, <3>2, DropStep DEF CompleteWork, Completions
  <2>2. CASE ~CompleteWork(o)
    <3>1. UNCHANGED <<signals, stop>>
      BY <1>4, <2>2 DEF WorkStep, Activate, Work
    <3>2. frame' = frame \/ (frame[o] = "parked" /\ Goto(o, "workReset"))
      BY <1>4, <2>2 DEF WorkStep, Activate, Work, IInv, OpInv, Attempt
    <3>3. StartedAsBefore
      BY <3>2 DEF IInv, TypeOK, Goto, StartedAsBefore
    <3> QED
      BY <3>1, <3>3, SilentStep
  <2> QED
    BY <2>1, <2>2
<1>5. ASSUME NEW o \in Ops, CancelStep(o) PROVE [Contract!Next]_(Contract!vars)
  <2>1. StartedAsBefore /\ UNCHANGED stop
    BY <1>5 DEF CancelStep, BeginCancel, CancelInc, CancelDel, CancelDropCallback,
       CancelDropState, StartedAsBefore
  <2>2. CASE CancelDropCallback(o) \/ CancelDropState(o)
    <3>1. cancel[o] # "off" /\ stop[Token[o]] /\ Drop(o, "stopped")
      BY <2>2 DEF CancelDropCallback, CancelDropState, IInv, OpInv, Asked
    <3> QED
      BY <2>1, <3>1, DropStep DEF Completions
  <2>3. CASE ~(CancelDropCallback(o) \/ CancelDropState(o))
    <3>1. UNCHANGED signals
      BY <1>5, <2>3 DEF CancelStep, BeginCancel, CancelInc, CancelDel
    <3> QED
      BY <2>1, <3>1, SilentStep
  <2> QED
    BY <2>2, <2>3
<1>6. ASSUME NEW s \in Sources, RequestStop(s) PROVE Contract!Next
  <2>1. Phase' = Phase
    BY <1>6 DEF RequestStop, Phase, Signalled
  <2> QED
    BY <1>6, <2>1 DEF RequestStop, Contract!Next, Contract!RequestStop
<1>7. CASE UNCHANGED vars
  BY <1>7, SilentStep DEF vars, StartedAsBefore
<1> QED
  BY <1>1, <1>2, <1>3, <1>4, <1>5, <1>6, <1>7 DEF Next

(***************************************************************************)
(* The counter and the callback implement the contract of an asynchronous  *)
(* operation: started, an operation completes at most once, and is stopped *)
(* only if its receiver's stop source was asked to stop.                   *)
(***************************************************************************)
THEOREM Refinement == Spec => KeepsContract
<1>1. Init => Contract!Init
  BY InitKeepsContract
<1>2. IInv /\ [Next]_vars => [Contract!Next]_(Contract!vars)
  BY StepKeepsContract
<1> QED
  BY <1>1, <1>2, Invariance, PTL DEF Spec, KeepsContract, Contract!Spec
-----------------------------------------------------------------------------
(***************************************************************************)
(* When stop is requested on the loop's thread.  Turns: while callbacks    *)
(* have to be executed or are, no other call is under way, but for that    *)
(* of the constructor that executes its callback in place.                 *)
(***************************************************************************)
Stopping(o) == \/ callback[o] = "armed" /\ stop[Token[o]]
               \/ cancel[o] # "off" /\ frame[o] # "inline"

Turns == \A o \in Ops : Stopping(o) => LoopFree

\* An operation that is submitted can still be stopped ...
Submitted(o) ==
    /\ callback[o] = "spent" => stop[Token[o]]
    /\ frame[o] \in {"submit", "add"} => callback[o] = "armed"
    /\ event[o] # "none" => frame[o] \in {"add", "parked", "workReset", "workDrop"}
    /\ Signalled(o) \/ cancel[o] \in {"dropCallback", "dropState"}
          => event[o] \notin {"pending", "active"}

\* ... and nobody but itself completes it once it has a result.
Delivered(o) ==
    /\ frame[o] \in {"syncReset", "syncDrop", "workReset", "workDrop"} => ~Signalled(o)
    /\ result[o] # "none"
          => frame[o] \in {"parked", "workReset", "workDrop"} \cup Resets \cup Drops
    /\ result[o] # "none" /\ frame[o] \in {"parked", "startReset", "startDrop"}
          => signals[o] = <<result[o]>>
    /\ frame[o] \in {"stopReset", "stopDrop"} => result[o] = "none"

LoopOp(o) == Submitted(o) /\ Delivered(o)

LoopInv == Turns /\ \A o \in Ops : LoopOp(o)

-----------------------------------------------------------------------------
\* A call under way is the only one, but for a callback executed in place.
LEMMA Alone ==
    ASSUME Turns, NEW o \in Ops, frame[o] \notin AtRest
    PROVE  /\ \A p \in Ops : ~Stopping(p)
           /\ frame[o] # "inline" => cancel[o] = "off"
           /\ callback[o] = "armed" => ~stop[Token[o]]
BY DEF Turns, Stopping, LoopFree

LEMMA LaunchLoop ==
    ASSUME IInv, LoopInv, NEW o \in Ops, Launch(o)
    PROVE  LoopOp(o)'
BY Alone DEF Launch, Goto, Drops, Resets,
   IInv, TypeOK, OpInv, Accounting, Registration, Attempt, Unadded, Unready, Asked,
   StateCount, CallbackCount,
   LoopInv, LoopOp, Submitted, Delivered, Signalled

LEMMA UpstreamValueLoop ==
    ASSUME IInv, LoopInv, NEW o \in Ops, UpstreamValue(o)
    PROVE  LoopOp(o)'
BY Alone DEF UpstreamValue, Goto, Drops, Resets,
   IInv, TypeOK, OpInv, Accounting, Registration, Attempt, Unadded, Unready, Asked,
   StateCount, CallbackCount,
   LoopInv, LoopOp, Submitted, Delivered, Signalled

LEMMA UpstreamFailsLoop ==
    ASSUME IInv, LoopInv, NEW o \in Ops, NEW how \in {"error", "stopped"},
           UpstreamFails(o, how)
    PROVE  LoopOp(o)'
BY FirstSignal, Alone DEF UpstreamFails, Goto, Drops, Resets,
   IInv, TypeOK, OpInv, Accounting, Registration, Attempt, Unadded, Unready, Asked,
   StateCount, CallbackCount,
   LoopInv, LoopOp, Submitted, Delivered, Signalled

LEMMA EmplaceLoop ==
    ASSUME IInv, LoopInv, NEW o \in Ops, Emplace(o)
    PROVE  LoopOp(o)'
BY Alone DEF Emplace, Goto, Drops, Resets,
   IInv, TypeOK, OpInv, Accounting, Registration, Attempt, Unadded, Unready, Asked,
   StateCount, CallbackCount,
   LoopInv, LoopOp, Submitted, Delivered, Signalled

LEMMA LeaveEmplaceLoop ==
    ASSUME IInv, LoopInv, NEW o \in Ops, LeaveEmplace(o)
    PROVE  LoopOp(o)'
BY Alone DEF LeaveEmplace, Goto, Drops, Resets,
   IInv, TypeOK, OpInv, Accounting, Registration, Attempt, Unadded, Unready, Asked,
   StateCount, CallbackCount,
   LoopInv, LoopOp, Submitted, Delivered, Signalled

LEMMA CheckLoop ==
    ASSUME IInv, LoopInv, NEW o \in Ops, Check(o)
    PROVE  LoopOp(o)'
BY Alone DEF Check, Goto, Drops, Resets,
   IInv, TypeOK, OpInv, Accounting, Registration, Attempt, Unadded, Unready, Asked,
   StateCount, CallbackCount,
   LoopInv, LoopOp, Submitted, Delivered, Signalled

LEMMA ResetCallbackLoop ==
    ASSUME IInv, LoopInv, NEW o \in Ops, ResetCallback(o)
    PROVE  LoopOp(o)'
BY Alone DEF ResetCallback, Goto, Drops, Resets, AfterReset,
   IInv, TypeOK, OpInv, Accounting, Registration, Attempt, Unadded, Unready, Asked,
   StateCount, CallbackCount,
   LoopInv, LoopOp, Submitted, Delivered, Signalled

LEMMA SubmitPendingLoop ==
    ASSUME IInv, LoopInv, NEW o \in Ops, SubmitPending(o)
    PROVE  LoopOp(o)'
BY Alone DEF SubmitPending, Goto, Drops, Resets,
   IInv, TypeOK, OpInv, Accounting, Registration, Attempt, Unadded, Unready, Asked,
   StateCount, CallbackCount,
   LoopInv, LoopOp, Submitted, Delivered, Signalled

LEMMA EventAddLoop ==
    ASSUME IInv, LoopInv, NEW o \in Ops, EventAdd(o)
    PROVE  LoopOp(o)'
BY Alone DEF EventAdd, Goto, Drops, Resets,
   IInv, TypeOK, OpInv, Accounting, Registration, Attempt, Unadded, Unready, Asked,
   StateCount, CallbackCount,
   LoopInv, LoopOp, Submitted, Delivered, Signalled

LEMMA SubmitSyncLoop ==
    ASSUME IInv, LoopInv, NEW o \in Ops, NEW outcome \in {"value", "error"},
           SubmitSync(o, outcome)
    PROVE  LoopOp(o)'
BY Alone DEF SubmitSync, Goto, Drops, Resets,
   IInv, TypeOK, OpInv, Accounting, Registration, Attempt, Unadded, Unready, Asked,
   StateCount, CallbackCount,
   LoopInv, LoopOp, Submitted, Delivered, Signalled

LEMMA ActivateLoop ==
    ASSUME IInv, LoopInv, NEW o \in Ops, Activate(o)
    PROVE  LoopOp(o)'
BY Alone DEF Activate, Drops, Resets,
   IInv, TypeOK, OpInv, Accounting, Registration, Attempt, Unadded, Unready, Asked,
   StateCount, CallbackCount,
   LoopInv, LoopOp, Submitted, Delivered, Signalled

LEMMA WorkLoop ==
    ASSUME IInv, LoopInv, NEW o \in Ops, NEW outcome \in {"value", "error", "again"},
           Work(o, outcome)
    PROVE  LoopOp(o)'
BY Alone DEF Work, Goto, WorkOutcomes, Drops, Resets,
   IInv, TypeOK, OpInv, Accounting, Registration, Attempt, Unadded, Unready, Asked,
   StateCount, CallbackCount,
   LoopInv, LoopOp, Submitted, Delivered, Signalled

LEMMA BeginCancelLoop ==
    ASSUME IInv, LoopInv, NEW o \in Ops, BeginCancel(o)
    PROVE  LoopOp(o)'
<1>1. frame[o] \in AtRest /\ callback[o] = "armed" /\ ~Signalled(o)
  BY Alone DEF BeginCancel, IInv, OpInv, Registration, LoopInv
<1>2. cancel'[o] = "inc" /\ callback'[o] = "running"
  BY DEF IInv, TypeOK, BeginCancel
<1>3. UNCHANGED <<event, result, signals, frame, stop>>
  BY DEF BeginCancel
<1> QED
  BY <1>1, <1>2, <1>3 DEF AtRest, Resets, Drops,
     LoopInv, LoopOp, Submitted, Delivered, Signalled

LEMMA CancelIncLoop ==
    ASSUME IInv, LoopInv, NEW o \in Ops, CancelInc(o)
    PROVE  LoopOp(o)'
BY Alone DEF CancelInc, Drops, Resets,
   IInv, TypeOK, OpInv, Accounting, Registration, Attempt, Unadded, Unready, Asked,
   StateCount, CallbackCount,
   LoopInv, LoopOp, Submitted, Delivered, Signalled

LEMMA CancelDelLoop ==
    ASSUME IInv, LoopInv, NEW o \in Ops, CancelDel(o)
    PROVE  LoopOp(o)'
BY Alone DEF CancelDel, Drops, Resets,
   IInv, TypeOK, OpInv, Accounting, Registration, Attempt, Unadded, Unready, Asked,
   StateCount, CallbackCount,
   LoopInv, LoopOp, Submitted, Delivered, Signalled

LEMMA CancelStartLoop ==
    ASSUME IInv, LoopInv, NEW o \in Ops, CancelStart(o)
    PROVE  LoopOp(o)'
<1>1. "stopped" \in Completions /\ Drop(o, "stopped") /\ frame[o] \in Drops
  BY DEF CancelStart, Drops, Completions, IInv, TypeOK, OpInv, Attempt
<1> QED
  BY <1>1, DropFacts, Alone DEF CancelStart, Goto, Drops, Resets,
     IInv, TypeOK, OpInv, Accounting, Registration, Attempt, Unadded, Unready, Asked,
     StateCount, CallbackCount,
     LoopInv, LoopOp, Submitted, Delivered, Signalled

LEMMA CompleteSyncLoop ==
    ASSUME IInv, LoopInv, NEW o \in Ops, CompleteSync(o)
    PROVE  LoopOp(o)'
<1>1. result[o] \in Completions /\ Drop(o, result[o]) /\ frame[o] \in Drops
  BY DEF CompleteSync, Drops, Completions, IInv, TypeOK, OpInv, Attempt
<1> QED
  BY <1>1, DropFacts, Alone DEF CompleteSync, Goto, Drops, Resets,
     IInv, TypeOK, OpInv, Accounting, Registration, Attempt, Unadded, Unready, Asked,
     StateCount, CallbackCount,
     LoopInv, LoopOp, Submitted, Delivered, Signalled

LEMMA CompleteStartLoop ==
    ASSUME IInv, LoopInv, NEW o \in Ops, CompleteStart(o)
    PROVE  LoopOp(o)'
<1>1. "value" \in Completions /\ Drop(o, "value") /\ frame[o] \in Drops
  BY DEF CompleteStart, Drops, Completions, IInv, TypeOK, OpInv, Attempt
<1> QED
  BY <1>1, DropFacts, Alone DEF CompleteStart, Goto, Drops, Resets,
     IInv, TypeOK, OpInv, Accounting, Registration, Attempt, Unadded, Unready, Asked,
     StateCount, CallbackCount,
     LoopInv, LoopOp, Submitted, Delivered, Signalled

LEMMA CompleteWorkLoop ==
    ASSUME IInv, LoopInv, NEW o \in Ops, CompleteWork(o)
    PROVE  LoopOp(o)'
<1>1. result[o] \in Completions /\ Drop(o, result[o]) /\ frame[o] \in Drops
  BY DEF CompleteWork, Drops, Completions, IInv, TypeOK, OpInv, Attempt
<1> QED
  BY <1>1, DropFacts, Alone DEF CompleteWork, Goto, Drops, Resets,
     IInv, TypeOK, OpInv, Accounting, Registration, Attempt, Unadded, Unready, Asked,
     StateCount, CallbackCount,
     LoopInv, LoopOp, Submitted, Delivered, Signalled

LEMMA CancelDropCallbackLoop ==
    ASSUME IInv, LoopInv, NEW o \in Ops, CancelDropCallback(o)
    PROVE  LoopOp(o)'
<1>1. "stopped" \in Completions /\ Drop(o, "stopped") /\ cancel[o] # "off"
  BY DEF CancelDropCallback, Drops, Completions, IInv, TypeOK, OpInv, Attempt
<1> QED
  BY <1>1, DropFacts, Alone DEF CancelDropCallback, Goto, Drops, Resets,
     IInv, TypeOK, OpInv, Accounting, Registration, Attempt, Unadded, Unready, Asked,
     StateCount, CallbackCount,
     LoopInv, LoopOp, Submitted, Delivered, Signalled

LEMMA CancelDropStateLoop ==
    ASSUME IInv, LoopInv, NEW o \in Ops, CancelDropState(o)
    PROVE  LoopOp(o)'
<1>1. "stopped" \in Completions /\ Drop(o, "stopped") /\ cancel[o] = "dropState"
  BY DEF CancelDropState, Completions
<1>2. ~Signalled(o) /\ callback[o] = "running" /\ stop[Token[o]]
  BY <1>1 DEF IInv, TypeOK, OpInv, Accounting, Registration, Asked
<1>3. frame[o] \in AtRest \cup {"inline"}
  BY <1>1, Alone DEF LoopInv
<1>4. outstanding[o] = 1
  BY <1>1, <1>2, DropFacts
<1>5. signals'[o] = <<"stopped">> /\ signals'[o] # <<>>
  BY <1>1, <1>4, DropFacts
<1>6. cancel'[o] = "off" /\ callback'[o] = "spent" /\ UNCHANGED <<event, result, frame, stop>>
  BY DEF IInv, TypeOK, CancelDropState
<1>7. result[o] = "none"
  BY <1>2, <1>3 DEF LoopInv, LoopOp, Delivered, Signalled, AtRest, Resets, Drops
<1> QED
  BY <1>1, <1>2, <1>3, <1>5, <1>6, <1>7 DEF AtRest, Resets, Drops,
     LoopInv, LoopOp, Submitted, Delivered, Signalled


-----------------------------------------------------------------------------
\* The operation that moves, and the others.
LEMMA OthersLoop ==
    ASSUME NEW o \in Ops, LoopOp(o), UNCHANGED Local(o),
           stop[Token[o]] => stop'[Token[o]]
    PROVE  LoopOp(o)'
BY DEF LoopOp, Submitted, Delivered, Signalled, Local

LEMMA FrameTurns ==
    ASSUME IInv, Turns, NEW o \in Ops, frame[o] \notin AtRest,
           UNCHANGED stop, \A p \in Ops \ {o} : UNCHANGED Local(p),
           callback'[o] = "armed" => ~stop[Token[o]],
           cancel'[o] = "off" \/ frame'[o] = "inline"
    PROVE  Turns'
BY Alone DEF Turns, Stopping, Local

LEMMA RestTurns ==
    ASSUME LoopTurn, StopThread = "loop", UNCHANGED <<callback, cancel, stop>>
    PROVE  Turns'
BY DEF LoopTurn, StopUnderway, Turns, Stopping

LEMMA CancelTurns ==
    ASSUME IInv, Turns, NEW o \in Ops, CancelStep(o)
    PROVE  Turns'
<1>1. UNCHANGED <<frame, stop>> /\ (LoopFree' <=> LoopFree)
  BY DEF CancelStep, BeginCancel, CancelInc, CancelDel, CancelDropCallback,
     CancelDropState, LoopFree
<1>2. CASE Stopping(o)
  BY <1>1, <1>2 DEF Turns
<1>3. CASE ~Stopping(o)
  <2>1. frame[o] = "inline" /\ cancel[o] # "off"
    BY <1>3 DEF Stopping, CancelStep, BeginCancel, CancelInc, CancelDel,
       CancelDropCallback, CancelDropState
  <2>2. callback'[o] # "armed" /\ frame'[o] = "inline"
    BY <1>1, <2>1 DEF IInv, TypeOK, OpInv, Registration, CancelStep, BeginCancel, CancelInc,
       CancelDel, CancelDropCallback, CancelDropState
  <2>3. \A p \in Ops \ {o} : UNCHANGED <<callback[p], cancel[p]>>
    BY DEF IInv, TypeOK, CancelStep, BeginCancel, CancelInc, CancelDel,
       CancelDropCallback, CancelDropState
  <2> QED
    BY <1>1, <2>1, <2>2, <2>3, Alone DEF Turns, Stopping, AtRest
<1> QED
  BY <1>2, <1>3

\* A step of an operation is its own.
LEMMA Locality ==
    ASSUME IInv, NEW o \in Ops,
           Launch(o) \/ UpstreamStep(o) \/ StartStep(o) \/ Activate(o)
              \/ WorkStep(o) \/ CancelStep(o)
    PROVE  UNCHANGED stop /\ \A p \in Ops \ {o} : UNCHANGED Local(p)
<1>1. CASE Launch(o) \/ UpstreamStep(o)
  BY <1>1 DEF IInv, TypeOK, Local, Goto, Launch, UpstreamStep, UpstreamValue, UpstreamFails
<1>2. CASE StartStep(o)
  BY <1>2 DEF IInv, TypeOK, Local, Goto, Drop, StartStep, Emplace, LeaveEmplace, Check,
     ResetCallback, CancelStart, SubmitPending, EventAdd, SubmitSync, CompleteSync,
     CompleteStart
<1>3. CASE Activate(o) \/ WorkStep(o)
  BY <1>3 DEF IInv, TypeOK, Local, Goto, Drop, Activate, WorkStep, Work, CompleteWork
<1>4. CASE CancelStep(o)
  BY <1>4 DEF IInv, TypeOK, Local, Drop, CancelStep, BeginCancel, CancelInc, CancelDel,
     CancelDropCallback, CancelDropState
<1> QED
  BY <1>1, <1>2, <1>3, <1>4

\* The frames of _Start(), and that of _Work once it completes.
LEMMA CallTurns ==
    ASSUME IInv, Turns, NEW o \in Ops, StartStep(o) \/ CompleteWork(o)
    PROVE  Turns'
<1>1. frame[o] \notin AtRest
  BY DEF StartStep, Emplace, LeaveEmplace, Check, ResetCallback, CancelStart, SubmitPending,
     EventAdd, SubmitSync, CompleteSync, CompleteStart, CompleteWork, AtRest, Resets
<1>2. UNCHANGED stop /\ \A p \in Ops \ {o} : UNCHANGED Local(p)
  BY Locality DEF WorkStep
<1>3. callback[o] = "armed" => ~stop[Token[o]]
  BY <1>1, Alone
<1>4. frame[o] # "inline" => cancel[o] = "off"
  BY <1>1, Alone
<1>5. CASE Emplace(o)
  <2>1. frame[o] = "emplace" /\ cancel[o] = "off"
    BY <1>4, <1>5 DEF Emplace
  <2>2. CASE stop[Token[o]]
    <3>1. callback'[o] = "running" /\ frame'[o] = "inline"
      BY <1>5, <2>2 DEF IInv, TypeOK, Emplace, Goto
    <3> QED
      BY <1>1, <1>2, <3>1, FrameTurns
  <2>3. CASE ~stop[Token[o]]
    <3>1. UNCHANGED cancel
      BY <1>5, <2>3 DEF Emplace
    <3> QED
      BY <1>1, <1>2, <2>1, <2>3, <3>1, FrameTurns
  <2> QED
    BY <2>2, <2>3
<1>6. CASE LeaveEmplace(o)
  BY <1>1, <1>2, <1>3, <1>6, FrameTurns DEF LeaveEmplace
<1>7. CASE ~Emplace(o) /\ ~LeaveEmplace(o)
  <2>1. frame[o] # "inline" /\ UNCHANGED cancel
    BY <1>7 DEF StartStep, Check, ResetCallback, CancelStart, SubmitPending, EventAdd,
       SubmitSync, CompleteSync, CompleteStart, CompleteWork, Resets
  <2>2. callback'[o] = "armed" => callback[o] = "armed"
    BY <1>7 DEF IInv, TypeOK, StartStep, Check, ResetCallback, CancelStart, SubmitPending,
       EventAdd, SubmitSync, CompleteSync, CompleteStart, CompleteWork
  <2> QED
    BY <1>1, <1>2, <1>3, <1>4, <2>1, <2>2, FrameTurns
<1> QED
  BY <1>5, <1>6, <1>7

LEMMA LoopInit == Init => LoopInv
BY DEF Init, LoopInv, Turns, Stopping, LoopOp, Submitted, Delivered, Signalled

LEMMA LoopNext ==
    ASSUME StopThread = "loop", IInv, LoopInv, [Next]_vars
    PROVE  LoopInv'
<1>1. ASSUME NEW o \in Ops, LoopOp(o)', Turns',
             UNCHANGED stop, \A p \in Ops \ {o} : UNCHANGED Local(p)
      PROVE  LoopInv'
  BY <1>1, OthersLoop DEF LoopInv
<1>2. ASSUME NEW o \in Ops, Launch(o) \/ UpstreamStep(o) PROVE LoopInv'
  <2>1. LoopOp(o)'
    BY <1>2, LaunchLoop, UpstreamValueLoop, UpstreamFailsLoop DEF UpstreamStep
  <2>2. Turns'
    BY <1>2, RestTurns DEF Launch, UpstreamStep, UpstreamValue, UpstreamFails
  <2> QED
    BY <1>1, <1>2, <2>1, <2>2, Locality
<1>3. ASSUME NEW o \in Ops, StartStep(o) PROVE LoopInv'
  <2>1. LoopOp(o)'
    BY <1>3, EmplaceLoop, LeaveEmplaceLoop, CheckLoop, ResetCallbackLoop, CancelStartLoop,
       SubmitPendingLoop, EventAddLoop, SubmitSyncLoop, CompleteSyncLoop, CompleteStartLoop
       DEF StartStep
  <2>2. Turns'
    BY <1>3, CallTurns DEF LoopInv
  <2> QED
    BY <1>1, <1>3, <2>1, <2>2, Locality
<1>4. ASSUME NEW o \in Ops, Activate(o) \/ WorkStep(o) PROVE LoopInv'
  <2>1. LoopOp(o)'
    BY <1>4, ActivateLoop, WorkLoop, CompleteWorkLoop DEF WorkStep
  <2>2. Turns'
    <3>1. CASE CompleteWork(o)
      BY <3>1, CallTurns DEF LoopInv
    <3>2. CASE ~CompleteWork(o)
      BY <1>4, <3>2, RestTurns DEF WorkStep, Work, Activate
    <3> QED
      BY <3>1, <3>2
  <2> QED
    BY <1>1, <1>4, <2>1, <2>2, Locality
<1>5. ASSUME NEW o \in Ops, CancelStep(o) PROVE LoopInv'
  <2>1. LoopOp(o)'
    BY <1>5, BeginCancelLoop, CancelIncLoop, CancelDelLoop, CancelDropCallbackLoop,
       CancelDropStateLoop DEF CancelStep
  <2>2. Turns'
    BY <1>5, CancelTurns DEF LoopInv
  <2> QED
    BY <1>1, <1>5, <2>1, <2>2, Locality
<1>6. ASSUME NEW s \in Sources, RequestStop(s) PROVE LoopInv'
  <2>1. Turns'
    BY <1>6 DEF RequestStop, LoopTurn, Turns, LoopFree
  <2>2. ASSUME NEW o \in Ops PROVE LoopOp(o)'
    <3>1. stop[Token[o]] => stop'[Token[o]]
      BY <1>6, TokenAssumption DEF IInv, TypeOK, RequestStop
    <3>2. UNCHANGED Local(o)
      BY <1>6 DEF RequestStop, Local
    <3> QED
      BY <3>1, <3>2, OthersLoop DEF LoopInv
  <2> QED
    BY <2>1, <2>2 DEF LoopInv
<1>7. CASE UNCHANGED vars
  <2>1. Turns'
    BY <1>7 DEF vars, LoopInv, Turns, Stopping, LoopFree
  <2>2. \A o \in Ops : UNCHANGED Local(o) /\ UNCHANGED stop
    BY <1>7 DEF vars, Local
  <2> QED
    BY <2>1, <2>2, OthersLoop DEF LoopInv
<1> QED
  BY <1>2, <1>3, <1>4, <1>5, <1>6, <1>7 DEF Next

(***************************************************************************)
(* On the loop's thread, stopping and the operations' own calls take       *)
(* turns, and an operation is either waited for by libevent, stopped, or   *)
(* completed with its own result.                                          *)
(***************************************************************************)
THEOREM LoopInvariance ==
    ASSUME StopThread = "loop"
    PROVE  Spec => [](IInv /\ LoopInv)
<1>1. Init => IInv /\ LoopInv
  BY InitInv, LoopInit
<1>2. IInv /\ LoopInv /\ [Next]_vars => (IInv /\ LoopInv)'
  BY NextInv, LoopNext
<1> QED
  BY <1>1, <1>2, PTL DEF Spec

(***************************************************************************)
(* With stop on the loop's thread, a completed operation has left libevent *)
(* and is not called again.                                                *)
(***************************************************************************)
THEOREM NothingDangles ==
    ASSUME StopThread = "loop"
    PROVE  Spec => []NoDanglingEvent
<1>1. LoopInv => NoDanglingEvent
  BY DEF LoopInv, LoopOp, Submitted, NoDanglingEvent
<1> QED
  BY <1>1, LoopInvariance, PTL

(***************************************************************************)
(* With stop on the loop's thread, the receiver is told what the attempt   *)
(* at the I/O came to.                                                     *)
(***************************************************************************)
THEOREM ResultsAreDelivered ==
    ASSUME StopThread = "loop"
    PROVE  Spec => []ResultDelivered
<1>1. LoopInv => ResultDelivered
  BY DEF LoopInv, LoopOp, Delivered, ResultDelivered
<1> QED
  BY <1>1, LoopInvariance, PTL

-----------------------------------------------------------------------------
LEMMA LastTouchStep ==
    ASSUME IInv, LoopInv, [Next]_vars, NEW o \in Ops, Signalled(o), event[o] # "none"
    PROVE  UNCHANGED <<outstanding[o], callback[o], event[o], frame[o]>>
<1>1. frame[o] = "parked" /\ event[o] \notin {"pending", "active"}
  BY DEF IInv, TypeOK, OpInv, Registration, LoopInv, LoopOp, Submitted, Delivered
<1>2. cancel[o] = "off" /\ callback[o] # "armed"
  BY DEF IInv, OpInv, Accounting, Registration
<1>3. ASSUME NEW p \in Ops,
             Launch(p) \/ UpstreamStep(p) \/ StartStep(p) \/ Activate(p)
                \/ WorkStep(p) \/ CancelStep(p)
      PROVE  UNCHANGED Local(o)
  <2>1. p # o
    BY <1>1, <1>2, <1>3 DEF Launch, UpstreamStep, UpstreamValue, UpstreamFails, StartStep,
       Emplace, LeaveEmplace, Check, ResetCallback, CancelStart, SubmitPending, EventAdd,
       SubmitSync, CompleteSync, CompleteStart, Activate, WorkStep, Work, CompleteWork,
       CancelStep, BeginCancel, CancelInc, CancelDel, CancelDropCallback, CancelDropState,
       Resets
  <2> QED
    BY <1>3, <2>1, Locality
<1>4. ASSUME NEW s \in Sources, RequestStop(s) PROVE UNCHANGED Local(o)
  BY <1>4 DEF RequestStop, Local
<1>5. CASE UNCHANGED vars
  BY <1>5 DEF vars
<1> QED
  BY <1>3, <1>4, <1>5 DEF Next, Local

(***************************************************************************)
(* With stop on the loop's thread, the library does not touch an operation *)
(* that had to wait for its event once its receiver is completed.          *)
(***************************************************************************)
THEOREM CompletionIsLast ==
    ASSUME StopThread = "loop"
    PROVE  Spec => CompletionIsLastTouch
<1>1. IInv /\ LoopInv /\ [Next]_vars =>
        [\A o \in Ops : Signalled(o) /\ event[o] # "none"
           => UNCHANGED <<outstanding[o], callback[o], event[o], frame[o]>>]_vars
  BY LastTouchStep
<1> QED
  BY <1>1, LoopInvariance, PTL DEF Spec, CompletionIsLastTouch
=============================================================================
