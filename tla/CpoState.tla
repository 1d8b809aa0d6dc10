------------------------------- MODULE CpoState -------------------------------
(***************************************************************************)
(* The life of asynchronous operations on the libevent context: _Cpo_State *)
(* of cpo.hpp (the counter _D_outstanding, the stop callback _D_callback)  *)
(* together with what _Libevent_context does for it: submitting the work,  *)
(* the readiness event, _Work when the event fires, and _Cancel.           *)
(*                                                                         *)
(* The call stack of an operation on the loop's thread is its "frame";     *)
(* that of its _Cancel_callback, wherever request_stop() runs, is          *)
(* "cancel".  Each atomic access to _D_outstanding, each access to the     *)
(* optional _D_callback and each call to libevent is a step.               *)
(***************************************************************************)
EXTENDS Integers, Sequences

CONSTANTS
    Ops,          \* the operation states (_Cpo_State objects)
    Sources,      \* the stop sources behind the receivers' tokens
    Token,        \* Ops -> Sources: get_stop_token(get_env(receiver))
    Kind,         \* Ops -> Kinds: which _Desc the operation is for
    Nonblocking,  \* the operations on a socket _Connect made O_NONBLOCK
    StopThread    \* where request_stop() is called: "loop" or "other"

Kinds == {"accept", "connect", "receive", "send", "resume_after", "resume_at"}
Timers == {"resume_after", "resume_at"}

ASSUME TokenAssumption == Token \in [Ops -> Sources]
ASSUME KindAssumption == Kind \in [Ops -> Kinds]
ASSUME NonblockingAssumption ==
    Nonblocking \subseteq {o \in Ops : Kind[o] \in {"receive", "send"}}
ASSUME StopThreadAssumption == StopThread \in {"loop", "other"}

VARIABLES
    outstanding,  \* _D_outstanding
    callback,     \* _D_callback: not engaged, registered, executing, executed
    event,        \* the libevent event held in _Extra
    result,       \* the outcome of the I/O attempt, once there is one
    signals,      \* the completion signals the receiver got, in order
    frame,        \* where the operation's own calls on the loop's thread are
    cancel,       \* where the _Cancel_callback's call operator is
    stop          \* the sources on which request_stop() was called

vars == <<outstanding, callback, event, result, signals, frame, cancel, stop>>

Completions == {"value", "error", "stopped"}

Histories == Seq(Completions)

\* The frames between an access to _D_callback and the decrement after it.
AfterReset == [stopReset  |-> "stopDrop",  syncReset |-> "syncDrop",
               startReset |-> "startDrop", workReset |-> "workDrop"]

Resets == {"stopReset", "syncReset", "startReset", "workReset"}

Drops == {"stopDrop", "syncDrop", "startDrop", "workDrop"}

AtRest == {"idle", "upstream", "parked"}

Frames == AtRest \cup {"emplace", "inline", "check", "submit", "add"} \cup Resets \cup Drops

TypeOK ==
    /\ outstanding \in [Ops -> -2..2]
    /\ callback \in [Ops -> {"none", "armed", "running", "spent"}]
    /\ event \in [Ops -> {"none", "allocated", "pending", "refused", "active", "removed"}]
    /\ result \in [Ops -> {"none", "value", "error"}]
    /\ signals \in [Ops -> Histories]
    /\ frame \in [Ops -> Frames]
    /\ cancel \in [Ops -> {"off", "inc", "del", "dropCallback", "dropState"}]
    /\ stop \in [Sources -> BOOLEAN]

Init ==
    /\ outstanding = [o \in Ops |-> 0]
    /\ callback = [o \in Ops |-> "none"]
    /\ event = [o \in Ops |-> "none"]
    /\ result = [o \in Ops |-> "none"]
    /\ signals = [o \in Ops |-> <<>>]
    /\ frame = [o \in Ops |-> "idle"]
    /\ cancel = [o \in Ops |-> "off"]
    /\ stop = [s \in Sources |-> FALSE]

-----------------------------------------------------------------------------
(***************************************************************************)
(* Scheduling.  All frames are frames of the one thread that runs the      *)
(* context.  When request_stop() is called on that thread too, it runs all *)
(* its callbacks before anything else happens there.                       *)
(***************************************************************************)
LoopFree == \A o \in Ops : frame[o] \in AtRest

StopUnderway == \E o \in Ops : \/ cancel[o] # "off"
                               \/ callback[o] = "armed" /\ stop[Token[o]]

LoopTurn == LoopFree /\ (StopThread = "loop" => ~StopUnderway)

\* A source's request_stop() executes one registered callback at a time.
Executing(s) == \E o \in Ops : Token[o] = s /\ cancel[o] # "off" /\ frame[o] # "inline"

-----------------------------------------------------------------------------
\* What _Submit can come to before it returns ...
SubmitOutcomes(o) ==
    {"error"} \cup (IF Kind[o] \in {"connect", "resume_at"} THEN {"value"} ELSE {})

\* ... and what _Work can: "again" is EWOULDBLOCK.
WorkOutcomes(o) ==
    {"value"} \cup (IF Kind[o] \in Timers THEN {} ELSE {"error"})
              \cup (IF o \in Nonblocking THEN {"again"} ELSE {})

Goto(o, f) == frame' = [frame EXCEPT ![o] = f]

\* As a bug: if (--_D_outstanding <= 0)
DropNotPositive(o, how) ==
    /\ outstanding' = [outstanding EXCEPT ![o] = @ - 1]
    /\ signals' = [signals EXCEPT ![o] = IF outstanding[o] <= 1 THEN Append(@, how) ELSE @]

\* if (0 == --_D_outstanding) signal the receiver
Drop(o, how) ==
    /\ outstanding' = [outstanding EXCEPT ![o] = @ - 1]
    /\ signals' = [signals EXCEPT ![o] = IF outstanding[o] = 1 THEN Append(@, how) ELSE @]

-----------------------------------------------------------------------------
(***************************************************************************)
(* Starting: start() starts the upstream; its completion calls _Start() or *)
(* is passed on to the receiver.                                           *)
(***************************************************************************)
Launch(o) ==
    /\ LoopTurn
    /\ frame[o] = "idle"
    /\ Goto(o, "upstream")
    /\ UNCHANGED <<outstanding, callback, event, result, signals, cancel, stop>>

UpstreamValue(o) ==
    /\ LoopTurn
    /\ frame[o] = "upstream"
    /\ outstanding' = [outstanding EXCEPT ![o] = @ + 1]
    /\ Goto(o, "emplace")
    /\ UNCHANGED <<callback, event, result, signals, cancel, stop>>

UpstreamFails(o, how) ==
    /\ LoopTurn
    /\ frame[o] = "upstream"
    /\ how = "stopped" => stop[Token[o]]
    /\ signals' = [signals EXCEPT ![o] = Append(@, how)]
    /\ Goto(o, "parked")
    /\ UNCHANGED <<outstanding, callback, event, result, cancel, stop>>

\* Registering the callback; with stop requested it is executed in place.
Emplace(o) ==
    /\ frame[o] = "emplace"
    /\ IF stop[Token[o]]
       THEN /\ callback' = [callback EXCEPT ![o] = "running"]
            /\ cancel' = [cancel EXCEPT ![o] = "inc"]
            /\ Goto(o, "inline")
       ELSE /\ callback' = [callback EXCEPT ![o] = "armed"]
            /\ Goto(o, "check")
            /\ UNCHANGED cancel
    /\ UNCHANGED <<outstanding, event, result, signals, stop>>

LeaveEmplace(o) ==
    /\ frame[o] = "inline"
    /\ cancel[o] = "off"
    /\ Goto(o, "check")
    /\ UNCHANGED <<outstanding, callback, event, result, signals, cancel, stop>>

\* As a bug: the test of stop_requested() the wrong way round.
CheckInverted(o) ==
    /\ frame[o] = "check"
    /\ Goto(o, IF stop[Token[o]] THEN "submit" ELSE "stopReset")
    /\ UNCHANGED <<outstanding, callback, event, result, signals, cancel, stop>>

Check(o) ==
    /\ frame[o] = "check"
    /\ Goto(o, IF stop[Token[o]] THEN "stopReset" ELSE "submit")
    /\ UNCHANGED <<outstanding, callback, event, result, signals, cancel, stop>>

\* As a bug: completing leaves _D_callback registered.
ResetOmitted(o) ==
    /\ frame[o] \in Resets
    /\ Goto(o, AfterReset[frame[o]])
    /\ UNCHANGED <<outstanding, callback, event, result, signals, cancel, stop>>

\* _D_callback.reset(), which waits for a callback executing elsewhere.
ResetCallback(o) ==
    /\ frame[o] \in Resets
    /\ callback[o] # "running"
    /\ callback' = [callback EXCEPT ![o] = "none"]
    /\ Goto(o, AfterReset[frame[o]])
    /\ UNCHANGED <<outstanding, event, result, signals, cancel, stop>>

\* As a bug: _Start() does not return after _Cancel().
CancelStartGoesOn(o) ==
    /\ frame[o] = "stopDrop"
    /\ Drop(o, "stopped")
    /\ Goto(o, "submit")
    /\ UNCHANGED <<callback, event, result, cancel, stop>>

\* _Start() found stop requested: _Cancel(), return.
CancelStart(o) ==
    /\ frame[o] = "stopDrop"
    /\ Drop(o, "stopped")
    /\ Goto(o, "parked")
    /\ UNCHANGED <<callback, event, result, cancel, stop>>

-----------------------------------------------------------------------------
(***************************************************************************)
(* Submitting: either the work is left to an event, and _Submit returns    *)
(* true, or it is over already: _Submit completes the operation itself and *)
(* returns false, upon which _Start() calls _Complete() once more.         *)
(***************************************************************************)
SubmitPending(o) ==
    /\ frame[o] = "submit"
    /\ event' = [event EXCEPT ![o] = "allocated"]
    /\ Goto(o, "add")
    /\ UNCHANGED <<outstanding, callback, result, signals, cancel, stop>>

\* As a bug: the event is added but false is returned, so _Start() completes.
EventAddReturnsFalse(o) ==
    /\ frame[o] = "add"
    /\ event' = [event EXCEPT ![o] = "pending"]
    /\ Goto(o, "startReset")
    /\ UNCHANGED <<outstanding, callback, result, signals, cancel, stop>>

\* event_add or evtimer_add may fail: nobody looks, true is returned either way.
EventAdd(o) ==
    /\ frame[o] = "add"
    /\ \E added \in {"pending", "refused"} : event' = [event EXCEPT ![o] = added]
    /\ Goto(o, "parked")
    /\ UNCHANGED <<outstanding, callback, result, signals, cancel, stop>>

\* As a bug: _Submit returns false on a failure without calling _Error().
SubmitSilentFailure(o, outcome) ==
    /\ frame[o] = "submit"
    /\ outcome \in SubmitOutcomes(o)
    /\ result' = [result EXCEPT ![o] = outcome]
    /\ Goto(o, IF outcome = "error" THEN "startReset" ELSE "syncReset")
    /\ UNCHANGED <<outstanding, callback, event, signals, cancel, stop>>

SubmitSync(o, outcome) ==
    /\ frame[o] = "submit"
    /\ outcome \in SubmitOutcomes(o)
    /\ result' = [result EXCEPT ![o] = outcome]
    /\ Goto(o, "syncReset")
    /\ UNCHANGED <<outstanding, callback, event, signals, cancel, stop>>

\* The _Complete() or _Error() that _Submit calls ...
CompleteSync(o) ==
    /\ frame[o] = "syncDrop"
    /\ Drop(o, result[o])
    /\ Goto(o, "startReset")
    /\ UNCHANGED <<callback, event, result, cancel, stop>>

\* ... and the _Complete() of _Start() after it.
CompleteStart(o) ==
    /\ frame[o] = "startDrop"
    /\ Drop(o, "value")
    /\ Goto(o, "parked")
    /\ UNCHANGED <<callback, event, result, cancel, stop>>

-----------------------------------------------------------------------------
(***************************************************************************)
(* Working: libevent finds the event ready (the socket is, or the time has *)
(* come), removes it - it is not EV_PERSIST - and calls _Work.             *)
(***************************************************************************)
Activate(o) ==
    /\ LoopTurn
    /\ event[o] = "pending"
    /\ event' = [event EXCEPT ![o] = "active"]
    /\ UNCHANGED <<outstanding, callback, result, signals, frame, cancel, stop>>

\* As a bug: _Work returns on a failure without calling _Error().
WorkSilentFailure(o, outcome) ==
    /\ LoopTurn
    /\ event[o] = "active"
    /\ outcome \in WorkOutcomes(o)
    /\ event' = [event EXCEPT ![o] = "removed"]
    /\ IF outcome # "value"
       THEN UNCHANGED <<result, frame>>
       ELSE /\ result' = [result EXCEPT ![o] = outcome]
            /\ Goto(o, "workReset")
    /\ UNCHANGED <<outstanding, callback, signals, cancel, stop>>

Work(o, outcome) ==
    /\ LoopTurn
    /\ event[o] = "active"
    /\ outcome \in WorkOutcomes(o)
    /\ event' = [event EXCEPT ![o] = "removed"]
    /\ IF outcome = "again"
       THEN UNCHANGED <<result, frame>>
       ELSE /\ result' = [result EXCEPT ![o] = outcome]
            /\ Goto(o, "workReset")
    /\ UNCHANGED <<outstanding, callback, signals, cancel, stop>>

CompleteWork(o) ==
    /\ frame[o] = "workDrop"
    /\ Drop(o, result[o])
    /\ Goto(o, "parked")
    /\ UNCHANGED <<callback, event, result, cancel, stop>>

-----------------------------------------------------------------------------
(***************************************************************************)
(* Stopping: request_stop() executes the callbacks registered with the     *)
(* source; each counts itself in, deletes the event and counts itself and  *)
(* the operation out.                                                      *)
(***************************************************************************)
RequestStop(s) ==
    /\ StopThread = "loop" => LoopTurn
    /\ ~stop[s]
    /\ stop' = [stop EXCEPT ![s] = TRUE]
    /\ UNCHANGED <<outstanding, callback, event, result, signals, frame, cancel>>

BeginCancel(o) ==
    /\ stop[Token[o]]
    /\ callback[o] = "armed"
    /\ ~Executing(Token[o])
    /\ callback' = [callback EXCEPT ![o] = "running"]
    /\ cancel' = [cancel EXCEPT ![o] = "inc"]
    /\ UNCHANGED <<outstanding, event, result, signals, frame, stop>>

\* As a bug: _Cancel does nothing, as in _Poll_context.
CancelIgnored(o) ==
    /\ cancel[o] = "inc"
    /\ outstanding' = [outstanding EXCEPT ![o] = @ + 1]
    /\ cancel' = [cancel EXCEPT ![o] = "off"]
    /\ callback' = [callback EXCEPT ![o] = "spent"]
    /\ UNCHANGED <<event, result, signals, frame, stop>>

CancelInc(o) ==
    /\ cancel[o] = "inc"
    /\ outstanding' = [outstanding EXCEPT ![o] = @ + 1]
    /\ IF outstanding[o] + 1 > 1
       THEN /\ cancel' = [cancel EXCEPT ![o] = "del"]
            /\ UNCHANGED callback
       ELSE /\ cancel' = [cancel EXCEPT ![o] = "off"]
            /\ callback' = [callback EXCEPT ![o] = "spent"]
    /\ UNCHANGED <<event, result, signals, frame, stop>>

\* As a bug: _Cancel completes the operation but leaves its event.
CancelKeepsEvent(o) ==
    /\ cancel[o] = "del"
    /\ frame[o] \notin {"workReset", "workDrop"}
    /\ cancel' = [cancel EXCEPT ![o] = "dropCallback"]
    /\ UNCHANGED <<outstanding, callback, event, result, signals, frame, stop>>

\* event_del, which waits while the loop's thread is in this event's _Work.
CancelDel(o) ==
    /\ cancel[o] = "del"
    /\ frame[o] \notin {"workReset", "workDrop"}
    /\ event' = [event EXCEPT ![o] = IF @ \in {"pending", "active"} THEN "removed" ELSE @]
    /\ cancel' = [cancel EXCEPT ![o] = "dropCallback"]
    /\ UNCHANGED <<outstanding, callback, result, signals, frame, stop>>

CancelDropCallback(o) ==
    /\ cancel[o] = "dropCallback"
    /\ Drop(o, "stopped")
    /\ cancel' = [cancel EXCEPT ![o] = "dropState"]
    /\ UNCHANGED <<callback, event, result, frame, stop>>

CancelDropState(o) ==
    /\ cancel[o] = "dropState"
    /\ Drop(o, "stopped")
    /\ cancel' = [cancel EXCEPT ![o] = "off"]
    /\ callback' = [callback EXCEPT ![o] = "spent"]
    /\ UNCHANGED <<event, result, frame, stop>>

-----------------------------------------------------------------------------
StartStep(o) == \/ Emplace(o)
                \/ LeaveEmplace(o)
                \/ Check(o)
                \/ ResetCallback(o)
                \/ CancelStart(o)
                \/ SubmitPending(o)
                \/ EventAdd(o)
                \/ \E outcome \in {"value", "error"} : SubmitSync(o, outcome)
                \/ CompleteSync(o)
                \/ CompleteStart(o)

UpstreamStep(o) == \/ UpstreamValue(o)
                   \/ \E how \in {"error", "stopped"} : UpstreamFails(o, how)

WorkStep(o) == \/ \E outcome \in {"value", "error", "again"} : Work(o, outcome)
               \/ CompleteWork(o)

CancelStep(o) == \/ BeginCancel(o)
                 \/ CancelInc(o)
                 \/ CancelDel(o)
                 \/ CancelDropCallback(o)
                 \/ CancelDropState(o)

Next == \/ \E o \in Ops : \/ Launch(o)
                          \/ UpstreamStep(o)
                          \/ StartStep(o)
                          \/ Activate(o)
                          \/ WorkStep(o)
                          \/ CancelStep(o)
        \/ \E s \in Sources : RequestStop(s)

Spec == Init /\ [][Next]_vars

\* Threads run what they have begun; nobody has to start, stop or be ready.
Fairness == \A o \in Ops : /\ WF_vars(UpstreamStep(o))
                           /\ WF_vars(StartStep(o))
                           /\ WF_vars(WorkStep(o))
                           /\ WF_vars(CancelStep(o))

FairSpec == Spec /\ Fairness

-----------------------------------------------------------------------------
Signalled(o) == signals[o] # <<>>

(***************************************************************************)
(* A receiver is completed at most once, although _Start(), _Submit,       *)
(* _Work and a stop request all count an operation out.                    *)
(***************************************************************************)
AtMostOnce == \A o \in Ops : Len(signals[o]) <= 1

(***************************************************************************)
(* set_value is called only for an operation whose I/O attempt succeeded:  *)
(* the extra _Complete() of _Start() after a failed or stopped submission  *)
(* never delivers a value (for an accept it would dereference the empty    *)
(* optional<_Socket_id>).                                                  *)
(***************************************************************************)
ValueIsEarned == \A o \in Ops :
    signals[o] = <<"value">> => result[o] = "value"

(***************************************************************************)
(* A completed operation has left libevent.  Destroying its state would    *)
(* free the event, but until then _Work could still be called and accept a *)
(* connection, or read data, that no receiver hears of.                    *)
(***************************************************************************)
NoDanglingEvent == \A o \in Ops :
    Signalled(o) => event[o] \notin {"pending", "active"}

(***************************************************************************)
(* The outcome of an I/O attempt is not lost to a stop request: what       *)
(* accept(), connect() or recvmsg() did is what the receiver is told.      *)
(***************************************************************************)
ResultDelivered == \A o \in Ops :
    result[o] # "none" /\ frame[o] = "parked" => signals[o] = <<result[o]>>

(***************************************************************************)
(* From another thread a stop request may come between an attempt and its  *)
(* completion, and win: but once there is a result nobody is left without  *)
(* a completion, or with any other one.                                    *)
(***************************************************************************)
ResultOrStop == \A o \in Ops :
    result[o] # "none" /\ frame[o] = "parked"
        => signals[o] \in {<<result[o]>>, <<"stopped">>}

\* The two ways to be in flight and in no event: event_add failed, or _Work
\* found the non-blocking socket not ready after all and returned false.
Unadded(o) == event[o] = "refused"
Unready(o) == event[o] = "removed" /\ o \in Nonblocking

(***************************************************************************)
(* Of the operations nobody is working on, neither completed nor being     *)
(* stopped, the library forgets those two kinds and no other: the rest are *)
(* waiting in libevent.  What is forgotten is still there to be stopped:   *)
(* its callback is registered, and nothing else holds it.                  *)
(***************************************************************************)
NotForgotten == \A o \in Ops :
    /\ frame[o] = "parked"
    /\ ~Signalled(o)
    /\ cancel[o] = "off"
    => /\ event[o] \in {"pending", "active"} \/ Unadded(o) \/ Unready(o)
       /\ callback[o] = "armed" /\ outstanding[o] = 1

(***************************************************************************)
(* request_stop() leaves nothing in flight: when it has returned, on any   *)
(* thread, each operation whose calls are over has completed, whether or   *)
(* not its event ever becomes ready - no further turn of the loop is       *)
(* needed, which is what lets a program stop its operations after run().   *)
(***************************************************************************)
StopReturned(s) == stop[s] /\ \A o \in Ops :
    Token[o] = s => callback[o] # "armed" /\ cancel[o] = "off"

NoneOutlivesStop == \A o \in Ops :
    frame[o] = "parked" /\ StopReturned(Token[o]) => Signalled(o)

\* The loop's thread and the stopping thread wait for each other: reset() in
\* _Work for the callback, and event_del in the callback for _Work.
Wedged(o) == cancel[o] = "del" /\ frame[o] = "workReset"

(***************************************************************************)
(* When stop is requested from another thread, that wait is the only thing *)
(* that can keep a started operation from completing.                      *)
(***************************************************************************)
StopCompletesOrWedges == \A o \in Ops :
    frame[o] # "idle" /\ stop[Token[o]]
        ~> Signalled(o) \/ \E p \in Ops : Wedged(p)

(***************************************************************************)
(* Once the receiver of an operation that had to wait for its event is     *)
(* completed, the library does not touch the operation state again: the    *)
(* receiver may have destroyed it.  (An operation that _Submit completes,  *)
(* or that is started with stop requested, is still touched by _Start().)  *)
(***************************************************************************)
CompletionIsLastTouch == [][\A o \in Ops :
    Signalled(o) /\ event[o] # "none"
        => UNCHANGED <<outstanding[o], callback[o], event[o], frame[o]>>]_vars

-----------------------------------------------------------------------------
(***************************************************************************)
(* Why completion happens once: the inductive invariant.  As long as the   *)
(* receiver is not completed, _D_outstanding counts the calls that still   *)
(* have to count the operation out; when it is completed, it is not        *)
(* positive, and falls by at most two more.                                *)
(***************************************************************************)
StateCount(o) == IF frame[o] \in {"idle", "upstream"} THEN 0 ELSE 1
CallbackCount(o) == IF cancel[o] \in {"del", "dropCallback"} THEN 1 ELSE 0

Floor(o) == IF frame[o] \in {"startReset", "startDrop"} THEN -1
            ELSE IF frame[o] = "parked" /\ event[o] \notin {"pending", "active"} THEN -2
            ELSE 0

Accounting(o) ==
    /\ ~Signalled(o) => outstanding[o] = StateCount(o) + CallbackCount(o)
    /\ Signalled(o) => /\ Len(signals[o]) = 1
                       /\ cancel[o] = "off"
                       /\ outstanding[o] \in Floor(o)..0

\* _D_callback is disengaged exactly where the code has reset it, and a
\* callback that was executed has stopped the operation.
Registration(o) ==
    /\ callback[o] = "running" <=> cancel[o] # "off"
    /\ callback[o] = "armed" => ~Signalled(o)
    /\ callback[o] = "spent" => signals[o] = <<"stopped">>
    /\ frame[o] \in {"idle", "upstream", "emplace"} => callback[o] = "none" /\ ~Signalled(o)
    /\ frame[o] = "inline" => callback[o] \in {"running", "spent"}
    /\ frame[o] \in {"check", "submit", "add"} => callback[o] # "none"
    /\ frame[o] \in Drops \cup {"startReset"} => callback[o] = "none"
    /\ frame[o] \in {"startReset", "startDrop"} => Signalled(o)
    /\ frame[o] = "parked" /\ callback[o] = "none" => Signalled(o)

\* Where an event can and where it must be in libevent, and where there is a
\* result to deliver.
Attempt(o) ==
    /\ event[o] \in {"pending", "active"} => frame[o] = "parked" /\ callback[o] # "none"
    /\ frame[o] = "parked" /\ ~Signalled(o) /\ cancel[o] = "off"
          => event[o] \in {"pending", "active"} \/ Unadded(o) \/ Unready(o)
    /\ frame[o] \in {"syncReset", "syncDrop", "workReset", "workDrop"} => result[o] # "none"
    /\ signals[o] = <<"value">> => result[o] = "value"
    /\ result[o] # "none" =>
          /\ frame[o] \in {"parked", "syncReset", "syncDrop", "startReset", "startDrop",
                           "workReset", "workDrop"}
          /\ frame[o] = "parked" => Signalled(o)
          /\ Signalled(o) => signals[o] \in {<<result[o]>>, <<"stopped">>}

\* Stopping is only ever due to a request.
Asked(o) ==
    cancel[o] # "off" \/ frame[o] \in {"inline", "stopReset", "stopDrop"} => stop[Token[o]]

OpInv(o) == Accounting(o) /\ Registration(o) /\ Attempt(o) /\ Asked(o)

IInv == TypeOK /\ \A o \in Ops : OpInv(o)

-----------------------------------------------------------------------------
Phase == [o \in Ops |-> IF Signalled(o) THEN Head(signals[o])
                        ELSE IF frame[o] = "idle" THEN "connected" ELSE "started"]

Contract == INSTANCE AsyncOp WITH phase <- Phase, asked <- stop

\* The operations keep the contract of AsyncOp: every step of the counter and
\* the callback is a step of the contract or none.
KeepsContract == Contract!Spec

\* A stopped operation completes, when stop is requested on the loop's thread.
StopCompletes == Contract!Answered
=============================================================================
