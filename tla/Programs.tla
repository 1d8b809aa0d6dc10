------------------------------- MODULE Programs -------------------------------
(***************************************************************************)
(* The example programs: coroutines in an exec::async_scope on one         *)
(* io_context, how they are timed out by exec::when_any, and how the       *)
(* programs come to an end.  A coroutine awaits one operation at a time,   *)
(* on a socket of its own: the programs are disciplined in the sense of    *)
(* LibeventContext, and the events below are those of its operations.      *)
(* That a started operation completes once, and stopped at once when stop  *)
(* is requested, is CpoState's matter.                                     *)
(*                                                                         *)
(* Everything happens on the thread of main().  From the completion of an  *)
(* operation to the next one, a coroutine runs without interruption: one   *)
(* step - but for a request_stop() in between, which stops the tasks of    *)
(* the scope one after the other.                                          *)
(***************************************************************************)
EXTENDS Integers, FiniteSets

CONSTANTS
    Acceptors,   \* the coroutines that accept; accu-2024 has one per address
    Clients,     \* those that serve a connection; bound: no more at a time
    Refusable,   \* bound: the tasks for which event_add() may fail
    Ticks        \* how often the timer of server.cpp is awaited

ASSUME ClientsAssumption == IsFiniteSet(Clients)
ASSUME AcceptorsAssumption == Acceptors # {} /\ IsFiniteSet(Acceptors)
ASSUME TicksAssumption == Ticks \in Nat \ {0}

VARIABLES
    program,       \* which program is running
    at,            \* the operation a task awaits; "over": not in the scope
    event,         \* where that operation's event is
    alarm,         \* where the event of the timeout around a client is
    then,          \* what a client does after sending
    active,        \* async_scope: the number of operations in the scope
    stop,          \* request_stop() was called on the scope's stop source
    keep_running,  \* of accu-2024
    thread,        \* where main() is
    caller,        \* who has called request_stop()
    ticks          \* how often the timer is still going to be awaited

vars == <<program, at, event, alarm, then, active, stop, keep_running, thread, caller, ticks>>

\* A timer, the reader of the standard input, the task of a client program.
Singles == {"ticker", "reader", "dialer"}

Tasks == Acceptors \cup Clients \cup Singles

ASSUME TasksAssumption == /\ Acceptors \cap Clients = {}
                          /\ (Acceptors \cup Clients) \cap (Singles \cup {"main"}) = {}

AllPrograms == {"accu-2024", "server", "simple-http-server", "overview",
                "client", "accu-client-2024"}

\* The tasks main() spawns.
Spawned(p) == CASE p = "accu-2024" -> Acceptors
                [] p = "server" -> {CHOOSE a \in Acceptors : TRUE, "ticker"}
                [] p = "simple-http-server" -> {CHOOSE a \in Acceptors : TRUE}
                [] p = "overview" -> {"reader", "ticker"}
                [] OTHER -> {"dialer"}

FirstOp(t) == CASE t = "ticker" -> "tick"
                [] t = "reader" -> "read"
                [] t = "dialer" -> "connect"
                [] t \in Acceptors -> "accept"
                [] OTHER -> "receive"

Timed == program \in {"accu-2024", "simple-http-server"}

Operations == {"accept", "connect", "receive", "drain", "send", "tick", "read"}

\* Refused is an event that event_add() failed to add: nobody looks at what it
\* returns.  Ready is what the kernel knows; the batch being served is active.
Events == {"none", "refused", "pending", "ready", "active"}

TypeOK ==
    /\ program \in AllPrograms
    /\ at \in [Tasks -> Operations \cup {"over"}]
    /\ event \in [Tasks -> Events]
    /\ alarm \in [Clients -> Events]
    /\ then \in [Clients -> {"receive", "drain", "exit", "end"}]
    /\ active \in 0..Cardinality(Tasks)
    /\ stop \in BOOLEAN
    /\ keep_running \in BOOLEAN
    /\ thread \in {"starting", "running", "dispatching", "blocked", "stopping",
                   "leaving", "failed", "done", "terminated"}
    /\ caller \in Tasks \cup {"main"}
    /\ ticks \in 0..Ticks

Init ==
    /\ program \in AllPrograms
    /\ at = [t \in Tasks |-> "over"]
    /\ event = [t \in Tasks |-> "none"]
    /\ alarm = [c \in Clients |-> "none"]
    /\ then = [c \in Clients |-> "end"]
    /\ active = 0
    /\ stop = FALSE
    /\ keep_running = TRUE
    /\ thread = "starting"
    /\ caller = "main"
    /\ ticks = Ticks

-----------------------------------------------------------------------------
(***************************************************************************)
(* What the coroutines and the scope do in the steps below.                *)
(***************************************************************************)
\* What becomes of an event, and of those of some tasks, that are to be added.
Added(t) == IF t \in Refusable THEN {"pending", "refused"} ELSE {"pending"}
AddedTo(events, tasks, refused) ==
    [t \in Tasks |-> IF t \in refused THEN "refused"
                     ELSE IF t \in tasks THEN "pending" ELSE events[t]]

\* Awaiting an operation; with stop requested it would complete at once.
Await(t, op) == /\ ~stop
                /\ at' = [at EXCEPT ![t] = op]
                /\ \E added \in Added(t) : event' = [event EXCEPT ![t] = added]
                /\ UNCHANGED <<alarm, active>>

Silenced(t) == IF t \in Clients THEN [alarm EXCEPT ![t] = "none"] ELSE alarm

\* A task ends, or is stopped: its event is deleted, its timeout stopped, and
\* its operation leaves the scope.
End(t) == /\ at' = [at EXCEPT ![t] = "over"]
          /\ event' = [event EXCEPT ![t] = "none"]
          /\ alarm' = Silenced(t)
          /\ active' = active - 1

\* spawn() ends the program if a task ends in an error.
Terminate == /\ thread' = "terminated"
             /\ UNCHANGED <<at, event, alarm, active>>

\* As a bug: the scope's operations are left to notice the stop themselves.
RequestStopLater(who) ==
    /\ stop' = TRUE
    /\ caller' = who
    /\ thread' = IF who = "main" THEN "leaving" ELSE "dispatching"
    /\ IF who = "main" THEN UNCHANGED <<at, event, alarm, active>> ELSE End(who)

\* request_stop() calls back every operation in flight before it returns.
RequestStop(who) ==
    /\ stop' = TRUE
    /\ caller' = who
    /\ thread' = "stopping"
    /\ event' = [t \in Tasks |-> IF t = who THEN "none" ELSE event[t]]
    /\ UNCHANGED <<at, alarm, active>>

rest == <<program, then, keep_running, ticks>>

-----------------------------------------------------------------------------
\* main() spawns its tasks, which run to their first operation.
Begin ==
    /\ thread = "starting"
    /\ thread' = "running"
    /\ at' = [t \in Tasks |-> IF t \in Spawned(program) THEN FirstOp(t) ELSE "over"]
    /\ \E refused \in SUBSET (Spawned(program) \cap Refusable) :
          event' = AddedTo(event, Spawned(program), refused)
    /\ active' = Cardinality(Spawned(program))
    /\ UNCHANGED <<alarm, stop, caller, rest>>

\* Sockets are made before that, and making one may throw: out of a task or
\* out of main(), that ends the program, but client.cpp catches it.
BeginFails ==
    /\ thread = "starting"
    /\ program # "overview"
    /\ thread' = IF program = "client" THEN "leaving" ELSE "terminated"
    /\ UNCHANGED <<at, event, alarm, active, stop, caller, rest>>

Known == {"pending", "ready", "active"}
InLibevent == \/ \E t \in Tasks : event[t] \in Known
              \/ \E c \in Clients : alarm[c] \in Known
Batched == {t \in Tasks : event[t] = "active"}
Alarmed == {c \in Clients : alarm[c] = "active"}

Activated(e) == IF e = "ready" THEN "active" ELSE e

\* As a bug: keep_running is not looked at.
RunOneKeepsRunning ==
    /\ thread = "running"
    /\ \/ \E t \in Tasks : event[t] = "ready"
       \/ \E c \in Clients : alarm[c] = "ready"
    /\ event' = [t \in Tasks |-> Activated(event[t])]
    /\ alarm' = [c \in Clients |-> Activated(alarm[c])]
    /\ thread' = "dispatching"
    /\ UNCHANGED <<at, active, stop, caller, rest>>

\* run_one(), or event_base_loop() in overview.cpp.
RunOne ==
    /\ thread = "running"
    /\ keep_running
    /\ \/ \E t \in Tasks : event[t] = "ready"
       \/ \E c \in Clients : alarm[c] = "ready"
    /\ event' = [t \in Tasks |-> Activated(event[t])]
    /\ alarm' = [c \in Clients |-> Activated(alarm[c])]
    /\ thread' = "dispatching"
    /\ UNCHANGED <<at, active, stop, caller, rest>>

TurnEnds ==
    /\ thread = "dispatching"
    /\ Batched = {} /\ Alarmed = {}
    /\ thread' = "running"
    /\ UNCHANGED <<at, event, alarm, active, stop, caller, rest>>

\* As a bug: main() does not request stop before it waits for the scope.
LeaveLoopUnstopped ==
    /\ thread = "running"
    /\ program = "accu-2024"
    /\ ~keep_running \/ ~InLibevent
    /\ thread' = "leaving"
    /\ UNCHANGED <<at, event, alarm, active, stop, caller, rest>>

\* accu-2024: while (keep_running && 0 < run_one()); request_stop().
LeaveLoop ==
    /\ thread = "running"
    /\ program = "accu-2024"
    /\ ~keep_running \/ ~InLibevent
    /\ RequestStop("main")
    /\ UNCHANGED rest

\* Elsewhere run() returns when there are no events; overview's loop, when
\* the scope has become empty.
RunEnds ==
    /\ thread = "running"
    /\ program # "accu-2024"
    /\ IF program = "overview" THEN active = 0 ELSE ~InLibevent
    /\ thread' = "leaving"
    /\ UNCHANGED <<at, event, alarm, active, stop, caller, rest>>

\* run_one() returns 0 as well when event_base_loop() fails; overview.cpp does
\* not look at what it returns.
RunFails ==
    /\ thread = "running"
    /\ keep_running
    /\ program # "overview"
    /\ IF program = "accu-2024"
       THEN RequestStop("main")
       ELSE thread' = "failed" /\ UNCHANGED <<at, event, alarm, active, stop, caller>>
    /\ UNCHANGED rest

\* sync_wait(scope.on_empty()) or ~async_scope(), with nothing run any more.
Leave ==
    /\ thread \in {"leaving", "failed"}
    /\ active = 0
    /\ thread' = "done"
    /\ UNCHANGED <<at, event, alarm, active, stop, caller, rest>>

\* ~async_scope() does not wait for the scope: it asserts that it is empty.
LeaveFails ==
    /\ thread \in {"leaving", "failed"}
    /\ active # 0
    /\ program \notin {"accu-2024", "accu-client-2024"}
    /\ thread' = "terminated"
    /\ UNCHANGED <<at, event, alarm, active, stop, caller, rest>>

-----------------------------------------------------------------------------
(***************************************************************************)
(* request_stop().  The reader of overview.cpp does not look at its stop   *)
(* token, and is not waiting when stop is requested.                       *)
(***************************************************************************)
Registered == {t \in Tasks \ {"reader"} : event[t] # "none"}

Stopped(t) ==
    /\ thread = "stopping"
    /\ t \in Registered
    /\ End(t)
    /\ UNCHANGED <<stop, thread, caller, rest>>

\* Who has called it goes on: a client of server.cpp to an async_send that is
\* stopped when it starts, overview's reader to its end, main() to waiting.
StopReturns ==
    /\ thread = "stopping"
    /\ Registered = {}
    /\ IF caller = "main"
       THEN /\ thread' = "leaving"
            /\ UNCHANGED <<at, event, alarm, active>>
       ELSE /\ thread' = "dispatching"
            /\ End(caller)
    /\ UNCHANGED <<stop, caller, rest>>

-----------------------------------------------------------------------------
(***************************************************************************)
(* What the batch resumes.                                                 *)
(***************************************************************************)
Resumed(t) == thread = "dispatching" /\ event[t] = "active"

Going == thread' = "dispatching"

\* A connection: the client is spawned - it runs until it awaits data, under
\* a timeout in some of the programs, unless it fails at once - and the next one
\* is awaited.
AcceptWork(a, c) ==
    /\ Resumed(a)
    /\ a \in Acceptors
    /\ \/ /\ at[c] = "over"
          /\ at' = [at EXCEPT ![c] = "receive", ![a] = "accept"]
          /\ \E refused \in SUBSET ({a, c} \cap Refusable) :
                event' = AddedTo(event, {a, c}, refused)
          /\ \E added \in IF Timed THEN Added(c) ELSE {"none"} :
                alarm' = [alarm EXCEPT ![c] = added]
          /\ active' = active + 1
          /\ Going
       \/ Await(a, "accept") /\ Going
       \/ Terminate
    /\ UNCHANGED <<stop, caller, rest>>

\* What a client does with data, with the peer's leaving or with an error.
\* accu-2024 answers the first head only: what it leaves in the buffer begins
\* with the separator, and is found to be an empty head from then on.
Responses(c) ==
    {[op |-> "over", then |-> "end"]} \cup
    CASE program = "accu-2024" /\ at[c] = "receive" ->
            {[op |-> "receive", then |-> "end"], [op |-> "drain", then |-> "end"],
             [op |-> "send", then |-> "drain"], [op |-> "send", then |-> "exit"]}
      [] program = "accu-2024" /\ at[c] = "drain" -> {[op |-> "drain", then |-> "end"]}
      [] program = "server" -> {[op |-> "send", then |-> "receive"]}
      [] OTHER -> {[op |-> "receive", then |-> "end"],
                   [op |-> "send", then |-> "receive"], [op |-> "send", then |-> "end"]}

ReceiveWork(c) ==
    /\ Resumed(c)
    /\ at[c] \in {"receive", "drain"}
    /\ \E r \in Responses(c) :
          /\ IF r.op = "over" THEN End(c) ELSE Await(c, r.op)
          /\ then' = [then EXCEPT ![c] = r.then]
    /\ Going
    /\ UNCHANGED <<program, stop, keep_running, caller, ticks>>

\* server.cpp is told to exit.
ExitWork(c) ==
    /\ Resumed(c)
    /\ program = "server" /\ at[c] = "receive"
    /\ RequestStop(c)
    /\ UNCHANGED rest

\* Sent: only simple-http-server looks whether all of it was, and sends the
\* head and the body one after the other.
Sent(c) ==
    /\ \/ /\ program = "simple-http-server"
          /\ Await(c, "send")
          /\ UNCHANGED keep_running
       \/ /\ then[c] \in {"receive", "drain"}
          /\ Await(c, then[c])
          /\ UNCHANGED keep_running
       \/ /\ then[c] \in {"exit", "end"}
          /\ End(c)
          /\ keep_running' = (keep_running /\ then[c] # "exit")
       \/ End(c) /\ UNCHANGED keep_running
    /\ Going
    /\ UNCHANGED <<program, then, stop, caller, ticks>>

\* The sockets are blocking ones: sendmsg() may not return for now.
SendBlocks(c) ==
    /\ thread' = "blocked"
    /\ caller' = c
    /\ UNCHANGED <<at, event, alarm, active, stop, rest>>

SendWork(c) ==
    /\ Resumed(c)
    /\ at[c] = "send"
    /\ Sent(c) \/ SendBlocks(c)

Unblock ==
    /\ thread = "blocked"
    /\ Sent(caller)

\* As a bug: when_any does not stop the other child.
AlarmWorkAlone(c) ==
    /\ thread = "dispatching"
    /\ alarm[c] = "active"
    /\ alarm' = [alarm EXCEPT ![c] = "none"]
    /\ UNCHANGED <<at, event, active, thread, stop, caller, rest>>

\* The timeout: when_any stops what the client awaits.
AlarmWork(c) ==
    /\ thread = "dispatching"
    /\ alarm[c] = "active"
    /\ End(c)
    /\ Going
    /\ UNCHANGED <<stop, caller, rest>>

\* overview.cpp's timer goes on for ever, server.cpp's does not.
TickWork ==
    /\ Resumed("ticker")
    /\ IF program = "server"
       THEN /\ ticks' = ticks - 1
            /\ \/ ticks = 1 /\ End("ticker") /\ Going
               \/ ticks > 1 /\ Await("ticker", "tick") /\ Going
               \/ ticks > 1 /\ Terminate
       ELSE Await("ticker", "tick") /\ Going /\ UNCHANGED ticks
    /\ UNCHANGED <<program, then, stop, keep_running, caller>>

ReadWork ==
    /\ Resumed("reader")
    /\ RequestStop("reader")
    /\ UNCHANGED rest

\* The client programs connect, send and end; accu-client-2024 receives and
\* does not catch what is thrown.
DialWork ==
    /\ Resumed("dialer")
    /\ \/ at["dialer"] = "connect" /\ Await("dialer", "send") /\ Going
       \/ /\ at["dialer"] = "send" /\ program = "accu-client-2024"
          /\ Await("dialer", "receive")
          /\ Going
       \/ /\ \/ at["dialer"] = "send" /\ program = "client"
             \/ at["dialer"] = "receive"
          /\ End("dialer")
          /\ Going
       \/ IF program = "client" THEN End("dialer") /\ Going ELSE Terminate
    /\ UNCHANGED <<stop, caller, rest>>

-----------------------------------------------------------------------------
(***************************************************************************)
(* Connections, data, room to send, input and time.                        *)
(***************************************************************************)
Waiting == {a \in Acceptors : event[a] \in {"ready", "active"}}
Unused == {c \in Clients : at[c] = "over"}

\* Bound: no connection without a client for it.
BecomesReady(t) ==
    /\ event[t] = "pending"
    /\ t \in Acceptors => Cardinality(Waiting) < Cardinality(Unused)
    /\ event' = [event EXCEPT ![t] = "ready"]
    /\ UNCHANGED <<at, alarm, active, stop, thread, caller, rest>>

Due(c) ==
    /\ alarm[c] = "pending"
    /\ alarm' = [alarm EXCEPT ![c] = "ready"]
    /\ UNCHANGED <<at, event, active, stop, thread, caller, rest>>

-----------------------------------------------------------------------------
ThreadStep ==
    \/ Begin \/ BeginFails
    \/ RunOne \/ TurnEnds \/ LeaveLoop \/ RunEnds \/ Leave \/ LeaveFails
    \/ StopReturns \/ \E t \in Tasks : Stopped(t)
    \/ \E a \in Acceptors, c \in Clients : AcceptWork(a, c)
    \/ \E c \in Clients : ReceiveWork(c) \/ ExitWork(c) \/ SendWork(c) \/ AlarmWork(c)
    \/ TickWork \/ ReadWork \/ DialWork

Next == \/ ThreadStep
        \/ Unblock
        \/ RunFails
        \/ \E t \in Tasks : BecomesReady(t)
        \/ \E c \in Clients : Due(c)

Spec == Init /\ [][Next]_vars

\* The thread goes on with what it has to do, and time passes; no peer has to
\* do anything.
Fairness == /\ WF_vars(ThreadStep)
            /\ \A c \in Clients : WF_vars(Due(c))

FairSpec == Spec /\ Fairness

-----------------------------------------------------------------------------
(***************************************************************************)
(* When main() stops running the context - it then waits for the scope to  *)
(* become empty, or destroys it, which asserts the same - no event is left *)
(* in libevent, and no task but those whose event_add() failed.  None at   *)
(* all is left by accu-2024, which requests stop, and by overview.cpp.     *)
(***************************************************************************)
LeavesEmpty == thread = "leaving" =>
    /\ ~InLibevent
    /\ \A t \in Tasks : at[t] # "over" => event[t] = "refused"
    /\ active = 0 \/ (\E t \in Tasks : event[t] = "refused")
    /\ program \in {"accu-2024", "overview"} => active = 0

(***************************************************************************)
(* No connection is served once stop is requested, although accepts of the *)
(* same batch may be about to be called back.                              *)
(***************************************************************************)
NoneSpawnedAfterStop ==
    [][stop => \A c \in Clients : at[c] = "over" => at'[c] = "over"]_vars

NotBlockedForEver == []<>(thread # "blocked")

Ended == thread \in {"done", "terminated"}

(***************************************************************************)
(* A program that is told to exit does so, unless a peer that does not     *)
(* read blocks the thread in a send for ever; every other operation in     *)
(* flight is given up.                                                     *)
(***************************************************************************)
Exits == NotBlockedForEver => (stop \/ ~keep_running ~> Ended)

(***************************************************************************)
(* A client under a timeout does not stay for ever, whatever its peer does *)
(* or does not send - as long as its timer could be added, and no send     *)
(* blocks the thread for ever, which no timeout can end.                   *)
(***************************************************************************)
TimeoutEnds == NotBlockedForEver =>
    \A c \in Clients : Timed /\ at[c] # "over" ~> at[c] = "over" \/ alarm[c] = "refused" \/ Ended
=============================================================================
