---------------------------- MODULE ProgramsProofs ----------------------------
(***************************************************************************)
(* How the example programs stop, for any number of acceptors and clients  *)
(* and however long their timers go on.                                    *)
(***************************************************************************)
EXTENDS Programs, FiniteSetTheorems, TLAPS

\* The tasks in the scope.
Members == {t \in Tasks : at[t] # "over"}

Counted == active = Cardinality(Members)

\* Who has called request_stop() from a task has no event and is not over.
Calling(t) == thread = "stopping" /\ caller = t

\* The others have an event as long as they are in the scope.
Watched == \A t \in Tasks : event[t] = "none" <=> at[t] = "over" \/ Calling(t)

Alarms == \A c \in Clients : alarm[c] # "none" => at[c] # "over"

\* No task is there before main() spawns some or when it has ended, and when it
\* waits for the scope only those are whose events could not be added.
Outside == /\ thread \in {"starting", "done"} => Members = {}
           /\ thread = "leaving" => \A t \in Members : event[t] = "refused"
           /\ thread = "leaving" => \A c \in Clients : alarm[c] \notin Known
           /\ thread = "leaving" /\ program \in {"accu-2024", "overview"} => Members = {}
           /\ thread = "failed" => program \notin {"accu-2024", "overview"}

\* Once request_stop() has returned, the stopped tasks are over.
StopDone == stop /\ thread # "stopping" => Members \subseteq {"reader"}

Callers == /\ thread = "starting" => ~stop
           /\ thread = "stopping" => stop
           /\ thread = "stopping" /\ caller = "main" => program = "accu-2024"
           /\ thread = "stopping" /\ caller # "main" => at[caller] # "over"
           /\ thread = "blocked" => caller \in Clients /\ at[caller] = "send"

\* Only overview.cpp reads its standard input.
Reader == at["reader"] # "over" => program = "overview"

\* The timer of server.cpp is awaited only as long as there are ticks left.
Ticking == program = "server" /\ (thread = "starting" \/ at["ticker"] # "over") => ticks > 0

IInv == /\ TypeOK
        /\ Counted
        /\ Watched
        /\ Alarms
        /\ Outside
        /\ StopDone
        /\ Callers
        /\ Reader
        /\ Ticking

-----------------------------------------------------------------------------
\* The scope is finite, and empty if and only if its count is zero.
LEMMA Finite ==
    /\ IsFiniteSet(Tasks) /\ Cardinality(Tasks) \in Nat
    /\ \A S \in SUBSET Tasks : IsFiniteSet(S) /\ Cardinality(S) \in 0..Cardinality(Tasks)
    /\ \A S \in SUBSET Tasks : Cardinality(S) = 0 <=> S = {}
  <1>1. IsFiniteSet({"ticker"}) /\ IsFiniteSet({"ticker"} \cup {"reader"})
        /\ IsFiniteSet(({"ticker"} \cup {"reader"}) \cup {"dialer"})
    BY FS_Singleton, FS_AddElement
  <1>2. Singles = ({"ticker"} \cup {"reader"}) \cup {"dialer"}
    BY DEF Singles
  <1>3. IsFiniteSet(Acceptors \cup Clients) /\ IsFiniteSet(Singles)
    BY <1>1, <1>2, ClientsAssumption, AcceptorsAssumption, FS_Union
  <1>4. IsFiniteSet(Tasks)
    BY <1>3, FS_Union DEF Tasks
  <1>5. Cardinality(Tasks) \in Nat
    BY <1>4, FS_CardinalityType
  <1>6. ASSUME NEW S \in SUBSET Tasks
        PROVE  /\ IsFiniteSet(S) /\ Cardinality(S) \in 0..Cardinality(Tasks)
               /\ Cardinality(S) = 0 <=> S = {}
    <2>1. IsFiniteSet(S) /\ Cardinality(S) <= Cardinality(Tasks)
      BY <1>4, FS_Subset
    <2>2. Cardinality(S) \in Nat
      BY <2>1, FS_CardinalityType
    <2>3. Cardinality(S) = 0 <=> S = {}
      BY <2>1, FS_EmptySet
    <2> QED BY <1>5, <2>1, <2>2, <2>3
  <1> QED BY <1>4, <1>5, <1>6

\* The tasks are pairwise different, and none of them is main().
LEMMA TasksApart ==
    /\ "ticker" \in Tasks /\ "reader" \in Tasks /\ "dialer" \in Tasks
    /\ Acceptors \subseteq Tasks /\ Clients \subseteq Tasks
    /\ \A c \in Clients : c # "ticker" /\ c # "reader" /\ c # "dialer" /\ c # "main"
    /\ \A a \in Acceptors : a # "ticker" /\ a # "reader" /\ a # "dialer" /\ a # "main"
    /\ \A a \in Acceptors, c \in Clients : a # c
    /\ "main" \notin Tasks
  BY TasksAssumption DEF Tasks, Singles

\* A change of the tasks in the scope that the count follows.
LEMMA StillCounted ==
    ASSUME IInv, active' = Cardinality(Members')
    PROVE  Counted' /\ active' \in 0..Cardinality(Tasks)
  <1>1. Members' \in SUBSET Tasks
    BY DEF Members
  <1> QED BY <1>1, Finite DEF Counted

LEMMA InitInv == Init => IInv
  <1> SUFFICES ASSUME Init PROVE IInv
    OBVIOUS
  <1> USE DEF Init
  <1>1. Members = {}
    BY DEF Members
  <1>2. Counted /\ active \in 0..Cardinality(Tasks)
    BY <1>1, Finite, FS_EmptySet DEF Counted
  <1>3. TypeOK
    <2>1. ticks \in 0..Ticks
      BY TicksAssumption
    <2>2. /\ at \in [Tasks -> Operations \cup {"over"}]
          /\ event \in [Tasks -> Events] /\ alarm \in [Clients -> Events]
          /\ then \in [Clients -> {"receive", "drain", "exit", "end"}]
      BY DEF Events
    <2> QED BY <1>2, <2>1, <2>2 DEF TypeOK
  <1>4. Watched /\ Alarms /\ Outside /\ StopDone /\ Callers /\ Reader /\ Ticking
    BY <1>1, TicksAssumption, TasksApart
       DEF Watched, Calling, Alarms, Outside, StopDone, Callers, Reader, Ticking
  <1> QED BY <1>2, <1>3, <1>4 DEF IInv

-----------------------------------------------------------------------------
(***************************************************************************)
(* The effects that the steps share.                                       *)
(***************************************************************************)
\* A task that ends leaves the scope, and nothing else does.
LEMMA Ending ==
    ASSUME IInv, NEW t \in Tasks, at[t] # "over", End(t)
    PROVE  /\ at' \in [Tasks -> Operations \cup {"over"}]
           /\ event' \in [Tasks -> Events]
           /\ alarm' \in [Clients -> Events]
           /\ Counted' /\ active' \in 0..Cardinality(Tasks)
           /\ Members' = Members \ {t}
           /\ at'[t] = "over" /\ event'[t] = "none"
           /\ \A u \in Tasks \ {t} : at'[u] = at[u] /\ event'[u] = event[u]
           /\ Alarms'
  <1> USE DEF End
  <1>1. /\ at' \in [Tasks -> Operations \cup {"over"}]
        /\ event' \in [Tasks -> Events]
        /\ alarm' \in [Clients -> Events]
    BY DEF IInv, TypeOK, Events, Silenced
  <1>2. /\ at'[t] = "over" /\ event'[t] = "none"
        /\ \A u \in Tasks \ {t} : at'[u] = at[u] /\ event'[u] = event[u]
        /\ \A c \in Clients : alarm'[c] = IF c = t THEN "none" ELSE alarm[c]
    BY DEF IInv, TypeOK, Silenced
  <1>3. Members' = Members \ {t} /\ t \in Members
    BY <1>2 DEF Members
  <1>4. Cardinality(Members \ {t}) = Cardinality(Members) - 1
    <2>1. Members \in SUBSET Tasks
      BY DEF Members
    <2> QED BY <1>3, <2>1, Finite, FS_RemoveElement
  <1>5. active' = Cardinality(Members')
    BY <1>3, <1>4 DEF IInv, Counted
  <1>6. Alarms'
    BY <1>2, TasksApart DEF IInv, Alarms
  <1> QED BY <1>1, <1>2, <1>3, <1>5, <1>6, StillCounted

\* A task that awaits its next operation stays in the scope.
LEMMA Awaiting ==
    ASSUME IInv, NEW t \in Tasks, NEW op \in Operations, at[t] # "over", Await(t, op)
    PROVE  /\ at' \in [Tasks -> Operations \cup {"over"}]
           /\ event' \in [Tasks -> Events]
           /\ alarm' = alarm
           /\ Counted' /\ active' = active
           /\ Members' = Members
           /\ at'[t] = op /\ op # "over" /\ event'[t] # "none"
           /\ \A u \in Tasks \ {t} : at'[u] = at[u] /\ event'[u] = event[u]
           /\ Alarms' /\ ~stop
  <1> USE DEF Await
  <1>1. op # "over"
    BY DEF Operations
  <1>0. PICK added \in Added(t) : event' = [event EXCEPT ![t] = added]
    OBVIOUS
  <1> added \in {"pending", "refused"}
    BY DEF Added
  <1>2. /\ at' \in [Tasks -> Operations \cup {"over"}]
        /\ event' \in [Tasks -> Events]
    BY <1>0 DEF IInv, TypeOK, Events
  <1>3. /\ at'[t] = op /\ event'[t] # "none"
        /\ \A u \in Tasks \ {t} : at'[u] = at[u] /\ event'[u] = event[u]
    BY <1>0 DEF IInv, TypeOK
  <1>4. Members' = Members
    BY <1>1, <1>3 DEF Members
  <1>5. Counted'
    BY <1>4 DEF IInv, Counted
  <1>6. Alarms'
    BY <1>1, <1>3, TasksApart DEF IInv, Alarms
  <1> QED BY <1>1, <1>2, <1>3, <1>4, <1>5, <1>6

\* A task that is resumed ends or awaits its next operation.
LEMMA Resuming ==
    ASSUME IInv, NEW t \in Tasks, at[t] # "over",
           thread \in {"dispatching", "blocked"}, thread' = "dispatching",
           End(t) \/ \E op \in Operations : Await(t, op),
           program' = program, stop' = stop, caller' = caller,
           then' \in [Clients -> {"receive", "drain", "exit", "end"}],
           keep_running' \in BOOLEAN, ticks' \in 0..Ticks, Ticking'
    PROVE  IInv'
  <1>1. /\ at' \in [Tasks -> Operations \cup {"over"}]
        /\ event' \in [Tasks -> Events]
        /\ alarm' \in [Clients -> Events]
        /\ active' \in 0..Cardinality(Tasks)
    BY Ending, Awaiting DEF IInv, TypeOK
  <1>2. /\ Counted' /\ Alarms' /\ Members' \subseteq Members
        /\ at'[t] = "over" <=> event'[t] = "none"
        /\ \A u \in Tasks \ {t} : at'[u] = at[u] /\ event'[u] = event[u]
    BY Ending, Awaiting
  <1>3. TypeOK'
    BY <1>1 DEF IInv, TypeOK
  <1>4. Watched'
    BY <1>2 DEF IInv, Watched, Calling
  <1>5. StopDone'
    BY <1>2 DEF IInv, StopDone
  <1>6. Reader'
    BY <1>2, TasksApart DEF IInv, Reader
  <1> QED BY <1>2, <1>3, <1>4, <1>5, <1>6 DEF IInv, Outside, Callers

\* A task that is called back is in the scope; if stop was requested, only the
\* reader is.
LEMMA ResumedIn ==
    ASSUME IInv, NEW t \in Tasks, Resumed(t)
    PROVE  at[t] # "over" /\ thread = "dispatching" /\ (stop => t = "reader")
  BY DEF Resumed, IInv, Watched, Calling, StopDone, Members

\* spawn() ends the program, or main() does: nothing else changes.
LEMMA TerminateInv ==
    ASSUME IInv, Terminate, thread = "dispatching", UNCHANGED <<stop, caller, rest>>
    PROVE  IInv'
  <1> USE DEF Terminate, rest
  <1>1. Members' = Members
    BY DEF Members
  <1> QED BY <1>1 DEF IInv, TypeOK, Counted, Watched, Calling, Alarms, Outside, StopDone,
          Callers, Reader, Ticking

\* Who requests stop is in the scope, or is main() of accu-2024.
LEMMA RequestStopInv ==
    ASSUME IInv, NEW who, RequestStop(who), UNCHANGED rest,
           thread \in {"running", "dispatching"},
           \/ who \in Tasks /\ at[who] # "over"
           \/ who = "main" /\ program = "accu-2024"
    PROVE  IInv'
  <1> USE DEF RequestStop, rest
  <1>1. Members' = Members /\ at' = at /\ thread' = "stopping" /\ caller' = who /\ stop'
    BY DEF Members
  <1>2. \A t \in Tasks : event'[t] = IF t = who THEN "none" ELSE event[t]
    OBVIOUS
  <1>3. event' \in [Tasks -> Events]
    BY DEF IInv, TypeOK, Events
  <1>4. TypeOK'
    BY <1>1, <1>3 DEF IInv, TypeOK
  <1>5. Watched'
    BY <1>1, <1>2 DEF IInv, Watched, Calling
  <1>6. Counted' /\ Alarms' /\ Outside' /\ StopDone' /\ Reader' /\ Ticking'
    BY <1>1 DEF IInv, Counted, Alarms, Outside, StopDone, Reader, Ticking
  <1>7. Callers'
    BY <1>1, TasksApart DEF Callers
  <1> QED BY <1>4, <1>5, <1>6, <1>7 DEF IInv

-----------------------------------------------------------------------------
(***************************************************************************)
(* main(), from its start to its end.                                      *)
(***************************************************************************)
\* Every spawned task has a first operation, and overview's reader is not
\* spawned elsewhere.
LEMMA Spawning ==
    ASSUME NEW p \in AllPrograms
    PROVE  /\ Spawned(p) \subseteq Tasks
           /\ "reader" \in Spawned(p) => p = "overview"
           /\ \A t \in Tasks : FirstOp(t) \in Operations
           /\ "over" \notin Operations
  <1>1. (CHOOSE a \in Acceptors : TRUE) \in Acceptors
    BY AcceptorsAssumption
  <1>2. Spawned(p) \subseteq Tasks /\ ("reader" \in Spawned(p) => p = "overview")
    BY <1>1, TasksApart DEF Spawned, AllPrograms
  <1> QED BY <1>2 DEF FirstOp, Operations

LEMMA BeginInv == ASSUME IInv, Begin PROVE IInv'
  <1> USE DEF Begin, rest
  <1>1. /\ Spawned(program) \subseteq Tasks
        /\ "reader" \in Spawned(program) => program = "overview"
        /\ \A t \in Tasks : FirstOp(t) \in Operations
        /\ "over" \notin Operations
    BY Spawning DEF IInv, TypeOK
  <1>0. PICK refused \in SUBSET (Spawned(program) \cap Refusable) :
            event' = AddedTo(event, Spawned(program), refused)
    OBVIOUS
  <1>2. /\ \A t \in Tasks :
            /\ at'[t] = IF t \in Spawned(program) THEN FirstOp(t) ELSE "over"
            /\ event'[t] = IF t \in refused THEN "refused"
                           ELSE IF t \in Spawned(program) THEN "pending" ELSE event[t]
        /\ event' \in [Tasks -> Events]
        /\ \A t \in Tasks : event[t] = "none"
    <2>1. \A t \in Tasks : event[t] = "none"
      BY DEF IInv, Watched, Calling, Outside, Members
    <2> QED BY <1>0, <2>1 DEF AddedTo, Events
  <1>3. Members' = Spawned(program)
    BY <1>1, <1>2 DEF Members
  <1>4. Counted' /\ active' \in 0..Cardinality(Tasks)
    BY <1>3, StillCounted
  <1>5. at' \in [Tasks -> Operations \cup {"over"}] /\ event' \in [Tasks -> Events]
    BY <1>1, <1>2
  <1>6. TypeOK'
    BY <1>4, <1>5 DEF IInv, TypeOK
  <1>7. Watched'
    BY <1>1, <1>2 DEF Watched, Calling
  <1>8. Alarms'
    BY DEF IInv, Alarms, Outside, Members, Tasks
  <1>9. Reader'
    BY <1>1, <1>2, TasksApart DEF Reader
  <1>10. Ticking'
    BY <1>2 DEF IInv, Ticking, Outside, Members, Callers
  <1> QED BY <1>4, <1>6, <1>7, <1>8, <1>9, <1>10 DEF IInv, Outside, StopDone, Callers

LEMMA BeginFailsInv == ASSUME IInv, BeginFails PROVE IInv'
  <1> USE DEF BeginFails, rest
  <1>1. Members' = Members /\ Members = {}
    BY DEF Members, IInv, Outside
  <1>2. \A c \in Clients : alarm[c] \notin Known
    BY <1>1, TasksApart DEF IInv, Alarms, Members, Known
  <1> QED BY <1>1, <1>2 DEF IInv, TypeOK, Counted, Watched, Calling, Alarms, Outside, StopDone,
          Callers, Reader, Ticking

LEMMA RunOneInv == ASSUME IInv, RunOne PROVE IInv'
  <1> USE DEF RunOne, rest
  <1>1. Members' = Members
    BY DEF Members
  <1>2. /\ \A t \in Tasks : event'[t] = Activated(event[t])
        /\ \A c \in Clients : alarm'[c] = Activated(alarm[c])
        /\ \A e : Activated(e) = "none" <=> e = "none"
        /\ \A e \in Events : Activated(e) \in Events
    BY DEF Activated, Events
  <1>3. event' \in [Tasks -> Events] /\ alarm' \in [Clients -> Events]
    BY <1>2 DEF IInv, TypeOK
  <1>4. TypeOK'
    BY <1>3 DEF IInv, TypeOK
  <1>5. Watched' /\ Alarms'
    BY <1>2 DEF IInv, Watched, Calling, Alarms
  <1> QED BY <1>1, <1>4, <1>5
          DEF IInv, Counted, Outside, StopDone, Callers, Reader, Ticking

LEMMA TurnEndsInv == ASSUME IInv, TurnEnds PROVE IInv'
  <1> USE DEF TurnEnds, rest
  <1>1. Members' = Members
    BY DEF Members
  <1> QED BY <1>1 DEF IInv, TypeOK, Counted, Watched, Calling, Alarms, Outside, StopDone,
          Callers, Reader, Ticking

\* Without events no task is left but those without, with an empty scope none.
LEMMA RunEndsInv == ASSUME IInv, RunEnds PROVE IInv'
  <1> USE DEF RunEnds, rest
  <1>1. Members' = Members /\ Members \in SUBSET Tasks
    BY DEF Members
  <1>2. /\ \A t \in Members : event[t] = "refused"
        /\ \A c \in Clients : alarm[c] \notin Known
        /\ program \in {"accu-2024", "overview"} => Members = {}
    <2>1. CASE program = "overview"
      <3>1. Members = {}
        BY <1>1, <2>1, Finite DEF IInv, Counted
      <3>2. \A c \in Clients : alarm[c] = "none"
        BY <3>1, TasksApart DEF IInv, Alarms, Members
      <3> QED BY <3>1, <3>2 DEF Known
    <2>2. CASE program # "overview"
      <3>1. ~InLibevent
        BY <2>2
      <3>2. \A t \in Members : event[t] \in Events /\ event[t] # "none"
        BY DEF IInv, TypeOK, Watched, Calling, Members
      <3> QED BY <2>2, <3>1, <3>2 DEF InLibevent, Events, Known, Members
    <2> QED BY <2>1, <2>2
  <1> QED BY <1>1, <1>2 DEF IInv, TypeOK, Counted, Watched, Calling, Alarms, Outside,
          StopDone, Callers, Reader, Ticking

LEMMA RunFailsInv == ASSUME IInv, RunFails PROVE IInv'
  <1>1. CASE program = "accu-2024"
    BY <1>1, RequestStopInv DEF RunFails
  <1>2. CASE program # "accu-2024"
    <2>1. /\ thread' = "failed" /\ UNCHANGED <<at, event, alarm, active, stop, caller>>
          /\ UNCHANGED rest /\ program # "overview" /\ thread = "running"
      BY <1>2 DEF RunFails
    <2>2. Members' = Members
      BY <2>1 DEF Members
    <2> QED BY <1>2, <2>1, <2>2 DEF rest, IInv, TypeOK, Counted, Watched, Calling, Alarms,
            Outside, StopDone, Callers, Reader, Ticking
  <1> QED BY <1>1, <1>2

\* An empty scope: main() may end, and otherwise the program does.
LEMMA LeaveInv == ASSUME IInv, Leave PROVE IInv'
  <1> USE DEF Leave, rest
  <1>1. Members' = Members /\ Members = {}
    BY Finite DEF Members, IInv, Counted
  <1> QED BY <1>1 DEF IInv, TypeOK, Counted, Watched, Calling, Alarms, Outside, StopDone,
          Callers, Reader, Ticking

LEMMA LeaveFailsInv == ASSUME IInv, LeaveFails PROVE IInv'
  <1> USE DEF LeaveFails, rest
  <1>1. Members' = Members
    BY DEF Members
  <1> QED BY <1>1 DEF IInv, TypeOK, Counted, Watched, Calling, Alarms, Outside, StopDone,
          Callers, Reader, Ticking

-----------------------------------------------------------------------------
(***************************************************************************)
(* request_stop().                                                         *)
(***************************************************************************)
LEMMA StoppedInv == ASSUME IInv, NEW t \in Tasks, Stopped(t) PROVE IInv'
  <1> USE DEF Stopped, rest
  <1>1. t # "reader" /\ event[t] # "none" /\ at[t] # "over" /\ ~Calling(t) /\ End(t)
    BY DEF Registered, IInv, Watched
  <1>2. TypeOK'
    BY <1>1, Ending DEF IInv, TypeOK
  <1>3. Watched'
    BY <1>1, Ending DEF IInv, Watched, Calling
  <1>4. Callers' /\ Reader' /\ Ticking'
    BY <1>1, Ending, TasksApart DEF IInv, TypeOK, Callers, Calling, Reader, Ticking
  <1> QED BY <1>1, <1>2, <1>3, <1>4, Ending DEF IInv, Outside, StopDone

LEMMA StopReturnsInv == ASSUME IInv, StopReturns PROVE IInv'
  <1> USE DEF StopReturns, rest
  <1>1. Members \subseteq {"reader", caller}
    BY DEF Members, Registered, IInv, Watched, Calling
  <1>2. CASE caller = "main"
    <2>1. Members' = Members /\ thread' = "leaving"
          /\ UNCHANGED <<at, event, alarm, active>>
      BY <1>2 DEF Members
    <2>2. program = "accu-2024"
      BY <1>2 DEF IInv, Callers
    <2>3. Members = {}
      BY <1>1, <1>2, <2>2, TasksApart DEF IInv, Reader, Members
    <2>4. \A c \in Clients : alarm'[c] \notin Known
      BY <2>1, <2>3, TasksApart DEF IInv, Alarms, Members, Known
    <2> QED BY <1>2, <2>1, <2>2, <2>3, <2>4, TasksApart
            DEF IInv, TypeOK, Counted, Watched, Calling, Alarms, Outside, StopDone,
                Callers, Reader, Ticking
  <1>3. CASE caller # "main"
    <2>1. caller \in Tasks /\ at[caller] # "over" /\ End(caller) /\ thread' = "dispatching"
      BY <1>3 DEF IInv, TypeOK, Callers
    <2>2. TypeOK'
      BY <2>1, Ending DEF IInv, TypeOK
    <2>3. Watched'
      BY <2>1, Ending DEF IInv, Watched, Calling
    <2>4. StopDone' /\ Outside'
      <3>1. Members' = Members \ {caller}
        BY <2>1, Ending
      <3> QED BY <1>1, <2>1, <3>1 DEF StopDone, Outside
    <2>5. Callers' /\ Reader' /\ Ticking'
      BY <2>1, Ending, TasksApart DEF IInv, Callers, Reader, Ticking
    <2> QED BY <2>1, <2>2, <2>3, <2>4, <2>5, Ending DEF IInv
  <1> QED BY <1>2, <1>3

LEMMA LeaveLoopInv == ASSUME IInv, LeaveLoop PROVE IInv'
  BY RequestStopInv DEF LeaveLoop
LEMMA ExitInv == ASSUME IInv, NEW c \in Clients, ExitWork(c) PROVE IInv'
  BY RequestStopInv, ResumedIn, TasksApart DEF ExitWork
LEMMA ReadInv == ASSUME IInv, ReadWork PROVE IInv'
  BY RequestStopInv, ResumedIn, TasksApart DEF ReadWork

-----------------------------------------------------------------------------
(***************************************************************************)
(* What the batch resumes.                                                 *)
(***************************************************************************)
LEMMA AcceptInv ==
    ASSUME IInv, NEW a \in Acceptors, NEW c \in Clients, AcceptWork(a, c) PROVE IInv'
  <1> USE DEF rest
  <1>1. /\ a \in Tasks /\ c \in Tasks /\ a # c /\ a # "reader" /\ a # "ticker"
        /\ c # "reader" /\ c # "ticker" /\ Resumed(a)
        /\ UNCHANGED <<stop, caller, rest>>
    BY TasksApart DEF AcceptWork
  <1>2. at[a] # "over" /\ thread = "dispatching" /\ ~stop
    BY <1>1, ResumedIn
  <1>3. CASE Terminate
    BY <1>1, <1>2, <1>3, TerminateInv
  <1>4. CASE /\ at[c] = "over"
             /\ at' = [at EXCEPT ![c] = "receive", ![a] = "accept"]
             /\ \E refused \in SUBSET ({a, c} \cap Refusable) :
                   event' = AddedTo(event, {a, c}, refused)
             /\ \E added \in IF Timed THEN Added(c) ELSE {"none"} :
                   alarm' = [alarm EXCEPT ![c] = added]
             /\ active' = active + 1
             /\ Going
    <2> PICK refused \in SUBSET ({a, c} \cap Refusable) :
              event' = AddedTo(event, {a, c}, refused)
      BY <1>4
    <2> PICK added \in IF Timed THEN Added(c) ELSE {"none"} :
              alarm' = [alarm EXCEPT ![c] = added]
      BY <1>4
    <2> added \in {"none", "pending", "refused"}
      BY DEF Added
    <2>0. /\ event'[c] \in {"pending", "refused"} /\ event'[a] \in {"pending", "refused"}
          /\ \A t \in Tasks \ {a, c} : event'[t] = event[t]
          /\ event' \in [Tasks -> Events]
      BY <1>1 DEF AddedTo, IInv, TypeOK, Events
    <2>1. /\ at'[c] = "receive" /\ at'[a] = "accept"
          /\ event'[c] # "none" /\ event'[a] # "none"
          /\ \A t \in Tasks \ {a, c} : at'[t] = at[t] /\ event'[t] = event[t]
          /\ \A d \in Clients \ {c} : alarm'[d] = alarm[d]
          /\ thread' = "dispatching"
      BY <1>1, <1>4, <2>0 DEF IInv, TypeOK, Going
    <2>2. Members' = Members \cup {c} /\ c \notin Members /\ Members \in SUBSET Tasks
      BY <1>1, <1>2, <1>4, <2>1 DEF Members
    <2>3. Cardinality(Members \cup {c}) = Cardinality(Members) + 1
      BY <2>2, Finite, FS_AddElement
    <2>4. Counted' /\ active' \in 0..Cardinality(Tasks)
      BY <1>4, <2>2, <2>3, StillCounted DEF IInv, Counted
    <2>5. /\ at' \in [Tasks -> Operations \cup {"over"}]
          /\ event' \in [Tasks -> Events]
          /\ alarm' \in [Clients -> Events]
      <3>1. "receive" \in Operations /\ "accept" \in Operations
            /\ "pending" \in Events /\ "none" \in Events
        BY DEF Operations, Events
      <3>2. at' \in [Tasks -> Operations \cup {"over"}]
        BY <1>4, <3>1 DEF IInv, TypeOK
      <3>3. event' \in [Tasks -> Events]
        BY <2>0
      <3>4. alarm' \in [Clients -> Events]
        BY <3>1 DEF IInv, TypeOK, Events
      <3> QED BY <3>2, <3>3, <3>4
    <2>6. TypeOK'
      BY <1>1, <2>1, <2>4, <2>5 DEF IInv, TypeOK
    <2>7. Watched' /\ Alarms'
      <3>1. \A t \in Tasks : ~Calling(t) /\ ~Calling(t)'
        BY <1>2, <2>1 DEF Calling
      <3>2. Watched'
        BY <1>1, <2>1, <3>1 DEF IInv, Watched
      <3>3. ASSUME NEW d \in Clients \ {c} PROVE alarm'[d] # "none" => at'[d] # "over"
        BY <2>1, TasksApart DEF IInv, Alarms
      <3>4. Alarms'
        BY <2>1, <3>3 DEF Alarms
      <3> QED BY <3>2, <3>4
    <2>8. Reader' /\ Ticking'
      BY <1>1, <1>2, <2>1, TasksApart DEF IInv, Reader, Ticking
    <2> QED BY <1>1, <1>2, <2>1, <2>4, <2>6, <2>7, <2>8
            DEF IInv, Outside, StopDone, Callers
  <1>5. CASE Await(a, "accept") /\ Going
    <2>1. Ticking'
      BY <1>1, <1>2, <1>5, Awaiting, TasksApart DEF IInv, Ticking, Going, Operations
    <2> QED BY <1>1, <1>2, <1>5, <2>1, Resuming DEF IInv, TypeOK, Going, Operations
  <1> QED BY <1>3, <1>4, <1>5 DEF AcceptWork

\* What a client awaits next is an operation.
LEMMA ReceiveInv == ASSUME IInv, NEW c \in Clients, ReceiveWork(c) PROVE IInv'
  <1>1. c \in Tasks /\ c # "ticker" /\ at[c] # "over" /\ thread = "dispatching"
    BY ResumedIn, TasksApart DEF ReceiveWork
  <1>2. PICK r \in Responses(c) :
            /\ IF r.op = "over" THEN End(c) ELSE Await(c, r.op)
            /\ then' = [then EXCEPT ![c] = r.then]
    BY DEF ReceiveWork
  <1>3. r.op \in Operations \cup {"over"} /\ r.then \in {"receive", "drain", "exit", "end"}
    BY DEF Responses, Operations
  <1>4. End(c) \/ \E op \in Operations : Await(c, op)
    BY <1>2, <1>3
  <1>5. then' \in [Clients -> {"receive", "drain", "exit", "end"}]
    BY <1>2, <1>3 DEF IInv, TypeOK
  <1>6. /\ thread' = "dispatching"
        /\ UNCHANGED <<program, stop, keep_running, caller, ticks>>
    BY DEF ReceiveWork, Going
  <1>7. Ticking'
    BY <1>1, <1>4, <1>6, Ending, Awaiting, TasksApart DEF IInv, Ticking
  <1> QED BY <1>1, <1>4, <1>5, <1>6, <1>7, Resuming DEF IInv, TypeOK

LEMMA SentInv ==
    ASSUME IInv, NEW c \in Clients, at[c] # "over", thread \in {"dispatching", "blocked"},
           Sent(c)
    PROVE  IInv'
  <1>1. c \in Tasks /\ c # "ticker"
    BY TasksApart
  <1>2. End(c) \/ \E op \in Operations : Await(c, op)
    BY DEF Sent, Operations
  <1>3. /\ thread' = "dispatching"
        /\ UNCHANGED <<program, then, stop, caller, ticks>>
        /\ keep_running' \in BOOLEAN
    BY DEF Sent, Going, IInv, TypeOK
  <1>4. Ticking'
    BY <1>1, <1>2, <1>3, Ending, Awaiting, TasksApart DEF IInv, Ticking
  <1> QED BY <1>1, <1>2, <1>3, <1>4, Resuming DEF IInv, TypeOK

LEMMA SendInv == ASSUME IInv, NEW c \in Clients, SendWork(c) PROVE IInv'
  <1>1. c \in Tasks /\ at[c] = "send" /\ at[c] # "over" /\ thread = "dispatching"
    BY ResumedIn, TasksApart DEF SendWork
  <1>2. CASE SendBlocks(c)
    <2> USE <1>2 DEF SendBlocks, rest
    <2>1. Members' = Members
      BY DEF Members
    <2> QED BY <1>1, <2>1 DEF IInv, TypeOK, Counted, Watched, Calling, Alarms, Outside,
            StopDone, Callers, Reader, Ticking
  <1> QED BY <1>1, <1>2, SentInv DEF SendWork

LEMMA UnblockInv == ASSUME IInv, Unblock PROVE IInv'
  <1>1. caller \in Clients /\ at[caller] # "over" /\ thread = "blocked" /\ Sent(caller)
    BY DEF Unblock, IInv, Callers
  <1> QED BY <1>1, SentInv

LEMMA AlarmInv == ASSUME IInv, NEW c \in Clients, AlarmWork(c) PROVE IInv'
  <1> USE DEF AlarmWork, rest
  <1>1. c \in Tasks /\ c # "ticker" /\ at[c] # "over"
    BY TasksApart DEF IInv, Alarms
  <1>2. Ticking'
    BY <1>1, Ending, TasksApart DEF IInv, Ticking, Going
  <1> QED BY <1>1, <1>2, Resuming DEF IInv, TypeOK, Going

LEMMA TickInv == ASSUME IInv, TickWork PROVE IInv'
  <1>1. "ticker" \in Tasks /\ at["ticker"] # "over" /\ thread = "dispatching"
        /\ UNCHANGED <<program, then, stop, keep_running, caller>>
    BY ResumedIn, TasksApart DEF TickWork
  <1>2. ticks' \in 0..Ticks /\ (program = "server" => ticks \in 1..Ticks /\ ticks' = ticks - 1)
    <2>1. program = "server" => ticks \in 1..Ticks /\ ticks' = ticks - 1
      BY <1>1, TicksAssumption DEF IInv, TypeOK, Ticking, TickWork
    <2>2. program # "server" => ticks' = ticks
      BY DEF TickWork
    <2> QED BY <2>1, <2>2, TicksAssumption DEF IInv, TypeOK
  <1>3. CASE Terminate
    <2> USE <1>3 DEF Terminate
    <2>1. Members' = Members
      BY DEF Members
    <2>2. program = "server" /\ ticks > 1
      BY <1>1 DEF TickWork, End, Await, Going
    <2>3. Ticking'
      BY <1>1, <1>2, <2>2, TicksAssumption DEF Ticking
    <2>4. TypeOK'
      BY <1>1, <1>2 DEF IInv, TypeOK
    <2>5. Counted' /\ Watched' /\ Alarms' /\ StopDone' /\ Reader'
      BY <1>1, <2>1 DEF IInv, Counted, Watched, Calling, Alarms, StopDone, Reader
    <2> QED BY <1>1, <2>3, <2>4, <2>5 DEF IInv, Outside, Callers
  <1>4. CASE Going /\ (End("ticker") \/ \E op \in Operations : Await("ticker", op))
    <2>1. Ticking'
      <3>1. CASE program = "server"
        <4>1. ticks = 1 => at'["ticker"] = "over"
          BY <1>1, <1>4, <3>1, Ending DEF TickWork, Terminate, Going
        <4> QED BY <1>1, <1>2, <1>4, <3>1, <4>1, TicksAssumption DEF Ticking, Going
      <3>2. CASE program # "server"
        BY <1>1, <3>2 DEF Ticking
      <3> QED BY <3>1, <3>2
    <2> QED BY <1>1, <1>2, <1>4, <2>1, Resuming DEF IInv, TypeOK, Going
  <1> QED BY <1>3, <1>4 DEF TickWork, Operations

LEMMA DialInv == ASSUME IInv, DialWork PROVE IInv'
  <1>1. "dialer" \in Tasks /\ at["dialer"] # "over" /\ thread = "dispatching"
        /\ UNCHANGED <<stop, caller, rest>>
    BY ResumedIn, TasksApart DEF DialWork
  <1>2. CASE Terminate
    BY <1>1, <1>2, TerminateInv
  <1>3. CASE /\ End("dialer") \/ \E op \in Operations : Await("dialer", op)
             /\ Going
    <2>1. Ticking'
      BY <1>1, <1>3, Ending, Awaiting, TasksApart DEF IInv, Ticking, Going, rest
    <2> QED BY <1>1, <1>3, <2>1, Resuming DEF IInv, TypeOK, Going, rest
  <1> QED BY <1>2, <1>3 DEF DialWork, Operations

-----------------------------------------------------------------------------
LEMMA ReadyInv == ASSUME IInv, NEW t \in Tasks, BecomesReady(t) PROVE IInv'
  <1> USE DEF BecomesReady, rest
  <1>1. Members' = Members
    BY DEF Members
  <1>2. event' \in [Tasks -> Events]
        /\ \A u \in Tasks : event'[u] = "none" <=> event[u] = "none"
    BY DEF IInv, TypeOK, Events
  <1> QED BY <1>1, <1>2 DEF IInv, TypeOK, Counted, Watched, Calling, Alarms, Outside,
          StopDone, Callers, Reader, Ticking

LEMMA DueInv == ASSUME IInv, NEW c \in Clients, Due(c) PROVE IInv'
  <1> USE DEF Due, rest
  <1>1. Members' = Members
    BY DEF Members
  <1>2. alarm' \in [Clients -> Events]
        /\ \A d \in Clients : alarm'[d] = "none" <=> alarm[d] = "none"
    BY DEF IInv, TypeOK, Events
  <1>3. thread # "leaving"
    BY DEF IInv, Outside, Known
  <1> QED BY <1>1, <1>2, <1>3 DEF IInv, TypeOK, Counted, Watched, Calling, Alarms, Outside,
          StopDone, Callers, Reader, Ticking

LEMMA NextInv == ASSUME IInv, [Next]_vars PROVE IInv'
  <1>1. CASE UNCHANGED vars
    <2> USE <1>1 DEF vars
    <2>1. Members' = Members
      BY DEF Members
    <2> QED BY <2>1 DEF IInv, TypeOK, Counted, Watched, Calling, Alarms, Outside,
            StopDone, Callers, Reader, Ticking
  <1>2. CASE ThreadStep
    BY <1>2, BeginInv, BeginFailsInv, RunOneInv, TurnEndsInv, LeaveLoopInv, RunEndsInv,
       LeaveInv, StoppedInv, StopReturnsInv, AcceptInv, ReceiveInv, ExitInv, SendInv,
       AlarmInv, TickInv, ReadInv, DialInv, LeaveFailsInv
       DEF ThreadStep
  <1>3. CASE Unblock
    BY <1>3, UnblockInv
  <1>4. CASE \E t \in Tasks : BecomesReady(t)
    BY <1>4, ReadyInv
  <1>5. CASE \E c \in Clients : Due(c)
    BY <1>5, DueInv
  <1>6. CASE RunFails
    BY <1>6, RunFailsInv
  <1> QED BY <1>1, <1>2, <1>3, <1>4, <1>5, <1>6 DEF Next

(***************************************************************************)
(* The invariant of the programs: the scope counts the tasks that are in   *)
(* flight, and each of them has an event, be it one that was refused.      *)
(***************************************************************************)
THEOREM Invariance == Spec => []IInv
  <1>1. Init => IInv
    BY InitInv
  <1>2. IInv /\ [Next]_vars => IInv'
    BY NextInv
  <1> QED BY <1>1, <1>2, PTL DEF Spec

\* Every variable keeps its type: the count of the scope never underflows.
THEOREM ProgramsTyped == Spec => []TypeOK
  <1>1. IInv => TypeOK
    BY DEF IInv
  <1> QED BY <1>1, Invariance, PTL

\* When main() waits for the scope, only tasks whose events could not be added
\* are left in it, and none in the programs that stop the others.
THEOREM ScopeIsEmpty == Spec => []LeavesEmpty
  <1>1. ASSUME IInv PROVE LeavesEmpty
    <2> SUFFICES ASSUME thread = "leaving"
                 PROVE  /\ ~InLibevent
                        /\ \A t \in Tasks : at[t] # "over" => event[t] = "refused"
                        /\ active = 0 \/ (\E t \in Tasks : event[t] = "refused")
                        /\ program \in {"accu-2024", "overview"} => active = 0
      BY DEF LeavesEmpty
    <2>1. \A t \in Members : event[t] = "refused"
      BY <1>1 DEF IInv, Outside
    <2>2. Members = {} => active = 0
      BY <1>1, Finite DEF IInv, Counted
    <2>3. program \in {"accu-2024", "overview"} => Members = {}
      BY <1>1 DEF IInv, Outside
    <2>4. \A t \in Tasks : event[t] \in {"none", "refused"}
      BY <1>1, <2>1 DEF IInv, Watched, Calling, Members
    <2>5. ~InLibevent
      BY <1>1, <2>4 DEF IInv, Outside, InLibevent, Known
    <2> QED BY <2>1, <2>2, <2>3, <2>5 DEF Members
  <1> QED BY <1>1, Invariance, PTL

\* No connection is served once stop is requested.
THEOREM NothingSpawnedAfterStop == Spec => NoneSpawnedAfterStop
  <1>1. ASSUME IInv, stop, NEW c \in Clients, at[c] = "over", [Next]_vars
        PROVE  at'[c] = "over"
    <2> USE <1>1
    <2>1. \A t \in Tasks \ {"reader"} : ~Resumed(t)
      BY ResumedIn
    <2>2. thread # "starting" /\ (thread = "dispatching" => \A d \in Clients : alarm[d] = "none")
      BY TasksApart DEF IInv, Callers, Alarms, StopDone, Members
    <2>3. thread # "blocked"
      BY TasksApart DEF IInv, Callers, StopDone, Members
    <2>4. ASSUME NEW t \in Tasks, End(t) PROVE at'[c] = "over"
      BY <2>4, TasksApart DEF End, IInv, TypeOK
    <2>5. CASE at' = at
      BY <2>5
    <2>6. CASE StopReturns
      BY <2>4, <2>6 DEF StopReturns, IInv, TypeOK
    <2>7. CASE \E t \in Tasks : Stopped(t)
      BY <2>4, <2>7 DEF Stopped
    <2>8. CASE ThreadStep /\ ~StopReturns /\ ~\E t \in Tasks : Stopped(t)
      <3>1. ~Begin
        BY <2>2 DEF Begin
      <3>2. BeginFails \/ RunOne \/ TurnEnds \/ LeaveLoop \/ RunEnds \/ Leave \/ LeaveFails
              \/ ReadWork => at' = at
        BY DEF BeginFails, RunOne, TurnEnds, LeaveLoop, RunEnds, Leave, LeaveFails, ReadWork,
               RequestStop
      <3>3. ~TickWork /\ ~DialWork
        BY <2>1, TasksApart DEF TickWork, DialWork
      <3>4. \A a \in Acceptors, d \in Clients : ~AcceptWork(a, d)
        BY <2>1, TasksApart DEF AcceptWork
      <3>5. \A d \in Clients : ~ReceiveWork(d) /\ ~ExitWork(d) /\ ~SendWork(d) /\ ~AlarmWork(d)
        BY <2>1, <2>2, TasksApart DEF ReceiveWork, ExitWork, SendWork, AlarmWork
      <3> QED BY <2>5, <2>8, <3>1, <3>2, <3>3, <3>4, <3>5 DEF ThreadStep
    <2>9. CASE Unblock
      BY <2>3, <2>9 DEF Unblock
    <2>10. CASE RunFails
      BY <2>5, <2>10 DEF RunFails, RequestStop
    <2> QED BY <2>5, <2>6, <2>7, <2>8, <2>9, <2>10 DEF Next, BecomesReady, Due, vars
  <1>2. IInv /\ [Next]_vars => (stop => \A c \in Clients : at[c] = "over" => at'[c] = "over")
    BY <1>1
  <1> QED BY <1>2, Invariance, PTL DEF Spec, NoneSpawnedAfterStop
=============================================================================
