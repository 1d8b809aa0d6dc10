----------------------------- MODULE PollContext -----------------------------
(***************************************************************************)
(* The poll context: accept operations queue in two parallel vectors, and  *)
(* run_one() polls their sockets and calls the _Work of one that is ready. *)
(* Everything runs on the loop's thread; starting an operation, a poll     *)
(* that finds something, and the calls these make, are one step each.      *)
(* A connection that the peer aborts stays in the backlog, as on Linux.    *)
(***************************************************************************)
EXTENDS Integers, Sequences

CONSTANTS
    Acceptors,   \* listening sockets, open all the time
    Accepts,     \* the accept operations
    Others,      \* operations of any other kind
    On,          \* the acceptor of each accept operation
    MaxBacklog   \* bound: connections a listening socket holds

ASSUME OnAssumption == On \in [Accepts -> Acceptors]
ASSUME KindsAssumption == Accepts \cap Others = {}
ASSUME BacklogAssumption == MaxBacklog \in Nat

VARIABLES
    fds,          \* _D_poll: the socket of each entry
    outstanding,  \* _D_outstanding: the operation of each entry
    phase,        \* how far each operation is
    count,        \* its _Cpo_State_base::_D_outstanding
    completed,    \* what its receiver was told
    result,       \* history: what accept() did for it
    backlog,      \* how many connections each socket has for accept()
    stopRequested,
    loop          \* whether run() was called and has not returned, or hangs

vectors == <<fds, outstanding>>
operation == <<phase, count, completed, result>>
vars == <<fds, outstanding, phase, count, completed, result, backlog, stopRequested, loop>>

Ops == Accepts \cup Others

TypeOK == /\ fds \in Seq(Acceptors)
          /\ outstanding \in Seq(Accepts)
          /\ phase \in [Ops -> {"idle", "queued", "done"}]
          /\ count \in [Ops -> -1..1]
          /\ completed \in [Ops -> {"none", "value", "error"}]
          /\ result \in [Ops -> {"none", "value", "error"}]
          /\ backlog \in [Acceptors -> 0..MaxBacklog]
          /\ stopRequested \in BOOLEAN
          /\ loop \in {"returned", "running", "blocked"}

Init == /\ fds = <<>>
        /\ outstanding = <<>>
        /\ phase = [o \in Ops |-> "idle"]
        /\ count = [o \in Ops |-> 0]
        /\ completed = [o \in Ops |-> "none"]
        /\ result = [o \in Ops |-> "none"]
        /\ backlog = [a \in Acceptors |-> 0]
        /\ stopRequested = FALSE
        /\ loop = "returned"

-----------------------------------------------------------------------------
\* As a bug: the receiver is told by every call from the one that reaches 0 on.
CountOutNotPositive(o, before, signal) ==
    /\ count' = [count EXCEPT ![o] = before - 1]
    /\ completed' = IF before <= 1 THEN [completed EXCEPT ![o] = signal] ELSE completed

\* _Complete() and _Error(): the receiver is told by the call that reaches 0.
CountOut(o, before, signal) ==
    /\ count' = [count EXCEPT ![o] = before - 1]
    /\ completed' = IF before = 1 THEN [completed EXCEPT ![o] = signal] ELSE completed

\* _Start() with stop already requested: the callback counts the operation
\* in, _Cancel() of the context does nothing, and _Start() counts it out.
StartStopped(o) ==
    /\ phase[o] = "idle"
    /\ stopRequested
    /\ phase' = [phase EXCEPT ![o] = "done"]
    /\ CountOut(o, 2, "none")
    /\ UNCHANGED <<vectors, result, backlog, stopRequested, loop>>

\* _Accept, all of whose sockets are _Blocking, queues the operation and
\* returns false; so _Start() calls _Complete().
StartAccept(o) ==
    /\ phase[o] = "idle"
    /\ ~stopRequested
    /\ phase' = [phase EXCEPT ![o] = "queued"]
    /\ fds' = Append(fds, On[o])
    /\ outstanding' = Append(outstanding, o)
    /\ CountOut(o, 1, "value")
    /\ UNCHANGED <<result, backlog, stopRequested, loop>>

\* The other operations return false and do nothing else.
StartOther(o) ==
    /\ phase[o] = "idle"
    /\ ~stopRequested
    /\ phase' = [phase EXCEPT ![o] = "done"]
    /\ CountOut(o, 1, "value")
    /\ UNCHANGED <<vectors, result, backlog, stopRequested, loop>>

\* An accept loop makes a new state of an operation when the old one is done.
Renew(o) ==
    /\ phase[o] = "done"
    /\ phase' = [phase EXCEPT ![o] = "idle"]
    /\ count' = [count EXCEPT ![o] = 0]
    /\ completed' = [completed EXCEPT ![o] = "none"]
    /\ result' = [result EXCEPT ![o] = "none"]
    /\ UNCHANGED <<vectors, backlog, stopRequested, loop>>

\* No callback is registered any more when an operation has started.
RequestStop ==
    /\ ~stopRequested
    /\ stopRequested' = TRUE
    /\ UNCHANGED <<vectors, operation, backlog, loop>>

Arrive(a) ==
    /\ backlog[a] < MaxBacklog
    /\ backlog' = [backlog EXCEPT ![a] = @ + 1]
    /\ UNCHANGED <<vectors, operation, stopRequested, loop>>

-----------------------------------------------------------------------------
\* As a bug: the scan ends before the first entry.
ScannedTooShort == 2..Len(fds)

\* The entries that the scan for a ready one looks at.
Scanned == 1..Len(fds)

IsReady(i) == i \in Scanned /\ backlog[fds[i]] > 0

\* As a bug: the last entry goes, whichever was served.
RemoveLast(s, i) == SubSeq(s, 1, Len(s) - 1)

\* The last entry takes the place of the served one.
Remove(s, i) == SubSeq([s EXCEPT ![i] = s[Len(s)]], 1, Len(s) - 1)

\* accept() on a blocking socket without a connection does not return.
Work(o) ==
    /\ phase' = [phase EXCEPT ![o] = "done"]
    /\ IF backlog[On[o]] = 0
       THEN loop' = "blocked" /\ UNCHANGED <<count, completed, result, backlog>>
       ELSE \E outcome \in {"value", "error"} :
              /\ result' = [result EXCEPT ![o] = outcome]
              /\ backlog' = IF outcome = "value"
                            THEN [backlog EXCEPT ![On[o]] = @ - 1] ELSE backlog
              /\ CountOut(o, count[o], outcome)
              /\ UNCHANGED loop

\* As a bug: the back is moved in one of the two vectors only.
ServeOutOfStep(i) ==
    /\ loop = "running"
    /\ IsReady(i)
    /\ \A j \in i+1..Len(fds) : ~IsReady(j)
    /\ fds' = Remove(fds, i)
    /\ outstanding' = RemoveLast(outstanding, i)
    /\ Work(outstanding[i])
    /\ UNCHANGED stopRequested

\* run_one() when poll() finds something: it serves the last ready entry.
Serve(i) ==
    /\ loop = "running"
    /\ IsReady(i)
    /\ \A j \in i+1..Len(fds) : ~IsReady(j)
    /\ fds' = Remove(fds, i)
    /\ outstanding' = Remove(outstanding, i)
    /\ Work(outstanding[i])
    /\ UNCHANGED stopRequested

Run ==
    /\ loop = "returned"
    /\ loop' = "running"
    /\ UNCHANGED <<vectors, operation, backlog, stopRequested>>

\* run_one() returns 0, and run() returns: nothing is queued, or poll() failed.
LoopEnds ==
    /\ loop = "running"
    /\ loop' = "returned"
    /\ UNCHANGED <<vectors, operation, backlog, stopRequested>>

Next == \/ \E o \in Ops : StartStopped(o)
        \/ \E o \in Accepts : StartAccept(o)
        \/ \E o \in Others : StartOther(o)
        \/ \E o \in Accepts : Renew(o)
        \/ RequestStop
        \/ \E a \in Acceptors : Arrive(a)
        \/ \E i \in 1..Len(fds) : Serve(i)
        \/ Run
        \/ LoopEnds

Spec == Init /\ [][Next]_vars

\* While run() does not return it goes on serving.
FairSpec == Spec /\ WF_vars(\E i \in 1..Len(fds) : Serve(i))

-----------------------------------------------------------------------------
(***************************************************************************)
(* The two vectors speak of the same operations: the socket polled for an  *)
(* entry is that of its operation.                                         *)
(***************************************************************************)
InStep == /\ Len(fds) = Len(outstanding)
          /\ \A i \in 1..Len(fds) : fds[i] = On[outstanding[i]]

(***************************************************************************)
(* Whatever is removed from the middle, every accept operation that waits  *)
(* has one entry, and no other operation has any.                          *)
(***************************************************************************)
NoneLost ==
    /\ \A o \in Accepts :
         phase[o] = "queued" <=> \E i \in 1..Len(outstanding) : outstanding[i] = o
    /\ \A i, j \in 1..Len(outstanding) : outstanding[i] = outstanding[j] => i = j

(***************************************************************************)
(* run_one() calls accept() only where a connection waits: no accept()     *)
(* blocks the loop.                                                        *)
(***************************************************************************)
NeverBlocks == loop # "blocked"

(***************************************************************************)
(* While connections wait on a socket for which an operation waits, the    *)
(* loop goes on taking them - unless operations on other sockets are       *)
(* queued for ever: the scan from the back passes over an entry as long as *)
(* later ones are ready, and then it may never be reached.                 *)
(***************************************************************************)
Awaited(a) ==
    loop = "running" /\ backlog[a] > 0 /\ \E o \in Accepts : On[o] = a /\ phase[o] = "queued"

ServeOn(a) == \E i \in 1..Len(fds) : fds[i] = a /\ Serve(i)

QueueElsewhere(a) == \E o \in Accepts : On[o] # a /\ StartAccept(o)

Served == \A a \in Acceptors :
    <>[]Awaited(a) => []<><<ServeOn(a)>>_vars \/ []<><<QueueElsewhere(a)>>_vars

(***************************************************************************)
(* A receiver is told of success when its operation starts, or nothing at  *)
(* all if stop was requested before: whatever accept() comes to then, it   *)
(* is not told a second time, and the count of a stopped operation stays   *)
(* where nobody counts it out.                                             *)
(***************************************************************************)
ToldAtStartOrNever == \A o \in Ops : phase[o] # "idle" =>
    \/ completed[o] = "value" /\ count[o] <= 0
    \/ completed[o] = "none" /\ count[o] = 1 /\ phase[o] = "done" /\ stopRequested

(***************************************************************************)
(* An accept operation completes with a connection when there is one.      *)
(***************************************************************************)
ValueIsEarned == \A o \in Accepts : completed[o] = "value" => result[o] = "value"
=============================================================================
