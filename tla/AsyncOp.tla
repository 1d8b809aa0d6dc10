------------------------------- MODULE AsyncOp -------------------------------
(***************************************************************************)
(* What an asynchronous operation of stdnet promises to the receiver it is *)
(* connected to, whatever context performs it: once started it completes   *)
(* at most once, with one of the three completions its sender declares     *)
(* (_Cpo_Sender's completion_signatures: the value, an error, stopped),    *)
(* "stopped" only if the receiver's stop source was asked to stop.         *)
(***************************************************************************)

CONSTANTS Ops,      \* the operation states made by connect()
          Sources,  \* the stop sources behind the receivers' stop tokens
          Token     \* the source that an operation's stop token belongs to

VARIABLES phase,    \* how far an operation is, or what it completed with
          asked     \* the sources on which request_stop() was called

vars == <<phase, asked>>

Completions == {"value", "error", "stopped"}

TypeOK == /\ phase \in [Ops -> {"connected", "started"} \cup Completions]
          /\ asked \in [Sources -> BOOLEAN]

Init == /\ phase = [o \in Ops |-> "connected"]
        /\ asked = [s \in Sources |-> FALSE]

Start(o) == /\ phase[o] = "connected"
            /\ phase' = [phase EXCEPT ![o] = "started"]
            /\ UNCHANGED asked

RequestStop(s) == /\ ~asked[s]
                  /\ asked' = [asked EXCEPT ![s] = TRUE]
                  /\ UNCHANGED phase

Finish(o, how) == /\ phase[o] = "started"
                  /\ how = "stopped" => asked[Token[o]]
                  /\ phase' = [phase EXCEPT ![o] = how]
                  /\ UNCHANGED asked

Next == \/ \E o \in Ops : Start(o)
        \/ \E s \in Sources : RequestStop(s)
        \/ \E o \in Ops, how \in Completions : Finish(o, how)

Spec == Init /\ [][Next]_vars

(***************************************************************************)
(* The promise about progress: an operation whose stop source was asked to *)
(* stop completes, in whichever way.                                       *)
(***************************************************************************)
Answered == \A o \in Ops :
                phase[o] = "started" /\ asked[Token[o]] ~> phase[o] \in Completions
=============================================================================
