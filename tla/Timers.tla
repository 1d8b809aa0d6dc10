-------------------------------- MODULE Timers --------------------------------
(***************************************************************************)
(* The timers of the libevent context: _Resume_after and _Resume_at make a *)
(* timeval of the time that is left, give it to libevent, and the loop     *)
(* fires the timers that are due.  Time is in microseconds.  How such an   *)
(* operation completes and is stopped is the matter of CpoState.           *)
(***************************************************************************)
EXTENDS Integers

CONSTANTS
    Timers,     \* the operations
    Durations,  \* what async_resume_after is called with: below 292 years
                \* either way, or the code's signed 1000 * count overflows
    Points,     \* what async_resume_at is called with
    Instants,   \* the times at which something happens
    Wrap,       \* the number of values of unsigned long long: 2^64
    Horizon     \* bound: a timer that is due later is not waited for

ASSUME TimeAssumption ==
    /\ Instants \subseteq Nat
    /\ Wrap \in Nat
    /\ Points \subseteq {t \in Nat : 1000 * t < Wrap}
    /\ Durations \subseteq {d \in Int : 1000 * d < Wrap /\ -1000 * d < Wrap}

VARIABLES
    now,     \* the clock
    phase,   \* how far each timer is
    from,    \* when it was submitted
    asked,   \* the time it is to wait for
    due      \* the time libevent fires it

vars == <<now, phase, from, asked, due>>

TypeOK == /\ now \in Nat
          /\ phase \in [Timers -> {"idle", "waiting", "fired", "stopped"}]
          /\ from \in [Timers -> Nat]
          /\ asked \in [Timers -> Int]
          /\ due \in [Timers -> Nat]

Init == /\ now = 0
        /\ phase = [o \in Timers |-> "idle"]
        /\ from = [o \in Timers |-> 0]
        /\ asked = [o \in Timers |-> 0]
        /\ due = [o \in Timers |-> 0]

-----------------------------------------------------------------------------
F == 1000000

\* As a bug: _F is signed, and a negative time stays negative.
Signed(n) == n

\* A signed operand of / or % is converted to the unsigned type of _F.
Unsigned(n) == n % Wrap

\* As a bug: the seconds are rounded up, and tv_usec is added to them.
TvSecRoundedUp(count) == (Unsigned(count) + F - 1) \div F

TvSec(count) == Unsigned(count) \div F

\* 1000 * count % F is (1000 * count) % F
TvUsec(count) == Unsigned(1000 * count) % F

Wait(count) == TvSec(count) * F + TvUsec(count)

Submit(o, p, time, wait) ==
    /\ phase[o] = "idle"
    /\ phase' = [phase EXCEPT ![o] = p]
    /\ from' = [from EXCEPT ![o] = now]
    /\ asked' = [asked EXCEPT ![o] = time]
    /\ due' = [due EXCEPT ![o] = now + wait]
    /\ UNCHANGED now

ResumeAfter(o, duration) == Submit(o, "waiting", now + duration, Wait(duration))

\* As a bug: the time that has passed is not taken off.
ResumeAtFromZero(o, time) ==
    IF time <= now
    THEN Submit(o, "fired", time, 0)
    ELSE Submit(o, "waiting", time, Wait(time))

ResumeAt(o, time) ==
    IF time <= now
    THEN Submit(o, "fired", time, 0)
    ELSE Submit(o, "waiting", time, Wait(time - now))

\* libevent fires what is due, earliest first.
Fire(o) ==
    /\ phase[o] = "waiting"
    /\ due[o] <= now
    /\ \A p \in Timers : phase[p] = "waiting" => due[o] <= due[p]
    /\ phase' = [phase EXCEPT ![o] = "fired"]
    /\ UNCHANGED <<now, from, asked, due>>

\* A stop request deletes the event.
Stop(o) ==
    /\ phase[o] = "waiting"
    /\ phase' = [phase EXCEPT ![o] = "stopped"]
    /\ UNCHANGED <<now, from, asked, due>>

\* The loop sleeps until a timer is due, or is held up or woken otherwise.
WakeUps == Instants \cup
    {due[o] : o \in {p \in Timers : phase[p] = "waiting" /\ due[p] <= Horizon}}

Elapse(time) ==
    /\ now < time
    /\ now' = time
    /\ UNCHANGED <<phase, from, asked, due>>

Next == \/ \E o \in Timers : \/ \E duration \in Durations : ResumeAfter(o, duration)
                             \/ \E time \in Points : ResumeAt(o, time)
                             \/ Fire(o)
                             \/ Stop(o)
        \/ \E time \in WakeUps : Elapse(time)

Spec == Init /\ [][Next]_vars

-----------------------------------------------------------------------------
Left(o) == asked[o] - from[o]

(***************************************************************************)
(* A wait that is not negative is wrong by less than a second: tv_sec is   *)
(* right, and tv_usec, right or not, is a normalised one.  (A negative     *)
(* duration wraps around to hundreds of thousands of years.)               *)
(***************************************************************************)
Punctual == \A o \in Timers :
    phase[o] = "waiting" /\ Left(o) >= 0
        => asked[o] - F < due[o] /\ due[o] < asked[o] + F

(***************************************************************************)
(* Of timers that wait for whole seconds none fires before its time, and   *)
(* none before another that was to fire earlier.                           *)
(***************************************************************************)
Whole(o) == Left(o) >= 0 /\ Left(o) % F = 0

WholeSecondsInOrder ==
    [][\A o \in Timers :
         phase[o] = "waiting" /\ phase'[o] = "fired" /\ Whole(o)
            => /\ asked[o] <= now
               /\ \A p \in Timers :
                    phase[p] = "waiting" /\ Whole(p) => asked[o] <= asked[p]]_vars

(***************************************************************************)
(* No timer fires before the time that was asked for.                      *)
(***************************************************************************)
NeverEarly == \A o \in Timers : phase[o] = "fired" => asked[o] <= now
=============================================================================
