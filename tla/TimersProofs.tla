---------------------------- MODULE TimersProofs ----------------------------
(***************************************************************************)
(* What the conversion to a timeval gets right, for every duration, time   *)
(* point and number of timers, and for the width the code has.             *)
(***************************************************************************)
EXTENDS Timers, TLAPS

\* Conversion to unsigned does nothing to a number that fits.
LEMMA Fits ==
    ASSUME NEW n \in Nat, n < Wrap
    PROVE  Unsigned(n) = n
  BY TimeAssumption, SMT DEF Unsigned

\* Whatever the duration, libevent gets no negative timeval.
LEMMA WaitType ==
    ASSUME NEW count \in Int, 0 < Wrap
    PROVE  Wait(count) \in Nat
  <1>1. Unsigned(count) \in Nat /\ Unsigned(1000 * count) \in Nat
    BY TimeAssumption, SMT DEF Unsigned
  <1>2. TvSec(count) \in Nat /\ TvUsec(count) \in Nat
    BY <1>1, SMT DEF TvSec, TvUsec, F
  <1> QED BY <1>2, SMT DEF Wait, F

\* The timeval is off by less than a second, and it is exact for the
\* durations that are whole seconds and for no other.
THEOREM ExactForSecondsOnly ==
    ASSUME NEW d \in Nat, 1000 * d < Wrap
    PROVE  /\ d - F < Wait(d) /\ Wait(d) < d + F
           /\ Wait(d) = d <=> d % F = 0
  <1>1. Unsigned(d) = d /\ Unsigned(1000 * d) = 1000 * d
    BY Fits, TimeAssumption, SMT
  <1>2. Wait(d) = (d \div F) * F + ((1000 * d) % F)
    BY <1>1 DEF Wait, TvSec, TvUsec
  <1>3. 0 <= (1000 * d) % F /\ (1000 * d) % F < F
    BY SMT DEF F
  <1>4. d = (d \div F) * F + (d % F) /\ 0 <= d % F /\ d % F < F
    BY SMT DEF F
  <1>5. (1000 * d) % F = d % F <=> d % F = 0
    BY SMT DEF F
  <1> QED BY <1>2, <1>3, <1>4, <1>5, SMT DEF F

-----------------------------------------------------------------------------
\* What a timer that waits was given: almost the right time, and exactly the
\* right one for whole seconds.
Given(o) ==
    phase[o] = "waiting" /\ Left(o) >= 0
        => /\ asked[o] - F < due[o] /\ due[o] < asked[o] + F
           /\ Left(o) % F = 0 => due[o] = asked[o]

IInv == TypeOK /\ \A o \in Timers : Given(o)

\* A submission whose wait the conversion got almost right keeps IInv.
LEMMA Submitting ==
    ASSUME IInv,
           NEW o \in Timers, NEW p \in {"waiting", "fired"},
           NEW left \in Int, NEW wait \in Nat,
           Submit(o, p, now + left, wait),
           p = "waiting" /\ left >= 0
               => /\ left - F < wait /\ wait < left + F
                  /\ left % F = 0 => wait = left
    PROVE  IInv'
  <1>1. TypeOK'
    BY DEF IInv, TypeOK, Submit
  <1>2. ASSUME NEW q \in Timers PROVE Given(q)'
    <2>1. CASE q = o
      <3>1. /\ phase'[o] = p /\ from'[o] = now
            /\ asked'[o] = now + left /\ due'[o] = now + wait
        BY DEF IInv, TypeOK, Submit
      <3>2. now \in Nat /\ F \in Nat
        BY SMT DEF IInv, TypeOK, F
      <3>3. asked'[o] - from'[o] = left
        BY <3>1, <3>2, SMT
      <3> QED BY <2>1, <3>1, <3>2, <3>3, SMT DEF Given, Left
    <2>2. CASE q # o
      <3>1. /\ phase'[q] = phase[q] /\ from'[q] = from[q]
            /\ asked'[q] = asked[q] /\ due'[q] = due[q]
        BY <2>2 DEF IInv, TypeOK, Submit
      <3> QED BY <3>1 DEF IInv, Given, Left
    <2> QED BY <2>1, <2>2
  <1> QED BY <1>1, <1>2 DEF IInv

LEMMA ResumeAfterKeeps ==
    ASSUME IInv, NEW o \in Timers, NEW d \in Durations, ResumeAfter(o, d)
    PROVE  IInv'
  <1>1. d \in Int /\ 1000 * d < Wrap /\ 0 < Wrap
    BY TimeAssumption, SMT
  <1>2. Wait(d) \in Nat
    BY <1>1, WaitType
  <1>3. d >= 0 => /\ d - F < Wait(d) /\ Wait(d) < d + F
                  /\ d % F = 0 => Wait(d) = d
    <2> SUFFICES ASSUME d >= 0
                 PROVE  /\ d - F < Wait(d) /\ Wait(d) < d + F
                        /\ d % F = 0 => Wait(d) = d
      OBVIOUS
    <2>1. d \in Nat
      BY <1>1, SMT
    <2> QED BY <2>1, <1>1, ExactForSecondsOnly
  <1> QED BY <1>1, <1>2, <1>3, Submitting DEF ResumeAfter

LEMMA ResumeAtKeeps ==
    ASSUME IInv, NEW o \in Timers, NEW time \in Points, ResumeAt(o, time)
    PROVE  IInv'
  <1> DEFINE left == time - now
  <1>1. time \in Nat /\ now \in Nat
    BY TimeAssumption DEF IInv, TypeOK
  <1>2. left \in Int /\ time = now + left
    BY <1>1, SMT
  <1>3. CASE time <= now
    <2>1. Submit(o, "fired", now + left, 0)
      BY <1>2, <1>3 DEF ResumeAt
    <2> HIDE DEF left
    <2> QED BY <1>2, <2>1, Submitting
  <1>4. CASE ~(time <= now)
    <2>1. Submit(o, "waiting", now + left, Wait(left))
      BY <1>2, <1>4 DEF ResumeAt
    <2>2. left \in Nat
      BY <1>1, <1>4, SMT
    <2>3. 1000 * left < Wrap /\ 0 < Wrap
      BY <1>1, <2>2, TimeAssumption, SMT
    <2> HIDE DEF left
    <2>4. Wait(left) \in Nat
      BY <1>2, <2>3, WaitType
    <2>5. /\ left - F < Wait(left) /\ Wait(left) < left + F
          /\ left % F = 0 => Wait(left) = left
      BY <2>2, <2>3, ExactForSecondsOnly
    <2> QED BY <1>2, <2>1, <2>4, <2>5, Submitting
  <1> QED BY <1>3, <1>4

\* The other steps change neither what a waiting timer was asked for nor
\* what it was given.
LEMMA OthersKeep ==
    ASSUME IInv, UNCHANGED <<from, asked, due>>, now' \in Nat,
           phase' \in [Timers -> {"idle", "waiting", "fired", "stopped"}],
           \A q \in Timers : phase'[q] = "waiting" => phase[q] = "waiting"
    PROVE  IInv'
  BY DEF IInv, TypeOK, Given, Left

(***************************************************************************)
(* The invariant behind both results below.                                *)
(***************************************************************************)
THEOREM Invariance == Spec => []IInv
  <1>1. Init => IInv
    BY DEF Init, IInv, TypeOK, Given
  <1>2. IInv /\ [Next]_vars => IInv'
    <2> SUFFICES ASSUME IInv, [Next]_vars PROVE IInv'
      OBVIOUS
    <2>1. ASSUME NEW o \in Timers, NEW d \in Durations, ResumeAfter(o, d) PROVE IInv'
      BY <2>1, ResumeAfterKeeps
    <2>2. ASSUME NEW o \in Timers, NEW time \in Points, ResumeAt(o, time) PROVE IInv'
      BY <2>2, ResumeAtKeeps
    <2>3. ASSUME NEW o \in Timers, Fire(o) \/ Stop(o) PROVE IInv'
      BY <2>3, OthersKeep DEF Fire, Stop, IInv, TypeOK
    <2>4. ASSUME NEW time \in WakeUps, Elapse(time) PROVE IInv'
      <3>1. time \in Nat
        BY TimeAssumption DEF WakeUps, IInv, TypeOK
      <3> QED BY <3>1, <2>4, OthersKeep DEF Elapse, IInv, TypeOK
    <2>5. CASE UNCHANGED vars
      BY <2>5, OthersKeep DEF vars, IInv, TypeOK
    <2> QED BY <2>1, <2>2, <2>3, <2>4, <2>5 DEF Next
  <1> QED BY <1>1, <1>2, PTL DEF Spec

\* Type correctness: in particular no timer is ever due at a negative time.
THEOREM TypeCorrect == Spec => []TypeOK
  <1>1. IInv => TypeOK
    BY DEF IInv
  <1> QED BY <1>1, Invariance, PTL

\* A wait that is not negative is off by less than a second.
THEOREM WaitsAreClose == Spec => []Punctual
  <1>1. IInv => Punctual
    BY DEF IInv, Given, Punctual
  <1> QED BY <1>1, Invariance, PTL

\* Timers of whole seconds fire in order and not before their time.
THEOREM WholeSecondsAreRight == Spec => WholeSecondsInOrder
  <1>1. ASSUME IInv, [Next]_vars, NEW o \in Timers,
               phase[o] = "waiting", phase'[o] = "fired", Whole(o)
        PROVE  /\ asked[o] <= now
               /\ \A p \in Timers :
                    phase[p] = "waiting" /\ Whole(p) => asked[o] <= asked[p]
    <2>1. Fire(o)
      <3>1. ASSUME NEW q \in Timers, NEW p, NEW t, NEW w, Submit(q, p, t, w)
            PROVE  FALSE
        BY <3>1, <1>1 DEF Submit, IInv, TypeOK
      <3>2. ASSUME NEW q \in Timers, Fire(q) \/ Stop(q) PROVE q = o /\ Fire(q)
        BY <3>2, <1>1 DEF Fire, Stop, IInv, TypeOK
      <3>3. phase' # phase
        BY <1>1
      <3> QED BY <1>1, <3>1, <3>2, <3>3 DEF Next, ResumeAfter, ResumeAt, Elapse, vars
    <2>2. \A p \in Timers : phase[p] = "waiting" /\ Whole(p) => due[p] = asked[p]
      BY <1>1 DEF IInv, Given, Whole
    <2> QED BY <1>1, <2>1, <2>2 DEF Fire
  <1>2. IInv /\ [Next]_vars =>
          [\A o \in Timers :
             phase[o] = "waiting" /\ phase'[o] = "fired" /\ Whole(o)
                => /\ asked[o] <= now
                   /\ \A p \in Timers :
                        phase[p] = "waiting" /\ Whole(p) => asked[o] <= asked[p]]_vars
    BY <1>1
  <1> QED BY <1>2, Invariance, PTL DEF Spec, WholeSecondsInOrder
=============================================================================
