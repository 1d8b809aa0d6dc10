------------------------------- MODULE MCTimers -------------------------------
(***************************************************************************)
(* Two timers.  The durations are those of the examples (1'000'000us, 1s)  *)
(* with shorter, longer, empty and negative ones; the time points are one  *)
(* second from instants at which the clock can be, or less by then.        *)
(* The example's are those of examples/server.cpp.                         *)
(***************************************************************************)
EXTENDS Timers

CONSTANTS t1, t2

MCTimers == {t1, t2}
MCDurations == {-1, 0, 1500, 999999, 1000000, 1500000}
MCPoints == {1000000, 1000010}
MCInstants == {10, 20, 500000, 1500000, 2500000}

\* A second, and a second from now when 10 us have passed at submission.
ExampleDurations == {1000000}
ExampleInstants == {10, 1500000}
=============================================================================
