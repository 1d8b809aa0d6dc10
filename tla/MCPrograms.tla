------------------------------ MODULE MCPrograms ------------------------------
(***************************************************************************)
(* All programs, with both acceptors of accu-2024 and two clients at a     *)
(* time: one can be waiting, sending or being timed out while the other is *)
(* told to exit.  Of the tasks of each program one may meet a failing      *)
(* event_add().                                                            *)
(***************************************************************************)
EXTENDS Programs

CONSTANTS v4, v6, c1, c2

MCAcceptors == {v4, v6}
MCClients == {c1, c2}
MCRefusable == {v4, c1, "dialer"}
=============================================================================
