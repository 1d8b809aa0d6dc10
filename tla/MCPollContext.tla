----------------------------- MODULE MCPollContext -----------------------------
(***************************************************************************)
(* Two acceptors with two operations each, so that an entry can be removed *)
(* from the front, the middle and the back, and one operation of another   *)
(* kind.                                                                   *)
(***************************************************************************)
EXTENDS PollContext

CONSTANTS a1, a2, o1, o2, o3, o4, t1

MCAcceptors == {a1, a2}
MCAccepts == {o1, o2, o3, o4}
MCOthers == {t1}
MCOn == [o \in MCAccepts |-> IF o \in {o1, o3} THEN a1 ELSE a2]
=============================================================================
