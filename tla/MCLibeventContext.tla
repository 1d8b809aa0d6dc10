------------------------- MODULE MCLibeventContext -------------------------
(***************************************************************************)
(* Two ids, two native handles and two operations of any kind: enough for  *)
(* a listening socket and a connection, for two operations of one socket,  *)
(* and for a handle or an id that is given up and used again.  event_add   *)
(* may fail for one of the two.                                            *)
(***************************************************************************)
EXTENDS LibeventContext

CONSTANTS o1, o2, i1, i2, h1, h2

MCIds == {i1, i2}
MCHandles == {h1, h2}
MCOps == {o1, o2}
MCRefusable == {o1}
=============================================================================
