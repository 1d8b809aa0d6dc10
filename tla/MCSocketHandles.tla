--------------------------- MODULE MCSocketHandles ---------------------------
(***************************************************************************)
(* Two acceptors and three streams on a container of three slots, so that  *)
(* ids are reused while other objects still exist.  The objects of a kind  *)
(* are alike, and so are the handles.                                      *)
(***************************************************************************)
EXTENDS SocketHandles, TLC

CONSTANTS a1, a2, s1, s2, s3, h1, h2, h3, h4

MCAcceptors == {a1, a2}
MCStreams == {s1, s2, s3}
MCHandles == {h1, h2, h3, h4}

Alike == Permutations(MCAcceptors) \cup Permutations(MCStreams)
             \cup Permutations(MCHandles)

\* Fewer objects for the run that needs symmetry off.
OneAcceptor == {a1}
TwoStreams == {s1, s2}
=============================================================================
