----------------------------- MODULE MCContainer -----------------------------
(***************************************************************************)
(* Container with more handles than slots: every order of opening and      *)
(* closing sockets that four slots allow.                                  *)
(***************************************************************************)
EXTENDS Container

CONSTANTS h1, h2, h3, h4, h5

MCHandles == {h1, h2, h3, h4, h5}
=============================================================================
