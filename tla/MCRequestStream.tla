--------------------------- MODULE MCRequestStream ---------------------------
(***************************************************************************)
(* Scripts of two and three heads on a buffer of four cells: shorter than  *)
(* the buffer, as long as it, longer, and longer than twice its size.      *)
(***************************************************************************)
EXTENDS RequestStream

MCScripts == {<<4, 8>>, <<3, 6, 10>>, <<7, 10, 13>>, <<5, 14, 17>>}
=============================================================================
