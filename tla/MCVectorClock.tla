--------------------------- MODULE MCVectorClock ---------------------------
(***************************************************************************)
(* Two clocks over three nodes.                                            *)
(***************************************************************************)
EXTENDS VectorClock
=============================================================================
