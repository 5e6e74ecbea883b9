----------------------------- MODULE MCReactor -----------------------------
(***************************************************************************)
(* The reactor with one listener.                                          *)
(***************************************************************************)
EXTENDS Reactor
=============================================================================
