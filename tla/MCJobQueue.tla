----------------------------- MODULE MCJobQueue -----------------------------
(***************************************************************************)
(* Three threads, each free to call any method at any time, on a queue of  *)
(* maxsize_ 1: two items fit, the third is dropped.                        *)
(***************************************************************************)
EXTENDS JobQueue
=============================================================================
