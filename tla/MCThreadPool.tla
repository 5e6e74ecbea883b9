---------------------------- MODULE MCThreadPool ----------------------------
(***************************************************************************)
(* The thread pool with two workers, two jobs, one of which may block, and *)
(* a null job.                                                             *)
(***************************************************************************)
EXTENDS ThreadPool
=============================================================================
