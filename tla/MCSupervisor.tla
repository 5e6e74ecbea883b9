---------------------------- MODULE MCSupervisor ----------------------------
(* Three services: in a process each, or in two processes.                 *)
EXTENDS Supervisor

MCServices == <<"s1", "s2", "s3">>
=============================================================================
