----------------------- MODULE MCMultiServiceServer -----------------------
(* Two services and two clients; a connection gets one of the descriptors  *)
(* from 5 on, or that of a service that was closed.                        *)
EXTENDS MultiServiceServer

CONSTANTS s1, s2

MCServiceFd == [s \in {s1, s2} |-> IF s = s1 THEN 3 ELSE 4]
=============================================================================
