------------------------ MODULE MCRemoteEnvironment ------------------------
(* One environment of each kind and two callers that share it.             *)
EXTENDS RemoteEnvironment

CONSTANTS c1, c2
=============================================================================
