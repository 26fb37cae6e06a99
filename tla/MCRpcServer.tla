---------------------------- MODULE MCRpcServer ----------------------------
EXTENDS RpcServer
(* Two sessions whose agents number their tool calls alike. *)
MCRequests == {<<"s1", "t1">>, <<"s2", "t1">>}
=============================================================================
