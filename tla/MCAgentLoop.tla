---------------------------- MODULE MCAgentLoop ----------------------------
(***************************************************************************)
(* Small instances of AgentLoop for TLC.                                   *)
(***************************************************************************)
EXTENDS AgentLoop, TLC

\* No tool call; an unknown tool before an ordinary call; a terminal tool with
\* a call after it.
MCReplies == {<<>>, <<"unknown", "tool">>, <<"terminal", "tool">>}

\* The liveness run: with and without one tool call.
MCLiveReplies == {<<>>, <<"tool">>}

Symmetry == Permutations(Callers) \cup Permutations(Loops)
=============================================================================
