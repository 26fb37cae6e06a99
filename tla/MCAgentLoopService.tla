------------------------- MODULE MCAgentLoopService -------------------------
(***************************************************************************)
(* A small instance of AgentLoopService for TLC: a session is made, then   *)
(* any two calls on it or a create after it, of one or two clients; and a  *)
(* session that is destroyed while its turn runs and another one is sent.  *)
(***************************************************************************)
EXTENDS AgentLoopService

CONSTANTS c1, c2

Plan(p, q) == [c \in Clients |-> IF c = c1 THEN p ELSE q]

MCPlans ==
    { Plan(<<{"create"}, Ops \ {"create"}>>, <<Ops \ {"create"}>>),
      Plan(<<{"create"}, {"continue"}, {"destroy"}>>, <<{"continue"}>>) }
=============================================================================
