--------------------------- MODULE MCSandboxHost ----------------------------
(* The sandbox host with two callers and four mixes of calls. *)
EXTENDS SandboxHost, TLC

Symmetry == Permutations(Callers)

Mixes == { {"create", "destroy", "shutdown"},
           {"create", "destroy", "tool", "pause", "resume"},
           {"create", "destroy", "tool", "toolsnap", "turn", "snap", "rollback"},
           {"create", "destroy", "shutdown", "launch", "kill", "tool"} }
=============================================================================
