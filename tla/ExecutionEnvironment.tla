------------------------ MODULE ExecutionEnvironment ------------------------
(***************************************************************************)
(* What internal/sandbox/environment promises its callers, whatever stands *)
(* behind the interface: the lifecycle a State() query shows, and that a   *)
(* tool call is admitted in the active state only.  A call that was        *)
(* admitted may outlast a Pause or a Destroy: the interface drains nothing.*)
(* An implementation keeps its state itself, or asks a server for it: the  *)
(* latter may miss the answer, and sees moves of the session it did not    *)
(* make.  RemoteEnvironment implements this specification.                 *)
(***************************************************************************)
CONSTANT Callers

VARIABLES
    asks,     \* the state is a server's answer
    state,    \* SessionState as types.go names it
    running,  \* the callers whose ExecuteTool was admitted and has not returned
    renewed   \* a Create replaced a sandbox the environment had

envVars == <<asks, state, running, renewed>>

SessionState == {"creating", "active", "paused", "destroying", "destroyed", "failed"}

Init ==
    /\ asks \in BOOLEAN
    /\ state \in {"creating", "active"}
    /\ running = {}
    /\ renewed = FALSE

(* The first sandbox. *)
Create ==
    /\ state = "creating"
    /\ state' = "active" \/ (asks /\ state' = "failed")
    /\ UNCHANGED <<asks, running, renewed>>

(* Another one, whatever became of the first.  A destroyed environment that *)
(* asks a server may stay destroyed in its callers' eyes.                   *)
Recreate ==
    /\ state # "creating"
    /\ \/ state' = "active"
       \/ asks /\ state' = "failed"
       \/ asks /\ state = "destroyed" /\ UNCHANGED state
    /\ renewed' = TRUE
    /\ UNCHANGED <<asks, running>>

Pause ==
    /\ state = "active"
    /\ state' = "paused"
    /\ UNCHANGED <<asks, running, renewed>>

Resume ==
    /\ state = "paused"
    /\ state' = "active"
    /\ UNCHANGED <<asks, running, renewed>>

Destroy ==
    /\ state \in SessionState \ {"creating", "destroyed"}
    /\ state' = "destroyed"
    /\ UNCHANGED <<asks, running, renewed>>

(* The server works on the destroy; the query is not answered, or the       *)
(* session failed or is gone; the query is answered again.                  *)
ServerMoves ==
    /\ asks
    /\ \/ state \in {"active", "paused"} /\ state' = "destroying"
       \/ state \in {"active", "paused", "destroying"} /\ state' = "failed"
       \/ state = "failed" /\ state' \in {"active", "paused", "destroying"}
    /\ UNCHANGED <<asks, running, renewed>>

(* The state an implementation keeps decides.  A server admits by the true   *)
(* state of the session the call names, which a query that failed does not   *)
(* show and which a Create may have replaced since.                          *)
ExecuteTool(c) ==
    /\ state = "active" \/ (asks /\ (state = "failed" \/ renewed))
    /\ c \notin running
    /\ running' = running \cup {c}
    /\ UNCHANGED <<asks, state, renewed>>

ToolReturns(c) ==
    /\ c \in running
    /\ running' = running \ {c}
    /\ UNCHANGED <<asks, state, renewed>>

Next ==
    \/ Create \/ Recreate \/ Pause \/ Resume \/ Destroy \/ ServerMoves
    \/ \E c \in Callers : ExecuteTool(c) \/ ToolReturns(c)

Spec == Init /\ [][Next]_envVars
=============================================================================
