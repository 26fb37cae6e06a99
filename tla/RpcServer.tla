------------------------------ MODULE RpcServer ------------------------------
(***************************************************************************)
(* The server of internal/rpc/transport: one handler that serves the       *)
(* sandbox and agent calls (RpcTools), the event streams and the terminal  *)
(* streams (RpcStreams).  The services are registered side by side and     *)
(* share no state, so a behaviour exercises one of them and the others     *)
(* rest: what they do in parallel is every interleaving of such behaviours.*)
(***************************************************************************)
EXTENDS RpcTools, RpcStreams

VARIABLE service   \* the registered service this behaviour calls

vars == <<service, toolVars, streamVars>>

Init ==
    /\ service \in {"sandbox", "events", "terminal"}
    /\ ToolsInit
    /\ StreamsInit
    /\ service # "terminal" => via = "rpc"

Handler ==
    \/ service = "sandbox" /\ ToolsNext /\ UNCHANGED streamVars
    \/ service = "events" /\ EventsNext /\ UNCHANGED toolVars
    \/ service = "terminal" /\ TermNext /\ UNCHANGED toolVars

Next == Handler /\ UNCHANGED service

(* The steps of handlers and goroutines, which the Go scheduler runs. *)
ServerStep ==
    \/ service = "sandbox" /\ ToolsStep /\ UNCHANGED <<service, streamVars>>
    \/ service = "events" /\ EventStep /\ UNCHANGED <<service, toolVars>>
    \/ service = "terminal" /\ TermStep /\ UNCHANGED <<service, toolVars>>

(* Clients, sessions and time are free; the tools return. *)
Spec == Init /\ [][Next]_vars /\ WF_vars(ServerStep)
-----------------------------------------------------------------------------
(* A tool call is answered with the outcome of its own run, or of an       *)
(* earlier one of the same request that is within its TTL.                 *)
ToolAnswers == ToolAnswersAreHonest /\ LateDuplicatesAreCached

(* Streams keep their order, events of one publisher and terminals alike,  *)
(* and what is missing was dropped at a full buffer or by the limiter.     *)
StreamsAreOrdered == EventsReachSubscribers /\ TerminalIsOrdered

(* Some handler has outlived its client, or a client its terminal. *)
Lingering == AbandonedCall \/ LeftEvents \/ LeftTerminal \/ EndUntold

(* The calls, event streams and terminal streams of a client that left     *)
(* return, and their goroutines end and release what they hold, whatever   *)
(* tool or full channel blocks them, but for a response nobody will read   *)
(* (StuckResponse) and a subscription to a session that is silent          *)
(* (Unnoticed); and the end of a terminal session reaches the client that  *)
(* is attached.                                                            *)
HandlersReturn == []<>~Lingering
=============================================================================
