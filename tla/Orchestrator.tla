---------------------------- MODULE Orchestrator ----------------------------
(***************************************************************************)
(* Orchestrator of internal/orchestrator: the session table, creation in   *)
(* several remote steps with compensation, the proxied calls, pause and    *)
(* resume, the health loop and Close.                                      *)
(*                                                                         *)
(* A step is one critical section of Orchestrator.mu or of an entry's lock,*)
(* or one remote call.  PauseSession, ResumeSessionSandbox and             *)
(* destroySessionEntry hold the entry's lock over their remote calls.      *)
(* Sandbox control and the agents are external: a call may fail, with or   *)
(* without having taken effect (a context that expired or was cancelled by *)
(* Close shows as such a failure).                                         *)
(***************************************************************************)
EXTENDS Integers, FiniteSets

CONSTANTS
    Callers,
    Sessions,     \* generateSessionID: every create gets a fresh one, any of them
    Placements,   \* placement modes with a configured backend
    MaxSessions,  \* OrchestratorConfig.MaxSessions, 0 for no limit
    MaxProcs,     \* bound: agent processes launched for one session
    MaxCalls,     \* bound: API calls
    MaxTicks,     \* bound: rounds of the health loop
    None

PlacementMode == {"agent-direct", "agent-sandbox", "tools-sandbox"}

ASSUME OrchestratorAssumption ==
    /\ None \notin Callers \cup Sessions
    /\ IsFiniteSet(Callers) /\ IsFiniteSet(Sessions)
    /\ Placements \subseteq PlacementMode
    /\ {MaxSessions, MaxCalls, MaxTicks} \subseteq Nat
    /\ MaxProcs \in Nat \ {0}

VARIABLES
    table,       \* Orchestrator.sessions: the IDs in the map
    closing,
    wg,          \* operations between beginOperation and endOperation
    ent,         \* the sessionEntry objects
    lock,        \* who holds an entry's lock over a remote call
    caller,      \* the callers: where they are, with their local variables
    health,      \* the health loop, with its local variables
    sandbox,     \* external: the sandbox of each session
    procs,       \* external: the agent processes alive in it
    remote,      \* external: the agent knows the session
    shared,      \* the in-process AgentLoopService is open
    unsure,      \* history: sandboxes about which a call failed
    unsureProc,  \* history: the same for agent processes
    calls, ticks

vars == <<table, closing, wg, ent, lock, caller, health, sandbox, procs, remote,
          shared, unsure, unsureProc, calls, ticks>>

external == <<sandbox, procs, remote, shared, unsure, unsureProc>>

SessionState == {"none", "creating", "active", "paused", "unhealthy", "destroyed"}

SessionEntry == [placement : PlacementMode, state : SessionState, proc : 0..MaxProcs]

CallerPC == {"ready", "sandbox", "launch", "factory", "session", "add",
             "undoSession", "undoKill", "undoSandbox", "forward",
             "pauseLock", "pauseCall", "resumeLock", "resumeCall", "relaunch",
             "reconnect", "resumeKill", "resumed",
             "lock", "destroyAgent", "kill", "destroySandbox", "closeService",
             "waitHealth", "waitOps", "closeNext", "closeShared"}

Op == {"none", "create", "proxy", "resumeSession", "pause", "resume", "destroy", "close"}

Caller == [pc : CallerPC, op : Op, s : Sessions \cup {None}, proc : 0..MaxProcs,
           todo : SUBSET Sessions]

Health == [pc : {"wait", "each", "probe", "stopped"}, s : Sessions \cup {None},
           todo : SUBSET Sessions]

Ready == [pc |-> "ready", op |-> "none", s |-> None, proc |-> 0, todo |-> {}]

HealthIdle == [pc |-> "wait", s |-> None, todo |-> {}]

\* What a remote call may do: it took effect or not, it reports success or not.
Outcome == {o \in [took : BOOLEAN, ok : BOOLEAN] : o.ok => o.took}

Local(s) == ent[s].placement = "tools-sandbox"

\* A mode is served when its sandbox control (and agent loop service) is set.
validatePlacement(p) == p \in Placements

-----------------------------------------------------------------------------
(* Helpers.                                                                *)

beginOperation == ~closing /\ wg' = wg + 1

Goto(c, pc) == caller' = [caller EXCEPT ![c].pc = pc]

Return(c) == caller' = [caller EXCEPT ![c] = Ready]

\* Mutant: endOperation is called by hand and deferred as well.
ReturnEndsTwice(c) == Return(c) /\ wg' = wg - 2

\* Mutant: endOperation is forgotten.
ReturnEndsNot(c) == Return(c) /\ wg' = wg

\* endOperation runs deferred, when the call returns.
ReturnEnds(c) == Return(c) /\ wg' = wg - 1

NewCall(c) == caller[c].pc = "ready" /\ calls < MaxCalls /\ calls' = calls + 1

\* The sandbox is gone, and with it the agent inside.
Gone(s) ==
    /\ sandbox' = [sandbox EXCEPT ![s] = "gone"]
    /\ procs' = [procs EXCEPT ![s] = {}]
    /\ remote' = IF Local(s) THEN remote ELSE [remote EXCEPT ![s] = FALSE]

\* SandboxControl.DestroySandbox.
DestroyCall(s, out) ==
    /\ IF out.took THEN Gone(s) ELSE UNCHANGED <<sandbox, procs, remote>>
    /\ unsure' = IF out.ok THEN unsure ELSE unsure \cup {s}

\* SandboxControl.KillProcess: a process of the agent dies with its sessions.
KillCall(s, p, out) ==
    /\ IF out.took /\ p \in procs[s]
       THEN /\ procs' = [procs EXCEPT ![s] = @ \ {p}]
            /\ remote' = [remote EXCEPT ![s] = FALSE]
       ELSE UNCHANGED <<procs, remote>>
    /\ unsureProc' = IF out.ok THEN unsureProc ELSE unsureProc \cup {s}

\* SandboxControl.LaunchProcess of process p.
LaunchCall(s, p, out) ==
    /\ procs' = IF out.took /\ sandbox[s] = "running"
                THEN [procs EXCEPT ![s] = @ \cup {p}] ELSE procs
    /\ unsureProc' = IF out.took /\ ~out.ok THEN unsureProc \cup {s} ELSE unsureProc

-----------------------------------------------------------------------------
(* CreateSession.                                                          *)

CreateSession(c) ==
    /\ NewCall(c) /\ beginOperation
    /\ \E t \in Sessions : ent[t].state = "none"
    /\ \E p \in PlacementMode : LET s == CHOOSE t \in Sessions : ent[t].state = "none" IN
         /\ validatePlacement(p)
         /\ ent' = [ent EXCEPT ![s].state = "creating", ![s].placement = p]
         /\ caller' = [caller EXCEPT ![c] = [Ready EXCEPT !.pc = "sandbox", !.op = "create",
                                                          !.s = s]]
    /\ UNCHANGED <<table, closing, lock, health, external, ticks>>

CreateSandbox(c) ==
    /\ caller[c].pc = "sandbox"
    /\ \E out \in Outcome : LET s == caller[c].s IN
         /\ sandbox' = IF out.took THEN [sandbox EXCEPT ![s] = "running"] ELSE sandbox
         /\ unsure' = IF out.took /\ ~out.ok THEN unsure \cup {s} ELSE unsure
         /\ IF out.ok
            THEN Goto(c, IF Local(s) THEN "session" ELSE "launch") /\ UNCHANGED wg
            ELSE ReturnEnds(c)
    /\ UNCHANGED <<table, closing, ent, lock, health, procs, remote, shared, unsureProc,
                   calls, ticks>>

LaunchProcess(c) ==
    /\ caller[c].pc = "launch"
    /\ \E out \in Outcome :
         /\ LaunchCall(caller[c].s, 1, out)
         /\ caller' = [caller EXCEPT ![c].pc = IF out.ok THEN "factory" ELSE "undoSandbox",
                                     ![c].proc = 1]
    /\ UNCHANGED <<table, closing, wg, ent, lock, health, sandbox, remote, shared, unsure,
                   calls, ticks>>

AgentServiceFactory(c) ==
    /\ caller[c].pc = "factory"
    /\ \E pc \in {"session", "undoKill"} : Goto(c, pc)
    /\ UNCHANGED <<table, closing, wg, ent, lock, health, external, calls, ticks>>

\* The CreateSession of the agent just launched.
BackendCreateSession(c) ==
    /\ caller[c].pc = "session" /\ ~Local(caller[c].s)
    /\ \E out \in Outcome : LET s == caller[c].s IN
         /\ out.took => caller[c].proc \in procs[s]
         /\ remote' = IF out.took THEN [remote EXCEPT ![s] = TRUE] ELSE remote
         /\ Goto(c, IF out.ok THEN "add" ELSE "undoSession")
    /\ UNCHANGED <<table, closing, wg, ent, lock, health, sandbox, procs, shared, unsure,
                   unsureProc, calls, ticks>>

\* The CreateSession of the AgentLoopService all tools-sandbox sessions share:
\* when it fails only the sandbox is undone.
createToolsSandboxSession(c) ==
    /\ caller[c].pc = "session" /\ Local(caller[c].s)
    /\ \E out \in Outcome : LET s == caller[c].s IN
         /\ out.took => shared
         /\ remote' = IF out.took THEN [remote EXCEPT ![s] = TRUE] ELSE remote
         /\ Goto(c, IF out.ok THEN "add" ELSE "undoSandbox")
    /\ UNCHANGED <<table, closing, wg, ent, lock, health, sandbox, procs, shared, unsure,
                   unsureProc, calls, ticks>>

\* The entry is complete before it is published: addSession checks closing and
\* the limit.
AddSession(c) ==
    /\ caller[c].pc = "add"
    /\ LET s == caller[c].s IN
         IF closing \/ (MaxSessions > 0 /\ Cardinality(table) >= MaxSessions)
         THEN Goto(c, "undoSession") /\ UNCHANGED <<table, ent, wg>>
         ELSE /\ table' = table \cup {s}
              /\ ent' = [ent EXCEPT ![s].state = "active", ![s].proc = caller[c].proc]
              /\ ReturnEnds(c)
    /\ UNCHANGED <<closing, lock, health, external, calls, ticks>>

\* Compensation, in order: the agent's session, its client, the process, the sandbox.
UndoSession(c) ==
    /\ caller[c].pc = "undoSession"
    /\ \E out \in Outcome : LET s == caller[c].s IN
         /\ remote' = IF out.took THEN [remote EXCEPT ![s] = FALSE] ELSE remote
         /\ Goto(c, IF Local(s) THEN "undoSandbox" ELSE "undoKill")
    /\ UNCHANGED <<table, closing, wg, ent, lock, health, sandbox, procs, shared, unsure,
                   unsureProc, calls, ticks>>

UndoKill(c) ==
    /\ caller[c].pc = "undoKill"
    /\ \E out \in Outcome : KillCall(caller[c].s, caller[c].proc, out)
    /\ Goto(c, "undoSandbox")
    /\ UNCHANGED <<table, closing, wg, ent, lock, health, sandbox, shared, unsure, calls, ticks>>

UndoSandbox(c) ==
    /\ caller[c].pc = "undoSandbox"
    /\ \E out \in Outcome : DestroyCall(caller[c].s, out)
    /\ ReturnEnds(c)
    /\ UNCHANGED <<table, closing, ent, lock, health, shared, unsureProc, calls, ticks>>

-----------------------------------------------------------------------------
(* Proxied calls.                                                          *)

\* SendMessage, Continue, Steer, FollowUp, Abort, SubscribeEvents, GetSession
\* and ResumeSession: look the entry up and take the target under its lock,
\* unless the session is unhealthy.  Only ResumeSession is an operation.
SnapshotProxyTarget(c) ==
    /\ NewCall(c)
    /\ \E s \in table, op \in {"proxy", "resumeSession"} :
         /\ lock[s] = None /\ ent[s].state # "unhealthy"
         /\ IF op = "resumeSession" THEN beginOperation ELSE UNCHANGED wg
         /\ caller' = [caller EXCEPT ![c] = [Ready EXCEPT !.pc = "forward", !.op = op, !.s = s,
                                                          !.proc = ent[s].proc]]
    /\ UNCHANGED <<table, closing, ent, lock, health, external, ticks>>

\* The call goes to the target taken, whatever has become of it; ResumeSession
\* creates the session there.
Forward(c) ==
    /\ caller[c].pc = "forward"
    /\ IF caller[c].op = "proxy"
       THEN Return(c) /\ UNCHANGED <<wg, remote>>
       ELSE /\ \E took \in BOOLEAN : LET s == caller[c].s IN
                 /\ took => IF Local(s) THEN shared ELSE caller[c].proc \in procs[s]
                 /\ remote' = IF took THEN [remote EXCEPT ![s] = TRUE] ELSE remote
            /\ ReturnEnds(c)
    /\ UNCHANGED <<table, closing, ent, lock, health, sandbox, procs, shared, unsure,
                   unsureProc, calls, ticks>>

-----------------------------------------------------------------------------
(* Pause and resume: not operations, so Close does not wait for them.      *)

StartControl(c, op, pc) ==
    /\ NewCall(c)
    /\ \E s \in table :
         caller' = [caller EXCEPT ![c] = [Ready EXCEPT !.pc = pc, !.op = op, !.s = s]]
    /\ UNCHANGED <<table, closing, wg, ent, lock, health, external, ticks>>

PauseSession(c) == StartControl(c, "pause", "pauseLock")

ResumeSessionSandbox(c) == StartControl(c, "resume", "resumeLock")

\* The entry's lock, then the state check: the entry may be destroyed by now.
TakeLock(c, at, state, next) ==
    /\ caller[c].pc = at /\ lock[caller[c].s] = None
    /\ IF ent[caller[c].s].state = state
       THEN lock' = [lock EXCEPT ![caller[c].s] = c] /\ Goto(c, next)
       ELSE Return(c) /\ UNCHANGED lock
    /\ UNCHANGED <<table, closing, wg, ent, health, external, calls, ticks>>

PauseLock(c) == TakeLock(c, "pauseLock", "active", "pauseCall")

ResumeLock(c) == TakeLock(c, "resumeLock", "paused", "resumeCall")

Unlock(s) == lock' = [lock EXCEPT ![s] = None]

\* For agent-direct the turn is aborted first: a stopped instance loses its
\* processes.
PauseSandbox(c) ==
    /\ caller[c].pc = "pauseCall"
    /\ \E out \in Outcome : LET s == caller[c].s
                                lossy == out.took /\ ent[s].placement = "agent-direct" IN
         /\ sandbox' = IF out.took THEN [sandbox EXCEPT ![s] = "paused"] ELSE sandbox
         /\ procs' = IF lossy THEN [procs EXCEPT ![s] = {}] ELSE procs
         /\ remote' = IF lossy THEN [remote EXCEPT ![s] = FALSE] ELSE remote
         /\ unsure' = IF out.took /\ ~out.ok THEN unsure \cup {s} ELSE unsure
         /\ ent' = IF out.ok THEN [ent EXCEPT ![s].state = "paused"] ELSE ent
         /\ Unlock(s)
    /\ Return(c)
    /\ UNCHANGED <<table, closing, wg, health, shared, unsureProc, calls, ticks>>

ResumeSandbox(c) ==
    /\ caller[c].pc = "resumeCall"
    /\ \E out \in Outcome : LET s == caller[c].s IN
         /\ sandbox' = IF out.took THEN [sandbox EXCEPT ![s] = "running"] ELSE sandbox
         /\ IF ~out.ok
            THEN Unlock(s) /\ Return(c)
            ELSE /\ Goto(c, IF ent[s].placement = "agent-direct" THEN "relaunch" ELSE "resumed")
                 /\ UNCHANGED lock
    /\ UNCHANGED <<table, closing, wg, ent, health, procs, remote, shared, unsure, unsureProc,
                   calls, ticks>>

\* The new agent process; when it cannot be launched the session stays paused.
Relaunch(c) ==
    /\ caller[c].pc = "relaunch"
    /\ LET s == caller[c].s
           p == ent[s].proc + 1
       IN  /\ p <= MaxProcs
           /\ \E out \in Outcome :
                /\ LaunchCall(s, p, out)
                /\ IF out.ok
                   THEN /\ caller' = [caller EXCEPT ![c].pc = "reconnect", ![c].proc = p]
                        /\ UNCHANGED lock
                   ELSE Unlock(s) /\ Return(c)
    /\ UNCHANGED <<table, closing, wg, ent, health, sandbox, remote, shared, unsure,
                   calls, ticks>>

\* Mutant: a failed reconnect leaves the new process running.
ReconnectLeaks(c) ==
    /\ caller[c].pc = "reconnect"
    /\ \/ Goto(c, "resumed") /\ UNCHANGED lock
       \/ Unlock(caller[c].s) /\ Return(c)
    /\ UNCHANGED <<table, closing, wg, ent, health, external, calls, ticks>>

Reconnect(c) ==
    /\ caller[c].pc = "reconnect"
    /\ \E pc \in {"resumed", "resumeKill"} : Goto(c, pc)
    /\ UNCHANGED <<table, closing, wg, ent, lock, health, external, calls, ticks>>

ResumeKill(c) ==
    /\ caller[c].pc = "resumeKill"
    /\ \E out \in Outcome : KillCall(caller[c].s, caller[c].proc, out)
    /\ Unlock(caller[c].s)
    /\ Return(c)
    /\ UNCHANGED <<table, closing, wg, ent, health, sandbox, shared, unsure, calls, ticks>>

\* Mutant: the entry keeps the process it had before the pause.
ResumedKeepsProcess(c) ==
    /\ caller[c].pc = "resumed"
    /\ ent' = [ent EXCEPT ![caller[c].s].state = "active"]
    /\ Unlock(caller[c].s)
    /\ Return(c)
    /\ UNCHANGED <<table, closing, wg, health, external, calls, ticks>>

Resumed(c) ==
    /\ caller[c].pc = "resumed"
    /\ ent' = [ent EXCEPT ![caller[c].s].state = "active",
                          ![caller[c].s].proc = IF caller[c].proc = 0 THEN @ ELSE caller[c].proc]
    /\ Unlock(caller[c].s)
    /\ Return(c)
    /\ UNCHANGED <<table, closing, wg, health, external, calls, ticks>>

-----------------------------------------------------------------------------
(* DestroySession and destroySessionEntry, which Close shares.             *)

DestroySession(c) ==
    /\ NewCall(c) /\ beginOperation
    /\ \E s \in table :
         caller' = [caller EXCEPT ![c] = [Ready EXCEPT !.pc = "lock", !.op = "destroy", !.s = s]]
    /\ UNCHANGED <<table, closing, ent, lock, health, external, ticks>>

DestroyLock(c) ==
    /\ caller[c].pc = "lock" /\ lock[caller[c].s] = None
    /\ lock' = [lock EXCEPT ![caller[c].s] = c]
    /\ Goto(c, "destroyAgent")
    /\ UNCHANGED <<table, closing, wg, ent, health, external, calls, ticks>>

\* Every step is tried, whatever became of the one before.
DestroyAgent(c) ==
    /\ caller[c].pc = "destroyAgent"
    /\ \E out \in Outcome : LET s == caller[c].s IN
         /\ remote' = IF out.took THEN [remote EXCEPT ![s] = FALSE] ELSE remote
         /\ Goto(c, IF ent[s].proc # 0 THEN "kill" ELSE "destroySandbox")
    /\ UNCHANGED <<table, closing, wg, ent, lock, health, sandbox, procs, shared, unsure,
                   unsureProc, calls, ticks>>

DestroyKill(c) ==
    /\ caller[c].pc = "kill"
    /\ \E out \in Outcome : KillCall(caller[c].s, ent[caller[c].s].proc, out)
    /\ Goto(c, "destroySandbox")
    /\ UNCHANGED <<table, closing, wg, ent, lock, health, sandbox, shared, unsure, calls, ticks>>

DestroySandbox(c) ==
    /\ caller[c].pc = "destroySandbox"
    /\ \E out \in Outcome : DestroyCall(caller[c].s, out)
    /\ Goto(c, "closeService")
    /\ UNCHANGED <<table, closing, wg, ent, lock, health, shared, unsureProc, calls, ticks>>

\* AgentLoopService.Close ends every session of the shared service.
SharedCloses == /\ shared' = FALSE
                /\ remote' = [s \in Sessions |-> remote[s] /\ ~Local(s)]

\* The entry's service is closed, which for tools-sandbox is the one that all
\* such sessions share; then the entry is unregistered.
DestroyEnds(c) ==
    /\ caller[c].pc = "closeService"
    /\ LET s == caller[c].s IN
         /\ IF Local(s) THEN SharedCloses ELSE UNCHANGED <<shared, remote>>
         /\ ent' = [ent EXCEPT ![s].state = "destroyed"]
         /\ table' = table \ {s}
         /\ Unlock(s)
    /\ IF caller[c].op = "close"
       THEN Goto(c, "closeNext") /\ UNCHANGED wg
       ELSE ReturnEnds(c)
    /\ UNCHANGED <<closing, health, sandbox, procs, unsure, unsureProc, calls, ticks>>

Close(c) ==
    /\ NewCall(c) /\ ~closing
    /\ closing' = TRUE
    /\ caller' = [caller EXCEPT ![c] = [Ready EXCEPT !.pc = "waitHealth", !.op = "close"]]
    /\ UNCHANGED <<table, wg, ent, lock, health, external, ticks>>

CloseWaitHealth(c) ==
    /\ caller[c].pc = "waitHealth" /\ health.pc = "stopped"
    /\ Goto(c, "waitOps")
    /\ UNCHANGED <<table, closing, wg, ent, lock, health, external, calls, ticks>>

CloseWaitOps(c) ==
    /\ caller[c].pc = "waitOps" /\ wg = 0
    /\ caller' = [caller EXCEPT ![c].pc = "closeNext", ![c].todo = table]
    /\ UNCHANGED <<table, closing, wg, ent, lock, health, external, calls, ticks>>

CloseNext(c) ==
    /\ caller[c].pc = "closeNext"
    /\ IF caller[c].todo = {}
       THEN Goto(c, "closeShared")
       ELSE \E s \in caller[c].todo :
              caller' = [caller EXCEPT ![c].pc = "lock", ![c].s = s, ![c].todo = @ \ {s}]
    /\ UNCHANGED <<table, closing, wg, ent, lock, health, external, calls, ticks>>

\* Then the Close of the sandbox controls, which as the server configures them
\* (no TerminateOnClose, LeaveInstancesOnClose) ends their background work and
\* leaves every sandbox as it is.
CloseShared(c) ==
    /\ caller[c].pc = "closeShared"
    /\ SharedCloses
    /\ Return(c)
    /\ UNCHANGED <<table, closing, wg, ent, lock, health, sandbox, procs, unsure, unsureProc,
                   calls, ticks>>

-----------------------------------------------------------------------------
(* The health loop.                                                        *)

Skipped(s) == ent[s].state \in {"creating", "paused", "destroyed"}

\* A tick lists the entries; a cancelled context ends the loop between rounds.
HealthTick ==
    /\ health.pc = "wait"
    /\ \/ /\ ticks < MaxTicks
          /\ health' = [health EXCEPT !.pc = "each", !.todo = table]
          /\ ticks' = ticks + 1
       \/ closing /\ health' = [health EXCEPT !.pc = "stopped"] /\ UNCHANGED ticks
    /\ UNCHANGED <<table, closing, wg, ent, lock, caller, external, calls>>

\* The entry is copied under its lock and probed without it.
HealthLook ==
    /\ health.pc = "each"
    /\ \/ health.todo = {} /\ health' = HealthIdle
       \/ \E s \in health.todo :
            /\ lock[s] = None
            /\ health' = [health EXCEPT !.pc = IF Skipped(s) THEN "each" ELSE "probe",
                                        !.s = IF Skipped(s) THEN None ELSE s,
                                        !.todo = @ \ {s}]
    /\ UNCHANGED <<table, closing, wg, ent, lock, caller, external, calls, ticks>>

HealthVerdict(s, ok) ==
    ent' = [ent EXCEPT ![s].state = IF ok THEN "active" ELSE "unhealthy"]

\* Mutant: the answer is applied without looking at the state again.
HealthApplyStale ==
    /\ health.pc = "probe" /\ lock[health.s] = None
    /\ \E ok \in BOOLEAN : HealthVerdict(health.s, ok)
    /\ health' = [health EXCEPT !.pc = "each", !.s = None]
    /\ UNCHANGED <<table, closing, wg, lock, caller, external, calls, ticks>>

\* The answer, with the lock taken again: the session may have been paused or
\* destroyed, or paused and resumed, meanwhile.
HealthApply ==
    /\ health.pc = "probe" /\ lock[health.s] = None
    /\ IF Skipped(health.s) THEN UNCHANGED ent
                            ELSE \E ok \in BOOLEAN : HealthVerdict(health.s, ok)
    /\ health' = [health EXCEPT !.pc = "each", !.s = None]
    /\ UNCHANGED <<table, closing, wg, lock, caller, external, calls, ticks>>

-----------------------------------------------------------------------------
Init ==
    /\ table = {} /\ closing = FALSE /\ wg = 0
    /\ ent = [s \in Sessions |-> [placement |-> "agent-direct", state |-> "none", proc |-> 0]]
    /\ lock = [s \in Sessions |-> None]
    /\ caller = [c \in Callers |-> Ready]
    /\ health = HealthIdle
    /\ sandbox = [s \in Sessions |-> "none"]
    /\ procs = [s \in Sessions |-> {}]
    /\ remote = [s \in Sessions |-> FALSE]
    /\ shared = TRUE /\ unsure = {} /\ unsureProc = {}
    /\ calls = 0 /\ ticks = 0

CallerCalls(c) ==
    \/ CreateSession(c) \/ SnapshotProxyTarget(c) \/ PauseSession(c)
    \/ ResumeSessionSandbox(c) \/ DestroySession(c) \/ Close(c)

CallerStep(c) ==
    \/ CreateSandbox(c) \/ LaunchProcess(c) \/ AgentServiceFactory(c)
    \/ BackendCreateSession(c) \/ createToolsSandboxSession(c) \/ AddSession(c)
    \/ UndoSession(c) \/ UndoKill(c) \/ UndoSandbox(c) \/ Forward(c)
    \/ PauseLock(c) \/ ResumeLock(c) \/ PauseSandbox(c) \/ ResumeSandbox(c)
    \/ Relaunch(c) \/ Reconnect(c) \/ ResumeKill(c) \/ Resumed(c)
    \/ DestroyLock(c) \/ DestroyAgent(c) \/ DestroyKill(c) \/ DestroySandbox(c)
    \/ DestroyEnds(c) \/ CloseWaitHealth(c) \/ CloseWaitOps(c) \/ CloseNext(c)
    \/ CloseShared(c)

HealthStep == HealthTick \/ HealthLook \/ HealthApply

Next == \/ \E c \in Callers : CallerCalls(c) \/ CallerStep(c)
        \/ HealthStep

Spec == Init /\ [][Next]_vars

\* Remote calls have deadlines or return, and Go schedules every goroutine; an
\* entry's lock that is released again and again is granted eventually (a
\* sync.Mutex hands over to a waiter that starves).
Fairness == /\ \A c \in Callers : SF_vars(CallerStep(c))
            /\ SF_vars(HealthStep)

FairSpec == Spec /\ Fairness

-----------------------------------------------------------------------------
(* Properties.                                                             *)

TypeOK ==
    /\ table \subseteq Sessions
    /\ closing \in BOOLEAN /\ wg \in Nat
    /\ ent \in [Sessions -> SessionEntry]
    /\ lock \in [Sessions -> Callers \cup {None}]
    /\ caller \in [Callers -> Caller]
    /\ health \in Health
    /\ sandbox \in [Sessions -> {"none", "running", "paused", "gone"}]
    /\ procs \in [Sessions -> SUBSET (1..MaxProcs)]
    /\ remote \in [Sessions -> BOOLEAN]
    /\ shared \in BOOLEAN
    /\ unsure \subseteq Sessions /\ unsureProc \subseteq Sessions
    /\ calls \in 0..MaxCalls /\ ticks \in 0..MaxTicks

Working(s, ops) == \E c \in Callers : caller[c].s = s /\ caller[c].op \in ops

\* No sandbox is leaked: one that exists is in the table, or in the hands of a
\* create or destroy, unless a call about it failed (a refused registration and
\* every failed step of a create undo what the steps before have done).
SandboxesOwned ==
    \A s \in Sessions :
        sandbox[s] \in {"running", "paused"} =>
            s \in table \/ s \in unsure \/ Working(s, {"create", "destroy", "close"})

\* No agent process is leaked in a sandbox that lives on: it is the one the
\* entry names, or a create or resume is busy with it, unless a launch or kill
\* failed.
ProcessesOwned ==
    \A s \in table :
        \A p \in procs[s] : \/ p = ent[s].proc \/ s \in unsureProc
                            \/ Working(s, {"create", "resume"})

\* A session that takes calls has a running sandbox and, where an agent runs in
\* it, the entry names the live process: after any mix of pauses, resumes and
\* health answers that were on their way meanwhile.
ServedSessionsRun ==
    \A s \in table :
        ent[s].state \in {"active", "unhealthy"} /\ lock[s] = None =>
            \/ s \in unsure
            \/ /\ sandbox[s] = "running"
               /\ ent[s].proc # 0 => ent[s].proc \in procs[s] \cup (IF s \in unsureProc THEN {ent[s].proc} ELSE {})

\* Destroyed is final: a pause, a resume or a health answer that found the entry
\* before does not bring it back.
DestroyedIsFinal ==
    [][\A s \in Sessions : ent[s].state = "destroyed" => ent'[s].state = "destroyed"]_vars

Closed == closing /\ \A c \in Callers : caller[c].op # "close"

\* When Close has returned, nothing is left: creates that were under way when it
\* began, and pauses it did not wait for, included.
CloseLeavesNothing ==
    Closed => /\ table = {}
              /\ \A s \in Sessions : sandbox[s] \in {"running", "paused"} => s \in unsure

\* Close returns, although it waits for the health loop, which waits for the
\* locks that pauses and resumes hold.
CloseEnds == \A c \in Callers : (caller[c].op = "close") ~> (caller[c].op # "close")

\* Nothing the orchestrator has started is leaked, sandbox or agent process,
\* while it runs and when it is closed.
NothingLeaks == SandboxesOwned /\ ProcessesOwned /\ CloseLeavesNothing
=============================================================================
