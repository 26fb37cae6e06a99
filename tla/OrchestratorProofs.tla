------------------------- MODULE OrchestratorProofs -------------------------
(***************************************************************************)
(* Proofs about Orchestrator for any callers, sessions and placements.     *)
(***************************************************************************)
EXTENDS Orchestrator, FiniteSetTheorems, TLAPS

CreatePC == {"sandbox", "launch", "factory", "session", "add", "undoSession", "undoKill",
             "undoSandbox"}

ResumedPC == {"resumeCall", "relaunch", "reconnect", "resumeKill", "resumed"}

HeldPC == {"destroyAgent", "kill", "destroySandbox", "closeService"}

ClosePC == {"waitHealth", "waitOps", "closeNext", "closeShared"}

\* Where a call is fits what it does, and it has its session.
OpInv ==
    \A c \in Callers :
      /\ caller[c].pc = "ready" <=> caller[c].op = "none"
      /\ caller[c].pc \in CreatePC <=> caller[c].op = "create"
      /\ caller[c].pc = "forward" <=> caller[c].op \in {"proxy", "resumeSession"}
      /\ caller[c].pc \in {"pauseLock", "pauseCall"} <=> caller[c].op = "pause"
      /\ caller[c].pc \in ResumedPC \cup {"resumeLock"} <=> caller[c].op = "resume"
      /\ caller[c].pc \in ClosePC => caller[c].op = "close"
      /\ caller[c].pc \notin ClosePC \cup {"ready"} => caller[c].s \in Sessions

\* Operations between beginOperation and endOperation.
InOps == {c \in Callers : caller[c].op \in {"create", "resumeSession", "destroy"}}

WgInv == wg = Cardinality(InOps)

\* An entry's lock is held by the one call that is past taking it.
LockInv ==
    \A s \in Sessions, c \in Callers :
      lock[s] = c <=> caller[c].s = s /\ caller[c].pc \in {"pauseCall"} \cup ResumedPC \cup HeldPC

\* Entries that are or were in the table.
Known(s) == s \in Sessions /\ ent[s].state \in {"active", "paused", "unhealthy", "destroyed"}

\* The table holds the entries that are neither being made nor destroyed; whom
\* a call or the health loop has in hand went through it.
TableInv ==
    /\ \A s \in Sessions : s \in table <=> ent[s].state \in {"active", "paused", "unhealthy"}
    /\ \A c \in Callers :
         /\ \A s \in caller[c].todo : Known(s)
         /\ caller[c].op \notin {"none", "create"} /\ caller[c].s # None => Known(caller[c].s)
         /\ caller[c].op = "create" => ent[caller[c].s].state = "creating"
    /\ \A s \in health.todo : Known(s)
    /\ health.pc = "probe" => Known(health.s)

\* What the state was when the lock was taken it is until the unlock.
HeldInv ==
    \A c \in Callers :
      /\ caller[c].pc = "pauseCall" => ent[caller[c].s].state = "active"
      /\ caller[c].pc \in ResumedPC => ent[caller[c].s].state = "paused"

\* A session under construction is its creator's own, and every step it has
\* taken has left what it should.
CreateInv ==
    \A c \in Callers : caller[c].op = "create" =>
      /\ \A d \in Callers : d # c /\ caller[d].op = "create" => caller[d].s # caller[c].s
      /\ caller[c].pc = "sandbox" => sandbox[caller[c].s] = "none" /\ caller[c].proc = 0
      /\ caller[c].pc \in {"sandbox", "launch"} => procs[caller[c].s] = {}
      /\ caller[c].pc \in {"launch", "factory", "session", "add"} => sandbox[caller[c].s] = "running"
      /\ caller[c].pc \in {"launch", "factory"} => ~Local(caller[c].s)
      /\ caller[c].pc \in {"session", "add"} /\ Local(caller[c].s) =>
           caller[c].proc = 0 /\ procs[caller[c].s] = {}
      /\ caller[c].pc \in {"factory", "session", "add"} /\ ~Local(caller[c].s) =>
           caller[c].proc = 1 /\ 1 \in procs[caller[c].s]
      /\ caller[c].s \in unsureProc \/ procs[caller[c].s] \subseteq {1}

\* A session nobody has used has nothing.
NoneInv ==
    \A s \in Sessions : ent[s].state = "none" => sandbox[s] = "none" /\ procs[s] = {}

\* The process that a resume has launched and the entry does not name yet.
Launched(s) == {caller[c].proc : c \in {d \in Callers :
                  caller[d].s = s /\ caller[d].pc \in {"reconnect", "resumeKill", "resumed"}}}

\* Processes of an entry; a paused agent-direct sandbox has lost its own.
ProcsInv ==
    \A s \in table : s \notin unsureProc =>
      /\ procs[s] \subseteq {ent[s].proc} \cup Launched(s)
      /\ ent[s].state = "paused" /\ ent[s].placement = "agent-direct" => procs[s] \subseteq Launched(s)

\* What a resume has done so far.
ResumeInv ==
    \A c \in Callers :
      /\ caller[c].pc \in {"relaunch", "reconnect", "resumeKill", "resumed"} =>
           sandbox[caller[c].s] = "running"
      /\ caller[c].pc \in {"relaunch", "reconnect", "resumeKill"} =>
           ent[caller[c].s].placement = "agent-direct"
      /\ caller[c].pc \in {"reconnect", "resumeKill"} => caller[c].proc # 0
      /\ caller[c].pc = "reconnect" => caller[c].proc \in procs[caller[c].s]
      /\ caller[c].pc = "resumed" =>
           IF ent[caller[c].s].placement = "agent-direct"
           THEN caller[c].proc # 0 /\ caller[c].proc \in procs[caller[c].s]
           ELSE caller[c].proc = 0
      /\ caller[c].pc \in {"resumeLock", "resumeCall", "relaunch"} => caller[c].proc = 0

\* ServedSessionsRun, also while a pause or resume holds the lock, and what a
\* pause that loses no processes keeps.
ServeInv ==
    \A s \in table :
      (\A c \in Callers : caller[c].s = s => caller[c].pc \notin HeldPC) /\ s \notin unsure =>
        /\ ent[s].state \in {"active", "unhealthy"} => sandbox[s] = "running"
        /\ \/ ent[s].proc = 0 \/ s \in unsureProc \/ ent[s].proc \in procs[s]
           \/ ent[s].state = "paused" /\ ent[s].placement = "agent-direct"

\* Sandboxes that exist: SandboxesOwned with the creator only.
OwnedInv ==
    /\ \A s \in Sessions : sandbox[s] \in {"running", "paused"} =>
         s \in table \/ s \in unsure \/ \E c \in Callers : caller[c].s = s /\ caller[c].op = "create"
    /\ \A c \in Callers : caller[c].pc = "closeService" =>
         sandbox[caller[c].s] \notin {"running", "paused"} \/ caller[c].s \in unsure

\* Close: one closer; from the moment it has waited for the operations there
\* are none, and what is in the table is on its list.
CloseInv ==
    /\ \A c, d \in Callers : caller[c].op = "close" /\ caller[d].op = "close" => c = d
    /\ \A c \in Callers : caller[c].op = "close" =>
         /\ closing
         /\ caller[c].pc \notin {"waitHealth", "waitOps"} =>
              /\ InOps = {}
              /\ table \subseteq caller[c].todo \cup {caller[c].s}
         /\ caller[c].pc \in {"closeNext", "closeShared"} => table \subseteq caller[c].todo
         /\ caller[c].pc = "closeShared" => caller[c].todo = {}
    /\ Closed => InOps = {} /\ table = {}

OrchInv ==
    /\ TypeOK /\ OpInv /\ WgInv /\ LockInv /\ TableInv /\ HeldInv /\ CreateInv /\ NoneInv
    /\ ProcsInv /\ ResumeInv /\ ServeInv /\ OwnedInv /\ CloseInv
-----------------------------------------------------------------------------
(* Steps, field by field *)

LEMMA Bounds ==
    /\ MaxProcs \in Nat \ {0} /\ MaxCalls \in Nat /\ MaxTicks \in Nat /\ MaxSessions \in Nat
    /\ None \notin Callers /\ None \notin Sessions
BY OrchestratorAssumption

LEMMA ReadyIs ==
    /\ Ready \in Caller /\ Ready.pc = "ready" /\ Ready.op = "none" /\ Ready.s = None
    /\ Ready.proc = 0 /\ Ready.todo = {}
BY Bounds DEF Ready, Caller, CallerPC, Op

LEMMA OutcomeIs == \A out \in Outcome : out.ok => out.took
BY DEF Outcome

\* Caller c is the only one to move, and these are its local variables now.
Moved(c, pc, op, s, p, t) ==
    /\ caller' \in [Callers -> Caller]
    /\ \A d \in Callers : d # c => caller'[d] = caller[d]
    /\ caller'[c].pc = pc /\ caller'[c].op = op /\ caller'[c].s = s
    /\ caller'[c].proc = p /\ caller'[c].todo = t

Went(c, pc) == Moved(c, pc, caller[c].op, caller[c].s, caller[c].proc, caller[c].todo)

Back(c) == Moved(c, "ready", "none", None, 0, {})

Called(c, pc, op, s, p) == caller[c].pc = "ready" /\ Moved(c, pc, op, s, p, {})

\* Only the entry of session s may change, and this is its state and process now.
Entered(s, state, p) ==
    /\ ent' \in [Sessions -> SessionEntry]
    /\ \A t \in Sessions : t # s => ent'[t] = ent[t]
    /\ ent'[s].state = state /\ ent'[s].proc = p

LEMMA WentIs ==
    ASSUME TypeOK, NEW c \in Callers, NEW pc \in CallerPC, Goto(c, pc)
    PROVE  Went(c, pc)
BY DEF TypeOK, Goto, Went, Moved, Caller

LEMMA BackIs ==
    ASSUME TypeOK, NEW c \in Callers, Return(c)
    PROVE  Back(c)
BY ReadyIs DEF TypeOK, Return, Back, Moved

LEMMA CalledIs ==
    ASSUME TypeOK, NEW c \in Callers, caller[c].pc = "ready",
           NEW pc \in CallerPC, NEW op \in Op, NEW s \in Sessions, NEW p \in 0..MaxProcs,
           caller' = [caller EXCEPT ![c] = [Ready EXCEPT !.pc = pc, !.op = op, !.s = s, !.proc = p]]
    PROVE  Called(c, pc, op, s, p)
BY ReadyIs DEF TypeOK, Called, Moved, Caller

LEMMA CalledWith ==
    ASSUME TypeOK, NEW c \in Callers, caller[c].pc = "ready",
           NEW pc \in CallerPC, NEW op \in Op, NEW s \in Sessions,
           caller' = [caller EXCEPT ![c] = [Ready EXCEPT !.pc = pc, !.op = op, !.s = s]]
    PROVE  Called(c, pc, op, s, 0)
BY ReadyIs DEF TypeOK, Called, Moved, Caller

LEMMA EnteredIs ==
    ASSUME TypeOK, NEW s \in Sessions, NEW state \in SessionState,
           ent' = [ent EXCEPT ![s].state = state]
    PROVE  Entered(s, state, ent[s].proc) /\ ent'[s].placement = ent[s].placement
BY DEF TypeOK, Entered, SessionEntry

-----------------------------------------------------------------------------
(* CreateSession *)

LEMMA CreateSessionMove ==
    ASSUME TypeOK, NEW c \in Callers, CreateSession(c)
    PROVE  /\ ~closing /\ wg' = wg + 1
           /\ UNCHANGED <<table, closing, lock, health, external, ticks>>
           /\ calls < MaxCalls /\ calls' = calls + 1
           /\ \E s \in Sessions :
                ent[s].state = "none" /\ Entered(s, "creating", ent[s].proc)
                /\ Called(c, "sandbox", "create", s, 0)
<1>1. PICK s \in Sessions, p \in PlacementMode :
         /\ ent[s].state = "none"
         /\ ent' = [ent EXCEPT ![s].state = "creating", ![s].placement = p]
         /\ caller' = [caller EXCEPT ![c] = [Ready EXCEPT !.pc = "sandbox", !.op = "create", !.s = s]]
    BY DEF CreateSession
<1>2. Entered(s, "creating", ent[s].proc)
    BY <1>1 DEF TypeOK, Entered, SessionEntry, SessionState
<1>3. caller[c].pc = "ready" /\ "sandbox" \in CallerPC /\ "create" \in Op
    BY DEF CreateSession, NewCall, CallerPC, Op
<1>4. Called(c, "sandbox", "create", s, 0)
    BY <1>1, <1>3, CalledWith
<1> QED BY <1>1, <1>2, <1>4 DEF CreateSession, NewCall, beginOperation

LEMMA CreateSandboxMove ==
    ASSUME TypeOK, NEW c \in Callers, CreateSandbox(c)
    PROVE  LET s == caller[c].s IN
           /\ caller[c].pc = "sandbox"
           /\ UNCHANGED <<table, closing, ent, lock, health, procs, remote, shared, unsureProc, calls, ticks>>
           /\ \/ /\ sandbox' = [sandbox EXCEPT ![s] = "running"]
                 /\ Went(c, IF Local(s) THEN "session" ELSE "launch") /\ UNCHANGED <<wg, unsure>>
              \/ /\ sandbox' = [sandbox EXCEPT ![s] = "running"] /\ unsure' = unsure \cup {s}
                 /\ Back(c) /\ wg' = wg - 1
              \/ Back(c) /\ wg' = wg - 1 /\ UNCHANGED <<sandbox, unsure>>
BY WentIs, BackIs, OutcomeIs DEF CreateSandbox, ReturnEnds, CallerPC

LEMMA LaunchProcessMove ==
    ASSUME TypeOK, NEW c \in Callers, LaunchProcess(c)
    PROVE  LET s == caller[c].s IN
           /\ caller[c].pc = "launch"
           /\ UNCHANGED <<table, closing, wg, ent, lock, health, sandbox, remote, shared, unsure, calls, ticks>>
           /\ \E pc \in {"factory", "undoSandbox"} :
                /\ Moved(c, pc, caller[c].op, s, 1, caller[c].todo)
                /\ \/ UNCHANGED procs
                   \/ procs' = [procs EXCEPT ![s] = @ \cup {1}]
                /\ \/ UNCHANGED unsureProc
                   \/ unsureProc' = unsureProc \cup {s}
                /\ pc = "factory" /\ sandbox[s] = "running" =>
                     procs' = [procs EXCEPT ![s] = @ \cup {1}] /\ UNCHANGED unsureProc
                /\ procs' = procs \/ pc = "factory" \/ unsureProc' = unsureProc \cup {s}
<1>1. PICK out \in Outcome :
        /\ LaunchCall(caller[c].s, 1, out)
        /\ caller' = [caller EXCEPT ![c].pc = IF out.ok THEN "factory" ELSE "undoSandbox",
                                    ![c].proc = 1]
    BY DEF LaunchProcess
<1>2. out.ok => out.took
    BY OutcomeIs
<1>3. 1 \in 0..MaxProcs
    BY Bounds
<1>4. ASSUME NEW pc \in CallerPC, caller' = [caller EXCEPT ![c].pc = pc, ![c].proc = 1]
      PROVE  Moved(c, pc, caller[c].op, caller[c].s, 1, caller[c].todo)
    BY <1>3, <1>4 DEF TypeOK, Moved, Caller
<1>p. "factory" \in CallerPC /\ "undoSandbox" \in CallerPC
    BY DEF CallerPC
<1>5. CASE out.ok
  <2>1. Moved(c, "factory", caller[c].op, caller[c].s, 1, caller[c].todo)
    BY <1>1, <1>4, <1>5, <1>p
  <2> QED BY <1>1, <1>2, <1>5, <2>1 DEF LaunchProcess, LaunchCall
<1>6. CASE ~out.ok
  <2>1. Moved(c, "undoSandbox", caller[c].op, caller[c].s, 1, caller[c].todo)
    BY <1>1, <1>4, <1>6, <1>p
  <2> QED BY <1>1, <1>2, <1>6, <2>1 DEF LaunchProcess, LaunchCall
<1> QED BY <1>5, <1>6

LEMMA AgentServiceFactoryMove ==
    ASSUME TypeOK, NEW c \in Callers, AgentServiceFactory(c)
    PROVE  /\ caller[c].pc = "factory" /\ \E pc \in {"session", "undoKill"} : Went(c, pc)
           /\ UNCHANGED <<table, closing, wg, ent, lock, health, external, calls, ticks>>
BY WentIs DEF AgentServiceFactory, CallerPC

LEMMA BackendCreateSessionMove ==
    ASSUME TypeOK, NEW c \in Callers, BackendCreateSession(c) \/ createToolsSandboxSession(c)
    PROVE  /\ caller[c].pc = "session"
           /\ \/ Went(c, "add")
              \/ Went(c, "undoSession") /\ ~Local(caller[c].s)
              \/ Went(c, "undoSandbox")
           /\ UNCHANGED <<table, closing, wg, ent, lock, health, sandbox, procs, shared, unsure,
                          unsureProc, calls, ticks>>
BY WentIs DEF BackendCreateSession, createToolsSandboxSession, CallerPC

LEMMA AddSessionMove ==
    ASSUME TypeOK, OpInv, NEW c \in Callers, AddSession(c)
    PROVE  LET s == caller[c].s IN
           /\ caller[c].pc = "add" /\ UNCHANGED <<closing, lock, health, external, calls, ticks>>
           /\ \/ Went(c, "undoSession") /\ UNCHANGED <<table, ent, wg>>
              \/ /\ ~closing /\ table' = table \cup {s} /\ Back(c) /\ wg' = wg - 1
                 /\ Entered(s, "active", caller[c].proc) /\ ent'[s].placement = ent[s].placement
<1>1. caller[c].pc = "add" /\ caller[c].s \in Sessions /\ caller[c].proc \in 0..MaxProcs
    BY DEF AddSession, OpInv, TypeOK, Caller, ClosePC
<1>2. ent' = [ent EXCEPT ![caller[c].s].state = "active", ![caller[c].s].proc = caller[c].proc] =>
        Entered(caller[c].s, "active", caller[c].proc) /\ ent'[caller[c].s].placement = ent[caller[c].s].placement
    BY <1>1 DEF TypeOK, Entered, SessionEntry, SessionState
<1> QED BY <1>1, <1>2, WentIs, BackIs DEF AddSession, ReturnEnds, CallerPC

LEMMA UndoSessionMove ==
    ASSUME TypeOK, NEW c \in Callers, UndoSession(c)
    PROVE  /\ caller[c].pc = "undoSession" /\ Went(c, IF Local(caller[c].s) THEN "undoSandbox" ELSE "undoKill")
           /\ UNCHANGED <<table, closing, wg, ent, lock, health, sandbox, procs, shared, unsure,
                          unsureProc, calls, ticks>>
BY WentIs DEF UndoSession, CallerPC

LEMMA UndoKillMove ==
    ASSUME TypeOK, NEW c \in Callers, UndoKill(c)
    PROVE  LET s == caller[c].s IN
           /\ caller[c].pc = "undoKill" /\ Went(c, "undoSandbox")
           /\ UNCHANGED <<table, closing, wg, ent, lock, health, sandbox, shared, unsure, calls, ticks>>
           /\ procs' = procs \/ procs' = [procs EXCEPT ![s] = @ \ {caller[c].proc}]
           /\ unsureProc' = unsureProc \/ unsureProc' = unsureProc \cup {s}
BY WentIs DEF UndoKill, KillCall, CallerPC

LEMMA UndoSandboxMove ==
    ASSUME TypeOK, NEW c \in Callers, UndoSandbox(c)
    PROVE  LET s == caller[c].s IN
           /\ caller[c].pc = "undoSandbox" /\ Back(c) /\ wg' = wg - 1
           /\ UNCHANGED <<table, closing, ent, lock, health, shared, unsureProc, calls, ticks>>
           /\ \/ /\ sandbox' = [sandbox EXCEPT ![s] = "gone"] /\ procs' = [procs EXCEPT ![s] = {}]
                 /\ unsure' = unsure
              \/ /\ sandbox' = [sandbox EXCEPT ![s] = "gone"] /\ procs' = [procs EXCEPT ![s] = {}]
                 /\ unsure' = unsure \cup {s}
              \/ sandbox' = sandbox /\ procs' = procs /\ unsure' = unsure \cup {s}
BY BackIs, OutcomeIs DEF UndoSandbox, DestroyCall, Gone, ReturnEnds

-----------------------------------------------------------------------------
(* Proxied calls, pause and resume *)

LEMMA SnapshotMove ==
    ASSUME TypeOK, NEW c \in Callers, SnapshotProxyTarget(c)
    PROVE  /\ UNCHANGED <<table, closing, ent, lock, health, external, ticks>>
           /\ calls < MaxCalls /\ calls' = calls + 1
           /\ \E s \in table, op \in {"proxy", "resumeSession"} :
                /\ Called(c, "forward", op, s, ent[s].proc)
                /\ op = "proxy" => wg' = wg
                /\ op = "resumeSession" => ~closing /\ wg' = wg + 1
<1>1. PICK s \in table, op \in {"proxy", "resumeSession"} :
         /\ IF op = "resumeSession" THEN beginOperation ELSE UNCHANGED wg
         /\ caller' = [caller EXCEPT ![c] = [Ready EXCEPT !.pc = "forward", !.op = op, !.s = s,
                                                          !.proc = ent[s].proc]]
    BY DEF SnapshotProxyTarget
<1>2. s \in Sessions /\ ent[s].proc \in 0..MaxProcs /\ "forward" \in CallerPC /\ op \in Op
    BY DEF TypeOK, SessionEntry, CallerPC, Op
<1>3. caller[c].pc = "ready"
    BY DEF SnapshotProxyTarget, NewCall
<1>4. Called(c, "forward", op, s, ent[s].proc)
    BY <1>1, <1>2, <1>3, CalledIs
<1> QED BY <1>1, <1>4 DEF SnapshotProxyTarget, NewCall, beginOperation

LEMMA ForwardMove ==
    ASSUME TypeOK, NEW c \in Callers, Forward(c)
    PROVE  /\ caller[c].pc = "forward" /\ Back(c)
           /\ UNCHANGED <<table, closing, ent, lock, health, sandbox, procs, shared, unsure,
                          unsureProc, calls, ticks>>
           /\ caller[c].op = "proxy" => wg' = wg
           /\ caller[c].op # "proxy" => wg' = wg - 1
BY BackIs DEF Forward, ReturnEnds

LEMMA ControlMove ==
    ASSUME TypeOK, NEW c \in Callers, PauseSession(c) \/ ResumeSessionSandbox(c)
    PROVE  /\ UNCHANGED <<table, closing, wg, ent, lock, health, external, ticks>>
           /\ calls < MaxCalls /\ calls' = calls + 1
           /\ \E s \in table :
                Called(c, "pauseLock", "pause", s, 0) \/ Called(c, "resumeLock", "resume", s, 0)
<1>1. PICK s \in table :
         \/ caller' = [caller EXCEPT ![c] = [Ready EXCEPT !.pc = "pauseLock", !.op = "pause", !.s = s]]
         \/ caller' = [caller EXCEPT ![c] = [Ready EXCEPT !.pc = "resumeLock", !.op = "resume", !.s = s]]
    BY DEF PauseSession, ResumeSessionSandbox, StartControl
<1>2. s \in Sessions /\ {"pauseLock", "resumeLock"} \subseteq CallerPC /\ {"pause", "resume"} \subseteq Op
    BY DEF TypeOK, CallerPC, Op
<1>3. caller[c].pc = "ready"
    BY DEF PauseSession, ResumeSessionSandbox, StartControl, NewCall
<1>4. Called(c, "pauseLock", "pause", s, 0) \/ Called(c, "resumeLock", "resume", s, 0)
    BY <1>1, <1>2, <1>3, CalledWith
<1> QED BY <1>1, <1>4 DEF PauseSession, ResumeSessionSandbox, StartControl, NewCall

LEMMA TakeLockMove ==
    ASSUME TypeOK, NEW c \in Callers, PauseLock(c) \/ ResumeLock(c)
    PROVE  LET s == caller[c].s IN
           /\ UNCHANGED <<table, closing, wg, ent, health, external, calls, ticks>>
           /\ lock[s] = None /\ caller[c].pc \in {"pauseLock", "resumeLock"}
           /\ \/ /\ lock' = [lock EXCEPT ![s] = c]
                 /\ \/ /\ caller[c].pc = "pauseLock" /\ ent[s].state = "active"
                       /\ Went(c, "pauseCall")
                    \/ /\ caller[c].pc = "resumeLock" /\ ent[s].state = "paused"
                       /\ Went(c, "resumeCall")
              \/ Back(c) /\ UNCHANGED lock
BY WentIs, BackIs DEF PauseLock, ResumeLock, TakeLock, CallerPC

LEMMA PauseSandboxMove ==
    ASSUME TypeOK, OpInv, NEW c \in Callers, PauseSandbox(c)
    PROVE  LET s == caller[c].s
               lossy == ent[s].placement = "agent-direct" IN
           /\ caller[c].pc = "pauseCall" /\ Back(c) /\ lock' = [lock EXCEPT ![s] = None]
           /\ UNCHANGED <<table, closing, wg, health, shared, unsureProc, calls, ticks>>
           /\ \/ UNCHANGED <<sandbox, procs, unsure, ent>>
              \/ /\ sandbox' = [sandbox EXCEPT ![s] = "paused"]
                 /\ procs' = IF lossy THEN [procs EXCEPT ![s] = {}] ELSE procs
                 /\ unsure' = unsure \cup {s} /\ ent' = ent
              \/ /\ sandbox' = [sandbox EXCEPT ![s] = "paused"]
                 /\ procs' = IF lossy THEN [procs EXCEPT ![s] = {}] ELSE procs
                 /\ unsure' = unsure /\ Entered(s, "paused", ent[s].proc)
                 /\ ent'[s].placement = ent[s].placement
<1>1. caller[c].pc = "pauseCall" /\ caller[c].s \in Sessions /\ "paused" \in SessionState
    BY DEF PauseSandbox, OpInv, ClosePC, SessionState
<1> QED BY <1>1, BackIs, OutcomeIs, EnteredIs DEF PauseSandbox, Unlock

LEMMA ResumeSandboxMove ==
    ASSUME TypeOK, NEW c \in Callers, ResumeSandbox(c)
    PROVE  LET s == caller[c].s IN
           /\ caller[c].pc = "resumeCall"
           /\ UNCHANGED <<table, closing, wg, ent, health, procs, remote, shared, unsure, unsureProc,
                          calls, ticks>>
           /\ \/ /\ sandbox' = [sandbox EXCEPT ![s] = "running"] /\ UNCHANGED lock
                 /\ Went(c, IF ent[s].placement = "agent-direct" THEN "relaunch" ELSE "resumed")
              \/ /\ sandbox' = [sandbox EXCEPT ![s] = "running"] \/ UNCHANGED sandbox
                 /\ Back(c) /\ lock' = [lock EXCEPT ![s] = None]
BY WentIs, BackIs, OutcomeIs DEF ResumeSandbox, Unlock, CallerPC

LEMMA RelaunchMove ==
    ASSUME TypeOK, OpInv, NEW c \in Callers, Relaunch(c)
    PROVE  LET s == caller[c].s
               p == ent[s].proc + 1
               new == [procs EXCEPT ![s] = @ \cup {p}] IN
           /\ caller[c].pc = "relaunch" /\ p \in 1..MaxProcs
           /\ UNCHANGED <<table, closing, wg, ent, health, sandbox, remote, shared, unsure, calls, ticks>>
           /\ \/ /\ sandbox[s] = "running" => procs' = new
                 /\ procs' = new \/ procs' = procs
                 /\ unsureProc' = unsureProc /\ UNCHANGED lock
                 /\ Moved(c, "reconnect", caller[c].op, s, p, caller[c].todo)
              \/ /\ procs' = new \/ procs' = procs
                 /\ procs' = procs \/ unsureProc' = unsureProc \cup {s}
                 /\ unsureProc' = unsureProc \/ unsureProc' = unsureProc \cup {s}
                 /\ Back(c) /\ lock' = [lock EXCEPT ![s] = None]
<1> DEFINE s == caller[c].s
           p == ent[s].proc + 1
<1>1. caller[c].pc = "relaunch" /\ s \in Sessions
    BY DEF Relaunch, OpInv, ClosePC
<1>2. p \in 1..MaxProcs /\ p \in 0..MaxProcs
    BY <1>1, Bounds DEF Relaunch, TypeOK, SessionEntry
<1>3. PICK out \in Outcome :
        /\ LaunchCall(s, p, out)
        /\ IF out.ok
           THEN /\ caller' = [caller EXCEPT ![c].pc = "reconnect", ![c].proc = p]
                /\ UNCHANGED lock
           ELSE Unlock(s) /\ Return(c)
    BY DEF Relaunch
<1>4. out.ok => out.took
    BY OutcomeIs
<1>5. UNCHANGED <<table, closing, wg, ent, health, sandbox, remote, shared, unsure, calls, ticks>>
    BY DEF Relaunch
<1> HIDE DEF p
<1>6. CASE out.ok
  <2>1. Moved(c, "reconnect", caller[c].op, s, p, caller[c].todo)
    BY <1>2, <1>3, <1>6 DEF TypeOK, Moved, Caller, CallerPC
  <2> QED BY <1>1, <1>2, <1>3, <1>4, <1>5, <1>6, <2>1 DEF LaunchCall, p
<1>7. CASE ~out.ok
  <2>1. Back(c) /\ lock' = [lock EXCEPT ![s] = None]
    BY <1>3, <1>7, BackIs DEF Unlock
  <2> QED BY <1>1, <1>2, <1>3, <1>4, <1>5, <1>7, <2>1 DEF LaunchCall, p
<1> QED BY <1>6, <1>7

LEMMA ReconnectMove ==
    ASSUME TypeOK, NEW c \in Callers, Reconnect(c)
    PROVE  /\ caller[c].pc = "reconnect" /\ \E pc \in {"resumed", "resumeKill"} : Went(c, pc)
           /\ UNCHANGED <<table, closing, wg, ent, lock, health, external, calls, ticks>>
BY WentIs DEF Reconnect, CallerPC

LEMMA ResumeKillMove ==
    ASSUME TypeOK, NEW c \in Callers, ResumeKill(c)
    PROVE  LET s == caller[c].s IN
           /\ caller[c].pc = "resumeKill" /\ Back(c) /\ lock' = [lock EXCEPT ![s] = None]
           /\ UNCHANGED <<table, closing, wg, ent, health, sandbox, shared, unsure, calls, ticks>>
           /\ \/ /\ unsureProc' = unsureProc
                 /\ \/ procs' = [procs EXCEPT ![s] = @ \ {caller[c].proc}]
                    \/ procs' = procs /\ caller[c].proc \notin procs[s]
              \/ /\ unsureProc' = unsureProc \cup {s}
                 /\ \/ procs' = [procs EXCEPT ![s] = @ \ {caller[c].proc}]
                    \/ procs' = procs
BY BackIs, OutcomeIs DEF ResumeKill, KillCall, Unlock

LEMMA ResumedMove ==
    ASSUME TypeOK, OpInv, NEW c \in Callers, Resumed(c)
    PROVE  LET s == caller[c].s IN
           /\ caller[c].pc = "resumed" /\ Back(c) /\ lock' = [lock EXCEPT ![s] = None]
           /\ Entered(s, "active", IF caller[c].proc = 0 THEN ent[s].proc ELSE caller[c].proc)
           /\ ent'[s].placement = ent[s].placement
           /\ UNCHANGED <<table, closing, wg, health, external, calls, ticks>>
<1> DEFINE s == caller[c].s
           q == IF caller[c].proc = 0 THEN ent[s].proc ELSE caller[c].proc
<1>1. caller[c].pc = "resumed" /\ s \in Sessions
    BY DEF Resumed, OpInv, ClosePC
<1>2. q \in 0..MaxProcs /\ ent' = [ent EXCEPT ![s].state = "active", ![s].proc = q]
    BY <1>1 DEF Resumed, TypeOK, Caller, SessionEntry
<1> HIDE DEF q
<1>3. Entered(s, "active", q) /\ ent'[s].placement = ent[s].placement
    BY <1>1, <1>2 DEF TypeOK, Entered, SessionEntry, SessionState
<1> QED BY <1>1, <1>3, BackIs DEF Resumed, Unlock, q

-----------------------------------------------------------------------------
(* DestroySession and Close *)

LEMMA DestroySessionMove ==
    ASSUME TypeOK, NEW c \in Callers, DestroySession(c)
    PROVE  /\ ~closing /\ wg' = wg + 1
           /\ UNCHANGED <<table, closing, ent, lock, health, external, ticks>>
           /\ calls < MaxCalls /\ calls' = calls + 1
           /\ \E s \in table : Called(c, "lock", "destroy", s, 0)
<1>1. PICK s \in table :
         caller' = [caller EXCEPT ![c] = [Ready EXCEPT !.pc = "lock", !.op = "destroy", !.s = s]]
    BY DEF DestroySession
<1>2. s \in Sessions /\ "lock" \in CallerPC /\ "destroy" \in Op
    BY DEF TypeOK, CallerPC, Op
<1>3. caller[c].pc = "ready"
    BY DEF DestroySession, NewCall
<1>4. Called(c, "lock", "destroy", s, 0)
    BY <1>1, <1>2, <1>3, CalledWith
<1> QED BY <1>4 DEF DestroySession, NewCall, beginOperation

LEMMA DestroyLockMove ==
    ASSUME TypeOK, NEW c \in Callers, DestroyLock(c)
    PROVE  LET s == caller[c].s IN
           /\ caller[c].pc = "lock" /\ lock[s] = None /\ lock' = [lock EXCEPT ![s] = c]
           /\ Went(c, "destroyAgent")
           /\ UNCHANGED <<table, closing, wg, ent, health, external, calls, ticks>>
BY WentIs DEF DestroyLock, CallerPC

LEMMA DestroyAgentMove ==
    ASSUME TypeOK, NEW c \in Callers, DestroyAgent(c)
    PROVE  /\ caller[c].pc = "destroyAgent" /\ \E pc \in {"kill", "destroySandbox"} : Went(c, pc)
           /\ UNCHANGED <<table, closing, wg, ent, lock, health, sandbox, procs, shared, unsure,
                          unsureProc, calls, ticks>>
BY WentIs DEF DestroyAgent, CallerPC

LEMMA DestroyKillMove ==
    ASSUME TypeOK, NEW c \in Callers, DestroyKill(c)
    PROVE  LET s == caller[c].s IN
           /\ caller[c].pc = "kill" /\ Went(c, "destroySandbox")
           /\ UNCHANGED <<table, closing, wg, ent, lock, health, sandbox, shared, unsure, calls, ticks>>
           /\ procs' = procs \/ procs' = [procs EXCEPT ![s] = @ \ {ent[s].proc}]
           /\ unsureProc' = unsureProc \/ unsureProc' = unsureProc \cup {s}
BY WentIs DEF DestroyKill, KillCall, CallerPC

LEMMA DestroySandboxMove ==
    ASSUME TypeOK, NEW c \in Callers, DestroySandbox(c)
    PROVE  LET s == caller[c].s IN
           /\ caller[c].pc = "destroySandbox" /\ Went(c, "closeService")
           /\ UNCHANGED <<table, closing, wg, ent, lock, health, shared, unsureProc, calls, ticks>>
           /\ \/ /\ sandbox' = [sandbox EXCEPT ![s] = "gone"] /\ procs' = [procs EXCEPT ![s] = {}]
                 /\ unsure' = unsure
              \/ /\ sandbox' = [sandbox EXCEPT ![s] = "gone"] /\ procs' = [procs EXCEPT ![s] = {}]
                 /\ unsure' = unsure \cup {s}
              \/ sandbox' = sandbox /\ procs' = procs /\ unsure' = unsure \cup {s}
BY WentIs, OutcomeIs DEF DestroySandbox, DestroyCall, Gone, CallerPC

LEMMA DestroyEndsMove ==
    ASSUME TypeOK, OpInv, NEW c \in Callers, DestroyEnds(c)
    PROVE  LET s == caller[c].s IN
           /\ caller[c].pc = "closeService" /\ lock' = [lock EXCEPT ![s] = None]
           /\ Entered(s, "destroyed", ent[s].proc) /\ table' = table \ {s}
           /\ ent'[s].placement = ent[s].placement
           /\ UNCHANGED <<closing, health, sandbox, procs, unsure, unsureProc, calls, ticks>>
           /\ \/ caller[c].op = "close" /\ Went(c, "closeNext") /\ wg' = wg
              \/ caller[c].op # "close" /\ Back(c) /\ wg' = wg - 1
<1>1. caller[c].pc = "closeService" /\ caller[c].s \in Sessions /\ "destroyed" \in SessionState
    BY DEF DestroyEnds, OpInv, ClosePC, SessionState
<1>2. /\ Entered(caller[c].s, "destroyed", ent[caller[c].s].proc)
      /\ ent'[caller[c].s].placement = ent[caller[c].s].placement
    BY <1>1, EnteredIs DEF DestroyEnds
<1> QED BY <1>1, <1>2, WentIs, BackIs DEF DestroyEnds, Unlock, ReturnEnds, CallerPC

LEMMA CloseMove ==
    ASSUME TypeOK, NEW c \in Callers, Close(c)
    PROVE  /\ ~closing /\ closing' /\ closing' \in BOOLEAN
           /\ Called(c, "waitHealth", "close", None, 0)
           /\ UNCHANGED <<table, wg, ent, lock, health, external, ticks>>
           /\ calls < MaxCalls /\ calls' = calls + 1
<1>1. caller' = [caller EXCEPT ![c] = [Ready EXCEPT !.pc = "waitHealth", !.op = "close"]]
    BY DEF Close
<1>2. caller[c].pc = "ready"
    BY DEF Close, NewCall
<1>3. Called(c, "waitHealth", "close", None, 0)
    BY <1>1, <1>2, ReadyIs DEF TypeOK, Called, Moved, Caller, CallerPC, Op
<1>4. closing' /\ closing' \in BOOLEAN
    BY DEF Close
<1> QED BY <1>3, <1>4 DEF Close, NewCall

LEMMA CloseWaitMove ==
    ASSUME TypeOK, NEW c \in Callers, CloseWaitHealth(c) \/ CloseWaitOps(c)
    PROVE  /\ UNCHANGED <<table, closing, wg, ent, lock, health, external, calls, ticks>>
           /\ \/ caller[c].pc = "waitHealth" /\ Went(c, "waitOps")
              \/ /\ caller[c].pc = "waitOps" /\ wg = 0
                 /\ Moved(c, "closeNext", caller[c].op, caller[c].s, caller[c].proc, table)
<1>1. CASE CloseWaitHealth(c)
    BY <1>1, WentIs DEF CloseWaitHealth, CallerPC
<1>2. CASE CloseWaitOps(c)
    BY <1>2 DEF CloseWaitOps, TypeOK, Moved, Caller, CallerPC
<1> QED BY <1>1, <1>2

LEMMA CloseNextMove ==
    ASSUME TypeOK, NEW c \in Callers, CloseNext(c)
    PROVE  /\ UNCHANGED <<table, closing, wg, ent, lock, health, external, calls, ticks>>
           /\ caller[c].pc = "closeNext"
           /\ \/ caller[c].todo = {} /\ Went(c, "closeShared")
              \/ \E s \in caller[c].todo :
                   /\ s \in Sessions
                   /\ Moved(c, "lock", caller[c].op, s, caller[c].proc, caller[c].todo \ {s})
<1>1. caller[c].pc = "closeNext" /\ UNCHANGED <<table, closing, wg, ent, lock, health, external, calls, ticks>>
    BY DEF CloseNext
<1>2. CASE caller[c].todo = {}
    BY <1>1, <1>2, WentIs DEF CloseNext, CallerPC
<1>3. CASE caller[c].todo # {}
  <2>1. PICK s \in caller[c].todo :
           caller' = [caller EXCEPT ![c].pc = "lock", ![c].s = s, ![c].todo = @ \ {s}]
    BY <1>3 DEF CloseNext
  <2>2. s \in Sessions
    BY DEF TypeOK, Caller
  <2>3. Moved(c, "lock", caller[c].op, s, caller[c].proc, caller[c].todo \ {s})
    BY <2>1, <2>2 DEF TypeOK, Moved, Caller, CallerPC
  <2> QED BY <1>1, <2>2, <2>3
<1> QED BY <1>2, <1>3

LEMMA CloseSharedMove ==
    ASSUME TypeOK, NEW c \in Callers, CloseShared(c)
    PROVE  /\ caller[c].pc = "closeShared" /\ Back(c)
           /\ UNCHANGED <<table, closing, wg, ent, lock, health, sandbox, procs, unsure, unsureProc,
                          calls, ticks>>
BY BackIs DEF CloseShared

LEMMA HealthMove ==
    ASSUME TypeOK, HealthTick \/ HealthLook
    PROVE  /\ UNCHANGED <<table, closing, wg, ent, lock, caller, external, calls>>
           /\ ticks' \in 0..MaxTicks /\ health' \in Health
           /\ \A s \in health'.todo : s \in table \/ s \in health.todo
           /\ health'.pc = "probe" => health'.s \in health.todo
<1>1. HealthIdle \in Health /\ HealthIdle.pc = "wait" /\ HealthIdle.todo = {}
    BY DEF HealthIdle, Health
<1>2. CASE HealthTick
  <2>1. /\ UNCHANGED <<table, closing, wg, ent, lock, caller, external, calls>>
        /\ \/ ticks' = ticks + 1 /\ ticks < MaxTicks /\ health' = [health EXCEPT !.pc = "each", !.todo = table]
           \/ ticks' = ticks /\ health' = [health EXCEPT !.pc = "stopped"]
    BY <1>2 DEF HealthTick
  <2>2. ticks' \in 0..MaxTicks
    BY <2>1, Bounds DEF TypeOK
  <2>3. /\ health' \in Health /\ health'.pc \in {"each", "stopped"}
        /\ health'.todo = table \/ health'.todo = health.todo
    BY <2>1 DEF TypeOK, Health
  <2> QED BY <2>1, <2>2, <2>3
<1>3. CASE HealthLook
  <2>1. CASE health' = HealthIdle
    BY <1>1, <1>3, <2>1 DEF HealthLook, TypeOK
  <2>2. ASSUME NEW s \in health.todo, NEW pc \in {"each", "probe"}, NEW t \in {None, s},
               pc = "probe" => t = s,
               health' = [health EXCEPT !.pc = pc, !.s = t, !.todo = @ \ {s}]
        PROVE  /\ health' \in Health
               /\ \A q \in health'.todo : q \in health.todo
               /\ health'.pc = "probe" => health'.s \in health.todo
    BY <2>2 DEF TypeOK, Health
  <2>3. \/ health' = HealthIdle
        \/ \E s \in health.todo : \E pc \in {"each", "probe"}, t \in {None, s} :
             /\ pc = "probe" => t = s
             /\ health' = [health EXCEPT !.pc = pc, !.s = t, !.todo = @ \ {s}]
    BY <1>3 DEF HealthLook
  <2> QED BY <1>3, <2>1, <2>2, <2>3 DEF HealthLook, TypeOK
<1> QED BY <1>2, <1>3

LEMMA HealthApplyMove ==
    ASSUME TypeOK, TableInv, HealthApply
    PROVE  LET s == health.s IN
           /\ UNCHANGED <<table, closing, wg, lock, caller, external, calls, ticks>>
           /\ health.pc = "probe" /\ lock[s] = None /\ s \in Sessions
           /\ health' \in Health /\ health'.pc = "each" /\ health'.todo = health.todo
           /\ \/ UNCHANGED ent
              \/ /\ ent[s].state \in {"active", "unhealthy"}
                 /\ \E state \in {"active", "unhealthy"} : Entered(s, state, ent[s].proc)
                 /\ ent'[s].placement = ent[s].placement
<1>1. health.pc = "probe" /\ lock[health.s] = None /\ Known(health.s)
    BY DEF HealthApply, TableInv
<1>2. health' \in Health /\ health'.pc = "each" /\ health'.todo = health.todo
    BY DEF HealthApply, TypeOK, Health
<1>3. CASE Skipped(health.s)
    BY <1>1, <1>2, <1>3 DEF HealthApply, Known
<1>4. CASE ~Skipped(health.s)
  <2>1. \E state \in {"active", "unhealthy"} : ent' = [ent EXCEPT ![health.s].state = state]
    BY <1>4 DEF HealthApply, HealthVerdict
  <2>2. {"active", "unhealthy"} \subseteq SessionState
    BY DEF SessionState
  <2>3. /\ \E state \in {"active", "unhealthy"} : Entered(health.s, state, ent[health.s].proc)
        /\ ent'[health.s].placement = ent[health.s].placement
    BY <1>1, <2>1, <2>2, EnteredIs DEF Known
  <2> QED BY <1>1, <1>2, <1>4, <2>3 DEF HealthApply, Skipped, Known
<1> QED BY <1>3, <1>4

-----------------------------------------------------------------------------
(* Steps keep the invariant *)

\* Where a call is fits what it does.
LEMMA OpStep ==
    ASSUME TypeOK, OpInv, Next
    PROVE  OpInv'
<1>1. ASSUME NEW c \in Callers, CreateSession(c)
      PROVE  OpInv'
    BY <1>1, CreateSessionMove DEF Called, Moved, OpInv, CreatePC, ResumedPC, ClosePC
<1>2. ASSUME NEW c \in Callers, CreateSandbox(c)
      PROVE  OpInv'
    BY <1>2, CreateSandboxMove DEF Went, Back, Moved, OpInv, CreatePC, ResumedPC,
       ClosePC
<1>3. ASSUME NEW c \in Callers, LaunchProcess(c)
      PROVE  OpInv'
    BY <1>3, LaunchProcessMove DEF Moved, OpInv, CreatePC, ResumedPC, ClosePC
<1>4. ASSUME NEW c \in Callers, AgentServiceFactory(c)
      PROVE  OpInv'
    BY <1>4, AgentServiceFactoryMove DEF Went, Moved, OpInv, CreatePC, ResumedPC,
       ClosePC
<1>5. ASSUME NEW c \in Callers, BackendCreateSession(c) \/ createToolsSandboxSession(c)
      PROVE  OpInv'
    BY <1>5, BackendCreateSessionMove DEF Went, Moved, OpInv, CreatePC, ResumedPC,
       ClosePC
<1>6. ASSUME NEW c \in Callers, AddSession(c)
      PROVE  OpInv'
    BY <1>6, AddSessionMove DEF Went, Back, Moved, OpInv, CreatePC, ResumedPC, ClosePC
<1>7. ASSUME NEW c \in Callers, UndoSession(c)
      PROVE  OpInv'
    BY <1>7, UndoSessionMove DEF Went, Moved, OpInv, CreatePC, ResumedPC, ClosePC
<1>8. ASSUME NEW c \in Callers, UndoKill(c)
      PROVE  OpInv'
    BY <1>8, UndoKillMove DEF Went, Moved, OpInv, CreatePC, ResumedPC, ClosePC
<1>9. ASSUME NEW c \in Callers, UndoSandbox(c)
      PROVE  OpInv'
    BY <1>9, UndoSandboxMove DEF Back, Moved, OpInv, CreatePC, ResumedPC, ClosePC
<1>10. ASSUME NEW c \in Callers, SnapshotProxyTarget(c)
      PROVE  OpInv'
    BY <1>10, SnapshotMove DEF Called, Moved, OpInv, CreatePC, ResumedPC, ClosePC,
       TypeOK
<1>11. ASSUME NEW c \in Callers, Forward(c)
      PROVE  OpInv'
    BY <1>11, ForwardMove DEF Back, Moved, OpInv, CreatePC, ResumedPC, ClosePC
<1>12. ASSUME NEW c \in Callers, PauseSession(c) \/ ResumeSessionSandbox(c)
      PROVE  OpInv'
    BY <1>12, ControlMove DEF Called, Moved, OpInv, CreatePC, ResumedPC, ClosePC, TypeOK
<1>13. ASSUME NEW c \in Callers, PauseLock(c) \/ ResumeLock(c)
      PROVE  OpInv'
    BY <1>13, TakeLockMove DEF Went, Back, Moved, OpInv, CreatePC, ResumedPC, ClosePC
<1>14. ASSUME NEW c \in Callers, PauseSandbox(c)
      PROVE  OpInv'
    BY <1>14, PauseSandboxMove DEF Back, Moved, OpInv, CreatePC, ResumedPC, ClosePC
<1>15. ASSUME NEW c \in Callers, ResumeSandbox(c)
      PROVE  OpInv'
    BY <1>15, ResumeSandboxMove DEF Went, Back, Moved, OpInv, CreatePC, ResumedPC,
       ClosePC
<1>16. ASSUME NEW c \in Callers, Relaunch(c)
      PROVE  OpInv'
    BY <1>16, RelaunchMove DEF Back, Moved, OpInv, CreatePC, ResumedPC, ClosePC
<1>17. ASSUME NEW c \in Callers, Reconnect(c)
      PROVE  OpInv'
    BY <1>17, ReconnectMove DEF Went, Moved, OpInv, CreatePC, ResumedPC, ClosePC
<1>18. ASSUME NEW c \in Callers, ResumeKill(c)
      PROVE  OpInv'
    BY <1>18, ResumeKillMove DEF Back, Moved, OpInv, CreatePC, ResumedPC, ClosePC
<1>19. ASSUME NEW c \in Callers, Resumed(c)
      PROVE  OpInv'
    BY <1>19, ResumedMove DEF Back, Moved, OpInv, CreatePC, ResumedPC, ClosePC
<1>20. ASSUME NEW c \in Callers, DestroySession(c)
      PROVE  OpInv'
    BY <1>20, DestroySessionMove DEF Called, Moved, OpInv, CreatePC, ResumedPC, ClosePC,
       TypeOK
<1>21. ASSUME NEW c \in Callers, DestroyLock(c)
      PROVE  OpInv'
    BY <1>21, DestroyLockMove DEF Went, Moved, OpInv, CreatePC, ResumedPC, ClosePC
<1>22. ASSUME NEW c \in Callers, DestroyAgent(c)
      PROVE  OpInv'
    BY <1>22, DestroyAgentMove DEF Went, Moved, OpInv, CreatePC, ResumedPC, ClosePC
<1>23. ASSUME NEW c \in Callers, DestroyKill(c)
      PROVE  OpInv'
    BY <1>23, DestroyKillMove DEF Went, Moved, OpInv, CreatePC, ResumedPC, ClosePC
<1>24. ASSUME NEW c \in Callers, DestroySandbox(c)
      PROVE  OpInv'
    BY <1>24, DestroySandboxMove DEF Went, Moved, OpInv, CreatePC, ResumedPC, ClosePC
<1>25. ASSUME NEW c \in Callers, DestroyEnds(c)
      PROVE  OpInv'
    BY <1>25, DestroyEndsMove DEF Went, Back, Moved, OpInv, CreatePC, ResumedPC, ClosePC
<1>26. ASSUME NEW c \in Callers, Close(c)
      PROVE  OpInv'
    BY <1>26, CloseMove DEF Called, Moved, OpInv, CreatePC, ResumedPC, ClosePC
<1>27. ASSUME NEW c \in Callers, CloseWaitHealth(c) \/ CloseWaitOps(c)
      PROVE  OpInv'
    BY <1>27, CloseWaitMove DEF Went, Moved, OpInv, CreatePC, ResumedPC, ClosePC
<1>28. ASSUME NEW c \in Callers, CloseNext(c)
      PROVE  OpInv'
    BY <1>28, CloseNextMove DEF Went, Moved, OpInv, CreatePC, ResumedPC, ClosePC
<1>29. ASSUME NEW c \in Callers, CloseShared(c)
      PROVE  OpInv'
    BY <1>29, CloseSharedMove DEF Back, Moved, OpInv, CreatePC, ResumedPC, ClosePC
<1>30. CASE HealthTick \/ HealthLook
    BY <1>30, HealthMove DEF OpInv, CreatePC, ResumedPC, ClosePC
<1>31. CASE HealthApply
    BY <1>31 DEF HealthApply, OpInv
<1> QED BY <1>1, <1>2, <1>3, <1>4, <1>5, <1>6, <1>7, <1>8, <1>9, <1>10, <1>11, <1>12, <1>13, <1>14,
       <1>15, <1>16, <1>17, <1>18, <1>19, <1>20, <1>21, <1>22, <1>23, <1>24, <1>25,
       <1>26, <1>27, <1>28, <1>29, <1>30, <1>31
       DEF Next, CallerCalls, CallerStep, HealthStep

\* The lock goes with the place.
LEMMA LockStep ==
    ASSUME TypeOK, OpInv, LockInv, Next
    PROVE  LockInv'
<1>1. ASSUME NEW c \in Callers, CreateSession(c)
      PROVE  LockInv'
    BY <1>1, CreateSessionMove DEF Called, Moved, LockInv, ResumedPC, HeldPC
<1>2. ASSUME NEW c \in Callers, CreateSandbox(c)
      PROVE  LockInv'
    BY <1>2, CreateSandboxMove DEF Went, Back, Moved, LockInv, ResumedPC, HeldPC
<1>3. ASSUME NEW c \in Callers, LaunchProcess(c)
      PROVE  LockInv'
    BY <1>3, LaunchProcessMove DEF Moved, LockInv, ResumedPC, HeldPC
<1>4. ASSUME NEW c \in Callers, AgentServiceFactory(c)
      PROVE  LockInv'
    BY <1>4, AgentServiceFactoryMove DEF Went, Moved, LockInv, ResumedPC, HeldPC
<1>5. ASSUME NEW c \in Callers, BackendCreateSession(c) \/ createToolsSandboxSession(c)
      PROVE  LockInv'
    BY <1>5, BackendCreateSessionMove DEF Went, Moved, LockInv, ResumedPC, HeldPC
<1>6. ASSUME NEW c \in Callers, AddSession(c)
      PROVE  LockInv'
    BY <1>6, AddSessionMove DEF Went, Back, Moved, LockInv, ResumedPC, HeldPC
<1>7. ASSUME NEW c \in Callers, UndoSession(c)
      PROVE  LockInv'
    BY <1>7, UndoSessionMove DEF Went, Moved, LockInv, ResumedPC, HeldPC
<1>8. ASSUME NEW c \in Callers, UndoKill(c)
      PROVE  LockInv'
    BY <1>8, UndoKillMove DEF Went, Moved, LockInv, ResumedPC, HeldPC
<1>9. ASSUME NEW c \in Callers, UndoSandbox(c)
      PROVE  LockInv'
    BY <1>9, UndoSandboxMove DEF Back, Moved, LockInv, ResumedPC, HeldPC
<1>10. ASSUME NEW c \in Callers, SnapshotProxyTarget(c)
      PROVE  LockInv'
    BY <1>10, SnapshotMove DEF Called, Moved, LockInv, ResumedPC, HeldPC
<1>11. ASSUME NEW c \in Callers, Forward(c)
      PROVE  LockInv'
    BY <1>11, ForwardMove DEF Back, Moved, LockInv, ResumedPC, HeldPC
<1>12. ASSUME NEW c \in Callers, PauseSession(c) \/ ResumeSessionSandbox(c)
      PROVE  LockInv'
    BY <1>12, ControlMove DEF Called, Moved, LockInv, ResumedPC, HeldPC
<1>13. ASSUME NEW c \in Callers, PauseLock(c) \/ ResumeLock(c)
      PROVE  LockInv'
    BY <1>13, TakeLockMove, Bounds DEF Went, Back, Moved, LockInv, ResumedPC, HeldPC,
       OpInv, TypeOK, ClosePC, CreatePC
<1>14. ASSUME NEW c \in Callers, PauseSandbox(c)
      PROVE  LockInv'
    BY <1>14, PauseSandboxMove, Bounds DEF Back, Moved, LockInv, ResumedPC, HeldPC,
       OpInv, TypeOK, ClosePC, CreatePC
<1>15. ASSUME NEW c \in Callers, ResumeSandbox(c)
      PROVE  LockInv'
    BY <1>15, ResumeSandboxMove, Bounds DEF Went, Back, Moved, LockInv, ResumedPC,
       HeldPC, OpInv, TypeOK, ClosePC, CreatePC
<1>16. ASSUME NEW c \in Callers, Relaunch(c)
      PROVE  LockInv'
    BY <1>16, RelaunchMove, Bounds DEF Back, Moved, LockInv, ResumedPC, HeldPC, OpInv,
       TypeOK, ClosePC, CreatePC
<1>17. ASSUME NEW c \in Callers, Reconnect(c)
      PROVE  LockInv'
    BY <1>17, ReconnectMove DEF Went, Moved, LockInv, ResumedPC, HeldPC
<1>18. ASSUME NEW c \in Callers, ResumeKill(c)
      PROVE  LockInv'
    BY <1>18, ResumeKillMove, Bounds DEF Back, Moved, LockInv, ResumedPC, HeldPC, OpInv,
       TypeOK, ClosePC, CreatePC
<1>19. ASSUME NEW c \in Callers, Resumed(c)
      PROVE  LockInv'
    BY <1>19, ResumedMove, Bounds DEF Back, Moved, LockInv, ResumedPC, HeldPC, OpInv,
       TypeOK, ClosePC, CreatePC
<1>20. ASSUME NEW c \in Callers, DestroySession(c)
      PROVE  LockInv'
    BY <1>20, DestroySessionMove DEF Called, Moved, LockInv, ResumedPC, HeldPC
<1>21. ASSUME NEW c \in Callers, DestroyLock(c)
      PROVE  LockInv'
    BY <1>21, DestroyLockMove, Bounds DEF Went, Moved, LockInv, ResumedPC, HeldPC,
       OpInv, TypeOK, ClosePC, CreatePC
<1>22. ASSUME NEW c \in Callers, DestroyAgent(c)
      PROVE  LockInv'
    BY <1>22, DestroyAgentMove DEF Went, Moved, LockInv, ResumedPC, HeldPC
<1>23. ASSUME NEW c \in Callers, DestroyKill(c)
      PROVE  LockInv'
    BY <1>23, DestroyKillMove DEF Went, Moved, LockInv, ResumedPC, HeldPC
<1>24. ASSUME NEW c \in Callers, DestroySandbox(c)
      PROVE  LockInv'
    BY <1>24, DestroySandboxMove DEF Went, Moved, LockInv, ResumedPC, HeldPC
<1>25. ASSUME NEW c \in Callers, DestroyEnds(c)
      PROVE  LockInv'
    BY <1>25, DestroyEndsMove, Bounds DEF Went, Back, Moved, LockInv, ResumedPC, HeldPC,
       OpInv, TypeOK, ClosePC, CreatePC
<1>26. ASSUME NEW c \in Callers, Close(c)
      PROVE  LockInv'
    BY <1>26, CloseMove DEF Called, Moved, LockInv, ResumedPC, HeldPC
<1>27. ASSUME NEW c \in Callers, CloseWaitHealth(c) \/ CloseWaitOps(c)
      PROVE  LockInv'
    BY <1>27, CloseWaitMove DEF Went, Moved, LockInv, ResumedPC, HeldPC
<1>28. ASSUME NEW c \in Callers, CloseNext(c)
      PROVE  LockInv'
    BY <1>28, CloseNextMove DEF Went, Moved, LockInv, ResumedPC, HeldPC
<1>29. ASSUME NEW c \in Callers, CloseShared(c)
      PROVE  LockInv'
    BY <1>29, CloseSharedMove DEF Back, Moved, LockInv, ResumedPC, HeldPC
<1>30. CASE HealthTick \/ HealthLook
    BY <1>30, HealthMove DEF LockInv, ResumedPC, HeldPC
<1>31. CASE HealthApply
    BY <1>31 DEF HealthApply, LockInv
<1> QED BY <1>1, <1>2, <1>3, <1>4, <1>5, <1>6, <1>7, <1>8, <1>9, <1>10, <1>11, <1>12, <1>13, <1>14,
       <1>15, <1>16, <1>17, <1>18, <1>19, <1>20, <1>21, <1>22, <1>23, <1>24, <1>25,
       <1>26, <1>27, <1>28, <1>29, <1>30, <1>31
       DEF Next, CallerCalls, CallerStep, HealthStep

Counted(op) == IF op \in {"create", "resumeSession", "destroy"} THEN 1 ELSE 0

\* The WaitGroup follows the one call that moves.
LEMMA WgMove ==
    ASSUME TypeOK, WgInv, NEW c \in Callers, \A d \in Callers : d # c => caller'[d] = caller[d],
           wg' = wg + Counted(caller'[c].op) - Counted(caller[c].op)
    PROVE  WgInv' /\ wg' \in Nat
<1>1. IsFiniteSet(InOps) /\ IsFiniteSet(InOps')
  <2>1. InOps \subseteq Callers /\ InOps' \subseteq Callers
    BY DEF InOps
  <2> QED BY <2>1, OrchestratorAssumption, FS_Subset
<1>2. Cardinality(InOps) \in Nat /\ Cardinality(InOps') \in Nat
    BY <1>1, FS_CardinalityType
<1>3. CASE Counted(caller'[c].op) = Counted(caller[c].op)
  <2>1. InOps' = InOps
    BY <1>3 DEF InOps, Counted
  <2>2. Cardinality(InOps') = Cardinality(InOps)
    BY <2>1
  <2> QED BY <1>2, <1>3, <2>2 DEF WgInv, Counted, TypeOK
<1>4. CASE Counted(caller'[c].op) = 1 /\ Counted(caller[c].op) = 0
  <2>1. InOps' = InOps \cup {c} /\ c \notin InOps
    BY <1>4 DEF InOps, Counted
  <2>2. Cardinality(InOps \cup {c}) = Cardinality(InOps) + 1
    BY <1>1, <2>1, FS_AddElement
  <2>3. Cardinality(InOps') = Cardinality(InOps \cup {c})
    BY <2>1
  <2> QED BY <1>2, <1>4, <2>2, <2>3 DEF WgInv, TypeOK
<1>5. CASE Counted(caller'[c].op) = 0 /\ Counted(caller[c].op) = 1
  <2>1. InOps' = InOps \ {c} /\ c \in InOps
    BY <1>5 DEF InOps, Counted
  <2>2. Cardinality(InOps \ {c}) = Cardinality(InOps) - 1
    BY <1>1, <2>1, FS_RemoveElement
  <2>3. Cardinality(InOps') = Cardinality(InOps \ {c})
    BY <2>1
  <2> QED BY <1>2, <1>5, <2>2, <2>3 DEF WgInv, TypeOK
<1> QED BY <1>3, <1>4, <1>5 DEF Counted

\* beginOperation and endOperation are counted.
LEMMA WgStep ==
    ASSUME TypeOK, OpInv, WgInv, Next
    PROVE  WgInv' /\ wg' \in Nat
<1>1. ASSUME NEW c \in Callers, CreateSession(c)
      PROVE  WgInv' /\ wg' \in Nat
    BY <1>1, CreateSessionMove, WgMove DEF Called, Moved, Counted, OpInv
<1>2. ASSUME NEW c \in Callers, CreateSandbox(c)
      PROVE  WgInv' /\ wg' \in Nat
    BY <1>2, CreateSandboxMove, WgMove DEF Went, Back, Moved, Counted, OpInv, TypeOK,
       ClosePC, CreatePC, ResumedPC
<1>3. ASSUME NEW c \in Callers, LaunchProcess(c)
      PROVE  WgInv' /\ wg' \in Nat
    BY <1>3, LaunchProcessMove, WgMove DEF Moved, Counted, OpInv, TypeOK, ClosePC,
       CreatePC, ResumedPC
<1>4. ASSUME NEW c \in Callers, AgentServiceFactory(c)
      PROVE  WgInv' /\ wg' \in Nat
    BY <1>4, AgentServiceFactoryMove, WgMove DEF Went, Moved, Counted, OpInv, TypeOK,
       ClosePC, CreatePC, ResumedPC
<1>5. ASSUME NEW c \in Callers, BackendCreateSession(c) \/ createToolsSandboxSession(c)
      PROVE  WgInv' /\ wg' \in Nat
    BY <1>5, BackendCreateSessionMove, WgMove DEF Went, Moved, Counted, OpInv, TypeOK,
       ClosePC, CreatePC, ResumedPC
<1>6. ASSUME NEW c \in Callers, AddSession(c)
      PROVE  WgInv' /\ wg' \in Nat
    BY <1>6, AddSessionMove, WgMove DEF Went, Back, Moved, Counted, OpInv, TypeOK,
       ClosePC, CreatePC, ResumedPC
<1>7. ASSUME NEW c \in Callers, UndoSession(c)
      PROVE  WgInv' /\ wg' \in Nat
    BY <1>7, UndoSessionMove, WgMove DEF Went, Moved, Counted, OpInv, TypeOK, ClosePC,
       CreatePC, ResumedPC
<1>8. ASSUME NEW c \in Callers, UndoKill(c)
      PROVE  WgInv' /\ wg' \in Nat
    BY <1>8, UndoKillMove, WgMove DEF Went, Moved, Counted, OpInv, TypeOK, ClosePC,
       CreatePC, ResumedPC
<1>9. ASSUME NEW c \in Callers, UndoSandbox(c)
      PROVE  WgInv' /\ wg' \in Nat
    BY <1>9, UndoSandboxMove, WgMove DEF Back, Moved, Counted, OpInv, TypeOK, ClosePC,
       CreatePC, ResumedPC
<1>10. ASSUME NEW c \in Callers, SnapshotProxyTarget(c)
      PROVE  WgInv' /\ wg' \in Nat
    BY <1>10, SnapshotMove, WgMove DEF Called, Moved, Counted, OpInv, TypeOK, ClosePC,
       CreatePC, ResumedPC
<1>11. ASSUME NEW c \in Callers, Forward(c)
      PROVE  WgInv' /\ wg' \in Nat
    BY <1>11, ForwardMove, WgMove DEF Back, Moved, Counted, OpInv, TypeOK, ClosePC,
       CreatePC, ResumedPC
<1>12. ASSUME NEW c \in Callers, PauseSession(c) \/ ResumeSessionSandbox(c)
      PROVE  WgInv' /\ wg' \in Nat
    BY <1>12, ControlMove, WgMove, SMTT(20) DEF Called, Moved, Counted, OpInv, TypeOK,
       ClosePC, CreatePC, ResumedPC
<1>13. ASSUME NEW c \in Callers, PauseLock(c) \/ ResumeLock(c)
      PROVE  WgInv' /\ wg' \in Nat
    BY <1>13, TakeLockMove, WgMove DEF Went, Back, Moved, Counted, OpInv, TypeOK,
       ClosePC, CreatePC, ResumedPC
<1>14. ASSUME NEW c \in Callers, PauseSandbox(c)
      PROVE  WgInv' /\ wg' \in Nat
  <2>1. caller[c].op = "pause" /\ caller'[c].op = "none" /\ wg' = wg
    BY <1>14, PauseSandboxMove DEF Back, Moved, OpInv
  <2>2. \A d \in Callers : d # c => caller'[d] = caller[d]
    BY <1>14, PauseSandboxMove DEF Back, Moved
  <2> QED BY <2>1, <2>2, WgMove DEF Counted, TypeOK
<1>15. ASSUME NEW c \in Callers, ResumeSandbox(c)
      PROVE  WgInv' /\ wg' \in Nat
    BY <1>15, ResumeSandboxMove, WgMove DEF Went, Back, Moved, Counted, OpInv, TypeOK,
       ClosePC, CreatePC, ResumedPC
<1>16. ASSUME NEW c \in Callers, Relaunch(c)
      PROVE  WgInv' /\ wg' \in Nat
    BY <1>16, RelaunchMove, WgMove DEF Back, Moved, Counted, OpInv, TypeOK, ClosePC,
       CreatePC, ResumedPC
<1>17. ASSUME NEW c \in Callers, Reconnect(c)
      PROVE  WgInv' /\ wg' \in Nat
    BY <1>17, ReconnectMove, WgMove, SMTT(20) DEF Went, Moved, Counted, OpInv, TypeOK,
       ClosePC, CreatePC, ResumedPC
<1>18. ASSUME NEW c \in Callers, ResumeKill(c)
      PROVE  WgInv' /\ wg' \in Nat
    BY <1>18, ResumeKillMove, WgMove DEF Back, Moved, Counted, OpInv, TypeOK, ClosePC,
       CreatePC, ResumedPC
<1>19. ASSUME NEW c \in Callers, Resumed(c)
      PROVE  WgInv' /\ wg' \in Nat
    BY <1>19, ResumedMove, WgMove DEF Back, Moved, Counted, OpInv, TypeOK, ClosePC,
       CreatePC, ResumedPC
<1>20. ASSUME NEW c \in Callers, DestroySession(c)
      PROVE  WgInv' /\ wg' \in Nat
    BY <1>20, DestroySessionMove, WgMove DEF Called, Moved, Counted, OpInv
<1>21. ASSUME NEW c \in Callers, DestroyLock(c)
      PROVE  WgInv' /\ wg' \in Nat
    BY <1>21, DestroyLockMove, WgMove DEF Went, Moved, Counted, OpInv, TypeOK, ClosePC,
       CreatePC, ResumedPC
<1>22. ASSUME NEW c \in Callers, DestroyAgent(c)
      PROVE  WgInv' /\ wg' \in Nat
    BY <1>22, DestroyAgentMove, WgMove DEF Went, Moved, Counted, OpInv, TypeOK, ClosePC,
       CreatePC, ResumedPC
<1>23. ASSUME NEW c \in Callers, DestroyKill(c)
      PROVE  WgInv' /\ wg' \in Nat
    BY <1>23, DestroyKillMove, WgMove DEF Went, Moved, Counted, OpInv, TypeOK, ClosePC,
       CreatePC, ResumedPC
<1>24. ASSUME NEW c \in Callers, DestroySandbox(c)
      PROVE  WgInv' /\ wg' \in Nat
    BY <1>24, DestroySandboxMove, WgMove DEF Went, Moved, Counted, OpInv, TypeOK,
       ClosePC, CreatePC, ResumedPC
<1>25. ASSUME NEW c \in Callers, DestroyEnds(c)
      PROVE  WgInv' /\ wg' \in Nat
    BY <1>25, DestroyEndsMove, WgMove, SMTT(20) DEF Went, Back, Moved, Counted, OpInv,
       TypeOK, ClosePC, CreatePC, ResumedPC, Caller, Op
<1>26. ASSUME NEW c \in Callers, Close(c)
      PROVE  WgInv' /\ wg' \in Nat
    BY <1>26, CloseMove, WgMove DEF Called, Moved, Counted, OpInv, TypeOK, ClosePC,
       CreatePC, ResumedPC
<1>27. ASSUME NEW c \in Callers, CloseWaitHealth(c) \/ CloseWaitOps(c)
      PROVE  WgInv' /\ wg' \in Nat
    BY <1>27, CloseWaitMove, WgMove DEF Went, Moved, Counted, OpInv, TypeOK, ClosePC,
       CreatePC, ResumedPC
<1>28. ASSUME NEW c \in Callers, CloseNext(c)
      PROVE  WgInv' /\ wg' \in Nat
    BY <1>28, CloseNextMove, WgMove DEF Went, Moved, Counted, OpInv, TypeOK, ClosePC,
       CreatePC, ResumedPC
<1>29. ASSUME NEW c \in Callers, CloseShared(c)
      PROVE  WgInv' /\ wg' \in Nat
    BY <1>29, CloseSharedMove, WgMove DEF Back, Moved, Counted, OpInv, TypeOK, ClosePC,
       CreatePC, ResumedPC
<1>30. CASE HealthTick \/ HealthLook
    BY <1>30, HealthMove DEF WgInv, InOps, TypeOK
<1>31. CASE HealthApply
    BY <1>31 DEF HealthApply, WgInv, InOps, TypeOK
<1> QED BY <1>1, <1>2, <1>3, <1>4, <1>5, <1>6, <1>7, <1>8, <1>9, <1>10, <1>11, <1>12, <1>13, <1>14,
       <1>15, <1>16, <1>17, <1>18, <1>19, <1>20, <1>21, <1>22, <1>23, <1>24, <1>25,
       <1>26, <1>27, <1>28, <1>29, <1>30, <1>31
       DEF Next, CallerCalls, CallerStep, HealthStep

\* The agents' side and the shared service keep their types.
LEMMA RemoteType ==
    ASSUME TypeOK, Next
    PROVE  remote' \in [Sessions -> BOOLEAN] /\ shared' \in BOOLEAN
<1>1. ASSUME NEW s, NEW b \in BOOLEAN
      PROVE  [remote EXCEPT ![s] = b] \in [Sessions -> BOOLEAN]
    BY DEF TypeOK
<1>2. \A s : /\ [remote EXCEPT ![s] = TRUE] \in [Sessions -> BOOLEAN]
             /\ [remote EXCEPT ![s] = FALSE] \in [Sessions -> BOOLEAN]
    BY <1>1
<1>3. SharedCloses => remote' \in [Sessions -> BOOLEAN] /\ shared' \in BOOLEAN
  <2>1. \A s \in Sessions : (remote[s] /\ ~Local(s)) \in BOOLEAN
    OBVIOUS
  <2> QED BY <2>1 DEF SharedCloses
<1>4. ASSUME NEW s, NEW out, DestroyCall(s, out)
      PROVE  remote' \in [Sessions -> BOOLEAN]
    BY <1>2, <1>4 DEF DestroyCall, Gone, TypeOK
<1>5. ASSUME NEW s, NEW p, NEW out, KillCall(s, p, out)
      PROVE  remote' \in [Sessions -> BOOLEAN]
    BY <1>2, <1>5 DEF KillCall, TypeOK
<1>6. ASSUME NEW c \in Callers, CallerCalls(c)
      PROVE  UNCHANGED <<remote, shared>>
    BY <1>6 DEF CallerCalls, CreateSession, SnapshotProxyTarget, PauseSession,
                ResumeSessionSandbox, StartControl, DestroySession, Close, external
<1>7. ASSUME NEW c \in Callers,
             \/ CreateSandbox(c) \/ LaunchProcess(c) \/ AgentServiceFactory(c) \/ AddSession(c)
             \/ PauseLock(c) \/ ResumeLock(c) \/ ResumeSandbox(c) \/ Relaunch(c) \/ Reconnect(c)
             \/ Resumed(c) \/ DestroyLock(c) \/ CloseWaitHealth(c) \/ CloseWaitOps(c) \/ CloseNext(c)
      PROVE  UNCHANGED <<remote, shared>>
    BY <1>7 DEF CreateSandbox, LaunchProcess, AgentServiceFactory, AddSession, PauseLock,
                ResumeLock, TakeLock, ResumeSandbox, Relaunch, Reconnect, Resumed, DestroyLock,
                CloseWaitHealth, CloseWaitOps, CloseNext, external
<1>8. ASSUME NEW c \in Callers, UndoKill(c) \/ ResumeKill(c) \/ DestroyKill(c)
      PROVE  remote' \in [Sessions -> BOOLEAN] /\ UNCHANGED shared
    BY <1>5, <1>8 DEF UndoKill, ResumeKill, DestroyKill
<1>9. ASSUME NEW c \in Callers, UndoSandbox(c) \/ DestroySandbox(c)
      PROVE  remote' \in [Sessions -> BOOLEAN] /\ UNCHANGED shared
    BY <1>4, <1>9 DEF UndoSandbox, DestroySandbox
<1>10. ASSUME NEW c \in Callers,
             \/ BackendCreateSession(c) \/ createToolsSandboxSession(c) \/ UndoSession(c)
             \/ Forward(c) \/ PauseSandbox(c) \/ DestroyAgent(c)
       PROVE  remote' \in [Sessions -> BOOLEAN] /\ UNCHANGED shared
    BY <1>2, <1>10 DEF BackendCreateSession, createToolsSandboxSession, UndoSession, Forward,
                       PauseSandbox, DestroyAgent, TypeOK
<1>11. ASSUME NEW c \in Callers, DestroyEnds(c) \/ CloseShared(c)
       PROVE  remote' \in [Sessions -> BOOLEAN] /\ shared' \in BOOLEAN
    BY <1>3, <1>11 DEF DestroyEnds, CloseShared, TypeOK
<1>12. HealthStep => UNCHANGED <<remote, shared>>
    BY DEF HealthStep, HealthTick, HealthLook, HealthApply, external
<1> QED BY <1>6, <1>7, <1>8, <1>9, <1>10, <1>11, <1>12 DEF Next, CallerStep, TypeOK

\* Every variable keeps its type.
LEMMA TypeStep ==
    ASSUME TypeOK, OpInv, WgInv, TableInv, Next
    PROVE  TypeOK'
<1>1. ASSUME NEW c \in Callers, CreateSession(c)
      PROVE  TypeOK'
    BY <1>1, CreateSessionMove, WgStep, RemoteType, Bounds DEF Called, Entered, Moved,
       external, TypeOK, OpInv, ClosePC
<1>2. ASSUME NEW c \in Callers, CreateSandbox(c)
      PROVE  TypeOK'
    BY <1>2, CreateSandboxMove, WgStep, RemoteType DEF Went, Back, Moved, TypeOK, OpInv,
       ClosePC
<1>3. ASSUME NEW c \in Callers, LaunchProcess(c)
      PROVE  TypeOK'
    BY <1>3, LaunchProcessMove, WgStep, RemoteType, Bounds DEF Moved, TypeOK, OpInv,
       ClosePC
<1>4. ASSUME NEW c \in Callers, AgentServiceFactory(c)
      PROVE  TypeOK'
    BY <1>4, AgentServiceFactoryMove, WgStep, RemoteType DEF Went, Moved, external,
       TypeOK
<1>5. ASSUME NEW c \in Callers, BackendCreateSession(c) \/ createToolsSandboxSession(c)
      PROVE  TypeOK'
    BY <1>5, BackendCreateSessionMove, WgStep, RemoteType DEF Went, Moved, TypeOK
<1>6. ASSUME NEW c \in Callers, AddSession(c)
      PROVE  TypeOK'
    BY <1>6, AddSessionMove, WgStep, RemoteType DEF Went, Back, Entered, Moved,
       external, TypeOK, OpInv, ClosePC
<1>7. ASSUME NEW c \in Callers, UndoSession(c)
      PROVE  TypeOK'
    BY <1>7, UndoSessionMove, WgStep, RemoteType DEF Went, Moved, TypeOK
<1>8. ASSUME NEW c \in Callers, UndoKill(c)
      PROVE  TypeOK'
    BY <1>8, UndoKillMove, WgStep, RemoteType DEF Went, Moved, TypeOK, OpInv, ClosePC
<1>9. ASSUME NEW c \in Callers, UndoSandbox(c)
      PROVE  TypeOK'
    BY <1>9, UndoSandboxMove, WgStep, RemoteType DEF Back, Moved, TypeOK, OpInv, ClosePC
<1>10. ASSUME NEW c \in Callers, SnapshotProxyTarget(c)
      PROVE  TypeOK'
    BY <1>10, SnapshotMove, WgStep, RemoteType, Bounds DEF Called, Moved, external,
       TypeOK, OpInv, ClosePC
<1>11. ASSUME NEW c \in Callers, Forward(c)
      PROVE  TypeOK'
    BY <1>11, ForwardMove, WgStep, RemoteType DEF Back, Moved, TypeOK
<1>12. ASSUME NEW c \in Callers, PauseSession(c) \/ ResumeSessionSandbox(c)
      PROVE  TypeOK'
    BY <1>12, ControlMove, WgStep, RemoteType, Bounds DEF Called, Moved, external,
       TypeOK, OpInv, ClosePC
<1>13. ASSUME NEW c \in Callers, PauseLock(c) \/ ResumeLock(c)
      PROVE  TypeOK'
    BY <1>13, TakeLockMove, WgStep, RemoteType DEF Went, Back, Moved, external, TypeOK
<1>14. ASSUME NEW c \in Callers, PauseSandbox(c)
      PROVE  TypeOK'
    BY <1>14, PauseSandboxMove, WgStep, RemoteType DEF Back, Entered, Moved, TypeOK,
       OpInv
<1>15. ASSUME NEW c \in Callers, ResumeSandbox(c)
      PROVE  TypeOK'
    BY <1>15, ResumeSandboxMove, WgStep, RemoteType DEF Went, Back, Moved, TypeOK
<1>16. ASSUME NEW c \in Callers, Relaunch(c)
      PROVE  TypeOK'
    BY <1>16, RelaunchMove, WgStep, RemoteType DEF Back, Moved, TypeOK, OpInv, ClosePC
<1>17. ASSUME NEW c \in Callers, Reconnect(c)
      PROVE  TypeOK'
    BY <1>17, ReconnectMove, WgStep, RemoteType DEF Went, Moved, external, TypeOK
<1>18. ASSUME NEW c \in Callers, ResumeKill(c)
      PROVE  TypeOK'
    BY <1>18, ResumeKillMove, WgStep, RemoteType DEF Back, Moved, TypeOK, OpInv, ClosePC
<1>19. ASSUME NEW c \in Callers, Resumed(c)
      PROVE  TypeOK'
    BY <1>19, ResumedMove, WgStep, RemoteType DEF Back, Entered, Moved, external, TypeOK
<1>20. ASSUME NEW c \in Callers, DestroySession(c)
      PROVE  TypeOK'
    BY <1>20, DestroySessionMove, WgStep, RemoteType, Bounds DEF Called, Moved,
       external, TypeOK, OpInv, ClosePC
<1>21. ASSUME NEW c \in Callers, DestroyLock(c)
      PROVE  TypeOK'
    BY <1>21, DestroyLockMove, WgStep, RemoteType DEF Went, Moved, external, TypeOK
<1>22. ASSUME NEW c \in Callers, DestroyAgent(c)
      PROVE  TypeOK'
    BY <1>22, DestroyAgentMove, WgStep, RemoteType DEF Went, Moved, TypeOK
<1>23. ASSUME NEW c \in Callers, DestroyKill(c)
      PROVE  TypeOK'
    BY <1>23, DestroyKillMove, WgStep, RemoteType DEF Went, Moved, TypeOK, OpInv,
       ClosePC
<1>24. ASSUME NEW c \in Callers, DestroySandbox(c)
      PROVE  TypeOK'
    BY <1>24, DestroySandboxMove, WgStep, RemoteType DEF Went, Moved, TypeOK, OpInv,
       ClosePC
<1>25. ASSUME NEW c \in Callers, DestroyEnds(c)
      PROVE  TypeOK'
    BY <1>25, DestroyEndsMove, WgStep, RemoteType DEF Went, Back, Entered, Moved, TypeOK
<1>26. ASSUME NEW c \in Callers, Close(c)
      PROVE  TypeOK'
    BY <1>26, CloseMove, WgStep, RemoteType, Bounds DEF Called, Moved, external, TypeOK,
       OpInv, ClosePC
<1>27. ASSUME NEW c \in Callers, CloseWaitHealth(c) \/ CloseWaitOps(c)
      PROVE  TypeOK'
    BY <1>27, CloseWaitMove, WgStep, RemoteType DEF Went, Moved, external, TypeOK
<1>28. ASSUME NEW c \in Callers, CloseNext(c)
      PROVE  TypeOK'
    BY <1>28, CloseNextMove, WgStep, RemoteType DEF Went, Moved, external, TypeOK
<1>29. ASSUME NEW c \in Callers, CloseShared(c)
      PROVE  TypeOK'
    BY <1>29, CloseSharedMove, WgStep, RemoteType DEF Back, Moved, TypeOK
<1>30. CASE HealthTick \/ HealthLook
    BY <1>30, HealthMove, WgStep, RemoteType DEF external, TypeOK
<1>31. CASE HealthApply
    BY <1>31, HealthApplyMove, WgStep, RemoteType DEF Entered, external, TypeOK
<1> QED BY <1>1, <1>2, <1>3, <1>4, <1>5, <1>6, <1>7, <1>8, <1>9, <1>10, <1>11, <1>12, <1>13, <1>14,
       <1>15, <1>16, <1>17, <1>18, <1>19, <1>20, <1>21, <1>22, <1>23, <1>24, <1>25,
       <1>26, <1>27, <1>28, <1>29, <1>30, <1>31
       DEF Next, CallerCalls, CallerStep, HealthStep

\* The table holds what is neither being made nor destroyed.
LEMMA TableStep ==
    ASSUME TypeOK, OpInv, LockInv, TableInv, HeldInv, CreateInv, Next
    PROVE  TableInv'
<1>1. ASSUME NEW c \in Callers, CreateSession(c)
      PROVE  TableInv'
    BY <1>1, CreateSessionMove DEF Called, Entered, Moved, TableInv, Known, OpInv
<1>2. ASSUME NEW c \in Callers, CreateSandbox(c)
      PROVE  TableInv'
    BY <1>2, CreateSandboxMove DEF Went, Back, Moved, TableInv, Known
<1>3. ASSUME NEW c \in Callers, LaunchProcess(c)
      PROVE  TableInv'
    BY <1>3, LaunchProcessMove DEF Moved, TableInv, Known
<1>4. ASSUME NEW c \in Callers, AgentServiceFactory(c)
      PROVE  TableInv'
    BY <1>4, AgentServiceFactoryMove DEF Went, Moved, TableInv, Known
<1>5. ASSUME NEW c \in Callers, BackendCreateSession(c) \/ createToolsSandboxSession(c)
      PROVE  TableInv'
    BY <1>5, BackendCreateSessionMove DEF Went, Moved, TableInv, Known
<1>6. ASSUME NEW c \in Callers, AddSession(c)
      PROVE  TableInv'
  <2> DEFINE K == {"active", "paused", "unhealthy", "destroyed"}
  <2>1. caller[c].s \in Sessions
    BY <1>6, AddSessionMove DEF OpInv, ClosePC
  <2>2. \A s \in Sessions : s \in table' <=> ent'[s].state \in {"active", "paused", "unhealthy"}
    BY <1>6, AddSessionMove, <2>1 DEF TableInv, HeldInv, Entered, CreatePC, OpInv, TypeOK
  <2>3. \A s \in Sessions : ent[s].state \in K => ent'[s].state \in K
    BY <1>6, AddSessionMove, <2>1 DEF Entered
  <2>4. ASSUME NEW d \in Callers
        PROVE  /\ \A s \in caller'[d].todo : s \in Sessions /\ ent'[s].state \in K
               /\ caller'[d].op \notin {"none", "create"} /\ caller'[d].s # None =>
                    caller'[d].s \in Sessions /\ ent'[caller'[d].s].state \in K
               /\ caller'[d].op = "create" => ent'[caller'[d].s].state = "creating"
    <3>1. CASE d = c
      <4>1. /\ \A s \in caller[c].todo : s \in Sessions /\ ent[s].state \in K
            /\ caller[c].op \notin {"none", "create"} => ent[caller[c].s].state \in K
        BY <2>1, Bounds DEF TableInv, Known
      <4>2. \/ Back(c)
            \/ caller[c].op = "close" /\ Went(c, "closeNext")
            \/ caller[c].op = "create" /\ Went(c, "undoSession") /\ ent' = ent
        BY <1>6, AddSessionMove DEF OpInv, CreatePC
      <4>3. CASE Back(c)
        BY <3>1, <4>3 DEF Back, Moved
      <4>4. CASE caller[c].op = "close" /\ Went(c, "closeNext")
        BY <2>1, <2>3, <3>1, <4>1, <4>4 DEF Went, Moved
      <4>5. CASE caller[c].op = "create" /\ Went(c, "undoSession") /\ ent' = ent
        BY <2>1, <2>3, <3>1, <4>1, <4>5 DEF Went, Moved, TableInv
      <4> QED BY <4>2, <4>3, <4>4, <4>5
    <3>2. CASE d # c
      <4>1. caller'[d] = caller[d]
        BY <1>6, AddSessionMove, <3>2 DEF Moved, Went, Back
      <4>2. caller[d].op = "create" => caller[d].s \in Sessions /\ ent[caller[d].s].state = "creating"
        BY DEF TableInv, OpInv, CreatePC, ClosePC
      <4>3. caller[d].op = "create" => ent'[caller[d].s].state = "creating"
        <5>1. CASE caller[c].op = "create"
          BY <1>6, AddSessionMove, <2>1, <3>2, <4>2, <5>1 DEF Entered, CreateInv
        <5>2. CASE caller[c].op # "create"
          <6>1. ent[caller[c].s].state # "creating"
            BY <1>6, AddSessionMove, <2>1, <5>2, Bounds DEF TableInv, Known, OpInv
          <6> QED BY <1>6, AddSessionMove, <2>1, <4>2, <6>1 DEF Entered
        <5> QED BY <5>1, <5>2
      <4> QED BY <2>3, <4>1, <4>3 DEF TableInv, Known
    <3> QED BY <3>1, <3>2
  <2>5. UNCHANGED health
    BY <1>6, AddSessionMove
  <2> QED BY <2>2, <2>3, <2>4, <2>5 DEF TableInv, Known
<1>7. ASSUME NEW c \in Callers, UndoSession(c)
      PROVE  TableInv'
    BY <1>7, UndoSessionMove DEF Went, Moved, TableInv, Known
<1>8. ASSUME NEW c \in Callers, UndoKill(c)
      PROVE  TableInv'
    BY <1>8, UndoKillMove DEF Went, Moved, TableInv, Known
<1>9. ASSUME NEW c \in Callers, UndoSandbox(c)
      PROVE  TableInv'
    BY <1>9, UndoSandboxMove DEF Back, Moved, TableInv, Known
<1>10. ASSUME NEW c \in Callers, SnapshotProxyTarget(c)
      PROVE  TableInv'
    BY <1>10, SnapshotMove DEF Called, Moved, TableInv, Known, OpInv, TypeOK, ClosePC,
       CreatePC, ResumedPC, HeldPC
<1>11. ASSUME NEW c \in Callers, Forward(c)
      PROVE  TableInv'
    BY <1>11, ForwardMove DEF Back, Moved, TableInv, Known
<1>12. ASSUME NEW c \in Callers, PauseSession(c) \/ ResumeSessionSandbox(c)
      PROVE  TableInv'
    BY <1>12, ControlMove DEF Called, Moved, TableInv, Known, OpInv, TypeOK, ClosePC,
       CreatePC, ResumedPC, HeldPC
<1>13. ASSUME NEW c \in Callers, PauseLock(c) \/ ResumeLock(c)
      PROVE  TableInv'
    BY <1>13, TakeLockMove DEF Went, Back, Moved, TableInv, Known
<1>14. ASSUME NEW c \in Callers, PauseSandbox(c)
      PROVE  TableInv'
  <2> DEFINE K == {"active", "paused", "unhealthy", "destroyed"}
  <2>1. caller[c].s \in Sessions
    BY <1>14, PauseSandboxMove DEF OpInv, ClosePC
  <2>2. \A s \in Sessions : s \in table' <=> ent'[s].state \in {"active", "paused", "unhealthy"}
    BY <1>14, PauseSandboxMove, <2>1 DEF TableInv, HeldInv, Entered, CreatePC, OpInv, TypeOK
  <2>3. \A s \in Sessions : ent[s].state \in K => ent'[s].state \in K
    BY <1>14, PauseSandboxMove, <2>1 DEF Entered
  <2>4. ASSUME NEW d \in Callers
        PROVE  /\ \A s \in caller'[d].todo : s \in Sessions /\ ent'[s].state \in K
               /\ caller'[d].op \notin {"none", "create"} /\ caller'[d].s # None =>
                    caller'[d].s \in Sessions /\ ent'[caller'[d].s].state \in K
               /\ caller'[d].op = "create" => ent'[caller'[d].s].state = "creating"
    <3>1. CASE d = c
      <4>1. /\ \A s \in caller[c].todo : s \in Sessions /\ ent[s].state \in K
            /\ caller[c].op \notin {"none", "create"} => ent[caller[c].s].state \in K
        BY <2>1, Bounds DEF TableInv, Known
      <4>2. \/ Back(c)
            \/ caller[c].op = "close" /\ Went(c, "closeNext")
            \/ caller[c].op = "create" /\ Went(c, "undoSession") /\ ent' = ent
        BY <1>14, PauseSandboxMove DEF OpInv, CreatePC
      <4>3. CASE Back(c)
        BY <3>1, <4>3 DEF Back, Moved
      <4>4. CASE caller[c].op = "close" /\ Went(c, "closeNext")
        BY <2>1, <2>3, <3>1, <4>1, <4>4 DEF Went, Moved
      <4>5. CASE caller[c].op = "create" /\ Went(c, "undoSession") /\ ent' = ent
        BY <2>1, <2>3, <3>1, <4>1, <4>5 DEF Went, Moved, TableInv
      <4> QED BY <4>2, <4>3, <4>4, <4>5
    <3>2. CASE d # c
      <4>1. caller'[d] = caller[d]
        BY <1>14, PauseSandboxMove, <3>2 DEF Moved, Went, Back
      <4>2. caller[d].op = "create" => caller[d].s \in Sessions /\ ent[caller[d].s].state = "creating"
        BY DEF TableInv, OpInv, CreatePC, ClosePC
      <4>3. caller[d].op = "create" => ent'[caller[d].s].state = "creating"
        <5>1. CASE caller[c].op = "create"
          BY <1>14, PauseSandboxMove, <2>1, <3>2, <4>2, <5>1 DEF Entered, CreateInv
        <5>2. CASE caller[c].op # "create"
          <6>1. ent[caller[c].s].state # "creating"
            BY <1>14, PauseSandboxMove, <2>1, <5>2, Bounds DEF TableInv, Known, OpInv
          <6> QED BY <1>14, PauseSandboxMove, <2>1, <4>2, <6>1 DEF Entered
        <5> QED BY <5>1, <5>2
      <4> QED BY <2>3, <4>1, <4>3 DEF TableInv, Known
    <3> QED BY <3>1, <3>2
  <2>5. UNCHANGED health
    BY <1>14, PauseSandboxMove
  <2> QED BY <2>2, <2>3, <2>4, <2>5 DEF TableInv, Known
<1>15. ASSUME NEW c \in Callers, ResumeSandbox(c)
      PROVE  TableInv'
    BY <1>15, ResumeSandboxMove DEF Went, Back, Moved, TableInv, Known
<1>16. ASSUME NEW c \in Callers, Relaunch(c)
      PROVE  TableInv'
    BY <1>16, RelaunchMove DEF Back, Moved, TableInv, Known
<1>17. ASSUME NEW c \in Callers, Reconnect(c)
      PROVE  TableInv'
    BY <1>17, ReconnectMove DEF Went, Moved, TableInv, Known
<1>18. ASSUME NEW c \in Callers, ResumeKill(c)
      PROVE  TableInv'
    BY <1>18, ResumeKillMove DEF Back, Moved, TableInv, Known
<1>19. ASSUME NEW c \in Callers, Resumed(c)
      PROVE  TableInv'
    BY <1>19, ResumedMove, Bounds, SMTT(20) DEF Back, Entered, Moved, TableInv, Known,
       Went, Called, OpInv, LockInv, HeldInv, CreateInv, ClosePC, CreatePC, ResumedPC,
       HeldPC, TypeOK
<1>20. ASSUME NEW c \in Callers, DestroySession(c)
      PROVE  TableInv'
    BY <1>20, DestroySessionMove DEF Called, Moved, TableInv, Known, OpInv, TypeOK,
       ClosePC, CreatePC, ResumedPC, HeldPC
<1>21. ASSUME NEW c \in Callers, DestroyLock(c)
      PROVE  TableInv'
    BY <1>21, DestroyLockMove DEF Went, Moved, TableInv, Known
<1>22. ASSUME NEW c \in Callers, DestroyAgent(c)
      PROVE  TableInv'
    BY <1>22, DestroyAgentMove DEF Went, Moved, TableInv, Known
<1>23. ASSUME NEW c \in Callers, DestroyKill(c)
      PROVE  TableInv'
    BY <1>23, DestroyKillMove DEF Went, Moved, TableInv, Known
<1>24. ASSUME NEW c \in Callers, DestroySandbox(c)
      PROVE  TableInv'
    BY <1>24, DestroySandboxMove DEF Went, Moved, TableInv, Known
<1>25. ASSUME NEW c \in Callers, DestroyEnds(c)
      PROVE  TableInv'
  <2> DEFINE K == {"active", "paused", "unhealthy", "destroyed"}
  <2>1. caller[c].s \in Sessions
    BY <1>25, DestroyEndsMove DEF OpInv, ClosePC
  <2>2. \A s \in Sessions : s \in table' <=> ent'[s].state \in {"active", "paused", "unhealthy"}
    BY <1>25, DestroyEndsMove, <2>1 DEF TableInv, HeldInv, Entered, CreatePC, OpInv, TypeOK
  <2>3. \A s \in Sessions : ent[s].state \in K => ent'[s].state \in K
    BY <1>25, DestroyEndsMove, <2>1 DEF Entered
  <2>4. ASSUME NEW d \in Callers
        PROVE  /\ \A s \in caller'[d].todo : s \in Sessions /\ ent'[s].state \in K
               /\ caller'[d].op \notin {"none", "create"} /\ caller'[d].s # None =>
                    caller'[d].s \in Sessions /\ ent'[caller'[d].s].state \in K
               /\ caller'[d].op = "create" => ent'[caller'[d].s].state = "creating"
    <3>1. CASE d = c
      <4>1. /\ \A s \in caller[c].todo : s \in Sessions /\ ent[s].state \in K
            /\ caller[c].op \notin {"none", "create"} => ent[caller[c].s].state \in K
        BY <2>1, Bounds DEF TableInv, Known
      <4>2. \/ Back(c)
            \/ caller[c].op = "close" /\ Went(c, "closeNext")
            \/ caller[c].op = "create" /\ Went(c, "undoSession") /\ ent' = ent
        BY <1>25, DestroyEndsMove DEF OpInv, CreatePC
      <4>3. CASE Back(c)
        BY <3>1, <4>3 DEF Back, Moved
      <4>4. CASE caller[c].op = "close" /\ Went(c, "closeNext")
        BY <2>1, <2>3, <3>1, <4>1, <4>4 DEF Went, Moved
      <4>5. CASE caller[c].op = "create" /\ Went(c, "undoSession") /\ ent' = ent
        BY <2>1, <2>3, <3>1, <4>1, <4>5 DEF Went, Moved, TableInv
      <4> QED BY <4>2, <4>3, <4>4, <4>5
    <3>2. CASE d # c
      <4>1. caller'[d] = caller[d]
        BY <1>25, DestroyEndsMove, <3>2 DEF Moved, Went, Back
      <4>2. caller[d].op = "create" => caller[d].s \in Sessions /\ ent[caller[d].s].state = "creating"
        BY DEF TableInv, OpInv, CreatePC, ClosePC
      <4>3. caller[d].op = "create" => ent'[caller[d].s].state = "creating"
        <5>1. CASE caller[c].op = "create"
          BY <1>25, DestroyEndsMove, <2>1, <3>2, <4>2, <5>1 DEF Entered, CreateInv
        <5>2. CASE caller[c].op # "create"
          <6>1. ent[caller[c].s].state # "creating"
            BY <1>25, DestroyEndsMove, <2>1, <5>2, Bounds DEF TableInv, Known, OpInv
          <6> QED BY <1>25, DestroyEndsMove, <2>1, <4>2, <6>1 DEF Entered
        <5> QED BY <5>1, <5>2
      <4> QED BY <2>3, <4>1, <4>3 DEF TableInv, Known
    <3> QED BY <3>1, <3>2
  <2>5. UNCHANGED health
    BY <1>25, DestroyEndsMove
  <2> QED BY <2>2, <2>3, <2>4, <2>5 DEF TableInv, Known
<1>26. ASSUME NEW c \in Callers, Close(c)
      PROVE  TableInv'
    BY <1>26, CloseMove DEF Called, Moved, TableInv, Known
<1>27. ASSUME NEW c \in Callers, CloseWaitHealth(c) \/ CloseWaitOps(c)
      PROVE  TableInv'
    BY <1>27, CloseWaitMove DEF Went, Moved, TableInv, Known, OpInv, TypeOK, ClosePC,
       CreatePC, ResumedPC, HeldPC
<1>28. ASSUME NEW c \in Callers, CloseNext(c)
      PROVE  TableInv'
    BY <1>28, CloseNextMove DEF Went, Moved, TableInv, Known, OpInv, ClosePC, CreatePC,
       ResumedPC, HeldPC
<1>29. ASSUME NEW c \in Callers, CloseShared(c)
      PROVE  TableInv'
    BY <1>29, CloseSharedMove DEF Back, Moved, TableInv, Known
<1>30. CASE HealthTick \/ HealthLook
    BY <1>30, HealthMove DEF TableInv, Known, OpInv, TypeOK, ClosePC, CreatePC,
       ResumedPC, HeldPC
<1>31. CASE HealthApply
    BY <1>31, HealthApplyMove DEF Entered, TableInv, Known, OpInv
<1> QED BY <1>1, <1>2, <1>3, <1>4, <1>5, <1>6, <1>7, <1>8, <1>9, <1>10, <1>11, <1>12, <1>13, <1>14,
       <1>15, <1>16, <1>17, <1>18, <1>19, <1>20, <1>21, <1>22, <1>23, <1>24, <1>25,
       <1>26, <1>27, <1>28, <1>29, <1>30, <1>31
       DEF Next, CallerCalls, CallerStep, HealthStep

\* What the state was under the lock.
LEMMA HeldStep ==
    ASSUME TypeOK, OpInv, LockInv, TableInv, HeldInv, CreateInv, Next
    PROVE  HeldInv'
<1>1. ASSUME NEW c \in Callers, CreateSession(c)
      PROVE  HeldInv'
    BY <1>1, CreateSessionMove DEF Called, Entered, Moved, HeldInv, ResumedPC, OpInv
<1>2. ASSUME NEW c \in Callers, CreateSandbox(c)
      PROVE  HeldInv'
    BY <1>2, CreateSandboxMove DEF Went, Back, Moved, HeldInv, ResumedPC
<1>3. ASSUME NEW c \in Callers, LaunchProcess(c)
      PROVE  HeldInv'
    BY <1>3, LaunchProcessMove DEF Moved, HeldInv, ResumedPC
<1>4. ASSUME NEW c \in Callers, AgentServiceFactory(c)
      PROVE  HeldInv'
    BY <1>4, AgentServiceFactoryMove DEF Went, Moved, HeldInv, ResumedPC
<1>5. ASSUME NEW c \in Callers, BackendCreateSession(c) \/ createToolsSandboxSession(c)
      PROVE  HeldInv'
    BY <1>5, BackendCreateSessionMove DEF Went, Moved, HeldInv, ResumedPC
<1>6. ASSUME NEW c \in Callers, AddSession(c)
      PROVE  HeldInv'
    BY <1>6, AddSessionMove, Bounds, SMTT(20) DEF Went, Back, Entered, Moved, HeldInv,
       ResumedPC, OpInv, TypeOK, TableInv, Known, ClosePC, CreatePC, HeldPC
<1>7. ASSUME NEW c \in Callers, UndoSession(c)
      PROVE  HeldInv'
    BY <1>7, UndoSessionMove DEF Went, Moved, HeldInv, ResumedPC
<1>8. ASSUME NEW c \in Callers, UndoKill(c)
      PROVE  HeldInv'
    BY <1>8, UndoKillMove DEF Went, Moved, HeldInv, ResumedPC
<1>9. ASSUME NEW c \in Callers, UndoSandbox(c)
      PROVE  HeldInv'
    BY <1>9, UndoSandboxMove DEF Back, Moved, HeldInv, ResumedPC
<1>10. ASSUME NEW c \in Callers, SnapshotProxyTarget(c)
      PROVE  HeldInv'
    BY <1>10, SnapshotMove DEF Called, Moved, HeldInv, ResumedPC
<1>11. ASSUME NEW c \in Callers, Forward(c)
      PROVE  HeldInv'
    BY <1>11, ForwardMove DEF Back, Moved, HeldInv, ResumedPC
<1>12. ASSUME NEW c \in Callers, PauseSession(c) \/ ResumeSessionSandbox(c)
      PROVE  HeldInv'
    BY <1>12, ControlMove DEF Called, Moved, HeldInv, ResumedPC
<1>13. ASSUME NEW c \in Callers, PauseLock(c) \/ ResumeLock(c)
      PROVE  HeldInv'
    BY <1>13, TakeLockMove DEF Went, Back, Moved, HeldInv, ResumedPC
<1>14. ASSUME NEW c \in Callers, PauseSandbox(c)
      PROVE  HeldInv'
    BY <1>14, PauseSandboxMove, Bounds DEF Back, Entered, Moved, HeldInv, ResumedPC,
       OpInv, TypeOK, LockInv, ClosePC, CreatePC, HeldPC
<1>15. ASSUME NEW c \in Callers, ResumeSandbox(c)
      PROVE  HeldInv'
    BY <1>15, ResumeSandboxMove DEF Went, Back, Moved, HeldInv, ResumedPC
<1>16. ASSUME NEW c \in Callers, Relaunch(c)
      PROVE  HeldInv'
    BY <1>16, RelaunchMove DEF Back, Moved, HeldInv, ResumedPC
<1>17. ASSUME NEW c \in Callers, Reconnect(c)
      PROVE  HeldInv'
    BY <1>17, ReconnectMove DEF Went, Moved, HeldInv, ResumedPC
<1>18. ASSUME NEW c \in Callers, ResumeKill(c)
      PROVE  HeldInv'
    BY <1>18, ResumeKillMove DEF Back, Moved, HeldInv, ResumedPC
<1>19. ASSUME NEW c \in Callers, Resumed(c)
      PROVE  HeldInv'
    BY <1>19, ResumedMove, Bounds DEF Back, Entered, Moved, HeldInv, ResumedPC, OpInv,
       TypeOK, LockInv, ClosePC, CreatePC, HeldPC
<1>20. ASSUME NEW c \in Callers, DestroySession(c)
      PROVE  HeldInv'
    BY <1>20, DestroySessionMove DEF Called, Moved, HeldInv, ResumedPC
<1>21. ASSUME NEW c \in Callers, DestroyLock(c)
      PROVE  HeldInv'
    BY <1>21, DestroyLockMove DEF Went, Moved, HeldInv, ResumedPC
<1>22. ASSUME NEW c \in Callers, DestroyAgent(c)
      PROVE  HeldInv'
    BY <1>22, DestroyAgentMove DEF Went, Moved, HeldInv, ResumedPC
<1>23. ASSUME NEW c \in Callers, DestroyKill(c)
      PROVE  HeldInv'
    BY <1>23, DestroyKillMove DEF Went, Moved, HeldInv, ResumedPC
<1>24. ASSUME NEW c \in Callers, DestroySandbox(c)
      PROVE  HeldInv'
    BY <1>24, DestroySandboxMove DEF Went, Moved, HeldInv, ResumedPC
<1>25. ASSUME NEW c \in Callers, DestroyEnds(c)
      PROVE  HeldInv'
    BY <1>25, DestroyEndsMove, Bounds DEF Went, Back, Entered, Moved, HeldInv,
       ResumedPC, OpInv, TypeOK, LockInv, ClosePC, CreatePC, HeldPC
<1>26. ASSUME NEW c \in Callers, Close(c)
      PROVE  HeldInv'
    BY <1>26, CloseMove DEF Called, Moved, HeldInv, ResumedPC
<1>27. ASSUME NEW c \in Callers, CloseWaitHealth(c) \/ CloseWaitOps(c)
      PROVE  HeldInv'
    BY <1>27, CloseWaitMove DEF Went, Moved, HeldInv, ResumedPC
<1>28. ASSUME NEW c \in Callers, CloseNext(c)
      PROVE  HeldInv'
    BY <1>28, CloseNextMove DEF Went, Moved, HeldInv, ResumedPC
<1>29. ASSUME NEW c \in Callers, CloseShared(c)
      PROVE  HeldInv'
    BY <1>29, CloseSharedMove DEF Back, Moved, HeldInv, ResumedPC
<1>30. CASE HealthTick \/ HealthLook
    BY <1>30, HealthMove DEF HeldInv, ResumedPC
<1>31. CASE HealthApply
    BY <1>31, HealthApplyMove, Bounds DEF Entered, HeldInv, ResumedPC, OpInv, TypeOK,
       LockInv, ClosePC, CreatePC, HeldPC
<1> QED BY <1>1, <1>2, <1>3, <1>4, <1>5, <1>6, <1>7, <1>8, <1>9, <1>10, <1>11, <1>12, <1>13, <1>14,
       <1>15, <1>16, <1>17, <1>18, <1>19, <1>20, <1>21, <1>22, <1>23, <1>24, <1>25,
       <1>26, <1>27, <1>28, <1>29, <1>30, <1>31
       DEF Next, CallerCalls, CallerStep, HealthStep

\* A session under construction stays its creator's own.
LEMMA CreateStep ==
    ASSUME TypeOK, OpInv, LockInv, TableInv, HeldInv, CreateInv, NoneInv, Next
    PROVE  CreateInv'
<1>1. ASSUME NEW c \in Callers, CreateSession(c)
      PROVE  CreateInv'
    BY <1>1, CreateSessionMove, Bounds DEF Called, Entered, Moved, external, CreateInv,
       Local, Went, Back, OpInv, LockInv, TableInv, HeldInv, NoneInv, Known, ClosePC,
       CreatePC, ResumedPC, HeldPC, TypeOK
<1>2. ASSUME NEW c \in Callers, CreateSandbox(c)
      PROVE  CreateInv'
    BY <1>2, CreateSandboxMove DEF Went, Back, Moved, CreateInv, Local, OpInv, TypeOK,
       ClosePC, CreatePC, ResumedPC, HeldPC
<1>3. ASSUME NEW c \in Callers, LaunchProcess(c)
      PROVE  CreateInv'
    BY <1>3, LaunchProcessMove DEF Moved, CreateInv, Local, OpInv, TypeOK, ClosePC,
       CreatePC, ResumedPC, HeldPC
<1>4. ASSUME NEW c \in Callers, AgentServiceFactory(c)
      PROVE  CreateInv'
    BY <1>4, AgentServiceFactoryMove DEF Went, Moved, external, CreateInv, Local
<1>5. ASSUME NEW c \in Callers, BackendCreateSession(c) \/ createToolsSandboxSession(c)
      PROVE  CreateInv'
    BY <1>5, BackendCreateSessionMove, SMTT(20) DEF Went, Moved, CreateInv, Local
<1>6. ASSUME NEW c \in Callers, AddSession(c)
      PROVE  CreateInv'
    BY <1>6, AddSessionMove, SMTT(20) DEF Went, Back, Entered, Moved, external,
       CreateInv, Local, OpInv, ClosePC, CreatePC, ResumedPC, HeldPC
<1>7. ASSUME NEW c \in Callers, UndoSession(c)
      PROVE  CreateInv'
    BY <1>7, UndoSessionMove DEF Went, Moved, CreateInv, Local
<1>8. ASSUME NEW c \in Callers, UndoKill(c)
      PROVE  CreateInv'
    BY <1>8, UndoKillMove DEF Went, Moved, CreateInv, Local, OpInv, TypeOK, ClosePC,
       CreatePC, ResumedPC, HeldPC
<1>9. ASSUME NEW c \in Callers, UndoSandbox(c)
      PROVE  CreateInv'
    BY <1>9, UndoSandboxMove DEF Back, Moved, CreateInv, Local, OpInv, TypeOK, ClosePC,
       CreatePC, ResumedPC, HeldPC
<1>10. ASSUME NEW c \in Callers, SnapshotProxyTarget(c)
      PROVE  CreateInv'
    BY <1>10, SnapshotMove, SMTT(20) DEF Called, Moved, external, CreateInv, Local,
       OpInv
<1>11. ASSUME NEW c \in Callers, Forward(c)
      PROVE  CreateInv'
    BY <1>11, ForwardMove DEF Back, Moved, CreateInv, Local
<1>12. ASSUME NEW c \in Callers, PauseSession(c) \/ ResumeSessionSandbox(c)
      PROVE  CreateInv'
    BY <1>12, ControlMove, SMTT(20) DEF Called, Moved, external, CreateInv, Local
<1>13. ASSUME NEW c \in Callers, PauseLock(c) \/ ResumeLock(c)
      PROVE  CreateInv'
    BY <1>13, TakeLockMove, SMTT(20) DEF Went, Back, Moved, external, CreateInv, Local
<1>14. ASSUME NEW c \in Callers, PauseSandbox(c)
      PROVE  CreateInv'
    BY <1>14, PauseSandboxMove, Bounds, SMTT(20) DEF Back, Entered, Moved, CreateInv,
       Local, OpInv, TypeOK, TableInv, Known, HeldInv, ClosePC, CreatePC, ResumedPC, HeldPC
<1>15. ASSUME NEW c \in Callers, ResumeSandbox(c)
      PROVE  CreateInv'
    BY <1>15, ResumeSandboxMove, Bounds, SMTT(20) DEF Went, Back, Moved, CreateInv,
       Local, OpInv, TypeOK, TableInv, Known, HeldInv, ClosePC, CreatePC, ResumedPC, HeldPC
<1>16. ASSUME NEW c \in Callers, Relaunch(c)
      PROVE  CreateInv'
    BY <1>16, RelaunchMove, Bounds, SMTT(20) DEF Back, Moved, CreateInv, Local, OpInv,
       TypeOK, TableInv, Known, HeldInv, ClosePC, CreatePC, ResumedPC, HeldPC
<1>17. ASSUME NEW c \in Callers, Reconnect(c)
      PROVE  CreateInv'
    BY <1>17, ReconnectMove, SMTT(20) DEF Went, Moved, external, CreateInv, Local
<1>18. ASSUME NEW c \in Callers, ResumeKill(c)
      PROVE  CreateInv'
    BY <1>18, ResumeKillMove, Bounds, SMTT(20) DEF Back, Moved, CreateInv, Local, OpInv,
       TypeOK, TableInv, Known, HeldInv, ClosePC, CreatePC, ResumedPC, HeldPC
<1>19. ASSUME NEW c \in Callers, Resumed(c)
      PROVE  CreateInv'
    BY <1>19, ResumedMove, SMTT(20) DEF Back, Entered, Moved, external, CreateInv,
       Local, OpInv, TypeOK, ClosePC, CreatePC, ResumedPC, HeldPC
<1>20. ASSUME NEW c \in Callers, DestroySession(c)
      PROVE  CreateInv'
    BY <1>20, DestroySessionMove, SMTT(20) DEF Called, Moved, external, CreateInv, Local
<1>21. ASSUME NEW c \in Callers, DestroyLock(c)
      PROVE  CreateInv'
    BY <1>21, DestroyLockMove, SMTT(20) DEF Went, Moved, external, CreateInv, Local
<1>22. ASSUME NEW c \in Callers, DestroyAgent(c)
      PROVE  CreateInv'
    BY <1>22, DestroyAgentMove, SMTT(20) DEF Went, Moved, CreateInv, Local
<1>23. ASSUME NEW c \in Callers, DestroyKill(c)
      PROVE  CreateInv'
    BY <1>23, DestroyKillMove, Bounds, SMTT(20) DEF Went, Moved, CreateInv, Local,
       OpInv, TypeOK, TableInv, Known, HeldInv, ClosePC, CreatePC, ResumedPC, HeldPC
<1>24. ASSUME NEW c \in Callers, DestroySandbox(c)
      PROVE  CreateInv'
    BY <1>24, DestroySandboxMove, Bounds, SMTT(20) DEF Went, Moved, CreateInv, Local,
       OpInv, TypeOK, TableInv, Known, HeldInv, ClosePC, CreatePC, ResumedPC, HeldPC
<1>25. ASSUME NEW c \in Callers, DestroyEnds(c)
      PROVE  CreateInv'
    BY <1>25, DestroyEndsMove, SMTT(20) DEF Went, Back, Entered, Moved, CreateInv,
       Local, OpInv, TypeOK, ClosePC, CreatePC, ResumedPC, HeldPC
<1>26. ASSUME NEW c \in Callers, Close(c)
      PROVE  CreateInv'
    BY <1>26, CloseMove, SMTT(20) DEF Called, Moved, external, CreateInv, Local
<1>27. ASSUME NEW c \in Callers, CloseWaitHealth(c) \/ CloseWaitOps(c)
      PROVE  CreateInv'
    BY <1>27, CloseWaitMove DEF Went, Moved, external, CreateInv, Local, OpInv
<1>28. ASSUME NEW c \in Callers, CloseNext(c)
      PROVE  CreateInv'
    BY <1>28, CloseNextMove DEF Went, Moved, external, CreateInv, Local, OpInv, TypeOK,
       ClosePC, CreatePC, ResumedPC, HeldPC
<1>29. ASSUME NEW c \in Callers, CloseShared(c)
      PROVE  CreateInv'
    BY <1>29, CloseSharedMove DEF Back, Moved, CreateInv, Local
<1>30. CASE HealthTick \/ HealthLook
    BY <1>30, HealthMove DEF external, CreateInv, Local
<1>31. CASE HealthApply
    BY <1>31, HealthApplyMove DEF Entered, external, CreateInv, Local, OpInv
<1> QED BY <1>1, <1>2, <1>3, <1>4, <1>5, <1>6, <1>7, <1>8, <1>9, <1>10, <1>11, <1>12, <1>13, <1>14,
       <1>15, <1>16, <1>17, <1>18, <1>19, <1>20, <1>21, <1>22, <1>23, <1>24, <1>25,
       <1>26, <1>27, <1>28, <1>29, <1>30, <1>31
       DEF Next, CallerCalls, CallerStep, HealthStep

\* A session nobody has used has nothing.
LEMMA NoneStep ==
    ASSUME TypeOK, OpInv, LockInv, TableInv, HeldInv, CreateInv, NoneInv, Next
    PROVE  NoneInv'
<1>1. ASSUME NEW c \in Callers, CreateSession(c)
      PROVE  NoneInv'
    BY <1>1, CreateSessionMove DEF Entered, external, NoneInv
<1>2. ASSUME NEW c \in Callers, CreateSandbox(c)
      PROVE  NoneInv'
    BY <1>2, CreateSandboxMove, Bounds DEF NoneInv, OpInv, TypeOK, TableInv, Known,
       ClosePC, CreatePC, ResumedPC, HeldPC
<1>3. ASSUME NEW c \in Callers, LaunchProcess(c)
      PROVE  NoneInv'
    BY <1>3, LaunchProcessMove, Bounds DEF NoneInv, OpInv, TypeOK, TableInv, Known,
       ClosePC, CreatePC, ResumedPC, HeldPC
<1>4. ASSUME NEW c \in Callers, AgentServiceFactory(c)
      PROVE  NoneInv'
    BY <1>4, AgentServiceFactoryMove DEF external, NoneInv
<1>5. ASSUME NEW c \in Callers, BackendCreateSession(c) \/ createToolsSandboxSession(c)
      PROVE  NoneInv'
    BY <1>5, BackendCreateSessionMove DEF NoneInv
<1>6. ASSUME NEW c \in Callers, AddSession(c)
      PROVE  NoneInv'
    BY <1>6, AddSessionMove DEF Entered, external, NoneInv
<1>7. ASSUME NEW c \in Callers, UndoSession(c)
      PROVE  NoneInv'
    BY <1>7, UndoSessionMove DEF NoneInv
<1>8. ASSUME NEW c \in Callers, UndoKill(c)
      PROVE  NoneInv'
    BY <1>8, UndoKillMove DEF NoneInv, OpInv, TypeOK, ClosePC, CreatePC, ResumedPC,
       HeldPC
<1>9. ASSUME NEW c \in Callers, UndoSandbox(c)
      PROVE  NoneInv'
    BY <1>9, UndoSandboxMove, Bounds DEF NoneInv, OpInv, TypeOK, TableInv, Known,
       ClosePC, CreatePC, ResumedPC, HeldPC
<1>10. ASSUME NEW c \in Callers, SnapshotProxyTarget(c)
      PROVE  NoneInv'
    BY <1>10, SnapshotMove DEF external, NoneInv
<1>11. ASSUME NEW c \in Callers, Forward(c)
      PROVE  NoneInv'
    BY <1>11, ForwardMove DEF NoneInv
<1>12. ASSUME NEW c \in Callers, PauseSession(c) \/ ResumeSessionSandbox(c)
      PROVE  NoneInv'
    BY <1>12, ControlMove DEF external, NoneInv
<1>13. ASSUME NEW c \in Callers, PauseLock(c) \/ ResumeLock(c)
      PROVE  NoneInv'
    BY <1>13, TakeLockMove DEF external, NoneInv
<1>14. ASSUME NEW c \in Callers, PauseSandbox(c)
      PROVE  NoneInv'
    BY <1>14, PauseSandboxMove, Bounds DEF Entered, NoneInv, OpInv, TypeOK, TableInv,
       Known, ClosePC, CreatePC, ResumedPC, HeldPC
<1>15. ASSUME NEW c \in Callers, ResumeSandbox(c)
      PROVE  NoneInv'
    BY <1>15, ResumeSandboxMove, Bounds DEF NoneInv, OpInv, TypeOK, TableInv, Known,
       ClosePC, CreatePC, ResumedPC, HeldPC
<1>16. ASSUME NEW c \in Callers, Relaunch(c)
      PROVE  NoneInv'
    BY <1>16, RelaunchMove, Bounds, SMTT(20) DEF NoneInv, OpInv, TypeOK, TableInv,
       Known, ClosePC, CreatePC, ResumedPC, HeldPC
<1>17. ASSUME NEW c \in Callers, Reconnect(c)
      PROVE  NoneInv'
    BY <1>17, ReconnectMove DEF external, NoneInv
<1>18. ASSUME NEW c \in Callers, ResumeKill(c)
      PROVE  NoneInv'
    BY <1>18, ResumeKillMove DEF NoneInv, OpInv, TypeOK, ClosePC, CreatePC, ResumedPC,
       HeldPC
<1>19. ASSUME NEW c \in Callers, Resumed(c)
      PROVE  NoneInv'
    BY <1>19, ResumedMove DEF Entered, external, NoneInv
<1>20. ASSUME NEW c \in Callers, DestroySession(c)
      PROVE  NoneInv'
    BY <1>20, DestroySessionMove DEF external, NoneInv
<1>21. ASSUME NEW c \in Callers, DestroyLock(c)
      PROVE  NoneInv'
    BY <1>21, DestroyLockMove DEF external, NoneInv
<1>22. ASSUME NEW c \in Callers, DestroyAgent(c)
      PROVE  NoneInv'
    BY <1>22, DestroyAgentMove DEF NoneInv
<1>23. ASSUME NEW c \in Callers, DestroyKill(c)
      PROVE  NoneInv'
    BY <1>23, DestroyKillMove DEF NoneInv, OpInv, TypeOK, ClosePC, CreatePC, ResumedPC,
       HeldPC
<1>24. ASSUME NEW c \in Callers, DestroySandbox(c)
      PROVE  NoneInv'
    BY <1>24, DestroySandboxMove, Bounds DEF NoneInv, OpInv, TypeOK, TableInv, Known,
       ClosePC, CreatePC, ResumedPC, HeldPC
<1>25. ASSUME NEW c \in Callers, DestroyEnds(c)
      PROVE  NoneInv'
    BY <1>25, DestroyEndsMove DEF Entered, NoneInv
<1>26. ASSUME NEW c \in Callers, Close(c)
      PROVE  NoneInv'
    BY <1>26, CloseMove DEF external, NoneInv
<1>27. ASSUME NEW c \in Callers, CloseWaitHealth(c) \/ CloseWaitOps(c)
      PROVE  NoneInv'
    BY <1>27, CloseWaitMove DEF external, NoneInv
<1>28. ASSUME NEW c \in Callers, CloseNext(c)
      PROVE  NoneInv'
    BY <1>28, CloseNextMove DEF external, NoneInv
<1>29. ASSUME NEW c \in Callers, CloseShared(c)
      PROVE  NoneInv'
    BY <1>29, CloseSharedMove DEF NoneInv
<1>30. CASE HealthTick \/ HealthLook
    BY <1>30, HealthMove DEF external, NoneInv
<1>31. CASE HealthApply
    BY <1>31, HealthApplyMove DEF Entered, external, NoneInv
<1> QED BY <1>1, <1>2, <1>3, <1>4, <1>5, <1>6, <1>7, <1>8, <1>9, <1>10, <1>11, <1>12, <1>13, <1>14,
       <1>15, <1>16, <1>17, <1>18, <1>19, <1>20, <1>21, <1>22, <1>23, <1>24, <1>25,
       <1>26, <1>27, <1>28, <1>29, <1>30, <1>31
       DEF Next, CallerCalls, CallerStep, HealthStep

\* What a resume has done so far.
LEMMA ResumeStep ==
    ASSUME TypeOK, OpInv, LockInv, TableInv, HeldInv, CreateInv, ResumeInv, Next
    PROVE  ResumeInv'
<1>1. ASSUME NEW c \in Callers, CreateSession(c)
      PROVE  ResumeInv'
  <2>1. PICK s \in Sessions : /\ ent[s].state = "none" /\ Entered(s, "creating", ent[s].proc)
                              /\ Called(c, "sandbox", "create", s, 0)
    BY <1>1, CreateSessionMove
  <2>2. UNCHANGED <<sandbox, procs>>
    BY <1>1, CreateSessionMove DEF external
  <2>3. ASSUME NEW d \in Callers, caller'[d].pc \in ResumedPC \cup {"resumeLock"}
        PROVE  /\ d # c /\ caller'[d] = caller[d]
               /\ caller[d].s \in Sessions /\ ent'[caller[d].s] = ent[caller[d].s]
    <3>1. d # c /\ caller'[d] = caller[d]
      BY <2>1, <2>3 DEF Called, Moved, ResumedPC
    <3>2. caller[d].op = "resume" /\ caller[d].s \in Sessions
      BY <2>3, <3>1 DEF OpInv, ClosePC, ResumedPC
    <3>3. caller[d].s # s
      BY <2>1, <3>2, Bounds DEF TableInv, Known
    <3> QED BY <2>1, <3>1, <3>2, <3>3 DEF Entered
  <2> QED BY <2>2, <2>3 DEF ResumeInv, ResumedPC
<1>2. ASSUME NEW c \in Callers, CreateSandbox(c)
      PROVE  ResumeInv'
    BY <1>2, CreateSandboxMove DEF Went, Back, Moved, ResumeInv, OpInv, TypeOK, ClosePC,
       CreatePC, ResumedPC, HeldPC
<1>3. ASSUME NEW c \in Callers, LaunchProcess(c)
      PROVE  ResumeInv'
    BY <1>3, LaunchProcessMove DEF Moved, ResumeInv, OpInv, TypeOK, ClosePC, CreatePC,
       ResumedPC, HeldPC
<1>4. ASSUME NEW c \in Callers, AgentServiceFactory(c)
      PROVE  ResumeInv'
    BY <1>4, AgentServiceFactoryMove DEF Went, Moved, external, ResumeInv
<1>5. ASSUME NEW c \in Callers, BackendCreateSession(c) \/ createToolsSandboxSession(c)
      PROVE  ResumeInv'
    BY <1>5, BackendCreateSessionMove DEF Went, Moved, ResumeInv
<1>6. ASSUME NEW c \in Callers, AddSession(c)
      PROVE  ResumeInv'
    BY <1>6, AddSessionMove DEF Went, Back, Entered, Moved, external, ResumeInv, OpInv,
       ClosePC, CreatePC, ResumedPC, HeldPC
<1>7. ASSUME NEW c \in Callers, UndoSession(c)
      PROVE  ResumeInv'
    BY <1>7, UndoSessionMove DEF Went, Moved, ResumeInv
<1>8. ASSUME NEW c \in Callers, UndoKill(c)
      PROVE  ResumeInv'
    BY <1>8, UndoKillMove, Bounds DEF Went, Moved, ResumeInv, OpInv, TypeOK, TableInv,
       Known, HeldInv, ClosePC, CreatePC, ResumedPC, HeldPC
<1>9. ASSUME NEW c \in Callers, UndoSandbox(c)
      PROVE  ResumeInv'
    BY <1>9, UndoSandboxMove, Bounds DEF Back, Moved, ResumeInv, OpInv, TypeOK,
       TableInv, Known, HeldInv, ClosePC, CreatePC, ResumedPC, HeldPC
<1>10. ASSUME NEW c \in Callers, SnapshotProxyTarget(c)
      PROVE  ResumeInv'
    BY <1>10, SnapshotMove DEF Called, Moved, external, ResumeInv
<1>11. ASSUME NEW c \in Callers, Forward(c)
      PROVE  ResumeInv'
    BY <1>11, ForwardMove DEF Back, Moved, ResumeInv
<1>12. ASSUME NEW c \in Callers, PauseSession(c) \/ ResumeSessionSandbox(c)
      PROVE  ResumeInv'
    BY <1>12, ControlMove DEF Called, Moved, external, ResumeInv
<1>13. ASSUME NEW c \in Callers, PauseLock(c) \/ ResumeLock(c)
      PROVE  ResumeInv'
    BY <1>13, TakeLockMove DEF Went, Back, Moved, external, ResumeInv
<1>14. ASSUME NEW c \in Callers, PauseSandbox(c)
      PROVE  ResumeInv'
    BY <1>14, PauseSandboxMove, Bounds DEF Back, Entered, Moved, ResumeInv, OpInv,
       TypeOK, LockInv, ClosePC, CreatePC, ResumedPC, HeldPC
<1>15. ASSUME NEW c \in Callers, ResumeSandbox(c)
      PROVE  ResumeInv'
    BY <1>15, ResumeSandboxMove DEF Went, Back, Moved, ResumeInv, OpInv, TypeOK,
       ClosePC, CreatePC, ResumedPC, HeldPC
<1>16. ASSUME NEW c \in Callers, Relaunch(c)
      PROVE  ResumeInv'
    BY <1>16, RelaunchMove DEF Back, Moved, ResumeInv, OpInv, TypeOK, ClosePC, CreatePC,
       ResumedPC, HeldPC
<1>17. ASSUME NEW c \in Callers, Reconnect(c)
      PROVE  ResumeInv'
    BY <1>17, ReconnectMove DEF Went, Moved, external, ResumeInv
<1>18. ASSUME NEW c \in Callers, ResumeKill(c)
      PROVE  ResumeInv'
    BY <1>18, ResumeKillMove, Bounds DEF Back, Moved, ResumeInv, OpInv, TypeOK, LockInv,
       ClosePC, CreatePC, ResumedPC, HeldPC
<1>19. ASSUME NEW c \in Callers, Resumed(c)
      PROVE  ResumeInv'
    BY <1>19, ResumedMove DEF Back, Entered, Moved, external, ResumeInv, OpInv, ClosePC,
       CreatePC, ResumedPC, HeldPC
<1>20. ASSUME NEW c \in Callers, DestroySession(c)
      PROVE  ResumeInv'
    BY <1>20, DestroySessionMove DEF Called, Moved, external, ResumeInv
<1>21. ASSUME NEW c \in Callers, DestroyLock(c)
      PROVE  ResumeInv'
    BY <1>21, DestroyLockMove DEF Went, Moved, external, ResumeInv
<1>22. ASSUME NEW c \in Callers, DestroyAgent(c)
      PROVE  ResumeInv'
    BY <1>22, DestroyAgentMove DEF Went, Moved, ResumeInv
<1>23. ASSUME NEW c \in Callers, DestroyKill(c)
      PROVE  ResumeInv'
    BY <1>23, DestroyKillMove, Bounds DEF Went, Moved, ResumeInv, OpInv, TypeOK,
       LockInv, ClosePC, CreatePC, ResumedPC, HeldPC
<1>24. ASSUME NEW c \in Callers, DestroySandbox(c)
      PROVE  ResumeInv'
    BY <1>24, DestroySandboxMove, Bounds DEF Went, Moved, ResumeInv, OpInv, TypeOK,
       LockInv, ClosePC, CreatePC, ResumedPC, HeldPC
<1>25. ASSUME NEW c \in Callers, DestroyEnds(c)
      PROVE  ResumeInv'
    BY <1>25, DestroyEndsMove DEF Went, Back, Entered, Moved, ResumeInv, OpInv, ClosePC,
       CreatePC, ResumedPC, HeldPC
<1>26. ASSUME NEW c \in Callers, Close(c)
      PROVE  ResumeInv'
    BY <1>26, CloseMove DEF Called, Moved, external, ResumeInv
<1>27. ASSUME NEW c \in Callers, CloseWaitHealth(c) \/ CloseWaitOps(c)
      PROVE  ResumeInv'
    BY <1>27, CloseWaitMove DEF Went, Moved, external, ResumeInv
<1>28. ASSUME NEW c \in Callers, CloseNext(c)
      PROVE  ResumeInv'
    BY <1>28, CloseNextMove DEF Went, Moved, external, ResumeInv
<1>29. ASSUME NEW c \in Callers, CloseShared(c)
      PROVE  ResumeInv'
    BY <1>29, CloseSharedMove DEF Back, Moved, ResumeInv
<1>30. CASE HealthTick \/ HealthLook
    BY <1>30, HealthMove DEF external, ResumeInv
<1>31. CASE HealthApply
    BY <1>31, HealthApplyMove DEF Entered, external, ResumeInv, OpInv, ClosePC,
       CreatePC, ResumedPC, HeldPC
<1> QED BY <1>1, <1>2, <1>3, <1>4, <1>5, <1>6, <1>7, <1>8, <1>9, <1>10, <1>11, <1>12, <1>13, <1>14,
       <1>15, <1>16, <1>17, <1>18, <1>19, <1>20, <1>21, <1>22, <1>23, <1>24, <1>25,
       <1>26, <1>27, <1>28, <1>29, <1>30, <1>31
       DEF Next, CallerCalls, CallerStep, HealthStep

\* A sandbox that exists has an owner.
LEMMA OwnedStep ==
    ASSUME TypeOK, OpInv, LockInv, TableInv, HeldInv, CreateInv, OwnedInv, Next
    PROVE  OwnedInv'
<1>1. ASSUME NEW c \in Callers, CreateSession(c)
      PROVE  OwnedInv'
    BY <1>1, CreateSessionMove DEF Called, Entered, Moved, external, OwnedInv, OpInv
<1>2. ASSUME NEW c \in Callers, CreateSandbox(c)
      PROVE  OwnedInv'
  <2> DEFINE s == caller[c].s
  <2>1. s \in Sessions
    BY <1>2, CreateSandboxMove DEF OpInv, ClosePC
  <2>2. ASSUME NEW t \in Sessions, t # s
        PROVE  /\ sandbox'[t] = sandbox[t]
               /\ t \in table => t \in table'
               /\ t \in unsure => t \in unsure'
               /\ \A d \in Callers : caller[d].s = t => caller'[d].s = t /\ caller'[d].op = caller[d].op
    BY <1>2, CreateSandboxMove, <2>1, <2>2 DEF Moved, Went, Back, TypeOK
  <2>3. sandbox'[s] \in {"running", "paused"} =>
          s \in table' \/ s \in unsure' \/ (caller'[c].s = s /\ caller'[c].op = "create")
    BY <1>2, CreateSandboxMove, <2>1 DEF Moved, Went, Back, TypeOK, OpInv, OwnedInv, CreateInv, HeldInv, TableInv, CreatePC, ResumedPC
  <2>4. ASSUME NEW d \in Callers, caller'[d].pc = "closeService"
        PROVE  sandbox'[caller'[d].s] \notin {"running", "paused"} \/ caller'[d].s \in unsure'
    <3>1. d # c /\ caller'[d] = caller[d] /\ caller[d].pc = "closeService"
      BY <1>2, CreateSandboxMove, <2>4 DEF Moved, Went, Back
    <3>2. caller[d].s \in Sessions /\ lock[caller[d].s] = d /\ ent[caller[d].s].state # "creating"
      BY <3>1, Bounds DEF OpInv, LockInv, HeldPC, ClosePC, CreatePC, ResumedPC, TableInv, Known
    <3>3. caller[d].s # s
      BY <1>2, CreateSandboxMove, <2>1, <3>1, <3>2 DEF LockInv, TableInv, OpInv, HeldPC, ResumedPC, CreatePC
    <3> QED BY <2>2, <3>1, <3>2, <3>3 DEF OwnedInv
  <2>5. ASSUME NEW t \in Sessions, sandbox'[t] \in {"running", "paused"}
        PROVE  t \in table' \/ t \in unsure' \/ \E d \in Callers : caller'[d].s = t /\ caller'[d].op = "create"
    BY <2>2, <2>3, <2>5 DEF OwnedInv
  <2> QED BY <2>4, <2>5 DEF OwnedInv
<1>3. ASSUME NEW c \in Callers, LaunchProcess(c)
      PROVE  OwnedInv'
    BY <1>3, LaunchProcessMove DEF Moved, OwnedInv
<1>4. ASSUME NEW c \in Callers, AgentServiceFactory(c)
      PROVE  OwnedInv'
    BY <1>4, AgentServiceFactoryMove DEF Went, Moved, external, OwnedInv
<1>5. ASSUME NEW c \in Callers, BackendCreateSession(c) \/ createToolsSandboxSession(c)
      PROVE  OwnedInv'
    BY <1>5, BackendCreateSessionMove DEF Went, Moved, OwnedInv
<1>6. ASSUME NEW c \in Callers, AddSession(c)
      PROVE  OwnedInv'
    BY <1>6, AddSessionMove DEF Went, Back, Entered, Moved, external, OwnedInv
<1>7. ASSUME NEW c \in Callers, UndoSession(c)
      PROVE  OwnedInv'
    BY <1>7, UndoSessionMove DEF Went, Moved, OwnedInv
<1>8. ASSUME NEW c \in Callers, UndoKill(c)
      PROVE  OwnedInv'
    BY <1>8, UndoKillMove DEF Went, Moved, OwnedInv
<1>9. ASSUME NEW c \in Callers, UndoSandbox(c)
      PROVE  OwnedInv'
  <2> DEFINE s == caller[c].s
  <2>1. s \in Sessions
    BY <1>9, UndoSandboxMove DEF OpInv, ClosePC
  <2>2. ASSUME NEW t \in Sessions, t # s
        PROVE  /\ sandbox'[t] = sandbox[t]
               /\ t \in table => t \in table'
               /\ t \in unsure => t \in unsure'
               /\ \A d \in Callers : caller[d].s = t => caller'[d].s = t /\ caller'[d].op = caller[d].op
    BY <1>9, UndoSandboxMove, <2>1, <2>2 DEF Moved, Went, Back, TypeOK
  <2>3. sandbox'[s] \in {"running", "paused"} =>
          s \in table' \/ s \in unsure' \/ (caller'[c].s = s /\ caller'[c].op = "create")
    BY <1>9, UndoSandboxMove, <2>1 DEF Moved, Went, Back, TypeOK, OpInv, OwnedInv, CreateInv, HeldInv, TableInv, CreatePC, ResumedPC
  <2>4. ASSUME NEW d \in Callers, caller'[d].pc = "closeService"
        PROVE  sandbox'[caller'[d].s] \notin {"running", "paused"} \/ caller'[d].s \in unsure'
    <3>1. d # c /\ caller'[d] = caller[d] /\ caller[d].pc = "closeService"
      BY <1>9, UndoSandboxMove, <2>4 DEF Moved, Went, Back
    <3>2. caller[d].s \in Sessions /\ lock[caller[d].s] = d /\ ent[caller[d].s].state # "creating"
      BY <3>1, Bounds DEF OpInv, LockInv, HeldPC, ClosePC, CreatePC, ResumedPC, TableInv, Known
    <3>3. caller[d].s # s
      BY <1>9, UndoSandboxMove, <2>1, <3>1, <3>2 DEF LockInv, TableInv, OpInv, HeldPC, ResumedPC, CreatePC
    <3> QED BY <2>2, <3>1, <3>2, <3>3 DEF OwnedInv
  <2>5. ASSUME NEW t \in Sessions, sandbox'[t] \in {"running", "paused"}
        PROVE  t \in table' \/ t \in unsure' \/ \E d \in Callers : caller'[d].s = t /\ caller'[d].op = "create"
    BY <2>2, <2>3, <2>5 DEF OwnedInv
  <2> QED BY <2>4, <2>5 DEF OwnedInv
<1>10. ASSUME NEW c \in Callers, SnapshotProxyTarget(c)
      PROVE  OwnedInv'
    BY <1>10, SnapshotMove DEF Called, Moved, external, OwnedInv, OpInv
<1>11. ASSUME NEW c \in Callers, Forward(c)
      PROVE  OwnedInv'
    BY <1>11, ForwardMove DEF Back, Moved, OwnedInv, OpInv
<1>12. ASSUME NEW c \in Callers, PauseSession(c) \/ ResumeSessionSandbox(c)
      PROVE  OwnedInv'
    BY <1>12, ControlMove DEF Called, Moved, external, OwnedInv, OpInv
<1>13. ASSUME NEW c \in Callers, PauseLock(c) \/ ResumeLock(c)
      PROVE  OwnedInv'
    BY <1>13, TakeLockMove DEF Went, Back, Moved, external, OwnedInv, OpInv
<1>14. ASSUME NEW c \in Callers, PauseSandbox(c)
      PROVE  OwnedInv'
  <2> DEFINE s == caller[c].s
  <2>1. s \in Sessions
    BY <1>14, PauseSandboxMove DEF OpInv, ClosePC
  <2>2. ASSUME NEW t \in Sessions, t # s
        PROVE  /\ sandbox'[t] = sandbox[t]
               /\ t \in table => t \in table'
               /\ t \in unsure => t \in unsure'
               /\ \A d \in Callers : caller[d].s = t => caller'[d].s = t /\ caller'[d].op = caller[d].op
    BY <1>14, PauseSandboxMove, <2>1, <2>2 DEF Moved, Went, Back, TypeOK
  <2>3. sandbox'[s] \in {"running", "paused"} =>
          s \in table' \/ s \in unsure' \/ (caller'[c].s = s /\ caller'[c].op = "create")
    BY <1>14, PauseSandboxMove, <2>1 DEF Moved, Went, Back, TypeOK, OpInv, OwnedInv, CreateInv, HeldInv, TableInv, CreatePC, ResumedPC
  <2>4. ASSUME NEW d \in Callers, caller'[d].pc = "closeService"
        PROVE  sandbox'[caller'[d].s] \notin {"running", "paused"} \/ caller'[d].s \in unsure'
    <3>1. d # c /\ caller'[d] = caller[d] /\ caller[d].pc = "closeService"
      BY <1>14, PauseSandboxMove, <2>4 DEF Moved, Went, Back
    <3>2. caller[d].s \in Sessions /\ lock[caller[d].s] = d /\ ent[caller[d].s].state # "creating"
      BY <3>1, Bounds DEF OpInv, LockInv, HeldPC, ClosePC, CreatePC, ResumedPC, TableInv, Known
    <3>3. caller[d].s # s
      BY <1>14, PauseSandboxMove, <2>1, <3>1, <3>2 DEF LockInv, TableInv, OpInv, HeldPC, ResumedPC, CreatePC
    <3> QED BY <2>2, <3>1, <3>2, <3>3 DEF OwnedInv
  <2>5. ASSUME NEW t \in Sessions, sandbox'[t] \in {"running", "paused"}
        PROVE  t \in table' \/ t \in unsure' \/ \E d \in Callers : caller'[d].s = t /\ caller'[d].op = "create"
    BY <2>2, <2>3, <2>5 DEF OwnedInv
  <2> QED BY <2>4, <2>5 DEF OwnedInv
<1>15. ASSUME NEW c \in Callers, ResumeSandbox(c)
      PROVE  OwnedInv'
  <2> DEFINE s == caller[c].s
  <2>1. s \in Sessions
    BY <1>15, ResumeSandboxMove DEF OpInv, ClosePC
  <2>2. ASSUME NEW t \in Sessions, t # s
        PROVE  /\ sandbox'[t] = sandbox[t]
               /\ t \in table => t \in table'
               /\ t \in unsure => t \in unsure'
               /\ \A d \in Callers : caller[d].s = t => caller'[d].s = t /\ caller'[d].op = caller[d].op
    BY <1>15, ResumeSandboxMove, <2>1, <2>2 DEF Moved, Went, Back, TypeOK
  <2>3. sandbox'[s] \in {"running", "paused"} =>
          s \in table' \/ s \in unsure' \/ (caller'[c].s = s /\ caller'[c].op = "create")
    BY <1>15, ResumeSandboxMove, <2>1 DEF Moved, Went, Back, TypeOK, OpInv, OwnedInv, CreateInv, HeldInv, TableInv, CreatePC, ResumedPC
  <2>4. ASSUME NEW d \in Callers, caller'[d].pc = "closeService"
        PROVE  sandbox'[caller'[d].s] \notin {"running", "paused"} \/ caller'[d].s \in unsure'
    <3>1. d # c /\ caller'[d] = caller[d] /\ caller[d].pc = "closeService"
      BY <1>15, ResumeSandboxMove, <2>4 DEF Moved, Went, Back
    <3>2. caller[d].s \in Sessions /\ lock[caller[d].s] = d /\ ent[caller[d].s].state # "creating"
      BY <3>1, Bounds DEF OpInv, LockInv, HeldPC, ClosePC, CreatePC, ResumedPC, TableInv, Known
    <3>3. caller[d].s # s
      BY <1>15, ResumeSandboxMove, <2>1, <3>1, <3>2 DEF LockInv, TableInv, OpInv, HeldPC, ResumedPC, CreatePC
    <3> QED BY <2>2, <3>1, <3>2, <3>3 DEF OwnedInv
  <2>5. ASSUME NEW t \in Sessions, sandbox'[t] \in {"running", "paused"}
        PROVE  t \in table' \/ t \in unsure' \/ \E d \in Callers : caller'[d].s = t /\ caller'[d].op = "create"
    BY <2>2, <2>3, <2>5 DEF OwnedInv
  <2> QED BY <2>4, <2>5 DEF OwnedInv
<1>16. ASSUME NEW c \in Callers, Relaunch(c)
      PROVE  OwnedInv'
    BY <1>16, RelaunchMove DEF Back, Moved, OwnedInv, OpInv, ClosePC, CreatePC,
       ResumedPC, HeldPC
<1>17. ASSUME NEW c \in Callers, Reconnect(c)
      PROVE  OwnedInv'
    BY <1>17, ReconnectMove DEF Went, Moved, external, OwnedInv
<1>18. ASSUME NEW c \in Callers, ResumeKill(c)
      PROVE  OwnedInv'
    BY <1>18, ResumeKillMove DEF Back, Moved, OwnedInv, OpInv, ClosePC, CreatePC,
       ResumedPC, HeldPC
<1>19. ASSUME NEW c \in Callers, Resumed(c)
      PROVE  OwnedInv'
    BY <1>19, ResumedMove DEF Back, Entered, Moved, external, OwnedInv, OpInv, ClosePC,
       CreatePC, ResumedPC, HeldPC
<1>20. ASSUME NEW c \in Callers, DestroySession(c)
      PROVE  OwnedInv'
    BY <1>20, DestroySessionMove DEF Called, Moved, external, OwnedInv, OpInv
<1>21. ASSUME NEW c \in Callers, DestroyLock(c)
      PROVE  OwnedInv'
    BY <1>21, DestroyLockMove DEF Went, Moved, external, OwnedInv
<1>22. ASSUME NEW c \in Callers, DestroyAgent(c)
      PROVE  OwnedInv'
    BY <1>22, DestroyAgentMove DEF Went, Moved, OwnedInv
<1>23. ASSUME NEW c \in Callers, DestroyKill(c)
      PROVE  OwnedInv'
    BY <1>23, DestroyKillMove DEF Went, Moved, OwnedInv
<1>24. ASSUME NEW c \in Callers, DestroySandbox(c)
      PROVE  OwnedInv'
    BY <1>24, DestroySandboxMove DEF Went, Moved, OwnedInv, OpInv, TypeOK, ClosePC,
       CreatePC, ResumedPC, HeldPC
<1>25. ASSUME NEW c \in Callers, DestroyEnds(c)
      PROVE  OwnedInv'
  <2> DEFINE s == caller[c].s
  <2>1. s \in Sessions
    BY <1>25, DestroyEndsMove DEF OpInv, ClosePC
  <2>2. ASSUME NEW t \in Sessions, t # s
        PROVE  /\ sandbox'[t] = sandbox[t]
               /\ t \in table => t \in table'
               /\ t \in unsure => t \in unsure'
               /\ \A d \in Callers : caller[d].s = t => caller'[d].s = t /\ caller'[d].op = caller[d].op
    BY <1>25, DestroyEndsMove, <2>1, <2>2 DEF Moved, Went, Back, TypeOK
  <2>3. sandbox'[s] \in {"running", "paused"} =>
          s \in table' \/ s \in unsure' \/ (caller'[c].s = s /\ caller'[c].op = "create")
    BY <1>25, DestroyEndsMove, <2>1 DEF Moved, Went, Back, TypeOK, OpInv, OwnedInv, CreateInv, HeldInv, TableInv, CreatePC, ResumedPC
  <2>4. ASSUME NEW d \in Callers, caller'[d].pc = "closeService"
        PROVE  sandbox'[caller'[d].s] \notin {"running", "paused"} \/ caller'[d].s \in unsure'
    <3>1. d # c /\ caller'[d] = caller[d] /\ caller[d].pc = "closeService"
      BY <1>25, DestroyEndsMove, <2>4 DEF Moved, Went, Back
    <3>2. caller[d].s \in Sessions /\ lock[caller[d].s] = d /\ ent[caller[d].s].state # "creating"
      BY <3>1, Bounds DEF OpInv, LockInv, HeldPC, ClosePC, CreatePC, ResumedPC, TableInv, Known
    <3>3. caller[d].s # s
      BY <1>25, DestroyEndsMove, <2>1, <3>1, <3>2 DEF LockInv, TableInv, OpInv, HeldPC, ResumedPC, CreatePC
    <3> QED BY <2>2, <3>1, <3>2, <3>3 DEF OwnedInv
  <2>5. ASSUME NEW t \in Sessions, sandbox'[t] \in {"running", "paused"}
        PROVE  t \in table' \/ t \in unsure' \/ \E d \in Callers : caller'[d].s = t /\ caller'[d].op = "create"
    BY <2>2, <2>3, <2>5 DEF OwnedInv
  <2> QED BY <2>4, <2>5 DEF OwnedInv
<1>26. ASSUME NEW c \in Callers, Close(c)
      PROVE  OwnedInv'
    BY <1>26, CloseMove DEF Called, Moved, external, OwnedInv, OpInv
<1>27. ASSUME NEW c \in Callers, CloseWaitHealth(c) \/ CloseWaitOps(c)
      PROVE  OwnedInv'
    BY <1>27, CloseWaitMove DEF Went, Moved, external, OwnedInv
<1>28. ASSUME NEW c \in Callers, CloseNext(c)
      PROVE  OwnedInv'
    BY <1>28, CloseNextMove DEF Went, Moved, external, OwnedInv, OpInv, ClosePC,
       CreatePC, ResumedPC, HeldPC
<1>29. ASSUME NEW c \in Callers, CloseShared(c)
      PROVE  OwnedInv'
    BY <1>29, CloseSharedMove DEF Back, Moved, OwnedInv, OpInv, ClosePC, CreatePC,
       ResumedPC, HeldPC
<1>30. CASE HealthTick \/ HealthLook
    BY <1>30, HealthMove DEF external, OwnedInv
<1>31. CASE HealthApply
    BY <1>31, HealthApplyMove DEF Entered, external, OwnedInv
<1> QED BY <1>1, <1>2, <1>3, <1>4, <1>5, <1>6, <1>7, <1>8, <1>9, <1>10, <1>11, <1>12, <1>13, <1>14,
       <1>15, <1>16, <1>17, <1>18, <1>19, <1>20, <1>21, <1>22, <1>23, <1>24, <1>25,
       <1>26, <1>27, <1>28, <1>29, <1>30, <1>31
       DEF Next, CallerCalls, CallerStep, HealthStep

\* A session that takes calls runs.
LEMMA ServeStep ==
    ASSUME TypeOK, OpInv, LockInv, TableInv, HeldInv, CreateInv, ResumeInv, ServeInv, Next
    PROVE  ServeInv'
<1>1. ASSUME NEW c \in Callers, CreateSession(c)
      PROVE  ServeInv'
    BY <1>1, CreateSessionMove DEF Called, Entered, Moved, external, ServeInv, HeldPC,
       OpInv, TypeOK, ClosePC, CreatePC, ResumedPC
<1>2. ASSUME NEW c \in Callers, CreateSandbox(c)
      PROVE  ServeInv'
    BY <1>2, CreateSandboxMove DEF Went, Back, Moved, ServeInv, HeldPC, OpInv, TypeOK,
       ClosePC, CreatePC, ResumedPC
<1>3. ASSUME NEW c \in Callers, LaunchProcess(c)
      PROVE  ServeInv'
    BY <1>3, LaunchProcessMove, SMTT(20) DEF Moved, ServeInv, HeldPC, OpInv, TypeOK,
       ClosePC, CreatePC, ResumedPC
<1>4. ASSUME NEW c \in Callers, AgentServiceFactory(c)
      PROVE  ServeInv'
    BY <1>4, AgentServiceFactoryMove DEF Went, Moved, external, ServeInv, HeldPC
<1>5. ASSUME NEW c \in Callers, BackendCreateSession(c) \/ createToolsSandboxSession(c)
      PROVE  ServeInv'
    BY <1>5, BackendCreateSessionMove DEF Went, Moved, ServeInv, HeldPC
<1>6. ASSUME NEW c \in Callers, AddSession(c)
      PROVE  ServeInv'
    BY <1>6, AddSessionMove, Bounds, SMTT(20) DEF Went, Back, Entered, Moved, external,
       ServeInv, HeldPC, OpInv, TypeOK, CreateInv, TableInv, Known, Local, ClosePC,
       CreatePC, ResumedPC
<1>7. ASSUME NEW c \in Callers, UndoSession(c)
      PROVE  ServeInv'
    BY <1>7, UndoSessionMove DEF Went, Moved, ServeInv, HeldPC
<1>8. ASSUME NEW c \in Callers, UndoKill(c)
      PROVE  ServeInv'
    BY <1>8, UndoKillMove, Bounds, SMTT(20) DEF Went, Moved, ServeInv, HeldPC, OpInv,
       TypeOK, TableInv, Known, HeldInv, ClosePC, CreatePC, ResumedPC
<1>9. ASSUME NEW c \in Callers, UndoSandbox(c)
      PROVE  ServeInv'
    BY <1>9, UndoSandboxMove, Bounds DEF Back, Moved, ServeInv, HeldPC, OpInv, TypeOK,
       TableInv, Known, HeldInv, ClosePC, CreatePC, ResumedPC
<1>10. ASSUME NEW c \in Callers, SnapshotProxyTarget(c)
      PROVE  ServeInv'
    BY <1>10, SnapshotMove DEF Called, Moved, external, ServeInv, HeldPC
<1>11. ASSUME NEW c \in Callers, Forward(c)
      PROVE  ServeInv'
    BY <1>11, ForwardMove DEF Back, Moved, ServeInv, HeldPC
<1>12. ASSUME NEW c \in Callers, PauseSession(c) \/ ResumeSessionSandbox(c)
      PROVE  ServeInv'
    BY <1>12, ControlMove DEF Called, Moved, external, ServeInv, HeldPC
<1>13. ASSUME NEW c \in Callers, PauseLock(c) \/ ResumeLock(c)
      PROVE  ServeInv'
    BY <1>13, TakeLockMove DEF Went, Back, Moved, external, ServeInv, HeldPC
<1>14. ASSUME NEW c \in Callers, PauseSandbox(c)
      PROVE  ServeInv'
    BY <1>14, PauseSandboxMove DEF Back, Entered, Moved, ServeInv, HeldPC, OpInv,
       TypeOK, ClosePC, CreatePC, ResumedPC
<1>15. ASSUME NEW c \in Callers, ResumeSandbox(c)
      PROVE  ServeInv'
    BY <1>15, ResumeSandboxMove DEF Went, Back, Moved, ServeInv, HeldPC, OpInv, TypeOK,
       ClosePC, CreatePC, ResumedPC
<1>16. ASSUME NEW c \in Callers, Relaunch(c)
      PROVE  ServeInv'
    BY <1>16, RelaunchMove DEF Back, Moved, ServeInv, HeldPC, OpInv, TypeOK, ClosePC,
       CreatePC, ResumedPC
<1>17. ASSUME NEW c \in Callers, Reconnect(c)
      PROVE  ServeInv'
    BY <1>17, ReconnectMove DEF Went, Moved, external, ServeInv, HeldPC
<1>18. ASSUME NEW c \in Callers, ResumeKill(c)
      PROVE  ServeInv'
    BY <1>18, ResumeKillMove, Bounds DEF Back, Moved, ServeInv, HeldPC, Went, Called,
       Entered, OpInv, LockInv, TableInv, HeldInv, CreateInv, ResumeInv, Known, Local,
       ClosePC, CreatePC, ResumedPC, TypeOK, external
<1>19. ASSUME NEW c \in Callers, Resumed(c)
      PROVE  ServeInv'
    BY <1>19, ResumedMove, Bounds DEF Back, Entered, Moved, external, ServeInv, HeldPC,
       Went, Called, OpInv, LockInv, TableInv, HeldInv, CreateInv, ResumeInv, Known, Local,
       ClosePC, CreatePC, ResumedPC, TypeOK
<1>20. ASSUME NEW c \in Callers, DestroySession(c)
      PROVE  ServeInv'
    BY <1>20, DestroySessionMove DEF Called, Moved, external, ServeInv, HeldPC
<1>21. ASSUME NEW c \in Callers, DestroyLock(c)
      PROVE  ServeInv'
    BY <1>21, DestroyLockMove DEF Went, Moved, external, ServeInv, HeldPC
<1>22. ASSUME NEW c \in Callers, DestroyAgent(c)
      PROVE  ServeInv'
    BY <1>22, DestroyAgentMove DEF Went, Moved, ServeInv, HeldPC
<1>23. ASSUME NEW c \in Callers, DestroyKill(c)
      PROVE  ServeInv'
    BY <1>23, DestroyKillMove DEF Went, Moved, ServeInv, HeldPC, OpInv, TypeOK, ClosePC,
       CreatePC, ResumedPC
<1>24. ASSUME NEW c \in Callers, DestroySandbox(c)
      PROVE  ServeInv'
    BY <1>24, DestroySandboxMove DEF Went, Moved, ServeInv, HeldPC, OpInv, TypeOK,
       ClosePC, CreatePC, ResumedPC
<1>25. ASSUME NEW c \in Callers, DestroyEnds(c)
      PROVE  ServeInv'
    BY <1>25, DestroyEndsMove DEF Went, Back, Entered, Moved, ServeInv, HeldPC, OpInv,
       TypeOK, ClosePC, CreatePC, ResumedPC
<1>26. ASSUME NEW c \in Callers, Close(c)
      PROVE  ServeInv'
    BY <1>26, CloseMove DEF Called, Moved, external, ServeInv, HeldPC
<1>27. ASSUME NEW c \in Callers, CloseWaitHealth(c) \/ CloseWaitOps(c)
      PROVE  ServeInv'
    BY <1>27, CloseWaitMove DEF Went, Moved, external, ServeInv, HeldPC
<1>28. ASSUME NEW c \in Callers, CloseNext(c)
      PROVE  ServeInv'
    BY <1>28, CloseNextMove DEF Went, Moved, external, ServeInv, HeldPC
<1>29. ASSUME NEW c \in Callers, CloseShared(c)
      PROVE  ServeInv'
    BY <1>29, CloseSharedMove DEF Back, Moved, ServeInv, HeldPC
<1>30. CASE HealthTick \/ HealthLook
    BY <1>30, HealthMove DEF external, ServeInv, HeldPC
<1>31. CASE HealthApply
    BY <1>31, HealthApplyMove DEF Entered, external, ServeInv, HeldPC, OpInv, TypeOK,
       ClosePC, CreatePC, ResumedPC
<1> QED BY <1>1, <1>2, <1>3, <1>4, <1>5, <1>6, <1>7, <1>8, <1>9, <1>10, <1>11, <1>12, <1>13, <1>14,
       <1>15, <1>16, <1>17, <1>18, <1>19, <1>20, <1>21, <1>22, <1>23, <1>24, <1>25,
       <1>26, <1>27, <1>28, <1>29, <1>30, <1>31
       DEF Next, CallerCalls, CallerStep, HealthStep

\* The processes of an entry are known.
LEMMA ProcsStep ==
    ASSUME TypeOK, OpInv, LockInv, TableInv, HeldInv, CreateInv, ResumeInv, ProcsInv, Next
    PROVE  ProcsInv'
<1>1. ASSUME NEW c \in Callers, CreateSession(c)
      PROVE  ProcsInv'
    BY <1>1, CreateSessionMove DEF Called, Entered, Moved, external, ProcsInv, Launched,
       OpInv, TypeOK, ClosePC, CreatePC, ResumedPC, HeldPC
<1>2. ASSUME NEW c \in Callers, CreateSandbox(c)
      PROVE  ProcsInv'
    BY <1>2, CreateSandboxMove DEF Went, Back, Moved, ProcsInv, Launched
<1>3. ASSUME NEW c \in Callers, LaunchProcess(c)
      PROVE  ProcsInv'
  <2> DEFINE s == caller[c].s
  <2>1. s \in Sessions /\ s \notin table
    BY <1>3, LaunchProcessMove DEF OpInv, ClosePC, CreatePC, TableInv
  <2>2. ASSUME NEW t \in table
        PROVE  /\ procs'[t] = procs[t] /\ ent'[t] = ent[t] /\ (t \notin unsureProc' => t \notin unsureProc)
               /\ Launched(t) \subseteq Launched(t)'
    BY <1>3, LaunchProcessMove, <2>1 DEF Moved, TypeOK, Launched
  <2> QED BY <1>3, LaunchProcessMove, <2>2 DEF ProcsInv
<1>4. ASSUME NEW c \in Callers, AgentServiceFactory(c)
      PROVE  ProcsInv'
    BY <1>4, AgentServiceFactoryMove DEF Went, Moved, external, ProcsInv, Launched
<1>5. ASSUME NEW c \in Callers, BackendCreateSession(c) \/ createToolsSandboxSession(c)
      PROVE  ProcsInv'
    BY <1>5, BackendCreateSessionMove DEF Went, Moved, ProcsInv, Launched
<1>6. ASSUME NEW c \in Callers, AddSession(c)
      PROVE  ProcsInv'
  <2> DEFINE s == caller[c].s
  <2>1. s \in Sessions /\ caller[c].op = "create"
    BY <1>6, AddSessionMove DEF OpInv, ClosePC, CreatePC
  <2>2. \A t \in Sessions : Launched(t) \subseteq Launched(t)'
    BY <1>6, AddSessionMove DEF Moved, Went, Back, Launched
  <2>3. CASE Went(c, "undoSession") /\ UNCHANGED <<table, ent, wg>>
    BY <1>6, AddSessionMove, <2>2, <2>3 DEF ProcsInv, TypeOK, external
  <2>4. CASE table' = table \cup {s} /\ Entered(s, "active", caller[c].proc)
    <3>1. s \in unsureProc \/ procs[s] \subseteq {caller[c].proc}
      BY <1>6, AddSessionMove, <2>1 DEF CreateInv
    <3>2. ent'[s].state = "active" /\ ent'[s].proc = caller[c].proc /\ \A t \in table : t # s => ent'[t] = ent[t]
      BY <2>4 DEF Entered, TypeOK
    <3>3. UNCHANGED <<procs, unsureProc>>
      BY <1>6, AddSessionMove DEF external
    <3> QED BY <2>1, <2>2, <2>4, <3>1, <3>2, <3>3 DEF ProcsInv, TypeOK
  <2> QED BY <1>6, AddSessionMove, <2>3, <2>4
<1>7. ASSUME NEW c \in Callers, UndoSession(c)
      PROVE  ProcsInv'
    BY <1>7, UndoSessionMove DEF Went, Moved, ProcsInv, Launched
<1>8. ASSUME NEW c \in Callers, UndoKill(c)
      PROVE  ProcsInv'
    BY <1>8, UndoKillMove DEF Went, Moved, ProcsInv, Launched, OpInv, TypeOK, ClosePC,
       CreatePC, ResumedPC, HeldPC
<1>9. ASSUME NEW c \in Callers, UndoSandbox(c)
      PROVE  ProcsInv'
    BY <1>9, UndoSandboxMove DEF Back, Moved, ProcsInv, Launched, OpInv, TypeOK,
       ClosePC, CreatePC, ResumedPC, HeldPC
<1>10. ASSUME NEW c \in Callers, SnapshotProxyTarget(c)
      PROVE  ProcsInv'
    BY <1>10, SnapshotMove DEF Called, Moved, external, ProcsInv, Launched
<1>11. ASSUME NEW c \in Callers, Forward(c)
      PROVE  ProcsInv'
    BY <1>11, ForwardMove DEF Back, Moved, ProcsInv, Launched
<1>12. ASSUME NEW c \in Callers, PauseSession(c) \/ ResumeSessionSandbox(c)
      PROVE  ProcsInv'
    BY <1>12, ControlMove DEF Called, Moved, external, ProcsInv, Launched
<1>13. ASSUME NEW c \in Callers, PauseLock(c) \/ ResumeLock(c)
      PROVE  ProcsInv'
    BY <1>13, TakeLockMove DEF Went, Back, Moved, external, ProcsInv, Launched
<1>14. ASSUME NEW c \in Callers, PauseSandbox(c)
      PROVE  ProcsInv'
    BY <1>14, PauseSandboxMove, SMTT(20) DEF Back, Entered, Moved, ProcsInv, Launched,
       OpInv, TypeOK, ClosePC, CreatePC, ResumedPC, HeldPC
<1>15. ASSUME NEW c \in Callers, ResumeSandbox(c)
      PROVE  ProcsInv'
    BY <1>15, ResumeSandboxMove DEF Went, Back, Moved, ProcsInv, Launched
<1>16. ASSUME NEW c \in Callers, Relaunch(c)
      PROVE  ProcsInv'
  <2> DEFINE s == caller[c].s
             p == ent[s].proc + 1
  <2>1. s \in Sessions /\ p \in 1..MaxProcs
    BY <1>16, RelaunchMove DEF OpInv, ClosePC
  <2>2. /\ table' = table /\ ent' = ent /\ unsureProc \subseteq unsureProc'
        /\ procs' = procs \/ procs' = [procs EXCEPT ![s] = @ \cup {p}]
        /\ \A t \in Sessions : t # s => procs'[t] = procs[t]
        /\ procs' = procs \/ s \in unsureProc' \/ Moved(c, "reconnect", caller[c].op, s, p, caller[c].todo)
        /\ caller[c].pc = "relaunch" /\ \A d \in Callers : d # c => caller'[d] = caller[d]
    BY <1>16, RelaunchMove, <2>1 DEF Moved, Back, TypeOK
  <2>3. \A t \in Sessions : Launched(t) \subseteq Launched(t)'
    BY <2>2 DEF Launched
  <2>4. \A t : t = s /\ Moved(c, "reconnect", caller[c].op, s, p, caller[c].todo) => p \in Launched(t)'
    BY DEF Moved, Launched
  <2> HIDE DEF p
  <2>5. \A t \in Sessions : t \notin unsureProc' => procs'[t] \subseteq procs[t] \cup Launched(t)'
    <3>1. ASSUME NEW t \in Sessions, t = s
          PROVE  t \in unsureProc' \/ procs'[t] \subseteq procs[t] \cup Launched(t)'
      BY <2>1, <2>2, <2>4, <3>1 DEF TypeOK
    <3> QED BY <2>2, <3>1
  <2> QED BY <2>2, <2>3, <2>5 DEF ProcsInv, TypeOK
<1>17. ASSUME NEW c \in Callers, Reconnect(c)
      PROVE  ProcsInv'
    BY <1>17, ReconnectMove DEF Went, Moved, external, ProcsInv, Launched
<1>18. ASSUME NEW c \in Callers, ResumeKill(c)
      PROVE  ProcsInv'
  <2> DEFINE s == caller[c].s
  <2>1. s \in Sessions /\ caller[c].pc = "resumeKill" /\ lock[s] = c
    BY <1>18, ResumeKillMove DEF OpInv, ClosePC, LockInv, ResumedPC
  <2>2. Launched(s) \subseteq {caller[c].proc}
    BY <2>1 DEF LockInv, ResumedPC, Launched
  <2>3. \A t \in Sessions : t # s => Launched(t) \subseteq Launched(t)' /\ procs'[t] = procs[t]
    BY <1>18, ResumeKillMove, <2>1 DEF Launched, Back, Moved, TypeOK
  <2>4. UNCHANGED <<table, ent>> /\ unsureProc \subseteq unsureProc'
    BY <1>18, ResumeKillMove
  <2>5. s \in unsureProc' \/ procs'[s] \subseteq procs[s] \ {caller[c].proc}
    BY <1>18, ResumeKillMove, <2>1 DEF TypeOK
  <2>6. ent[s].placement = "agent-direct" /\ ent[s].state = "paused"
    BY <2>1 DEF ResumeInv, HeldInv, ResumedPC
  <2>7. s \in table /\ s \notin unsureProc' => procs'[s] = {}
    BY <2>2, <2>4, <2>5, <2>6 DEF ProcsInv
  <2> QED BY <2>1, <2>3, <2>4, <2>7 DEF ProcsInv, TypeOK
<1>19. ASSUME NEW c \in Callers, Resumed(c)
      PROVE  ProcsInv'
  <2> DEFINE s == caller[c].s
  <2>1. s \in Sessions /\ caller[c].pc = "resumed" /\ lock[s] = c
    BY <1>19, ResumedMove DEF OpInv, ClosePC, LockInv, ResumedPC
  <2>2. Launched(s) \subseteq {caller[c].proc}
    BY <2>1 DEF LockInv, ResumedPC, Launched
  <2>3. \A t \in Sessions : t # s => Launched(t) \subseteq Launched(t)' /\ ent'[t] = ent[t]
    BY <1>19, ResumedMove, <2>1 DEF Launched, Back, Moved, Entered
  <2>4. /\ ent'[s].proc = IF caller[c].proc = 0 THEN ent[s].proc ELSE caller[c].proc
        /\ ent'[s].state = "active" /\ UNCHANGED <<table, procs, unsureProc>>
    BY <1>19, ResumedMove DEF Entered, external
  <2>5. /\ ent[s].state = "paused"
        /\ (ent[s].placement = "agent-direct" /\ caller[c].proc # 0) \/ caller[c].proc = 0
    BY <2>1 DEF HeldInv, ResumedPC, ResumeInv
  <2>6. s \in table /\ s \notin unsureProc => procs[s] \subseteq {ent'[s].proc}
    <3>1. 0 \notin procs[s]
      BY <2>1, Bounds DEF TypeOK
    <3> QED BY <2>2, <2>4, <2>5, <3>1 DEF ProcsInv
  <2> QED BY <2>1, <2>3, <2>4, <2>6 DEF ProcsInv, TypeOK
<1>20. ASSUME NEW c \in Callers, DestroySession(c)
      PROVE  ProcsInv'
    BY <1>20, DestroySessionMove DEF Called, Moved, external, ProcsInv, Launched
<1>21. ASSUME NEW c \in Callers, DestroyLock(c)
      PROVE  ProcsInv'
    BY <1>21, DestroyLockMove DEF Went, Moved, external, ProcsInv, Launched
<1>22. ASSUME NEW c \in Callers, DestroyAgent(c)
      PROVE  ProcsInv'
    BY <1>22, DestroyAgentMove DEF Went, Moved, ProcsInv, Launched
<1>23. ASSUME NEW c \in Callers, DestroyKill(c)
      PROVE  ProcsInv'
  <2> DEFINE s == caller[c].s
  <2>1. s \in Sessions
    BY <1>23, DestroyKillMove DEF OpInv, ClosePC
  <2>2. ASSUME NEW t \in table
        PROVE  /\ procs'[t] \subseteq procs[t] /\ ent'[t] = ent[t] /\ (t \notin unsureProc' => t \notin unsureProc)
               /\ Launched(t) \subseteq Launched(t)'
    <3>1. ent'[t] = ent[t] /\ (t \notin unsureProc' => t \notin unsureProc)
      BY <1>23, DestroyKillMove
    <3>2. procs'[t] \subseteq procs[t]
      BY <1>23, DestroyKillMove, <2>1 DEF TypeOK
    <3>3. Launched(t) \subseteq Launched(t)'
      BY <1>23, DestroyKillMove DEF Moved, Went, Launched
    <3> QED BY <3>1, <3>2, <3>3
  <2> QED BY <1>23, DestroyKillMove, <2>2 DEF ProcsInv
<1>24. ASSUME NEW c \in Callers, DestroySandbox(c)
      PROVE  ProcsInv'
  <2> DEFINE s == caller[c].s
  <2>1. s \in Sessions
    BY <1>24, DestroySandboxMove DEF OpInv, ClosePC
  <2>2. ASSUME NEW t \in table
        PROVE  /\ procs'[t] \subseteq procs[t] /\ ent'[t] = ent[t] /\ (t \notin unsureProc' => t \notin unsureProc)
               /\ Launched(t) \subseteq Launched(t)'
    <3>1. ent'[t] = ent[t] /\ (t \notin unsureProc' => t \notin unsureProc)
      BY <1>24, DestroySandboxMove
    <3>2. procs'[t] \subseteq procs[t]
      BY <1>24, DestroySandboxMove, <2>1 DEF TypeOK
    <3>3. Launched(t) \subseteq Launched(t)'
      BY <1>24, DestroySandboxMove DEF Moved, Went, Launched
    <3> QED BY <3>1, <3>2, <3>3
  <2> QED BY <1>24, DestroySandboxMove, <2>2 DEF ProcsInv
<1>25. ASSUME NEW c \in Callers, DestroyEnds(c)
      PROVE  ProcsInv'
    BY <1>25, DestroyEndsMove, SMTT(20) DEF Went, Back, Entered, Moved, ProcsInv,
       Launched, OpInv, TypeOK, ClosePC, CreatePC, ResumedPC, HeldPC
<1>26. ASSUME NEW c \in Callers, Close(c)
      PROVE  ProcsInv'
    BY <1>26, CloseMove DEF Called, Moved, external, ProcsInv, Launched
<1>27. ASSUME NEW c \in Callers, CloseWaitHealth(c) \/ CloseWaitOps(c)
      PROVE  ProcsInv'
    BY <1>27, CloseWaitMove DEF Went, Moved, external, ProcsInv, Launched
<1>28. ASSUME NEW c \in Callers, CloseNext(c)
      PROVE  ProcsInv'
    BY <1>28, CloseNextMove DEF Went, Moved, external, ProcsInv, Launched
<1>29. ASSUME NEW c \in Callers, CloseShared(c)
      PROVE  ProcsInv'
    BY <1>29, CloseSharedMove DEF Back, Moved, ProcsInv, Launched
<1>30. CASE HealthTick \/ HealthLook
    BY <1>30, HealthMove DEF external, ProcsInv, Launched
<1>31. CASE HealthApply
    BY <1>31, HealthApplyMove DEF Entered, external, ProcsInv, Launched, OpInv, TypeOK,
       ClosePC, CreatePC, ResumedPC, HeldPC
<1> QED BY <1>1, <1>2, <1>3, <1>4, <1>5, <1>6, <1>7, <1>8, <1>9, <1>10, <1>11, <1>12, <1>13, <1>14,
       <1>15, <1>16, <1>17, <1>18, <1>19, <1>20, <1>21, <1>22, <1>23, <1>24, <1>25,
       <1>26, <1>27, <1>28, <1>29, <1>30, <1>31
       DEF Next, CallerCalls, CallerStep, HealthStep

\* Close waits for the operations and takes the rest.
LEMMA CloseStep ==
    ASSUME TypeOK, OpInv, LockInv, TableInv, HeldInv, CreateInv, WgInv, CloseInv, Next
    PROVE  CloseInv'
<1>1. ASSUME NEW c \in Callers, CreateSession(c)
      PROVE  CloseInv'
    BY <1>1, CreateSessionMove DEF Called, Entered, Moved, external, CloseInv, InOps,
       Closed
<1>2. ASSUME NEW c \in Callers, CreateSandbox(c)
      PROVE  CloseInv'
    BY <1>2, CreateSandboxMove DEF Went, Back, Moved, CloseInv, InOps, Closed, OpInv,
       ClosePC, CreatePC, ResumedPC, HeldPC
<1>3. ASSUME NEW c \in Callers, LaunchProcess(c)
      PROVE  CloseInv'
    BY <1>3, LaunchProcessMove DEF Moved, CloseInv, InOps, Closed
<1>4. ASSUME NEW c \in Callers, AgentServiceFactory(c)
      PROVE  CloseInv'
    BY <1>4, AgentServiceFactoryMove DEF Went, Moved, external, CloseInv, InOps, Closed
<1>5. ASSUME NEW c \in Callers, BackendCreateSession(c) \/ createToolsSandboxSession(c)
      PROVE  CloseInv'
    BY <1>5, BackendCreateSessionMove DEF Went, Moved, CloseInv, InOps, Closed
<1>6. ASSUME NEW c \in Callers, AddSession(c)
      PROVE  CloseInv'
    BY <1>6, AddSessionMove DEF Went, Back, Entered, Moved, external, CloseInv, InOps,
       Closed
<1>7. ASSUME NEW c \in Callers, UndoSession(c)
      PROVE  CloseInv'
    BY <1>7, UndoSessionMove DEF Went, Moved, CloseInv, InOps, Closed
<1>8. ASSUME NEW c \in Callers, UndoKill(c)
      PROVE  CloseInv'
    BY <1>8, UndoKillMove DEF Went, Moved, CloseInv, InOps, Closed
<1>9. ASSUME NEW c \in Callers, UndoSandbox(c)
      PROVE  CloseInv'
    BY <1>9, UndoSandboxMove DEF Back, Moved, CloseInv, InOps, Closed, OpInv, ClosePC,
       CreatePC, ResumedPC, HeldPC
<1>10. ASSUME NEW c \in Callers, SnapshotProxyTarget(c)
      PROVE  CloseInv'
    BY <1>10, SnapshotMove DEF Called, Moved, external, CloseInv, InOps, Closed, OpInv
<1>11. ASSUME NEW c \in Callers, Forward(c)
      PROVE  CloseInv'
    BY <1>11, ForwardMove DEF Back, Moved, CloseInv, InOps, Closed, OpInv
<1>12. ASSUME NEW c \in Callers, PauseSession(c) \/ ResumeSessionSandbox(c)
      PROVE  CloseInv'
    BY <1>12, ControlMove DEF Called, Moved, external, CloseInv, InOps, Closed, OpInv
<1>13. ASSUME NEW c \in Callers, PauseLock(c) \/ ResumeLock(c)
      PROVE  CloseInv'
    BY <1>13, TakeLockMove DEF Went, Back, Moved, external, CloseInv, InOps, Closed,
       OpInv
<1>14. ASSUME NEW c \in Callers, PauseSandbox(c)
      PROVE  CloseInv'
    BY <1>14, PauseSandboxMove DEF Back, Entered, Moved, CloseInv, InOps, Closed, OpInv
<1>15. ASSUME NEW c \in Callers, ResumeSandbox(c)
      PROVE  CloseInv'
    BY <1>15, ResumeSandboxMove DEF Went, Back, Moved, CloseInv, InOps, Closed, OpInv,
       ClosePC, CreatePC, ResumedPC, HeldPC
<1>16. ASSUME NEW c \in Callers, Relaunch(c)
      PROVE  CloseInv'
    BY <1>16, RelaunchMove DEF Back, Moved, CloseInv, InOps, Closed, OpInv, ClosePC,
       CreatePC, ResumedPC, HeldPC
<1>17. ASSUME NEW c \in Callers, Reconnect(c)
      PROVE  CloseInv'
    BY <1>17, ReconnectMove DEF Went, Moved, external, CloseInv, InOps, Closed
<1>18. ASSUME NEW c \in Callers, ResumeKill(c)
      PROVE  CloseInv'
    BY <1>18, ResumeKillMove DEF Back, Moved, CloseInv, InOps, Closed, OpInv, ClosePC,
       CreatePC, ResumedPC, HeldPC
<1>19. ASSUME NEW c \in Callers, Resumed(c)
      PROVE  CloseInv'
    BY <1>19, ResumedMove DEF Back, Entered, Moved, external, CloseInv, InOps, Closed,
       OpInv, ClosePC, CreatePC, ResumedPC, HeldPC
<1>20. ASSUME NEW c \in Callers, DestroySession(c)
      PROVE  CloseInv'
    BY <1>20, DestroySessionMove DEF Called, Moved, external, CloseInv, InOps, Closed
<1>21. ASSUME NEW c \in Callers, DestroyLock(c)
      PROVE  CloseInv'
    BY <1>21, DestroyLockMove DEF Went, Moved, external, CloseInv, InOps, Closed
<1>22. ASSUME NEW c \in Callers, DestroyAgent(c)
      PROVE  CloseInv'
    BY <1>22, DestroyAgentMove DEF Went, Moved, CloseInv, InOps, Closed
<1>23. ASSUME NEW c \in Callers, DestroyKill(c)
      PROVE  CloseInv'
    BY <1>23, DestroyKillMove DEF Went, Moved, CloseInv, InOps, Closed
<1>24. ASSUME NEW c \in Callers, DestroySandbox(c)
      PROVE  CloseInv'
    BY <1>24, DestroySandboxMove DEF Went, Moved, CloseInv, InOps, Closed
<1>25. ASSUME NEW c \in Callers, DestroyEnds(c)
      PROVE  CloseInv'
    BY <1>25, DestroyEndsMove DEF Went, Back, Entered, Moved, CloseInv, InOps, Closed
<1>26. ASSUME NEW c \in Callers, Close(c)
      PROVE  CloseInv'
    BY <1>26, CloseMove DEF Called, Moved, external, CloseInv, InOps, Closed
<1>27. ASSUME NEW c \in Callers, CloseWaitHealth(c) \/ CloseWaitOps(c)
      PROVE  CloseInv'
  <2>1. CASE caller[c].pc = "waitHealth" /\ Went(c, "waitOps")
    BY <1>27, CloseWaitMove, <2>1 DEF Moved, Went, Back, Called, Entered, OpInv, LockInv, TableInv, CloseInv, Closed, InOps, Known, ClosePC, CreatePC, ResumedPC, HeldPC, TypeOK, external
  <2>2. CASE /\ caller[c].pc = "waitOps" /\ wg = 0
             /\ Moved(c, "closeNext", caller[c].op, caller[c].s, caller[c].proc, table)
    <3>1. InOps = {}
      <4>1. InOps \subseteq Callers
        BY DEF InOps
      <4> QED BY <2>2, <4>1, OrchestratorAssumption, FS_Subset, FS_EmptySet DEF WgInv
    <3> QED BY <1>27, CloseWaitMove, <2>2, <3>1 DEF Moved, Went, Back, Called, Entered, OpInv, LockInv, TableInv, CloseInv, Closed, InOps, Known, ClosePC, CreatePC, ResumedPC, HeldPC, TypeOK, external
  <2> QED BY <1>27, CloseWaitMove, <2>1, <2>2
<1>28. ASSUME NEW c \in Callers, CloseNext(c)
      PROVE  CloseInv'
    BY <1>28, CloseNextMove DEF Went, Moved, external, CloseInv, InOps, Closed
<1>29. ASSUME NEW c \in Callers, CloseShared(c)
      PROVE  CloseInv'
    BY <1>29, CloseSharedMove DEF Back, Moved, CloseInv, InOps, Closed
<1>30. CASE HealthTick \/ HealthLook
    BY <1>30, HealthMove DEF external, CloseInv, InOps, Closed
<1>31. CASE HealthApply
    BY <1>31, HealthApplyMove DEF Entered, external, CloseInv, InOps, Closed
<1> QED BY <1>1, <1>2, <1>3, <1>4, <1>5, <1>6, <1>7, <1>8, <1>9, <1>10, <1>11, <1>12, <1>13, <1>14,
       <1>15, <1>16, <1>17, <1>18, <1>19, <1>20, <1>21, <1>22, <1>23, <1>24, <1>25,
       <1>26, <1>27, <1>28, <1>29, <1>30, <1>31
       DEF Next, CallerCalls, CallerStep, HealthStep

-----------------------------------------------------------------------------
(* The theorems *)

LEMMA OrchInit == Init => OrchInv
<1> SUFFICES ASSUME Init PROVE OrchInv
    OBVIOUS
<1>1. /\ \A c \in Callers : caller[c] = Ready
      /\ \A s \in Sessions : /\ ent[s].state = "none" /\ sandbox[s] = "none" /\ procs[s] = {}
                             /\ lock[s] = None
      /\ table = {} /\ health.pc = "wait" /\ health.todo = {}
    BY DEF Init, HealthIdle
<1>2. TypeOK
  <2>1. /\ caller \in [Callers -> Caller] /\ health \in Health
        /\ ent \in [Sessions -> SessionEntry]
    BY ReadyIs, Bounds DEF Init, HealthIdle, Health, SessionEntry, PlacementMode, SessionState
  <2>2. remote \in [Sessions -> BOOLEAN] /\ closing \in BOOLEAN /\ shared \in BOOLEAN
    BY DEF Init
  <2>3. wg \in Nat /\ calls \in 0..MaxCalls /\ ticks \in 0..MaxTicks
    BY Bounds DEF Init
  <2>4. /\ table \subseteq Sessions /\ unsure \subseteq Sessions /\ unsureProc \subseteq Sessions
        /\ lock \in [Sessions -> Callers \cup {None}]
        /\ sandbox \in [Sessions -> {"none", "running", "paused", "gone"}]
        /\ procs \in [Sessions -> SUBSET (1..MaxProcs)]
    BY DEF Init
  <2> QED BY <2>1, <2>2, <2>3, <2>4 DEF TypeOK
<1>3. InOps = {}
    BY <1>1, ReadyIs DEF InOps
<1>4. WgInv
    BY <1>3, FS_EmptySet DEF Init, WgInv
<1>5. OpInv /\ LockInv /\ TableInv /\ HeldInv /\ CreateInv /\ NoneInv
    BY <1>1, ReadyIs, Bounds DEF OpInv, LockInv, TableInv, HeldInv, CreateInv, NoneInv, CreatePC,
       ResumedPC, HeldPC, ClosePC
<1>6. ProcsInv /\ ResumeInv /\ ServeInv /\ OwnedInv
    BY <1>1, ReadyIs DEF ProcsInv, ResumeInv, ServeInv, OwnedInv
<1>7. CloseInv
    BY <1>1, <1>3, ReadyIs DEF Init, CloseInv, Closed
<1> QED BY <1>2, <1>4, <1>5, <1>6, <1>7 DEF OrchInv

LEMMA OrchStep == OrchInv /\ [Next]_vars => OrchInv'
<1> SUFFICES ASSUME OrchInv, [Next]_vars PROVE OrchInv'
    OBVIOUS
<1> USE DEF OrchInv
<1>1. CASE Next
  <2>1. OpInv' /\ LockInv' /\ WgInv' /\ TypeOK' /\ TableInv' /\ HeldInv'
    BY <1>1, OpStep, LockStep, WgStep, TypeStep, TableStep, HeldStep
  <2>2. CreateInv' /\ NoneInv' /\ ResumeInv' /\ OwnedInv' /\ ServeInv' /\ ProcsInv' /\ CloseInv'
    BY <1>1, CreateStep, NoneStep, ResumeStep, OwnedStep, ServeStep, ProcsStep, CloseStep
  <2> QED BY <2>1, <2>2
<1>2. CASE UNCHANGED vars
  <2>1. /\ TypeOK' /\ OpInv' /\ WgInv' /\ LockInv' /\ TableInv' /\ HeldInv' /\ CreateInv'
    BY <1>2 DEF vars, TypeOK, OpInv, WgInv, InOps, LockInv, TableInv, Known, HeldInv, CreateInv,
       Local
  <2>2. NoneInv' /\ ProcsInv' /\ ResumeInv' /\ ServeInv' /\ OwnedInv' /\ CloseInv'
    BY <1>2 DEF vars, NoneInv, ProcsInv, Launched, ResumeInv, ServeInv, OwnedInv, CloseInv,
       InOps, Closed
  <2> QED BY <2>1, <2>2
<1> QED BY <1>1, <1>2

\* OrchInv holds in every state the orchestrator can be in.
LEMMA Invariance == Spec => []OrchInv
BY OrchInit, OrchStep, PTL DEF Spec

\* Every variable of the orchestrator keeps its type; in particular the
\* WaitGroup of beginOperation and endOperation never goes below zero.
THEOREM TypeCorrect == Spec => []TypeOK
<1>1. OrchInv => TypeOK
    BY DEF OrchInv
<1> QED BY <1>1, Invariance, PTL

\* Nothing is leaked, whatever creates, pauses, resumes, destroys and Close
\* interleave: a sandbox that exists is in the table or in the hands of a call,
\* an agent process is the one its entry names, and when Close has returned the
\* table is empty and no sandbox is left, unless a remote call about it failed.
THEOREM NoLeak == Spec => []NothingLeaks
<1>1. ASSUME OrchInv PROVE NothingLeaks
  <2>1. SandboxesOwned
    BY <1>1 DEF OrchInv, OwnedInv, SandboxesOwned, Working
  <2>2. ProcessesOwned
    <3> SUFFICES ASSUME NEW s \in table, NEW p \in procs[s], p # ent[s].proc, s \notin unsureProc
                 PROVE  Working(s, {"create", "resume"})
        BY DEF ProcessesOwned
    <3>1. p \in Launched(s)
        BY <1>1 DEF OrchInv, ProcsInv
    <3>2. PICK c \in Callers : caller[c].s = s /\ caller[c].pc \in {"reconnect", "resumeKill", "resumed"}
        BY <3>1 DEF Launched
    <3>3. caller[c].op = "resume"
        BY <1>1, <3>2 DEF OrchInv, OpInv, ResumedPC
    <3> QED BY <3>2, <3>3 DEF Working
  <2>3. CloseLeavesNothing
    <3> SUFFICES ASSUME Closed PROVE table = {} /\ \A s \in Sessions :
                                       sandbox[s] \in {"running", "paused"} => s \in unsure
        BY DEF CloseLeavesNothing
    <3>1. InOps = {} /\ table = {}
        BY <1>1 DEF OrchInv, CloseInv
    <3>2. \A c \in Callers : caller[c].op # "create"
        BY <3>1 DEF InOps
    <3> QED BY <1>1, <3>1, <3>2 DEF OrchInv, OwnedInv
  <2> QED BY <2>1, <2>2, <2>3 DEF NothingLeaks
<1> QED BY <1>1, Invariance, PTL

\* A session that takes calls has a running sandbox with the agent process its
\* entry names, after any mix of pauses, resumes and late health answers.
THEOREM ServedRun == Spec => []ServedSessionsRun
<1>1. ASSUME OrchInv PROVE ServedSessionsRun
  <2> SUFFICES ASSUME NEW s \in table, ent[s].state \in {"active", "unhealthy"}, lock[s] = None,
                      s \notin unsure
               PROVE  /\ sandbox[s] = "running"
                      /\ ent[s].proc = 0 \/ ent[s].proc \in procs[s] \/ s \in unsureProc
      BY DEF ServedSessionsRun
  <2>1. \A c \in Callers : caller[c].s = s => caller[c].pc \notin HeldPC
      BY <1>1, Bounds DEF OrchInv, LockInv, TypeOK
  <2> QED BY <1>1, <2>1 DEF OrchInv, ServeInv
<1> QED BY <1>1, Invariance, PTL

\* What one step may do to the entry of a destroyed session: nothing.
LEMMA DestroyedStays ==
    ASSUME OrchInv, [Next]_vars, NEW s \in Sessions, ent[s].state = "destroyed"
    PROVE  ent'[s].state = "destroyed"
<1>1. s \notin table
    BY DEF OrchInv, TableInv
<1>2. ASSUME NEW c \in Callers, CreateSession(c) PROVE ent'[s] = ent[s]
    BY <1>2, CreateSessionMove DEF OrchInv, Entered
<1>3. ASSUME NEW c \in Callers, AddSession(c) PROVE ent'[s] = ent[s]
    BY <1>3, AddSessionMove DEF OrchInv, Entered, OpInv, CreatePC, TableInv
<1>4. ASSUME NEW c \in Callers, PauseSandbox(c) PROVE ent'[s] = ent[s]
    BY <1>4, PauseSandboxMove DEF OrchInv, Entered, HeldInv
<1>5. ASSUME NEW c \in Callers, Resumed(c) PROVE ent'[s] = ent[s]
    BY <1>5, ResumedMove DEF OrchInv, Entered, HeldInv, ResumedPC
<1>6. ASSUME NEW c \in Callers, DestroyEnds(c) PROVE ent'[s].state = "destroyed"
    BY <1>6, DestroyEndsMove DEF OrchInv, Entered
<1>7. CASE HealthStep
    BY <1>7, HealthMove, HealthApplyMove DEF HealthStep, OrchInv, Entered
<1>8. ASSUME NEW c \in Callers, CallerCalls(c), ~CreateSession(c) PROVE ent' = ent
    BY <1>8 DEF CallerCalls, SnapshotProxyTarget, PauseSession, ResumeSessionSandbox,
       StartControl, DestroySession, Close
<1>9. ASSUME NEW c \in Callers, CallerStep(c), ~AddSession(c), ~PauseSandbox(c), ~Resumed(c),
             ~DestroyEnds(c)
      PROVE  ent' = ent
    BY <1>9 DEF CallerStep, CreateSandbox, LaunchProcess, AgentServiceFactory,
       BackendCreateSession, createToolsSandboxSession, UndoSession, UndoKill, UndoSandbox,
       Forward, PauseLock, ResumeLock, TakeLock, ResumeSandbox, Relaunch, Reconnect, ResumeKill,
       DestroyLock, DestroyAgent, DestroyKill, DestroySandbox, CloseWaitHealth, CloseWaitOps,
       CloseNext, CloseShared
<1>10. CASE UNCHANGED vars
    BY <1>10 DEF vars
<1> QED BY <1>2, <1>3, <1>4, <1>5, <1>6, <1>7, <1>8, <1>9, <1>10 DEF Next

\* A destroyed session stays destroyed: a pause, a resume or a health answer
\* that had found its entry before does not bring it back.
THEOREM DestroyedFinal == Spec => DestroyedIsFinal
<1>1. OrchInv /\ [Next]_vars =>
        [\A s \in Sessions : ent[s].state = "destroyed" => ent'[s].state = "destroyed"]_vars
    BY DestroyedStays
<1> QED BY <1>1, Invariance, PTL DEF Spec, DestroyedIsFinal
=============================================================================
