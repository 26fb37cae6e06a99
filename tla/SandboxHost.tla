---------------------------- MODULE SandboxHost -----------------------------
(***************************************************************************)
(* SandboxHostService of internal/sandbox: the sessions of one host, their *)
(* ZFS datasets and snapshots, their tools and their managed processes,    *)
(* with the gVisor manager the containers run under.                       *)
(*                                                                         *)
(* A step is one critical section of the table's or a session's lock, or   *)
(* one ZFS or gVisor call between two of them.  A Session is an object: the*)
(* table maps an ID to one, and a call keeps the object it looked up while *)
(* the table may come to map the ID to another.                            *)
(***************************************************************************)
EXTENDS Integers, Sequences, FiniteSets, SequencesExt

CONSTANTS
    Callers, IDs, Procs,
    MaxSessions,      \* ServiceConfig.MaxSessions, 0: no limit
    MaxSnapshots,     \* ServiceConfig.MaxSnapshotsPerSession, 0: no limit
    MaxContainers,    \* ManagerConfig.MaxConcurrentContainers
    Runtimes,         \* the container runtimes: "gvisor", "none"
    Workloads,        \* the sets of operations the callers of one behaviour use
    MaxCalls,         \* bound: API calls
    MaxFaults,        \* bound: failing ZFS calls and deadlines that pass
    None

ASSUME HostAssumption ==
    /\ {MaxSessions, MaxSnapshots, MaxCalls, MaxFaults} \subseteq Nat
    /\ MaxContainers \in Nat \ {0}
    /\ IsFiniteSet(Callers) /\ Callers \cap Procs = {}
    /\ Runtimes \subseteq {"gvisor", "none"}
    /\ None \notin Callers \cup IDs \cup Procs

VARIABLES
    table,     \* SandboxHostService.sessions
    obj,       \* the Session objects, in the order they were made
    proc,      \* the ManagedProcess entries
    job,       \* gvisor.Manager.Run: how far each container's run has come
    closed,    \* gvisor.Manager.closed
    ds,        \* external: the sessions' datasets with their snapshots, in order
    alive,     \* external: the processes and containers that run
    caller, calls, faults,
    overlap,   \* history: the IDs whose calls conflicted, and how: see Conflicts
    leaked,    \* history: the IDs a failing ZFS call left a dataset or snapshot of
    runtime, workload   \* the configuration and the mix of calls, fixed

config == <<runtime, workload>>

vars == <<table, obj, proc, job, closed, ds, alive, caller, calls, faults,
          overlap, leaked, config>>

Objs == 1..(2 * MaxCalls)

Jobs == Callers \cup Procs

Ready == [pc |-> "ready", op |-> "none", id |-> None, o |-> 0, p |-> None,
          name |-> <<"turn", 0>>, todo |-> {}]

Absent == [there |-> FALSE, snaps |-> <<>>]

\* Session: the fields the calls read and write.  tools is activeTools.
Session(id, state, dataset) ==
    [id |-> id, state |-> state, dataset |-> dataset, tools |-> 0, rolling |-> FALSE,
     turn |-> 0, snaps |-> <<>>, procs |-> {}]

\* NewSandboxHostService and NewManager: nothing is open, nothing runs.
Init ==
    /\ table = [i \in IDs |-> 0]
    /\ obj = <<>>
    /\ proc = [p \in Procs |-> [status |-> "unused", o |-> 0, handle |-> "none",
                                cancelled |-> FALSE]]
    /\ job = [j \in Jobs |-> "idle"]
    /\ closed = FALSE
    /\ ds = [i \in IDs |-> Absent]
    /\ alive = {}
    /\ caller = [c \in Callers |-> Ready]
    /\ calls = 0 /\ faults = 0
    /\ overlap = {} /\ leaked = {}
    /\ runtime \in Runtimes /\ workload \in Workloads

----------------------------------------------------------------------------
(* Callers *)

Goto(c, pc) == caller' = [caller EXCEPT ![c].pc = pc]

\* Shutdown goes on with the next session it listed; any other call returns.
Return(c) ==
    caller' = [caller EXCEPT ![c] = IF @.op = "shutdown" THEN [@ EXCEPT !.pc = "shut"]
                                                         ELSE Ready]

InFlight(id) == {d \in Callers : caller[d].pc # "ready" /\ caller[d].id = id}

Life == {"create", "destroy", "shutdown"}

Snapshots == {"turn", "snap"} \cup (IF "toolsnap" \in workload THEN {"tool"} ELSE {})

\* Calls on one ID that the service does not order: a create or a destroy with
\* another call that changes the session (and a destroy with a tool it stopped
\* waiting for), two rollbacks, a snapshot with a rollback or another snapshot.
Conflicts(a, b) ==
    {k \in {"life", "roll", "snap"} :
        \/ /\ k = "life" /\ {a, b} \cap Life # {}
           /\ {a, b} \cap {"tool", "pause", "resume", "kill"} = {}
        \/ k = "roll" /\ {a, b} = {"rollback"}
        \/ k = "snap" /\ \/ {a, b} \subseteq Snapshots
                         \/ {a, b} \subseteq {"rollback", "turn", "snap"}}

Note(c, op, id) ==
    overlap' = overlap \cup (UNION {{<<id, k>> : k \in Conflicts(op, caller[d].op)} :
                                    d \in InFlight(id) \ {c}})

Begin(c, op, id) ==
    /\ caller[c].pc = "ready" /\ op \in workload /\ calls < MaxCalls
    /\ calls' = calls + 1
    /\ Note(c, op, id)

Enter(c, op, id, pc, o) ==
    caller' = [caller EXCEPT ![c] = [Ready EXCEPT !.pc = pc, !.op = op, !.id = id, !.o = o]]

\* getSession, getActiveSession.
getSession(id) == table[id]

Active(id) == table[id] # 0 /\ obj[table[id]].state = "active"

Set(o, s) == obj' = [obj EXCEPT ![o] = s]

\* A ZFS command works, fails, or fails after it took effect (its context
\* ended while it ran).
ZFS(works, took, ok) ==
    /\ ok => works /\ took
    /\ took => works
    /\ faults' = IF works /\ ~ok THEN faults + 1 ELSE faults
    /\ works /\ ~ok => faults < MaxFaults

----------------------------------------------------------------------------
(* CreateSession *)

\* The limit and the ID are checked and the placeholder stored under sessionsMu.
CreateSession(c, id) ==
    /\ Begin(c, "create", id)
    /\ table[id] = 0
    /\ MaxSessions = 0 \/ Cardinality({i \in IDs : table[i] # 0}) < MaxSessions
    /\ obj' = Append(obj, Session(id, "creating", FALSE))
    /\ table' = [table EXCEPT ![id] = Len(obj')]
    /\ Enter(c, "create", id, "clone", 0)
    /\ UNCHANGED <<proc, job, closed, ds, alive, faults, leaked, config>>

\* zfs.CloneFromSnapshot; when it fails the entry of the ID is deleted.
CloneFromSnapshot(c) ==
    LET id == caller[c].id IN
    /\ caller[c].pc = "clone"
    /\ \E took, ok \in BOOLEAN :
        /\ ZFS(~ds[id].there, took, ok)
        /\ ds' = IF took THEN [ds EXCEPT ![id] = [there |-> TRUE, snaps |-> <<>>]] ELSE ds
        /\ leaked' = IF took /\ ~ok THEN leaked \cup {id} ELSE leaked
        /\ table' = IF ok THEN table ELSE [table EXCEPT ![id] = 0]
        /\ IF ok THEN Goto(c, "props") ELSE Return(c)
    /\ UNCHANGED <<obj, proc, job, closed, alive, calls, overlap, config>>

\* The quota and the mountpoint; when one fails the clone is to be undone.
SetProperties(c) ==
    /\ caller[c].pc = "props"
    /\ \E ok \in BOOLEAN :
        /\ ZFS(ds[caller[c].id].there, ok, ok)
        /\ Goto(c, IF ok THEN "store" ELSE "undo")
    /\ UNCHANGED <<table, obj, proc, job, closed, ds, alive, calls, overlap, leaked, config>>

\* zfs.DestroyDataset, recursive and forced, its error ignored.
DestroyDataset(id) ==
    \E took, ok \in BOOLEAN :
        /\ ZFS(ds[id].there, took, ok)
        /\ ds' = IF took THEN [ds EXCEPT ![id] = Absent] ELSE ds
        /\ leaked' = IF ds[id].there /\ ~took THEN leaked \cup {id} ELSE leaked

UndoClone(c) ==
    /\ caller[c].pc = "undo"
    /\ DestroyDataset(caller[c].id)
    /\ Goto(c, "drop")
    /\ UNCHANGED <<table, obj, proc, job, closed, alive, calls, overlap, config>>

\* sessions.Delete by ID, whichever object the ID maps to by now.
Delete(id) == table' = [table EXCEPT ![id] = 0]

DropPlaceholder(c) ==
    /\ caller[c].pc = "drop"
    /\ Delete(caller[c].id)
    /\ Return(c)
    /\ UNCHANGED <<obj, proc, job, closed, ds, alive, calls, faults, overlap, leaked, config>>

\* The session is stored over the placeholder, or over nothing if that is gone.
StoreSession(c) ==
    LET id == caller[c].id IN
    /\ caller[c].pc = "store"
    /\ obj' = Append(obj, Session(id, "active", TRUE))
    /\ table' = [table EXCEPT ![id] = Len(obj')]
    /\ Return(c)
    /\ UNCHANGED <<proc, job, closed, ds, alive, calls, faults, overlap, leaked, config>>

----------------------------------------------------------------------------
(* PauseSession and ResumeSession *)

PauseSession(c, id) ==
    /\ Begin(c, "pause", id)
    /\ Active(id)
    /\ Enter(c, "pause", id, "drain", getSession(id))
    /\ UNCHANGED <<table, obj, proc, job, closed, ds, alive, faults, leaked, config>>

\* The polling loop ends when it sees no tool; the timeout makes the call fail.
PauseDrained(c) ==
    /\ caller[c].op = "pause" /\ caller[c].pc = "drain"
    /\ \/ /\ obj[caller[c].o].tools = 0
          /\ Goto(c, "set")
          /\ faults' = faults
       \/ /\ obj[caller[c].o].tools > 0 /\ faults < MaxFaults
          /\ Return(c)
          /\ faults' = faults + 1
    /\ UNCHANGED <<table, obj, proc, job, closed, ds, alive, calls, overlap, leaked, config>>

\* Mutant: the state is not looked at again after the drain.
SetPausedUnchecked(c) ==
    /\ caller[c].pc = "set"
    /\ Set(caller[c].o, [obj[caller[c].o] EXCEPT !.state = "paused"])
    /\ Return(c)
    /\ UNCHANGED <<table, proc, job, closed, ds, alive, calls, faults, overlap, leaked, config>>

\* Under the lock the state is looked at again, the tools are not.
SetPaused(c) ==
    LET s == obj[caller[c].o] IN
    /\ caller[c].pc = "set"
    /\ Set(caller[c].o, IF s.state = "active" THEN [s EXCEPT !.state = "paused"] ELSE s)
    /\ Return(c)
    /\ UNCHANGED <<table, proc, job, closed, ds, alive, calls, faults, overlap, leaked, config>>

ResumeSession(c, id) ==
    /\ Begin(c, "resume", id)
    /\ table[id] # 0 /\ obj[table[id]].state = "paused"
    /\ Set(table[id], [obj[table[id]] EXCEPT !.state = "active"])
    /\ UNCHANGED <<table, proc, job, closed, ds, alive, caller, faults, leaked, config>>

----------------------------------------------------------------------------
(* DestroySession and Shutdown *)

\* Whatever state the session is in, it becomes destroying.
DestroyObject(c, id, op, todo) ==
    /\ Set(table[id], [obj[table[id]] EXCEPT !.state = "destroying"])
    /\ caller' = [caller EXCEPT ![c] = [Ready EXCEPT !.pc = "drain", !.op = op, !.id = id,
                                                     !.o = table[id], !.todo = todo]]

DestroySession(c, id) ==
    /\ Begin(c, "destroy", id)
    /\ table[id] # 0
    /\ DestroyObject(c, id, "destroy", {})
    /\ UNCHANGED <<table, proc, job, closed, ds, alive, faults, leaked, config>>

\* The loop that waits for the tools: the deadline goes on, ctx.Done returns.
DestroyDrained(c) ==
    /\ caller[c].op \in {"destroy", "shutdown"} /\ caller[c].pc = "drain"
    /\ \/ /\ obj[caller[c].o].tools = 0
          /\ Goto(c, "kill")
          /\ UNCHANGED <<faults, overlap>>
       \/ /\ obj[caller[c].o].tools > 0 /\ faults < MaxFaults
          /\ faults' = faults + 1
          /\ \/ Goto(c, "kill") /\ overlap' = overlap \cup {<<caller[c].id, "life">>}
             \/ Return(c) /\ overlap' = overlap
    /\ UNCHANGED <<table, obj, proc, job, closed, ds, alive, calls, leaked, config>>

\* killManagedProcess: nothing is signalled while the launch has not stored the
\* command or the cancel function.  A command may ignore SIGTERM.
Killed(p, hard) ==
    CASE proc[p].handle = "cmd" /\ hard -> {alive \ {p}}
      [] proc[p].handle = "cmd" /\ ~hard -> {alive, alive \ {p}}
      [] OTHER -> {alive}

Cancelled(P) ==
    proc' = [p \in Procs |-> IF p \in P /\ proc[p].handle = "cancel" /\ proc[p].status # "exited"
                             THEN [proc[p] EXCEPT !.cancelled = TRUE] ELSE proc[p]]

\* Mutant: SIGTERM only; a command that ignores it outlives the session.
KillProcessesOnce(c) ==
    LET P == obj[caller[c].o].procs IN
    /\ caller[c].pc = "kill"
    /\ alive' \in {alive, alive \ {p \in P : proc[p].handle = "cmd"}}
    /\ Cancelled(P)
    /\ Goto(c, "clear")
    /\ UNCHANGED <<table, obj, job, closed, ds, calls, faults, overlap, leaked, config>>

\* destroySessionProcesses: SIGTERM to all and, to those that are not done after
\* 2 s, SIGKILL, unless the call's context ended first.  A command is dead then,
\* a container is cancelled, a process still to be started hears nothing.
KillProcesses(c) ==
    LET P == obj[caller[c].o].procs
        commands == {p \in P : proc[p].handle = "cmd"} IN
    /\ caller[c].pc = "kill"
    /\ \/ /\ alive' = alive \ commands
          /\ UNCHANGED <<faults, leaked>>
       \/ /\ faults < MaxFaults /\ commands \cap alive # {}
          /\ alive' = alive
          /\ faults' = faults + 1
          /\ leaked' = leaked \cup {caller[c].id}
    /\ Cancelled(P)
    /\ Goto(c, "clear")
    /\ UNCHANGED <<table, obj, job, closed, ds, calls, overlap, config>>

\* The 2 s passed, or every process of the session is done.
ClearProcesses(c) ==
    LET s == obj[caller[c].o] IN
    /\ caller[c].pc = "clear"
    /\ \/ faults' = faults /\ \A p \in s.procs : proc[p].status = "exited"
       \/ faults < MaxFaults /\ faults' = faults + 1 /\ \E p \in s.procs : proc[p].status # "exited"
    /\ Set(caller[c].o, [s EXCEPT !.procs = {}])
    /\ Goto(c, IF s.dataset THEN "zdestroy" ELSE "delete")
    /\ UNCHANGED <<table, proc, job, closed, ds, alive, calls, overlap, leaked, config>>

DestroySessionDataset(c) ==
    /\ caller[c].pc = "zdestroy"
    /\ DestroyDataset(caller[c].id)
    /\ Goto(c, "delete")
    /\ UNCHANGED <<table, obj, proc, job, closed, alive, calls, overlap, config>>

DeleteSession(c) ==
    /\ caller[c].pc = "delete"
    /\ Delete(caller[c].id)
    /\ Return(c)
    /\ UNCHANGED <<obj, proc, job, closed, ds, alive, calls, faults, overlap, leaked, config>>

\* Shutdown lists the sessions, destroys one after the other and closes gVisor.
Shutdown(c) ==
    /\ caller[c].pc = "ready" /\ "shutdown" \in workload /\ calls < MaxCalls
    /\ calls' = calls + 1
    /\ caller' = [caller EXCEPT ![c] = [Ready EXCEPT !.pc = "shut", !.op = "shutdown",
                                                     !.todo = {i \in IDs : table[i] # 0}]]
    /\ UNCHANGED <<table, obj, proc, job, closed, ds, alive, faults, overlap, leaked, config>>

ShutdownNext(c) ==
    /\ caller[c].pc = "shut"
    /\ \E id \in caller[c].todo :
        \/ /\ table[id] # 0
           /\ Note(c, "shutdown", id)
           /\ DestroyObject(c, id, "shutdown", caller[c].todo \ {id})
        \/ /\ table[id] = 0
           /\ caller' = [caller EXCEPT ![c].todo = @ \ {id}]
           /\ UNCHANGED <<obj, overlap>>
    /\ UNCHANGED <<table, proc, job, closed, ds, alive, calls, faults, leaked, config>>

\* gvisor.Manager.Close: no run starts any more, and the containers that are
\* registered are deleted by force (the cancel it calls first is of a context
\* their command was not started with).
CloseGVisor(c) ==
    /\ caller[c].pc = "shut" /\ caller[c].todo = {}
    /\ closed' = TRUE
    /\ alive' = IF closed THEN alive ELSE alive \ {j \in Jobs : job[j] = "active"}
    /\ caller' = [caller EXCEPT ![c] = Ready]
    /\ UNCHANGED <<table, obj, proc, job, ds, calls, faults, overlap, leaked, config>>

----------------------------------------------------------------------------
(* ExecuteTool *)

\* The tool is counted under the lock that RollbackSession sets rollingBack under.
ExecuteTool(c, id) ==
    LET s == obj[table[id]] IN
    /\ Begin(c, "tool", id)
    /\ Active(id) /\ ~s.rolling
    /\ Set(table[id], [s EXCEPT !.tools = @ + 1])
    /\ \E tier \in IF runtime = "none" THEN {"tier1"} ELSE {"tier1", "tier2"} :
           Enter(c, "tool", id, tier, table[id])
    /\ UNCHANGED <<table, proc, job, closed, ds, alive, faults, leaked, config>>

\* executeTier1 answered, or executeTier2's container run did; with
\* PerToolSnapshots a tool that worked is followed by a snapshot of its own name.
ToolAnswers(c) ==
    /\ \/ caller[c].pc = "tier1"
       \/ caller[c].pc = "tier2" /\ job[c] \in {"done", "failed"}
    /\ job' = [job EXCEPT ![c] = "idle"]
    /\ \/ Goto(c, "tooldone")
       \/ /\ job[c] # "failed" /\ "toolsnap" \in workload
          /\ caller' = [caller EXCEPT ![c].pc = "zsnap", ![c].name = <<"tool", calls>>]
    /\ UNCHANGED <<table, obj, proc, closed, ds, alive, calls, faults, overlap, leaked, config>>

ToolReturns(c) ==
    /\ caller[c].pc = "tooldone"
    /\ Set(caller[c].o, [obj[caller[c].o] EXCEPT !.tools = @ - 1])
    /\ Return(c)
    /\ UNCHANGED <<table, proc, job, closed, ds, alive, calls, faults, overlap, leaked, config>>

----------------------------------------------------------------------------
(* Snapshots *)

\* TurnComplete checks and names the snapshot under the lock and takes it outside.
TurnComplete(c, id) ==
    LET s == obj[table[id]] IN
    /\ Begin(c, "turn", id)
    /\ Active(id) /\ ~s.rolling
    /\ caller' = [caller EXCEPT ![c] = [Ready EXCEPT !.pc = "zsnap", !.op = "turn", !.id = id,
                                        !.o = table[id], !.name = <<"turn", s.turn + 1>>]]
    /\ UNCHANGED <<table, obj, proc, job, closed, ds, alive, faults, leaked, config>>

\* CreateSnapshot, with the caller's name, looks at no state.  A placeholder has
\* no dataset yet and ZFS refuses.
CreateSnapshot(c, id) ==
    /\ Begin(c, "snap", id)
    /\ table[id] # 0 /\ obj[table[id]].dataset
    /\ caller' = [caller EXCEPT ![c] = [Ready EXCEPT !.pc = "zsnap", !.op = "snap", !.id = id,
                                        !.o = table[id], !.name = <<"user", 1>>]]
    /\ UNCHANGED <<table, obj, proc, job, closed, ds, alive, faults, leaked, config>>

\* zfs.CreateSnapshot: the name must be new in the dataset.
ZFSCreateSnapshot(c) ==
    LET id == caller[c].id
        name == caller[c].name IN
    /\ caller[c].pc = "zsnap"
    /\ \E took, ok \in BOOLEAN :
        /\ ZFS(ds[id].there /\ ~Contains(ds[id].snaps, name), took, ok)
        /\ ds' = IF took THEN [ds EXCEPT ![id].snaps = Append(@, name)] ELSE ds
        /\ leaked' = IF took /\ ~ok THEN leaked \cup {id} ELSE leaked
        /\ CASE ok -> Goto(c, "append")
             [] ~ok /\ caller[c].op = "tool" -> Goto(c, "tooldone")
             [] OTHER -> Return(c)
    /\ UNCHANGED <<table, obj, proc, job, closed, alive, calls, overlap, config>>

AppendSnapshot(c) ==
    LET s == obj[caller[c].o]
        n == caller[c].name IN
    /\ caller[c].pc = "append"
    /\ Set(caller[c].o, [s EXCEPT !.snaps = Append(@, n),
                                  !.turn = IF caller[c].op = "turn" THEN n[2] ELSE @])
    /\ CASE caller[c].op = "tool" -> Goto(c, "tooldone")
         [] caller[c].op = "turn" /\ MaxSnapshots > 0 -> Goto(c, "prune")
         [] OTHER -> Return(c)
    /\ UNCHANGED <<table, proc, job, closed, ds, alive, calls, faults, overlap, leaked, config>>

\* Where a snapshot is in a list, 0 if it is not; and the list that ends with it.
Position(snaps, name) == SelectInSeq(snaps, LAMBDA n : n = name)

UpTo(snaps, name) == SubSeq(snaps, 1, Position(snaps, name))

\* cleanupOldSnapshots: all but the last MaxSnapshots leave the list ...
PruneList(c) ==
    LET s == obj[caller[c].o]
        over == Len(s.snaps) - MaxSnapshots IN
    /\ caller[c].pc = "prune"
    /\ IF over > 0
       THEN /\ Set(caller[c].o, [s EXCEPT !.snaps = SubSeq(@, over + 1, Len(@))])
            /\ caller' = [caller EXCEPT ![c].pc = "zdel",
                                        ![c].todo = ToSet(SubSeq(s.snaps, 1, over))]
       ELSE obj' = obj /\ Return(c)
    /\ UNCHANGED <<table, proc, job, closed, ds, alive, calls, faults, overlap, leaked, config>>

\* ... and are destroyed one by one, errors ignored.
ZFSDestroySnapshot(c) ==
    LET id == caller[c].id IN
    /\ caller[c].pc = "zdel"
    /\ \/ /\ caller[c].todo = {}
          /\ Return(c)
          /\ UNCHANGED <<ds, faults, leaked>>
       \/ \E n \in caller[c].todo, took, ok \in BOOLEAN :
          /\ ZFS(Contains(ds[id].snaps, n), took, ok)
          /\ ds' = IF took THEN [ds EXCEPT ![id].snaps = RemoveAt(@, Position(@, n))] ELSE ds
          /\ leaked' = IF Contains(ds[id].snaps, n) /\ ~took THEN leaked \cup {id} ELSE leaked
          /\ caller' = [caller EXCEPT ![c].todo = @ \ {n}]
    /\ UNCHANGED <<table, obj, proc, job, closed, alive, calls, overlap, config>>

\* RollbackSession: no tool may be counted, and none is while rollingBack is set.
RollbackSession(c, id, name) ==
    LET s == obj[table[id]] IN
    /\ Begin(c, "rollback", id)
    /\ Active(id) /\ s.tools = 0
    /\ Set(table[id], [s EXCEPT !.rolling = TRUE])
    /\ caller' = [caller EXCEPT ![c] = [Ready EXCEPT !.pc = "zroll", !.op = "rollback",
                                        !.id = id, !.o = table[id], !.name = name]]
    /\ UNCHANGED <<table, proc, job, closed, ds, alive, faults, leaked, config>>

\* The turns that a list of snapshots holds.
TurnsIn(snaps) == Cardinality({i \in DOMAIN snaps : snaps[i][1] = "turn"})

\* zfs.Rollback with DestroyLater: the later snapshots go.
ZFSRollback(c) ==
    LET id == caller[c].id
        name == caller[c].name IN
    /\ caller[c].pc = "zroll"
    /\ \E took, ok \in BOOLEAN :
        /\ ZFS(Contains(ds[id].snaps, name), took, ok)
        /\ ds' = IF took THEN [ds EXCEPT ![id].snaps = UpTo(@, name)] ELSE ds
        /\ leaked' = IF took /\ ~ok THEN leaked \cup {id} ELSE leaked
        /\ Goto(c, IF ok THEN "rolled" ELSE "rollfail")
    /\ UNCHANGED <<table, obj, proc, job, closed, alive, calls, overlap, config>>

\* Mutant: the list is cut before the snapshot that was rolled back to.
FinishRollbackShort(c) ==
    LET s == obj[caller[c].o]
        kept == Front(UpTo(s.snaps, caller[c].name)) IN
    /\ caller[c].pc \in {"rolled", "rollfail"}
    /\ Set(caller[c].o,
           IF caller[c].pc = "rollfail" THEN [s EXCEPT !.rolling = FALSE, !.state = "failed"]
           ELSE [s EXCEPT !.rolling = FALSE, !.snaps = kept,
                          !.turn = TurnsIn(kept)])
    /\ Return(c)
    /\ UNCHANGED <<table, proc, job, closed, ds, alive, calls, faults, overlap, leaked, config>>

\* A failed rollback makes the session failed, whatever it was by then; after one
\* that worked the list ends with the snapshot and the turns are counted in it.
FinishRollback(c) ==
    LET s == obj[caller[c].o]
        kept == UpTo(s.snaps, caller[c].name) IN
    /\ caller[c].pc \in {"rolled", "rollfail"}
    /\ Set(caller[c].o,
           CASE caller[c].pc = "rollfail" -> [s EXCEPT !.rolling = FALSE, !.state = "failed"]
             [] caller[c].pc = "rolled" /\ kept = <<>> -> [s EXCEPT !.rolling = FALSE]
             [] OTHER -> [s EXCEPT !.rolling = FALSE, !.snaps = kept,
                                   !.turn = TurnsIn(kept)])
    /\ Return(c)
    /\ UNCHANGED <<table, proc, job, closed, ds, alive, calls, faults, overlap, leaked, config>>

----------------------------------------------------------------------------
(* Managed processes *)

\* What pruning leaves of a session's processes: those that exited are dropped
\* when that is long ago.
pruneExitedProcesses(o) ==
    {obj[o].procs, {q \in obj[o].procs : proc[q].status # "exited"}}

\* The entry is made under the lock, starting and with nothing to kill it by.
LaunchProcess(c, id, p) ==
    LET o == table[id] IN
    /\ Begin(c, "launch", id)
    /\ Active(id)
    /\ proc[p].status = "unused"
    /\ \E kept \in pruneExitedProcesses(o) :
           Set(o, [obj[o] EXCEPT !.procs = kept \cup {p}])
    /\ proc' = [proc EXCEPT ![p].status = "starting", ![p].o = o]
    /\ caller' = [caller EXCEPT ![c] = [Ready EXCEPT !.pc = "start", !.op = "launch", !.id = id,
                                                     !.o = o, !.p = p]]
    /\ UNCHANGED <<table, job, closed, ds, alive, faults, leaked, config>>

\* launchDirect starts the command; a proxy or a start that fails removes the entry.
StartProcess(c) ==
    LET o == caller[c].o
        p == caller[c].p IN
    /\ caller[c].pc = "start"
    /\ \/ /\ alive' = IF runtime = "none" THEN alive \cup {p} ELSE alive
          /\ Goto(c, "handle")
          /\ UNCHANGED <<obj, proc>>
       \/ /\ Set(o, [obj[o] EXCEPT !.procs = @ \ {p}])
          /\ proc' = [proc EXCEPT ![p].status = "exited"]
          /\ Return(c)
          /\ alive' = alive
    /\ UNCHANGED <<table, job, closed, ds, calls, faults, overlap, leaked, config>>

\* The command, or in launchInGVisor the cancel function, is stored and the
\* monitor started, which marks a container's process running.
StoreHandle(c) ==
    LET p == caller[c].p IN
    /\ caller[c].pc = "handle"
    /\ proc' = [proc EXCEPT ![p].handle = IF runtime = "none" THEN "cmd" ELSE "cancel",
                            ![p].status = "running"]
    /\ Return(c)
    /\ UNCHANGED <<table, obj, job, closed, ds, alive, calls, faults, overlap, leaked, config>>

KillProcess(c, id, p) ==
    /\ Begin(c, "kill", id)
    /\ table[id] # 0 /\ p \in obj[table[id]].procs
    /\ \E hard \in BOOLEAN : alive' \in Killed(p, hard)
    /\ Cancelled({p})
    /\ UNCHANGED <<table, obj, job, closed, ds, caller, faults, leaked, config>>

\* external: a command ends by itself.
ProcessExits(p) ==
    /\ p \in alive /\ proc[p].handle = "cmd"
    /\ alive' = alive \ {p}
    /\ UNCHANGED <<table, obj, proc, job, closed, ds, caller, calls, faults, overlap, leaked, config>>

\* monitorProcess saw the command end or gvisor.Run return: markProcessExited.
MonitorExit(p) ==
    /\ proc[p].status = "running"
    /\ \/ proc[p].handle = "cmd" /\ p \notin alive
       \/ proc[p].handle = "cancel" /\ job[p] \in {"done", "failed"}
    /\ proc' = [proc EXCEPT ![p].status = "exited"]
    /\ job' = [job EXCEPT ![p] = "idle"]
    /\ UNCHANGED <<table, obj, closed, ds, alive, caller, calls, faults, overlap, leaked, config>>

----------------------------------------------------------------------------
(* gvisor.Manager.Run, for a tool's caller or a process *)

Wants(j) ==
    \/ j \in Callers /\ caller[j].pc = "tier2"
    \/ j \in Procs /\ proc[j].handle = "cancel" /\ proc[j].status = "running"

\* The context ended: the process was cancelled, the tool's time is up.
CtxDone(j) == j \in Procs => proc[j].cancelled

RunEnter(j) ==
    /\ job[j] = "idle" /\ Wants(j)
    /\ job' = [job EXCEPT ![j] = IF closed THEN "failed" ELSE "entered"]
    /\ UNCHANGED <<table, obj, proc, closed, ds, alive, caller, calls, faults, overlap, leaked,
                   config>>

\* A slot of the semaphore, and the second look at closed; or the context ended.
RunSlot(j) ==
    /\ job[j] = "entered"
    /\ \/ /\ Cardinality({k \in Jobs : job[k] \in {"slotted", "active"}}) < MaxContainers
          /\ job' = [job EXCEPT ![j] = IF closed THEN "failed" ELSE "slotted"]
       \/ /\ CtxDone(j)
          /\ job' = [job EXCEPT ![j] = "failed"]
    /\ UNCHANGED <<table, obj, proc, closed, ds, alive, caller, calls, faults, overlap, leaked,
                   config>>

\* runContainer registers the container and starts it.
runContainer(j) ==
    /\ j \in Procs => ~proc[j].cancelled
    /\ job' = [job EXCEPT ![j] = "active"]
    /\ alive' = alive \cup {j}

\* The bundle is written and the container started, unless the context ended
\* before.
RunStart(j) ==
    /\ job[j] = "slotted"
    /\ \/ runContainer(j)
       \/ /\ CtxDone(j)
          /\ job' = [job EXCEPT ![j] = "failed"]
          /\ alive' = alive
    /\ UNCHANGED <<table, obj, proc, closed, ds, caller, calls, faults, overlap, leaked, config>>

\* runContainer returns: the command ended, or the context, or Close killed it.
RunExit(j) ==
    /\ job[j] = "active"
    /\ job' = [job EXCEPT ![j] = "done"]
    /\ alive' = alive \ {j}
    /\ UNCHANGED <<table, obj, proc, closed, ds, caller, calls, faults, overlap, leaked, config>>

----------------------------------------------------------------------------
Create(c) ==
    \/ \E id \in IDs : CreateSession(c, id)
    \/ CloneFromSnapshot(c) \/ SetProperties(c) \/ UndoClone(c) \/ DropPlaceholder(c)
    \/ StoreSession(c)

Destroy(c) ==
    \/ \E id \in IDs : DestroySession(c, id)
    \/ DestroyDrained(c) \/ KillProcesses(c) \/ ClearProcesses(c)
    \/ DestroySessionDataset(c) \/ DeleteSession(c)
    \/ Shutdown(c) \/ ShutdownNext(c) \/ CloseGVisor(c)

Pause(c) ==
    \/ \E id \in IDs : PauseSession(c, id) \/ ResumeSession(c, id)
    \/ PauseDrained(c) \/ SetPaused(c)

Snapshot(c) ==
    \/ \E id \in IDs : TurnComplete(c, id) \/ CreateSnapshot(c, id)
    \/ ZFSCreateSnapshot(c) \/ AppendSnapshot(c) \/ PruneList(c) \/ ZFSDestroySnapshot(c)
    \/ \E id \in IDs : table[id] # 0 /\ \E n \in ToSet(obj[table[id]].snaps) :
           RollbackSession(c, id, n)
    \/ ZFSRollback(c) \/ FinishRollback(c)

Tool(c) == (\E id \in IDs : ExecuteTool(c, id)) \/ ToolAnswers(c) \/ ToolReturns(c)

Process(c) ==
    \/ \E id \in IDs, p \in Procs : LaunchProcess(c, id, p) \/ KillProcess(c, id, p)
    \/ StartProcess(c) \/ StoreHandle(c)

Next ==
    \/ \E c \in Callers : Create(c) \/ Destroy(c) \/ Pause(c) \/ Snapshot(c) \/ Tool(c)
                          \/ Process(c)
    \/ \E p \in Procs : ProcessExits(p) \/ MonitorExit(p)
    \/ \E j \in Jobs : RunEnter(j) \/ RunSlot(j) \/ RunStart(j) \/ RunExit(j)

Spec == Init /\ [][Next]_vars

----------------------------------------------------------------------------
(* Properties *)

Clean(id) == <<id, "life">> \notin overlap /\ id \notin leaked

\* A dataset lives exactly as long as a session, or a call at work on it, has
\* it: unless ZFS failed or calls conflicted, every dataset belongs to a session
\* of the table or to a create or destroy in flight, and an active or paused
\* session has its dataset (the compensations of CreateSession, service.go:185,
\* and the order of DestroySession, service.go:364).
DatasetsOwned ==
    \A id \in IDs : Clean(id) =>
        /\ ds[id].there =>
              \/ table[id] # 0 /\ obj[table[id]].dataset
              \/ \E c \in InFlight(id) : caller[c].op \in {"create", "destroy", "shutdown"}
        /\ table[id] # 0 /\ obj[table[id]].state \in {"active", "paused"} => ds[id].there

\* No tool of a session runs while ZFS rolls its dataset back, unless two
\* rollbacks of it were in flight together: rollingBack and activeTools exclude
\* each other across the two calls (snapshot.go:82, execute.go:28).
RollbackExcludesTools ==
    \A c \in Callers :
        caller[c].pc = "zroll" /\ <<caller[c].id, "roll">> \notin overlap => obj[caller[c].o].tools = 0

\* The list of snapshots a session keeps while it is active or paused is the list
\* ZFS has, when nothing is in flight on it, its snapshot calls came one after the
\* other and no ZFS call failed, in the order in which they were taken, pruned and rolled back
\* (snapshot.go:34, 99, 134).
SnapshotsMatch ==
    \A id \in IDs :
        /\ Clean(id) /\ <<id, "snap">> \notin overlap /\ InFlight(id) = {}
        /\ table[id] # 0 /\ obj[table[id]].state \in {"active", "paused"}
        => obj[table[id]].snaps = ds[id].snaps

\* A process or container runs only while its session lists the process, or the
\* call that launches it is in flight, unless the launch raced a destroy: no
\* exit path of LaunchProcess and no DestroySession leaves one behind
\* (process.go:111, 360).
ProcessesOwned ==
    \A p \in Procs \cap alive :
        LET o == proc[p].o
            id == obj[o].id IN
        \/ ~Clean(id)
        \/ table[id] = o /\ p \in obj[o].procs
        \/ proc[p].cancelled
        \/ \E c \in Callers : caller[c].pc # "ready" /\ caller[c].p = p

\* A session that is being destroyed never serves a call again: no late pause,
\* resume or rollback brings it back (service.go:316, 331; snapshot.go:96).
DestroyingIsFinal ==
    [][\A o \in 1..Len(obj) : obj[o].state = "destroying" =>
           obj'[o].state \in {"destroying", "failed"}]_vars

\* What a session has on the host lives as long as the session.
NothingLeaks == DatasetsOwned /\ ProcessesOwned

\* A session's snapshots are what its calls made of them: no tool writes during
\* a rollback and the list is the one ZFS has.
SnapshotsAreSound == RollbackExcludesTools /\ SnapshotsMatch
=============================================================================
