--------------------------- MODULE DirectControl ----------------------------
(***************************************************************************)
(* DirectSandboxControl of internal/sandbox/control/direct: one EC2        *)
(* instance per sandbox, processes started and signalled through SSM shell *)
(* commands, and recovery of both from the cloud after a restart.          *)
(*                                                                         *)
(* A step is one critical section of the adapter's lock or one cloud or SSM*)
(* call.  Calls fail with or without having taken effect.  The callers are *)
(* as the orchestrator makes them: under a session's lock, so that calls   *)
(* that change one sandbox follow each other, with status queries and Close*)
(* at any time.  A sandbox may be resumed when it runs already: after a    *)
(* resume whose later steps failed the session still counts as paused.     *)
(***************************************************************************)
EXTENDS Integers, FiniteSets

CONSTANTS
    Callers,
    Instances,         \* cloud instance IDs, which are the sandbox IDs too
    Procs,             \* process IDs: newProcessID gives every launch a fresh one
    TerminateOnClose,  \* Config.TerminateOnClose
    MaxCalls,          \* bound: API calls
    MaxCrashes,        \* bound: restarts of the adapter's process
    None

ASSUME DirectAssumption ==
    /\ None \notin Callers \cup Instances \cup Procs
    /\ IsFiniteSet(Callers)
    /\ TerminateOnClose \in BOOLEAN
    /\ {MaxCalls, MaxCrashes} \subseteq Nat

VARIABLES
    inst,      \* DirectSandboxControl.instances with their status
    tracked,   \* instanceState.processes with their status
    closing, inflight,
    up,        \* the adapter's process runs and has recovered
    caller,    \* the callers: where they are, with their local variables
    cloud,     \* external: the instances at EC2
    os,        \* external: the processes launched
    home,      \* the instance a process was launched on
    reused,    \* external: dead processes whose PID belongs to another one now
    pidFile,   \* external: processes with a PID file on their instance
    unsure,    \* history: instances the adapter cannot know of
    lost,      \* history: processes it cannot know of
    hit, raced,    \* history: processes in whose stead another was signalled,
                   \* and those that died between check and kill
    calls, crashes

table == <<inst, tracked>>

external == <<cloud, os, home, reused, pidFile>>

history == <<unsure, lost, hit, raced>>

vars == <<table, closing, inflight, up, caller, external, history, calls, crashes>>

Ready == [pc |-> "ready", op |-> "none", i |-> None, p |-> None, todo |-> {}]

Live == {"pending", "running", "stopping", "stopped"}

\* What a remote call may do: it took effect or not, it reports success or not.
Outcome == {o \in [took : BOOLEAN, ok : BOOLEAN] : o.ok => o.took}

\* A fresh ID, or None when the bound on them is used up: the call fails then.
Fresh(S, used, free) ==
    IF \E x \in S : used[x] = free THEN CHOOSE x \in S : used[x] = free ELSE None

-----------------------------------------------------------------------------
(* The cloud and SSM.                                                      *)

\* EC2 works on its own: instances boot and halt, and a halt ends processes.
Boot(i) ==
    /\ cloud[i] = "pending"
    /\ cloud' = [cloud EXCEPT ![i] = "running"]
    /\ UNCHANGED <<table, closing, inflight, up, caller, os, home, reused, pidFile, history,
                   calls, crashes>>

ProcsOn(i) == {p \in Procs : home[p] = i}

Killed(ps) == [p \in Procs |-> IF p \in ps /\ os[p] # "none" THEN "dead" ELSE os[p]]

Halt(i) ==
    /\ cloud[i] = "stopping"
    /\ cloud' = [cloud EXCEPT ![i] = "stopped"]
    /\ os' = Killed(ProcsOn(i))
    /\ reused' = reused \ ProcsOn(i)
    /\ UNCHANGED <<table, closing, inflight, up, caller, home, pidFile, history, calls, crashes>>

\* A process ends by itself, or after the signal it was sent.
ProcessExits(p) ==
    /\ os[p] \in {"alive", "dying"}
    /\ os' = [os EXCEPT ![p] = "dead"]
    /\ raced' = IF \E c \in Callers : caller[c].pc = "kill" /\ caller[c].p = p
                THEN raced \cup {p} ELSE raced
    /\ UNCHANGED <<table, closing, inflight, up, caller, cloud, home, reused, pidFile, unsure,
                   lost, hit, calls, crashes>>

\* The kernel gives the PID of a dead process to another one.
PidReused(p) ==
    /\ os[p] = "dead" /\ cloud[home[p]] = "running"
    /\ reused' = reused \cup {p}
    /\ UNCHANGED <<table, closing, inflight, up, caller, cloud, os, home, pidFile, history,
                   calls, crashes>>

TerminateInstance(i, out) ==
    /\ cloud' = IF out.took THEN [cloud EXCEPT ![i] = "gone"] ELSE cloud
    /\ os' = IF out.took THEN Killed(ProcsOn(i)) ELSE os

\* What EC2 says of an instance, and which it lists.
DescribeInstance(i) == cloud[i]
ListInstances(states) == {i \in Instances : cloud[i] \in states}

\* runShellCommand: it reaches an instance that runs; the answer may be lost.
RunShellCommand(i, out) == out.took => cloud[i] = "running"

-----------------------------------------------------------------------------
(* Callers.                                                                *)

Goto(c, pc) == caller' = [caller EXCEPT ![c].pc = pc]

Return(c) == caller' = [caller EXCEPT ![c] = Ready]

Step(c, pc) == up /\ caller[c].pc = pc

NewCall(c) == Step(c, "ready") /\ calls < MaxCalls /\ calls' = calls + 1

Busy(i) == \E c \in Callers :
    caller[c].i = i /\ caller[c].op \in {"create", "destroy", "pause", "resume", "launch", "kill"}

\* The lookup that every call on a sandbox begins with.
Lookup(c, op, pc, states) ==
    /\ NewCall(c)
    /\ \E i \in Instances :
         /\ inst[i] \in states /\ ~Busy(i)
         /\ caller' = [caller EXCEPT ![c] = [Ready EXCEPT !.op = op, !.pc = pc, !.i = i]]
    /\ UNCHANGED <<table, closing, inflight, up, external, history, crashes>>

\* markProcessExited, and the other writes under the lock, look the sandbox up
\* again: it may be gone.
MarkExited(p) ==
    tracked' = IF tracked[p] = "none" THEN tracked ELSE [tracked EXCEPT ![p] = "exited"]

Untracked(i) == [p \in Procs |-> IF home[p] = i THEN "none" ELSE tracked[p]]

-----------------------------------------------------------------------------
(* CreateSandbox.                                                          *)

CreateSandbox(c) ==
    /\ NewCall(c) /\ ~closing
    /\ inflight' = inflight + 1
    /\ caller' = [caller EXCEPT ![c] = [Ready EXCEPT !.op = "create", !.pc = "launchInstance"]]
    /\ UNCHANGED <<table, closing, up, external, history, crashes>>

\* inflightWg.Done is deferred.
CreateReturns(c) == Return(c) /\ inflight' = inflight - 1

LaunchInstance(c) ==
    /\ Step(c, "launchInstance")
    /\ \E out \in Outcome : LET i == Fresh(Instances, cloud, "none") IN
         /\ out.took => i # None
         /\ cloud' = IF out.took THEN [cloud EXCEPT ![i] = "pending"] ELSE cloud
         /\ unsure' = IF out.took /\ ~out.ok THEN unsure \cup {i} ELSE unsure
         /\ IF out.ok
            THEN /\ caller' = [caller EXCEPT ![c].pc = "waitReady", ![c].i = i]
                 /\ UNCHANGED inflight
            ELSE CreateReturns(c)
    /\ UNCHANGED <<table, closing, up, os, home, reused, pidFile, lost, hit, raced, calls, crashes>>

\* Mutant: an instance that is not ready in time is left behind.
WaitFailsForgets(c) ==
    /\ caller[c].pc \in {"waitReady", "waitSSM"} /\ up
    /\ IF caller[c].op = "create" THEN CreateReturns(c) ELSE Return(c) /\ UNCHANGED inflight
    /\ UNCHANGED <<table, closing, up, external, history, calls, crashes>>

\* The deadline has passed, the context is done or the adapter is closing:
\* a create terminates its instance, a resume just fails.
WaitFails(c) ==
    /\ caller[c].pc \in {"waitReady", "waitSSM"} /\ up
    /\ IF caller[c].op = "create" THEN Goto(c, "orphan") ELSE Return(c)
    /\ UNCHANGED <<table, closing, inflight, up, external, history, calls, crashes>>

\* waitForInstanceReady: polled until EC2 says the instance runs.
WaitForInstanceReady(c) ==
    /\ Step(c, "waitReady") /\ DescribeInstance(caller[c].i) = "running"
    /\ Goto(c, "waitSSM")
    /\ UNCHANGED <<table, closing, inflight, up, external, history, calls, crashes>>

WaitForSSMRegistration(c) ==
    /\ Step(c, "waitSSM") /\ cloud[caller[c].i] = "running"
    /\ Goto(c, IF caller[c].op = "create" THEN "register" ELSE "markRunning")
    /\ UNCHANGED <<table, closing, inflight, up, external, history, calls, crashes>>

\* Mutant: the failed create does not count itself out.
TerminateOrphanKeepsCount(c) ==
    /\ Step(c, "orphan")
    /\ \E out \in Outcome :
         /\ TerminateInstance(caller[c].i, out)
         /\ unsure' = IF out.ok THEN unsure ELSE unsure \cup {caller[c].i}
    /\ Return(c)
    /\ UNCHANGED <<table, closing, inflight, up, home, reused, pidFile, lost, hit, raced, calls,
                   crashes>>

\* With a context of its own: the caller's may be what ended the wait.
TerminateOrphan(c) ==
    /\ Step(c, "orphan")
    /\ \E out \in Outcome :
         /\ TerminateInstance(caller[c].i, out)
         /\ unsure' = IF out.ok THEN unsure ELSE unsure \cup {caller[c].i}
    /\ CreateReturns(c)
    /\ UNCHANGED <<table, closing, up, home, reused, pidFile, lost, hit, raced, calls, crashes>>

Register(c) ==
    /\ Step(c, "register")
    /\ IF closing
       THEN Goto(c, "orphan") /\ UNCHANGED <<inst, inflight>>
       ELSE inst' = [inst EXCEPT ![caller[c].i] = "running"] /\ CreateReturns(c)
    /\ UNCHANGED <<tracked, closing, up, external, history, calls, crashes>>

-----------------------------------------------------------------------------
(* DestroySandbox, PauseSandbox, ResumeSandbox.                            *)

DestroySandbox(c) == Lookup(c, "destroy", "terminate", {"running", "stopped"})

\* A failed terminate keeps the sandbox.
DestroyTerminate(c) ==
    /\ Step(c, "terminate")
    /\ \E out \in Outcome :
         /\ TerminateInstance(caller[c].i, out)
         /\ IF out.ok THEN Goto(c, "delete") ELSE Return(c)
    /\ UNCHANGED <<table, closing, inflight, up, home, reused, pidFile, history, calls, crashes>>

DestroyDelete(c) ==
    /\ Step(c, "delete")
    /\ inst' = [inst EXCEPT ![caller[c].i] = "absent"]
    /\ tracked' = Untracked(caller[c].i)
    /\ Return(c)
    /\ UNCHANGED <<closing, inflight, up, external, history, calls, crashes>>

PauseSandbox(c) == Lookup(c, "pause", "stop", {"running", "stopped"})

StopInstance(c) ==
    /\ Step(c, "stop")
    /\ \E out \in Outcome : LET i == caller[c].i IN
         /\ out.took => cloud[i] \in {"running", "stopping", "stopped"}
         /\ cloud' = IF out.took /\ cloud[i] = "running" THEN [cloud EXCEPT ![i] = "stopping"]
                                                          ELSE cloud
         /\ IF out.ok THEN Goto(c, "markStopped") ELSE Return(c)
    /\ UNCHANGED <<table, closing, inflight, up, os, home, reused, pidFile, history, calls, crashes>>

MarkStopped(c) ==
    /\ Step(c, "markStopped")
    /\ LET i == caller[c].i IN
         /\ inst' = IF inst[i] = "absent" THEN inst ELSE [inst EXCEPT ![i] = "stopped"]
         /\ tracked' = [p \in Procs |-> IF home[p] = i /\ tracked[p] # "none" THEN "exited"
                                                                              ELSE tracked[p]]
    /\ Return(c)
    /\ UNCHANGED <<closing, inflight, up, external, history, calls, crashes>>

ResumeSandbox(c) == Lookup(c, "resume", "start", {"running", "stopped"})

\* EC2 refuses to start an instance that is still stopping; the call also fails
\* when the description it ends with does.
StartInstance(c) ==
    /\ Step(c, "start")
    /\ \E out \in Outcome : LET i == caller[c].i IN
         /\ out.took => cloud[i] # "stopping" /\ cloud[i] # "gone"
         /\ cloud' = IF out.took /\ cloud[i] = "stopped" THEN [cloud EXCEPT ![i] = "pending"]
                                                          ELSE cloud
         /\ IF out.ok THEN Goto(c, "waitReady") ELSE Return(c)
    /\ UNCHANGED <<table, closing, inflight, up, os, home, reused, pidFile, history, calls, crashes>>

\* The processes are forgotten: those of a sandbox that was stopped have ended,
\* those of one that ran have not.
MarkRunning(c) ==
    /\ Step(c, "markRunning")
    /\ LET i == caller[c].i IN
         /\ IF inst[i] = "absent" THEN UNCHANGED table
            ELSE inst' = [inst EXCEPT ![i] = "running"] /\ tracked' = Untracked(i)
         /\ lost' = IF inst[i] = "running" THEN lost \cup {p \in ProcsOn(i) : os[p] = "alive"}
                                           ELSE lost
    /\ Return(c)
    /\ UNCHANGED <<closing, inflight, up, external, unsure, hit, raced, calls, crashes>>

-----------------------------------------------------------------------------
(* Processes.                                                              *)

LaunchProcess(c) == Lookup(c, "launch", "runLaunch", {"running"})

\* buildSSMCommand: the command starts the process and then writes its PID file.
RunLaunch(c) ==
    /\ Step(c, "runLaunch")
    /\ \E out \in Outcome : LET i == caller[c].i
                                p == Fresh(Procs, home, None) IN
         /\ out.took => p # None
         /\ RunShellCommand(i, out)
         /\ IF out.took
            THEN /\ os' = [os EXCEPT ![p] = "alive"]
                 /\ home' = [home EXCEPT ![p] = i]
                 /\ pidFile' \in {pidFile \cup {p}} \cup IF out.ok THEN {} ELSE {pidFile}
            ELSE UNCHANGED <<os, home, pidFile>>
         /\ IF out.ok
            THEN caller' = [caller EXCEPT ![c].pc = "readPID", ![c].p = p] /\ UNCHANGED lost
            ELSE Return(c) /\ lost' = IF out.took THEN lost \cup {p} ELSE lost
    /\ UNCHANGED <<table, closing, inflight, up, cloud, reused, unsure, hit, raced, calls, crashes>>

\* When the PID cannot be read, or the health check does not succeed in time,
\* the process is left running.
LaunchAbandoned(c) == Return(c) /\ lost' = lost \cup {caller[c].p}

readPIDFile(c) ==
    /\ Step(c, "readPID")
    /\ \/ cloud[caller[c].i] = "running" /\ Goto(c, "health") /\ UNCHANGED lost
       \/ LaunchAbandoned(c)
    /\ UNCHANGED <<table, closing, inflight, up, external, unsure, hit, raced, calls, crashes>>

\* The health check asks whoever listens on the port.
waitForProcessHealth(c) ==
    /\ Step(c, "health")
    /\ \/ /\ cloud[caller[c].i] = "running"
          /\ \E q \in ProcsOn(caller[c].i) : os[q] \in {"alive", "dying"}
          /\ Goto(c, "addProcess") /\ UNCHANGED lost
       \/ LaunchAbandoned(c)
    /\ UNCHANGED <<table, closing, inflight, up, external, unsure, hit, raced, calls, crashes>>

AddProcess(c) ==
    /\ Step(c, "addProcess")
    /\ tracked' = IF inst[caller[c].i] = "absent" THEN tracked
                  ELSE [tracked EXCEPT ![caller[c].p] = "running"]
    /\ lost' = IF inst[caller[c].i] = "absent" THEN lost \cup {caller[c].p} ELSE lost
    /\ Return(c)
    /\ UNCHANGED <<inst, closing, inflight, up, external, unsure, hit, raced, calls, crashes>>

\* KillProcess and GetProcessStatus of a process the adapter tracks.
ProcessCall(c, op, pc, states) ==
    /\ NewCall(c)
    /\ \E p \in Procs :
         /\ tracked[p] \in states
         /\ op = "kill" => ~Busy(home[p])
         /\ caller' = [caller EXCEPT ![c] = [Ready EXCEPT !.op = op, !.pc = pc, !.i = home[p],
                                                          !.p = p]]
    /\ UNCHANGED <<table, closing, inflight, up, external, history, crashes>>

KillProcess(c) == ProcessCall(c, "kill", "checkStart", {"running", "exited"})

GetProcessStatus(c) == ProcessCall(c, "status", "status", {"running"})

\* Mutant: the start time is not compared, only that the PID exists.
CheckStartTimePidOnly(c) ==
    /\ Step(c, "checkStart")
    /\ \/ Return(c) /\ UNCHANGED tracked
       \/ /\ cloud[caller[c].i] = "running"
          /\ IF os[caller[c].p] # "dead" \/ caller[c].p \in reused
             THEN Goto(c, "kill") /\ UNCHANGED tracked
             ELSE Return(c) /\ MarkExited(caller[c].p)
    /\ UNCHANGED <<inst, closing, inflight, up, external, history, calls, crashes>>

\* readProcStartTime gives the start time the process was tracked with: a PID
\* that is gone, or has another start time, is not ours.
StartTimeMatches(p) == os[p] # "dead"

CheckStartTime(c) ==
    /\ Step(c, "checkStart")
    /\ \/ Return(c) /\ UNCHANGED tracked
       \/ /\ cloud[caller[c].i] = "running"
          /\ IF StartTimeMatches(caller[c].p)
             THEN Goto(c, "kill") /\ UNCHANGED tracked
             ELSE Return(c) /\ MarkExited(caller[c].p)
    /\ UNCHANGED <<inst, closing, inflight, up, external, history, calls, crashes>>

\* The signal goes to whoever has the PID now; without one the command fails.
RunKill(c) ==
    /\ Step(c, "kill")
    /\ \E out \in Outcome : LET p == caller[c].p IN
         /\ RunShellCommand(caller[c].i, out)
         /\ out.ok => os[p] # "dead" \/ p \in reused
         /\ os' = IF out.took /\ os[p] = "alive" THEN [os EXCEPT ![p] = "dying"] ELSE os
         /\ hit' = IF out.took /\ p \in reused THEN hit \cup {p} ELSE hit
         /\ IF out.ok THEN Goto(c, "cleanup") ELSE Return(c)
    /\ UNCHANGED <<table, closing, inflight, up, cloud, home, reused, pidFile, unsure, lost, raced,
                   calls, crashes>>

\* The PID file is removed, or not; then the process is marked.
KillCleanup(c) ==
    /\ Step(c, "cleanup")
    /\ \E gone \in SUBSET {caller[c].p} : pidFile' = pidFile \ gone
    /\ MarkExited(caller[c].p)
    /\ Return(c)
    /\ UNCHANGED <<inst, closing, inflight, up, cloud, os, home, reused, history, calls, crashes>>

\* The answer of a query that began before whatever happened meanwhile.
StatusAnswer(c) ==
    /\ Step(c, "status")
    /\ \/ Return(c) /\ UNCHANGED tracked
       \/ /\ cloud[caller[c].i] = "running"
          /\ IF os[caller[c].p] = "dead" THEN MarkExited(caller[c].p) ELSE UNCHANGED tracked
          /\ Return(c)
    /\ UNCHANGED <<inst, closing, inflight, up, external, history, calls, crashes>>

-----------------------------------------------------------------------------
(* Close, and a restart with Recover.                                      *)

Close(c) ==
    /\ NewCall(c) /\ ~closing
    /\ closing' = TRUE
    /\ caller' = [caller EXCEPT ![c] = [Ready EXCEPT !.op = "close", !.pc = "waitInflight"]]
    /\ UNCHANGED <<table, inflight, up, external, history, crashes>>

snapshotInstanceIDs == {i \in Instances : inst[i] # "absent"}

\* The instances to terminate are listed when every create has returned.
CloseWait(c) ==
    /\ Step(c, "waitInflight") /\ inflight = 0
    /\ caller' = [caller EXCEPT ![c].pc = "closeNext",
                    ![c].todo = IF TerminateOnClose THEN snapshotInstanceIDs ELSE {}]
    /\ UNCHANGED <<table, closing, inflight, up, external, history, calls, crashes>>

CloseTerminate(c) ==
    /\ Step(c, "closeNext")
    /\ \E i \in caller[c].todo, out \in Outcome :
         /\ TerminateInstance(i, out)
         /\ unsure' = IF out.ok THEN unsure ELSE unsure \cup {i}
         /\ caller' = [caller EXCEPT ![c].todo = @ \ {i}]
    /\ UNCHANGED <<table, closing, inflight, up, home, reused, pidFile, lost, hit, raced, calls,
                   crashes>>

CloseDone(c) ==
    /\ Step(c, "closeNext") /\ caller[c].todo = {}
    /\ inst' = [i \in Instances |-> "absent"]
    /\ tracked' = [p \in Procs |-> "none"]
    /\ Return(c)
    /\ UNCHANGED <<closing, inflight, up, external, history, calls, crashes>>

Crash ==
    /\ up /\ crashes < MaxCrashes
    /\ up' = FALSE /\ crashes' = crashes + 1
    /\ inst' = [i \in Instances |-> "absent"]
    /\ tracked' = [p \in Procs |-> "none"]
    /\ caller' = [c \in Callers |-> Ready]
    /\ closing' = FALSE /\ inflight' = 0
    /\ UNCHANGED <<external, history, calls>>

recoverInstanceStatus(state) ==
    CASE state = "running" -> "running"
      [] state = "pending" -> "provisioning"
      [] OTHER -> "stopped"

\* The PID files of the processes that run on an instance that answers.
recoverProcesses(silent) ==
    {p \in pidFile : /\ os[p] \in {"alive", "dying"}
                     /\ cloud[home[p]] = "running" /\ home[p] \notin silent}

\* Recover lists the running and the stopped instances and asks the running
\* ones for their processes; where the command fails there are none.
Recover ==
    /\ ~up /\ up' = TRUE
    /\ \E silent \in SUBSET Instances :
         LET found == ListInstances({"running", "stopped"})
             seen  == recoverProcesses(silent)
         IN  /\ inst' = [i \in Instances |-> IF i \in found THEN recoverInstanceStatus(cloud[i])
                                                            ELSE "absent"]
             /\ tracked' = [p \in Procs |-> IF p \in seen THEN "running" ELSE "none"]
             /\ unsure' = (unsure \cup {i \in Instances : cloud[i] \in Live}) \ found
             /\ lost' = (lost \cup {p \in Procs : os[p] = "alive" /\ home[p] \in silent}) \ seen
    /\ UNCHANGED <<closing, inflight, caller, external, hit, raced, calls, crashes>>

-----------------------------------------------------------------------------
Init ==
    /\ inst = [i \in Instances |-> "absent"]
    /\ tracked = [p \in Procs |-> "none"]
    /\ closing = FALSE /\ inflight = 0 /\ up = TRUE
    /\ caller = [c \in Callers |-> Ready]
    /\ cloud = [i \in Instances |-> "none"]
    /\ os = [p \in Procs |-> "none"]
    /\ home = [p \in Procs |-> None]
    /\ reused = {} /\ pidFile = {} /\ unsure = {} /\ lost = {} /\ hit = {} /\ raced = {}
    /\ calls = 0 /\ crashes = 0

CallerCalls(c) ==
    \/ CreateSandbox(c) \/ DestroySandbox(c) \/ PauseSandbox(c) \/ ResumeSandbox(c)
    \/ LaunchProcess(c) \/ KillProcess(c) \/ GetProcessStatus(c) \/ Close(c)

CallerStep(c) ==
    \/ LaunchInstance(c) \/ WaitForInstanceReady(c) \/ WaitForSSMRegistration(c) \/ WaitFails(c)
    \/ TerminateOrphan(c) \/ Register(c) \/ DestroyTerminate(c) \/ DestroyDelete(c)
    \/ StopInstance(c) \/ MarkStopped(c) \/ StartInstance(c) \/ MarkRunning(c)
    \/ RunLaunch(c) \/ readPIDFile(c) \/ waitForProcessHealth(c) \/ AddProcess(c)
    \/ CheckStartTime(c) \/ RunKill(c) \/ KillCleanup(c) \/ StatusAnswer(c)
    \/ CloseWait(c) \/ CloseTerminate(c) \/ CloseDone(c)

Next ==
    \/ \E c \in Callers : CallerCalls(c) \/ CallerStep(c)
    \/ Crash \/ Recover
    \/ \E i \in Instances : Boot(i) \/ Halt(i)
    \/ \E p \in Procs : ProcessExits(p) \/ PidReused(p)

Spec == Init /\ [][Next]_vars

\* Every remote call returns or runs into its deadline.
Fairness == \A c \in Callers : WF_vars(CallerStep(c))

FairSpec == Spec /\ Fairness

-----------------------------------------------------------------------------
(* Properties.                                                             *)

Creating(i) == \E c \in Callers : caller[c].op = "create" /\ caller[c].i = i

Closed == closing /\ \A c \in Callers : caller[c].op # "close"

\* No instance runs up costs unknown to the adapter: one that exists is in the
\* table or its create will register or terminate it; after a Close that
\* terminates none is left.  Excepted are instances a call about which failed
\* and those in transition when Recover listed them.
InstancesOwned ==
    up => \A i \in Instances :
        cloud[i] \in Live => \/ inst[i] # "absent" /\ ~Closed
                             \/ i \in unsure \/ Creating(i)
                             \/ Closed /\ ~TerminateOnClose

\* The adapter does not forget a live process: on a running sandbox it is
\* tracked as running, whatever the order of kills, status answers, pauses,
\* resumes and restarts.  Excepted are the processes whose own launch failed,
\* those of an instance that did not answer Recover, and those that were alive
\* when ResumeSandbox was called for a sandbox that ran and replaced their map.
ProcessesTracked ==
    up => \A p \in Procs :
        os[p] = "alive" /\ inst[home[p]] = "running" =>
            \/ tracked[p] = "running" \/ p \in lost
            \/ \E c \in Callers : caller[c].p = p /\ caller[c].op = "launch"

\* A kill signals a foreign process only when ours has ended after its start
\* time was checked: PIDs recycled before that are recognised.
KillSparesOthers == hit \subseteq raced

\* Close returns although it waits for creates that poll the cloud.
CloseReturns == \A c \in Callers : (caller[c].op = "close") ~> (caller[c].op # "close")

\* The adapter knows what runs: its instances and the processes on them.
NothingUnknown == InstancesOwned /\ ProcessesTracked
=============================================================================
