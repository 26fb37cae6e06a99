----------------------------- MODULE FleetControl -----------------------------
(***************************************************************************)
(* FleetSandboxControl of internal/sandbox/control/fleet: sandbox requests *)
(* routed to instances with the claim-slot protocol, the control loop      *)
(* (health checks and reconciliation, drains, scaling, termination),       *)
(* Close, and recovery after a restart.                                    *)
(*                                                                         *)
(* Callers are goroutines inside CreateSandbox, DestroySandbox or Close;   *)
(* the control loop is one more goroutine.  A step is one critical section *)
(* of the fleet's lock or of an instance's lock, or one remote call.  The  *)
(* cloud and the sandbox hosts are external: a remote call may fail with   *)
(* or without having taken effect (a launch that did is the case of a      *)
(* launched instance that gets no client).  Durations are not modelled: a  *)
(* timer that was started may have expired whenever the code looks at it.  *)
(***************************************************************************)
EXTENDS Integers, FiniteSets

CONSTANTS
    Callers,
    Instances,                \* cloud instance IDs
    Sandboxes,                \* sandbox session IDs
    MinInstances, MaxInstances, WarmPoolTarget,   \* FleetConfig
    MaxSessionsPerInstance,
    HeadroomSessions,         \* sessions up to which CapacityHeadroom admits one more
    UnhealthyThreshold, HealthyThreshold, MaxConcurrentProvisions,
    LeaveInstancesOnClose,
    MaxAttempts,              \* maxAttempts of CreateSandbox (3)
    MaxCalls,                 \* bound: API calls
    MaxCrashes,               \* bound: restarts of the fleet manager
    None

ASSUME FleetAssumption ==
    /\ None \notin Instances \cup Sandboxes
    /\ IsFiniteSet(Callers) /\ IsFiniteSet(Instances) /\ IsFiniteSet(Sandboxes)
    /\ {MinInstances, WarmPoolTarget, HeadroomSessions, MaxCalls, MaxCrashes} \subseteq Nat
    /\ {MaxInstances, MaxSessionsPerInstance, UnhealthyThreshold, HealthyThreshold,
        MaxConcurrentProvisions, MaxAttempts} \subseteq Nat \ {0}
    /\ LeaveInstancesOnClose \in BOOLEAN

VARIABLES
    instances,   \* FleetSandboxControl.instances: the IDs in the map
    mi,          \* the ManagedInstance objects
    pending,     \* pendingLaunches
    closed,
    caller,      \* the callers: where they are, with their local variables
    loop,        \* the control loop, with its local variables
    cloud,       \* external: the cloud's view of every instance
    remote,      \* external: the sandboxes that exist on every host
    known,       \* sandboxes handed out and not yet destroyed, with their instance
    calls, crashes

vars == <<instances, mi, pending, closed, caller, loop, cloud, remote, known, calls, crashes>>

InstanceState == {"provisioning", "ready", "active", "draining", "terminating"}

Managed == [state : InstanceState, count : Nat, reason : {"none", "health", "scale-down"},
            fails : 0..UnhealthyThreshold, succs : 0..HealthyThreshold, idle : BOOLEAN]

CallerPC == {"ready", "select", "claim", "provision", "cas", "launch", "register",
             "createRPC", "rollback", "destroyRPC", "reclaim", "closeWait", "closeEach"}

Caller == [pc : CallerPC, attempt : Nat, inst : Instances \cup {None},
           sb : Sandboxes \cup {None}, todo : SUBSET Instances]

LoopPC == {"tick", "health", "apply", "unhealthy", "scaleUp", "cas", "launch", "register",
           "scaleDown", "drainEach", "drain", "terminate", "provision", "stopped"}

Loop == [pc : LoopPC, targets : SUBSET Instances, cur : Instances \cup {None},
         result : Nat \cup {None}, total : Int, idleCount : Int, remove : SUBSET Instances,
         forced : BOOLEAN]   \* the drain under way has timed out

NewInstance(s) == [state |-> s, count |-> 0, reason |-> "none", fails |-> 0, succs |-> 0,
                   idle |-> (s = "ready")]

Ready == [pc |-> "ready", attempt |-> 0, inst |-> None, sb |-> None, todo |-> {}]

Tick == [pc |-> "tick", targets |-> {}, cur |-> None, result |-> None,
         total |-> 0, idleCount |-> 0, remove |-> {}, forced |-> FALSE]

-----------------------------------------------------------------------------
(* ManagedInstance.                                                        *)

Routable(i) == mi[i].state \in {"ready", "active"}

\* Mutant: the claim does not look at the state again.
CanClaimStale(i) == mi[i].count < MaxSessionsPerInstance

CanClaim(i) == Routable(i) /\ mi[i].count < MaxSessionsPerInstance

ClaimSession(m) ==
    [m EXCEPT !.count = @ + 1, !.state = "active", !.idle = IF m.state = "ready" THEN FALSE ELSE @]

\* Mutant: decrements an empty instance too.
ReleaseSessionNegative(m) == [m EXCEPT !.count = @ - 1]

ReleaseSession(m) ==
    IF m.count <= 0 THEN m
    ELSE IF m.count = 1 /\ m.state = "active"
         THEN [m EXCEPT !.count = 0, !.state = "ready", !.idle = TRUE]
         ELSE [m EXCEPT !.count = @ - 1]

\* SelectInstance: of the routable instances with headroom, one with the
\* fewest sessions; idle time and round robin break ties.
Candidates == {i \in instances : CanClaim(i) /\ mi[i].count <= HeadroomSessions}

SelectInstance == {i \in Candidates : \A j \in Candidates : mi[i].count <= mi[j].count}

-----------------------------------------------------------------------------
(* CreateSandbox.                                                          *)

loopVars == <<loop, crashes>>

NewCall(c) == caller[c].pc = "ready" /\ calls < MaxCalls /\ calls' = calls + 1

Goto(c, pc) == caller' = [caller EXCEPT ![c].pc = pc]

Return(c) == caller' = [caller EXCEPT ![c] = Ready]

\* The next attempt, or ErrNoCapacity after the last.
Retry(c) ==
    IF caller[c].attempt + 1 < MaxAttempts
    THEN caller' = [caller EXCEPT ![c].pc = "select", ![c].attempt = @ + 1, ![c].inst = None]
    ELSE Return(c)

CreateSandbox(c) ==
    /\ NewCall(c)
    /\ ~closed
    /\ \E s \in Sandboxes :
        /\ \A i \in Instances : s \notin remote[i]
        /\ \A d \in Callers : caller[d].sb # s
        /\ s \notin DOMAIN known
        /\ caller' = [caller EXCEPT ![c] = [Ready EXCEPT !.pc = "select", !.sb = s]]
    /\ UNCHANGED <<instances, mi, pending, closed, cloud, remote, known, loopVars>>

\* selectAndClaim routes on a snapshot ...
SelectAndClaim(c) ==
    /\ caller[c].pc = "select"
    /\ IF SelectInstance = {}
       THEN Goto(c, "provision")
       ELSE \E i \in SelectInstance :
                caller' = [caller EXCEPT ![c].pc = "claim", ![c].inst = i]
    /\ UNCHANGED <<instances, mi, pending, closed, cloud, remote, known, calls, loopVars>>

\* ... and checks again when it claims under the instance's lock.
Claim(c) ==
    /\ caller[c].pc = "claim"
    /\ IF CanClaim(caller[c].inst)
       THEN mi' = [mi EXCEPT ![caller[c].inst] = ClaimSession(@)] /\ Goto(c, "createRPC")
       ELSE Retry(c) /\ UNCHANGED mi
    /\ UNCHANGED <<instances, pending, closed, cloud, remote, known, calls, loopVars>>

\* The host creates the sandbox; the answer may be lost.
CreateRPC(c) ==
    /\ caller[c].pc = "createRPC"
    /\ LET i == caller[c].inst
           s == caller[c].sb
       IN  \/ /\ cloud[i] = "running"
              /\ remote' = [remote EXCEPT ![i] = @ \cup {s}]
              /\ \/ Return(c) /\ known' = [t \in DOMAIN known \cup {s} |->
                                              IF t = s THEN i ELSE known[t]]
                 \/ Goto(c, "rollback") /\ UNCHANGED known
           \/ Goto(c, "rollback") /\ UNCHANGED <<remote, known>>
    /\ UNCHANGED <<instances, mi, pending, closed, cloud, calls, loopVars>>

Rollback(c) ==
    /\ caller[c].pc = "rollback"
    /\ mi' = [mi EXCEPT ![caller[c].inst] = ReleaseSession(@)]
    /\ Return(c)
    /\ UNCHANGED <<instances, pending, closed, cloud, remote, known, calls, loopVars>>

\* provisionInstance: the ceiling is checked, then a launch slot is taken.
ProvisionInstance(c) ==
    /\ caller[c].pc = "provision"
    /\ IF Cardinality(instances) >= MaxInstances THEN Return(c) ELSE Goto(c, "cas")
    /\ UNCHANGED <<instances, mi, pending, closed, cloud, remote, known, calls, loopVars>>

ProvisionSlot(c) ==
    /\ caller[c].pc = "cas"
    /\ IF pending >= MaxConcurrentProvisions
       THEN Return(c) /\ UNCHANGED pending
       ELSE Goto(c, "launch") /\ pending' = pending + 1
    /\ UNCHANGED <<instances, mi, closed, cloud, remote, known, calls, loopVars>>

\* Mutant: a failed launch keeps its slot.
LaunchInstanceKeepsSlot(c) ==
    /\ caller[c].pc = "launch"
    /\ Return(c)
    /\ UNCHANGED <<instances, mi, pending, closed, cloud, remote, known, calls, loopVars>>

LaunchInstance(c) ==
    /\ caller[c].pc = "launch"
    /\ \/ /\ Return(c) /\ pending' = pending - 1
          /\ UNCHANGED cloud
       \/ \E i \in Instances :
            /\ cloud[i] = "none"
            /\ cloud' = [cloud EXCEPT ![i] = "running"]
            /\ caller' = [caller EXCEPT ![c].pc = "register", ![c].inst = i]
            /\ UNCHANGED pending
    /\ UNCHANGED <<instances, mi, closed, remote, known, calls, loopVars>>

\* No client for the instance: it is forgotten, running.  Else it joins the
\* fleet as ready and the caller tries again.
RegisterInstance(c) ==
    /\ caller[c].pc = "register"
    /\ pending' = pending - 1
    /\ \/ Return(c) /\ UNCHANGED <<instances, mi>>
       \/ /\ instances' = instances \cup {caller[c].inst}
          /\ mi' = [mi EXCEPT ![caller[c].inst] = NewInstance("ready")]
          /\ Retry(c)
    /\ UNCHANGED <<closed, cloud, remote, known, calls, loopVars>>

-----------------------------------------------------------------------------
(* DestroySandbox: release first, claim again when the call fails.         *)

DestroySandbox(c) ==
    /\ NewCall(c)
    /\ \E s \in DOMAIN known :
        LET i == known[s] IN
        /\ i \in instances
        /\ mi' = [mi EXCEPT ![i] = ReleaseSession(@)]
        \* attempt 1 remembers that a session was released
        /\ caller' = [caller EXCEPT ![c] = [Ready EXCEPT
                         !.pc = "destroyRPC", !.sb = s, !.inst = i,
                         !.attempt = IF mi[i].count > 0 THEN 1 ELSE 0]]
    /\ UNCHANGED <<instances, pending, closed, cloud, remote, known, loopVars>>

DestroyRPC(c) ==
    /\ caller[c].pc = "destroyRPC"
    /\ LET i == caller[c].inst
           s == caller[c].sb
           gone == [remote EXCEPT ![i] = @ \ {s}]
           fails == IF caller[c].attempt = 1 THEN Goto(c, "reclaim") ELSE Return(c)
       IN  \/ /\ s \in remote[i]
              /\ remote' = gone
              /\ \/ Return(c) /\ known' = [t \in DOMAIN known \ {s} |-> known[t]]
                 \/ fails /\ UNCHANGED known
           \/ fails /\ UNCHANGED <<remote, known>>
    /\ UNCHANGED <<instances, mi, pending, closed, cloud, calls, loopVars>>

Reclaim(c) ==
    /\ caller[c].pc = "reclaim"
    /\ mi' = [mi EXCEPT ![caller[c].inst] = IF CanClaim(caller[c].inst) THEN ClaimSession(@) ELSE @]
    /\ Return(c)
    /\ UNCHANGED <<instances, pending, closed, cloud, remote, known, calls, loopVars>>

-----------------------------------------------------------------------------
(* Close.                                                                  *)

\* Cancels the control loop and waits for it.
Close(c) ==
    /\ NewCall(c)
    /\ ~closed
    /\ closed' = TRUE
    /\ caller' = [caller EXCEPT ![c] = [Ready EXCEPT !.pc = "closeWait"]]
    /\ UNCHANGED <<instances, mi, pending, cloud, remote, known, loopVars>>

CloseWait(c) ==
    /\ caller[c].pc = "closeWait"
    /\ loop.pc = "stopped"
    /\ IF LeaveInstancesOnClose THEN Return(c)
       ELSE caller' = [caller EXCEPT ![c].pc = "closeEach", ![c].todo = instances]
    /\ UNCHANGED <<instances, mi, pending, closed, cloud, remote, known, calls, loopVars>>

\* TerminateInstance takes the host's sandboxes with it.
Terminated(i) ==
    /\ cloud' = [cloud EXCEPT ![i] = "gone"]
    /\ remote' = [remote EXCEPT ![i] = {}]

\* Every instance is told to terminate, once; then the map is emptied.
CloseEach(c) ==
    /\ caller[c].pc = "closeEach"
    /\ IF caller[c].todo = {}
       THEN instances' = {} /\ Return(c) /\ UNCHANGED <<mi, cloud, remote>>
       ELSE \E i \in caller[c].todo :
            /\ mi' = [mi EXCEPT ![i].state = "terminating"]
            /\ caller' = [caller EXCEPT ![c].todo = @ \ {i}]
            /\ Terminated(i) \/ UNCHANGED <<cloud, remote>>
            /\ UNCHANGED instances
    /\ UNCHANGED <<pending, closed, known, calls, loopVars>>

-----------------------------------------------------------------------------
(* The control loop, one phase after the other.                            *)

callerVars == <<closed, caller, known, calls, crashes>>

Phase(pc, targets) == loop' = [Tick EXCEPT !.pc = pc, !.targets = targets]

\* The select between the cancelled context and the ticker may take either.
RunIteration ==
    /\ loop.pc = "tick"
    /\ \/ closed /\ Phase("stopped", {})
       \/ Phase("health", instances)
    /\ UNCHANGED <<instances, mi, pending, cloud, remote, callerVars>>

\* Phase 1: ask the next host.  The count it reports is the count at the time
\* of the question.
HealthCheck ==
    /\ loop.pc = "health"
    /\ IF loop.targets = {} THEN Phase("unhealthy", instances)
       ELSE \E i \in loop.targets :
            IF Routable(i) \/ mi[i].state = "draining"
            THEN \/ loop' = [loop EXCEPT !.pc = "apply", !.cur = i, !.result = None]
                 \/ /\ cloud[i] = "running"
                    /\ loop' = [loop EXCEPT !.pc = "apply", !.cur = i,
                                            !.result = Cardinality(remote[i])]
            ELSE loop' = [loop EXCEPT !.targets = @ \ {i}]
    /\ UNCHANGED <<instances, mi, pending, cloud, remote, callerVars>>

AtMost(n, max) == IF n < max THEN n ELSE max

\* Mutant: reported sessions do not make a ready instance active.
ReconciledStaysReady(m, n) ==
    [m EXCEPT !.fails = 0, !.succs = AtMost(@ + 1, HealthyThreshold), !.count = n,
              !.state = IF n = 0 /\ @ = "active" THEN "ready" ELSE @,
              !.idle = IF n = 0 /\ m.state = "active" THEN TRUE ELSE @]

\* The answer: counters, and the session count becomes the reported one.
Reconciled(m, n) ==
    [m EXCEPT !.fails = 0, !.succs = AtMost(@ + 1, HealthyThreshold), !.count = n,
              !.state = IF n = m.count THEN @
                        ELSE IF n = 0 /\ @ = "active" THEN "ready"
                        ELSE IF n > 0 /\ @ = "ready" THEN "active" ELSE @,
              !.idle = IF n = m.count THEN @
                       ELSE IF n = 0 /\ m.state = "active" THEN TRUE
                       ELSE IF n > 0 /\ m.state = "ready" THEN FALSE ELSE @]

\* No answer.
CheckFailed(m) == [m EXCEPT !.fails = AtMost(@ + 1, UnhealthyThreshold), !.succs = 0]

HealthApply ==
    /\ loop.pc = "apply"
    /\ mi' = [mi EXCEPT ![loop.cur] =
                IF loop.result = None THEN CheckFailed(@) ELSE Reconciled(@, loop.result)]
    /\ loop' = [loop EXCEPT !.pc = "health", !.targets = @ \ {loop.cur},
                            !.cur = None, !.result = None]
    /\ UNCHANGED <<instances, pending, cloud, remote, callerVars>>

\* An instance drained for its health goes back to ready.
Recovered(m) ==
    IF m.state = "draining" /\ m.reason = "health" /\ m.succs >= HealthyThreshold
    THEN [m EXCEPT !.state = "ready", !.reason = "none", !.idle = TRUE]
    ELSE m

\* Phase 2.
HandleUnhealthy ==
    /\ loop.pc = "unhealthy"
    /\ IF loop.targets = {} THEN Phase("scaleUp", {}) /\ UNCHANGED mi
       ELSE \E i \in loop.targets :
            /\ loop' = [loop EXCEPT !.targets = @ \ {i}]
            /\ mi' = [mi EXCEPT ![i] = Recovered(
                        IF Routable(i) /\ @.fails >= UnhealthyThreshold
                        THEN [@ EXCEPT !.state = "draining", !.reason = "health"] ELSE @)]
    /\ UNCHANGED <<instances, pending, cloud, remote, callerVars>>

\* Phase 3: below the warm pool target and the ceiling, launch one instance.
ScaleUp ==
    /\ loop.pc = "scaleUp"
    /\ LET readyCount == Cardinality({i \in instances : CanClaim(i)})
       IN  IF \/ readyCount >= WarmPoolTarget
              \/ Cardinality(instances) >= MaxInstances
              \/ pending >= MaxConcurrentProvisions
           THEN Phase("scaleDown", {}) ELSE Phase("cas", {})
    /\ UNCHANGED <<instances, mi, pending, cloud, remote, callerVars>>

WarmSlot ==
    /\ loop.pc = "cas"
    /\ IF pending >= MaxConcurrentProvisions
       THEN Phase("scaleDown", {}) /\ UNCHANGED pending
       ELSE Phase("launch", {}) /\ pending' = pending + 1
    /\ UNCHANGED <<instances, mi, cloud, remote, callerVars>>

WarmLaunch ==
    /\ loop.pc = "launch"
    /\ \/ /\ Phase("scaleDown", {}) /\ pending' = pending - 1
          /\ UNCHANGED cloud
       \/ \E i \in Instances :
            /\ cloud[i] = "none"
            /\ cloud' = [cloud EXCEPT ![i] = "running"]
            /\ loop' = [loop EXCEPT !.pc = "register", !.cur = i]
            /\ UNCHANGED pending
    /\ UNCHANGED <<instances, mi, remote, callerVars>>

WarmRegister ==
    /\ loop.pc = "register"
    /\ pending' = pending - 1
    /\ \/ UNCHANGED <<instances, mi>>
       \/ /\ instances' = instances \cup {loop.cur}
          /\ mi' = [mi EXCEPT ![loop.cur] = NewInstance("provisioning")]
    /\ Phase("scaleDown", {})
    /\ UNCHANGED <<cloud, remote, callerVars>>

\* Phase 4: snapshot the idle instances; those idle for long are candidates.
ScaleDown ==
    /\ loop.pc = "scaleDown"
    /\ LET idle == {i \in instances : mi[i].state = "ready" /\ mi[i].count = 0}
       IN  \E cand \in SUBSET {i \in idle : mi[i].idle} :
             loop' = [loop EXCEPT !.pc = "drainEach", !.targets = cand, !.cur = None,
                                  !.total = Cardinality(instances),
                                  !.idleCount = Cardinality(idle)]
    /\ UNCHANGED <<instances, mi, pending, cloud, remote, callerVars>>

ScaleDownEach ==
    /\ loop.pc = "drainEach"
    /\ IF loop.targets = {} \/ loop.total <= MinInstances \/ loop.idleCount <= WarmPoolTarget
       THEN Phase("drain", instances) /\ UNCHANGED mi
       ELSE \E i \in loop.targets :
            IF mi[i].state = "ready" /\ mi[i].count = 0   \* looked at again under the lock
            THEN /\ mi' = [mi EXCEPT ![i].state = "draining", ![i].reason = "scale-down"]
                 /\ loop' = [loop EXCEPT !.targets = @ \ {i}, !.total = @ - 1, !.idleCount = @ - 1]
            ELSE loop' = [loop EXCEPT !.targets = @ \ {i}] /\ UNCHANGED mi
    /\ UNCHANGED <<instances, pending, cloud, remote, callerVars>>

DrainTarget(i) == loop.pc = "drain" /\ i \in loop.targets

\* Phase 5: a drain that timed out, a drained instance, one left terminating.
DrainExpired(i) ==
    /\ DrainTarget(i) /\ mi[i].state = "draining"
    /\ loop' = [loop EXCEPT !.pc = "terminate", !.cur = i, !.forced = TRUE]
    /\ UNCHANGED <<instances, mi, pending, cloud, remote, callerVars>>

DrainLook(i) ==
    /\ DrainTarget(i)
    /\ IF mi[i].state = "terminating" \/ (mi[i].state = "draining" /\ mi[i].count = 0)
       THEN loop' = [loop EXCEPT !.pc = "terminate", !.cur = i, !.forced = FALSE]
       ELSE loop' = [loop EXCEPT !.targets = @ \ {i}]
    /\ UNCHANGED <<instances, mi, pending, cloud, remote, callerVars>>

\* On to the next target.
TerminateReturns(remove) ==
    loop' = [loop EXCEPT !.pc = "drain", !.targets = @ \ {loop.cur}, !.cur = None,
                         !.remove = @ \cup remove, !.forced = FALSE]

\* Mutant: takes the instance off the list although the call failed.
TerminateFailsRemoves ==
    /\ loop.pc = "terminate"
    /\ TerminateReturns({loop.cur})
    /\ UNCHANGED <<instances, mi, pending, cloud, remote, callerVars>>

\* TerminateInstance fails, done or not: the next iteration tries again.
TerminateFails ==
    /\ loop.pc = "terminate"
    /\ Terminated(loop.cur) \/ UNCHANGED <<cloud, remote>>
    /\ TerminateReturns({})
    /\ UNCHANGED <<instances, mi, pending, callerVars>>

TerminateSucceeds ==
    /\ loop.pc = "terminate"
    /\ Terminated(loop.cur)
    /\ mi' = [mi EXCEPT ![loop.cur].state = "terminating"]
    /\ TerminateReturns({loop.cur})
    /\ UNCHANGED <<instances, pending, callerVars>>

\* What was terminated leaves the map at the end of the phase.
DrainDone ==
    /\ loop.pc = "drain" /\ loop.targets = {}
    /\ instances' = instances \ loop.remove
    /\ Phase("provision", instances')
    /\ UNCHANGED <<mi, pending, cloud, remote, callerVars>>

\* Phase 6: a provisioning instance that answers is ready ...
ProvisionLook(i) ==
    /\ loop.pc = "provision" /\ i \in loop.targets
    /\ loop' = [loop EXCEPT !.targets = @ \ {i}]
    /\ \/ UNCHANGED mi
       \/ /\ mi[i].state = "provisioning" /\ cloud[i] = "running"
          /\ mi' = [mi EXCEPT ![i].state = "ready", ![i].idle = TRUE]
    /\ UNCHANGED <<instances, pending, cloud, remote, callerVars>>

\* ... and one that took too long is terminated.
ProvisionExpired(i) ==
    /\ loop.pc = "provision" /\ i \in loop.targets
    /\ mi[i].state = "provisioning"
    /\ Terminated(i)
    /\ \/ /\ mi' = [mi EXCEPT ![i].state = "terminating"]
          /\ loop' = [loop EXCEPT !.targets = @ \ {i}, !.remove = @ \cup {i}]
       \/ /\ UNCHANGED mi   \* the answer is lost
          /\ loop' = [loop EXCEPT !.targets = @ \ {i}]
    /\ UNCHANGED <<instances, pending, callerVars>>

ProvisionDone ==
    /\ loop.pc = "provision" /\ loop.targets = {}
    /\ instances' = instances \ loop.remove
    /\ Phase("tick", {})
    /\ UNCHANGED <<mi, pending, cloud, remote, callerVars>>

-----------------------------------------------------------------------------
(* Restart: the new manager knows the running instances again, as          *)
(* provisioning and without their sessions; it may fail to get a client    *)
(* for some.                                                               *)

RecoverInstances ==
    /\ crashes < MaxCrashes /\ crashes' = crashes + 1
    /\ \E found \in SUBSET {i \in Instances : cloud[i] = "running"} :
        /\ instances' = found
        /\ mi' = [i \in Instances |-> NewInstance("provisioning")]
    /\ pending' = 0
    /\ closed' = FALSE
    /\ caller' = [c \in Callers |-> Ready]
    /\ loop' = Tick
    /\ UNCHANGED <<cloud, remote, known, calls>>

-----------------------------------------------------------------------------
Init ==
    /\ instances = {}
    /\ mi = [i \in Instances |-> NewInstance("provisioning")]
    /\ pending = 0 /\ closed = FALSE
    /\ caller = [c \in Callers |-> Ready]
    /\ loop = Tick
    /\ cloud = [i \in Instances |-> "none"]
    /\ remote = [i \in Instances |-> {}]
    /\ known = [s \in {} |-> None]
    /\ calls = 0 /\ crashes = 0

CallerCalls(c) == CreateSandbox(c) \/ DestroySandbox(c) \/ Close(c)

CallerStep(c) ==
    \/ SelectAndClaim(c) \/ Claim(c) \/ CreateRPC(c) \/ Rollback(c)
    \/ ProvisionInstance(c) \/ ProvisionSlot(c) \/ LaunchInstance(c) \/ RegisterInstance(c)
    \/ DestroyRPC(c) \/ Reclaim(c) \/ CloseWait(c) \/ CloseEach(c)

LoopStep ==
    \/ RunIteration \/ HealthCheck \/ HealthApply \/ HandleUnhealthy
    \/ ScaleUp \/ WarmSlot \/ WarmLaunch \/ WarmRegister
    \/ ScaleDown \/ ScaleDownEach
    \/ \E i \in Instances : DrainExpired(i) \/ DrainLook(i)
    \/ TerminateFails \/ TerminateSucceeds \/ DrainDone
    \/ \E i \in Instances : ProvisionLook(i) \/ ProvisionExpired(i)
    \/ ProvisionDone

Next ==
    \/ \E c \in Callers : CallerCalls(c) \/ CallerStep(c)
    \/ LoopStep
    \/ RecoverInstances

Spec == Init /\ [][Next]_vars

-----------------------------------------------------------------------------
(* Properties.                                                             *)

TypeOK ==
    /\ instances \subseteq Instances
    /\ mi \in [Instances -> Managed]
    /\ pending \in Nat
    /\ closed \in BOOLEAN
    /\ caller \in [Callers -> Caller]
    /\ loop \in Loop
    /\ cloud \in [Instances -> {"none", "running", "gone"}]
    /\ remote \in [Instances -> SUBSET Sandboxes]
    /\ DOMAIN known \subseteq Sandboxes
    /\ \A s \in DOMAIN known : known[s] \in Instances
    /\ calls \in 0..MaxCalls /\ crashes \in 0..MaxCrashes

\* Launch slots in use, by callers and by the warm pool.
Launching == {c \in Callers : caller[c].pc \in {"launch", "register"}}

\* pendingLaunches counts the launches under way, whichever way they end, and
\* on-demand and warm launches together stay within MaxConcurrentProvisions.
LaunchSlots ==
    /\ pending = Cardinality(Launching) + (IF loop.pc \in {"launch", "register"} THEN 1 ELSE 0)
    /\ pending <= MaxConcurrentProvisions

\* An active instance has sessions, after any mix of claims, rollbacks,
\* repeated destroys and reconciliations: an instance that has none is never
\* kept from scale-down by a stale "active".
ActiveHasSessions == \A i \in Instances : mi[i].state = "active" => mi[i].count > 0

\* A ready instance has its idle clock running, by whichever path it became
\* ready (launch, warm-up, last session, reconciliation, recovery from a
\* drain): phaseScaleDown ignores an instance without one for ever.
ReadyHasIdleClock == \A i \in Instances : mi[i].state = "ready" => mi[i].idle

Restarted == crashes' # crashes

\* The control loop forgets an instance only once the cloud has terminated it
\* (failed calls are retried); only Close and a restart empty the map otherwise.
LeavesTerminated ==
    [][\A i \in instances \ instances' :
         cloud[i] = "gone" \/ Restarted \/ \E c \in Callers : caller[c].pc = "closeEach"]_vars

\* An instance drained by scale-down never takes sessions again, whatever
\* health checks, reconciliations and rolled-back destroys still arrive for it.
ScaleDownFinal ==
    [][\A i \in Instances :
         mi[i].state = "draining" /\ mi[i].reason = "scale-down" =>
             mi'[i].state \in {"draining", "terminating"} \/ Restarted]_vars

\* Unless its drain timed out, an instance is terminated without any tracked
\* session, although the count was read before the call: a create that chose the
\* instance before the drain cannot claim it now.
GracefulDrainIsEmpty ==
    loop.pc = "terminate" /\ ~loop.forced => mi[loop.cur].count = 0

\* No state keeps scale-down from an empty instance for ever: what is active
\* has sessions, and what is ready has its clock running.
StatesAndClocks == ActiveHasSessions /\ ReadyHasIdleClock

\* A ready instance may have sessions too, against instance_state.go:17, and the
\* only way there is the recovery from a health drain (handleUnhealthy does not
\* look at the count); from there the count only falls, until a claim or an
\* answer of the host makes the instance active.  No release, reconciliation,
\* warm-up or restart makes one.
BusyReadyIsRecovered ==
    [][\A i \in Instances :
         mi'[i].state = "ready" /\ mi'[i].count > 0 =>
             \/ mi[i].state = "ready" /\ mi'[i].count <= mi[i].count
             \/ /\ mi[i].state = "draining" /\ mi[i].reason = "health"
                /\ mi'[i].count = mi[i].count]_vars

\* The states that ManagedInstance's methods, the health check and the recovery
\* give an instance fit its sessions: empty instances can be scaled down, and
\* only a recovered one is ready with sessions.
StatesFitSessions == []StatesAndClocks /\ BusyReadyIsRecovered

\* How an instance leaves: terminated in the cloud before it is forgotten, and
\* for good once scale-down has chosen it.
DrainsAreFinal == LeavesTerminated /\ ScaleDownFinal
=============================================================================
