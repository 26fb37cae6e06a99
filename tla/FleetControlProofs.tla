------------------------- MODULE FleetControlProofs -------------------------
(***************************************************************************)
(* Proofs about FleetControl for any callers, instances, sandboxes and     *)
(* fleet configuration.                                                    *)
(***************************************************************************)
EXTENDS FleetControl, FiniteSetTheorems, TLAPS

\* Local variables that have been assigned where they are used.
CarryInv ==
    /\ \A c \in Callers :
         /\ caller[c].pc \in {"claim", "createRPC", "rollback", "destroyRPC", "reclaim", "register"} =>
               caller[c].inst \in Instances
         /\ caller[c].pc \in {"createRPC", "destroyRPC", "select", "claim", "provision", "cas",
                              "launch", "register"} => caller[c].sb \in Sandboxes
    /\ loop.pc \in {"apply", "terminate", "register"} => loop.cur \in Instances

\* An instance under registration is the launcher's own: the cloud gives every
\* instance out once, and nothing has happened to it yet.
RegisterInv ==
    /\ \A i \in Instances : cloud[i] = "none" => i \notin instances /\ mi[i].state = "provisioning"
    /\ \A c \in Callers : caller[c].pc = "register" =>
         /\ caller[c].inst \notin instances
         /\ cloud[caller[c].inst] # "none" /\ mi[caller[c].inst].state = "provisioning"
         /\ loop.pc = "register" => loop.cur # caller[c].inst
         /\ \A d \in Callers : d # c /\ caller[d].pc = "register" => caller[d].inst # caller[c].inst
    /\ loop.pc = "register" =>
         loop.cur \notin instances /\ cloud[loop.cur] # "none" /\ mi[loop.cur].state = "provisioning"

\* The control loop works on instances of the fleet: nobody else removes one
\* while it runs.
TargetInv == loop.pc # "stopped" => \A i \in loop.targets : i \in instances

\* The instance it works on is in the state it was seen in, or further on.
CurrentInv ==
    /\ loop.pc = "apply" => loop.cur \in instances /\ mi[loop.cur].state \in {"ready", "active", "draining"}
    /\ loop.pc = "terminate" =>
         loop.cur \in loop.targets /\ mi[loop.cur].state \in {"draining", "terminating"}

\* Close waits for the loop before it terminates the instances.
CloserInv == loop.pc # "stopped" => \A c \in Callers : caller[c].pc # "closeEach"

\* What Close is about to terminate has joined the fleet.
TodoInv ==
    \A c \in Callers : caller[c].pc = "closeEach" =>
       \A i \in caller[c].todo :
         cloud[i] # "none" /\ \A d \in Callers : caller[d].pc = "register" => caller[d].inst # i

\* What the loop is about to remove it has terminated.
RemoveInv ==
    /\ loop.pc \notin {"drain", "terminate", "provision"} => loop.remove = {}
    /\ \A i \in loop.remove : cloud[i] = "gone" /\ i \notin loop.targets

\* Instances without sessions: those that never took one, and those of a
\* graceful drain (a terminating instance with sessions is about to leave).
CountInv ==
    /\ \A i \in Instances : mi[i].state = "provisioning" => mi[i].count = 0
    /\ \A i \in instances : mi[i].state = "terminating" /\ mi[i].count > 0 =>
                               i \in loop.remove \/ loop.pc = "stopped"
    /\ GracefulDrainIsEmpty

FleetInv ==
    /\ TypeOK /\ LaunchSlots /\ StatesAndClocks /\ CarryInv /\ RegisterInv
    /\ TargetInv /\ CurrentInv /\ CloserInv /\ TodoInv /\ RemoveInv /\ CountInv

-----------------------------------------------------------------------------
(* What the operations on a ManagedInstance do to its fields. *)

\* What StatesAndClocks says of one instance.
Fits(m) == (m.state = "active" => m.count > 0) /\ (m.state = "ready" => m.idle)

LEMMA Thresholds ==
    /\ MinInstances \in Nat /\ WarmPoolTarget \in Nat /\ HeadroomSessions \in Nat
    /\ MaxCalls \in Nat /\ MaxCrashes \in Nat
    /\ MaxInstances \in Nat \ {0} /\ MaxSessionsPerInstance \in Nat \ {0}
    /\ UnhealthyThreshold \in Nat \ {0} /\ HealthyThreshold \in Nat \ {0}
    /\ MaxConcurrentProvisions \in Nat \ {0} /\ MaxAttempts \in Nat \ {0}
BY FleetAssumption

LEMMA AtMostBounds ==
    ASSUME NEW max \in Nat, NEW n \in 0..max
    PROVE  AtMost(n + 1, max) \in 0..max
BY DEF AtMost

LEMMA NewManaged ==
    ASSUME NEW s \in InstanceState
    PROVE  /\ NewInstance(s) \in Managed
           /\ NewInstance(s).state = s /\ NewInstance(s).count = 0
           /\ s # "active" => Fits(NewInstance(s))
<1>1. NewInstance(s) \in Managed /\ NewInstance(s).state = s /\ NewInstance(s).count = 0
    BY Thresholds DEF NewInstance, Managed
<1>2. s = "ready" => NewInstance(s).idle
    BY DEF NewInstance
<1> QED BY <1>1, <1>2 DEF Fits

\* A session's record with a new count, state and idle clock.
LEMMA SessionUpdate ==
    ASSUME NEW m \in Managed, NEW n \in Nat, NEW s \in InstanceState, NEW b \in BOOLEAN
    PROVE  [m EXCEPT !.count = n, !.state = s, !.idle = b] \in Managed
BY DEF Managed

LEMMA ClaimManaged ==
    ASSUME NEW m \in Managed
    PROVE  /\ ClaimSession(m) \in Managed
           /\ ClaimSession(m).state = "active" /\ ClaimSession(m).count = m.count + 1
           /\ Fits(ClaimSession(m))
<1>1. m.count + 1 \in Nat /\ "active" \in InstanceState
    BY DEF Managed, InstanceState
<1>2. (IF m.state = "ready" THEN FALSE ELSE m.idle) \in BOOLEAN
    BY DEF Managed
<1>3. ClaimSession(m) \in Managed
    BY <1>1, <1>2, SessionUpdate DEF ClaimSession
<1> QED BY <1>3 DEF ClaimSession, Managed, Fits

LEMMA ReleaseManaged ==
    ASSUME NEW m \in Managed
    PROVE  /\ ReleaseSession(m) \in Managed
           /\ ReleaseSession(m).count <= m.count
           /\ ReleaseSession(m).reason = m.reason
           /\ Fits(m) => Fits(ReleaseSession(m))
           /\ \/ ReleaseSession(m).state = m.state
              \/ m.state = "active" /\ ReleaseSession(m).state = "ready"
<1>0. 0 \in Nat /\ "ready" \in InstanceState /\ TRUE \in BOOLEAN
    BY DEF InstanceState
<1>1. m.count \in Nat
    BY DEF Managed
<1>2. CASE m.count <= 0
    BY <1>1, <1>2 DEF ReleaseSession
<1>3. CASE m.count = 1 /\ m.state = "active"
  <2>1. ReleaseSession(m) = [m EXCEPT !.count = 0, !.state = "ready", !.idle = TRUE]
    BY <1>3 DEF ReleaseSession
  <2>2. [m EXCEPT !.count = 0, !.state = "ready", !.idle = TRUE] \in Managed
    BY <1>0, SessionUpdate, Zenon
  <2> QED BY <1>3, <2>1, <2>2 DEF Managed, Fits
<1>4. CASE m.count > 0 /\ ~(m.count = 1 /\ m.state = "active")
  <2>1. ReleaseSession(m) = [m EXCEPT !.count = @ - 1]
    BY <1>1, <1>4 DEF ReleaseSession
  <2> QED BY <1>1, <1>4, <2>1 DEF Managed, Fits
<1>5. m.count <= 0 \/ m.count > 0
    BY <1>1
<1> QED BY <1>2, <1>3, <1>4, <1>5

LEMMA ReconcileManaged ==
    ASSUME NEW m \in Managed, NEW n \in Nat
    PROVE  /\ Reconciled(m, n) \in Managed
           /\ Reconciled(m, n).count = n /\ Reconciled(m, n).reason = m.reason
           /\ Fits(m) => Fits(Reconciled(m, n))
           /\ \/ Reconciled(m, n).state = m.state
              \/ m.state \in {"ready", "active"} /\ Reconciled(m, n).state \in {"ready", "active"}
<1> DEFINE s == IF n = m.count THEN m.state
                ELSE IF n = 0 /\ m.state = "active" THEN "ready"
                ELSE IF n > 0 /\ m.state = "ready" THEN "active" ELSE m.state
           b == IF n = m.count THEN m.idle
                ELSE IF n = 0 /\ m.state = "active" THEN TRUE
                ELSE IF n > 0 /\ m.state = "ready" THEN FALSE ELSE m.idle
           k == AtMost(m.succs + 1, HealthyThreshold)
           r == [m EXCEPT !.fails = 0, !.succs = k, !.count = n, !.state = s, !.idle = b]
<1>1. Reconciled(m, n) = r
    BY DEF Reconciled
<1>2. s \in InstanceState /\ b \in BOOLEAN /\ k \in 0..HealthyThreshold
    BY Thresholds, AtMostBounds DEF Managed, InstanceState
<1>3. r.count = n /\ r.reason = m.reason /\ r.state = s /\ r.idle = b
    BY DEF Managed
<1>4. ASSUME NEW t \in InstanceState, NEW c \in BOOLEAN, NEW j \in 0..HealthyThreshold
      PROVE  [m EXCEPT !.fails = 0, !.succs = j, !.count = n, !.state = t, !.idle = c] \in Managed
  <2>1. 0 \in 0..UnhealthyThreshold
    BY Thresholds
  <2> QED BY <2>1 DEF Managed
<1>5. r \in Managed
  <2> HIDE DEF s, b, k
  <2> QED BY <1>2, <1>4
<1>6. \/ s = m.state \/ (m.state \in {"ready", "active"} /\ s \in {"ready", "active"})
    OBVIOUS
<1>7. Fits(m) => (s = "active" => n > 0) /\ (s = "ready" => b)
    BY DEF Managed, Fits
<1> HIDE DEF r, s, b
<1>8. Fits(m) => Fits(r)
    BY <1>3, <1>7 DEF Fits
<1> QED BY <1>1, <1>3, <1>5, <1>6, <1>8

LEMMA FailManaged ==
    ASSUME NEW m \in Managed
    PROVE  /\ CheckFailed(m) \in Managed /\ CheckFailed(m).state = m.state
           /\ CheckFailed(m).count = m.count /\ (Fits(m) => Fits(CheckFailed(m)))
           /\ CheckFailed(m).reason = m.reason
<1>1. AtMost(m.fails + 1, UnhealthyThreshold) \in 0..UnhealthyThreshold
    BY Thresholds, AtMostBounds DEF Managed
<1>2. ASSUME NEW k \in 0..UnhealthyThreshold
      PROVE  [m EXCEPT !.fails = k, !.succs = 0] \in Managed
  <2>1. 0 \in 0..HealthyThreshold
    BY Thresholds
  <2> QED BY <2>1 DEF Managed
<1>3. CheckFailed(m) \in Managed
    BY <1>1, <1>2 DEF CheckFailed
<1> QED BY <1>3 DEF CheckFailed, Managed, Fits

LEMMA RecoverManaged ==
    ASSUME NEW m \in Managed
    PROVE  /\ Recovered(m) \in Managed /\ Recovered(m).count = m.count
           /\ Fits(m) => Fits(Recovered(m))
           /\ \/ Recovered(m) = m
              \/ m.state = "draining" /\ m.reason = "health" /\ Recovered(m).state = "ready"
<1>1. CASE m.state = "draining" /\ m.reason = "health" /\ m.succs >= HealthyThreshold
  <2>1. Recovered(m) = [m EXCEPT !.state = "ready", !.reason = "none", !.idle = TRUE]
    BY <1>1 DEF Recovered
  <2>2. ASSUME NEW b \in BOOLEAN
        PROVE  [m EXCEPT !.state = "ready", !.reason = "none", !.idle = b] \in Managed
    BY DEF Managed, InstanceState
  <2>3. Recovered(m) \in Managed
    BY <2>1, <2>2
  <2> QED BY <1>1, <2>1, <2>3 DEF Managed, Fits
<1>2. CASE ~(m.state = "draining" /\ m.reason = "health" /\ m.succs >= HealthyThreshold)
    BY <1>2 DEF Recovered
<1> QED BY <1>1, <1>2

LEMMA CallerTypes == Ready \in Caller /\ Tick \in Loop
BY DEF Ready, Caller, CallerPC, Tick, Loop, LoopPC

LEMMA PhaseLoop ==
    ASSUME NEW p \in LoopPC, NEW t \in SUBSET Instances, Phase(p, t)
    PROVE  /\ loop' \in Loop /\ loop'.pc = p /\ loop'.targets = t
           /\ loop'.cur = None /\ loop'.remove = {}
<1>1. Tick \in Loop /\ Tick.cur = None /\ Tick.remove = {}
    BY CallerTypes DEF Tick
<1> QED BY <1>1 DEF Phase, Loop

-----------------------------------------------------------------------------
(* Types *)

LEMMA LoopFields ==
    ASSUME loop \in Loop
    PROVE  /\ loop.pc \in LoopPC /\ loop.targets \in SUBSET Instances
           /\ loop.cur \in Instances \cup {None} /\ loop.result \in Nat \cup {None}
           /\ loop.total \in Int /\ loop.idleCount \in Int /\ loop.remove \in SUBSET Instances
BY DEF Loop

LEMMA ManagedStates ==
    ASSUME NEW m \in Managed
    PROVE  /\ [m EXCEPT !.state = "terminating"] \in Managed
           /\ [m EXCEPT !.state = "draining", !.reason = "health"] \in Managed
           /\ [m EXCEPT !.state = "draining", !.reason = "scale-down"] \in Managed
           /\ \A b \in BOOLEAN : [m EXCEPT !.state = "ready", !.idle = b] \in Managed
           /\ Fits([m EXCEPT !.state = "terminating"])
           /\ Fits([m EXCEPT !.state = "draining", !.reason = "health"])
           /\ Fits([m EXCEPT !.state = "draining", !.reason = "scale-down"])
           /\ Fits([m EXCEPT !.state = "ready", !.idle = TRUE])
BY DEF Managed, InstanceState, Fits

LEMMA LoopUpdates ==
    ASSUME loop \in Loop, NEW i \in Instances
    PROVE  /\ [loop EXCEPT !.targets = @ \ {i}] \in Loop
           /\ [loop EXCEPT !.pc = "register", !.cur = i] \in Loop
           /\ [loop EXCEPT !.targets = @ \ {i}, !.total = @ - 1, !.idleCount = @ - 1] \in Loop
           /\ [loop EXCEPT !.targets = @ \ {i}, !.remove = @ \cup {i}] \in Loop
           /\ \A r \in Nat \cup {None} :
                 [loop EXCEPT !.pc = "apply", !.cur = i, !.result = r] \in Loop
<1>1. [loop EXCEPT !.targets = @ \ {i}] \in Loop
    BY DEF Loop
<1>2. [loop EXCEPT !.pc = "register", !.cur = i] \in Loop
    BY DEF Loop, LoopPC
<1>3. [loop EXCEPT !.targets = @ \ {i}, !.total = @ - 1, !.idleCount = @ - 1] \in Loop
  <2>1. loop.total - 1 \in Int /\ loop.idleCount - 1 \in Int
    BY DEF Loop
  <2> QED BY <2>1 DEF Loop
<1>4. [loop EXCEPT !.targets = @ \ {i}, !.remove = @ \cup {i}] \in Loop
    BY DEF Loop
<1>5. ASSUME NEW r \in Nat \cup {None}
      PROVE  [loop EXCEPT !.pc = "apply", !.cur = i, !.result = r] \in Loop
    BY DEF Loop, LoopPC
<1> QED BY <1>1, <1>2, <1>3, <1>4, <1>5

LEMMA ForcedUpdates ==
    ASSUME loop \in Loop, NEW p \in LoopPC, NEW i \in Instances, NEW b \in BOOLEAN
    PROVE  [loop EXCEPT !.pc = p, !.cur = i, !.forced = b] \in Loop
BY DEF Loop

LEMMA TerminateReturnsTypes ==
    ASSUME loop \in Loop, NEW x \in SUBSET Instances, TerminateReturns(x)
    PROVE  loop' \in Loop
<1>1. ASSUME NEW b \in BOOLEAN
      PROVE  [loop EXCEPT !.pc = "drain", !.targets = @ \ {loop.cur}, !.cur = None,
                          !.remove = @ \cup x, !.forced = b] \in Loop
    BY DEF Loop, LoopPC
<1> QED BY <1>1 DEF TerminateReturns

\* Whoever launches holds a slot, so that giving it back keeps the counter a
\* natural number.
LEMMA SlotHeld ==
    ASSUME TypeOK, LaunchSlots
    PROVE  /\ \A c \in Callers : caller[c].pc \in {"launch", "register"} => pending - 1 \in Nat
           /\ loop.pc \in {"launch", "register"} => pending - 1 \in Nat
<1>1. IsFiniteSet(Launching)
    BY FleetAssumption, FS_Subset DEF Launching
<1>2. Cardinality(Launching) \in Nat /\ (Launching # {} => Cardinality(Launching) # 0)
    BY <1>1, FS_CardinalityType, FS_EmptySet
<1>3. \A c \in Callers : caller[c].pc \in {"launch", "register"} => Launching # {}
    BY DEF Launching
<1> QED BY <1>2, <1>3 DEF LaunchSlots, TypeOK

LEMMA RetryTypes ==
    ASSUME NEW c \in Callers, caller \in [Callers -> Caller], Retry(c)
    PROVE  caller' \in [Callers -> Caller]
BY CallerTypes DEF Retry, Return, Caller, CallerPC

LEMMA TypeStep == FleetInv /\ [Next]_vars => TypeOK'
<1> SUFFICES ASSUME FleetInv, [Next]_vars PROVE TypeOK'
    OBVIOUS
<1>0. TypeOK /\ CarryInv /\ LaunchSlots /\ Ready \in Caller /\ Tick \in Loop
    BY CallerTypes DEF FleetInv
<1> USE DEF TypeOK, CarryInv, Caller, CallerPC, LoopPC, loopVars, callerVars
<1>1. ASSUME NEW c \in Callers, CreateSandbox(c) PROVE TypeOK'
  <2>1. calls' \in 0..MaxCalls
    BY <1>0, <1>1, Thresholds DEF CreateSandbox, NewCall
  <2>2. caller' \in [Callers -> Caller]
    <3>1. \A s \in Sandboxes : [Ready EXCEPT !.pc = "select", !.sb = s] \in Caller
      BY <1>0
    <3>2. \E s \in Sandboxes :
             caller' = [caller EXCEPT ![c] = [Ready EXCEPT !.pc = "select", !.sb = s]]
      BY <1>1 DEF CreateSandbox
    <3> HIDE DEF Caller
    <3> QED BY <1>0, <3>1, <3>2
  <2> QED BY <1>0, <1>1, <2>1, <2>2 DEF CreateSandbox
<1>2. ASSUME NEW c \in Callers, DestroySandbox(c) PROVE TypeOK'
  <2>1. calls' \in 0..MaxCalls
    BY <1>0, <1>2, Thresholds DEF DestroySandbox, NewCall
  <2>2. PICK s \in DOMAIN known :
          /\ mi' = [mi EXCEPT ![known[s]] = ReleaseSession(@)]
          /\ caller' = [caller EXCEPT ![c] = [Ready EXCEPT
                 !.pc = "destroyRPC", !.sb = s, !.inst = known[s],
                 !.attempt = IF mi[known[s]].count > 0 THEN 1 ELSE 0]]
    BY <1>2 DEF DestroySandbox
  <2>3. mi' \in [Instances -> Managed]
    BY <1>0, <2>2, ReleaseManaged
  <2>4. (IF mi[known[s]].count > 0 THEN 1 ELSE 0) \in Nat
    OBVIOUS
  <2>5. caller' \in [Callers -> Caller]
    BY <1>0, <2>2, <2>4
  <2> QED BY <1>0, <1>2, <2>1, <2>3, <2>5 DEF DestroySandbox
<1>3. ASSUME NEW c \in Callers, Close(c) PROVE TypeOK'
  <2>1. calls' \in 0..MaxCalls
    BY <1>0, <1>3, Thresholds DEF Close, NewCall
  <2>2. caller' \in [Callers -> Caller]
    BY <1>0, <1>3 DEF Close
  <2> QED BY <1>0, <1>3, <2>1, <2>2 DEF Close
<1>4. ASSUME NEW c \in Callers, SelectAndClaim(c) PROVE TypeOK'
    BY <1>0, <1>4 DEF SelectAndClaim, Goto, SelectInstance, Candidates
<1>5. ASSUME NEW c \in Callers, Claim(c) PROVE TypeOK'
    BY <1>0, <1>5, ClaimManaged, RetryTypes DEF Claim, Goto, Return, CanClaim, Routable
<1>6. ASSUME NEW c \in Callers, CreateRPC(c) PROVE TypeOK'
    BY <1>0, <1>6 DEF CreateRPC, Goto, Return
<1>7. ASSUME NEW c \in Callers, Rollback(c) PROVE TypeOK'
    BY <1>0, <1>7, ReleaseManaged DEF Rollback, Return
<1>8. ASSUME NEW c \in Callers, ProvisionInstance(c) PROVE TypeOK'
    BY <1>0, <1>8 DEF ProvisionInstance, Goto, Return
<1>9. ASSUME NEW c \in Callers, ProvisionSlot(c) PROVE TypeOK'
    BY <1>0, <1>9 DEF ProvisionSlot, Goto, Return
<1>10. ASSUME NEW c \in Callers, LaunchInstance(c) PROVE TypeOK'
  <2>1. pending' \in Nat
    BY <1>0, <1>10, SlotHeld DEF LaunchInstance
  <2>2. caller' \in [Callers -> Caller]
    BY <1>0, <1>10 DEF LaunchInstance, Return
  <2>3. cloud' \in [Instances -> {"none", "running", "gone"}]
    BY <1>0, <1>10 DEF LaunchInstance
  <2> QED BY <1>0, <1>10, <2>1, <2>2, <2>3 DEF LaunchInstance
<1>11. ASSUME NEW c \in Callers, RegisterInstance(c) PROVE TypeOK'
  <2>1. pending' \in Nat
    BY <1>0, <1>11, SlotHeld DEF RegisterInstance
  <2>2. caller' \in [Callers -> Caller]
    BY <1>0, <1>11, RetryTypes DEF RegisterInstance, Return
  <2>3. mi' \in [Instances -> Managed] /\ instances' \subseteq Instances
    BY <1>0, <1>11, NewManaged DEF RegisterInstance, InstanceState
  <2> QED BY <1>0, <1>11, <2>1, <2>2, <2>3 DEF RegisterInstance
<1>12. ASSUME NEW c \in Callers, DestroyRPC(c) PROVE TypeOK'
    BY <1>0, <1>12 DEF DestroyRPC, Goto, Return
<1>13. ASSUME NEW c \in Callers, Reclaim(c) PROVE TypeOK'
    BY <1>0, <1>13, ClaimManaged DEF Reclaim, Return, CanClaim, Routable
<1>14. ASSUME NEW c \in Callers, CloseWait(c) PROVE TypeOK'
    BY <1>0, <1>14 DEF CloseWait, Return
<1>15. ASSUME NEW c \in Callers, CloseEach(c) PROVE TypeOK'
  <2>0. caller[c].todo \in SUBSET Instances
    BY <1>0 DEF Caller
  <2>1. caller' \in [Callers -> Caller]
    BY <1>0, <1>15, <2>0 DEF CloseEach, Return
  <2>2. mi' \in [Instances -> Managed]
    <3>1. \A i \in Instances : [mi[i] EXCEPT !.state = "terminating"] \in Managed
      BY <1>0, ManagedStates
    <3>2. mi' = mi \/ \E i \in Instances : mi' = [mi EXCEPT ![i].state = "terminating"]
      BY <1>15, <2>0 DEF CloseEach
    <3> QED BY <1>0, <3>1, <3>2
  <2>3. /\ cloud' \in [Instances -> {"none", "running", "gone"}]
        /\ remote' \in [Instances -> SUBSET Sandboxes]
    BY <1>0, <1>15, <2>0 DEF CloseEach, Terminated
  <2> QED BY <1>0, <1>15, <2>1, <2>2, <2>3 DEF CloseEach
<1>16. ASSUME RunIteration PROVE TypeOK'
    BY <1>0, <1>16, PhaseLoop DEF RunIteration
<1>17. ASSUME HealthCheck PROVE TypeOK'
  <2>1. CASE loop.targets = {}
    BY <1>0, <1>17, <2>1, PhaseLoop DEF HealthCheck
  <2>2. CASE loop.targets # {}
    <3>1. \A i \in Instances : Cardinality(remote[i]) \in Nat
      BY <1>0, FleetAssumption, FS_Subset, FS_CardinalityType
    <3>2. loop' \in Loop
      <4>1. PICK i \in loop.targets :
              \/ \E r \in {None, Cardinality(remote[i])} :
                    loop' = [loop EXCEPT !.pc = "apply", !.cur = i, !.result = r]
              \/ loop' = [loop EXCEPT !.targets = @ \ {i}]
        BY <1>17, <2>2 DEF HealthCheck
      <4>2. i \in Instances
        BY <1>0, LoopFields
      <4>3. /\ [loop EXCEPT !.targets = @ \ {i}] \in Loop
            /\ \A r \in Nat \cup {None} : [loop EXCEPT !.pc = "apply", !.cur = i, !.result = r] \in Loop
        BY <1>0, <4>2, LoopUpdates
      <4> QED BY <3>1, <4>1, <4>2, <4>3
    <3> QED BY <1>0, <1>17, <3>2 DEF HealthCheck
  <2> QED BY <2>1, <2>2
<1>18. ASSUME HealthApply PROVE TypeOK'
  <2>1. loop' \in Loop
    BY <1>0, <1>18, LoopFields DEF Loop, HealthApply
  <2>2. loop.cur \in Instances /\ mi[loop.cur] \in Managed /\ loop.result \in Nat \cup {None}
    BY <1>0, <1>18, LoopFields DEF HealthApply
  <2> DEFINE g == IF loop.result = None THEN CheckFailed(mi[loop.cur])
                  ELSE Reconciled(mi[loop.cur], loop.result)
  <2>3. g \in Managed
    BY <2>2, FailManaged, ReconcileManaged
  <2>4. mi' \in [Instances -> Managed]
    <3>1. mi' = [mi EXCEPT ![loop.cur] = g]
      BY <1>18 DEF HealthApply
    <3> HIDE DEF g
    <3> QED BY <1>0, <2>2, <2>3, <3>1
  <2> QED BY <1>0, <1>18, <2>1, <2>4 DEF HealthApply
<1>19. ASSUME HandleUnhealthy PROVE TypeOK'
  <2>1. CASE loop.targets = {}
    BY <1>0, <1>19, <2>1, PhaseLoop DEF HandleUnhealthy
  <2>2. CASE loop.targets # {}
    <3>1. PICK i \in loop.targets :
            /\ loop' = [loop EXCEPT !.targets = @ \ {i}]
            /\ mi' = [mi EXCEPT ![i] = Recovered(
                        IF Routable(i) /\ @.fails >= UnhealthyThreshold
                        THEN [@ EXCEPT !.state = "draining", !.reason = "health"] ELSE @)]
      BY <1>19, <2>2 DEF HandleUnhealthy
    <3>2. loop' \in Loop /\ i \in Instances
      BY <1>0, <3>1, LoopFields DEF Loop
    <3>3. mi[i] \in Managed /\ [mi[i] EXCEPT !.state = "draining", !.reason = "health"] \in Managed
      BY <1>0, <3>2, ManagedStates
    <3>4. mi' \in [Instances -> Managed]
      BY <1>0, <3>1, <3>2, <3>3, RecoverManaged
    <3> QED BY <1>0, <1>19, <3>2, <3>4 DEF HandleUnhealthy
  <2> QED BY <2>1, <2>2
<1>20. ASSUME ScaleUp PROVE TypeOK'
    BY <1>0, <1>20, PhaseLoop DEF ScaleUp
<1>21. ASSUME WarmSlot PROVE TypeOK'
    BY <1>0, <1>21, PhaseLoop DEF WarmSlot
<1>22. ASSUME WarmLaunch PROVE TypeOK'
  <2>1. pending' \in Nat
    BY <1>0, <1>22, SlotHeld DEF WarmLaunch
  <2>2. loop' \in Loop
    <3>1. Phase("scaleDown", {}) \/ \E i \in Instances : loop' = [loop EXCEPT !.pc = "register", !.cur = i]
      BY <1>22 DEF WarmLaunch
    <3>2. \A i \in Instances : [loop EXCEPT !.pc = "register", !.cur = i] \in Loop
      BY <1>0, LoopUpdates
    <3> QED BY <3>1, <3>2, PhaseLoop
  <2>3. cloud' \in [Instances -> {"none", "running", "gone"}]
    BY <1>0, <1>22 DEF WarmLaunch
  <2> QED BY <1>0, <1>22, <2>1, <2>2, <2>3 DEF WarmLaunch
<1>23. ASSUME WarmRegister PROVE TypeOK'
  <2>1. pending' \in Nat
    BY <1>0, <1>23, SlotHeld DEF WarmRegister
  <2>2. loop' \in Loop
    BY <1>0, <1>23, PhaseLoop DEF WarmRegister
  <2>3. mi' \in [Instances -> Managed] /\ instances' \subseteq Instances
    BY <1>0, <1>23, NewManaged DEF WarmRegister, InstanceState
  <2> QED BY <1>0, <1>23, <2>1, <2>2, <2>3 DEF WarmRegister
<1>24. ASSUME ScaleDown PROVE TypeOK'
  <2>1. \A S \in SUBSET Instances : Cardinality(S) \in Int
    BY FleetAssumption, FS_Subset, FS_CardinalityType
  <2>2. loop' \in Loop
    <3> DEFINE idle == {i \in instances : mi[i].state = "ready" /\ mi[i].count = 0}
    <3>1. PICK cand \in SUBSET {i \in idle : mi[i].idle} :
             loop' = [loop EXCEPT !.pc = "drainEach", !.targets = cand, !.cur = None,
                                  !.total = Cardinality(instances),
                                  !.idleCount = Cardinality(idle)]
      BY <1>24 DEF ScaleDown
    <3>2. /\ Cardinality(idle) \in Int /\ Cardinality(instances) \in Int
          /\ cand \in SUBSET Instances
      BY <1>0, <2>1
    <3> HIDE DEF idle
    <3> QED BY <1>0, <3>1, <3>2 DEF Loop
  <2> QED BY <1>0, <1>24, <2>2 DEF ScaleDown
<1>25. ASSUME ScaleDownEach PROVE TypeOK'
  <2>1. CASE loop.targets = {} \/ loop.total <= MinInstances \/ loop.idleCount <= WarmPoolTarget
    BY <1>0, <1>25, <2>1, PhaseLoop DEF ScaleDownEach
  <2>2. CASE ~(loop.targets = {} \/ loop.total <= MinInstances \/ loop.idleCount <= WarmPoolTarget)
    <3>1. PICK i \in loop.targets :
            IF mi[i].state = "ready" /\ mi[i].count = 0
            THEN /\ mi' = [mi EXCEPT ![i].state = "draining", ![i].reason = "scale-down"]
                 /\ loop' = [loop EXCEPT !.targets = @ \ {i}, !.total = @ - 1, !.idleCount = @ - 1]
            ELSE loop' = [loop EXCEPT !.targets = @ \ {i}] /\ UNCHANGED mi
      BY <1>25, <2>2 DEF ScaleDownEach
    <3>2. i \in Instances /\ loop.total - 1 \in Int /\ loop.idleCount - 1 \in Int
      BY <1>0, LoopFields
    <3>3. loop' \in Loop
      BY <1>0, <3>1, <3>2, LoopUpdates
    <3>4. mi' \in [Instances -> Managed]
      <4>1. mi[i] \in Managed /\ [mi[i] EXCEPT !.state = "draining", !.reason = "scale-down"] \in Managed
        BY <1>0, <3>2, ManagedStates
      <4> QED BY <1>0, <3>1, <3>2, <4>1
    <3> QED BY <1>0, <1>25, <3>3, <3>4 DEF ScaleDownEach
  <2> QED BY <2>1, <2>2
<1>26. ASSUME NEW i \in Instances, DrainExpired(i) PROVE TypeOK'
  <2>1. loop' \in Loop
    BY <1>0, <1>26, ForcedUpdates DEF DrainExpired
  <2> QED BY <1>0, <1>26, <2>1 DEF DrainExpired
<1>27. ASSUME NEW i \in Instances, DrainLook(i) PROVE TypeOK'
  <2>1. loop' \in Loop
    <3>1. \/ loop' = [loop EXCEPT !.pc = "terminate", !.cur = i, !.forced = FALSE]
          \/ loop' = [loop EXCEPT !.targets = @ \ {i}]
      BY <1>27 DEF DrainLook
    <3>2. [loop EXCEPT !.targets = @ \ {i}] \in Loop
      BY <1>0 DEF Loop
    <3>3. [loop EXCEPT !.pc = "terminate", !.cur = i, !.forced = FALSE] \in Loop
      BY <1>0, <1>27, ForcedUpdates
    <3> QED BY <3>1, <3>2, <3>3
  <2> QED BY <1>0, <1>27, <2>1 DEF DrainLook
<1>28. ASSUME TerminateFails PROVE TypeOK'
  <2>1. loop' \in Loop
    BY <1>0, <1>28, LoopFields, TerminateReturnsTypes DEF TerminateFails
  <2>2. /\ cloud' \in [Instances -> {"none", "running", "gone"}]
        /\ remote' \in [Instances -> SUBSET Sandboxes]
    BY <1>0, <1>28 DEF TerminateFails, Terminated
  <2> QED BY <1>0, <1>28, <2>1, <2>2 DEF TerminateFails
<1>29. ASSUME TerminateSucceeds PROVE TypeOK'
  <2>1. loop' \in Loop
    BY <1>0, <1>29, LoopFields, TerminateReturnsTypes DEF TerminateSucceeds
  <2>2. /\ cloud' \in [Instances -> {"none", "running", "gone"}]
        /\ remote' \in [Instances -> SUBSET Sandboxes]
    BY <1>0, <1>29 DEF TerminateSucceeds, Terminated
  <2>3. mi' \in [Instances -> Managed]
    BY <1>0, <1>29 DEF TerminateSucceeds, Managed, InstanceState
  <2> QED BY <1>0, <1>29, <2>1, <2>2, <2>3 DEF TerminateSucceeds
<1>30. ASSUME DrainDone PROVE TypeOK'
    BY <1>0, <1>30, PhaseLoop DEF DrainDone
<1>31. ASSUME NEW i \in Instances, ProvisionLook(i) PROVE TypeOK'
  <2>1. loop' \in Loop
    BY <1>0, <1>31, LoopFields DEF Loop, ProvisionLook
  <2>2. mi[i] \in Managed /\ [mi[i] EXCEPT !.state = "ready", !.idle = TRUE] \in Managed
    BY <1>0, <1>31, ManagedStates
  <2>3. mi' \in [Instances -> Managed]
    BY <1>0, <1>31, <2>2 DEF ProvisionLook
  <2> QED BY <1>0, <1>31, <2>1, <2>3 DEF ProvisionLook
<1>32. ASSUME NEW i \in Instances, ProvisionExpired(i) PROVE TypeOK'
  <2>1. loop' \in Loop
    <3>1. /\ [loop EXCEPT !.targets = @ \ {i}, !.remove = @ \cup {i}] \in Loop
          /\ [loop EXCEPT !.targets = @ \ {i}] \in Loop
      BY <1>0, <1>32, LoopUpdates
    <3>2. \/ loop' = [loop EXCEPT !.targets = @ \ {i}, !.remove = @ \cup {i}]
          \/ loop' = [loop EXCEPT !.targets = @ \ {i}]
      BY <1>32 DEF ProvisionExpired
    <3> QED BY <3>1, <3>2
  <2>2. /\ cloud' \in [Instances -> {"none", "running", "gone"}]
        /\ remote' \in [Instances -> SUBSET Sandboxes]
    BY <1>0, <1>32 DEF ProvisionExpired, Terminated
  <2>3. mi' \in [Instances -> Managed]
    <3>1. mi[i] \in Managed /\ [mi[i] EXCEPT !.state = "terminating"] \in Managed
      BY <1>0, <1>32, ManagedStates
    <3> QED BY <1>0, <1>32, <3>1 DEF ProvisionExpired
  <2> QED BY <1>0, <1>32, <2>1, <2>2, <2>3 DEF ProvisionExpired
<1>33. ASSUME ProvisionDone PROVE TypeOK'
    BY <1>0, <1>33, PhaseLoop DEF ProvisionDone
<1>34. ASSUME RecoverInstances PROVE TypeOK'
  <2>1. crashes' \in 0..MaxCrashes
    BY <1>0, <1>34, Thresholds DEF RecoverInstances
  <2>2. mi' \in [Instances -> Managed] /\ instances' \subseteq Instances
    BY <1>0, <1>34, NewManaged DEF RecoverInstances, InstanceState
  <2>3. caller' \in [Callers -> Caller] /\ loop' \in Loop
    BY <1>0, <1>34 DEF RecoverInstances
  <2> QED BY <1>0, <1>34, <2>1, <2>2, <2>3 DEF RecoverInstances
<1>35. ASSUME UNCHANGED vars PROVE TypeOK'
    BY <1>0, <1>35 DEF vars
<1> QED BY <1>1, <1>2, <1>3, <1>4, <1>5, <1>6, <1>7, <1>8, <1>9, <1>10, <1>11, <1>12, <1>13,
      <1>14, <1>15, <1>16, <1>17, <1>18, <1>19, <1>20, <1>21, <1>22, <1>23, <1>24, <1>25, <1>26,
      <1>27, <1>28, <1>29, <1>30, <1>31, <1>32, <1>33, <1>34, <1>35 DEF Next, CallerCalls,
      CallerStep, LoopStep

-----------------------------------------------------------------------------
(* The control loop's steps, field by field *)

\* Only instance i may change.
Only(i) == \A j \in Instances : j # i => mi'[j] = mi[j]

\* The next target of a phase that goes through its targets.
Dropped(i) == /\ loop'.pc = loop.pc /\ loop'.targets = loop.targets \ {i}
              /\ loop'.remove = loop.remove /\ loop'.cur = loop.cur /\ loop'.forced = loop.forced

LEMMA DroppedMove ==
    ASSUME loop \in Loop, NEW i, loop' = [loop EXCEPT !.targets = @ \ {i}]
    PROVE  Dropped(i)
BY DEF Loop, Dropped

LEMMA HealthCheckMoves ==
    ASSUME TypeOK, HealthCheck
    PROVE  /\ loop.pc = "health" /\ UNCHANGED <<instances, mi, pending, cloud, callerVars>>
           /\ \/ loop'.pc = "unhealthy" /\ loop'.targets = instances /\ loop'.remove = {}
              \/ \E i \in loop.targets :
                   /\ loop'.pc = "apply" /\ loop'.cur = i
                   /\ loop'.targets = loop.targets /\ loop'.remove = loop.remove
                   /\ mi[i].state \in {"ready", "active", "draining"}
              \/ \E i \in loop.targets : Dropped(i)
<1>1. loop.pc = "health" /\ UNCHANGED <<instances, mi, pending, cloud, callerVars>>
    BY DEF HealthCheck
<1>2. CASE loop.targets = {}
  <2>1. Phase("unhealthy", instances)
    BY <1>2 DEF HealthCheck
  <2> QED BY <1>1, <2>1, PhaseLoop DEF TypeOK, LoopPC
<1>3. CASE loop.targets # {}
  <2>1. PICK i \in loop.targets :
           \/ /\ \E r : loop' = [loop EXCEPT !.pc = "apply", !.cur = i, !.result = r]
              /\ mi[i].state \in {"ready", "active", "draining"}
           \/ loop' = [loop EXCEPT !.targets = @ \ {i}]
    BY <1>3 DEF HealthCheck, Routable
  <2> QED BY <1>1, <2>1, DroppedMove DEF TypeOK, Loop
<1> QED BY <1>2, <1>3

LEMMA HealthApplyMoves ==
    ASSUME TypeOK, CarryInv, HealthApply
    PROVE  LET i == loop.cur IN
           /\ loop.pc = "apply" /\ UNCHANGED <<instances, pending, cloud, callerVars>>
           /\ loop'.pc = "health" /\ loop'.targets = loop.targets \ {i}
           /\ loop'.remove = loop.remove
           /\ i \in Instances /\ Only(i) /\ mi'[i].reason = mi[i].reason /\ mi'[i].count \in Nat
           /\ Fits(mi[i]) => Fits(mi'[i])
           /\ \/ mi'[i].state = mi[i].state
              \/ mi[i].state \in {"ready", "active"} /\ mi'[i].state \in {"ready", "active"}
<1> DEFINE i == loop.cur
           g == IF loop.result = None THEN CheckFailed(mi[i]) ELSE Reconciled(mi[i], loop.result)
<1>1. /\ loop.pc = "apply" /\ UNCHANGED <<instances, pending, cloud, callerVars>>
      /\ mi' = [mi EXCEPT ![i] = g]
    BY DEF HealthApply
<1>2. loop'.pc = "health" /\ loop'.targets = loop.targets \ {i} /\ loop'.remove = loop.remove
    BY DEF HealthApply, TypeOK, Loop
<1>3. i \in Instances /\ mi[i] \in Managed
    BY <1>1 DEF TypeOK, CarryInv
<1>4. mi'[i] = g /\ Only(i)
    BY <1>1, <1>3 DEF TypeOK, Only
<1>5. CASE loop.result = None
  <2>1. g = CheckFailed(mi[i])
    BY <1>5
  <2> HIDE DEF g, i
  <2> QED BY <1>1, <1>2, <1>3, <1>4, <2>1, FailManaged DEF Managed, i
<1>6. CASE loop.result # None
  <2>1. g = Reconciled(mi[i], loop.result) /\ loop.result \in Nat
    BY <1>6, LoopFields DEF TypeOK
  <2> HIDE DEF g, i
  <2> QED BY <1>1, <1>2, <1>3, <1>4, <2>1, ReconcileManaged DEF i
<1> QED BY <1>5, <1>6

LEMMA HandleUnhealthyMoves ==
    ASSUME TypeOK, HandleUnhealthy
    PROVE  /\ loop.pc = "unhealthy" /\ UNCHANGED <<instances, pending, cloud, callerVars>>
           /\ \/ /\ loop'.pc = "scaleUp" /\ loop'.targets = {} /\ loop'.remove = {}
                 /\ UNCHANGED mi
              \/ \E i \in loop.targets :
                   /\ Dropped(i) /\ Only(i) /\ mi'[i].count = mi[i].count
                   /\ Fits(mi[i]) => Fits(mi'[i])
                   /\ \/ mi'[i] = mi[i]
                      \/ Routable(i) /\ mi'[i].state \in {"draining", "ready"}
                      \/ /\ mi[i].state = "draining" /\ mi[i].reason = "health"
                         /\ mi'[i].state = "ready"
<1>1. loop.pc = "unhealthy" /\ UNCHANGED <<instances, pending, cloud, callerVars>>
    BY DEF HandleUnhealthy
<1>2. CASE loop.targets = {}
  <2>1. Phase("scaleUp", {}) /\ UNCHANGED mi
    BY <1>2 DEF HandleUnhealthy
  <2> QED BY <1>1, <2>1, PhaseLoop DEF LoopPC
<1>3. CASE loop.targets # {}
  <2>1. PICK i \in loop.targets :
          /\ loop' = [loop EXCEPT !.targets = @ \ {i}]
          /\ mi' = [mi EXCEPT ![i] = Recovered(
                      IF Routable(i) /\ @.fails >= UnhealthyThreshold
                      THEN [@ EXCEPT !.state = "draining", !.reason = "health"] ELSE @)]
    BY <1>3 DEF HandleUnhealthy
  <2> DEFINE d == [mi[i] EXCEPT !.state = "draining", !.reason = "health"]
             m == IF Routable(i) /\ mi[i].fails >= UnhealthyThreshold THEN d ELSE mi[i]
  <2>2. i \in Instances /\ mi[i] \in Managed /\ Dropped(i)
    BY <2>1, LoopFields, DroppedMove DEF TypeOK
  <2>3. mi'[i] = Recovered(m) /\ Only(i)
    BY <2>1, <2>2 DEF TypeOK, Only
  <2>4. d \in Managed /\ Fits(d) /\ d.count = mi[i].count /\ d.state = "draining"
    BY <2>2, ManagedStates DEF Managed
  <2> HIDE DEF d
  <2>5. /\ m \in Managed /\ m.count = mi[i].count /\ (Fits(mi[i]) => Fits(m))
        /\ m = mi[i] \/ (Routable(i) /\ m = d)
    BY <2>2, <2>4
  <2> HIDE DEF m
  <2>r. /\ Recovered(m).count = m.count /\ (Fits(m) => Fits(Recovered(m)))
        /\ \/ Recovered(m) = m
           \/ m.state = "draining" /\ m.reason = "health" /\ Recovered(m).state = "ready"
    BY ONLY <2>5, RecoverManaged, Zenon
  <2>6. mi'[i].count = mi[i].count /\ (Fits(mi[i]) => Fits(mi'[i]))
    BY ONLY <2>3, <2>5, <2>r
  <2>7. \/ mi'[i] = mi[i]
        \/ Routable(i) /\ mi'[i].state \in {"draining", "ready"}
        \/ mi[i].state = "draining" /\ mi[i].reason = "health" /\ mi'[i].state = "ready"
    BY ONLY <2>3, <2>4, <2>5, <2>r
  <2> QED BY <1>1, <2>2, <2>3, <2>6, <2>7
<1> QED BY <1>2, <1>3

LEMMA WarmLaunchMoves ==
    ASSUME TypeOK, WarmLaunch
    PROVE  /\ loop.pc = "launch" /\ UNCHANGED <<instances, mi, callerVars>>
           /\ \/ /\ loop'.pc = "scaleDown" /\ loop'.targets = {} /\ loop'.remove = {}
                 /\ pending' = pending - 1 /\ UNCHANGED cloud
              \/ \E i \in Instances :
                   /\ cloud[i] = "none" /\ cloud' = [cloud EXCEPT ![i] = "running"]
                   /\ loop'.pc = "register" /\ loop'.cur = i /\ loop'.targets = loop.targets
                   /\ loop'.remove = loop.remove /\ UNCHANGED pending
BY PhaseLoop DEF WarmLaunch, TypeOK, Loop, LoopPC

LEMMA ScaleDownMoves ==
    ASSUME TypeOK, ScaleDown
    PROVE  /\ loop.pc = "scaleDown" /\ UNCHANGED <<instances, mi, pending, cloud, callerVars>>
           /\ loop'.pc = "drainEach" /\ loop'.targets \subseteq instances
           /\ loop'.remove = loop.remove
BY DEF ScaleDown, TypeOK, Loop

LEMMA ScaleDownEachMoves ==
    ASSUME TypeOK, ScaleDownEach
    PROVE  /\ loop.pc = "drainEach" /\ UNCHANGED <<instances, pending, cloud, callerVars>>
           /\ \/ /\ loop'.pc = "drain" /\ loop'.targets = instances /\ loop'.remove = {}
                 /\ UNCHANGED mi
              \/ \E i \in loop.targets : Dropped(i) /\ UNCHANGED mi
              \/ \E i \in loop.targets :
                   /\ Dropped(i) /\ Only(i) /\ mi[i].state = "ready"
                   /\ mi'[i].state = "draining" /\ mi'[i].count = mi[i].count /\ Fits(mi'[i])
<1>1. loop.pc = "drainEach" /\ UNCHANGED <<instances, pending, cloud, callerVars>>
    BY DEF ScaleDownEach
<1>2. \/ Phase("drain", instances) /\ UNCHANGED mi
      \/ \E i \in loop.targets :
           \/ loop' = [loop EXCEPT !.targets = @ \ {i}] /\ UNCHANGED mi
           \/ /\ mi[i].state = "ready"
              /\ mi' = [mi EXCEPT ![i].state = "draining", ![i].reason = "scale-down"]
              /\ loop' = [loop EXCEPT !.targets = @ \ {i}, !.total = @ - 1, !.idleCount = @ - 1]
    BY DEF ScaleDownEach
<1>3. CASE Phase("drain", instances) /\ UNCHANGED mi
    BY <1>1, <1>3, PhaseLoop DEF TypeOK, LoopPC
<1>4. ASSUME NEW i \in loop.targets, loop' = [loop EXCEPT !.targets = @ \ {i}], UNCHANGED mi
      PROVE  Dropped(i)
    BY <1>4, DroppedMove DEF TypeOK
<1>5. ASSUME NEW i \in loop.targets,
             mi' = [mi EXCEPT ![i].state = "draining", ![i].reason = "scale-down"],
             loop' = [loop EXCEPT !.targets = @ \ {i}, !.total = @ - 1, !.idleCount = @ - 1]
      PROVE  /\ Dropped(i) /\ Only(i)
             /\ mi'[i].state = "draining" /\ mi'[i].count = mi[i].count /\ Fits(mi'[i])
  <2>1. i \in Instances
    BY LoopFields DEF TypeOK
  <2>2. Dropped(i)
    BY <1>5 DEF TypeOK, Loop, Dropped
  <2> QED BY <1>5, <2>1, <2>2 DEF TypeOK, Managed, Only, Fits
<1> QED BY <1>1, <1>2, <1>3, <1>4, <1>5

LEMMA DrainMoves ==
    ASSUME TypeOK, NEW i \in Instances, DrainExpired(i) \/ DrainLook(i)
    PROVE  /\ loop.pc = "drain" /\ i \in loop.targets
           /\ UNCHANGED <<instances, mi, pending, cloud, callerVars>>
           /\ \/ /\ loop'.pc = "terminate" /\ loop'.cur = i
                 /\ loop'.targets = loop.targets /\ loop'.remove = loop.remove
                 /\ mi[i].state \in {"draining", "terminating"}
              \/ Dropped(i)
<1>1. CASE DrainExpired(i)
    BY <1>1 DEF DrainExpired, DrainTarget, TypeOK, Loop
<1>2. CASE DrainLook(i)
  <2>1. CASE mi[i].state = "terminating" \/ (mi[i].state = "draining" /\ mi[i].count = 0)
    BY <1>2, <2>1 DEF DrainLook, DrainTarget, TypeOK, Loop
  <2>2. CASE ~(mi[i].state = "terminating" \/ (mi[i].state = "draining" /\ mi[i].count = 0))
    BY <1>2, <2>2, DroppedMove DEF DrainLook, DrainTarget, TypeOK
  <2> QED BY <2>1, <2>2
<1> QED BY <1>1, <1>2

\* A drain that is not forced has no sessions left.
LEMMA DrainForced ==
    ASSUME TypeOK, NEW i \in Instances, DrainExpired(i) \/ DrainLook(i), loop'.pc = "terminate", ~loop'.forced
    PROVE  mi[i].state = "terminating" \/ mi[i].count = 0
<1>1. ASSUME DrainExpired(i) PROVE loop'.forced
    BY <1>1 DEF DrainExpired, TypeOK, Loop
<1>2. CASE DrainLook(i)
    BY <1>2 DEF DrainLook, DrainTarget, TypeOK, Loop
<1> QED BY <1>1, <1>2

LEMMA TerminateMoves ==
    ASSUME TypeOK, CarryInv, TerminateFails \/ TerminateSucceeds
    PROVE  LET i == loop.cur IN
           /\ loop.pc = "terminate" /\ UNCHANGED <<instances, pending, callerVars>>
           /\ i \in Instances /\ Only(i) /\ mi'[i].count = mi[i].count
           /\ Fits(mi[i]) => Fits(mi'[i])
           /\ loop'.pc = "drain" /\ loop'.targets = loop.targets \ {i}
           /\ \A j \in Instances : cloud'[j] = cloud[j] \/ cloud'[j] = "gone"
           /\ \/ mi'[i].state = mi[i].state /\ mi' = mi /\ loop'.remove = loop.remove
              \/ /\ mi'[i].state = "terminating" /\ cloud'[i] = "gone"
                 /\ loop'.remove = loop.remove \cup {i}
<1>1. loop.cur \in Instances
    BY DEF TerminateFails, TerminateSucceeds, CarryInv
<1>2. CASE TerminateFails
  <2>1. \A j \in Instances : cloud'[j] = cloud[j] \/ cloud'[j] = "gone"
    BY <1>1, <1>2 DEF TerminateFails, Terminated, TypeOK
  <2>2. /\ loop'.pc = "drain" /\ loop'.targets = loop.targets \ {loop.cur}
        /\ loop'.remove = loop.remove
    BY <1>2 DEF TerminateFails, TerminateReturns, TypeOK, Loop
  <2> QED BY <1>1, <1>2, <2>1, <2>2 DEF TerminateFails, Only
<1>3. CASE TerminateSucceeds
  <2>1. /\ \A j \in Instances : cloud'[j] = cloud[j] \/ cloud'[j] = "gone"
        /\ cloud'[loop.cur] = "gone"
    BY <1>1, <1>3 DEF TerminateSucceeds, Terminated, TypeOK
  <2>2. /\ loop'.pc = "drain" /\ loop'.targets = loop.targets \ {loop.cur}
        /\ loop'.remove = loop.remove \cup {loop.cur}
    BY <1>3 DEF TerminateSucceeds, TerminateReturns, TypeOK, Loop
  <2>3. /\ Only(loop.cur) /\ mi'[loop.cur].count = mi[loop.cur].count
        /\ mi'[loop.cur].state = "terminating" /\ Fits(mi'[loop.cur])
    BY <1>1, <1>3 DEF TerminateSucceeds, TypeOK, Managed, Only, Fits
  <2> QED BY <1>1, <1>3, <2>1, <2>2, <2>3 DEF TerminateSucceeds
<1> QED BY <1>2, <1>3

LEMMA ProvisionMoves ==
    ASSUME TypeOK, NEW i \in Instances, ProvisionLook(i) \/ ProvisionExpired(i)
    PROVE  /\ loop.pc = "provision" /\ i \in loop.targets
           /\ UNCHANGED <<instances, pending, callerVars>>
           /\ loop'.pc = "provision" /\ loop'.targets = loop.targets \ {i}
           /\ Only(i) /\ mi'[i].count = mi[i].count /\ (Fits(mi[i]) => Fits(mi'[i]))
           /\ \A j \in Instances : cloud'[j] = cloud[j] \/ cloud'[j] = "gone"
           /\ \/ mi' = mi /\ loop'.remove = loop.remove
              \/ /\ mi[i].state = "provisioning" /\ mi'[i].state = "ready"
                 /\ cloud[i] = "running" /\ UNCHANGED cloud /\ loop'.remove = loop.remove
              \/ /\ mi[i].state = "provisioning" /\ mi'[i].state = "terminating" /\ cloud'[i] = "gone"
                 /\ loop'.remove = loop.remove \cup {i}
<1>1. CASE ProvisionLook(i)
  <2>1. Dropped(i)
    BY <1>1, DroppedMove DEF ProvisionLook, TypeOK
  <2>2. CASE UNCHANGED mi
    BY <1>1, <2>1, <2>2 DEF ProvisionLook, Only, Dropped
  <2>3. CASE /\ mi[i].state = "provisioning" /\ cloud[i] = "running"
             /\ mi' = [mi EXCEPT ![i].state = "ready", ![i].idle = TRUE]
    <3>1. Only(i) /\ mi'[i].count = mi[i].count /\ mi'[i].state = "ready" /\ Fits(mi'[i])
      BY <2>3 DEF TypeOK, Managed, Only, Fits
    <3> QED BY <1>1, <2>1, <2>3, <3>1 DEF ProvisionLook, Dropped
  <2> QED BY <1>1, <2>2, <2>3 DEF ProvisionLook
<1>2. CASE ProvisionExpired(i)
  <2>1. /\ \A j \in Instances : cloud'[j] = cloud[j] \/ cloud'[j] = "gone"
        /\ cloud'[i] = "gone"
    BY <1>2 DEF ProvisionExpired, Terminated, TypeOK
  <2>2. CASE UNCHANGED mi /\ loop' = [loop EXCEPT !.targets = @ \ {i}]
    BY <1>2, <2>1, <2>2, DroppedMove DEF ProvisionExpired, TypeOK, Only, Dropped
  <2>3. CASE /\ mi' = [mi EXCEPT ![i].state = "terminating"]
             /\ loop' = [loop EXCEPT !.targets = @ \ {i}, !.remove = @ \cup {i}]
    <3>1. Only(i) /\ mi'[i].count = mi[i].count /\ mi'[i].state = "terminating" /\ Fits(mi'[i])
      BY <2>3 DEF TypeOK, Managed, Only, Fits
    <3>2. /\ loop'.pc = loop.pc /\ loop'.targets = loop.targets \ {i}
          /\ loop'.remove = loop.remove \cup {i}
      BY <2>3 DEF TypeOK, Loop
    <3> QED BY <1>2, <2>1, <3>1, <3>2 DEF ProvisionExpired
  <2> QED BY <1>2, <2>2, <2>3 DEF ProvisionExpired
<1> QED BY <1>1, <1>2

-----------------------------------------------------------------------------
(* The callers' steps, field by field *)

\* Only caller c may change, and it is now at pc with instance i.
Moved(c, pc, i) ==
    /\ caller' \in [Callers -> Caller]
    /\ \A d \in Callers : d # c => caller'[d] = caller[d]
    /\ caller'[c].pc = pc /\ caller'[c].inst = i

LEMMA ReturnMove ==
    ASSUME TypeOK, NEW c \in Callers, Return(c)
    PROVE  Moved(c, "ready", None)
<1>1. Ready \in Caller /\ Ready.pc = "ready" /\ Ready.inst = None
    BY CallerTypes DEF Ready
<1> QED BY <1>1 DEF Return, Moved, TypeOK

LEMMA GotoMove ==
    ASSUME TypeOK, NEW c \in Callers, NEW pc \in CallerPC, Goto(c, pc)
    PROVE  Moved(c, pc, caller[c].inst)
BY DEF Goto, Moved, TypeOK, Caller

LEMMA RetryMove ==
    ASSUME TypeOK, NEW c \in Callers, Retry(c)
    PROVE  Moved(c, "select", None) \/ Moved(c, "ready", None)
<1>1. CASE caller[c].attempt + 1 < MaxAttempts
  <2>1. caller' \in [Callers -> Caller]
    BY RetryTypes DEF TypeOK
  <2>2. caller' = [caller EXCEPT ![c].pc = "select", ![c].attempt = @ + 1, ![c].inst = None]
    BY <1>1 DEF Retry
  <2> QED BY <2>1, <2>2 DEF Moved, TypeOK, Caller
<1>2. CASE ~(caller[c].attempt + 1 < MaxAttempts)
    BY <1>2, ReturnMove DEF Retry
<1> QED BY <1>1, <1>2

LEMMA CreateMove ==
    ASSUME TypeOK, TypeOK', NEW c \in Callers, CreateSandbox(c)
    PROVE  Moved(c, "select", None)
<1>1. Ready \in Caller /\ Ready.inst = None
    BY CallerTypes DEF Ready
<1>2. PICK s \in Sandboxes : caller' = [caller EXCEPT ![c] = [Ready EXCEPT !.pc = "select", !.sb = s]]
    BY DEF CreateSandbox
<1> QED BY <1>1, <1>2 DEF Moved, TypeOK, Caller

LEMMA DestroyMove ==
    ASSUME TypeOK, TypeOK', NEW c \in Callers, DestroySandbox(c)
    PROVE  \E i \in instances :
              Moved(c, "destroyRPC", i) /\ mi' = [mi EXCEPT ![i] = ReleaseSession(@)]
<1>1. Ready \in Caller
    BY CallerTypes
<1>2. PICK s \in DOMAIN known :
          /\ known[s] \in instances
          /\ mi' = [mi EXCEPT ![known[s]] = ReleaseSession(@)]
          /\ \E n : caller' = [caller EXCEPT ![c] = [Ready EXCEPT
                        !.pc = "destroyRPC", !.sb = s, !.inst = known[s], !.attempt = n]]
    BY DEF DestroySandbox
<1>3. Moved(c, "destroyRPC", known[s])
    BY <1>1, <1>2 DEF Moved, TypeOK, Caller
<1> QED BY <1>2, <1>3

LEMMA CloseMove ==
    ASSUME TypeOK, TypeOK', NEW c \in Callers, Close(c)
    PROVE  Moved(c, "closeWait", None)
<1>1. Ready \in Caller /\ Ready.inst = None
    BY CallerTypes DEF Ready
<1> QED BY <1>1 DEF Moved, TypeOK, Caller, Close

LEMMA SelectMove ==
    ASSUME TypeOK, TypeOK', NEW c \in Callers, SelectAndClaim(c)
    PROVE  Moved(c, "provision", caller[c].inst) \/ \E i \in instances : Moved(c, "claim", i)
BY GotoMove DEF SelectAndClaim, SelectInstance, Candidates, Moved, TypeOK, Caller, CallerPC

LEMMA LaunchMove ==
    ASSUME TypeOK, TypeOK', NEW c \in Callers, LaunchInstance(c)
    PROVE  \/ /\ Moved(c, "ready", None) /\ pending' = pending - 1 /\ UNCHANGED cloud
           \/ \E i \in Instances :
                /\ cloud[i] = "none" /\ cloud' = [cloud EXCEPT ![i] = "running"]
                /\ Moved(c, "register", i) /\ UNCHANGED pending
BY ReturnMove DEF LaunchInstance, Moved, TypeOK, Caller

LEMMA CloseWaitMove ==
    ASSUME TypeOK, TypeOK', NEW c \in Callers, CloseWait(c)
    PROVE  \E pc \in {"ready", "closeEach"}, i \in Instances \cup {None} :
              Moved(c, pc, i) /\ (pc = "closeEach" => caller'[c].todo = instances)
BY ReturnMove DEF CloseWait, Moved, TypeOK, Caller

LEMMA CloseEachMove ==
    ASSUME TypeOK, TypeOK', NEW c \in Callers, CloseEach(c)
    PROVE  /\ \A j \in Instances : cloud'[j] = cloud[j] \/ cloud'[j] = "gone"
           /\ \/ instances' = {} /\ Moved(c, "ready", None) /\ UNCHANGED mi
              \/ \E i \in caller[c].todo :
                   /\ i \in Instances /\ Only(i) /\ mi'[i].count = mi[i].count
                   /\ mi'[i].state = "terminating" /\ Fits(mi'[i])
                   /\ Moved(c, "closeEach", caller[c].inst) /\ UNCHANGED instances
                   /\ caller'[c].todo = caller[c].todo \ {i}
<1>1. \A j \in Instances : cloud'[j] = cloud[j] \/ cloud'[j] = "gone"
  <2>1. caller[c].todo \subseteq Instances
    BY DEF TypeOK, Caller
  <2> QED BY <2>1 DEF CloseEach, Terminated, TypeOK
<1>2. CASE caller[c].todo = {}
    BY <1>1, <1>2, ReturnMove DEF CloseEach
<1>3. CASE caller[c].todo # {}
  <2>1. PICK i \in caller[c].todo :
          /\ mi' = [mi EXCEPT ![i].state = "terminating"]
          /\ caller' = [caller EXCEPT ![c].todo = @ \ {i}]
          /\ UNCHANGED instances
    BY <1>3 DEF CloseEach
  <2>2. i \in Instances
    BY DEF TypeOK, Caller
  <2>3. Only(i) /\ mi'[i].count = mi[i].count /\ mi'[i].state = "terminating" /\ Fits(mi'[i])
    BY <2>1, <2>2 DEF TypeOK, Managed, Only, Fits
  <2>4. Moved(c, "closeEach", caller[c].inst) /\ caller'[c].todo = caller[c].todo \ {i}
    BY <2>1 DEF Moved, TypeOK, Caller, CloseEach
  <2> QED BY <1>1, <2>1, <2>2, <2>3, <2>4
<1> QED BY <1>2, <1>3

-----------------------------------------------------------------------------
(* The other parts of the invariant *)

LEMMA CarryStep == FleetInv /\ [Next]_vars => CarryInv'
<1> SUFFICES ASSUME FleetInv, [Next]_vars PROVE CarryInv'
    OBVIOUS
<1>0. TypeOK /\ CarryInv /\ Ready.pc = "ready" /\ Tick.pc = "tick" /\ Ready \in Caller /\ Tick \in Loop
    BY CallerTypes DEF FleetInv, Ready, Tick
<1> USE DEF TypeOK, CarryInv, Caller, CallerPC, LoopPC, loopVars, callerVars, Dropped
<1>1. ASSUME NEW c \in Callers, CreateSandbox(c) PROVE CarryInv'
    BY <1>0, <1>1 DEF CreateSandbox, NewCall
<1>2. ASSUME NEW c \in Callers, DestroySandbox(c) PROVE CarryInv'
    BY <1>0, <1>2 DEF DestroySandbox, NewCall
<1>3. ASSUME NEW c \in Callers, Close(c) PROVE CarryInv'
    BY <1>0, <1>3 DEF Close, NewCall
<1>4. ASSUME NEW c \in Callers, SelectAndClaim(c) PROVE CarryInv'
    BY <1>0, <1>4 DEF SelectAndClaim, Goto, SelectInstance, Candidates
<1>5. ASSUME NEW c \in Callers, Claim(c) PROVE CarryInv'
    BY <1>0, <1>5 DEF Claim, Goto, Return, CanClaim, Routable, Retry
<1>6. ASSUME NEW c \in Callers, CreateRPC(c) PROVE CarryInv'
    BY <1>0, <1>6 DEF CreateRPC, Goto, Return
<1>7. ASSUME NEW c \in Callers, Rollback(c) PROVE CarryInv'
    BY <1>0, <1>7 DEF Rollback, Return
<1>8. ASSUME NEW c \in Callers, ProvisionInstance(c) PROVE CarryInv'
    BY <1>0, <1>8 DEF ProvisionInstance, Goto, Return
<1>9. ASSUME NEW c \in Callers, ProvisionSlot(c) PROVE CarryInv'
    BY <1>0, <1>9 DEF ProvisionSlot, Goto, Return
<1>10. ASSUME NEW c \in Callers, LaunchInstance(c) PROVE CarryInv'
    BY <1>0, <1>10 DEF LaunchInstance, Return
<1>11. ASSUME NEW c \in Callers, RegisterInstance(c) PROVE CarryInv'
    BY <1>0, <1>11 DEF RegisterInstance, Return, Retry
<1>12. ASSUME NEW c \in Callers, DestroyRPC(c) PROVE CarryInv'
  <2>1. Return(c) \/ Goto(c, "reclaim")
    BY <1>12 DEF DestroyRPC
  <2> QED BY <1>0, <1>12, <2>1 DEF DestroyRPC, Return, Goto
<1>13. ASSUME NEW c \in Callers, Reclaim(c) PROVE CarryInv'
    BY <1>0, <1>13 DEF Reclaim, Return, CanClaim, Routable
<1>14. ASSUME NEW c \in Callers, CloseWait(c) PROVE CarryInv'
    BY <1>0, <1>14 DEF CloseWait, Return
<1>15. ASSUME NEW c \in Callers, CloseEach(c) PROVE CarryInv'
    BY <1>0, <1>15 DEF CloseEach, Return, Terminated
<1>16. ASSUME RunIteration PROVE CarryInv'
    BY <1>0, <1>16, PhaseLoop DEF RunIteration
<1>17. ASSUME HealthCheck PROVE CarryInv'
    BY <1>0, <1>17, HealthCheckMoves, LoopFields, TypeStep
<1>18. ASSUME HealthApply PROVE CarryInv'
    BY <1>0, <1>18 DEF HealthApply
<1>19. ASSUME HandleUnhealthy PROVE CarryInv'
    BY <1>0, <1>19, HandleUnhealthyMoves, LoopFields, TypeStep DEF Routable
<1>20. ASSUME ScaleUp PROVE CarryInv'
    BY <1>0, <1>20, PhaseLoop DEF ScaleUp
<1>21. ASSUME WarmSlot PROVE CarryInv'
    BY <1>0, <1>21, PhaseLoop DEF WarmSlot
<1>22. ASSUME WarmLaunch PROVE CarryInv'
    BY <1>0, <1>22, WarmLaunchMoves, LoopFields, TypeStep
<1>23. ASSUME WarmRegister PROVE CarryInv'
    BY <1>0, <1>23, PhaseLoop DEF WarmRegister
<1>24. ASSUME ScaleDown PROVE CarryInv'
    BY <1>0, <1>24 DEF ScaleDown
<1>25. ASSUME ScaleDownEach PROVE CarryInv'
    BY <1>0, <1>25, ScaleDownEachMoves, LoopFields, TypeStep
<1>26. ASSUME NEW i \in Instances, DrainExpired(i) PROVE CarryInv'
    BY <1>0, <1>26 DEF DrainExpired, DrainTarget
<1>27. ASSUME NEW i \in Instances, DrainLook(i) PROVE CarryInv'
    BY <1>0, <1>27, DrainMoves, LoopFields, TypeStep
<1>28. ASSUME TerminateFails PROVE CarryInv'
    BY <1>0, <1>28 DEF TerminateFails, Terminated, TerminateReturns
<1>29. ASSUME TerminateSucceeds PROVE CarryInv'
    BY <1>0, <1>29 DEF TerminateSucceeds, Terminated, TerminateReturns
<1>30. ASSUME DrainDone PROVE CarryInv'
    BY <1>0, <1>30, PhaseLoop DEF DrainDone
<1>31. ASSUME NEW i \in Instances, ProvisionLook(i) PROVE CarryInv'
    BY <1>0, <1>31 DEF ProvisionLook
<1>32. ASSUME NEW i \in Instances, ProvisionExpired(i) PROVE CarryInv'
    BY <1>0, <1>32, ProvisionMoves, LoopFields, TypeStep
<1>33. ASSUME ProvisionDone PROVE CarryInv'
    BY <1>0, <1>33, PhaseLoop DEF ProvisionDone
<1>34. ASSUME RecoverInstances PROVE CarryInv'
    BY <1>0, <1>34 DEF RecoverInstances, Ready, Tick
<1>35. ASSUME UNCHANGED vars PROVE CarryInv'
    BY <1>0, <1>35 DEF vars
<1> QED BY <1>1, <1>2, <1>3, <1>4, <1>5, <1>6, <1>7, <1>8, <1>9, <1>10, <1>11, <1>12, <1>13,
      <1>14, <1>15, <1>16, <1>17, <1>18, <1>19, <1>20, <1>21, <1>22, <1>23, <1>24, <1>25, <1>26,
      <1>27, <1>28, <1>29, <1>30, <1>31, <1>32, <1>33, <1>34, <1>35 DEF Next, CallerCalls,
      CallerStep, LoopStep

\* StatesAndClocks, instance by instance.
AllFit == \A i \in Instances : Fits(mi[i])

LEMMA AllFitIs == StatesAndClocks <=> AllFit
BY DEF StatesAndClocks, ActiveHasSessions, ReadyHasIdleClock, AllFit, Fits

LEMMA FitStep == FleetInv /\ [Next]_vars => AllFit'
<1> SUFFICES ASSUME FleetInv, [Next]_vars PROVE AllFit'
    OBVIOUS
<1>0. /\ TypeOK /\ TypeOK' /\ CarryInv /\ Tick.pc = "tick" /\ Tick.targets = {} /\ Tick.remove = {}
      /\ Ready.pc = "ready" /\ instances \subseteq Instances
      /\ mi \in [Instances -> Managed] /\ cloud \in [Instances -> {"none", "running", "gone"}]
      /\ loop.targets \subseteq Instances /\ loop.remove \subseteq Instances
      /\ \A j \in Instances : mi[j] \in Managed /\ mi[j].count \in Nat
      /\ Ready \in Caller /\ caller \in [Callers -> Caller] /\ caller' \in [Callers -> Caller]
      /\ AllFit
    BY CallerTypes, TypeStep, LoopFields, AllFitIs DEF FleetInv, Tick, Ready, TypeOK, Managed
<1> USE DEF TypeOK, CarryInv, CallerPC, LoopPC, loopVars, callerVars, AllFit, Only, Dropped
<1>1. ASSUME NEW c \in Callers, CreateSandbox(c) PROVE AllFit'
  <2>1. /\ Moved(c, "select", None)
        /\ UNCHANGED <<instances, mi, pending, closed, cloud, loopVars>>
    BY <1>0, <1>1, CreateMove DEF CreateSandbox
  <2> QED BY <1>0, <2>1
<1>2. ASSUME NEW c \in Callers, DestroySandbox(c) PROVE AllFit'
  <2>1. PICK i \in instances :
           Moved(c, "destroyRPC", i) /\ mi' = [mi EXCEPT ![i] = ReleaseSession(@)]
    BY <1>0, <1>2, DestroyMove
  <2>2. i \in Instances
    BY <1>0
  <2> QED BY <1>0, <1>2, <2>1, <2>2, ReleaseManaged DEF DestroySandbox
<1>3. ASSUME NEW c \in Callers, Close(c) PROVE AllFit'
    BY <1>0, <1>3, CloseMove DEF Close
<1>4. ASSUME NEW c \in Callers, SelectAndClaim(c) PROVE AllFit'
    BY <1>0, <1>4, GotoMove, SelectMove DEF SelectAndClaim
<1>5. ASSUME NEW c \in Callers, Claim(c) PROVE AllFit'
    BY <1>0, <1>5, GotoMove, RetryMove, ClaimManaged DEF Claim, CanClaim, Routable
<1>6. ASSUME NEW c \in Callers, CreateRPC(c) PROVE AllFit'
    BY <1>0, <1>6, GotoMove, ReturnMove DEF CreateRPC
<1>7. ASSUME NEW c \in Callers, Rollback(c) PROVE AllFit'
    BY <1>0, <1>7, ReturnMove, ReleaseManaged DEF Rollback
<1>8. ASSUME NEW c \in Callers, ProvisionInstance(c) PROVE AllFit'
    BY <1>0, <1>8, GotoMove, ReturnMove DEF ProvisionInstance
<1>9. ASSUME NEW c \in Callers, ProvisionSlot(c) PROVE AllFit'
    BY <1>0, <1>9, GotoMove, ReturnMove DEF ProvisionSlot
<1>10. ASSUME NEW c \in Callers, LaunchInstance(c) PROVE AllFit'
    BY <1>0, <1>10, ReturnMove, LaunchMove DEF LaunchInstance
<1>11. ASSUME NEW c \in Callers, RegisterInstance(c) PROVE AllFit'
    BY <1>0, <1>11, ReturnMove, RetryMove, NewManaged DEF RegisterInstance, InstanceState
<1>12. ASSUME NEW c \in Callers, DestroyRPC(c) PROVE AllFit'
    BY <1>0, <1>12, GotoMove, ReturnMove DEF DestroyRPC
<1>13. ASSUME NEW c \in Callers, Reclaim(c) PROVE AllFit'
    BY <1>0, <1>13, ReturnMove, ClaimManaged DEF Reclaim, CanClaim, Routable
<1>14. ASSUME NEW c \in Callers, CloseWait(c) PROVE AllFit'
    BY <1>0, <1>14, ReturnMove, CloseWaitMove DEF CloseWait
<1>15. ASSUME NEW c \in Callers, CloseEach(c) PROVE AllFit'
    BY <1>0, <1>15, ReturnMove, CloseEachMove DEF CloseEach
<1>16. ASSUME RunIteration PROVE AllFit'
    BY <1>0, <1>16, PhaseLoop DEF RunIteration
<1>17. ASSUME HealthCheck PROVE AllFit'
    BY <1>0, <1>17, HealthCheckMoves
<1>18. ASSUME HealthApply PROVE AllFit'
    BY <1>0, <1>18, HealthApplyMoves
<1>19. ASSUME HandleUnhealthy PROVE AllFit'
    BY <1>0, <1>19, HandleUnhealthyMoves DEF Routable
<1>20. ASSUME ScaleUp PROVE AllFit'
    BY <1>0, <1>20, PhaseLoop DEF ScaleUp
<1>21. ASSUME WarmSlot PROVE AllFit'
    BY <1>0, <1>21, PhaseLoop DEF WarmSlot
<1>22. ASSUME WarmLaunch PROVE AllFit'
    BY <1>0, <1>22, WarmLaunchMoves
<1>23. ASSUME WarmRegister PROVE AllFit'
    BY <1>0, <1>23, PhaseLoop, NewManaged DEF WarmRegister, InstanceState
<1>24. ASSUME ScaleDown PROVE AllFit'
    BY <1>0, <1>24, ScaleDownMoves
<1>25. ASSUME ScaleDownEach PROVE AllFit'
    BY <1>0, <1>25, ScaleDownEachMoves
<1>26. ASSUME NEW i \in Instances, DrainExpired(i) PROVE AllFit'
    BY <1>0, <1>26, DrainMoves
<1>27. ASSUME NEW i \in Instances, DrainLook(i) PROVE AllFit'
    BY <1>0, <1>27, DrainMoves
<1>28. ASSUME TerminateFails PROVE AllFit'
    BY <1>0, <1>28, TerminateMoves
<1>29. ASSUME TerminateSucceeds PROVE AllFit'
    BY <1>0, <1>29, TerminateMoves
<1>30. ASSUME DrainDone PROVE AllFit'
    BY <1>0, <1>30, PhaseLoop DEF DrainDone
<1>31. ASSUME NEW i \in Instances, ProvisionLook(i) PROVE AllFit'
    BY <1>0, <1>31, ProvisionMoves
<1>32. ASSUME NEW i \in Instances, ProvisionExpired(i) PROVE AllFit'
    BY <1>0, <1>32, ProvisionMoves
<1>33. ASSUME ProvisionDone PROVE AllFit'
    BY <1>0, <1>33, PhaseLoop DEF ProvisionDone
<1>34. ASSUME RecoverInstances PROVE AllFit'
    BY <1>0, <1>34, CallerTypes, NewManaged DEF RecoverInstances, InstanceState
<1>35. ASSUME UNCHANGED vars PROVE AllFit'
    BY <1>0, <1>35 DEF vars
<1> QED BY <1>1, <1>2, <1>3, <1>4, <1>5, <1>6, <1>7, <1>8, <1>9, <1>10, <1>11, <1>12, <1>13,
      <1>14, <1>15, <1>16, <1>17, <1>18, <1>19, <1>20, <1>21, <1>22, <1>23, <1>24, <1>25, <1>26,
      <1>27, <1>28, <1>29, <1>30, <1>31, <1>32, <1>33, <1>34, <1>35 DEF Next, CallerCalls,
      CallerStep, LoopStep

LEMMA RegisterStep == FleetInv /\ [Next]_vars => RegisterInv'
<1> SUFFICES ASSUME FleetInv, [Next]_vars PROVE RegisterInv'
    OBVIOUS
<1>0. /\ TypeOK /\ TypeOK' /\ CarryInv /\ Tick.pc = "tick" /\ Tick.targets = {} /\ Tick.remove = {}
      /\ Ready.pc = "ready" /\ instances \subseteq Instances
      /\ mi \in [Instances -> Managed] /\ cloud \in [Instances -> {"none", "running", "gone"}]
      /\ loop.targets \subseteq Instances /\ loop.remove \subseteq Instances
      /\ \A j \in Instances : mi[j] \in Managed /\ mi[j].count \in Nat
      /\ Ready \in Caller /\ caller \in [Callers -> Caller] /\ caller' \in [Callers -> Caller]
      /\ RegisterInv /\ TodoInv /\ TargetInv /\ CurrentInv /\ CloserInv
    BY CallerTypes, TypeStep, LoopFields DEF FleetInv, Tick, Ready, TypeOK, Managed
<1> USE DEF TypeOK, CarryInv, CallerPC, LoopPC, loopVars, callerVars, RegisterInv, Only, Dropped, Moved
<1>1. ASSUME NEW c \in Callers, CreateSandbox(c) PROVE RegisterInv'
  <2>1. /\ Moved(c, "select", None)
        /\ UNCHANGED <<instances, mi, pending, closed, cloud, loopVars>>
    BY <1>0, <1>1, CreateMove DEF CreateSandbox
  <2> QED BY <1>0, <2>1
<1>2. ASSUME NEW c \in Callers, DestroySandbox(c) PROVE RegisterInv'
  <2>1. PICK i \in instances :
           Moved(c, "destroyRPC", i) /\ mi' = [mi EXCEPT ![i] = ReleaseSession(@)]
    BY <1>0, <1>2, DestroyMove
  <2>2. i \in Instances
    BY <1>0
  <2> QED BY <1>0, <1>2, <2>1, <2>2, ReleaseManaged DEF DestroySandbox
<1>3. ASSUME NEW c \in Callers, Close(c) PROVE RegisterInv'
    BY <1>0, <1>3, CloseMove DEF Close
<1>4. ASSUME NEW c \in Callers, SelectAndClaim(c) PROVE RegisterInv'
    BY <1>0, <1>4, GotoMove, SelectMove DEF SelectAndClaim
<1>5. ASSUME NEW c \in Callers, Claim(c) PROVE RegisterInv'
    BY <1>0, <1>5, GotoMove, RetryMove, ClaimManaged DEF Claim, CanClaim, Routable
<1>6. ASSUME NEW c \in Callers, CreateRPC(c) PROVE RegisterInv'
    BY <1>0, <1>6, GotoMove, ReturnMove DEF CreateRPC
<1>7. ASSUME NEW c \in Callers, Rollback(c) PROVE RegisterInv'
    BY <1>0, <1>7, ReturnMove, ReleaseManaged DEF Rollback
<1>8. ASSUME NEW c \in Callers, ProvisionInstance(c) PROVE RegisterInv'
    BY <1>0, <1>8, GotoMove, ReturnMove DEF ProvisionInstance
<1>9. ASSUME NEW c \in Callers, ProvisionSlot(c) PROVE RegisterInv'
    BY <1>0, <1>9, GotoMove, ReturnMove DEF ProvisionSlot
<1>10. ASSUME NEW c \in Callers, LaunchInstance(c) PROVE RegisterInv'
    BY <1>0, <1>10, ReturnMove, LaunchMove DEF LaunchInstance
<1>11. ASSUME NEW c \in Callers, RegisterInstance(c) PROVE RegisterInv'
    BY <1>0, <1>11, ReturnMove, RetryMove, NewManaged DEF RegisterInstance, InstanceState
<1>12. ASSUME NEW c \in Callers, DestroyRPC(c) PROVE RegisterInv'
    BY <1>0, <1>12, GotoMove, ReturnMove DEF DestroyRPC
<1>13. ASSUME NEW c \in Callers, Reclaim(c) PROVE RegisterInv'
    BY <1>0, <1>13, ReturnMove, ClaimManaged DEF Reclaim, CanClaim, Routable
<1>14. ASSUME NEW c \in Callers, CloseWait(c) PROVE RegisterInv'
    BY <1>0, <1>14, ReturnMove, CloseWaitMove DEF CloseWait
<1>15. ASSUME NEW c \in Callers, CloseEach(c) PROVE RegisterInv'
  <2>1. CASE instances' = {} /\ Moved(c, "ready", None) /\ UNCHANGED mi
    BY <1>0, <1>15, <2>1, CloseEachMove DEF CloseEach
  <2>2. ASSUME NEW i \in Instances, Only(i), mi'[i].count = mi[i].count,
               mi'[i].state = "terminating", Moved(c, "closeEach", caller[c].inst),
               UNCHANGED instances, i \in caller[c].todo
        PROVE  RegisterInv'
    <3>1. loop.pc = "stopped" /\ UNCHANGED loop
      BY <1>0, <1>15, <2>2 DEF CloseEach, CloserInv
    <3>3. cloud[i] # "none" /\ \A d \in Callers : caller[d].pc = "register" => caller[d].inst # i
      BY <1>0, <1>15, <2>2 DEF CloseEach, TodoInv
    <3>2. \A j \in Instances : cloud'[j] = cloud[j] \/ cloud'[j] = "gone"
      BY <1>0, <1>15, CloseEachMove
    <3> QED BY <1>0, <1>15, <2>2, <3>1, <3>2, <3>3 DEF CloseEach
  <2> QED BY <1>0, <1>15, <2>1, <2>2, CloseEachMove
<1>16. ASSUME RunIteration PROVE RegisterInv'
    BY <1>0, <1>16, PhaseLoop DEF RunIteration
<1>17. ASSUME HealthCheck PROVE RegisterInv'
    BY <1>0, <1>17, HealthCheckMoves
<1>18. ASSUME HealthApply PROVE RegisterInv'
    BY <1>0, <1>18, HealthApplyMoves DEF TargetInv, CurrentInv
<1>19. ASSUME HandleUnhealthy PROVE RegisterInv'
    BY <1>0, <1>19, HandleUnhealthyMoves DEF TargetInv, CurrentInv, Routable
<1>20. ASSUME ScaleUp PROVE RegisterInv'
    BY <1>0, <1>20, PhaseLoop DEF ScaleUp
<1>21. ASSUME WarmSlot PROVE RegisterInv'
    BY <1>0, <1>21, PhaseLoop DEF WarmSlot
<1>22. ASSUME WarmLaunch PROVE RegisterInv'
    BY <1>0, <1>22, WarmLaunchMoves
<1>23. ASSUME WarmRegister PROVE RegisterInv'
    BY <1>0, <1>23, PhaseLoop, NewManaged DEF WarmRegister, InstanceState
<1>24. ASSUME ScaleDown PROVE RegisterInv'
    BY <1>0, <1>24, ScaleDownMoves
<1>25. ASSUME ScaleDownEach PROVE RegisterInv'
    BY <1>0, <1>25, ScaleDownEachMoves DEF TargetInv, CurrentInv
<1>26. ASSUME NEW i \in Instances, DrainExpired(i) PROVE RegisterInv'
    BY <1>0, <1>26, DrainMoves DEF TargetInv, CurrentInv
<1>27. ASSUME NEW i \in Instances, DrainLook(i) PROVE RegisterInv'
    BY <1>0, <1>27, DrainMoves DEF TargetInv, CurrentInv
<1>28. ASSUME TerminateFails PROVE RegisterInv'
    BY <1>0, <1>28, TerminateMoves DEF TargetInv, CurrentInv
<1>29. ASSUME TerminateSucceeds PROVE RegisterInv'
    BY <1>0, <1>29, TerminateMoves DEF TargetInv, CurrentInv
<1>30. ASSUME DrainDone PROVE RegisterInv'
    BY <1>0, <1>30, PhaseLoop DEF DrainDone
<1>31. ASSUME NEW i \in Instances, ProvisionLook(i) PROVE RegisterInv'
    BY <1>0, <1>31, ProvisionMoves DEF TargetInv, CurrentInv
<1>32. ASSUME NEW i \in Instances, ProvisionExpired(i) PROVE RegisterInv'
    BY <1>0, <1>32, ProvisionMoves DEF TargetInv, CurrentInv
<1>33. ASSUME ProvisionDone PROVE RegisterInv'
    BY <1>0, <1>33, PhaseLoop DEF ProvisionDone
<1>34. ASSUME RecoverInstances PROVE RegisterInv'
    BY <1>0, <1>34, CallerTypes, NewManaged DEF RecoverInstances, InstanceState
<1>35. ASSUME UNCHANGED vars PROVE RegisterInv'
    BY <1>0, <1>35 DEF vars
<1> QED BY <1>1, <1>2, <1>3, <1>4, <1>5, <1>6, <1>7, <1>8, <1>9, <1>10, <1>11, <1>12, <1>13,
      <1>14, <1>15, <1>16, <1>17, <1>18, <1>19, <1>20, <1>21, <1>22, <1>23, <1>24, <1>25, <1>26,
      <1>27, <1>28, <1>29, <1>30, <1>31, <1>32, <1>33, <1>34, <1>35 DEF Next, CallerCalls,
      CallerStep, LoopStep

LEMMA TargetStep == FleetInv /\ [Next]_vars => TargetInv'
<1> SUFFICES ASSUME FleetInv, [Next]_vars PROVE TargetInv'
    OBVIOUS
<1>0. /\ TypeOK /\ TypeOK' /\ CarryInv /\ Tick.pc = "tick" /\ Tick.targets = {} /\ Tick.remove = {}
      /\ Ready.pc = "ready" /\ instances \subseteq Instances
      /\ mi \in [Instances -> Managed] /\ cloud \in [Instances -> {"none", "running", "gone"}]
      /\ loop.targets \subseteq Instances /\ loop.remove \subseteq Instances
      /\ \A j \in Instances : mi[j] \in Managed /\ mi[j].count \in Nat
      /\ Ready \in Caller /\ caller \in [Callers -> Caller] /\ caller' \in [Callers -> Caller]
      /\ TargetInv /\ CloserInv /\ RemoveInv
    BY CallerTypes, TypeStep, LoopFields DEF FleetInv, Tick, Ready, TypeOK, Managed
<1> USE DEF CarryInv, CallerPC, LoopPC, loopVars, callerVars, TargetInv, Dropped, CloserInv
<1>1. ASSUME NEW c \in Callers, CreateSandbox(c) PROVE TargetInv'
  <2>1. /\ Moved(c, "select", None)
        /\ UNCHANGED <<instances, mi, pending, closed, cloud, loopVars>>
    BY <1>0, <1>1, CreateMove DEF CreateSandbox
  <2> QED BY <1>0, <2>1
<1>2. ASSUME NEW c \in Callers, DestroySandbox(c) PROVE TargetInv'
  <2>1. PICK i \in instances :
           Moved(c, "destroyRPC", i) /\ mi' = [mi EXCEPT ![i] = ReleaseSession(@)]
    BY <1>0, <1>2, DestroyMove
  <2>2. i \in Instances
    BY <1>0
  <2> QED BY <1>0, <1>2, <2>1, <2>2, ReleaseManaged DEF DestroySandbox
<1>3. ASSUME NEW c \in Callers, Close(c) PROVE TargetInv'
    BY <1>0, <1>3, CloseMove DEF Close
<1>4. ASSUME NEW c \in Callers, SelectAndClaim(c) PROVE TargetInv'
    BY <1>0, <1>4, GotoMove, SelectMove DEF SelectAndClaim
<1>5. ASSUME NEW c \in Callers, Claim(c) PROVE TargetInv'
    BY <1>0, <1>5, GotoMove, RetryMove, ClaimManaged DEF Claim, CanClaim, Routable
<1>6. ASSUME NEW c \in Callers, CreateRPC(c) PROVE TargetInv'
    BY <1>0, <1>6, GotoMove, ReturnMove DEF CreateRPC
<1>7. ASSUME NEW c \in Callers, Rollback(c) PROVE TargetInv'
    BY <1>0, <1>7, ReturnMove, ReleaseManaged DEF Rollback
<1>8. ASSUME NEW c \in Callers, ProvisionInstance(c) PROVE TargetInv'
    BY <1>0, <1>8, GotoMove, ReturnMove DEF ProvisionInstance
<1>9. ASSUME NEW c \in Callers, ProvisionSlot(c) PROVE TargetInv'
    BY <1>0, <1>9, GotoMove, ReturnMove DEF ProvisionSlot
<1>10. ASSUME NEW c \in Callers, LaunchInstance(c) PROVE TargetInv'
    BY <1>0, <1>10, ReturnMove, LaunchMove DEF LaunchInstance
<1>11. ASSUME NEW c \in Callers, RegisterInstance(c) PROVE TargetInv'
    BY <1>0, <1>11, ReturnMove, RetryMove, NewManaged DEF RegisterInv, RegisterInstance, InstanceState
<1>12. ASSUME NEW c \in Callers, DestroyRPC(c) PROVE TargetInv'
    BY <1>0, <1>12, GotoMove, ReturnMove DEF DestroyRPC
<1>13. ASSUME NEW c \in Callers, Reclaim(c) PROVE TargetInv'
    BY <1>0, <1>13, ReturnMove, ClaimManaged DEF Reclaim, CanClaim, Routable
<1>14. ASSUME NEW c \in Callers, CloseWait(c) PROVE TargetInv'
    BY <1>0, <1>14, ReturnMove, CloseWaitMove DEF CloseWait
<1>15. ASSUME NEW c \in Callers, CloseEach(c) PROVE TargetInv'
    BY <1>0, <1>15, ReturnMove, CloseEachMove DEF CloseEach
<1>16. ASSUME RunIteration PROVE TargetInv'
    BY <1>0, <1>16, PhaseLoop DEF RunIteration
<1>17. ASSUME HealthCheck PROVE TargetInv'
    BY <1>0, <1>17, HealthCheckMoves
<1>18. ASSUME HealthApply PROVE TargetInv'
    BY <1>0, <1>18, HealthApplyMoves
<1>19. ASSUME HandleUnhealthy PROVE TargetInv'
    BY <1>0, <1>19, HandleUnhealthyMoves DEF Routable
<1>20. ASSUME ScaleUp PROVE TargetInv'
    BY <1>0, <1>20, PhaseLoop DEF ScaleUp
<1>21. ASSUME WarmSlot PROVE TargetInv'
    BY <1>0, <1>21, PhaseLoop DEF WarmSlot
<1>22. ASSUME WarmLaunch PROVE TargetInv'
    BY <1>0, <1>22, WarmLaunchMoves
<1>23. ASSUME WarmRegister PROVE TargetInv'
    BY <1>0, <1>23, PhaseLoop, NewManaged DEF RegisterInv, WarmRegister, InstanceState
<1>24. ASSUME ScaleDown PROVE TargetInv'
    BY <1>0, <1>24, ScaleDownMoves
<1>25. ASSUME ScaleDownEach PROVE TargetInv'
    BY <1>0, <1>25, ScaleDownEachMoves
<1>26. ASSUME NEW i \in Instances, DrainExpired(i) PROVE TargetInv'
    BY <1>0, <1>26, DrainMoves
<1>27. ASSUME NEW i \in Instances, DrainLook(i) PROVE TargetInv'
    BY <1>0, <1>27, DrainMoves
<1>28. ASSUME TerminateFails PROVE TargetInv'
    BY <1>0, <1>28, TerminateMoves
<1>29. ASSUME TerminateSucceeds PROVE TargetInv'
    BY <1>0, <1>29, TerminateMoves
<1>30. ASSUME DrainDone PROVE TargetInv'
    BY <1>0, <1>30, PhaseLoop DEF DrainDone
<1>31. ASSUME NEW i \in Instances, ProvisionLook(i) PROVE TargetInv'
    BY <1>0, <1>31, ProvisionMoves
<1>32. ASSUME NEW i \in Instances, ProvisionExpired(i) PROVE TargetInv'
    BY <1>0, <1>32, ProvisionMoves
<1>33. ASSUME ProvisionDone PROVE TargetInv'
    BY <1>0, <1>33, PhaseLoop DEF ProvisionDone
<1>34. ASSUME RecoverInstances PROVE TargetInv'
    BY <1>0, <1>34, CallerTypes, NewManaged DEF RecoverInstances, InstanceState
<1>35. ASSUME UNCHANGED vars PROVE TargetInv'
    BY <1>0, <1>35 DEF vars
<1> QED BY <1>1, <1>2, <1>3, <1>4, <1>5, <1>6, <1>7, <1>8, <1>9, <1>10, <1>11, <1>12, <1>13,
      <1>14, <1>15, <1>16, <1>17, <1>18, <1>19, <1>20, <1>21, <1>22, <1>23, <1>24, <1>25, <1>26,
      <1>27, <1>28, <1>29, <1>30, <1>31, <1>32, <1>33, <1>34, <1>35 DEF Next, CallerCalls,
      CallerStep, LoopStep

LEMMA CurrentStep == FleetInv /\ [Next]_vars => CurrentInv'
<1> SUFFICES ASSUME FleetInv, [Next]_vars PROVE CurrentInv'
    OBVIOUS
<1>0. /\ TypeOK /\ TypeOK' /\ CarryInv /\ Tick.pc = "tick" /\ Tick.targets = {} /\ Tick.remove = {}
      /\ Ready.pc = "ready" /\ instances \subseteq Instances
      /\ mi \in [Instances -> Managed] /\ cloud \in [Instances -> {"none", "running", "gone"}]
      /\ loop.targets \subseteq Instances /\ loop.remove \subseteq Instances
      /\ \A j \in Instances : mi[j] \in Managed /\ mi[j].count \in Nat
      /\ Ready \in Caller /\ caller \in [Callers -> Caller] /\ caller' \in [Callers -> Caller]
      /\ RegisterInv /\ TodoInv /\ TargetInv /\ CurrentInv /\ CloserInv
    BY CallerTypes, TypeStep, LoopFields DEF FleetInv, Tick, Ready, TypeOK, Managed
<1> USE DEF CarryInv, CallerPC, LoopPC, loopVars, callerVars, CurrentInv, TargetInv, Only, Dropped, CloserInv
<1>1. ASSUME NEW c \in Callers, CreateSandbox(c) PROVE CurrentInv'
  <2>1. /\ Moved(c, "select", None)
        /\ UNCHANGED <<instances, mi, pending, closed, cloud, loopVars>>
    BY <1>0, <1>1, CreateMove DEF CreateSandbox
  <2> QED BY <1>0, <2>1
<1>2. ASSUME NEW c \in Callers, DestroySandbox(c) PROVE CurrentInv'
  <2>1. PICK i \in instances :
           Moved(c, "destroyRPC", i) /\ mi' = [mi EXCEPT ![i] = ReleaseSession(@)]
    BY <1>0, <1>2, DestroyMove
  <2>2. i \in Instances
    BY <1>0
  <2> QED BY <1>0, <1>2, <2>1, <2>2, ReleaseManaged DEF DestroySandbox
<1>3. ASSUME NEW c \in Callers, Close(c) PROVE CurrentInv'
    BY <1>0, <1>3, CloseMove DEF Close
<1>4. ASSUME NEW c \in Callers, SelectAndClaim(c) PROVE CurrentInv'
    BY <1>0, <1>4, GotoMove, SelectMove DEF SelectAndClaim
<1>5. ASSUME NEW c \in Callers, Claim(c) PROVE CurrentInv'
    BY <1>0, <1>5, GotoMove, RetryMove, ClaimManaged DEF Claim, CanClaim, Routable
<1>6. ASSUME NEW c \in Callers, CreateRPC(c) PROVE CurrentInv'
    BY <1>0, <1>6, GotoMove, ReturnMove DEF CreateRPC
<1>7. ASSUME NEW c \in Callers, Rollback(c) PROVE CurrentInv'
    BY <1>0, <1>7, ReturnMove, ReleaseManaged DEF Rollback
<1>8. ASSUME NEW c \in Callers, ProvisionInstance(c) PROVE CurrentInv'
    BY <1>0, <1>8, GotoMove, ReturnMove DEF ProvisionInstance
<1>9. ASSUME NEW c \in Callers, ProvisionSlot(c) PROVE CurrentInv'
    BY <1>0, <1>9, GotoMove, ReturnMove DEF ProvisionSlot
<1>10. ASSUME NEW c \in Callers, LaunchInstance(c) PROVE CurrentInv'
    BY <1>0, <1>10, ReturnMove, LaunchMove DEF LaunchInstance
<1>11. ASSUME NEW c \in Callers, RegisterInstance(c) PROVE CurrentInv'
    BY <1>0, <1>11, ReturnMove, RetryMove, NewManaged DEF RegisterInv, RegisterInstance, InstanceState
<1>12. ASSUME NEW c \in Callers, DestroyRPC(c) PROVE CurrentInv'
    BY <1>0, <1>12, GotoMove, ReturnMove DEF DestroyRPC
<1>13. ASSUME NEW c \in Callers, Reclaim(c) PROVE CurrentInv'
    BY <1>0, <1>13, ReturnMove, ClaimManaged DEF Reclaim, CanClaim, Routable
<1>14. ASSUME NEW c \in Callers, CloseWait(c) PROVE CurrentInv'
    BY <1>0, <1>14, ReturnMove, CloseWaitMove DEF CloseWait
<1>15. ASSUME NEW c \in Callers, CloseEach(c) PROVE CurrentInv'
    BY <1>0, <1>15, ReturnMove, CloseEachMove DEF CloseEach
<1>16. ASSUME RunIteration PROVE CurrentInv'
    BY <1>0, <1>16, PhaseLoop DEF RunIteration
<1>17. ASSUME HealthCheck PROVE CurrentInv'
    BY <1>0, <1>17, HealthCheckMoves
<1>18. ASSUME HealthApply PROVE CurrentInv'
    BY <1>0, <1>18, HealthApplyMoves
<1>19. ASSUME HandleUnhealthy PROVE CurrentInv'
    BY <1>0, <1>19, HandleUnhealthyMoves DEF Routable
<1>20. ASSUME ScaleUp PROVE CurrentInv'
    BY <1>0, <1>20, PhaseLoop DEF ScaleUp
<1>21. ASSUME WarmSlot PROVE CurrentInv'
    BY <1>0, <1>21, PhaseLoop DEF WarmSlot
<1>22. ASSUME WarmLaunch PROVE CurrentInv'
    BY <1>0, <1>22, WarmLaunchMoves
<1>23. ASSUME WarmRegister PROVE CurrentInv'
    BY <1>0, <1>23, PhaseLoop, NewManaged DEF RegisterInv, WarmRegister, InstanceState
<1>24. ASSUME ScaleDown PROVE CurrentInv'
    BY <1>0, <1>24, ScaleDownMoves
<1>25. ASSUME ScaleDownEach PROVE CurrentInv'
    BY <1>0, <1>25, ScaleDownEachMoves
<1>26. ASSUME NEW i \in Instances, DrainExpired(i) PROVE CurrentInv'
    BY <1>0, <1>26, DrainMoves
<1>27. ASSUME NEW i \in Instances, DrainLook(i) PROVE CurrentInv'
    BY <1>0, <1>27, DrainMoves
<1>28. ASSUME TerminateFails PROVE CurrentInv'
    BY <1>0, <1>28, TerminateMoves
<1>29. ASSUME TerminateSucceeds PROVE CurrentInv'
    BY <1>0, <1>29, TerminateMoves
<1>30. ASSUME DrainDone PROVE CurrentInv'
    BY <1>0, <1>30, PhaseLoop DEF DrainDone
<1>31. ASSUME NEW i \in Instances, ProvisionLook(i) PROVE CurrentInv'
    BY <1>0, <1>31, ProvisionMoves
<1>32. ASSUME NEW i \in Instances, ProvisionExpired(i) PROVE CurrentInv'
    BY <1>0, <1>32, ProvisionMoves
<1>33. ASSUME ProvisionDone PROVE CurrentInv'
    BY <1>0, <1>33, PhaseLoop DEF ProvisionDone
<1>34. ASSUME RecoverInstances PROVE CurrentInv'
    BY <1>0, <1>34, CallerTypes, NewManaged DEF RecoverInstances, InstanceState
<1>35. ASSUME UNCHANGED vars PROVE CurrentInv'
    BY <1>0, <1>35 DEF vars
<1> QED BY <1>1, <1>2, <1>3, <1>4, <1>5, <1>6, <1>7, <1>8, <1>9, <1>10, <1>11, <1>12, <1>13,
      <1>14, <1>15, <1>16, <1>17, <1>18, <1>19, <1>20, <1>21, <1>22, <1>23, <1>24, <1>25, <1>26,
      <1>27, <1>28, <1>29, <1>30, <1>31, <1>32, <1>33, <1>34, <1>35 DEF Next, CallerCalls,
      CallerStep, LoopStep

LEMMA TodoStep == FleetInv /\ [Next]_vars => TodoInv'
<1> SUFFICES ASSUME FleetInv, [Next]_vars PROVE TodoInv'
    OBVIOUS
<1>0. /\ TypeOK /\ TypeOK' /\ CarryInv /\ Tick.pc = "tick" /\ Tick.targets = {} /\ Tick.remove = {}
      /\ Ready.pc = "ready" /\ instances \subseteq Instances
      /\ mi \in [Instances -> Managed] /\ cloud \in [Instances -> {"none", "running", "gone"}]
      /\ loop.targets \subseteq Instances /\ loop.remove \subseteq Instances
      /\ \A j \in Instances : mi[j] \in Managed /\ mi[j].count \in Nat
      /\ Ready \in Caller /\ caller \in [Callers -> Caller] /\ caller' \in [Callers -> Caller]
      /\ RegisterInv /\ TodoInv
      /\ \A d \in Callers : caller[d].todo \subseteq Instances
    BY CallerTypes, TypeStep, LoopFields DEF FleetInv, Tick, Ready, TypeOK, Managed, Caller
<1> USE DEF TypeOK, CarryInv, CallerPC, LoopPC, loopVars, callerVars, TodoInv, RegisterInv, Dropped, Moved
<1>1. ASSUME NEW c \in Callers, CreateSandbox(c) PROVE TodoInv'
  <2>1. /\ Moved(c, "select", None)
        /\ UNCHANGED <<instances, mi, pending, closed, cloud, loopVars>>
    BY <1>0, <1>1, CreateMove DEF CreateSandbox
  <2> QED BY <1>0, <2>1
<1>2. ASSUME NEW c \in Callers, DestroySandbox(c) PROVE TodoInv'
  <2>1. PICK i \in instances :
           Moved(c, "destroyRPC", i) /\ mi' = [mi EXCEPT ![i] = ReleaseSession(@)]
    BY <1>0, <1>2, DestroyMove
  <2>2. i \in Instances
    BY <1>0
  <2> QED BY <1>0, <1>2, <2>1, <2>2, ReleaseManaged DEF DestroySandbox
<1>3. ASSUME NEW c \in Callers, Close(c) PROVE TodoInv'
    BY <1>0, <1>3, CloseMove DEF Close
<1>4. ASSUME NEW c \in Callers, SelectAndClaim(c) PROVE TodoInv'
    BY <1>0, <1>4, GotoMove, SelectMove DEF SelectAndClaim
<1>5. ASSUME NEW c \in Callers, Claim(c) PROVE TodoInv'
    BY <1>0, <1>5, GotoMove, RetryMove, ClaimManaged DEF Claim, CanClaim, Routable
<1>6. ASSUME NEW c \in Callers, CreateRPC(c) PROVE TodoInv'
    BY <1>0, <1>6, GotoMove, ReturnMove DEF CreateRPC
<1>7. ASSUME NEW c \in Callers, Rollback(c) PROVE TodoInv'
    BY <1>0, <1>7, ReturnMove, ReleaseManaged DEF Rollback
<1>8. ASSUME NEW c \in Callers, ProvisionInstance(c) PROVE TodoInv'
    BY <1>0, <1>8, GotoMove, ReturnMove DEF ProvisionInstance
<1>9. ASSUME NEW c \in Callers, ProvisionSlot(c) PROVE TodoInv'
    BY <1>0, <1>9, GotoMove, ReturnMove DEF ProvisionSlot
<1>10. ASSUME NEW c \in Callers, LaunchInstance(c) PROVE TodoInv'
    BY <1>0, <1>10, ReturnMove, LaunchMove DEF LaunchInstance
<1>11. ASSUME NEW c \in Callers, RegisterInstance(c) PROVE TodoInv'
    BY <1>0, <1>11, ReturnMove, RetryMove, NewManaged DEF RegisterInv, RegisterInstance, InstanceState
<1>12. ASSUME NEW c \in Callers, DestroyRPC(c) PROVE TodoInv'
    BY <1>0, <1>12, GotoMove, ReturnMove DEF DestroyRPC
<1>13. ASSUME NEW c \in Callers, Reclaim(c) PROVE TodoInv'
    BY <1>0, <1>13, ReturnMove, ClaimManaged DEF Reclaim, CanClaim, Routable
<1>14. ASSUME NEW c \in Callers, CloseWait(c) PROVE TodoInv'
    BY <1>0, <1>14, ReturnMove, CloseWaitMove DEF CloseWait
<1>15. ASSUME NEW c \in Callers, CloseEach(c) PROVE TodoInv'
    BY <1>0, <1>15, ReturnMove, CloseEachMove DEF CloseEach
<1>16. ASSUME RunIteration PROVE TodoInv'
    BY <1>0, <1>16, PhaseLoop DEF RunIteration
<1>17. ASSUME HealthCheck PROVE TodoInv'
    BY <1>0, <1>17, HealthCheckMoves
<1>18. ASSUME HealthApply PROVE TodoInv'
    BY <1>0, <1>18, HealthApplyMoves
<1>19. ASSUME HandleUnhealthy PROVE TodoInv'
    BY <1>0, <1>19, HandleUnhealthyMoves DEF Routable
<1>20. ASSUME ScaleUp PROVE TodoInv'
    BY <1>0, <1>20, PhaseLoop DEF ScaleUp
<1>21. ASSUME WarmSlot PROVE TodoInv'
    BY <1>0, <1>21, PhaseLoop DEF WarmSlot
<1>22. ASSUME WarmLaunch PROVE TodoInv'
    BY <1>0, <1>22, WarmLaunchMoves
<1>23. ASSUME WarmRegister PROVE TodoInv'
    BY <1>0, <1>23, PhaseLoop, NewManaged DEF RegisterInv, WarmRegister, InstanceState
<1>24. ASSUME ScaleDown PROVE TodoInv'
    BY <1>0, <1>24, ScaleDownMoves
<1>25. ASSUME ScaleDownEach PROVE TodoInv'
    BY <1>0, <1>25, ScaleDownEachMoves
<1>26. ASSUME NEW i \in Instances, DrainExpired(i) PROVE TodoInv'
    BY <1>0, <1>26, DrainMoves
<1>27. ASSUME NEW i \in Instances, DrainLook(i) PROVE TodoInv'
    BY <1>0, <1>27, DrainMoves
<1>28. ASSUME TerminateFails PROVE TodoInv'
    BY <1>0, <1>28, TerminateMoves
<1>29. ASSUME TerminateSucceeds PROVE TodoInv'
    BY <1>0, <1>29, TerminateMoves
<1>30. ASSUME DrainDone PROVE TodoInv'
    BY <1>0, <1>30, PhaseLoop DEF DrainDone
<1>31. ASSUME NEW i \in Instances, ProvisionLook(i) PROVE TodoInv'
    BY <1>0, <1>31, ProvisionMoves
<1>32. ASSUME NEW i \in Instances, ProvisionExpired(i) PROVE TodoInv'
    BY <1>0, <1>32, ProvisionMoves
<1>33. ASSUME ProvisionDone PROVE TodoInv'
    BY <1>0, <1>33, PhaseLoop DEF ProvisionDone
<1>34. ASSUME RecoverInstances PROVE TodoInv'
    BY <1>0, <1>34, CallerTypes, NewManaged DEF RecoverInstances, InstanceState
<1>35. ASSUME UNCHANGED vars PROVE TodoInv'
    BY <1>0, <1>35 DEF vars
<1> QED BY <1>1, <1>2, <1>3, <1>4, <1>5, <1>6, <1>7, <1>8, <1>9, <1>10, <1>11, <1>12, <1>13,
      <1>14, <1>15, <1>16, <1>17, <1>18, <1>19, <1>20, <1>21, <1>22, <1>23, <1>24, <1>25, <1>26,
      <1>27, <1>28, <1>29, <1>30, <1>31, <1>32, <1>33, <1>34, <1>35 DEF Next, CallerCalls,
      CallerStep, LoopStep

LEMMA CloserStep == FleetInv /\ [Next]_vars => CloserInv'
<1> SUFFICES ASSUME FleetInv, [Next]_vars PROVE CloserInv'
    OBVIOUS
<1>0. /\ TypeOK /\ TypeOK' /\ CarryInv /\ Tick.pc = "tick" /\ Tick.targets = {} /\ Tick.remove = {}
      /\ Ready.pc = "ready" /\ instances \subseteq Instances
      /\ mi \in [Instances -> Managed] /\ cloud \in [Instances -> {"none", "running", "gone"}]
      /\ loop.targets \subseteq Instances /\ loop.remove \subseteq Instances
      /\ \A j \in Instances : mi[j] \in Managed /\ mi[j].count \in Nat
      /\ Ready \in Caller /\ caller \in [Callers -> Caller] /\ caller' \in [Callers -> Caller]
      /\ CloserInv
    BY CallerTypes, TypeStep, LoopFields DEF FleetInv, Tick, Ready, TypeOK, Managed
<1> USE DEF TypeOK, CarryInv, CallerPC, LoopPC, loopVars, callerVars, CloserInv, Dropped, Moved
<1>1. ASSUME NEW c \in Callers, CreateSandbox(c) PROVE CloserInv'
  <2>1. /\ Moved(c, "select", None)
        /\ UNCHANGED <<instances, mi, pending, closed, cloud, loopVars>>
    BY <1>0, <1>1, CreateMove DEF CreateSandbox
  <2> QED BY <1>0, <2>1
<1>2. ASSUME NEW c \in Callers, DestroySandbox(c) PROVE CloserInv'
  <2>1. PICK i \in instances :
           Moved(c, "destroyRPC", i) /\ mi' = [mi EXCEPT ![i] = ReleaseSession(@)]
    BY <1>0, <1>2, DestroyMove
  <2>2. i \in Instances
    BY <1>0
  <2> QED BY <1>0, <1>2, <2>1, <2>2, ReleaseManaged DEF DestroySandbox
<1>3. ASSUME NEW c \in Callers, Close(c) PROVE CloserInv'
    BY <1>0, <1>3, CloseMove DEF Close
<1>4. ASSUME NEW c \in Callers, SelectAndClaim(c) PROVE CloserInv'
    BY <1>0, <1>4, GotoMove, SelectMove DEF SelectAndClaim
<1>5. ASSUME NEW c \in Callers, Claim(c) PROVE CloserInv'
    BY <1>0, <1>5, GotoMove, RetryMove, ClaimManaged DEF Claim, CanClaim, Routable
<1>6. ASSUME NEW c \in Callers, CreateRPC(c) PROVE CloserInv'
    BY <1>0, <1>6, GotoMove, ReturnMove DEF CreateRPC
<1>7. ASSUME NEW c \in Callers, Rollback(c) PROVE CloserInv'
    BY <1>0, <1>7, ReturnMove, ReleaseManaged DEF Rollback
<1>8. ASSUME NEW c \in Callers, ProvisionInstance(c) PROVE CloserInv'
    BY <1>0, <1>8, GotoMove, ReturnMove DEF ProvisionInstance
<1>9. ASSUME NEW c \in Callers, ProvisionSlot(c) PROVE CloserInv'
    BY <1>0, <1>9, GotoMove, ReturnMove DEF ProvisionSlot
<1>10. ASSUME NEW c \in Callers, LaunchInstance(c) PROVE CloserInv'
    BY <1>0, <1>10, ReturnMove, LaunchMove DEF LaunchInstance
<1>11. ASSUME NEW c \in Callers, RegisterInstance(c) PROVE CloserInv'
    BY <1>0, <1>11, ReturnMove, RetryMove, NewManaged DEF RegisterInv, RegisterInstance, InstanceState
<1>12. ASSUME NEW c \in Callers, DestroyRPC(c) PROVE CloserInv'
    BY <1>0, <1>12, GotoMove, ReturnMove DEF DestroyRPC
<1>13. ASSUME NEW c \in Callers, Reclaim(c) PROVE CloserInv'
    BY <1>0, <1>13, ReturnMove, ClaimManaged DEF Reclaim, CanClaim, Routable
<1>14. ASSUME NEW c \in Callers, CloseWait(c) PROVE CloserInv'
    BY <1>0, <1>14, ReturnMove, CloseWaitMove DEF CloseWait
<1>15. ASSUME NEW c \in Callers, CloseEach(c) PROVE CloserInv'
    BY <1>0, <1>15, ReturnMove, CloseEachMove DEF CloseEach
<1>16. ASSUME RunIteration PROVE CloserInv'
    BY <1>0, <1>16, PhaseLoop DEF RunIteration
<1>17. ASSUME HealthCheck PROVE CloserInv'
    BY <1>0, <1>17, HealthCheckMoves
<1>18. ASSUME HealthApply PROVE CloserInv'
    BY <1>0, <1>18, HealthApplyMoves
<1>19. ASSUME HandleUnhealthy PROVE CloserInv'
    BY <1>0, <1>19, HandleUnhealthyMoves DEF Routable
<1>20. ASSUME ScaleUp PROVE CloserInv'
    BY <1>0, <1>20, PhaseLoop DEF ScaleUp
<1>21. ASSUME WarmSlot PROVE CloserInv'
    BY <1>0, <1>21, PhaseLoop DEF WarmSlot
<1>22. ASSUME WarmLaunch PROVE CloserInv'
    BY <1>0, <1>22, WarmLaunchMoves
<1>23. ASSUME WarmRegister PROVE CloserInv'
    BY <1>0, <1>23, PhaseLoop, NewManaged DEF RegisterInv, WarmRegister, InstanceState
<1>24. ASSUME ScaleDown PROVE CloserInv'
    BY <1>0, <1>24, ScaleDownMoves
<1>25. ASSUME ScaleDownEach PROVE CloserInv'
    BY <1>0, <1>25, ScaleDownEachMoves
<1>26. ASSUME NEW i \in Instances, DrainExpired(i) PROVE CloserInv'
    BY <1>0, <1>26, DrainMoves
<1>27. ASSUME NEW i \in Instances, DrainLook(i) PROVE CloserInv'
    BY <1>0, <1>27, DrainMoves
<1>28. ASSUME TerminateFails PROVE CloserInv'
    BY <1>0, <1>28, TerminateMoves
<1>29. ASSUME TerminateSucceeds PROVE CloserInv'
    BY <1>0, <1>29, TerminateMoves
<1>30. ASSUME DrainDone PROVE CloserInv'
    BY <1>0, <1>30, PhaseLoop DEF DrainDone
<1>31. ASSUME NEW i \in Instances, ProvisionLook(i) PROVE CloserInv'
    BY <1>0, <1>31, ProvisionMoves
<1>32. ASSUME NEW i \in Instances, ProvisionExpired(i) PROVE CloserInv'
    BY <1>0, <1>32, ProvisionMoves
<1>33. ASSUME ProvisionDone PROVE CloserInv'
    BY <1>0, <1>33, PhaseLoop DEF ProvisionDone
<1>34. ASSUME RecoverInstances PROVE CloserInv'
    BY <1>0, <1>34, CallerTypes, NewManaged DEF RecoverInstances, InstanceState
<1>35. ASSUME UNCHANGED vars PROVE CloserInv'
    BY <1>0, <1>35 DEF vars
<1> QED BY <1>1, <1>2, <1>3, <1>4, <1>5, <1>6, <1>7, <1>8, <1>9, <1>10, <1>11, <1>12, <1>13,
      <1>14, <1>15, <1>16, <1>17, <1>18, <1>19, <1>20, <1>21, <1>22, <1>23, <1>24, <1>25, <1>26,
      <1>27, <1>28, <1>29, <1>30, <1>31, <1>32, <1>33, <1>34, <1>35 DEF Next, CallerCalls,
      CallerStep, LoopStep

LEMMA RemoveStep == FleetInv /\ [Next]_vars => RemoveInv'
<1> SUFFICES ASSUME FleetInv, [Next]_vars PROVE RemoveInv'
    OBVIOUS
<1>0. /\ TypeOK /\ TypeOK' /\ CarryInv /\ Tick.pc = "tick" /\ Tick.targets = {} /\ Tick.remove = {}
      /\ Ready.pc = "ready" /\ instances \subseteq Instances
      /\ mi \in [Instances -> Managed] /\ cloud \in [Instances -> {"none", "running", "gone"}]
      /\ loop.targets \subseteq Instances /\ loop.remove \subseteq Instances
      /\ \A j \in Instances : mi[j] \in Managed /\ mi[j].count \in Nat
      /\ Ready \in Caller /\ caller \in [Callers -> Caller] /\ caller' \in [Callers -> Caller]
      /\ TargetInv /\ CurrentInv /\ RemoveInv
    BY CallerTypes, TypeStep, LoopFields DEF FleetInv, Tick, Ready, TypeOK, Managed
<1> USE DEF TypeOK, CarryInv, CallerPC, LoopPC, loopVars, callerVars, RemoveInv, TargetInv, CurrentInv, Only, Dropped, Moved
<1>1. ASSUME NEW c \in Callers, CreateSandbox(c) PROVE RemoveInv'
  <2>1. /\ Moved(c, "select", None)
        /\ UNCHANGED <<instances, mi, pending, closed, cloud, loopVars>>
    BY <1>0, <1>1, CreateMove DEF CreateSandbox
  <2> QED BY <1>0, <2>1
<1>2. ASSUME NEW c \in Callers, DestroySandbox(c) PROVE RemoveInv'
  <2>1. PICK i \in instances :
           Moved(c, "destroyRPC", i) /\ mi' = [mi EXCEPT ![i] = ReleaseSession(@)]
    BY <1>0, <1>2, DestroyMove
  <2>2. i \in Instances
    BY <1>0
  <2> QED BY <1>0, <1>2, <2>1, <2>2, ReleaseManaged DEF DestroySandbox
<1>3. ASSUME NEW c \in Callers, Close(c) PROVE RemoveInv'
    BY <1>0, <1>3, CloseMove DEF Close
<1>4. ASSUME NEW c \in Callers, SelectAndClaim(c) PROVE RemoveInv'
    BY <1>0, <1>4, GotoMove, SelectMove DEF SelectAndClaim
<1>5. ASSUME NEW c \in Callers, Claim(c) PROVE RemoveInv'
    BY <1>0, <1>5, GotoMove, RetryMove, ClaimManaged DEF Claim, CanClaim, Routable
<1>6. ASSUME NEW c \in Callers, CreateRPC(c) PROVE RemoveInv'
    BY <1>0, <1>6, GotoMove, ReturnMove DEF CreateRPC
<1>7. ASSUME NEW c \in Callers, Rollback(c) PROVE RemoveInv'
    BY <1>0, <1>7, ReturnMove, ReleaseManaged DEF Rollback
<1>8. ASSUME NEW c \in Callers, ProvisionInstance(c) PROVE RemoveInv'
    BY <1>0, <1>8, GotoMove, ReturnMove DEF ProvisionInstance
<1>9. ASSUME NEW c \in Callers, ProvisionSlot(c) PROVE RemoveInv'
    BY <1>0, <1>9, GotoMove, ReturnMove DEF ProvisionSlot
<1>10. ASSUME NEW c \in Callers, LaunchInstance(c) PROVE RemoveInv'
    BY <1>0, <1>10, ReturnMove, LaunchMove DEF LaunchInstance
<1>11. ASSUME NEW c \in Callers, RegisterInstance(c) PROVE RemoveInv'
    BY <1>0, <1>11, ReturnMove, RetryMove, NewManaged DEF RegisterInstance, InstanceState
<1>12. ASSUME NEW c \in Callers, DestroyRPC(c) PROVE RemoveInv'
    BY <1>0, <1>12, GotoMove, ReturnMove DEF DestroyRPC
<1>13. ASSUME NEW c \in Callers, Reclaim(c) PROVE RemoveInv'
    BY <1>0, <1>13, ReturnMove, ClaimManaged DEF Reclaim, CanClaim, Routable
<1>14. ASSUME NEW c \in Callers, CloseWait(c) PROVE RemoveInv'
    BY <1>0, <1>14, ReturnMove, CloseWaitMove DEF CloseWait
<1>15. ASSUME NEW c \in Callers, CloseEach(c) PROVE RemoveInv'
    BY <1>0, <1>15, ReturnMove, CloseEachMove DEF CloseEach
<1>16. ASSUME RunIteration PROVE RemoveInv'
    BY <1>0, <1>16, PhaseLoop DEF RunIteration
<1>17. ASSUME HealthCheck PROVE RemoveInv'
    BY <1>0, <1>17, HealthCheckMoves
<1>18. ASSUME HealthApply PROVE RemoveInv'
    BY <1>0, <1>18, HealthApplyMoves
<1>19. ASSUME HandleUnhealthy PROVE RemoveInv'
    BY <1>0, <1>19, HandleUnhealthyMoves DEF Routable
<1>20. ASSUME ScaleUp PROVE RemoveInv'
    BY <1>0, <1>20, PhaseLoop DEF ScaleUp
<1>21. ASSUME WarmSlot PROVE RemoveInv'
    BY <1>0, <1>21, PhaseLoop DEF WarmSlot
<1>22. ASSUME WarmLaunch PROVE RemoveInv'
    BY <1>0, <1>22, WarmLaunchMoves
<1>23. ASSUME WarmRegister PROVE RemoveInv'
    BY <1>0, <1>23, PhaseLoop, NewManaged DEF WarmRegister, InstanceState
<1>24. ASSUME ScaleDown PROVE RemoveInv'
    BY <1>0, <1>24, ScaleDownMoves
<1>25. ASSUME ScaleDownEach PROVE RemoveInv'
    BY <1>0, <1>25, ScaleDownEachMoves
<1>26. ASSUME NEW i \in Instances, DrainExpired(i) PROVE RemoveInv'
    BY <1>0, <1>26, DrainMoves
<1>27. ASSUME NEW i \in Instances, DrainLook(i) PROVE RemoveInv'
    BY <1>0, <1>27, DrainMoves
<1>28. ASSUME TerminateFails PROVE RemoveInv'
    BY <1>0, <1>28, TerminateMoves
<1>29. ASSUME TerminateSucceeds PROVE RemoveInv'
    BY <1>0, <1>29, TerminateMoves
<1>30. ASSUME DrainDone PROVE RemoveInv'
    BY <1>0, <1>30, PhaseLoop DEF DrainDone
<1>31. ASSUME NEW i \in Instances, ProvisionLook(i) PROVE RemoveInv'
    BY <1>0, <1>31, ProvisionMoves
<1>32. ASSUME NEW i \in Instances, ProvisionExpired(i) PROVE RemoveInv'
    BY <1>0, <1>32, ProvisionMoves
<1>33. ASSUME ProvisionDone PROVE RemoveInv'
    BY <1>0, <1>33, PhaseLoop DEF ProvisionDone
<1>34. ASSUME RecoverInstances PROVE RemoveInv'
    BY <1>0, <1>34, CallerTypes, NewManaged DEF RecoverInstances, InstanceState
<1>35. ASSUME UNCHANGED vars PROVE RemoveInv'
    BY <1>0, <1>35 DEF vars
<1> QED BY <1>1, <1>2, <1>3, <1>4, <1>5, <1>6, <1>7, <1>8, <1>9, <1>10, <1>11, <1>12, <1>13,
      <1>14, <1>15, <1>16, <1>17, <1>18, <1>19, <1>20, <1>21, <1>22, <1>23, <1>24, <1>25, <1>26,
      <1>27, <1>28, <1>29, <1>30, <1>31, <1>32, <1>33, <1>34, <1>35 DEF Next, CallerCalls,
      CallerStep, LoopStep

LEMMA CountStep == FleetInv /\ [Next]_vars => CountInv'
<1> SUFFICES ASSUME FleetInv, [Next]_vars PROVE CountInv'
    OBVIOUS
<1>0. /\ TypeOK /\ TypeOK' /\ CarryInv /\ Tick.pc = "tick" /\ Tick.targets = {} /\ Tick.remove = {}
      /\ Ready.pc = "ready" /\ instances \subseteq Instances
      /\ mi \in [Instances -> Managed] /\ cloud \in [Instances -> {"none", "running", "gone"}]
      /\ loop.targets \subseteq Instances /\ loop.remove \subseteq Instances
      /\ \A j \in Instances : mi[j] \in Managed /\ mi[j].count \in Nat
      /\ Ready \in Caller /\ caller \in [Callers -> Caller] /\ caller' \in [Callers -> Caller]
      /\ RegisterInv /\ TodoInv /\ TargetInv /\ CurrentInv /\ CloserInv /\ RemoveInv /\ CountInv
    BY CallerTypes, TypeStep, LoopFields DEF FleetInv, Tick, Ready, TypeOK, Managed
<1> USE DEF TypeOK, CarryInv, CallerPC, LoopPC, loopVars, callerVars, CountInv, TargetInv, CurrentInv, RemoveInv, GracefulDrainIsEmpty, Only, Dropped, Moved
<1>1. ASSUME NEW c \in Callers, CreateSandbox(c) PROVE CountInv'
  <2>1. /\ Moved(c, "select", None)
        /\ UNCHANGED <<instances, mi, pending, closed, cloud, loopVars>>
    BY <1>0, <1>1, CreateMove DEF CreateSandbox
  <2> QED BY <1>0, <2>1
<1>2. ASSUME NEW c \in Callers, DestroySandbox(c) PROVE CountInv'
  <2>1. PICK i \in instances :
           Moved(c, "destroyRPC", i) /\ mi' = [mi EXCEPT ![i] = ReleaseSession(@)]
    BY <1>0, <1>2, DestroyMove
  <2>2. /\ mi[i] \in Managed /\ ReleaseSession(mi[i]) = mi'[i] /\ Only(i) /\ i \in Instances
        /\ mi'[i].count \in Nat /\ mi[i].count \in Nat
    BY <1>0, <1>2, <2>1 DEF Managed
  <2>3. /\ mi'[i].count <= mi[i].count
        /\ mi'[i].state = mi[i].state \/ (mi[i].state = "active" /\ mi'[i].state = "ready")
    BY ONLY <2>2, ReleaseManaged
  <2>4. UNCHANGED <<instances, loop>>
    BY <1>2 DEF DestroySandbox
  <2>5. (\A j \in Instances : mi[j].state = "provisioning" => mi[j].count = 0)'
    BY <1>0, <2>2, <2>3
  <2>6. (\A j \in instances : mi[j].state = "terminating" /\ mi[j].count > 0 =>
                                 j \in loop.remove \/ loop.pc = "stopped")'
    BY <1>0, <2>2, <2>3, <2>4
  <2>7. GracefulDrainIsEmpty'
    BY <1>0, <2>2, <2>3, <2>4
  <2> QED BY <2>5, <2>6, <2>7
<1>3. ASSUME NEW c \in Callers, Close(c) PROVE CountInv'
    BY <1>0, <1>3, CloseMove DEF Close
<1>4. ASSUME NEW c \in Callers, SelectAndClaim(c) PROVE CountInv'
    BY <1>0, <1>4, GotoMove, SelectMove DEF SelectAndClaim
<1>5. ASSUME NEW c \in Callers, Claim(c) PROVE CountInv'
    BY <1>0, <1>5, GotoMove, RetryMove, ClaimManaged DEF Claim, CanClaim, Routable
<1>6. ASSUME NEW c \in Callers, CreateRPC(c) PROVE CountInv'
    BY <1>0, <1>6, GotoMove, ReturnMove DEF CreateRPC
<1>7. ASSUME NEW c \in Callers, Rollback(c) PROVE CountInv'
  <2> DEFINE i == caller[c].inst
  <2>1. i \in Instances /\ mi' = [mi EXCEPT ![i] = ReleaseSession(@)]
    BY <1>0, <1>7 DEF Rollback
  <2>2. /\ mi[i] \in Managed /\ ReleaseSession(mi[i]) = mi'[i] /\ Only(i) /\ i \in Instances
        /\ mi'[i].count \in Nat /\ mi[i].count \in Nat
    BY <1>0, <1>7, <2>1 DEF Managed
  <2>3. /\ mi'[i].count <= mi[i].count
        /\ mi'[i].state = mi[i].state \/ (mi[i].state = "active" /\ mi'[i].state = "ready")
    BY ONLY <2>2, ReleaseManaged
  <2>4. UNCHANGED <<instances, loop>>
    BY <1>7 DEF Rollback
  <2>5. (\A j \in Instances : mi[j].state = "provisioning" => mi[j].count = 0)'
    BY <1>0, <2>2, <2>3
  <2>6. (\A j \in instances : mi[j].state = "terminating" /\ mi[j].count > 0 =>
                                 j \in loop.remove \/ loop.pc = "stopped")'
    BY <1>0, <2>2, <2>3, <2>4
  <2>7. GracefulDrainIsEmpty'
    BY <1>0, <2>2, <2>3, <2>4
  <2> QED BY <2>5, <2>6, <2>7
<1>8. ASSUME NEW c \in Callers, ProvisionInstance(c) PROVE CountInv'
    BY <1>0, <1>8, GotoMove, ReturnMove DEF ProvisionInstance
<1>9. ASSUME NEW c \in Callers, ProvisionSlot(c) PROVE CountInv'
    BY <1>0, <1>9, GotoMove, ReturnMove DEF ProvisionSlot
<1>10. ASSUME NEW c \in Callers, LaunchInstance(c) PROVE CountInv'
    BY <1>0, <1>10, ReturnMove, LaunchMove DEF LaunchInstance
<1>11. ASSUME NEW c \in Callers, RegisterInstance(c) PROVE CountInv'
    BY <1>0, <1>11, ReturnMove, RetryMove, NewManaged DEF RegisterInv, RegisterInstance, InstanceState
<1>12. ASSUME NEW c \in Callers, DestroyRPC(c) PROVE CountInv'
    BY <1>0, <1>12, GotoMove, ReturnMove DEF DestroyRPC
<1>13. ASSUME NEW c \in Callers, Reclaim(c) PROVE CountInv'
    BY <1>0, <1>13, ReturnMove, ClaimManaged DEF Reclaim, CanClaim, Routable
<1>14. ASSUME NEW c \in Callers, CloseWait(c) PROVE CountInv'
    BY <1>0, <1>14, ReturnMove, CloseWaitMove DEF CloseWait
<1>15. ASSUME NEW c \in Callers, CloseEach(c) PROVE CountInv'
  <2>1. CASE instances' = {} /\ Moved(c, "ready", None) /\ UNCHANGED mi
    BY <1>0, <1>15, <2>1, CloseEachMove DEF CloseEach, CloserInv
  <2>2. ASSUME NEW i \in Instances, Only(i), mi'[i].count = mi[i].count,
               mi'[i].state = "terminating", Moved(c, "closeEach", caller[c].inst),
               UNCHANGED instances, i \in caller[c].todo
        PROVE  CountInv'
    <3>1. loop.pc = "stopped" /\ UNCHANGED loop
      BY <1>0, <1>15, <2>2 DEF CloseEach, CloserInv
    <3>3. cloud[i] # "none" /\ \A d \in Callers : caller[d].pc = "register" => caller[d].inst # i
      BY <1>0, <1>15, <2>2 DEF CloseEach, TodoInv
    <3>2. \A j \in Instances : cloud'[j] = cloud[j] \/ cloud'[j] = "gone"
      BY <1>0, <1>15, CloseEachMove
    <3> QED BY <1>0, <1>15, <2>2, <3>1, <3>2, <3>3 DEF CloseEach, CloserInv
  <2> QED BY <1>0, <1>15, <2>1, <2>2, CloseEachMove
<1>16. ASSUME RunIteration PROVE CountInv'
    BY <1>0, <1>16, PhaseLoop DEF RunIteration
<1>17. ASSUME HealthCheck PROVE CountInv'
    BY <1>0, <1>17, HealthCheckMoves
<1>18. ASSUME HealthApply PROVE CountInv'
    BY <1>0, <1>18, HealthApplyMoves
<1>19. ASSUME HandleUnhealthy PROVE CountInv'
    BY <1>0, <1>19, HandleUnhealthyMoves DEF Routable
<1>20. ASSUME ScaleUp PROVE CountInv'
    BY <1>0, <1>20, PhaseLoop DEF ScaleUp
<1>21. ASSUME WarmSlot PROVE CountInv'
    BY <1>0, <1>21, PhaseLoop DEF WarmSlot
<1>22. ASSUME WarmLaunch PROVE CountInv'
    BY <1>0, <1>22, WarmLaunchMoves
<1>23. ASSUME WarmRegister PROVE CountInv'
    BY <1>0, <1>23, PhaseLoop, NewManaged DEF RegisterInv, WarmRegister, InstanceState
<1>24. ASSUME ScaleDown PROVE CountInv'
    BY <1>0, <1>24, ScaleDownMoves
<1>25. ASSUME ScaleDownEach PROVE CountInv'
    BY <1>0, <1>25, ScaleDownEachMoves
<1>26. ASSUME NEW i \in Instances, DrainExpired(i) PROVE CountInv'
  <2>1. ~loop'.forced /\ loop'.pc = "terminate" => mi[i].state = "terminating" \/ mi[i].count = 0
    BY <1>0, <1>26, DrainForced
  <2>2. /\ loop.pc = "drain" /\ i \in loop.targets /\ UNCHANGED <<instances, mi>>
        /\ loop'.pc = "terminate" => loop'.cur = i
        /\ loop'.remove = loop.remove /\ loop'.pc # "stopped" /\ loop.pc # "stopped"
    BY <1>0, <1>26, DrainMoves
  <2>3. GracefulDrainIsEmpty'
    BY <1>0, <2>1, <2>2
  <2>4. (\A j \in instances : mi[j].state = "terminating" /\ mi[j].count > 0 =>
                                 j \in loop.remove \/ loop.pc = "stopped")'
    BY <1>0, <2>2
  <2> QED BY <1>0, <2>2, <2>3, <2>4
<1>27. ASSUME NEW i \in Instances, DrainLook(i) PROVE CountInv'
  <2>1. ~loop'.forced /\ loop'.pc = "terminate" => mi[i].state = "terminating" \/ mi[i].count = 0
    BY <1>0, <1>27, DrainForced
  <2>2. /\ loop.pc = "drain" /\ i \in loop.targets /\ UNCHANGED <<instances, mi>>
        /\ loop'.pc = "terminate" => loop'.cur = i
        /\ loop'.remove = loop.remove /\ loop'.pc # "stopped" /\ loop.pc # "stopped"
    BY <1>0, <1>27, DrainMoves
  <2>3. GracefulDrainIsEmpty'
    BY <1>0, <2>1, <2>2
  <2>4. (\A j \in instances : mi[j].state = "terminating" /\ mi[j].count > 0 =>
                                 j \in loop.remove \/ loop.pc = "stopped")'
    BY <1>0, <2>2
  <2> QED BY <1>0, <2>2, <2>3, <2>4
<1>28. ASSUME TerminateFails PROVE CountInv'
    BY <1>0, <1>28, TerminateMoves
<1>29. ASSUME TerminateSucceeds PROVE CountInv'
    BY <1>0, <1>29, TerminateMoves
<1>30. ASSUME DrainDone PROVE CountInv'
    BY <1>0, <1>30, PhaseLoop DEF DrainDone
<1>31. ASSUME NEW i \in Instances, ProvisionLook(i) PROVE CountInv'
    BY <1>0, <1>31, ProvisionMoves
<1>32. ASSUME NEW i \in Instances, ProvisionExpired(i) PROVE CountInv'
    BY <1>0, <1>32, ProvisionMoves
<1>33. ASSUME ProvisionDone PROVE CountInv'
    BY <1>0, <1>33, PhaseLoop DEF ProvisionDone
<1>34. ASSUME RecoverInstances PROVE CountInv'
    BY <1>0, <1>34, CallerTypes, NewManaged DEF RecoverInstances, InstanceState
<1>35. ASSUME UNCHANGED vars PROVE CountInv'
    BY <1>0, <1>35 DEF vars
<1> QED BY <1>1, <1>2, <1>3, <1>4, <1>5, <1>6, <1>7, <1>8, <1>9, <1>10, <1>11, <1>12, <1>13,
      <1>14, <1>15, <1>16, <1>17, <1>18, <1>19, <1>20, <1>21, <1>22, <1>23, <1>24, <1>25, <1>26,
      <1>27, <1>28, <1>29, <1>30, <1>31, <1>32, <1>33, <1>34, <1>35 DEF Next, CallerCalls,
      CallerStep, LoopStep

-----------------------------------------------------------------------------
(* Launch slots *)

Slot(pc) == IF pc \in {"launch", "register"} THEN 1 ELSE 0

\* A caller that takes a slot, gives one back, or does neither.
LEMMA CallerSlots ==
    ASSUME TypeOK, LaunchSlots, NEW c \in Callers, NEW pc, NEW i, Moved(c, pc, i), UNCHANGED loop,
           pending' = pending + Slot(pc) - Slot(caller[c].pc),
           pending' <= MaxConcurrentProvisions
    PROVE  LaunchSlots'
<1> DEFINE P == {"launch", "register"}
<1>0. /\ pending \in Nat /\ LaunchSlots /\ UNCHANGED loop
      /\ pending' = pending + Slot(pc) - Slot(caller[c].pc) /\ pending' <= MaxConcurrentProvisions
    BY DEF TypeOK
<1>1. IsFiniteSet(Launching)
    BY FleetAssumption, FS_Subset DEF Launching
<1>2. Cardinality(Launching) \in Nat
    BY <1>1, FS_CardinalityType
<1>3. c \in Launching <=> caller[c].pc \in P
    BY DEF Launching
<1>4. pc \in P => Launching' = Launching \cup {c}
    BY DEF Launching, Moved
<1>5. pc \notin P => Launching' = Launching \ {c}
    BY DEF Launching, Moved
<1>6. CASE c \in Launching
  <2>a. Launching \cup {c} = Launching
    BY <1>6
  <2>1. /\ Cardinality(Launching \cup {c}) = Cardinality(Launching)
        /\ Cardinality(Launching \ {c}) = Cardinality(Launching) - 1
    BY <2>a, <1>1, <1>6, FS_RemoveElement
  <2>2. Slot(caller[c].pc) = 1
    BY <1>3, <1>6 DEF Slot
  <2>3. CASE pc \in P
    <3>1. Slot(pc) = 1 /\ Cardinality(Launching') = Cardinality(Launching \cup {c})
      BY <1>4, <2>3 DEF Slot
    <3> QED BY ONLY <1>0, <1>2, <2>1, <2>2, <3>1 DEF LaunchSlots
  <2>4. CASE pc \notin P
    <3>1. Slot(pc) = 0 /\ Cardinality(Launching') = Cardinality(Launching \ {c})
      BY <1>5, <2>4 DEF Slot
    <3> QED BY ONLY <1>0, <1>2, <2>1, <2>2, <3>1 DEF LaunchSlots
  <2> QED BY <2>3, <2>4
<1>7. CASE c \notin Launching
  <2>a. Launching \ {c} = Launching
    BY <1>7
  <2>1. /\ Cardinality(Launching \ {c}) = Cardinality(Launching)
        /\ Cardinality(Launching \cup {c}) = Cardinality(Launching) + 1
    BY <2>a, <1>1, <1>7, FS_AddElement
  <2>2. Slot(caller[c].pc) = 0
    BY <1>3, <1>7 DEF Slot
  <2>3. CASE pc \in P
    <3>1. Slot(pc) = 1 /\ Cardinality(Launching') = Cardinality(Launching \cup {c})
      BY <1>4, <2>3 DEF Slot
    <3> QED BY ONLY <1>0, <1>2, <2>1, <2>2, <3>1 DEF LaunchSlots
  <2>4. CASE pc \notin P
    <3>1. Slot(pc) = 0 /\ Cardinality(Launching') = Cardinality(Launching \ {c})
      BY <1>5, <2>4 DEF Slot
    <3> QED BY ONLY <1>0, <1>2, <2>1, <2>2, <3>1 DEF LaunchSlots
  <2> QED BY <2>3, <2>4
<1> QED BY <1>6, <1>7

\* A caller whose step has nothing to do with launches.
LEMMA CallerKeeps ==
    ASSUME TypeOK, LaunchSlots, NEW c \in Callers, NEW pc, NEW i, Moved(c, pc, i),
           UNCHANGED <<loop, pending>>, Slot(pc) = Slot(caller[c].pc)
    PROVE  LaunchSlots'
<1>1. Slot(pc) \in Int
    BY DEF Slot
<1>2. pending' = pending + Slot(pc) - Slot(caller[c].pc)
    BY <1>1 DEF TypeOK
<1> QED BY <1>2, CallerSlots DEF LaunchSlots

\* The same for the warm pool.
LEMMA LoopSlots ==
    ASSUME TypeOK, LaunchSlots, UNCHANGED caller,
           pending' = pending + Slot(loop'.pc) - Slot(loop.pc),
           pending' <= MaxConcurrentProvisions
    PROVE  LaunchSlots'
<1>1. IsFiniteSet(Launching)
    BY FleetAssumption, FS_Subset DEF Launching
<1>2. Cardinality(Launching) \in Nat
    BY <1>1, FS_CardinalityType
<1>3. Launching' = Launching
    BY DEF Launching
<1> QED BY <1>2, <1>3 DEF LaunchSlots, Slot, TypeOK

LEMMA LoopKeeps ==
    ASSUME TypeOK, LaunchSlots, UNCHANGED <<caller, pending>>, Slot(loop'.pc) = Slot(loop.pc)
    PROVE  LaunchSlots'
<1>1. Slot(loop.pc) \in Int
    BY DEF Slot
<1>2. pending' = pending + Slot(loop'.pc) - Slot(loop.pc)
    BY <1>1 DEF TypeOK
<1> QED BY <1>2, LoopSlots DEF LaunchSlots

LEMMA SlotsStep == FleetInv /\ [Next]_vars => LaunchSlots'
<1> SUFFICES ASSUME FleetInv, [Next]_vars PROVE LaunchSlots'
    OBVIOUS
<1>0. /\ TypeOK /\ TypeOK' /\ CarryInv /\ LaunchSlots /\ pending \in Nat /\ pending' \in Nat
      /\ MaxConcurrentProvisions \in Nat /\ pending <= MaxConcurrentProvisions
      /\ instances \subseteq Instances
    BY TypeStep, Thresholds DEF FleetInv, TypeOK, LaunchSlots
<1> USE DEF Slot
<1>1. ASSUME NEW c \in Callers, CreateSandbox(c) PROVE LaunchSlots'
  <2>1. Moved(c, "select", None) /\ caller[c].pc = "ready"
    BY <1>0, <1>1, CreateMove DEF CreateSandbox, NewCall
  <2>2. UNCHANGED <<loop, pending>>
    BY <1>1 DEF CreateSandbox, loopVars
  <2> QED BY <1>0, <2>1, <2>2, CallerKeeps
<1>2. ASSUME NEW c \in Callers, DestroySandbox(c) PROVE LaunchSlots'
  <2>1. PICK i \in instances : Moved(c, "destroyRPC", i)
    BY <1>0, <1>2, DestroyMove
  <2>2. UNCHANGED <<loop, pending>> /\ caller[c].pc = "ready"
    BY <1>2 DEF DestroySandbox, NewCall, loopVars
  <2> QED BY <1>0, <2>1, <2>2, CallerKeeps
<1>3. ASSUME NEW c \in Callers, Close(c) PROVE LaunchSlots'
  <2>1. Moved(c, "closeWait", None) /\ caller[c].pc = "ready"
    BY <1>0, <1>3, CloseMove DEF Close, NewCall
  <2>2. UNCHANGED <<loop, pending>>
    BY <1>3 DEF Close, loopVars
  <2> QED BY <1>0, <2>1, <2>2, CallerKeeps
<1>4. ASSUME NEW c \in Callers, SelectAndClaim(c) PROVE LaunchSlots'
  <2>1. \E pc, j : Moved(c, pc, j) /\ Slot(pc) = Slot(caller[c].pc)
    BY <1>0, <1>4, GotoMove, SelectMove DEF SelectAndClaim, NewCall, CallerPC
  <2>2. UNCHANGED <<loop, pending>>
    BY <1>4 DEF SelectAndClaim, loopVars
  <2> QED BY <1>0, <2>1, <2>2, CallerKeeps
<1>5. ASSUME NEW c \in Callers, Claim(c) PROVE LaunchSlots'
  <2>1. \E pc, j : Moved(c, pc, j) /\ Slot(pc) = Slot(caller[c].pc)
    BY <1>0, <1>5, GotoMove, RetryMove DEF Claim, NewCall, CallerPC
  <2>2. UNCHANGED <<loop, pending>>
    BY <1>5 DEF Claim, loopVars
  <2> QED BY <1>0, <2>1, <2>2, CallerKeeps
<1>6. ASSUME NEW c \in Callers, CreateRPC(c) PROVE LaunchSlots'
  <2>1. \E pc, j : Moved(c, pc, j) /\ Slot(pc) = Slot(caller[c].pc)
    BY <1>0, <1>6, GotoMove, ReturnMove DEF CreateRPC, NewCall, CallerPC
  <2>2. UNCHANGED <<loop, pending>>
    BY <1>6 DEF CreateRPC, loopVars
  <2> QED BY <1>0, <2>1, <2>2, CallerKeeps
<1>7. ASSUME NEW c \in Callers, Rollback(c) PROVE LaunchSlots'
  <2>1. \E pc, j : Moved(c, pc, j) /\ Slot(pc) = Slot(caller[c].pc)
    BY <1>0, <1>7, ReturnMove DEF Rollback, NewCall, CallerPC
  <2>2. UNCHANGED <<loop, pending>>
    BY <1>7 DEF Rollback, loopVars
  <2> QED BY <1>0, <2>1, <2>2, CallerKeeps
<1>8. ASSUME NEW c \in Callers, ProvisionInstance(c) PROVE LaunchSlots'
  <2>1. \E pc, j : Moved(c, pc, j) /\ Slot(pc) = Slot(caller[c].pc)
    BY <1>0, <1>8, GotoMove, ReturnMove DEF ProvisionInstance, NewCall, CallerPC
  <2>2. UNCHANGED <<loop, pending>>
    BY <1>8 DEF ProvisionInstance, loopVars
  <2> QED BY <1>0, <2>1, <2>2, CallerKeeps
<1>9. ASSUME NEW c \in Callers, ProvisionSlot(c) PROVE LaunchSlots'
  <2>1. CASE pending >= MaxConcurrentProvisions
    <3>1. Moved(c, "ready", None) /\ UNCHANGED <<loop, pending>> /\ Slot("ready") = Slot(caller[c].pc)
      BY <1>0, <1>9, <2>1, ReturnMove DEF ProvisionSlot, loopVars
    <3> QED BY <1>0, <3>1, CallerKeeps
  <2>2. CASE ~(pending >= MaxConcurrentProvisions)
    <3>1. /\ Moved(c, "launch", caller[c].inst) /\ UNCHANGED loop
          /\ pending' = pending + Slot("launch") - Slot(caller[c].pc)
      BY <1>0, <1>9, <2>2, GotoMove DEF ProvisionSlot, loopVars, CallerPC
    <3>2. pending' <= MaxConcurrentProvisions
      BY <1>0, <1>9, <2>2 DEF ProvisionSlot
    <3> QED BY <1>0, <3>1, <3>2, CallerSlots
  <2> QED BY <2>1, <2>2
<1>10. ASSUME NEW c \in Callers, LaunchInstance(c) PROVE LaunchSlots'
  <2>1. CASE Moved(c, "ready", None) /\ pending' = pending - 1
    <3>1. /\ UNCHANGED loop /\ pending' <= MaxConcurrentProvisions
          /\ pending' = pending + Slot("ready") - Slot(caller[c].pc)
      BY <1>0, <1>10, <2>1 DEF LaunchInstance, loopVars
    <3> QED BY <1>0, <2>1, <3>1, CallerSlots
  <2>2. ASSUME NEW i \in Instances, Moved(c, "register", i), UNCHANGED pending
        PROVE  LaunchSlots'
    <3>1. UNCHANGED loop /\ Slot("register") = Slot(caller[c].pc)
      BY <1>10 DEF LaunchInstance, loopVars
    <3> QED BY <1>0, <2>2, <3>1, CallerKeeps
  <2> QED BY <1>0, <1>10, <2>1, <2>2, LaunchMove
<1>11. ASSUME NEW c \in Callers, RegisterInstance(c) PROVE LaunchSlots'
  <2>1. Moved(c, "ready", None) \/ Moved(c, "select", None)
    BY <1>0, <1>11, ReturnMove, RetryMove DEF RegisterInstance
  <2>2. /\ UNCHANGED loop /\ pending' <= MaxConcurrentProvisions
        /\ pending' = pending + Slot("ready") - Slot(caller[c].pc)
        /\ pending' = pending + Slot("select") - Slot(caller[c].pc)
    BY <1>0, <1>11 DEF RegisterInstance, loopVars
  <2> QED BY <1>0, <2>1, <2>2, CallerSlots
<1>12. ASSUME NEW c \in Callers, DestroyRPC(c) PROVE LaunchSlots'
  <2>1. \E pc, j : Moved(c, pc, j) /\ Slot(pc) = Slot(caller[c].pc)
    BY <1>0, <1>12, GotoMove, ReturnMove DEF DestroyRPC, NewCall, CallerPC
  <2>2. UNCHANGED <<loop, pending>>
    BY <1>12 DEF DestroyRPC, loopVars
  <2> QED BY <1>0, <2>1, <2>2, CallerKeeps
<1>13. ASSUME NEW c \in Callers, Reclaim(c) PROVE LaunchSlots'
  <2>1. \E pc, j : Moved(c, pc, j) /\ Slot(pc) = Slot(caller[c].pc)
    BY <1>0, <1>13, ReturnMove DEF Reclaim, NewCall, CallerPC
  <2>2. UNCHANGED <<loop, pending>>
    BY <1>13 DEF Reclaim, loopVars
  <2> QED BY <1>0, <2>1, <2>2, CallerKeeps
<1>14. ASSUME NEW c \in Callers, CloseWait(c) PROVE LaunchSlots'
  <2>1. \E pc, j : Moved(c, pc, j) /\ Slot(pc) = Slot(caller[c].pc)
    BY <1>0, <1>14, ReturnMove, CloseWaitMove DEF CloseWait, NewCall, CallerPC
  <2>2. UNCHANGED <<loop, pending>>
    BY <1>14 DEF CloseWait, loopVars
  <2> QED BY <1>0, <2>1, <2>2, CallerKeeps
<1>15. ASSUME NEW c \in Callers, CloseEach(c) PROVE LaunchSlots'
  <2>1. \E pc, j : Moved(c, pc, j) /\ Slot(pc) = Slot(caller[c].pc)
    BY <1>0, <1>15, ReturnMove, CloseEachMove DEF CloseEach, NewCall, CallerPC
  <2>2. UNCHANGED <<loop, pending>>
    BY <1>15 DEF CloseEach, loopVars
  <2> QED BY <1>0, <2>1, <2>2, CallerKeeps
<1>16. ASSUME RunIteration PROVE LaunchSlots'
  <2>1. UNCHANGED <<caller, pending>> /\ Slot(loop'.pc) = Slot(loop.pc)
    BY <1>0, <1>16, PhaseLoop DEF RunIteration, callerVars, LoopPC, Dropped
  <2> QED BY <1>0, <2>1, LoopKeeps
<1>17. ASSUME HealthCheck PROVE LaunchSlots'
  <2>1. UNCHANGED <<caller, pending>> /\ Slot(loop'.pc) = Slot(loop.pc)
    BY <1>0, <1>17, HealthCheckMoves DEF callerVars, LoopPC, Dropped
  <2> QED BY <1>0, <2>1, LoopKeeps
<1>18. ASSUME HealthApply PROVE LaunchSlots'
  <2>1. UNCHANGED <<caller, pending>> /\ Slot(loop'.pc) = Slot(loop.pc)
    BY <1>0, <1>18, HealthApplyMoves DEF callerVars, LoopPC, Dropped
  <2> QED BY <1>0, <2>1, LoopKeeps
<1>19. ASSUME HandleUnhealthy PROVE LaunchSlots'
  <2>1. UNCHANGED <<caller, pending>> /\ Slot(loop'.pc) = Slot(loop.pc)
    BY <1>0, <1>19, HandleUnhealthyMoves DEF Routable, callerVars, LoopPC, Dropped
  <2> QED BY <1>0, <2>1, LoopKeeps
<1>20. ASSUME ScaleUp PROVE LaunchSlots'
  <2>1. UNCHANGED <<caller, pending>> /\ Slot(loop'.pc) = Slot(loop.pc)
    BY <1>0, <1>20, PhaseLoop DEF ScaleUp, callerVars, LoopPC, Dropped
  <2> QED BY <1>0, <2>1, LoopKeeps
<1>21. ASSUME WarmSlot PROVE LaunchSlots'
  <2>1. CASE pending >= MaxConcurrentProvisions
    <3>1. UNCHANGED <<caller, pending>> /\ Slot(loop'.pc) = Slot(loop.pc)
      BY <1>0, <1>21, <2>1, PhaseLoop DEF WarmSlot, callerVars, LoopPC
    <3> QED BY <1>0, <3>1, LoopKeeps
  <2>2. CASE ~(pending >= MaxConcurrentProvisions)
    <3>1. /\ UNCHANGED caller /\ pending' <= MaxConcurrentProvisions
          /\ pending' = pending + Slot(loop'.pc) - Slot(loop.pc)
      BY <1>0, <1>21, <2>2, PhaseLoop DEF WarmSlot, callerVars, LoopPC
    <3> QED BY <1>0, <3>1, LoopSlots
  <2> QED BY <2>1, <2>2
<1>22. ASSUME WarmLaunch PROVE LaunchSlots'
  <2>1. /\ UNCHANGED caller /\ pending' <= MaxConcurrentProvisions
        /\ pending' = pending + Slot(loop'.pc) - Slot(loop.pc)
    BY <1>0, <1>22, WarmLaunchMoves DEF callerVars
  <2> QED BY <1>0, <2>1, LoopSlots
<1>23. ASSUME WarmRegister PROVE LaunchSlots'
  <2>1. /\ UNCHANGED caller /\ pending' <= MaxConcurrentProvisions
        /\ pending' = pending + Slot(loop'.pc) - Slot(loop.pc)
    BY <1>0, <1>23, PhaseLoop DEF WarmRegister, callerVars, LoopPC
  <2> QED BY <1>0, <2>1, LoopSlots
<1>24. ASSUME ScaleDown PROVE LaunchSlots'
  <2>1. UNCHANGED <<caller, pending>> /\ Slot(loop'.pc) = Slot(loop.pc)
    BY <1>0, <1>24, ScaleDownMoves DEF callerVars, LoopPC, Dropped
  <2> QED BY <1>0, <2>1, LoopKeeps
<1>25. ASSUME ScaleDownEach PROVE LaunchSlots'
  <2>1. UNCHANGED <<caller, pending>> /\ Slot(loop'.pc) = Slot(loop.pc)
    BY <1>0, <1>25, ScaleDownEachMoves DEF callerVars, LoopPC, Dropped
  <2> QED BY <1>0, <2>1, LoopKeeps
<1>26. ASSUME NEW i \in Instances, DrainExpired(i) PROVE LaunchSlots'
  <2>1. UNCHANGED <<caller, pending>> /\ Slot(loop'.pc) = Slot(loop.pc)
    BY <1>0, <1>26, DrainMoves DEF callerVars, LoopPC, Dropped
  <2> QED BY <1>0, <2>1, LoopKeeps
<1>27. ASSUME NEW i \in Instances, DrainLook(i) PROVE LaunchSlots'
  <2>1. UNCHANGED <<caller, pending>> /\ Slot(loop'.pc) = Slot(loop.pc)
    BY <1>0, <1>27, DrainMoves DEF callerVars, LoopPC, Dropped
  <2> QED BY <1>0, <2>1, LoopKeeps
<1>28. ASSUME TerminateFails PROVE LaunchSlots'
  <2>1. UNCHANGED <<caller, pending>> /\ Slot(loop'.pc) = Slot(loop.pc)
    BY <1>0, <1>28, TerminateMoves DEF callerVars, LoopPC, Dropped
  <2> QED BY <1>0, <2>1, LoopKeeps
<1>29. ASSUME TerminateSucceeds PROVE LaunchSlots'
  <2>1. UNCHANGED <<caller, pending>> /\ Slot(loop'.pc) = Slot(loop.pc)
    BY <1>0, <1>29, TerminateMoves DEF callerVars, LoopPC, Dropped
  <2> QED BY <1>0, <2>1, LoopKeeps
<1>30. ASSUME DrainDone PROVE LaunchSlots'
  <2>1. UNCHANGED <<caller, pending>> /\ Slot(loop'.pc) = Slot(loop.pc)
    BY <1>0, <1>30, PhaseLoop DEF DrainDone, callerVars, LoopPC, Dropped
  <2> QED BY <1>0, <2>1, LoopKeeps
<1>31. ASSUME NEW i \in Instances, ProvisionLook(i) PROVE LaunchSlots'
  <2>1. UNCHANGED <<caller, pending>> /\ Slot(loop'.pc) = Slot(loop.pc)
    BY <1>0, <1>31, ProvisionMoves DEF callerVars, LoopPC, Dropped
  <2> QED BY <1>0, <2>1, LoopKeeps
<1>32. ASSUME NEW i \in Instances, ProvisionExpired(i) PROVE LaunchSlots'
  <2>1. UNCHANGED <<caller, pending>> /\ Slot(loop'.pc) = Slot(loop.pc)
    BY <1>0, <1>32, ProvisionMoves DEF callerVars, LoopPC, Dropped
  <2> QED BY <1>0, <2>1, LoopKeeps
<1>33. ASSUME ProvisionDone PROVE LaunchSlots'
  <2>1. UNCHANGED <<caller, pending>> /\ Slot(loop'.pc) = Slot(loop.pc)
    BY <1>0, <1>33, PhaseLoop DEF ProvisionDone, callerVars, LoopPC, Dropped
  <2> QED BY <1>0, <2>1, LoopKeeps
<1>34. ASSUME RecoverInstances PROVE LaunchSlots'
  <2>1. Launching' = {} /\ loop'.pc = "tick" /\ pending' = 0
    BY <1>34 DEF RecoverInstances, Launching, Ready, Tick
  <2> QED BY <1>0, <2>1, FS_EmptySet DEF LaunchSlots
<1>35. ASSUME UNCHANGED vars PROVE LaunchSlots'
    BY <1>0, <1>35 DEF vars, LaunchSlots, Launching
<1> QED BY <1>1, <1>2, <1>3, <1>4, <1>5, <1>6, <1>7, <1>8, <1>9, <1>10, <1>11, <1>12, <1>13,
      <1>14, <1>15, <1>16, <1>17, <1>18, <1>19, <1>20, <1>21, <1>22, <1>23, <1>24, <1>25, <1>26,
      <1>27, <1>28, <1>29, <1>30, <1>31, <1>32, <1>33, <1>34, <1>35 DEF Next, CallerCalls,
      CallerStep, LoopStep

-----------------------------------------------------------------------------
(* The invariant, and what follows from it *)

LEMMA FleetInit == Init => FleetInv
<1> SUFFICES ASSUME Init PROVE FleetInv
    OBVIOUS
<1>0. /\ Ready \in Caller /\ Tick \in Loop /\ Ready.pc = "ready" /\ Tick.pc = "tick"
      /\ Tick.targets = {} /\ Tick.remove = {}
    BY CallerTypes DEF Ready, Tick
<1>1. NewInstance("provisioning") \in Managed /\ NewInstance("provisioning").state = "provisioning"
      /\ NewInstance("provisioning").count = 0
    BY NewManaged DEF InstanceState
<1>2. TypeOK
  <2>1. known = [s \in {} |-> None] /\ DOMAIN known = {}
    BY DEF Init
  <2>2. closed \in BOOLEAN
    BY DEF Init
  <2>3. calls \in 0..MaxCalls /\ crashes \in 0..MaxCrashes
    BY Thresholds DEF Init
  <2> QED BY <1>0, <1>1, <2>1, <2>2, <2>3 DEF Init, TypeOK
<1>3. LaunchSlots
  <2>1. Launching = {}
    BY <1>0 DEF Init, Launching
  <2> QED BY <1>0, <2>1, FS_EmptySet, Thresholds DEF Init, LaunchSlots
<1>4. StatesAndClocks
    BY <1>1 DEF Init, StatesAndClocks, ActiveHasSessions, ReadyHasIdleClock
<1>5. CarryInv /\ RegisterInv /\ TargetInv /\ CurrentInv /\ CloserInv /\ TodoInv
    BY <1>0, <1>1 DEF Init, CarryInv, RegisterInv, TargetInv, CurrentInv, CloserInv, TodoInv
<1>6. RemoveInv /\ CountInv
    BY <1>0, <1>1 DEF Init, RemoveInv, CountInv, GracefulDrainIsEmpty
<1> QED BY <1>2, <1>3, <1>4, <1>5, <1>6 DEF FleetInv

LEMMA FleetStep == FleetInv /\ [Next]_vars => FleetInv'
<1> SUFFICES ASSUME FleetInv, [Next]_vars PROVE FleetInv'
    OBVIOUS
<1>1. StatesAndClocks'
    BY FitStep DEF AllFit, Fits, StatesAndClocks, ActiveHasSessions, ReadyHasIdleClock
<1> QED BY <1>1, TypeStep, SlotsStep, CarryStep, RegisterStep, TargetStep, CurrentStep,
           CloserStep, TodoStep, RemoveStep, CountStep DEF FleetInv

LEMMA FleetAlways == Spec => []FleetInv
BY FleetInit, FleetStep, PTL DEF Spec

\* The state of every component keeps its type, whatever callers, the control
\* loop and restarts do.
THEOREM TypeCorrect == Spec => []TypeOK
<1>1. FleetInv => TypeOK
    BY DEF FleetInv
<1> QED BY <1>1, FleetAlways, PTL

\* pendingLaunches is the number of launches under way and never exceeds
\* MaxConcurrentProvisions, for any number of callers in provisionInstance.
THEOREM SlotsAreCounted == Spec => []LaunchSlots
<1>1. FleetInv => LaunchSlots
    BY DEF FleetInv
<1> QED BY <1>1, FleetAlways, PTL

\* phaseDrainCompletion terminates an instance before its drain times out only when no
\* tracked session is on it.
THEOREM DrainIsGraceful == Spec => []GracefulDrainIsEmpty
<1>1. FleetInv => GracefulDrainIsEmpty
    BY DEF FleetInv, CountInv
<1> QED BY <1>1, FleetAlways, PTL

-----------------------------------------------------------------------------
(* How an instance leaves *)

LeavesStep == \A i \in instances \ instances' :
                 cloud[i] = "gone" \/ Restarted \/ \E c \in Callers : caller[c].pc = "closeEach"

FinalStep == \A i \in Instances :
                mi[i].state = "draining" /\ mi[i].reason = "scale-down" =>
                    mi'[i].state \in {"draining", "terminating"} \/ Restarted

LEMMA LeavesOnlyTerminated == FleetInv /\ [Next]_vars => LeavesStep
<1> SUFFICES ASSUME FleetInv, [Next]_vars PROVE LeavesStep
    OBVIOUS
<1>0. /\ TypeOK /\ TypeOK' /\ CarryInv /\ Tick.pc = "tick" /\ Tick.targets = {} /\ Tick.remove = {}
      /\ Ready.pc = "ready" /\ instances \subseteq Instances
      /\ mi \in [Instances -> Managed] /\ cloud \in [Instances -> {"none", "running", "gone"}]
      /\ loop.targets \subseteq Instances /\ loop.remove \subseteq Instances
      /\ \A j \in Instances : mi[j] \in Managed /\ mi[j].count \in Nat
      /\ Ready \in Caller /\ caller \in [Callers -> Caller] /\ caller' \in [Callers -> Caller]
      /\ RemoveInv /\ crashes \in Nat
    BY CallerTypes, TypeStep, LoopFields DEF FleetInv, RemoveInv, Tick, Ready, TypeOK, Managed
<1> USE DEF LeavesStep, RemoveInv, loopVars, callerVars, NewCall
<1>1. ASSUME NEW c \in Callers, CreateSandbox(c) PROVE LeavesStep
    BY <1>1 DEF CreateSandbox
<1>2. ASSUME NEW c \in Callers, DestroySandbox(c) PROVE LeavesStep
    BY <1>2 DEF DestroySandbox
<1>3. ASSUME NEW c \in Callers, Close(c) PROVE LeavesStep
    BY <1>3 DEF Close
<1>4. ASSUME NEW c \in Callers, SelectAndClaim(c) PROVE LeavesStep
    BY <1>4 DEF SelectAndClaim
<1>5. ASSUME NEW c \in Callers, Claim(c) PROVE LeavesStep
    BY <1>5 DEF Claim
<1>6. ASSUME NEW c \in Callers, CreateRPC(c) PROVE LeavesStep
    BY <1>6 DEF CreateRPC
<1>7. ASSUME NEW c \in Callers, Rollback(c) PROVE LeavesStep
    BY <1>7 DEF Rollback
<1>8. ASSUME NEW c \in Callers, ProvisionInstance(c) PROVE LeavesStep
    BY <1>8 DEF ProvisionInstance
<1>9. ASSUME NEW c \in Callers, ProvisionSlot(c) PROVE LeavesStep
    BY <1>9 DEF ProvisionSlot
<1>10. ASSUME NEW c \in Callers, LaunchInstance(c) PROVE LeavesStep
    BY <1>10 DEF LaunchInstance
<1>11. ASSUME NEW c \in Callers, RegisterInstance(c) PROVE LeavesStep
    BY <1>11 DEF RegisterInstance
<1>12. ASSUME NEW c \in Callers, DestroyRPC(c) PROVE LeavesStep
    BY <1>12 DEF DestroyRPC
<1>13. ASSUME NEW c \in Callers, Reclaim(c) PROVE LeavesStep
    BY <1>13 DEF Reclaim
<1>14. ASSUME NEW c \in Callers, CloseWait(c) PROVE LeavesStep
    BY <1>14 DEF CloseWait
<1>15. ASSUME NEW c \in Callers, CloseEach(c) PROVE LeavesStep
    BY <1>15 DEF CloseEach
<1>16. ASSUME RunIteration PROVE LeavesStep
    BY <1>16 DEF RunIteration
<1>17. ASSUME HealthCheck PROVE LeavesStep
    BY <1>17 DEF HealthCheck
<1>18. ASSUME HealthApply PROVE LeavesStep
    BY <1>18 DEF HealthApply
<1>19. ASSUME HandleUnhealthy PROVE LeavesStep
    BY <1>19 DEF HandleUnhealthy
<1>20. ASSUME ScaleUp PROVE LeavesStep
    BY <1>20 DEF ScaleUp
<1>21. ASSUME WarmSlot PROVE LeavesStep
    BY <1>21 DEF WarmSlot
<1>22. ASSUME WarmLaunch PROVE LeavesStep
    BY <1>22 DEF WarmLaunch
<1>23. ASSUME WarmRegister PROVE LeavesStep
    BY <1>23 DEF WarmRegister
<1>24. ASSUME ScaleDown PROVE LeavesStep
    BY <1>24 DEF ScaleDown
<1>25. ASSUME ScaleDownEach PROVE LeavesStep
    BY <1>25 DEF ScaleDownEach
<1>26. ASSUME NEW i \in Instances, DrainExpired(i) PROVE LeavesStep
    BY <1>26 DEF DrainExpired
<1>27. ASSUME NEW i \in Instances, DrainLook(i) PROVE LeavesStep
    BY <1>27 DEF DrainLook
<1>28. ASSUME TerminateFails PROVE LeavesStep
    BY <1>28 DEF TerminateFails
<1>29. ASSUME TerminateSucceeds PROVE LeavesStep
    BY <1>29 DEF TerminateSucceeds
<1>30. ASSUME DrainDone PROVE LeavesStep
    BY <1>0, <1>30 DEF DrainDone
<1>31. ASSUME NEW i \in Instances, ProvisionLook(i) PROVE LeavesStep
    BY <1>31 DEF ProvisionLook
<1>32. ASSUME NEW i \in Instances, ProvisionExpired(i) PROVE LeavesStep
    BY <1>32 DEF ProvisionExpired
<1>33. ASSUME ProvisionDone PROVE LeavesStep
    BY <1>0, <1>33 DEF ProvisionDone
<1>34. ASSUME RecoverInstances PROVE LeavesStep
    BY <1>0, <1>34 DEF RecoverInstances, Restarted
<1>35. ASSUME UNCHANGED vars PROVE LeavesStep
    BY <1>0, <1>35 DEF vars
<1> QED BY <1>1, <1>2, <1>3, <1>4, <1>5, <1>6, <1>7, <1>8, <1>9, <1>10, <1>11, <1>12, <1>13,
      <1>14, <1>15, <1>16, <1>17, <1>18, <1>19, <1>20, <1>21, <1>22, <1>23, <1>24, <1>25, <1>26,
      <1>27, <1>28, <1>29, <1>30, <1>31, <1>32, <1>33, <1>34, <1>35 DEF Next, CallerCalls,
      CallerStep, LoopStep

LEMMA ScaleDownIsFinal == FleetInv /\ [Next]_vars => FinalStep
<1> SUFFICES ASSUME FleetInv, [Next]_vars PROVE FinalStep
    OBVIOUS
<1>0. /\ TypeOK /\ TypeOK' /\ CarryInv /\ Tick.pc = "tick" /\ Tick.targets = {} /\ Tick.remove = {}
      /\ Ready.pc = "ready" /\ instances \subseteq Instances
      /\ mi \in [Instances -> Managed] /\ cloud \in [Instances -> {"none", "running", "gone"}]
      /\ loop.targets \subseteq Instances /\ loop.remove \subseteq Instances
      /\ \A j \in Instances : mi[j] \in Managed /\ mi[j].count \in Nat
      /\ Ready \in Caller /\ caller \in [Callers -> Caller] /\ caller' \in [Callers -> Caller]
      /\ RegisterInv /\ CurrentInv /\ crashes \in Nat
    BY CallerTypes, TypeStep, LoopFields DEF FleetInv, Tick, Ready, TypeOK, Managed
<1> USE DEF FinalStep, loopVars, callerVars, Only, Dropped
<1>1. ASSUME NEW c \in Callers, CreateSandbox(c) PROVE FinalStep
    BY <1>1 DEF CreateSandbox
<1>2. ASSUME NEW c \in Callers, DestroySandbox(c) PROVE FinalStep
  <2>1. PICK i \in instances :
           Moved(c, "destroyRPC", i) /\ mi' = [mi EXCEPT ![i] = ReleaseSession(@)]
    BY <1>0, <1>2, DestroyMove
  <2>2. i \in Instances
    BY <1>0
  <2> QED BY <1>0, <1>2, <2>1, <2>2, ReleaseManaged DEF DestroySandbox
<1>3. ASSUME NEW c \in Callers, Close(c) PROVE FinalStep
    BY <1>3 DEF Close
<1>4. ASSUME NEW c \in Callers, SelectAndClaim(c) PROVE FinalStep
    BY <1>4 DEF SelectAndClaim
<1>5. ASSUME NEW c \in Callers, Claim(c) PROVE FinalStep
    BY <1>0, <1>5, GotoMove, RetryMove, ClaimManaged DEF Claim, CarryInv, CanClaim, Routable
<1>6. ASSUME NEW c \in Callers, CreateRPC(c) PROVE FinalStep
    BY <1>6 DEF CreateRPC
<1>7. ASSUME NEW c \in Callers, Rollback(c) PROVE FinalStep
    BY <1>0, <1>7, ReturnMove, ReleaseManaged DEF Rollback, CarryInv
<1>8. ASSUME NEW c \in Callers, ProvisionInstance(c) PROVE FinalStep
    BY <1>8 DEF ProvisionInstance
<1>9. ASSUME NEW c \in Callers, ProvisionSlot(c) PROVE FinalStep
    BY <1>9 DEF ProvisionSlot
<1>10. ASSUME NEW c \in Callers, LaunchInstance(c) PROVE FinalStep
    BY <1>10 DEF LaunchInstance
<1>11. ASSUME NEW c \in Callers, RegisterInstance(c) PROVE FinalStep
    BY <1>0, <1>11, ReturnMove, RetryMove, NewManaged DEF RegisterInv, RegisterInstance, InstanceState
<1>12. ASSUME NEW c \in Callers, DestroyRPC(c) PROVE FinalStep
    BY <1>12 DEF DestroyRPC
<1>13. ASSUME NEW c \in Callers, Reclaim(c) PROVE FinalStep
    BY <1>0, <1>13, ReturnMove, ClaimManaged DEF Reclaim, CarryInv, CanClaim, Routable
<1>14. ASSUME NEW c \in Callers, CloseWait(c) PROVE FinalStep
    BY <1>14 DEF CloseWait
<1>15. ASSUME NEW c \in Callers, CloseEach(c) PROVE FinalStep
    BY <1>0, <1>15, ReturnMove, CloseEachMove DEF CloseEach
<1>16. ASSUME RunIteration PROVE FinalStep
    BY <1>16 DEF RunIteration
<1>17. ASSUME HealthCheck PROVE FinalStep
    BY <1>0, <1>17, HealthCheckMoves
<1>18. ASSUME HealthApply PROVE FinalStep
    BY <1>0, <1>18, HealthApplyMoves
<1>19. ASSUME HandleUnhealthy PROVE FinalStep
    BY <1>0, <1>19, HandleUnhealthyMoves DEF Routable
<1>20. ASSUME ScaleUp PROVE FinalStep
    BY <1>20 DEF ScaleUp
<1>21. ASSUME WarmSlot PROVE FinalStep
    BY <1>21 DEF WarmSlot
<1>22. ASSUME WarmLaunch PROVE FinalStep
    BY <1>0, <1>22, WarmLaunchMoves
<1>23. ASSUME WarmRegister PROVE FinalStep
    BY <1>0, <1>23, PhaseLoop, NewManaged DEF RegisterInv, WarmRegister, InstanceState
<1>24. ASSUME ScaleDown PROVE FinalStep
    BY <1>0, <1>24, ScaleDownMoves
<1>25. ASSUME ScaleDownEach PROVE FinalStep
    BY <1>0, <1>25, ScaleDownEachMoves
<1>26. ASSUME NEW i \in Instances, DrainExpired(i) PROVE FinalStep
    BY <1>0, <1>26, DrainMoves
<1>27. ASSUME NEW i \in Instances, DrainLook(i) PROVE FinalStep
    BY <1>0, <1>27, DrainMoves
<1>28. ASSUME TerminateFails PROVE FinalStep
    BY <1>0, <1>28, TerminateMoves
<1>29. ASSUME TerminateSucceeds PROVE FinalStep
    BY <1>0, <1>29, TerminateMoves
<1>30. ASSUME DrainDone PROVE FinalStep
    BY <1>30 DEF DrainDone
<1>31. ASSUME NEW i \in Instances, ProvisionLook(i) PROVE FinalStep
    BY <1>0, <1>31, ProvisionMoves
<1>32. ASSUME NEW i \in Instances, ProvisionExpired(i) PROVE FinalStep
    BY <1>0, <1>32, ProvisionMoves
<1>33. ASSUME ProvisionDone PROVE FinalStep
    BY <1>33 DEF ProvisionDone
<1>34. ASSUME RecoverInstances PROVE FinalStep
    BY <1>0, <1>34 DEF RecoverInstances, Restarted
<1>35. ASSUME UNCHANGED vars PROVE FinalStep
    BY <1>0, <1>35 DEF vars
<1> QED BY <1>1, <1>2, <1>3, <1>4, <1>5, <1>6, <1>7, <1>8, <1>9, <1>10, <1>11, <1>12, <1>13,
      <1>14, <1>15, <1>16, <1>17, <1>18, <1>19, <1>20, <1>21, <1>22, <1>23, <1>24, <1>25, <1>26,
      <1>27, <1>28, <1>29, <1>30, <1>31, <1>32, <1>33, <1>34, <1>35 DEF Next, CallerCalls,
      CallerStep, LoopStep

\* The drain and provisioning phases forget only what the cloud has terminated, and
\* an instance chosen by scale-down never serves again.
THEOREM DrainFinal == Spec => DrainsAreFinal
<1>1. FleetInv /\ [Next]_vars => [LeavesStep]_vars /\ [FinalStep]_vars
    BY LeavesOnlyTerminated, ScaleDownIsFinal
<1> QED BY <1>1, FleetAlways, PTL DEF Spec, DrainsAreFinal, LeavesTerminated, ScaleDownFinal, LeavesStep, FinalStep

-----------------------------------------------------------------------------
(* How an instance becomes ready *)

\* An instance's latest checks succeeded or they failed.
Healthy(m) == m.fails = 0 \/ m.succs = 0

HealthInv == \A i \in Instances : Healthy(mi[i])

\* What a step may make of instance m: n.
Steady(m, n) ==
    /\ Healthy(n)
    /\ n.state = "ready" /\ n.count > 0 =>
         \/ m.state = "ready" /\ n.count <= m.count
         \/ m.state = "draining" /\ m.reason = "health" /\ n.count = m.count

AllSteady == \A i \in Instances : Steady(mi[i], mi'[i])

\* One instance is given a new record, the others keep theirs.
LEMMA OneSteady ==
    ASSUME TypeOK, HealthInv, NEW i \in Instances, NEW n,
           mi' = [mi EXCEPT ![i] = n], Steady(mi[i], n)
    PROVE  AllSteady
<1>1. \A j \in Instances : Steady(mi[j], mi[j])
    BY DEF HealthInv, Steady, TypeOK, Managed
<1>2. \A j \in Instances : mi'[j] = IF j = i THEN n ELSE mi[j]
    BY DEF TypeOK
<1> QED BY <1>1, <1>2 DEF AllSteady

LEMMA SameSteady ==
    ASSUME TypeOK, HealthInv, UNCHANGED mi
    PROVE  AllSteady
BY DEF HealthInv, AllSteady, Steady, TypeOK, Managed

LEMMA SteadyOperations ==
    ASSUME NEW m \in Managed, Healthy(m)
    PROVE  /\ Steady(m, ClaimSession(m)) /\ Steady(m, ReleaseSession(m))
           /\ Steady(m, CheckFailed(m)) /\ \A n \in Nat : Steady(m, Reconciled(m, n))
           /\ Steady(m, Recovered(m))
           /\ Steady(m, [m EXCEPT !.state = "terminating"])
           /\ Steady(m, [m EXCEPT !.state = "draining", !.reason = "scale-down"])
<1>1. Steady(m, ClaimSession(m))
    BY DEF Managed, Healthy, Steady, ClaimSession
<1>2. Steady(m, ReleaseSession(m))
    BY DEF Managed, Healthy, Steady, ReleaseSession
<1>3. Steady(m, CheckFailed(m))
    BY DEF Managed, Healthy, Steady, CheckFailed
<1>4. ASSUME NEW n \in Nat PROVE Steady(m, Reconciled(m, n))
    BY DEF Managed, Healthy, Steady, Reconciled
<1>5. Steady(m, Recovered(m))
    BY DEF Managed, Healthy, Steady, Recovered
<1>6. Steady(m, [m EXCEPT !.state = "terminating"])
    BY DEF Managed, Healthy, Steady
<1>7. Steady(m, [m EXCEPT !.state = "draining", !.reason = "scale-down"])
    BY DEF Managed, Healthy, Steady
<1> QED BY <1>1, <1>2, <1>3, <1>4, <1>5, <1>6, <1>7

\* A drain for health is not followed by a recovery in the same phase: the checks
\* that failed have set the successes back.
LEMMA SteadyDrain ==
    ASSUME NEW m \in Managed, Healthy(m), m.fails >= UnhealthyThreshold
    PROVE  Steady(m, Recovered([m EXCEPT !.state = "draining", !.reason = "health"]))
<1> DEFINE d == [m EXCEPT !.state = "draining", !.reason = "health"]
<1>1. d.state = "draining" /\ d.fails = m.fails /\ d.succs = m.succs
    BY DEF Managed
<1>2. m.succs = 0 /\ ~(d.succs >= HealthyThreshold)
    BY <1>1, Thresholds DEF Managed, Healthy
<1>3. Recovered(d) = d
    BY <1>2 DEF Recovered
<1> QED BY <1>1, <1>2, <1>3 DEF Steady, Healthy

LEMMA NewSteady ==
    ASSUME NEW m, NEW s \in InstanceState
    PROVE  Steady(m, NewInstance(s))
BY DEF Steady, Healthy, NewInstance

LEMMA SteadyStep == FleetInv /\ HealthInv /\ [Next]_vars => AllSteady
<1> SUFFICES ASSUME FleetInv, HealthInv, [Next]_vars PROVE AllSteady
    OBVIOUS
<1>0. /\ TypeOK /\ CarryInv /\ CountInv /\ instances \subseteq Instances
      /\ \A i \in Instances : mi[i] \in Managed /\ Healthy(mi[i])
      /\ loop.targets \subseteq Instances /\ loop.result \in Nat \cup {None}
    BY DEF FleetInv, HealthInv, TypeOK, Loop
<1>1. ASSUME UNCHANGED mi PROVE AllSteady
    BY <1>0, <1>1, SameSteady
<1>2. ASSUME NEW c \in Callers, CallerCalls(c) PROVE AllSteady
  <2>1. CASE CreateSandbox(c) \/ Close(c)
    BY <1>1, <2>1 DEF CreateSandbox, Close
  <2>2. CASE DestroySandbox(c)
    <3>1. PICK i \in instances : mi' = [mi EXCEPT ![i] = ReleaseSession(mi[i])]
      BY <2>2 DEF DestroySandbox
    <3> QED BY <1>0, <3>1, OneSteady, SteadyOperations
  <2> QED BY <1>2, <2>1, <2>2 DEF CallerCalls
<1>3. ASSUME NEW c \in Callers, CallerStep(c) PROVE AllSteady
  <2>1. CASE Claim(c) \/ Reclaim(c)
    <3>1. /\ caller[c].inst \in Instances
          /\ UNCHANGED mi \/ mi' = [mi EXCEPT ![caller[c].inst] = ClaimSession(mi[caller[c].inst])]
      BY <1>0, <2>1 DEF Claim, Reclaim, CarryInv, TypeOK
    <3> QED BY <1>0, <1>1, <3>1, OneSteady, SteadyOperations
  <2>2. CASE Rollback(c)
    <3>1. /\ caller[c].inst \in Instances
          /\ mi' = [mi EXCEPT ![caller[c].inst] = ReleaseSession(mi[caller[c].inst])]
      BY <1>0, <2>2 DEF Rollback, CarryInv
    <3> QED BY <1>0, <3>1, OneSteady, SteadyOperations
  <2>3. CASE RegisterInstance(c)
    <3>1. /\ caller[c].inst \in Instances
          /\ UNCHANGED mi \/ mi' = [mi EXCEPT ![caller[c].inst] = NewInstance("ready")]
      BY <1>0, <2>3 DEF RegisterInstance, CarryInv
    <3> QED BY <1>0, <1>1, <3>1, OneSteady, NewSteady DEF InstanceState
  <2>4. CASE CloseEach(c)
    <3>1. \/ UNCHANGED mi
          \/ \E i \in Instances : mi' = [mi EXCEPT ![i] = [mi[i] EXCEPT !.state = "terminating"]]
      BY <1>0, <2>4 DEF CloseEach, TypeOK, Caller
    <3> QED BY <1>0, <1>1, <3>1, OneSteady, SteadyOperations
  <2>5. CASE \/ SelectAndClaim(c) \/ CreateRPC(c) \/ ProvisionInstance(c) \/ ProvisionSlot(c)
             \/ LaunchInstance(c) \/ DestroyRPC(c) \/ CloseWait(c)
    BY <1>1, <2>5 DEF SelectAndClaim, CreateRPC, ProvisionInstance, ProvisionSlot,
                      LaunchInstance, DestroyRPC, CloseWait
  <2> QED BY <1>3, <2>1, <2>2, <2>3, <2>4, <2>5 DEF CallerStep
<1>4. ASSUME LoopStep PROVE AllSteady
  <2>1. CASE HealthApply
    <3>1. /\ loop.cur \in Instances
          /\ mi' = [mi EXCEPT ![loop.cur] = IF loop.result = None THEN CheckFailed(mi[loop.cur])
                                            ELSE Reconciled(mi[loop.cur], loop.result)]
      BY <1>0, <2>1 DEF HealthApply, CarryInv
    <3>2. CASE loop.result = None
      BY <1>0, <3>1, <3>2, OneSteady, SteadyOperations
    <3>3. CASE loop.result # None
      BY <1>0, <3>1, <3>3, OneSteady, SteadyOperations
    <3> QED BY <3>2, <3>3
  <2>2. CASE HandleUnhealthy
    <3>1. CASE UNCHANGED mi
      BY <1>1, <3>1
    <3>2. ASSUME NEW i \in loop.targets,
                 mi' = [mi EXCEPT ![i] = Recovered(
                          IF Routable(i) /\ mi[i].fails >= UnhealthyThreshold
                          THEN [mi[i] EXCEPT !.state = "draining", !.reason = "health"]
                          ELSE mi[i])]
          PROVE  AllSteady
      <4>1. i \in Instances
        BY <1>0
      <4>2. CASE Routable(i) /\ mi[i].fails >= UnhealthyThreshold
        BY <1>0, <3>2, <4>1, <4>2, OneSteady, SteadyDrain
      <4>3. CASE ~(Routable(i) /\ mi[i].fails >= UnhealthyThreshold)
        BY <1>0, <3>2, <4>1, <4>3, OneSteady, SteadyOperations
      <4> QED BY <4>2, <4>3
    <3> QED BY <2>2, <3>1, <3>2 DEF HandleUnhealthy
  <2>3. CASE WarmRegister
    <3>1. /\ loop.cur \in Instances
          /\ UNCHANGED mi \/ mi' = [mi EXCEPT ![loop.cur] = NewInstance("provisioning")]
      BY <1>0, <2>3 DEF WarmRegister, CarryInv
    <3> QED BY <1>0, <1>1, <3>1, OneSteady, NewSteady DEF InstanceState
  <2>4. CASE ScaleDownEach
    <3>1. \/ UNCHANGED mi
          \/ \E i \in Instances :
               mi' = [mi EXCEPT ![i] = [mi[i] EXCEPT !.state = "draining", !.reason = "scale-down"]]
      <4>1. CASE UNCHANGED mi
        BY <4>1
      <4>2. ASSUME NEW i \in loop.targets,
                   mi' = [mi EXCEPT ![i].state = "draining", ![i].reason = "scale-down"]
            PROVE  /\ i \in Instances
                   /\ mi' = [mi EXCEPT ![i] = [mi[i] EXCEPT !.state = "draining",
                                                           !.reason = "scale-down"]]
        BY <1>0, <4>2 DEF TypeOK
      <4> QED BY <2>4, <4>1, <4>2 DEF ScaleDownEach
    <3> QED BY <1>0, <1>1, <3>1, OneSteady, SteadyOperations
  <2>5. CASE TerminateSucceeds
    <3>1. /\ loop.cur \in Instances
          /\ mi' = [mi EXCEPT ![loop.cur] = [mi[loop.cur] EXCEPT !.state = "terminating"]]
      BY <1>0, <2>5 DEF TerminateSucceeds, CarryInv
    <3> QED BY <1>0, <3>1, OneSteady, SteadyOperations
  <2>6. ASSUME NEW i \in Instances, ProvisionLook(i) PROVE AllSteady
    <3>1. CASE /\ mi[i].state = "provisioning"
               /\ mi' = [mi EXCEPT ![i] = [mi[i] EXCEPT !.state = "ready", !.idle = TRUE]]
      <4>1. Steady(mi[i], [mi[i] EXCEPT !.state = "ready", !.idle = TRUE])
        BY <1>0, <3>1 DEF CountInv, Managed, Healthy, Steady
      <4> QED BY <1>0, <3>1, <4>1, OneSteady
    <3> QED BY <1>1, <2>6, <3>1 DEF ProvisionLook
  <2>7. ASSUME NEW i \in Instances, ProvisionExpired(i) PROVE AllSteady
    <3>1. UNCHANGED mi \/ mi' = [mi EXCEPT ![i] = [mi[i] EXCEPT !.state = "terminating"]]
      BY <2>7 DEF ProvisionExpired
    <3> QED BY <1>0, <1>1, <3>1, OneSteady, SteadyOperations
  <2>8. ASSUME \/ RunIteration \/ HealthCheck \/ ScaleUp \/ WarmSlot \/ WarmLaunch \/ ScaleDown
               \/ (\E i \in Instances : DrainExpired(i) \/ DrainLook(i))
               \/ TerminateFails \/ DrainDone \/ ProvisionDone
        PROVE  AllSteady
    BY <1>1, <2>8 DEF RunIteration, HealthCheck, ScaleUp, WarmSlot, WarmLaunch, ScaleDown,
                      DrainExpired, DrainLook, TerminateFails, DrainDone, ProvisionDone
  <2> QED BY <1>4, <2>1, <2>2, <2>3, <2>4, <2>5, <2>6, <2>7, <2>8 DEF LoopStep
<1>5. ASSUME RecoverInstances PROVE AllSteady
  <2>1. \A i \in Instances : mi'[i] = NewInstance("provisioning")
    BY <1>5 DEF RecoverInstances
  <2> QED BY <2>1, NewSteady DEF AllSteady, InstanceState
<1>6. ASSUME UNCHANGED vars PROVE AllSteady
    BY <1>1, <1>6 DEF vars
<1> QED BY <1>2, <1>3, <1>4, <1>5, <1>6 DEF Next

LEMMA HealthAlways == Spec => []HealthInv
<1>1. Init => HealthInv
    BY DEF Init, HealthInv, Healthy, NewInstance
<1>2. FleetInv /\ HealthInv /\ [Next]_vars => HealthInv'
    BY SteadyStep DEF AllSteady, Steady, HealthInv, Healthy
<1> QED BY <1>1, <1>2, FleetAlways, PTL DEF Spec

BusyStep ==
    \A i \in Instances :
        mi'[i].state = "ready" /\ mi'[i].count > 0 =>
            \/ mi[i].state = "ready" /\ mi'[i].count <= mi[i].count
            \/ /\ mi[i].state = "draining" /\ mi[i].reason = "health"
               /\ mi'[i].count = mi[i].count

\* Claims, releases, reconciliations, health checks and drains leave no active
\* instance without sessions and no ready one without its idle clock, and only the
\* recovery of handleUnhealthy makes a ready instance with sessions.
THEOREM StatesFit == Spec => StatesFitSessions
<1>1. FleetInv => StatesAndClocks
    BY DEF FleetInv
<1>2. FleetInv /\ HealthInv /\ [Next]_vars => [BusyStep]_vars
    BY SteadyStep DEF AllSteady, Steady, BusyStep
<1> QED BY <1>1, <1>2, FleetAlways, HealthAlways, PTL
        DEF Spec, StatesFitSessions, BusyReadyIsRecovered, BusyStep

=============================================================================
