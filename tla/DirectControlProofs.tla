------------------------ MODULE DirectControlProofs -------------------------
(***************************************************************************)
(* Proofs about DirectControl for any callers, instances and processes.    *)
(***************************************************************************)
EXTENDS DirectControl, FiniteSetTheorems, TLAPS

CallerPC == {"ready", "launchInstance", "waitReady", "waitSSM", "orphan", "register",
             "terminate", "delete", "stop", "markStopped", "start", "markRunning",
             "runLaunch", "readPID", "health", "addProcess", "checkStart", "kill", "cleanup",
             "status", "waitInflight", "closeNext"}

Op == {"none", "create", "destroy", "pause", "resume", "launch", "kill", "status", "close"}

Caller == [pc : CallerPC, op : Op, i : Instances \cup {None}, p : Procs \cup {None},
           todo : SUBSET Instances]

TypeOK ==
    /\ inst \in [Instances -> {"absent", "running", "stopped", "provisioning"}]
    /\ tracked \in [Procs -> {"none", "running", "exited"}]
    /\ caller \in [Callers -> Caller]
    /\ cloud \in [Instances -> {"none", "gone"} \cup Live]
    /\ os \in [Procs -> {"none", "alive", "dying", "dead"}]
    /\ home \in [Procs -> Instances \cup {None}]
    /\ reused \subseteq Procs /\ pidFile \subseteq Procs
    /\ up \in BOOLEAN /\ closing \in BOOLEAN /\ inflight \in Nat

\* Where a call is fits what it does, and it has its sandbox and process.
PlaceInv ==
    \A c \in Callers :
      /\ caller[c].pc = "ready" <=> caller[c].op = "none"
      /\ caller[c].pc \in {"launchInstance", "orphan", "register"} => caller[c].op = "create"
      /\ caller[c].pc \in {"waitReady", "waitSSM"} => caller[c].op \in {"create", "resume"}
      /\ caller[c].pc \in {"terminate", "delete"} <=> caller[c].op = "destroy"
      /\ caller[c].pc \in {"stop", "markStopped"} <=> caller[c].op = "pause"
      /\ caller[c].pc \in {"start", "markRunning"} => caller[c].op = "resume"
      /\ caller[c].pc \in {"runLaunch", "readPID", "health", "addProcess"} <=> caller[c].op = "launch"
      /\ caller[c].pc \in {"checkStart", "kill", "cleanup"} <=> caller[c].op = "kill"
      /\ caller[c].pc = "status" <=> caller[c].op = "status"
      /\ caller[c].pc \in {"waitInflight", "closeNext"} <=> caller[c].op = "close"
      /\ caller[c].pc \in {"ready", "launchInstance", "waitInflight", "closeNext"} <=> caller[c].i = None

\* The process in a call's hands is one of the call's sandbox.
InHandInv ==
    \A c \in Callers :
      /\ caller[c].pc \in {"readPID", "health", "addProcess", "checkStart", "kill", "cleanup", "status"} =>
           caller[c].p \in Procs /\ home[caller[c].p] = caller[c].i
      /\ caller[c].pc = "runLaunch" => caller[c].p = None

\* A process has a home, and lives only while its instance runs or halts.
HomeInv ==
    \A p \in Procs :
      /\ home[p] = None <=> os[p] = "none"
      /\ home[p] = None => tracked[p] = "none" /\ p \notin pidFile
      /\ home[p] # None => cloud[home[p]] # "none"
      /\ os[p] = "alive" => cloud[home[p]] \in {"running", "stopping"}
      /\ p \in reused => os[p] = "dead"

\* Instances the adapter knows of or works on exist, or did.
KnownInv ==
    /\ \A i \in Instances : inst[i] # "absent" => cloud[i] # "none"
    /\ \A c \in Callers : caller[c].i # None => cloud[caller[c].i] # "none"

Changes == {"create", "destroy", "pause", "resume", "launch", "kill"}

\* Calls that change a sandbox follow each other.
ExclusiveInv ==
    \A c, d \in Callers :
      caller[c].op \in Changes /\ caller[d].op \in Changes /\ caller[c].i # None
        /\ caller[c].i = caller[d].i => c = d

\* What holds of the sandbox in a call's hands.
WorkInv ==
    \A c \in Callers :
      /\ caller[c].pc = "delete" => cloud[caller[c].i] = "gone"
      /\ caller[c].pc = "markStopped" => cloud[caller[c].i] \in {"stopping", "stopped", "gone"}
      /\ caller[c].op = "resume" => /\ inst[caller[c].i] \in {"running", "stopped", "absent"}
                                    /\ caller[c].pc # "start" => cloud[caller[c].i] # "stopping"
      /\ caller[c].op = "launch" => inst[caller[c].i] \in {"running", "absent"}
      /\ caller[c].op = "create" /\ caller[c].i # None =>
           inst[caller[c].i] = "absent" /\ \A p \in Procs : home[p] # caller[c].i

\* A stopped sandbox has no live process once its instance has halted, also
\* when a resume has started the instance and failed then.
StoppedInv ==
    \A p \in Procs : os[p] = "alive" /\ inst[home[p]] = "stopped" => cloud[home[p]] = "stopping"

\* A kill has seen its process alive, on an instance that nobody stops.
KillInv ==
    /\ \A c \in Callers :
         /\ caller[c].pc = "kill" =>
              /\ cloud[caller[c].i] \in {"running", "gone"}
              /\ os[caller[c].p] # "dead" \/ caller[c].p \in raced \/ cloud[caller[c].i] = "gone"
         /\ caller[c].pc = "cleanup" => os[caller[c].p] \in {"dying", "dead"}
    /\ hit \subseteq raced

\* While the adapter's process is down nobody calls it.
DownInv == ~up => ~closing /\ \A c \in Callers : caller[c].pc = "ready"

Creators == {c \in Callers : caller[c].op = "create"}

CountInv == inflight = Cardinality(Creators)

\* One closer; when it lists the instances no create is left, and what it has
\* not terminated is on its list.
CloseInv ==
    /\ \A c, d \in Callers : caller[c].op = "close" /\ caller[d].op = "close" => c = d
    /\ \A c \in Callers :
         /\ caller[c].op = "close" => closing
         /\ caller[c].pc = "closeNext" =>
              /\ Creators = {}
              /\ TerminateOnClose => \A i \in Instances :
                   inst[i] = "absent" \/ i \in caller[c].todo \/ cloud[i] = "gone" \/ i \in unsure
    /\ Closed => Creators = {} /\ \A i \in Instances : inst[i] = "absent"

\* An instance that is not lost sight of.
Owned(i) ==
    \/ inst[i] # "absent" \/ i \in unsure \/ Creating(i)
    \/ Closed /\ ~TerminateOnClose

OwnedInv == \A i \in Instances : up /\ cloud[i] \in Live => Owned(i)

Launching(p) == \E c \in Callers : caller[c].p = p /\ caller[c].op = "launch"

\* A live process has its PID file, unless its launch failed half way.
FileInv == \A p \in Procs : os[p] = "alive" => p \in pidFile \/ p \in lost

\* A live process on a running sandbox is not forgotten.
TrackedInv ==
    \A p \in Procs : os[p] = "alive" /\ inst[home[p]] = "running" =>
        tracked[p] = "running" \/ p \in lost \/ Launching(p)

DirectInv ==
    /\ TypeOK /\ PlaceInv /\ InHandInv /\ HomeInv /\ KnownInv /\ ExclusiveInv /\ WorkInv
    /\ StoppedInv /\ KillInv /\ DownInv /\ CountInv /\ CloseInv /\ OwnedInv /\ FileInv
    /\ TrackedInv
-----------------------------------------------------------------------------
(* Steps, field by field *)

LEMMA Bounds == None \notin Callers /\ None \notin Instances /\ None \notin Procs
BY DirectAssumption

LEMMA ReadyIs ==
    /\ Ready \in Caller /\ Ready.pc = "ready" /\ Ready.op = "none" /\ Ready.i = None
    /\ Ready.p = None /\ Ready.todo = {}
BY DEF Ready, Caller, CallerPC, Op

LEMMA OutcomeIs == \A out \in Outcome : out.ok => out.took
BY DEF Outcome

\* Caller c is the only one to move, and these are its local variables now.
Moved(c, pc, op, i, p, t) ==
    /\ caller' \in [Callers -> Caller]
    /\ \A d \in Callers : d # c => caller'[d] = caller[d]
    /\ caller'[c].pc = pc /\ caller'[c].op = op /\ caller'[c].i = i
    /\ caller'[c].p = p /\ caller'[c].todo = t

Went(c, pc) == Moved(c, pc, caller[c].op, caller[c].i, caller[c].p, caller[c].todo)

Back(c) == Moved(c, "ready", "none", None, None, {})

\* A call that begins.
Called(c, pc, op, i, p) == up /\ caller[c].pc = "ready" /\ Moved(c, pc, op, i, p, {})

\* Terminating instance i ends the processes on it.
Ended(i) ==
    /\ cloud' = [cloud EXCEPT ![i] = "gone"]
    /\ \A p \in Procs : os'[p] = IF home[p] = i /\ os[p] # "none" THEN "dead" ELSE os[p]
    /\ os' \in [Procs -> {"none", "alive", "dying", "dead"}]

LEMMA WentIs ==
    ASSUME TypeOK, NEW c \in Callers, NEW pc \in CallerPC, Goto(c, pc)
    PROVE  Went(c, pc)
BY DEF TypeOK, Goto, Went, Moved, Caller

LEMMA BackIs ==
    ASSUME TypeOK, NEW c \in Callers, Return(c)
    PROVE  Back(c)
BY ReadyIs DEF TypeOK, Return, Back, Moved

LEMMA CalledIs ==
    ASSUME TypeOK, NEW c \in Callers, Step(c, "ready"),
           NEW pc \in CallerPC, NEW op \in Op, NEW i \in Instances,
           caller' = [caller EXCEPT ![c] = [Ready EXCEPT !.op = op, !.pc = pc, !.i = i]]
    PROVE  Called(c, pc, op, i, None)
BY ReadyIs DEF TypeOK, Called, Moved, Caller, Step

LEMMA KilledIs ==
    ASSUME TypeOK, NEW i
    PROVE  /\ Killed(ProcsOn(i)) \in [Procs -> {"none", "alive", "dying", "dead"}]
           /\ \A p \in Procs :
                Killed(ProcsOn(i))[p] = IF home[p] = i /\ os[p] # "none" THEN "dead" ELSE os[p]
BY DEF Killed, ProcsOn, TypeOK

LEMMA TerminateIs ==
    ASSUME TypeOK, NEW i, NEW out \in Outcome, TerminateInstance(i, out)
    PROVE  /\ Ended(i) \/ UNCHANGED <<cloud, os>>
           /\ out.ok => Ended(i)
BY KilledIs, OutcomeIs DEF TerminateInstance, Ended

-----------------------------------------------------------------------------
(* CreateSandbox *)

LEMMA CreateSandboxMove ==
    ASSUME TypeOK, NEW c \in Callers, CreateSandbox(c)
    PROVE  /\ ~closing /\ inflight' = inflight + 1
           /\ Called(c, "launchInstance", "create", None, None)
           /\ UNCHANGED <<table, closing, up, external, history>>
BY ReadyIs DEF CreateSandbox, NewCall, Step, Called, Moved, TypeOK, Caller, CallerPC, Op

LEMMA LaunchInstanceMove ==
    ASSUME TypeOK, NEW c \in Callers, LaunchInstance(c)
    PROVE  /\ up /\ caller[c].pc = "launchInstance"
           /\ UNCHANGED <<table, closing, up, os, home, reused, pidFile, lost, hit, raced>>
           /\ \/ \E i \in Instances :
                   /\ cloud[i] = "none" /\ cloud' = [cloud EXCEPT ![i] = "pending"]
                   /\ \/ /\ Moved(c, "waitReady", caller[c].op, i, caller[c].p, caller[c].todo)
                         /\ UNCHANGED <<inflight, unsure>>
                      \/ Back(c) /\ inflight' = inflight - 1 /\ unsure' = unsure \cup {i}
              \/ Back(c) /\ inflight' = inflight - 1 /\ UNCHANGED <<cloud, unsure>>
<1> DEFINE i == Fresh(Instances, cloud, "none")
<1>1. PICK out \in Outcome :
         /\ out.took => i # None
         /\ cloud' = IF out.took THEN [cloud EXCEPT ![i] = "pending"] ELSE cloud
         /\ unsure' = IF out.took /\ ~out.ok THEN unsure \cup {i} ELSE unsure
         /\ IF out.ok
            THEN /\ caller' = [caller EXCEPT ![c].pc = "waitReady", ![c].i = i]
                 /\ UNCHANGED inflight
            ELSE CreateReturns(c)
    BY DEF LaunchInstance
<1>2. i # None => i \in Instances /\ cloud[i] = "none"
    BY DEF Fresh
<1>3. out.ok => out.took
    BY OutcomeIs
<1>4. up /\ caller[c].pc = "launchInstance" /\ UNCHANGED <<table, closing, up, os, home, reused, pidFile, lost, hit, raced>>
    BY DEF LaunchInstance, Step
<1> HIDE DEF i
<1>5. CASE out.ok
  <2>1. Moved(c, "waitReady", caller[c].op, i, caller[c].p, caller[c].todo)
    BY <1>1, <1>2, <1>3, <1>5 DEF TypeOK, Moved, Caller, CallerPC
  <2> QED BY <1>1, <1>2, <1>3, <1>4, <1>5, <2>1
<1>6. CASE ~out.ok
    BY <1>1, <1>2, <1>4, <1>6, BackIs DEF CreateReturns
<1> QED BY <1>5, <1>6

\* The polls change nothing but where the call is.
LEMMA WaitMove ==
    ASSUME TypeOK, PlaceInv, NEW c \in Callers,
           WaitForInstanceReady(c) \/ WaitForSSMRegistration(c) \/ WaitFails(c)
    PROVE  /\ up /\ caller[c].pc \in {"waitReady", "waitSSM"}
           /\ \/ Went(c, "waitSSM")
              \/ caller[c].op = "create" /\ (Went(c, "register") \/ Went(c, "orphan"))
              \/ caller[c].op = "resume" /\ (Went(c, "markRunning") \/ Back(c))
           /\ UNCHANGED <<table, closing, inflight, up, external, history>>
BY WentIs, BackIs DEF WaitForInstanceReady, WaitForSSMRegistration, WaitFails, Step, PlaceInv, CallerPC

LEMMA OrphanMove ==
    ASSUME TypeOK, NEW c \in Callers, TerminateOrphan(c)
    PROVE  LET i == caller[c].i IN
           /\ up /\ caller[c].pc = "orphan" /\ Back(c) /\ inflight' = inflight - 1
           /\ UNCHANGED <<table, closing, up, home, reused, pidFile, lost, hit, raced>>
           /\ \/ Ended(i) /\ unsure \subseteq unsure' /\ unsure' \subseteq unsure \cup {i}
              \/ UNCHANGED <<cloud, os>> /\ unsure' = unsure \cup {i}
<1>1. PICK out \in Outcome : /\ TerminateInstance(caller[c].i, out)
                             /\ unsure' = IF out.ok THEN unsure ELSE unsure \cup {caller[c].i}
    BY DEF TerminateOrphan
<1>2. /\ Ended(caller[c].i) \/ UNCHANGED <<cloud, os>>
      /\ out.ok => Ended(caller[c].i)
    BY <1>1, TerminateIs
<1> QED BY <1>1, <1>2, BackIs DEF TerminateOrphan, CreateReturns, Step

LEMMA RegisterMove ==
    ASSUME TypeOK, NEW c \in Callers, Register(c)
    PROVE  /\ up /\ caller[c].pc = "register" /\ UNCHANGED <<tracked, closing, up, external, history>>
           /\ \/ Went(c, "orphan") /\ UNCHANGED <<inst, inflight>>
              \/ /\ ~closing /\ inst' = [inst EXCEPT ![caller[c].i] = "running"]
                 /\ Back(c) /\ inflight' = inflight - 1
BY WentIs, BackIs DEF Register, CreateReturns, Step, CallerPC

-----------------------------------------------------------------------------
(* DestroySandbox, PauseSandbox, ResumeSandbox, LaunchProcess *)

LEMMA LookupMove ==
    ASSUME TypeOK, NEW c \in Callers,
           DestroySandbox(c) \/ PauseSandbox(c) \/ ResumeSandbox(c) \/ LaunchProcess(c)
    PROVE  /\ UNCHANGED <<table, closing, inflight, up, external, history>>
           /\ \E i \in Instances :
                /\ inst[i] # "absent" /\ ~Busy(i)
                /\ \/ Called(c, "terminate", "destroy", i, None)
                   \/ Called(c, "stop", "pause", i, None)
                   \/ Called(c, "start", "resume", i, None) /\ inst[i] \in {"running", "stopped"}
                   \/ Called(c, "runLaunch", "launch", i, None) /\ inst[i] = "running"
<1>1. ASSUME NEW op \in Op, NEW pc \in CallerPC, NEW states, Lookup(c, op, pc, states)
      PROVE  /\ UNCHANGED <<table, closing, inflight, up, external, history>>
             /\ \E i \in Instances : inst[i] \in states /\ ~Busy(i) /\ Called(c, pc, op, i, None)
    BY <1>1, CalledIs DEF Lookup, NewCall
<1>2. /\ {"terminate", "stop", "start", "runLaunch"} \subseteq CallerPC
      /\ {"destroy", "pause", "resume", "launch"} \subseteq Op
    BY DEF CallerPC, Op
<1>3. CASE DestroySandbox(c)
  <2>1. /\ UNCHANGED <<table, closing, inflight, up, external, history>>
        /\ \E i \in Instances : /\ inst[i] \in {"running", "stopped"} /\ ~Busy(i)
                                /\ Called(c, "terminate", "destroy", i, None)
    BY <1>1, <1>2, <1>3 DEF DestroySandbox
  <2> QED BY <2>1
<1>4. CASE PauseSandbox(c)
  <2>1. /\ UNCHANGED <<table, closing, inflight, up, external, history>>
        /\ \E i \in Instances : /\ inst[i] \in {"running", "stopped"} /\ ~Busy(i)
                                /\ Called(c, "stop", "pause", i, None)
    BY <1>1, <1>2, <1>4 DEF PauseSandbox
  <2> QED BY <2>1
<1>5. CASE ResumeSandbox(c)
  <2>1. /\ UNCHANGED <<table, closing, inflight, up, external, history>>
        /\ \E i \in Instances : /\ inst[i] \in {"running", "stopped"} /\ ~Busy(i)
                                /\ Called(c, "start", "resume", i, None)
    BY <1>1, <1>2, <1>5 DEF ResumeSandbox
  <2> QED BY <2>1
<1>6. CASE LaunchProcess(c)
  <2>1. /\ UNCHANGED <<table, closing, inflight, up, external, history>>
        /\ \E i \in Instances : /\ inst[i] \in {"running"} /\ ~Busy(i)
                                /\ Called(c, "runLaunch", "launch", i, None)
    BY <1>1, <1>2, <1>6 DEF LaunchProcess
  <2> QED BY <2>1
<1> QED BY <1>3, <1>4, <1>5, <1>6

LEMMA DestroyTerminateMove ==
    ASSUME TypeOK, NEW c \in Callers, DestroyTerminate(c)
    PROVE  /\ up /\ caller[c].pc = "terminate"
           /\ UNCHANGED <<table, closing, inflight, up, home, reused, pidFile, history>>
           /\ Ended(caller[c].i) \/ UNCHANGED <<cloud, os>>
           /\ (Ended(caller[c].i) /\ Went(c, "delete")) \/ Back(c)
<1>1. PICK out \in Outcome : /\ TerminateInstance(caller[c].i, out)
                             /\ IF out.ok THEN Goto(c, "delete") ELSE Return(c)
    BY DEF DestroyTerminate
<1>2. /\ Ended(caller[c].i) \/ UNCHANGED <<cloud, os>>
      /\ out.ok => Ended(caller[c].i)
    BY <1>1, TerminateIs
<1> QED BY <1>1, <1>2, WentIs, BackIs DEF DestroyTerminate, Step, CallerPC

LEMMA DestroyDeleteMove ==
    ASSUME TypeOK, NEW c \in Callers, DestroyDelete(c)
    PROVE  /\ up /\ caller[c].pc = "delete" /\ Back(c)
           /\ inst' = [inst EXCEPT ![caller[c].i] = "absent"]
           /\ tracked' \in [Procs -> {"none", "running", "exited"}]
           /\ \A p \in Procs : tracked'[p] = IF home[p] = caller[c].i THEN "none" ELSE tracked[p]
           /\ UNCHANGED <<closing, inflight, up, external, history>>
BY BackIs DEF DestroyDelete, Step, Untracked, TypeOK

LEMMA StopMove ==
    ASSUME TypeOK, NEW c \in Callers, StopInstance(c)
    PROVE  LET i == caller[c].i IN
           /\ up /\ caller[c].pc = "stop"
           /\ UNCHANGED <<table, closing, inflight, up, os, home, reused, pidFile, history>>
           /\ \/ cloud[i] = "running" /\ cloud' = [cloud EXCEPT ![i] = "stopping"]
              \/ cloud' = cloud
           /\ \/ Went(c, "markStopped") /\ cloud[i] \in {"stopping", "stopped"}
              \/ /\ Went(c, "markStopped")
                 /\ cloud[i] = "running" /\ cloud' = [cloud EXCEPT ![i] = "stopping"]
              \/ Back(c)
BY WentIs, BackIs, OutcomeIs DEF StopInstance, Step, CallerPC

LEMMA MarkStoppedMove ==
    ASSUME TypeOK, NEW c \in Callers, MarkStopped(c)
    PROVE  LET i == caller[c].i IN
           /\ up /\ caller[c].pc = "markStopped" /\ Back(c)
           /\ inst' = IF inst[i] = "absent" THEN inst ELSE [inst EXCEPT ![i] = "stopped"]
           /\ tracked' \in [Procs -> {"none", "running", "exited"}]
           /\ \A p \in Procs :
                tracked'[p] = IF home[p] = i /\ tracked[p] # "none" THEN "exited" ELSE tracked[p]
           /\ UNCHANGED <<closing, inflight, up, external, history>>
BY BackIs DEF MarkStopped, Step, TypeOK

LEMMA StartMove ==
    ASSUME TypeOK, NEW c \in Callers, StartInstance(c)
    PROVE  LET i == caller[c].i IN
           /\ up /\ caller[c].pc = "start"
           /\ UNCHANGED <<table, closing, inflight, up, os, home, reused, pidFile, history>>
           /\ \/ cloud[i] = "stopped" /\ cloud' = [cloud EXCEPT ![i] = "pending"]
              \/ cloud' = cloud
           /\ (Went(c, "waitReady") /\ cloud[i] # "stopping") \/ Back(c)
BY WentIs, BackIs, OutcomeIs DEF StartInstance, Step, CallerPC

LEMMA MarkRunningMove ==
    ASSUME TypeOK, NEW c \in Callers, MarkRunning(c)
    PROVE  LET i == caller[c].i IN
           /\ up /\ caller[c].pc = "markRunning" /\ Back(c)
           /\ UNCHANGED <<closing, inflight, up, external, unsure, hit, raced>>
           /\ lost \subseteq lost'
           /\ inst[i] = "running" => \A p \in Procs : home[p] = i /\ os[p] = "alive" => p \in lost'
           /\ \/ inst[i] = "absent" /\ UNCHANGED table
              \/ /\ inst[i] # "absent" /\ inst' = [inst EXCEPT ![i] = "running"]
                 /\ tracked' \in [Procs -> {"none", "running", "exited"}]
                 /\ \A p \in Procs : tracked'[p] = IF home[p] = i THEN "none" ELSE tracked[p]
BY BackIs DEF MarkRunning, Step, Untracked, ProcsOn, TypeOK, table

-----------------------------------------------------------------------------
(* Processes *)

LEMMA RunLaunchMove ==
    ASSUME TypeOK, NEW c \in Callers, RunLaunch(c)
    PROVE  LET i == caller[c].i IN
           /\ up /\ caller[c].pc = "runLaunch"
           /\ UNCHANGED <<table, closing, inflight, up, cloud, reused, unsure, hit, raced>>
           /\ \/ \E p \in Procs :
                   /\ cloud[i] = "running" /\ home[p] = None
                   /\ os' = [os EXCEPT ![p] = "alive"] /\ home' = [home EXCEPT ![p] = i]
                   /\ \/ /\ pidFile' = pidFile \cup {p}
                         /\ Moved(c, "readPID", caller[c].op, i, p, caller[c].todo) /\ lost' = lost
                      \/ /\ pidFile' = pidFile \cup {p} \/ pidFile' = pidFile
                         /\ Back(c) /\ lost' = lost \cup {p}
              \/ Back(c) /\ UNCHANGED <<os, home, pidFile, lost>>
<1> DEFINE i == caller[c].i
           p == Fresh(Procs, home, None)
<1>1. PICK out \in Outcome :
         /\ out.took => p # None
         /\ RunShellCommand(i, out)
         /\ IF out.took
            THEN /\ os' = [os EXCEPT ![p] = "alive"]
                 /\ home' = [home EXCEPT ![p] = i]
                 /\ pidFile' \in {pidFile \cup {p}} \cup IF out.ok THEN {} ELSE {pidFile}
            ELSE UNCHANGED <<os, home, pidFile>>
         /\ IF out.ok
            THEN caller' = [caller EXCEPT ![c].pc = "readPID", ![c].p = p] /\ UNCHANGED lost
            ELSE Return(c) /\ lost' = IF out.took THEN lost \cup {p} ELSE lost
    BY DEF RunLaunch
<1>2. p # None => p \in Procs /\ home[p] = None
    BY DEF Fresh
<1>3. out.ok => out.took
    BY OutcomeIs
<1>4. /\ up /\ caller[c].pc = "runLaunch"
      /\ UNCHANGED <<table, closing, inflight, up, cloud, reused, unsure, hit, raced>>
    BY DEF RunLaunch, Step
<1> HIDE DEF p
<1>5. CASE out.ok
  <2>1. Moved(c, "readPID", caller[c].op, i, p, caller[c].todo)
    BY <1>1, <1>2, <1>3, <1>5 DEF TypeOK, Moved, Caller, CallerPC
  <2> QED BY <1>1, <1>2, <1>3, <1>4, <1>5, <2>1 DEF RunShellCommand
<1>6. CASE ~out.ok
    BY <1>1, <1>2, <1>4, <1>6, BackIs DEF RunShellCommand
<1> QED BY <1>5, <1>6

LEMMA LaunchedMove ==
    ASSUME TypeOK, NEW c \in Callers, readPIDFile(c) \/ waitForProcessHealth(c)
    PROVE  /\ up /\ caller[c].pc \in {"readPID", "health"}
           /\ UNCHANGED <<table, closing, inflight, up, external, unsure, hit, raced>>
           /\ \/ \E pc \in {"health", "addProcess"} : Went(c, pc) /\ lost' = lost
              \/ Back(c) /\ lost' = lost \cup {caller[c].p}
BY WentIs, BackIs DEF readPIDFile, waitForProcessHealth, LaunchAbandoned, Step, CallerPC

LEMMA AddProcessMove ==
    ASSUME TypeOK, NEW c \in Callers, AddProcess(c)
    PROVE  /\ up /\ caller[c].pc = "addProcess" /\ Back(c)
           /\ UNCHANGED <<inst, closing, inflight, up, external, unsure, hit, raced>>
           /\ \/ tracked' = tracked /\ lost' = lost \cup {caller[c].p}
              \/ tracked' = [tracked EXCEPT ![caller[c].p] = "running"] /\ lost' = lost
BY BackIs DEF AddProcess, Step

LEMMA ProcessCallMove ==
    ASSUME TypeOK, HomeInv, NEW c \in Callers, KillProcess(c) \/ GetProcessStatus(c)
    PROVE  /\ UNCHANGED <<table, closing, inflight, up, external, history>>
           /\ \E p \in Procs :
                /\ home[p] \in Instances
                /\ \/ Called(c, "checkStart", "kill", home[p], p) /\ ~Busy(home[p])
                   \/ Called(c, "status", "status", home[p], p)
<1>1. PICK p \in Procs :
         /\ tracked[p] # "none"
         /\ \/ /\ ~Busy(home[p])
               /\ caller' = [caller EXCEPT ![c] = [Ready EXCEPT !.op = "kill", !.pc = "checkStart",
                                                                !.i = home[p], !.p = p]]
            \/ caller' = [caller EXCEPT ![c] = [Ready EXCEPT !.op = "status", !.pc = "status",
                                                             !.i = home[p], !.p = p]]
    BY DEF KillProcess, GetProcessStatus, ProcessCall
<1>2. home[p] \in Instances
    BY <1>1 DEF HomeInv, TypeOK
<1>3. up /\ caller[c].pc = "ready" /\ UNCHANGED <<table, closing, inflight, up, external, history>>
    BY DEF KillProcess, GetProcessStatus, ProcessCall, NewCall, Step
<1>4. ASSUME NEW op \in Op, NEW pc \in CallerPC,
             caller' = [caller EXCEPT ![c] = [Ready EXCEPT !.op = op, !.pc = pc, !.i = home[p], !.p = p]]
      PROVE  Called(c, pc, op, home[p], p)
    BY <1>2, <1>3, <1>4, ReadyIs DEF TypeOK, Called, Moved, Caller
<1>5. {"kill", "status"} \subseteq Op /\ {"checkStart", "status"} \subseteq CallerPC
    BY DEF Op, CallerPC
<1> QED BY <1>1, <1>2, <1>3, <1>4, <1>5

\* A process that is marked as exited, if it is tracked.
Marked(p) ==
    \/ tracked' = tracked
    \/ tracked' = [tracked EXCEPT ![p] = "exited"] /\ tracked[p] # "none"

LEMMA CheckStartMove ==
    ASSUME TypeOK, NEW c \in Callers, CheckStartTime(c) \/ StatusAnswer(c)
    PROVE  LET p == caller[c].p IN
           /\ up /\ caller[c].pc \in {"checkStart", "status"}
           /\ UNCHANGED <<inst, closing, inflight, up, external, history>>
           /\ \/ Back(c) /\ tracked' = tracked
              \/ /\ caller[c].pc = "checkStart" /\ cloud[caller[c].i] = "running" /\ os[p] # "dead"
                 /\ Went(c, "kill") /\ tracked' = tracked
              \/ Back(c) /\ os[p] = "dead" /\ Marked(p)
BY WentIs, BackIs DEF CheckStartTime, StatusAnswer, StartTimeMatches, MarkExited, Marked, Step, CallerPC

LEMMA RunKillMove ==
    ASSUME TypeOK, NEW c \in Callers, RunKill(c)
    PROVE  LET p == caller[c].p IN
           /\ up /\ caller[c].pc = "kill"
           /\ UNCHANGED <<table, closing, inflight, up, cloud, home, reused, pidFile, unsure, lost, raced>>
           /\ \/ hit' = hit
              \/ hit' = hit \cup {p} /\ p \in reused /\ cloud[caller[c].i] = "running"
           /\ \/ os' = [os EXCEPT ![p] = "dying"] /\ os[p] = "alive" /\ (Went(c, "cleanup") \/ Back(c))
              \/ os' = os /\ os[p] # "alive" /\ (Went(c, "cleanup") \/ Back(c))
              \/ os' = os /\ Back(c)
BY WentIs, BackIs, OutcomeIs DEF RunKill, RunShellCommand, Step, CallerPC

LEMMA CleanupMove ==
    ASSUME TypeOK, NEW c \in Callers, KillCleanup(c)
    PROVE  /\ up /\ caller[c].pc = "cleanup" /\ Back(c) /\ Marked(caller[c].p)
           /\ pidFile' \subseteq pidFile /\ pidFile \subseteq pidFile' \cup {caller[c].p}
           /\ UNCHANGED <<inst, closing, inflight, up, cloud, os, home, reused, history>>
<1>1. pidFile' \subseteq pidFile /\ pidFile \subseteq pidFile' \cup {caller[c].p}
    BY DEF KillCleanup
<1>2. Marked(caller[c].p)
  <2>1. MarkExited(caller[c].p)
    BY DEF KillCleanup
  <2> QED BY <2>1 DEF MarkExited, Marked
<1> QED BY <1>1, <1>2, BackIs DEF KillCleanup, Step

-----------------------------------------------------------------------------
(* Close, restarts and the cloud *)

LEMMA CloseMove ==
    ASSUME TypeOK, NEW c \in Callers, Close(c)
    PROVE  /\ ~closing /\ closing' /\ closing' \in BOOLEAN
           /\ Called(c, "waitInflight", "close", None, None)
           /\ UNCHANGED <<table, inflight, up, external, history>>
<1>1. Called(c, "waitInflight", "close", None, None)
    BY ReadyIs DEF Close, NewCall, Step, Called, Moved, TypeOK, Caller, CallerPC, Op
<1>2. closing' /\ closing' \in BOOLEAN
    BY DEF Close
<1> QED BY <1>1, <1>2 DEF Close

LEMMA CloseWaitMove ==
    ASSUME TypeOK, NEW c \in Callers, CloseWait(c)
    PROVE  /\ up /\ caller[c].pc = "waitInflight" /\ inflight = 0
           /\ UNCHANGED <<table, closing, inflight, up, external, history>>
           /\ \E t \in SUBSET Instances :
                /\ Moved(c, "closeNext", caller[c].op, caller[c].i, caller[c].p, t)
                /\ TerminateOnClose => \A i \in Instances : inst[i] # "absent" => i \in t
<1>1. PICK t \in SUBSET Instances :
         /\ caller' = [caller EXCEPT ![c].pc = "closeNext", ![c].todo = t]
         /\ TerminateOnClose => \A i \in Instances : inst[i] # "absent" => i \in t
  <2>1. CASE TerminateOnClose
    <3>1. snapshotInstanceIDs \in SUBSET Instances /\ \A i \in Instances : inst[i] # "absent" => i \in snapshotInstanceIDs
      BY DEF snapshotInstanceIDs
    <3> QED BY <2>1, <3>1 DEF CloseWait
  <2>2. CASE ~TerminateOnClose
    BY <2>2 DEF CloseWait
  <2> QED BY <2>1, <2>2
<1>2. caller' = [caller EXCEPT ![c].pc = "closeNext", ![c].todo = t] /\ "closeNext" \in CallerPC
    BY <1>1 DEF CallerPC
<1>3. Moved(c, "closeNext", caller[c].op, caller[c].i, caller[c].p, t)
    BY <1>2 DEF TypeOK, Moved, Caller
<1> QED BY <1>1, <1>3 DEF CloseWait, Step

LEMMA CloseTerminateMove ==
    ASSUME TypeOK, NEW c \in Callers, CloseTerminate(c)
    PROVE  /\ up /\ caller[c].pc = "closeNext"
           /\ UNCHANGED <<table, closing, inflight, up, home, reused, pidFile, lost, hit, raced>>
           /\ \E i \in caller[c].todo :
                /\ i \in Instances
                /\ Moved(c, "closeNext", caller[c].op, caller[c].i, caller[c].p, caller[c].todo \ {i})
                /\ \/ Ended(i) /\ unsure \subseteq unsure'
                   \/ UNCHANGED <<cloud, os>> /\ unsure' = unsure \cup {i}
<1>1. PICK i \in caller[c].todo, out \in Outcome :
         /\ TerminateInstance(i, out)
         /\ unsure' = IF out.ok THEN unsure ELSE unsure \cup {i}
         /\ caller' = [caller EXCEPT ![c].todo = @ \ {i}]
    BY DEF CloseTerminate
<1>2. i \in Instances /\ caller[c].pc = "closeNext" /\ up
    BY DEF TypeOK, Caller, CloseTerminate, Step
<1>3. /\ Ended(i) \/ UNCHANGED <<cloud, os>>
      /\ out.ok => Ended(i)
    BY <1>1, TerminateIs
<1>4. Moved(c, "closeNext", caller[c].op, caller[c].i, caller[c].p, caller[c].todo \ {i})
    BY <1>1, <1>2, SMTT(20) DEF TypeOK, Moved, Caller
<1> QED BY <1>1, <1>2, <1>3, <1>4 DEF CloseTerminate

LEMMA CloseDoneMove ==
    ASSUME TypeOK, NEW c \in Callers, CloseDone(c)
    PROVE  /\ up /\ caller[c].pc = "closeNext" /\ caller[c].todo = {} /\ Back(c)
           /\ inst' = [i \in Instances |-> "absent"] /\ tracked' = [p \in Procs |-> "none"]
           /\ UNCHANGED <<closing, inflight, up, external, history>>
BY BackIs DEF CloseDone, Step

LEMMA CrashMove ==
    ASSUME TypeOK, Crash
    PROVE  /\ up /\ ~up' /\ up' \in BOOLEAN /\ ~closing' /\ closing' \in BOOLEAN /\ inflight' = 0
           /\ inst' = [i \in Instances |-> "absent"] /\ tracked' = [p \in Procs |-> "none"]
           /\ caller' \in [Callers -> Caller]
           /\ \A c \in Callers : /\ caller'[c].pc = "ready" /\ caller'[c].op = "none"
                                 /\ caller'[c].i = None /\ caller'[c].p = None
           /\ UNCHANGED <<external, history>>
<1>1. up /\ ~up' /\ up' \in BOOLEAN /\ ~closing' /\ closing' \in BOOLEAN /\ inflight' = 0
    BY DEF Crash
<1>2. caller' = [c \in Callers |-> Ready]
    BY DEF Crash
<1>3. /\ caller' \in [Callers -> Caller]
      /\ \A c \in Callers : /\ caller'[c].pc = "ready" /\ caller'[c].op = "none"
                            /\ caller'[c].i = None /\ caller'[c].p = None
    BY <1>2, ReadyIs
<1> QED BY <1>1, <1>3 DEF Crash

LEMMA RecoverMove ==
    ASSUME TypeOK, Recover
    PROVE  /\ ~up /\ up' /\ up' \in BOOLEAN /\ UNCHANGED <<closing, inflight, caller, external, hit, raced>>
           /\ inst' \in [Instances -> {"absent", "running", "stopped", "provisioning"}]
           /\ \A i \in Instances :
                /\ cloud[i] = "running" => inst'[i] = "running"
                /\ cloud[i] = "stopped" => inst'[i] = "stopped"
                /\ cloud[i] \notin {"running", "stopped"} => inst'[i] = "absent"
                /\ cloud[i] \in Live \ {"running", "stopped"} => i \in unsure'
           /\ tracked' \in [Procs -> {"none", "running", "exited"}]
           /\ \A p \in Procs :
                /\ os[p] = "alive" /\ cloud[home[p]] = "running" /\ p \in pidFile \cup lost =>
                     tracked'[p] = "running" \/ p \in lost'
                /\ p \in lost => p \in lost' \/ p \in pidFile
                /\ tracked'[p] # "none" => p \in pidFile
<1>1. PICK silent \in SUBSET Instances :
         /\ inst' = [i \in Instances |-> IF i \in ListInstances({"running", "stopped"})
                                         THEN recoverInstanceStatus(cloud[i]) ELSE "absent"]
         /\ tracked' = [p \in Procs |-> IF p \in recoverProcesses(silent) THEN "running" ELSE "none"]
         /\ unsure' = (unsure \cup {i \in Instances : cloud[i] \in Live})
                        \ ListInstances({"running", "stopped"})
         /\ lost' = (lost \cup {p \in Procs : os[p] = "alive" /\ home[p] \in silent})
                      \ recoverProcesses(silent)
    BY DEF Recover
<1>2. ~up /\ up' /\ up' \in BOOLEAN /\ UNCHANGED <<closing, inflight, caller, external, hit, raced>>
    BY DEF Recover
<1>3. recoverInstanceStatus("running") = "running" /\ recoverInstanceStatus("stopped") = "stopped"
    BY DEF recoverInstanceStatus
<1>4. \A i \in Instances :
        inst'[i] = IF cloud[i] \in {"running", "stopped"} THEN cloud[i] ELSE "absent"
    BY <1>1, <1>3 DEF ListInstances
<1>5. inst' \in [Instances -> {"absent", "running", "stopped", "provisioning"}]
    BY <1>1, <1>4
<1>6. \A i \in Instances : cloud[i] \in Live \ {"running", "stopped"} => i \in unsure'
    BY <1>1 DEF ListInstances
<1>7. tracked' \in [Procs -> {"none", "running", "exited"}]
    BY <1>1
<1>8. \A p \in Procs : /\ os[p] = "alive" /\ cloud[home[p]] = "running" /\ p \in pidFile \cup lost =>
                            tracked'[p] = "running" \/ p \in lost'
                       /\ p \in lost => p \in lost' \/ p \in pidFile
                       /\ tracked'[p] # "none" => p \in pidFile
    BY <1>1 DEF recoverProcesses
<1> QED BY <1>2, <1>4, <1>5, <1>6, <1>7, <1>8

LEMMA BootMove ==
    ASSUME TypeOK, NEW i \in Instances, Boot(i)
    PROVE  /\ cloud[i] = "pending" /\ cloud' = [cloud EXCEPT ![i] = "running"]
           /\ UNCHANGED <<table, closing, inflight, up, caller, os, home, reused, pidFile, history>>
BY DEF Boot

LEMMA HaltMove ==
    ASSUME TypeOK, NEW i \in Instances, Halt(i)
    PROVE  /\ cloud[i] = "stopping" /\ cloud' = [cloud EXCEPT ![i] = "stopped"]
           /\ os' \in [Procs -> {"none", "alive", "dying", "dead"}]
           /\ \A p \in Procs : os'[p] = IF home[p] = i /\ os[p] # "none" THEN "dead" ELSE os[p]
           /\ reused' \subseteq reused
           /\ UNCHANGED <<table, closing, inflight, up, caller, home, pidFile, history>>
BY KilledIs DEF Halt

LEMMA ExitMove ==
    ASSUME TypeOK, NEW p \in Procs, ProcessExits(p)
    PROVE  /\ os[p] \in {"alive", "dying"} /\ os' = [os EXCEPT ![p] = "dead"]
           /\ raced \subseteq raced'
           /\ (\E c \in Callers : caller[c].pc = "kill" /\ caller[c].p = p) => p \in raced'
           /\ UNCHANGED <<table, closing, inflight, up, caller, cloud, home, reused, pidFile,
                          unsure, lost, hit>>
BY DEF ProcessExits

LEMMA PidReusedMove ==
    ASSUME TypeOK, NEW p \in Procs, PidReused(p)
    PROVE  /\ os[p] = "dead" /\ reused' = reused \cup {p}
           /\ UNCHANGED <<table, closing, inflight, up, caller, cloud, os, home, pidFile, history>>
BY DEF PidReused

-----------------------------------------------------------------------------
(* Steps keep the invariant *)

Counted(op) == IF op = "create" THEN 1 ELSE 0

\* The count of creates follows the one call that moves.
LEMMA CountMove ==
    ASSUME TypeOK, CountInv, NEW c \in Callers, \A d \in Callers : d # c => caller'[d] = caller[d],
           inflight' = inflight + Counted(caller'[c].op) - Counted(caller[c].op)
    PROVE  CountInv' /\ inflight' \in Nat
<1>1. IsFiniteSet(Creators) /\ IsFiniteSet(Creators')
  <2>1. Creators \subseteq Callers /\ Creators' \subseteq Callers
    BY DEF Creators
  <2> QED BY <2>1, DirectAssumption, FS_Subset
<1>2. Cardinality(Creators) \in Nat /\ Cardinality(Creators') \in Nat
    BY <1>1, FS_CardinalityType
<1>3. CASE Counted(caller'[c].op) = Counted(caller[c].op)
  <2>1. Creators' = Creators
    BY <1>3 DEF Creators, Counted
  <2>2. Cardinality(Creators') = Cardinality(Creators)
    BY <2>1
  <2> QED BY <1>2, <1>3, <2>2 DEF CountInv, Counted, TypeOK
<1>4. CASE Counted(caller'[c].op) = 1 /\ Counted(caller[c].op) = 0
  <2>1. Creators' = Creators \cup {c} /\ c \notin Creators
    BY <1>4 DEF Creators, Counted
  <2>2. Cardinality(Creators \cup {c}) = Cardinality(Creators) + 1
    BY <1>1, <2>1, FS_AddElement
  <2>3. Cardinality(Creators') = Cardinality(Creators \cup {c})
    BY <2>1
  <2> QED BY <1>2, <1>4, <2>2, <2>3 DEF CountInv, TypeOK
<1>5. CASE Counted(caller'[c].op) = 0 /\ Counted(caller[c].op) = 1
  <2>1. Creators' = Creators \ {c} /\ c \in Creators
    BY <1>5 DEF Creators, Counted
  <2>2. Cardinality(Creators \ {c}) = Cardinality(Creators) - 1
    BY <1>1, <2>1, FS_RemoveElement
  <2>3. Cardinality(Creators') = Cardinality(Creators \ {c})
    BY <2>1
  <2> QED BY <1>2, <1>5, <2>2, <2>3 DEF CountInv, TypeOK
<1> QED BY <1>3, <1>4, <1>5 DEF Counted

\* Creates are counted in and out.
LEMMA CountStep ==
    ASSUME TypeOK, PlaceInv, HomeInv, CountInv, Next
    PROVE  CountInv' /\ inflight' \in Nat
<1>1. ASSUME NEW c \in Callers, CreateSandbox(c)
      PROVE  CountInv' /\ inflight' \in Nat
    BY <1>1, CreateSandboxMove, CountMove DEF Called, Moved, PlaceInv, Counted, TypeOK
<1>2. ASSUME NEW c \in Callers, LaunchInstance(c)
      PROVE  CountInv' /\ inflight' \in Nat
    BY <1>2, LaunchInstanceMove, CountMove DEF Back, Moved, PlaceInv, Counted, TypeOK
<1>3. ASSUME NEW c \in Callers, WaitForInstanceReady(c) \/ WaitForSSMRegistration(c) \/ WaitFails(c)
      PROVE  CountInv' /\ inflight' \in Nat
    BY <1>3, WaitMove, CountMove DEF Went, Back, Moved, PlaceInv, Counted, TypeOK
<1>4. ASSUME NEW c \in Callers, TerminateOrphan(c)
      PROVE  CountInv' /\ inflight' \in Nat
    BY <1>4, OrphanMove, CountMove DEF Back, Moved, PlaceInv, Counted, TypeOK
<1>5. ASSUME NEW c \in Callers, Register(c)
      PROVE  CountInv' /\ inflight' \in Nat
    BY <1>5, RegisterMove, CountMove DEF Went, Back, Moved, PlaceInv, Counted, TypeOK
<1>6. ASSUME NEW c \in Callers, DestroySandbox(c) \/ PauseSandbox(c) \/ ResumeSandbox(c) \/ LaunchProcess(c)
      PROVE  CountInv' /\ inflight' \in Nat
    BY <1>6, LookupMove, CountMove DEF Called, Moved, PlaceInv, Counted, TypeOK
<1>7. ASSUME NEW c \in Callers, DestroyTerminate(c)
      PROVE  CountInv' /\ inflight' \in Nat
    BY <1>7, DestroyTerminateMove, CountMove DEF Went, Back, Moved, PlaceInv, Counted,
       TypeOK
<1>8. ASSUME NEW c \in Callers, DestroyDelete(c)
      PROVE  CountInv' /\ inflight' \in Nat
    BY <1>8, DestroyDeleteMove, CountMove DEF Back, Moved, PlaceInv, Counted, TypeOK
<1>9. ASSUME NEW c \in Callers, StopInstance(c)
      PROVE  CountInv' /\ inflight' \in Nat
    BY <1>9, StopMove, CountMove DEF Went, Back, Moved, PlaceInv, Counted, TypeOK
<1>10. ASSUME NEW c \in Callers, MarkStopped(c)
      PROVE  CountInv' /\ inflight' \in Nat
    BY <1>10, MarkStoppedMove, CountMove DEF Back, Moved, PlaceInv, Counted, TypeOK
<1>11. ASSUME NEW c \in Callers, StartInstance(c)
      PROVE  CountInv' /\ inflight' \in Nat
    BY <1>11, StartMove, CountMove DEF Went, Back, Moved, PlaceInv, Counted, TypeOK
<1>12. ASSUME NEW c \in Callers, MarkRunning(c)
      PROVE  CountInv' /\ inflight' \in Nat
    BY <1>12, MarkRunningMove, CountMove DEF Back, Moved, PlaceInv, Counted, TypeOK
<1>13. ASSUME NEW c \in Callers, RunLaunch(c)
      PROVE  CountInv' /\ inflight' \in Nat
    BY <1>13, RunLaunchMove, CountMove DEF Back, Moved, PlaceInv, Counted, TypeOK
<1>14. ASSUME NEW c \in Callers, readPIDFile(c) \/ waitForProcessHealth(c)
      PROVE  CountInv' /\ inflight' \in Nat
    BY <1>14, LaunchedMove, CountMove DEF Went, Back, Moved, PlaceInv, Counted, TypeOK
<1>15. ASSUME NEW c \in Callers, AddProcess(c)
      PROVE  CountInv' /\ inflight' \in Nat
    BY <1>15, AddProcessMove, CountMove DEF Back, Moved, PlaceInv, Counted, TypeOK
<1>16. ASSUME NEW c \in Callers, KillProcess(c) \/ GetProcessStatus(c)
      PROVE  CountInv' /\ inflight' \in Nat
    BY <1>16, ProcessCallMove, CountMove DEF Called, Moved, PlaceInv, Counted, TypeOK
<1>17. ASSUME NEW c \in Callers, CheckStartTime(c) \/ StatusAnswer(c)
      PROVE  CountInv' /\ inflight' \in Nat
    BY <1>17, CheckStartMove, CountMove DEF Went, Back, Moved, PlaceInv, Counted, TypeOK
<1>18. ASSUME NEW c \in Callers, RunKill(c)
      PROVE  CountInv' /\ inflight' \in Nat
    BY <1>18, RunKillMove, CountMove DEF Went, Back, Moved, PlaceInv, Counted, TypeOK
<1>19. ASSUME NEW c \in Callers, KillCleanup(c)
      PROVE  CountInv' /\ inflight' \in Nat
    BY <1>19, CleanupMove, CountMove DEF Back, Moved, PlaceInv, Counted, TypeOK
<1>20. ASSUME NEW c \in Callers, Close(c)
      PROVE  CountInv' /\ inflight' \in Nat
    BY <1>20, CloseMove, CountMove DEF Called, Moved, PlaceInv, Counted, TypeOK
<1>21. ASSUME NEW c \in Callers, CloseWait(c)
      PROVE  CountInv' /\ inflight' \in Nat
    BY <1>21, CloseWaitMove, CountMove DEF Moved, PlaceInv, Counted, TypeOK
<1>22. ASSUME NEW c \in Callers, CloseTerminate(c)
      PROVE  CountInv' /\ inflight' \in Nat
    BY <1>22, CloseTerminateMove, CountMove DEF Moved, PlaceInv, Counted, TypeOK
<1>23. ASSUME NEW c \in Callers, CloseDone(c)
      PROVE  CountInv' /\ inflight' \in Nat
    BY <1>23, CloseDoneMove, CountMove DEF Back, Moved, PlaceInv, Counted, TypeOK
<1>24. CASE Crash
  <2>1. Creators' = {}
    BY <1>24, CrashMove DEF Creators
  <2> QED BY <1>24, CrashMove, <2>1, FS_EmptySet DEF CountInv
<1>25. CASE Recover
  <2>1. Creators' = Creators /\ inflight' = inflight
    BY <1>25, RecoverMove DEF Creators
  <2> QED BY <2>1 DEF CountInv, TypeOK
<1>26. ASSUME NEW i \in Instances, Boot(i)
      PROVE  CountInv' /\ inflight' \in Nat
  <2>1. Creators' = Creators /\ inflight' = inflight
    BY <1>26, BootMove DEF Creators
  <2> QED BY <2>1 DEF CountInv, TypeOK
<1>27. ASSUME NEW i \in Instances, Halt(i)
      PROVE  CountInv' /\ inflight' \in Nat
  <2>1. Creators' = Creators /\ inflight' = inflight
    BY <1>27, HaltMove DEF Creators
  <2> QED BY <2>1 DEF CountInv, TypeOK
<1>28. ASSUME NEW p \in Procs, ProcessExits(p)
      PROVE  CountInv' /\ inflight' \in Nat
  <2>1. Creators' = Creators /\ inflight' = inflight
    BY <1>28, ExitMove DEF Creators
  <2> QED BY <2>1 DEF CountInv, TypeOK
<1>29. ASSUME NEW p \in Procs, PidReused(p)
      PROVE  CountInv' /\ inflight' \in Nat
  <2>1. Creators' = Creators /\ inflight' = inflight
    BY <1>29, PidReusedMove DEF Creators
  <2> QED BY <2>1 DEF CountInv, TypeOK
<1> QED BY <1>1, <1>2, <1>3, <1>4, <1>5, <1>6, <1>7, <1>8, <1>9, <1>10, <1>11, <1>12,
       <1>13, <1>14, <1>15, <1>16, <1>17, <1>18, <1>19, <1>20, <1>21, <1>22, <1>23,
       <1>24, <1>25, <1>26, <1>27, <1>28, <1>29 DEF Next, CallerCalls, CallerStep

\* Where a call is fits what it does.
LEMMA PlaceStep ==
    ASSUME TypeOK, PlaceInv, HomeInv, Next
    PROVE  PlaceInv'
<1>1. ASSUME NEW c \in Callers, CreateSandbox(c)
      PROVE  PlaceInv'
    BY <1>1, CreateSandboxMove, Bounds DEF Called, Moved, PlaceInv
<1>2. ASSUME NEW c \in Callers, LaunchInstance(c)
      PROVE  PlaceInv'
    BY <1>2, LaunchInstanceMove, Bounds DEF Back, Moved, PlaceInv
<1>3. ASSUME NEW c \in Callers, WaitForInstanceReady(c) \/ WaitForSSMRegistration(c) \/ WaitFails(c)
      PROVE  PlaceInv'
    BY <1>3, WaitMove, Bounds DEF Went, Back, Moved, PlaceInv
<1>4. ASSUME NEW c \in Callers, TerminateOrphan(c)
      PROVE  PlaceInv'
    BY <1>4, OrphanMove, Bounds DEF Back, Moved, PlaceInv
<1>5. ASSUME NEW c \in Callers, Register(c)
      PROVE  PlaceInv'
    BY <1>5, RegisterMove, Bounds DEF Went, Back, Moved, PlaceInv
<1>6. ASSUME NEW c \in Callers, DestroySandbox(c) \/ PauseSandbox(c) \/ ResumeSandbox(c) \/ LaunchProcess(c)
      PROVE  PlaceInv'
    BY <1>6, LookupMove, Bounds DEF Called, Moved, PlaceInv
<1>7. ASSUME NEW c \in Callers, DestroyTerminate(c)
      PROVE  PlaceInv'
    BY <1>7, DestroyTerminateMove, Bounds DEF Went, Back, Moved, PlaceInv
<1>8. ASSUME NEW c \in Callers, DestroyDelete(c)
      PROVE  PlaceInv'
    BY <1>8, DestroyDeleteMove, Bounds DEF Back, Moved, PlaceInv
<1>9. ASSUME NEW c \in Callers, StopInstance(c)
      PROVE  PlaceInv'
    BY <1>9, StopMove, Bounds DEF Went, Back, Moved, PlaceInv
<1>10. ASSUME NEW c \in Callers, MarkStopped(c)
      PROVE  PlaceInv'
    BY <1>10, MarkStoppedMove, Bounds DEF Back, Moved, PlaceInv
<1>11. ASSUME NEW c \in Callers, StartInstance(c)
      PROVE  PlaceInv'
    BY <1>11, StartMove, Bounds DEF Went, Back, Moved, PlaceInv
<1>12. ASSUME NEW c \in Callers, MarkRunning(c)
      PROVE  PlaceInv'
    BY <1>12, MarkRunningMove, Bounds DEF Back, Moved, PlaceInv
<1>13. ASSUME NEW c \in Callers, RunLaunch(c)
      PROVE  PlaceInv'
    BY <1>13, RunLaunchMove, Bounds DEF Back, Moved, PlaceInv
<1>14. ASSUME NEW c \in Callers, readPIDFile(c) \/ waitForProcessHealth(c)
      PROVE  PlaceInv'
    BY <1>14, LaunchedMove, Bounds DEF Went, Back, Moved, PlaceInv
<1>15. ASSUME NEW c \in Callers, AddProcess(c)
      PROVE  PlaceInv'
    BY <1>15, AddProcessMove, Bounds DEF Back, Moved, PlaceInv
<1>16. ASSUME NEW c \in Callers, KillProcess(c) \/ GetProcessStatus(c)
      PROVE  PlaceInv'
    BY <1>16, ProcessCallMove, Bounds DEF Called, Moved, PlaceInv
<1>17. ASSUME NEW c \in Callers, CheckStartTime(c) \/ StatusAnswer(c)
      PROVE  PlaceInv'
    BY <1>17, CheckStartMove, Bounds DEF Went, Back, Moved, PlaceInv
<1>18. ASSUME NEW c \in Callers, RunKill(c)
      PROVE  PlaceInv'
    BY <1>18, RunKillMove, Bounds DEF Went, Back, Moved, PlaceInv
<1>19. ASSUME NEW c \in Callers, KillCleanup(c)
      PROVE  PlaceInv'
    BY <1>19, CleanupMove, Bounds DEF Back, Moved, PlaceInv
<1>20. ASSUME NEW c \in Callers, Close(c)
      PROVE  PlaceInv'
    BY <1>20, CloseMove, Bounds DEF Called, Moved, PlaceInv
<1>21. ASSUME NEW c \in Callers, CloseWait(c)
      PROVE  PlaceInv'
    BY <1>21, CloseWaitMove, Bounds DEF Moved, PlaceInv
<1>22. ASSUME NEW c \in Callers, CloseTerminate(c)
      PROVE  PlaceInv'
    BY <1>22, CloseTerminateMove, Bounds DEF Moved, PlaceInv
<1>23. ASSUME NEW c \in Callers, CloseDone(c)
      PROVE  PlaceInv'
    BY <1>23, CloseDoneMove, Bounds DEF Back, Moved, PlaceInv
<1>24. CASE Crash
    BY <1>24, CrashMove, Bounds DEF PlaceInv
<1>25. CASE Recover
    BY <1>25, RecoverMove, Bounds DEF PlaceInv
<1>26. ASSUME NEW i \in Instances, Boot(i)
      PROVE  PlaceInv'
    BY <1>26, BootMove, Bounds DEF PlaceInv
<1>27. ASSUME NEW i \in Instances, Halt(i)
      PROVE  PlaceInv'
    BY <1>27, HaltMove, Bounds DEF PlaceInv
<1>28. ASSUME NEW p \in Procs, ProcessExits(p)
      PROVE  PlaceInv'
    BY <1>28, ExitMove, Bounds DEF PlaceInv
<1>29. ASSUME NEW p \in Procs, PidReused(p)
      PROVE  PlaceInv'
    BY <1>29, PidReusedMove, Bounds DEF PlaceInv
<1> QED BY <1>1, <1>2, <1>3, <1>4, <1>5, <1>6, <1>7, <1>8, <1>9, <1>10, <1>11, <1>12,
       <1>13, <1>14, <1>15, <1>16, <1>17, <1>18, <1>19, <1>20, <1>21, <1>22, <1>23,
       <1>24, <1>25, <1>26, <1>27, <1>28, <1>29 DEF Next, CallerCalls, CallerStep

\* The process in a call's hands stays on the call's sandbox.
LEMMA InHandStep ==
    ASSUME TypeOK, PlaceInv, InHandInv, HomeInv, Next
    PROVE  InHandInv'
<1>1. ASSUME NEW c \in Callers, CreateSandbox(c)
      PROVE  InHandInv'
    BY <1>1, CreateSandboxMove DEF Called, Moved, external, InHandInv
<1>2. ASSUME NEW c \in Callers, LaunchInstance(c)
      PROVE  InHandInv'
    BY <1>2, LaunchInstanceMove DEF Back, Moved, InHandInv
<1>3. ASSUME NEW c \in Callers, WaitForInstanceReady(c) \/ WaitForSSMRegistration(c) \/ WaitFails(c)
      PROVE  InHandInv'
    BY <1>3, WaitMove DEF Went, Back, Moved, external, InHandInv
<1>4. ASSUME NEW c \in Callers, TerminateOrphan(c)
      PROVE  InHandInv'
    BY <1>4, OrphanMove DEF Back, Moved, InHandInv
<1>5. ASSUME NEW c \in Callers, Register(c)
      PROVE  InHandInv'
    BY <1>5, RegisterMove DEF Went, Back, Moved, external, InHandInv
<1>6. ASSUME NEW c \in Callers, DestroySandbox(c) \/ PauseSandbox(c) \/ ResumeSandbox(c) \/ LaunchProcess(c)
      PROVE  InHandInv'
    BY <1>6, LookupMove DEF Called, Moved, external, InHandInv
<1>7. ASSUME NEW c \in Callers, DestroyTerminate(c)
      PROVE  InHandInv'
    BY <1>7, DestroyTerminateMove DEF Went, Back, Moved, InHandInv
<1>8. ASSUME NEW c \in Callers, DestroyDelete(c)
      PROVE  InHandInv'
    BY <1>8, DestroyDeleteMove DEF Back, Moved, external, InHandInv
<1>9. ASSUME NEW c \in Callers, StopInstance(c)
      PROVE  InHandInv'
    BY <1>9, StopMove DEF Went, Back, Moved, InHandInv
<1>10. ASSUME NEW c \in Callers, MarkStopped(c)
      PROVE  InHandInv'
    BY <1>10, MarkStoppedMove DEF Back, Moved, external, InHandInv
<1>11. ASSUME NEW c \in Callers, StartInstance(c)
      PROVE  InHandInv'
    BY <1>11, StartMove DEF Went, Back, Moved, InHandInv
<1>12. ASSUME NEW c \in Callers, MarkRunning(c)
      PROVE  InHandInv'
    BY <1>12, MarkRunningMove DEF Back, Moved, external, InHandInv
<1>13. ASSUME NEW c \in Callers, RunLaunch(c)
      PROVE  InHandInv'
    BY <1>13, RunLaunchMove DEF Back, Moved, InHandInv, PlaceInv, TypeOK
<1>14. ASSUME NEW c \in Callers, readPIDFile(c) \/ waitForProcessHealth(c)
      PROVE  InHandInv'
    BY <1>14, LaunchedMove DEF Went, Back, Moved, external, InHandInv
<1>15. ASSUME NEW c \in Callers, AddProcess(c)
      PROVE  InHandInv'
    BY <1>15, AddProcessMove DEF Back, Moved, external, InHandInv
<1>16. ASSUME NEW c \in Callers, KillProcess(c) \/ GetProcessStatus(c)
      PROVE  InHandInv'
    BY <1>16, ProcessCallMove DEF Called, Moved, external, InHandInv
<1>17. ASSUME NEW c \in Callers, CheckStartTime(c) \/ StatusAnswer(c)
      PROVE  InHandInv'
    BY <1>17, CheckStartMove DEF Went, Back, Moved, external, InHandInv
<1>18. ASSUME NEW c \in Callers, RunKill(c)
      PROVE  InHandInv'
    BY <1>18, RunKillMove DEF Went, Back, Moved, InHandInv
<1>19. ASSUME NEW c \in Callers, KillCleanup(c)
      PROVE  InHandInv'
    BY <1>19, CleanupMove DEF Back, Moved, InHandInv
<1>20. ASSUME NEW c \in Callers, Close(c)
      PROVE  InHandInv'
    BY <1>20, CloseMove DEF Called, Moved, external, InHandInv
<1>21. ASSUME NEW c \in Callers, CloseWait(c)
      PROVE  InHandInv'
    BY <1>21, CloseWaitMove DEF Moved, external, InHandInv
<1>22. ASSUME NEW c \in Callers, CloseTerminate(c)
      PROVE  InHandInv'
    BY <1>22, CloseTerminateMove DEF Moved, InHandInv
<1>23. ASSUME NEW c \in Callers, CloseDone(c)
      PROVE  InHandInv'
    BY <1>23, CloseDoneMove DEF Back, Moved, external, InHandInv
<1>24. CASE Crash
    BY <1>24, CrashMove DEF external, InHandInv
<1>25. CASE Recover
    BY <1>25, RecoverMove DEF external, InHandInv
<1>26. ASSUME NEW i \in Instances, Boot(i)
      PROVE  InHandInv'
    BY <1>26, BootMove DEF InHandInv
<1>27. ASSUME NEW i \in Instances, Halt(i)
      PROVE  InHandInv'
    BY <1>27, HaltMove DEF InHandInv
<1>28. ASSUME NEW p \in Procs, ProcessExits(p)
      PROVE  InHandInv'
    BY <1>28, ExitMove DEF InHandInv
<1>29. ASSUME NEW p \in Procs, PidReused(p)
      PROVE  InHandInv'
    BY <1>29, PidReusedMove DEF InHandInv
<1> QED BY <1>1, <1>2, <1>3, <1>4, <1>5, <1>6, <1>7, <1>8, <1>9, <1>10, <1>11, <1>12,
       <1>13, <1>14, <1>15, <1>16, <1>17, <1>18, <1>19, <1>20, <1>21, <1>22, <1>23,
       <1>24, <1>25, <1>26, <1>27, <1>28, <1>29 DEF Next, CallerCalls, CallerStep

\* A process lives only while its instance runs or halts.
LEMMA HomeStep ==
    ASSUME TypeOK, PlaceInv, InHandInv, HomeInv, Next
    PROVE  HomeInv'
<1>1. ASSUME NEW c \in Callers, CreateSandbox(c)
      PROVE  HomeInv'
    BY <1>1, CreateSandboxMove DEF table, external, HomeInv
<1>2. ASSUME NEW c \in Callers, LaunchInstance(c)
      PROVE  HomeInv'
    BY <1>2, LaunchInstanceMove DEF table, HomeInv, TypeOK
<1>3. ASSUME NEW c \in Callers, WaitForInstanceReady(c) \/ WaitForSSMRegistration(c) \/ WaitFails(c)
      PROVE  HomeInv'
    BY <1>3, WaitMove DEF table, external, HomeInv
<1>4. ASSUME NEW c \in Callers, TerminateOrphan(c)
      PROVE  HomeInv'
    BY <1>4, OrphanMove DEF Ended, table, HomeInv, TypeOK
<1>5. ASSUME NEW c \in Callers, Register(c)
      PROVE  HomeInv'
    BY <1>5, RegisterMove DEF external, HomeInv
<1>6. ASSUME NEW c \in Callers, DestroySandbox(c) \/ PauseSandbox(c) \/ ResumeSandbox(c) \/ LaunchProcess(c)
      PROVE  HomeInv'
    BY <1>6, LookupMove DEF table, external, HomeInv
<1>7. ASSUME NEW c \in Callers, DestroyTerminate(c)
      PROVE  HomeInv'
    BY <1>7, DestroyTerminateMove DEF Ended, table, HomeInv, TypeOK
<1>8. ASSUME NEW c \in Callers, DestroyDelete(c)
      PROVE  HomeInv'
    BY <1>8, DestroyDeleteMove DEF external, HomeInv, TypeOK
<1>9. ASSUME NEW c \in Callers, StopInstance(c)
      PROVE  HomeInv'
    BY <1>9, StopMove DEF table, HomeInv, TypeOK
<1>10. ASSUME NEW c \in Callers, MarkStopped(c)
      PROVE  HomeInv'
    BY <1>10, MarkStoppedMove DEF external, HomeInv, TypeOK
<1>11. ASSUME NEW c \in Callers, StartInstance(c)
      PROVE  HomeInv'
    BY <1>11, StartMove DEF table, HomeInv, TypeOK
<1>12. ASSUME NEW c \in Callers, MarkRunning(c)
      PROVE  HomeInv'
    BY <1>12, MarkRunningMove DEF table, external, HomeInv, TypeOK
<1>13. ASSUME NEW c \in Callers, RunLaunch(c)
      PROVE  HomeInv'
    BY <1>13, RunLaunchMove, Bounds DEF table, HomeInv, TypeOK, PlaceInv
<1>14. ASSUME NEW c \in Callers, readPIDFile(c) \/ waitForProcessHealth(c)
      PROVE  HomeInv'
    BY <1>14, LaunchedMove DEF table, external, HomeInv
<1>15. ASSUME NEW c \in Callers, AddProcess(c)
      PROVE  HomeInv'
    BY <1>15, AddProcessMove DEF external, HomeInv, TypeOK, InHandInv, PlaceInv
<1>16. ASSUME NEW c \in Callers, KillProcess(c) \/ GetProcessStatus(c)
      PROVE  HomeInv'
    BY <1>16, ProcessCallMove DEF table, external, HomeInv
<1>17. ASSUME NEW c \in Callers, CheckStartTime(c) \/ StatusAnswer(c)
      PROVE  HomeInv'
    BY <1>17, CheckStartMove DEF Marked, external, HomeInv, TypeOK
<1>18. ASSUME NEW c \in Callers, RunKill(c)
      PROVE  HomeInv'
    BY <1>18, RunKillMove DEF table, HomeInv, TypeOK
<1>19. ASSUME NEW c \in Callers, KillCleanup(c)
      PROVE  HomeInv'
    BY <1>19, CleanupMove DEF Marked, HomeInv, TypeOK
<1>20. ASSUME NEW c \in Callers, Close(c)
      PROVE  HomeInv'
    BY <1>20, CloseMove DEF table, external, HomeInv
<1>21. ASSUME NEW c \in Callers, CloseWait(c)
      PROVE  HomeInv'
    BY <1>21, CloseWaitMove DEF table, external, HomeInv
<1>22. ASSUME NEW c \in Callers, CloseTerminate(c)
      PROVE  HomeInv'
  <2>1. PICK i \in Instances : Ended(i) \/ UNCHANGED <<cloud, os>>
    BY <1>22, CloseTerminateMove
  <2>2. UNCHANGED <<tracked, home, reused, pidFile>>
    BY <1>22, CloseTerminateMove DEF table
  <2> QED BY <2>1, <2>2 DEF Ended, HomeInv, TypeOK
<1>23. ASSUME NEW c \in Callers, CloseDone(c)
      PROVE  HomeInv'
    BY <1>23, CloseDoneMove DEF external, HomeInv, TypeOK
<1>24. CASE Crash
    BY <1>24, CrashMove DEF external, HomeInv, TypeOK
<1>25. CASE Recover
    BY <1>25, RecoverMove DEF external, HomeInv, TypeOK
<1>26. ASSUME NEW i \in Instances, Boot(i)
      PROVE  HomeInv'
    BY <1>26, BootMove DEF table, HomeInv, TypeOK
<1>27. ASSUME NEW i \in Instances, Halt(i)
      PROVE  HomeInv'
    BY <1>27, HaltMove DEF table, HomeInv, TypeOK
<1>28. ASSUME NEW p \in Procs, ProcessExits(p)
      PROVE  HomeInv'
    BY <1>28, ExitMove DEF table, HomeInv, TypeOK
<1>29. ASSUME NEW p \in Procs, PidReused(p)
      PROVE  HomeInv'
    BY <1>29, PidReusedMove DEF table, HomeInv, TypeOK
<1> QED BY <1>1, <1>2, <1>3, <1>4, <1>5, <1>6, <1>7, <1>8, <1>9, <1>10, <1>11, <1>12,
       <1>13, <1>14, <1>15, <1>16, <1>17, <1>18, <1>19, <1>20, <1>21, <1>22, <1>23,
       <1>24, <1>25, <1>26, <1>27, <1>28, <1>29 DEF Next, CallerCalls, CallerStep

\* What the adapter knows of exists, or did.
LEMMA KnownStep ==
    ASSUME TypeOK, PlaceInv, HomeInv, KnownInv, Next
    PROVE  KnownInv'
<1>1. ASSUME NEW c \in Callers, CreateSandbox(c)
      PROVE  KnownInv'
    BY <1>1, CreateSandboxMove DEF Called, Moved, table, external, KnownInv
<1>2. ASSUME NEW c \in Callers, LaunchInstance(c)
      PROVE  KnownInv'
    BY <1>2, LaunchInstanceMove, SMTT(20) DEF Back, Moved, table, KnownInv, TypeOK, Caller
<1>3. ASSUME NEW c \in Callers, WaitForInstanceReady(c) \/ WaitForSSMRegistration(c) \/ WaitFails(c)
      PROVE  KnownInv'
    BY <1>3, WaitMove DEF Went, Back, Moved, table, external, KnownInv
<1>4. ASSUME NEW c \in Callers, TerminateOrphan(c)
      PROVE  KnownInv'
  <2>1. \A i \in Instances : cloud[i] # "none" => cloud'[i] # "none"
    BY <1>4, OrphanMove DEF Ended, TypeOK
  <2>2. inst' = inst /\ \A d \in Callers : caller'[d].i \in {caller[d].i, None}
    BY <1>4, OrphanMove DEF table, Went, Back, Moved
  <2>3. \A d \in Callers : caller[d].i \in Instances \cup {None}
    BY DEF TypeOK, Caller
  <2> QED BY <2>1, <2>2, <2>3 DEF KnownInv
<1>5. ASSUME NEW c \in Callers, Register(c)
      PROVE  KnownInv'
    BY <1>5, RegisterMove DEF Went, Back, Moved, external, KnownInv, TypeOK, PlaceInv
<1>6. ASSUME NEW c \in Callers, DestroySandbox(c) \/ PauseSandbox(c) \/ ResumeSandbox(c) \/ LaunchProcess(c)
      PROVE  KnownInv'
    BY <1>6, LookupMove DEF Called, Moved, table, external, Busy, KnownInv
<1>7. ASSUME NEW c \in Callers, DestroyTerminate(c)
      PROVE  KnownInv'
  <2>1. \A i \in Instances : cloud[i] # "none" => cloud'[i] # "none"
    BY <1>7, DestroyTerminateMove DEF Ended, TypeOK
  <2>2. inst' = inst /\ \A d \in Callers : caller'[d].i \in {caller[d].i, None}
    BY <1>7, DestroyTerminateMove DEF table, Went, Back, Moved
  <2>3. \A d \in Callers : caller[d].i \in Instances \cup {None}
    BY DEF TypeOK, Caller
  <2> QED BY <2>1, <2>2, <2>3 DEF KnownInv
<1>8. ASSUME NEW c \in Callers, DestroyDelete(c)
      PROVE  KnownInv'
    BY <1>8, DestroyDeleteMove DEF Back, Moved, external, KnownInv, TypeOK, Caller
<1>9. ASSUME NEW c \in Callers, StopInstance(c)
      PROVE  KnownInv'
  <2>1. \A i \in Instances : cloud[i] # "none" => cloud'[i] # "none"
    BY <1>9, StopMove DEF Ended, TypeOK
  <2>2. inst' = inst /\ \A d \in Callers : caller'[d].i \in {caller[d].i, None}
    BY <1>9, StopMove DEF table, Went, Back, Moved
  <2>3. \A d \in Callers : caller[d].i \in Instances \cup {None}
    BY DEF TypeOK, Caller
  <2> QED BY <2>1, <2>2, <2>3 DEF KnownInv
<1>10. ASSUME NEW c \in Callers, MarkStopped(c)
      PROVE  KnownInv'
    BY <1>10, MarkStoppedMove DEF Back, Moved, external, KnownInv, TypeOK, Caller
<1>11. ASSUME NEW c \in Callers, StartInstance(c)
      PROVE  KnownInv'
  <2>1. \A i \in Instances : cloud[i] # "none" => cloud'[i] # "none"
    BY <1>11, StartMove DEF Ended, TypeOK
  <2>2. inst' = inst /\ \A d \in Callers : caller'[d].i \in {caller[d].i, None}
    BY <1>11, StartMove DEF table, Went, Back, Moved
  <2>3. \A d \in Callers : caller[d].i \in Instances \cup {None}
    BY DEF TypeOK, Caller
  <2> QED BY <2>1, <2>2, <2>3 DEF KnownInv
<1>12. ASSUME NEW c \in Callers, MarkRunning(c)
      PROVE  KnownInv'
    BY <1>12, MarkRunningMove, SMTT(20) DEF Back, Moved, table, external, KnownInv, TypeOK, Caller
<1>13. ASSUME NEW c \in Callers, RunLaunch(c)
      PROVE  KnownInv'
    BY <1>13, RunLaunchMove DEF Back, Moved, table, KnownInv
<1>14. ASSUME NEW c \in Callers, readPIDFile(c) \/ waitForProcessHealth(c)
      PROVE  KnownInv'
    BY <1>14, LaunchedMove DEF Went, Back, Moved, table, external, KnownInv
<1>15. ASSUME NEW c \in Callers, AddProcess(c)
      PROVE  KnownInv'
    BY <1>15, AddProcessMove DEF Back, Moved, external, KnownInv
<1>16. ASSUME NEW c \in Callers, KillProcess(c) \/ GetProcessStatus(c)
      PROVE  KnownInv'
    BY <1>16, ProcessCallMove, Bounds DEF Called, Moved, table, external, Busy, KnownInv,
       HomeInv
<1>17. ASSUME NEW c \in Callers, CheckStartTime(c) \/ StatusAnswer(c)
      PROVE  KnownInv'
    BY <1>17, CheckStartMove DEF Went, Back, Moved, external, KnownInv
<1>18. ASSUME NEW c \in Callers, RunKill(c)
      PROVE  KnownInv'
    BY <1>18, RunKillMove DEF Went, Back, Moved, table, KnownInv
<1>19. ASSUME NEW c \in Callers, KillCleanup(c)
      PROVE  KnownInv'
    BY <1>19, CleanupMove DEF Back, Moved, KnownInv
<1>20. ASSUME NEW c \in Callers, Close(c)
      PROVE  KnownInv'
    BY <1>20, CloseMove DEF Called, Moved, table, external, KnownInv
<1>21. ASSUME NEW c \in Callers, CloseWait(c)
      PROVE  KnownInv'
    BY <1>21, CloseWaitMove DEF Moved, table, external, KnownInv
<1>22. ASSUME NEW c \in Callers, CloseTerminate(c)
      PROVE  KnownInv'
  <2>1. \A i \in Instances : cloud[i] # "none" => cloud'[i] # "none"
    <3>1. PICK k \in Instances : cloud' = [cloud EXCEPT ![k] = "gone"] \/ cloud' = cloud
      BY <1>22, CloseTerminateMove DEF Ended
    <3> QED BY <3>1 DEF TypeOK
  <2>2. inst' = inst /\ \A d \in Callers : caller'[d].i \in {caller[d].i, None}
    BY <1>22, CloseTerminateMove DEF table, Went, Back, Moved
  <2>3. \A d \in Callers : caller[d].i \in Instances \cup {None}
    BY DEF TypeOK, Caller
  <2> QED BY <2>1, <2>2, <2>3 DEF KnownInv
<1>23. ASSUME NEW c \in Callers, CloseDone(c)
      PROVE  KnownInv'
    BY <1>23, CloseDoneMove DEF Back, Moved, external, KnownInv
<1>24. CASE Crash
    BY <1>24, CrashMove DEF external, KnownInv
<1>25. CASE Recover
    BY <1>25, RecoverMove DEF external, KnownInv
<1>26. ASSUME NEW i \in Instances, Boot(i)
      PROVE  KnownInv'
    BY <1>26, BootMove DEF table, KnownInv, TypeOK, Caller
<1>27. ASSUME NEW i \in Instances, Halt(i)
      PROVE  KnownInv'
    BY <1>27, HaltMove DEF table, KnownInv, TypeOK, Caller
<1>28. ASSUME NEW p \in Procs, ProcessExits(p)
      PROVE  KnownInv'
    BY <1>28, ExitMove DEF table, KnownInv
<1>29. ASSUME NEW p \in Procs, PidReused(p)
      PROVE  KnownInv'
    BY <1>29, PidReusedMove DEF table, KnownInv
<1> QED BY <1>1, <1>2, <1>3, <1>4, <1>5, <1>6, <1>7, <1>8, <1>9, <1>10, <1>11, <1>12,
       <1>13, <1>14, <1>15, <1>16, <1>17, <1>18, <1>19, <1>20, <1>21, <1>22, <1>23,
       <1>24, <1>25, <1>26, <1>27, <1>28, <1>29 DEF Next, CallerCalls, CallerStep

\* Calls that change a sandbox follow each other.
LEMMA ExclusiveStep ==
    ASSUME TypeOK, PlaceInv, HomeInv, KnownInv, ExclusiveInv, Next
    PROVE  ExclusiveInv'
<1>1. ASSUME NEW c \in Callers, CreateSandbox(c)
      PROVE  ExclusiveInv'
    BY <1>1, CreateSandboxMove DEF Called, Moved, ExclusiveInv, Changes
<1>2. ASSUME NEW c \in Callers, LaunchInstance(c)
      PROVE  ExclusiveInv'
    BY <1>2, LaunchInstanceMove DEF Back, Moved, ExclusiveInv, KnownInv
<1>3. ASSUME NEW c \in Callers, WaitForInstanceReady(c) \/ WaitForSSMRegistration(c) \/ WaitFails(c)
      PROVE  ExclusiveInv'
    BY <1>3, WaitMove DEF Went, Back, Moved, ExclusiveInv
<1>4. ASSUME NEW c \in Callers, TerminateOrphan(c)
      PROVE  ExclusiveInv'
    BY <1>4, OrphanMove DEF Back, Moved, ExclusiveInv
<1>5. ASSUME NEW c \in Callers, Register(c)
      PROVE  ExclusiveInv'
    BY <1>5, RegisterMove DEF Went, Back, Moved, ExclusiveInv
<1>6. ASSUME NEW c \in Callers, DestroySandbox(c) \/ PauseSandbox(c) \/ ResumeSandbox(c) \/ LaunchProcess(c)
      PROVE  ExclusiveInv'
    BY <1>6, LookupMove DEF Called, Moved, Busy, ExclusiveInv, Changes
<1>7. ASSUME NEW c \in Callers, DestroyTerminate(c)
      PROVE  ExclusiveInv'
    BY <1>7, DestroyTerminateMove DEF Went, Back, Moved, ExclusiveInv
<1>8. ASSUME NEW c \in Callers, DestroyDelete(c)
      PROVE  ExclusiveInv'
    BY <1>8, DestroyDeleteMove DEF Back, Moved, ExclusiveInv
<1>9. ASSUME NEW c \in Callers, StopInstance(c)
      PROVE  ExclusiveInv'
    BY <1>9, StopMove DEF Went, Back, Moved, ExclusiveInv
<1>10. ASSUME NEW c \in Callers, MarkStopped(c)
      PROVE  ExclusiveInv'
    BY <1>10, MarkStoppedMove DEF Back, Moved, ExclusiveInv
<1>11. ASSUME NEW c \in Callers, StartInstance(c)
      PROVE  ExclusiveInv'
    BY <1>11, StartMove DEF Went, Back, Moved, ExclusiveInv
<1>12. ASSUME NEW c \in Callers, MarkRunning(c)
      PROVE  ExclusiveInv'
    BY <1>12, MarkRunningMove DEF Back, Moved, ExclusiveInv
<1>13. ASSUME NEW c \in Callers, RunLaunch(c)
      PROVE  ExclusiveInv'
    BY <1>13, RunLaunchMove DEF Back, Moved, ExclusiveInv
<1>14. ASSUME NEW c \in Callers, readPIDFile(c) \/ waitForProcessHealth(c)
      PROVE  ExclusiveInv'
    BY <1>14, LaunchedMove DEF Went, Back, Moved, ExclusiveInv
<1>15. ASSUME NEW c \in Callers, AddProcess(c)
      PROVE  ExclusiveInv'
    BY <1>15, AddProcessMove DEF Back, Moved, ExclusiveInv
<1>16. ASSUME NEW c \in Callers, KillProcess(c) \/ GetProcessStatus(c)
      PROVE  ExclusiveInv'
    BY <1>16, ProcessCallMove DEF Called, Moved, Busy, ExclusiveInv, Changes
<1>17. ASSUME NEW c \in Callers, CheckStartTime(c) \/ StatusAnswer(c)
      PROVE  ExclusiveInv'
    BY <1>17, CheckStartMove DEF Went, Back, Moved, ExclusiveInv
<1>18. ASSUME NEW c \in Callers, RunKill(c)
      PROVE  ExclusiveInv'
    BY <1>18, RunKillMove DEF Went, Back, Moved, ExclusiveInv
<1>19. ASSUME NEW c \in Callers, KillCleanup(c)
      PROVE  ExclusiveInv'
    BY <1>19, CleanupMove DEF Back, Moved, ExclusiveInv
<1>20. ASSUME NEW c \in Callers, Close(c)
      PROVE  ExclusiveInv'
    BY <1>20, CloseMove DEF Called, Moved, ExclusiveInv, Changes
<1>21. ASSUME NEW c \in Callers, CloseWait(c)
      PROVE  ExclusiveInv'
    BY <1>21, CloseWaitMove DEF Moved, ExclusiveInv
<1>22. ASSUME NEW c \in Callers, CloseTerminate(c)
      PROVE  ExclusiveInv'
    BY <1>22, CloseTerminateMove DEF Moved, ExclusiveInv
<1>23. ASSUME NEW c \in Callers, CloseDone(c)
      PROVE  ExclusiveInv'
    BY <1>23, CloseDoneMove DEF Back, Moved, ExclusiveInv
<1>24. CASE Crash
    BY <1>24, CrashMove DEF ExclusiveInv, Changes
<1>25. CASE Recover
    BY <1>25, RecoverMove DEF ExclusiveInv
<1>26. ASSUME NEW i \in Instances, Boot(i)
      PROVE  ExclusiveInv'
    BY <1>26, BootMove DEF ExclusiveInv
<1>27. ASSUME NEW i \in Instances, Halt(i)
      PROVE  ExclusiveInv'
    BY <1>27, HaltMove DEF ExclusiveInv
<1>28. ASSUME NEW p \in Procs, ProcessExits(p)
      PROVE  ExclusiveInv'
    BY <1>28, ExitMove DEF ExclusiveInv
<1>29. ASSUME NEW p \in Procs, PidReused(p)
      PROVE  ExclusiveInv'
    BY <1>29, PidReusedMove DEF ExclusiveInv
<1> QED BY <1>1, <1>2, <1>3, <1>4, <1>5, <1>6, <1>7, <1>8, <1>9, <1>10, <1>11, <1>12,
       <1>13, <1>14, <1>15, <1>16, <1>17, <1>18, <1>19, <1>20, <1>21, <1>22, <1>23,
       <1>24, <1>25, <1>26, <1>27, <1>28, <1>29 DEF Next, CallerCalls, CallerStep

\* Every variable keeps its type.
LEMMA TypeStep ==
    ASSUME TypeOK, PlaceInv, HomeInv, CountInv, Next
    PROVE  TypeOK'
<1>1. ASSUME NEW c \in Callers, CreateSandbox(c)
      PROVE  TypeOK'
    BY <1>1, CreateSandboxMove, CountStep DEF Called, Moved, table, external, history,
       TypeOK
<1>2. ASSUME NEW c \in Callers, LaunchInstance(c)
      PROVE  TypeOK'
    BY <1>2, LaunchInstanceMove, CountStep DEF Back, Moved, table, TypeOK, Live
<1>3. ASSUME NEW c \in Callers, WaitForInstanceReady(c) \/ WaitForSSMRegistration(c) \/ WaitFails(c)
      PROVE  TypeOK'
    BY <1>3, WaitMove, CountStep DEF Went, Back, Moved, table, external, history, TypeOK
<1>4. ASSUME NEW c \in Callers, TerminateOrphan(c)
      PROVE  TypeOK'
    BY <1>4, OrphanMove, CountStep DEF Back, Ended, Moved, table, TypeOK
<1>5. ASSUME NEW c \in Callers, Register(c)
      PROVE  TypeOK'
    BY <1>5, RegisterMove, CountStep DEF Went, Back, Moved, external, history, TypeOK
<1>6. ASSUME NEW c \in Callers, DestroySandbox(c) \/ PauseSandbox(c) \/ ResumeSandbox(c) \/ LaunchProcess(c)
      PROVE  TypeOK'
    BY <1>6, LookupMove, CountStep DEF Called, Moved, table, external, history, TypeOK
<1>7. ASSUME NEW c \in Callers, DestroyTerminate(c)
      PROVE  TypeOK'
    BY <1>7, DestroyTerminateMove, CountStep DEF Went, Back, Ended, Moved, table, history,
       TypeOK
<1>8. ASSUME NEW c \in Callers, DestroyDelete(c)
      PROVE  TypeOK'
    BY <1>8, DestroyDeleteMove, CountStep DEF Back, Moved, external, history, TypeOK
<1>9. ASSUME NEW c \in Callers, StopInstance(c)
      PROVE  TypeOK'
    BY <1>9, StopMove, CountStep DEF Went, Back, Moved, table, history, TypeOK, Live
<1>10. ASSUME NEW c \in Callers, MarkStopped(c)
      PROVE  TypeOK'
    BY <1>10, MarkStoppedMove, CountStep DEF Back, Moved, external, history, TypeOK
<1>11. ASSUME NEW c \in Callers, StartInstance(c)
      PROVE  TypeOK'
    BY <1>11, StartMove, CountStep DEF Went, Back, Moved, table, history, TypeOK, Live
<1>12. ASSUME NEW c \in Callers, MarkRunning(c)
      PROVE  TypeOK'
    BY <1>12, MarkRunningMove, CountStep DEF Back, Moved, table, external, history, TypeOK
<1>13. ASSUME NEW c \in Callers, RunLaunch(c)
      PROVE  TypeOK'
    BY <1>13, RunLaunchMove, CountStep, SMTT(20) DEF Back, Moved, table, TypeOK, Caller
<1>14. ASSUME NEW c \in Callers, readPIDFile(c) \/ waitForProcessHealth(c)
      PROVE  TypeOK'
    BY <1>14, LaunchedMove, CountStep DEF Went, Back, Moved, table, external, TypeOK
<1>15. ASSUME NEW c \in Callers, AddProcess(c)
      PROVE  TypeOK'
    BY <1>15, AddProcessMove, CountStep DEF Back, Moved, external, TypeOK
<1>16. ASSUME NEW c \in Callers, KillProcess(c) \/ GetProcessStatus(c)
      PROVE  TypeOK'
    BY <1>16, ProcessCallMove, CountStep DEF Called, Moved, table, external, history, TypeOK
<1>17. ASSUME NEW c \in Callers, CheckStartTime(c) \/ StatusAnswer(c)
      PROVE  TypeOK'
    BY <1>17, CheckStartMove, CountStep DEF Went, Back, Marked, Moved, external, history,
       TypeOK
<1>18. ASSUME NEW c \in Callers, RunKill(c)
      PROVE  TypeOK'
    BY <1>18, RunKillMove, CountStep DEF Went, Back, Moved, table, TypeOK
<1>19. ASSUME NEW c \in Callers, KillCleanup(c)
      PROVE  TypeOK'
    BY <1>19, CleanupMove, CountStep DEF Back, Marked, Moved, history, TypeOK
<1>20. ASSUME NEW c \in Callers, Close(c)
      PROVE  TypeOK'
    BY <1>20, CloseMove, CountStep DEF Called, Moved, table, external, history, TypeOK
<1>21. ASSUME NEW c \in Callers, CloseWait(c)
      PROVE  TypeOK'
    BY <1>21, CloseWaitMove, CountStep DEF Moved, table, external, history, TypeOK
<1>22. ASSUME NEW c \in Callers, CloseTerminate(c)
      PROVE  TypeOK'
    BY <1>22, CloseTerminateMove, CountStep DEF Ended, Moved, table, TypeOK
<1>23. ASSUME NEW c \in Callers, CloseDone(c)
      PROVE  TypeOK'
    BY <1>23, CloseDoneMove, CountStep DEF Back, Moved, external, history, TypeOK
<1>24. CASE Crash
    BY <1>24, CrashMove, CountStep DEF external, history, TypeOK
<1>25. CASE Recover
    BY <1>25, RecoverMove, CountStep DEF external, TypeOK
<1>26. ASSUME NEW i \in Instances, Boot(i)
      PROVE  TypeOK'
    BY <1>26, BootMove, CountStep DEF table, history, TypeOK, Live
<1>27. ASSUME NEW i \in Instances, Halt(i)
      PROVE  TypeOK'
    BY <1>27, HaltMove, CountStep DEF table, history, TypeOK, Live
<1>28. ASSUME NEW p \in Procs, ProcessExits(p)
      PROVE  TypeOK'
    BY <1>28, ExitMove, CountStep DEF table, TypeOK
<1>29. ASSUME NEW p \in Procs, PidReused(p)
      PROVE  TypeOK'
    BY <1>29, PidReusedMove, CountStep DEF table, history, TypeOK
<1> QED BY <1>1, <1>2, <1>3, <1>4, <1>5, <1>6, <1>7, <1>8, <1>9, <1>10, <1>11, <1>12,
       <1>13, <1>14, <1>15, <1>16, <1>17, <1>18, <1>19, <1>20, <1>21, <1>22, <1>23,
       <1>24, <1>25, <1>26, <1>27, <1>28, <1>29 DEF Next, CallerCalls, CallerStep

\* Nobody calls an adapter that is down.
LEMMA DownStep ==
    ASSUME TypeOK, PlaceInv, HomeInv, DownInv, Next
    PROVE  DownInv'
<1>1. ASSUME NEW c \in Callers, CreateSandbox(c)
      PROVE  DownInv'
    BY <1>1, CreateSandboxMove DEF Called, Moved, DownInv
<1>2. ASSUME NEW c \in Callers, LaunchInstance(c)
      PROVE  DownInv'
    BY <1>2, LaunchInstanceMove DEF Back, Moved, DownInv
<1>3. ASSUME NEW c \in Callers, WaitForInstanceReady(c) \/ WaitForSSMRegistration(c) \/ WaitFails(c)
      PROVE  DownInv'
    BY <1>3, WaitMove DEF Went, Back, Moved, DownInv
<1>4. ASSUME NEW c \in Callers, TerminateOrphan(c)
      PROVE  DownInv'
    BY <1>4, OrphanMove DEF Back, Moved, DownInv
<1>5. ASSUME NEW c \in Callers, Register(c)
      PROVE  DownInv'
    BY <1>5, RegisterMove DEF Went, Back, Moved, DownInv
<1>6. ASSUME NEW c \in Callers, DestroySandbox(c) \/ PauseSandbox(c) \/ ResumeSandbox(c) \/ LaunchProcess(c)
      PROVE  DownInv'
    BY <1>6, LookupMove DEF Called, Moved, DownInv
<1>7. ASSUME NEW c \in Callers, DestroyTerminate(c)
      PROVE  DownInv'
    BY <1>7, DestroyTerminateMove DEF Went, Back, Moved, DownInv
<1>8. ASSUME NEW c \in Callers, DestroyDelete(c)
      PROVE  DownInv'
    BY <1>8, DestroyDeleteMove DEF Back, Moved, DownInv
<1>9. ASSUME NEW c \in Callers, StopInstance(c)
      PROVE  DownInv'
    BY <1>9, StopMove DEF Went, Back, Moved, DownInv
<1>10. ASSUME NEW c \in Callers, MarkStopped(c)
      PROVE  DownInv'
    BY <1>10, MarkStoppedMove DEF Back, Moved, DownInv
<1>11. ASSUME NEW c \in Callers, StartInstance(c)
      PROVE  DownInv'
    BY <1>11, StartMove DEF Went, Back, Moved, DownInv
<1>12. ASSUME NEW c \in Callers, MarkRunning(c)
      PROVE  DownInv'
    BY <1>12, MarkRunningMove DEF Back, Moved, DownInv
<1>13. ASSUME NEW c \in Callers, RunLaunch(c)
      PROVE  DownInv'
    BY <1>13, RunLaunchMove DEF Back, Moved, DownInv
<1>14. ASSUME NEW c \in Callers, readPIDFile(c) \/ waitForProcessHealth(c)
      PROVE  DownInv'
    BY <1>14, LaunchedMove DEF Went, Back, Moved, DownInv
<1>15. ASSUME NEW c \in Callers, AddProcess(c)
      PROVE  DownInv'
    BY <1>15, AddProcessMove DEF Back, Moved, DownInv
<1>16. ASSUME NEW c \in Callers, KillProcess(c) \/ GetProcessStatus(c)
      PROVE  DownInv'
    BY <1>16, ProcessCallMove DEF Called, Moved, DownInv
<1>17. ASSUME NEW c \in Callers, CheckStartTime(c) \/ StatusAnswer(c)
      PROVE  DownInv'
    BY <1>17, CheckStartMove DEF Went, Back, Moved, DownInv
<1>18. ASSUME NEW c \in Callers, RunKill(c)
      PROVE  DownInv'
    BY <1>18, RunKillMove DEF Went, Back, Moved, DownInv
<1>19. ASSUME NEW c \in Callers, KillCleanup(c)
      PROVE  DownInv'
    BY <1>19, CleanupMove DEF Back, Moved, DownInv
<1>20. ASSUME NEW c \in Callers, Close(c)
      PROVE  DownInv'
    BY <1>20, CloseMove DEF Called, Moved, DownInv
<1>21. ASSUME NEW c \in Callers, CloseWait(c)
      PROVE  DownInv'
    BY <1>21, CloseWaitMove DEF Moved, DownInv
<1>22. ASSUME NEW c \in Callers, CloseTerminate(c)
      PROVE  DownInv'
    BY <1>22, CloseTerminateMove DEF Moved, DownInv
<1>23. ASSUME NEW c \in Callers, CloseDone(c)
      PROVE  DownInv'
    BY <1>23, CloseDoneMove DEF Back, Moved, DownInv
<1>24. CASE Crash
    BY <1>24, CrashMove DEF DownInv
<1>25. CASE Recover
    BY <1>25, RecoverMove DEF DownInv
<1>26. ASSUME NEW i \in Instances, Boot(i)
      PROVE  DownInv'
    BY <1>26, BootMove DEF DownInv
<1>27. ASSUME NEW i \in Instances, Halt(i)
      PROVE  DownInv'
    BY <1>27, HaltMove DEF DownInv
<1>28. ASSUME NEW p \in Procs, ProcessExits(p)
      PROVE  DownInv'
    BY <1>28, ExitMove DEF DownInv
<1>29. ASSUME NEW p \in Procs, PidReused(p)
      PROVE  DownInv'
    BY <1>29, PidReusedMove DEF DownInv
<1> QED BY <1>1, <1>2, <1>3, <1>4, <1>5, <1>6, <1>7, <1>8, <1>9, <1>10, <1>11, <1>12,
       <1>13, <1>14, <1>15, <1>16, <1>17, <1>18, <1>19, <1>20, <1>21, <1>22, <1>23,
       <1>24, <1>25, <1>26, <1>27, <1>28, <1>29 DEF Next, CallerCalls, CallerStep

\* What holds of the sandbox in a call's hands.
LEMMA WorkStep ==
    ASSUME TypeOK, PlaceInv, InHandInv, HomeInv, KnownInv, ExclusiveInv, DownInv, WorkInv,
           Next
    PROVE  WorkInv'
<1>1. ASSUME NEW c \in Callers, CreateSandbox(c)
      PROVE  WorkInv'
    BY <1>1, CreateSandboxMove DEF Called, Moved, table, external, WorkInv, PlaceInv
<1>2. ASSUME NEW c \in Callers, LaunchInstance(c)
      PROVE  WorkInv'
    BY <1>2, LaunchInstanceMove DEF Back, Moved, table, WorkInv, PlaceInv, KnownInv,
       HomeInv, TypeOK, Caller
<1>3. ASSUME NEW c \in Callers, WaitForInstanceReady(c) \/ WaitForSSMRegistration(c) \/ WaitFails(c)
      PROVE  WorkInv'
    BY <1>3, WaitMove DEF Went, Back, Moved, table, external, WorkInv, PlaceInv
<1>4. ASSUME NEW c \in Callers, TerminateOrphan(c)
      PROVE  WorkInv'
    BY <1>4, OrphanMove DEF Back, Ended, Moved, table, WorkInv, PlaceInv, TypeOK, Caller
<1>5. ASSUME NEW c \in Callers, Register(c)
      PROVE  WorkInv'
    BY <1>5, RegisterMove DEF Went, Back, Moved, external, WorkInv, PlaceInv, ExclusiveInv,
       Changes, TypeOK, Caller
<1>6. ASSUME NEW c \in Callers, DestroySandbox(c) \/ PauseSandbox(c) \/ ResumeSandbox(c) \/ LaunchProcess(c)
      PROVE  WorkInv'
    BY <1>6, LookupMove DEF Called, Moved, table, external, WorkInv, PlaceInv
<1>7. ASSUME NEW c \in Callers, DestroyTerminate(c)
      PROVE  WorkInv'
    BY <1>7, DestroyTerminateMove, SMTT(20) DEF Went, Back, Ended, Moved, table, WorkInv, PlaceInv,
       TypeOK, Caller
<1>8. ASSUME NEW c \in Callers, DestroyDelete(c)
      PROVE  WorkInv'
    BY <1>8, DestroyDeleteMove DEF Back, Moved, external, WorkInv, PlaceInv, TypeOK, Caller
<1>9. ASSUME NEW c \in Callers, StopInstance(c)
      PROVE  WorkInv'
    BY <1>9, StopMove DEF Went, Back, Moved, table, WorkInv, PlaceInv, ExclusiveInv,
       Changes, TypeOK, Caller
<1>10. ASSUME NEW c \in Callers, MarkStopped(c)
      PROVE  WorkInv'
    BY <1>10, MarkStoppedMove DEF Back, Moved, external, WorkInv, PlaceInv, ExclusiveInv,
       Changes, TypeOK, Caller
<1>11. ASSUME NEW c \in Callers, StartInstance(c)
      PROVE  WorkInv'
    BY <1>11, StartMove DEF Went, Back, Moved, table, WorkInv, PlaceInv, ExclusiveInv,
       Changes, TypeOK, Caller
<1>12. ASSUME NEW c \in Callers, MarkRunning(c)
      PROVE  WorkInv'
    BY <1>12, MarkRunningMove, SMTT(20) DEF Back, Moved, table, external, WorkInv, PlaceInv,
       ExclusiveInv, Changes, TypeOK, Caller
<1>13. ASSUME NEW c \in Callers, RunLaunch(c)
      PROVE  WorkInv'
    BY <1>13, RunLaunchMove, SMTT(20) DEF Back, Moved, table, WorkInv, PlaceInv, ExclusiveInv,
       Changes, TypeOK, Caller
<1>14. ASSUME NEW c \in Callers, readPIDFile(c) \/ waitForProcessHealth(c)
      PROVE  WorkInv'
    BY <1>14, LaunchedMove DEF Went, Back, Moved, table, external, WorkInv, PlaceInv
<1>15. ASSUME NEW c \in Callers, AddProcess(c)
      PROVE  WorkInv'
    BY <1>15, AddProcessMove DEF Back, Moved, external, WorkInv, PlaceInv
<1>16. ASSUME NEW c \in Callers, KillProcess(c) \/ GetProcessStatus(c)
      PROVE  WorkInv'
    BY <1>16, ProcessCallMove DEF Called, Moved, table, external, WorkInv, PlaceInv
<1>17. ASSUME NEW c \in Callers, CheckStartTime(c) \/ StatusAnswer(c)
      PROVE  WorkInv'
    BY <1>17, CheckStartMove DEF Went, Back, Moved, external, WorkInv, PlaceInv
<1>18. ASSUME NEW c \in Callers, RunKill(c)
      PROVE  WorkInv'
    BY <1>18, RunKillMove DEF Went, Back, Moved, table, WorkInv, PlaceInv
<1>19. ASSUME NEW c \in Callers, KillCleanup(c)
      PROVE  WorkInv'
    BY <1>19, CleanupMove DEF Back, Moved, WorkInv, PlaceInv
<1>20. ASSUME NEW c \in Callers, Close(c)
      PROVE  WorkInv'
    BY <1>20, CloseMove DEF Called, Moved, table, external, WorkInv, PlaceInv
<1>21. ASSUME NEW c \in Callers, CloseWait(c)
      PROVE  WorkInv'
    BY <1>21, CloseWaitMove DEF Moved, table, external, WorkInv, PlaceInv
<1>22. ASSUME NEW c \in Callers, CloseTerminate(c)
      PROVE  WorkInv'
    BY <1>22, CloseTerminateMove DEF Ended, Moved, table, WorkInv, PlaceInv, TypeOK, Caller
<1>23. ASSUME NEW c \in Callers, CloseDone(c)
      PROVE  WorkInv'
    BY <1>23, CloseDoneMove DEF Back, Moved, external, WorkInv, PlaceInv, TypeOK, Caller
<1>24. CASE Crash
    BY <1>24, CrashMove DEF external, WorkInv, PlaceInv
<1>25. CASE Recover
    BY <1>25, RecoverMove DEF external, WorkInv, PlaceInv, DownInv
<1>26. ASSUME NEW i \in Instances, Boot(i)
      PROVE  WorkInv'
    BY <1>26, BootMove DEF table, WorkInv, PlaceInv, TypeOK, Caller
<1>27. ASSUME NEW i \in Instances, Halt(i)
      PROVE  WorkInv'
    BY <1>27, HaltMove DEF table, WorkInv, PlaceInv, TypeOK, Caller
<1>28. ASSUME NEW p \in Procs, ProcessExits(p)
      PROVE  WorkInv'
    BY <1>28, ExitMove DEF table, WorkInv, PlaceInv
<1>29. ASSUME NEW p \in Procs, PidReused(p)
      PROVE  WorkInv'
    BY <1>29, PidReusedMove DEF table, WorkInv, PlaceInv
<1> QED BY <1>1, <1>2, <1>3, <1>4, <1>5, <1>6, <1>7, <1>8, <1>9, <1>10, <1>11, <1>12,
       <1>13, <1>14, <1>15, <1>16, <1>17, <1>18, <1>19, <1>20, <1>21, <1>22, <1>23,
       <1>24, <1>25, <1>26, <1>27, <1>28, <1>29 DEF Next, CallerCalls, CallerStep

\* A stopped sandbox has no live process once its instance has halted.
LEMMA StoppedStep ==
    ASSUME TypeOK, PlaceInv, InHandInv, HomeInv, KnownInv, ExclusiveInv, WorkInv,
           StoppedInv, Next
    PROVE  StoppedInv'
<1>1. ASSUME NEW c \in Callers, CreateSandbox(c)
      PROVE  StoppedInv'
    BY <1>1, CreateSandboxMove DEF table, external, StoppedInv, HomeInv
<1>2. ASSUME NEW c \in Callers, LaunchInstance(c)
      PROVE  StoppedInv'
    BY <1>2, LaunchInstanceMove DEF table, StoppedInv, HomeInv, TypeOK
<1>3. ASSUME NEW c \in Callers, WaitForInstanceReady(c) \/ WaitForSSMRegistration(c) \/ WaitFails(c)
      PROVE  StoppedInv'
    BY <1>3, WaitMove DEF table, external, StoppedInv, HomeInv
<1>4. ASSUME NEW c \in Callers, TerminateOrphan(c)
      PROVE  StoppedInv'
    BY <1>4, OrphanMove DEF Ended, table, StoppedInv, HomeInv, TypeOK
<1>5. ASSUME NEW c \in Callers, Register(c)
      PROVE  StoppedInv'
    BY <1>5, RegisterMove DEF external, StoppedInv, HomeInv, TypeOK
<1>6. ASSUME NEW c \in Callers, DestroySandbox(c) \/ PauseSandbox(c) \/ ResumeSandbox(c) \/ LaunchProcess(c)
      PROVE  StoppedInv'
    BY <1>6, LookupMove DEF table, external, StoppedInv, HomeInv
<1>7. ASSUME NEW c \in Callers, DestroyTerminate(c)
      PROVE  StoppedInv'
    BY <1>7, DestroyTerminateMove DEF Ended, table, StoppedInv, HomeInv, TypeOK
<1>8. ASSUME NEW c \in Callers, DestroyDelete(c)
      PROVE  StoppedInv'
    BY <1>8, DestroyDeleteMove DEF external, StoppedInv, HomeInv, TypeOK
<1>9. ASSUME NEW c \in Callers, StopInstance(c)
      PROVE  StoppedInv'
    BY <1>9, StopMove DEF table, StoppedInv, HomeInv, TypeOK
<1>10. ASSUME NEW c \in Callers, MarkStopped(c)
      PROVE  StoppedInv'
    BY <1>10, MarkStoppedMove DEF external, StoppedInv, HomeInv, TypeOK, WorkInv
<1>11. ASSUME NEW c \in Callers, StartInstance(c)
      PROVE  StoppedInv'
    BY <1>11, StartMove DEF table, StoppedInv, HomeInv, TypeOK
<1>12. ASSUME NEW c \in Callers, MarkRunning(c)
      PROVE  StoppedInv'
    BY <1>12, MarkRunningMove DEF table, external, StoppedInv, HomeInv, TypeOK
<1>13. ASSUME NEW c \in Callers, RunLaunch(c)
      PROVE  StoppedInv'
    BY <1>13, RunLaunchMove DEF table, StoppedInv, HomeInv, TypeOK, WorkInv, PlaceInv
<1>14. ASSUME NEW c \in Callers, readPIDFile(c) \/ waitForProcessHealth(c)
      PROVE  StoppedInv'
    BY <1>14, LaunchedMove DEF table, external, StoppedInv, HomeInv
<1>15. ASSUME NEW c \in Callers, AddProcess(c)
      PROVE  StoppedInv'
    BY <1>15, AddProcessMove DEF external, StoppedInv, HomeInv
<1>16. ASSUME NEW c \in Callers, KillProcess(c) \/ GetProcessStatus(c)
      PROVE  StoppedInv'
    BY <1>16, ProcessCallMove DEF table, external, StoppedInv, HomeInv
<1>17. ASSUME NEW c \in Callers, CheckStartTime(c) \/ StatusAnswer(c)
      PROVE  StoppedInv'
    BY <1>17, CheckStartMove DEF external, StoppedInv, HomeInv
<1>18. ASSUME NEW c \in Callers, RunKill(c)
      PROVE  StoppedInv'
    BY <1>18, RunKillMove DEF table, StoppedInv, HomeInv, TypeOK
<1>19. ASSUME NEW c \in Callers, KillCleanup(c)
      PROVE  StoppedInv'
    BY <1>19, CleanupMove DEF StoppedInv, HomeInv
<1>20. ASSUME NEW c \in Callers, Close(c)
      PROVE  StoppedInv'
    BY <1>20, CloseMove DEF table, external, StoppedInv, HomeInv
<1>21. ASSUME NEW c \in Callers, CloseWait(c)
      PROVE  StoppedInv'
    BY <1>21, CloseWaitMove DEF table, external, StoppedInv, HomeInv
<1>22. ASSUME NEW c \in Callers, CloseTerminate(c)
      PROVE  StoppedInv'
  <2>1. PICK i \in Instances : Ended(i) \/ UNCHANGED <<cloud, os>>
    BY <1>22, CloseTerminateMove
  <2>2. UNCHANGED <<inst, home>>
    BY <1>22, CloseTerminateMove DEF table
  <2> QED BY <2>1, <2>2 DEF Ended, StoppedInv, HomeInv, TypeOK
<1>23. ASSUME NEW c \in Callers, CloseDone(c)
      PROVE  StoppedInv'
    BY <1>23, CloseDoneMove DEF external, StoppedInv, HomeInv, TypeOK
<1>24. CASE Crash
    BY <1>24, CrashMove DEF external, StoppedInv, HomeInv, TypeOK
<1>25. CASE Recover
    BY <1>25, RecoverMove DEF external, StoppedInv, HomeInv, TypeOK
<1>26. ASSUME NEW i \in Instances, Boot(i)
      PROVE  StoppedInv'
    BY <1>26, BootMove DEF table, StoppedInv, HomeInv, TypeOK
<1>27. ASSUME NEW i \in Instances, Halt(i)
      PROVE  StoppedInv'
    BY <1>27, HaltMove DEF table, StoppedInv, HomeInv, TypeOK
<1>28. ASSUME NEW p \in Procs, ProcessExits(p)
      PROVE  StoppedInv'
    BY <1>28, ExitMove DEF table, StoppedInv, HomeInv, TypeOK
<1>29. ASSUME NEW p \in Procs, PidReused(p)
      PROVE  StoppedInv'
    BY <1>29, PidReusedMove DEF table, StoppedInv, HomeInv
<1> QED BY <1>1, <1>2, <1>3, <1>4, <1>5, <1>6, <1>7, <1>8, <1>9, <1>10, <1>11, <1>12,
       <1>13, <1>14, <1>15, <1>16, <1>17, <1>18, <1>19, <1>20, <1>21, <1>22, <1>23,
       <1>24, <1>25, <1>26, <1>27, <1>28, <1>29 DEF Next, CallerCalls, CallerStep

\* A kill has seen its process alive, on an instance that nobody stops.
LEMMA KillStep ==
    ASSUME TypeOK, PlaceInv, InHandInv, HomeInv, KnownInv, ExclusiveInv, DownInv, KillInv,
           Next
    PROVE  KillInv'
<1>1. ASSUME NEW c \in Callers, CreateSandbox(c)
      PROVE  KillInv'
    BY <1>1, CreateSandboxMove DEF Called, Moved, external, history, KillInv
<1>2. ASSUME NEW c \in Callers, LaunchInstance(c)
      PROVE  KillInv'
    BY <1>2, LaunchInstanceMove DEF Back, Moved, KillInv, TypeOK, PlaceInv, Caller
<1>3. ASSUME NEW c \in Callers, WaitForInstanceReady(c) \/ WaitForSSMRegistration(c) \/ WaitFails(c)
      PROVE  KillInv'
    BY <1>3, WaitMove DEF Went, Back, Moved, external, history, KillInv
<1>4. ASSUME NEW c \in Callers, TerminateOrphan(c)
      PROVE  KillInv'
    BY <1>4, OrphanMove DEF Back, Ended, Moved, KillInv, TypeOK, PlaceInv, Caller, InHandInv
<1>5. ASSUME NEW c \in Callers, Register(c)
      PROVE  KillInv'
    BY <1>5, RegisterMove DEF Went, Back, Moved, external, history, KillInv
<1>6. ASSUME NEW c \in Callers, DestroySandbox(c) \/ PauseSandbox(c) \/ ResumeSandbox(c) \/ LaunchProcess(c)
      PROVE  KillInv'
    BY <1>6, LookupMove DEF Called, Moved, external, history, KillInv
<1>7. ASSUME NEW c \in Callers, DestroyTerminate(c)
      PROVE  KillInv'
  <2>1. Ended(caller[c].i) \/ UNCHANGED <<cloud, os>>
    BY <1>7, DestroyTerminateMove
  <2>2. \A d \in Callers : \/ caller'[d].pc \in {"ready", "delete"}
                          \/ caller'[d] = caller[d]
    BY <1>7, DestroyTerminateMove DEF Went, Back, Moved
  <2>3. UNCHANGED <<hit, raced>>
    BY <1>7, DestroyTerminateMove DEF history
  <2> QED BY <2>1, <2>2, <2>3 DEF Ended, KillInv, TypeOK, PlaceInv, Caller, InHandInv
<1>8. ASSUME NEW c \in Callers, DestroyDelete(c)
      PROVE  KillInv'
    BY <1>8, DestroyDeleteMove DEF Back, Moved, external, history, KillInv
<1>9. ASSUME NEW c \in Callers, StopInstance(c)
      PROVE  KillInv'
    BY <1>9, StopMove DEF Went, Back, Moved, history, KillInv, ExclusiveInv, Changes,
       TypeOK, Caller, PlaceInv
<1>10. ASSUME NEW c \in Callers, MarkStopped(c)
      PROVE  KillInv'
    BY <1>10, MarkStoppedMove DEF Back, Moved, external, history, KillInv
<1>11. ASSUME NEW c \in Callers, StartInstance(c)
      PROVE  KillInv'
    BY <1>11, StartMove DEF Went, Back, Moved, history, KillInv, TypeOK, Caller, PlaceInv
<1>12. ASSUME NEW c \in Callers, MarkRunning(c)
      PROVE  KillInv'
    BY <1>12, MarkRunningMove DEF Back, Moved, external, history, KillInv
<1>13. ASSUME NEW c \in Callers, RunLaunch(c)
      PROVE  KillInv'
    BY <1>13, RunLaunchMove, SMTT(20) DEF Back, Moved, KillInv, TypeOK, PlaceInv, InHandInv, HomeInv,
       Caller
<1>14. ASSUME NEW c \in Callers, readPIDFile(c) \/ waitForProcessHealth(c)
      PROVE  KillInv'
    BY <1>14, LaunchedMove DEF Went, Back, Moved, external, KillInv
<1>15. ASSUME NEW c \in Callers, AddProcess(c)
      PROVE  KillInv'
    BY <1>15, AddProcessMove DEF Back, Moved, external, KillInv
<1>16. ASSUME NEW c \in Callers, KillProcess(c) \/ GetProcessStatus(c)
      PROVE  KillInv'
    BY <1>16, ProcessCallMove DEF Called, Moved, external, history, KillInv
<1>17. ASSUME NEW c \in Callers, CheckStartTime(c) \/ StatusAnswer(c)
      PROVE  KillInv'
    BY <1>17, CheckStartMove DEF Went, Back, Moved, external, history, KillInv
<1>18. ASSUME NEW c \in Callers, RunKill(c)
      PROVE  KillInv'
    BY <1>18, RunKillMove DEF Went, Back, Moved, KillInv, TypeOK, PlaceInv, InHandInv,
       HomeInv
<1>19. ASSUME NEW c \in Callers, KillCleanup(c)
      PROVE  KillInv'
    BY <1>19, CleanupMove DEF Back, Moved, history, KillInv
<1>20. ASSUME NEW c \in Callers, Close(c)
      PROVE  KillInv'
    BY <1>20, CloseMove DEF Called, Moved, external, history, KillInv
<1>21. ASSUME NEW c \in Callers, CloseWait(c)
      PROVE  KillInv'
    BY <1>21, CloseWaitMove DEF Moved, external, history, KillInv
<1>22. ASSUME NEW c \in Callers, CloseTerminate(c)
      PROVE  KillInv'
    BY <1>22, CloseTerminateMove, SMTT(20) DEF Ended, Moved, KillInv, TypeOK, PlaceInv, Caller,
       InHandInv
<1>23. ASSUME NEW c \in Callers, CloseDone(c)
      PROVE  KillInv'
    BY <1>23, CloseDoneMove DEF Back, Moved, external, history, KillInv
<1>24. CASE Crash
    BY <1>24, CrashMove DEF external, history, KillInv
<1>25. CASE Recover
    BY <1>25, RecoverMove DEF external, KillInv
<1>26. ASSUME NEW i \in Instances, Boot(i)
      PROVE  KillInv'
    BY <1>26, BootMove DEF history, KillInv, TypeOK, Caller, PlaceInv
<1>27. ASSUME NEW i \in Instances, Halt(i)
      PROVE  KillInv'
    BY <1>27, HaltMove DEF history, KillInv, TypeOK, Caller, PlaceInv, InHandInv
<1>28. ASSUME NEW p \in Procs, ProcessExits(p)
      PROVE  KillInv'
    BY <1>28, ExitMove DEF KillInv, TypeOK, InHandInv
<1>29. ASSUME NEW p \in Procs, PidReused(p)
      PROVE  KillInv'
    BY <1>29, PidReusedMove DEF history, KillInv
<1> QED BY <1>1, <1>2, <1>3, <1>4, <1>5, <1>6, <1>7, <1>8, <1>9, <1>10, <1>11, <1>12,
       <1>13, <1>14, <1>15, <1>16, <1>17, <1>18, <1>19, <1>20, <1>21, <1>22, <1>23,
       <1>24, <1>25, <1>26, <1>27, <1>28, <1>29 DEF Next, CallerCalls, CallerStep

\* Close waits for the creates and lists what is left.
LEMMA CloseStep ==
    ASSUME TypeOK, PlaceInv, InHandInv, HomeInv, KnownInv, ExclusiveInv, DownInv, CountInv,
           CloseInv, Next
    PROVE  CloseInv'
<1>1. ASSUME NEW c \in Callers, CreateSandbox(c)
      PROVE  CloseInv'
    BY <1>1, CreateSandboxMove DEF Called, Moved, table, external, history, CloseInv,
       Closed, Creators, PlaceInv
<1>2. ASSUME NEW c \in Callers, LaunchInstance(c)
      PROVE  CloseInv'
    BY <1>2, LaunchInstanceMove DEF Back, Moved, table, CloseInv, Closed, Creators,
       PlaceInv, TypeOK
<1>3. ASSUME NEW c \in Callers, WaitForInstanceReady(c) \/ WaitForSSMRegistration(c) \/ WaitFails(c)
      PROVE  CloseInv'
    BY <1>3, WaitMove DEF Went, Back, Moved, table, external, history, CloseInv, Closed,
       Creators, PlaceInv
<1>4. ASSUME NEW c \in Callers, TerminateOrphan(c)
      PROVE  CloseInv'
    BY <1>4, OrphanMove DEF Back, Ended, Moved, table, CloseInv, Closed, Creators, PlaceInv,
       TypeOK
<1>5. ASSUME NEW c \in Callers, Register(c)
      PROVE  CloseInv'
    BY <1>5, RegisterMove DEF Went, Back, Moved, external, history, CloseInv, Closed,
       Creators, PlaceInv, TypeOK
<1>6. ASSUME NEW c \in Callers, DestroySandbox(c) \/ PauseSandbox(c) \/ ResumeSandbox(c) \/ LaunchProcess(c)
      PROVE  CloseInv'
    BY <1>6, LookupMove DEF Called, Moved, table, external, history, CloseInv, Closed,
       Creators, PlaceInv
<1>7. ASSUME NEW c \in Callers, DestroyTerminate(c)
      PROVE  CloseInv'
    BY <1>7, DestroyTerminateMove DEF Went, Back, Ended, Moved, table, history, CloseInv,
       Closed, Creators, PlaceInv, TypeOK
<1>8. ASSUME NEW c \in Callers, DestroyDelete(c)
      PROVE  CloseInv'
    BY <1>8, DestroyDeleteMove DEF Back, Moved, external, history, CloseInv, Closed,
       Creators, PlaceInv, TypeOK
<1>9. ASSUME NEW c \in Callers, StopInstance(c)
      PROVE  CloseInv'
    BY <1>9, StopMove DEF Went, Back, Moved, table, history, CloseInv, Closed, Creators,
       PlaceInv, TypeOK
<1>10. ASSUME NEW c \in Callers, MarkStopped(c)
      PROVE  CloseInv'
    BY <1>10, MarkStoppedMove DEF Back, Moved, external, history, CloseInv, Closed,
       Creators, PlaceInv, TypeOK
<1>11. ASSUME NEW c \in Callers, StartInstance(c)
      PROVE  CloseInv'
    BY <1>11, StartMove DEF Went, Back, Moved, table, history, CloseInv, Closed, Creators,
       PlaceInv, TypeOK
<1>12. ASSUME NEW c \in Callers, MarkRunning(c)
      PROVE  CloseInv'
    BY <1>12, MarkRunningMove DEF Back, Moved, table, external, history, CloseInv, Closed,
       Creators, PlaceInv, TypeOK
<1>13. ASSUME NEW c \in Callers, RunLaunch(c)
      PROVE  CloseInv'
    BY <1>13, RunLaunchMove DEF Back, Moved, table, CloseInv, Closed, Creators, PlaceInv
<1>14. ASSUME NEW c \in Callers, readPIDFile(c) \/ waitForProcessHealth(c)
      PROVE  CloseInv'
    BY <1>14, LaunchedMove DEF Went, Back, Moved, table, external, CloseInv, Closed,
       Creators, PlaceInv
<1>15. ASSUME NEW c \in Callers, AddProcess(c)
      PROVE  CloseInv'
    BY <1>15, AddProcessMove DEF Back, Moved, external, CloseInv, Closed, Creators, PlaceInv
<1>16. ASSUME NEW c \in Callers, KillProcess(c) \/ GetProcessStatus(c)
      PROVE  CloseInv'
    BY <1>16, ProcessCallMove DEF Called, Moved, table, external, history, CloseInv, Closed,
       Creators, PlaceInv
<1>17. ASSUME NEW c \in Callers, CheckStartTime(c) \/ StatusAnswer(c)
      PROVE  CloseInv'
    BY <1>17, CheckStartMove DEF Went, Back, Moved, external, history, CloseInv, Closed,
       Creators, PlaceInv
<1>18. ASSUME NEW c \in Callers, RunKill(c)
      PROVE  CloseInv'
    BY <1>18, RunKillMove DEF Went, Back, Moved, table, CloseInv, Closed, Creators, PlaceInv
<1>19. ASSUME NEW c \in Callers, KillCleanup(c)
      PROVE  CloseInv'
    BY <1>19, CleanupMove DEF Back, Moved, history, CloseInv, Closed, Creators, PlaceInv
<1>20. ASSUME NEW c \in Callers, Close(c)
      PROVE  CloseInv'
    BY <1>20, CloseMove DEF Called, Moved, table, external, history, CloseInv, Closed,
       Creators, PlaceInv
<1>21. ASSUME NEW c \in Callers, CloseWait(c)
      PROVE  CloseInv'
  <2>1. Creators = {}
    <3>1. Creators \subseteq Callers
      BY DEF Creators
    <3> QED BY <1>21, CloseWaitMove, <3>1, DirectAssumption, FS_Subset, FS_EmptySet DEF CountInv
  <2> QED BY <1>21, CloseWaitMove, <2>1 DEF Moved, table, history, external, CloseInv, Closed, Creators, PlaceInv
<1>22. ASSUME NEW c \in Callers, CloseTerminate(c)
      PROVE  CloseInv'
    BY <1>22, CloseTerminateMove DEF Ended, Moved, table, CloseInv, Closed, Creators,
       PlaceInv, TypeOK
<1>23. ASSUME NEW c \in Callers, CloseDone(c)
      PROVE  CloseInv'
    BY <1>23, CloseDoneMove DEF Back, Moved, external, history, CloseInv, Closed, Creators,
       PlaceInv
<1>24. CASE Crash
    BY <1>24, CrashMove DEF external, history, CloseInv, Closed, Creators, PlaceInv
<1>25. CASE Recover
    BY <1>25, RecoverMove DEF external, CloseInv, Closed, Creators, PlaceInv, DownInv
<1>26. ASSUME NEW i \in Instances, Boot(i)
      PROVE  CloseInv'
    BY <1>26, BootMove DEF table, history, CloseInv, Closed, Creators, PlaceInv, TypeOK
<1>27. ASSUME NEW i \in Instances, Halt(i)
      PROVE  CloseInv'
    BY <1>27, HaltMove DEF table, history, CloseInv, Closed, Creators, PlaceInv, TypeOK
<1>28. ASSUME NEW p \in Procs, ProcessExits(p)
      PROVE  CloseInv'
    BY <1>28, ExitMove DEF table, CloseInv, Closed, Creators, PlaceInv
<1>29. ASSUME NEW p \in Procs, PidReused(p)
      PROVE  CloseInv'
    BY <1>29, PidReusedMove DEF table, history, CloseInv, Closed, Creators, PlaceInv
<1> QED BY <1>1, <1>2, <1>3, <1>4, <1>5, <1>6, <1>7, <1>8, <1>9, <1>10, <1>11, <1>12,
       <1>13, <1>14, <1>15, <1>16, <1>17, <1>18, <1>19, <1>20, <1>21, <1>22, <1>23,
       <1>24, <1>25, <1>26, <1>27, <1>28, <1>29 DEF Next, CallerCalls, CallerStep

\* No instance runs unknown to the adapter.
LEMMA OwnedStep ==
    ASSUME TypeOK, PlaceInv, InHandInv, HomeInv, KnownInv, ExclusiveInv, WorkInv, DownInv,
           CloseInv, OwnedInv, Next
    PROVE  OwnedInv'
<1>1. ASSUME NEW c \in Callers, CreateSandbox(c)
      PROVE  OwnedInv'
  <2>1. up /\ (Closed => Closed')
    BY <1>1, CreateSandboxMove DEF Called, Moved, Closed, PlaceInv
  <2>2. \A i \in Instances : Creating(i) => Creating(i)'
    BY <1>1, CreateSandboxMove, Bounds DEF Called, Moved, Creating, PlaceInv
  <2> QED BY <1>1, CreateSandboxMove, <2>1, <2>2 DEF table, external, history, OwnedInv, Owned
<1>2. ASSUME NEW c \in Callers, LaunchInstance(c)
      PROVE  OwnedInv'
  <2>1. up /\ (Closed => Closed')
    BY <1>2, LaunchInstanceMove DEF Back, Moved, Closed, PlaceInv
  <2>2. \A i \in Instances : Creating(i) => Creating(i)'
    BY <1>2, LaunchInstanceMove, Bounds DEF Back, Moved, Creating, PlaceInv
  <2>3. \A i \in Instances : cloud'[i] \in Live => cloud[i] \in Live \/ Creating(i)' \/ i \in unsure'
    BY <1>2, LaunchInstanceMove DEF Back, Moved, Creating, PlaceInv, TypeOK, Live
  <2>4. unsure \subseteq unsure'
    BY <1>2, LaunchInstanceMove
  <2> QED BY <1>2, LaunchInstanceMove, <2>1, <2>2, <2>3, <2>4 DEF table, OwnedInv, Owned
<1>3. ASSUME NEW c \in Callers, WaitForInstanceReady(c) \/ WaitForSSMRegistration(c) \/ WaitFails(c)
      PROVE  OwnedInv'
  <2>1. up /\ (Closed => Closed')
    BY <1>3, WaitMove DEF Went, Back, Moved, Closed, PlaceInv
  <2>2. \A i \in Instances : Creating(i) => Creating(i)'
    BY <1>3, WaitMove, Bounds DEF Went, Back, Moved, Creating, PlaceInv
  <2> QED BY <1>3, WaitMove, <2>1, <2>2 DEF table, external, history, OwnedInv, Owned
<1>4. ASSUME NEW c \in Callers, TerminateOrphan(c)
      PROVE  OwnedInv'
  <2>1. up /\ (Closed => Closed')
    BY <1>4, OrphanMove DEF Back, Moved, Closed, PlaceInv
  <2>2. \A i \in Instances : Creating(i) => Creating(i)' \/ i = caller[c].i
    BY <1>4, OrphanMove, Bounds DEF Back, Moved, Creating, PlaceInv
  <2> QED BY <1>4, OrphanMove, <2>1, <2>2 DEF Ended, table, OwnedInv, Owned, TypeOK, Live
<1>5. ASSUME NEW c \in Callers, Register(c)
      PROVE  OwnedInv'
  <2>1. up /\ (Closed => Closed')
    BY <1>5, RegisterMove DEF Went, Back, Moved, Closed, PlaceInv
  <2>2. \A i \in Instances : Creating(i) => Creating(i)' \/ i = caller[c].i
    BY <1>5, RegisterMove, Bounds DEF Went, Back, Moved, Creating, PlaceInv
  <2>3. \A i \in Instances : (inst[i] # "absent" => inst'[i] # "absent") /\ (i = caller[c].i => inst'[i] # "absent" \/ Creating(i)')
    BY <1>5, RegisterMove DEF Went, Back, Moved, Creating, PlaceInv, TypeOK
  <2>4. UNCHANGED <<unsure, cloud>>
    BY <1>5, RegisterMove DEF external, history
  <2> QED BY <2>1, <2>2, <2>3, <2>4 DEF OwnedInv, Owned
<1>6. ASSUME NEW c \in Callers, DestroySandbox(c) \/ PauseSandbox(c) \/ ResumeSandbox(c) \/ LaunchProcess(c)
      PROVE  OwnedInv'
  <2>1. up /\ (Closed => Closed')
    BY <1>6, LookupMove DEF Called, Moved, Closed, PlaceInv
  <2>2. \A i \in Instances : Creating(i) => Creating(i)'
    BY <1>6, LookupMove, Bounds DEF Called, Moved, Creating, PlaceInv
  <2> QED BY <1>6, LookupMove, <2>1, <2>2 DEF table, external, history, OwnedInv, Owned
<1>7. ASSUME NEW c \in Callers, DestroyTerminate(c)
      PROVE  OwnedInv'
  <2>1. up /\ (Closed => Closed')
    BY <1>7, DestroyTerminateMove DEF Went, Back, Moved, Closed, PlaceInv
  <2>2. \A i \in Instances : Creating(i) => Creating(i)'
    BY <1>7, DestroyTerminateMove, Bounds DEF Went, Back, Moved, Creating, PlaceInv
  <2> QED BY <1>7, DestroyTerminateMove, <2>1, <2>2 DEF Ended, table, history, OwnedInv, Owned, TypeOK, Live
<1>8. ASSUME NEW c \in Callers, DestroyDelete(c)
      PROVE  OwnedInv'
  <2>1. up /\ (Closed => Closed')
    BY <1>8, DestroyDeleteMove DEF Back, Moved, Closed, PlaceInv
  <2>2. \A i \in Instances : Creating(i) => Creating(i)'
    BY <1>8, DestroyDeleteMove, Bounds DEF Back, Moved, Creating, PlaceInv
  <2>3. cloud[caller[c].i] \notin Live
    BY <1>8, DestroyDeleteMove DEF WorkInv, Live
  <2> QED BY <1>8, DestroyDeleteMove, <2>1, <2>2, <2>3 DEF external, history, OwnedInv, Owned, TypeOK
<1>9. ASSUME NEW c \in Callers, StopInstance(c)
      PROVE  OwnedInv'
  <2>1. up /\ (Closed => Closed')
    BY <1>9, StopMove DEF Went, Back, Moved, Closed, PlaceInv
  <2>2. \A i \in Instances : Creating(i) => Creating(i)'
    BY <1>9, StopMove, Bounds DEF Went, Back, Moved, Creating, PlaceInv
  <2> QED BY <1>9, StopMove, <2>1, <2>2 DEF table, history, OwnedInv, Owned, TypeOK, Live
<1>10. ASSUME NEW c \in Callers, MarkStopped(c)
      PROVE  OwnedInv'
  <2>1. up /\ (Closed => Closed')
    BY <1>10, MarkStoppedMove DEF Back, Moved, Closed, PlaceInv
  <2>2. \A i \in Instances : Creating(i) => Creating(i)'
    BY <1>10, MarkStoppedMove, Bounds DEF Back, Moved, Creating, PlaceInv
  <2> QED BY <1>10, MarkStoppedMove, <2>1, <2>2 DEF external, history, OwnedInv, Owned, TypeOK
<1>11. ASSUME NEW c \in Callers, StartInstance(c)
      PROVE  OwnedInv'
  <2>1. up /\ (Closed => Closed')
    BY <1>11, StartMove DEF Went, Back, Moved, Closed, PlaceInv
  <2>2. \A i \in Instances : Creating(i) => Creating(i)'
    BY <1>11, StartMove, Bounds DEF Went, Back, Moved, Creating, PlaceInv
  <2> QED BY <1>11, StartMove, <2>1, <2>2 DEF table, history, OwnedInv, Owned, TypeOK, Live
<1>12. ASSUME NEW c \in Callers, MarkRunning(c)
      PROVE  OwnedInv'
  <2>1. up /\ (Closed => Closed')
    BY <1>12, MarkRunningMove DEF Back, Moved, Closed, PlaceInv
  <2>2. \A i \in Instances : Creating(i) => Creating(i)'
    BY <1>12, MarkRunningMove, Bounds DEF Back, Moved, Creating, PlaceInv
  <2> QED BY <1>12, MarkRunningMove, <2>1, <2>2 DEF table, external, history, OwnedInv, Owned, TypeOK
<1>13. ASSUME NEW c \in Callers, RunLaunch(c)
      PROVE  OwnedInv'
  <2>1. up /\ (Closed => Closed')
    BY <1>13, RunLaunchMove DEF Back, Moved, Closed, PlaceInv
  <2>2. \A i \in Instances : Creating(i) => Creating(i)'
    BY <1>13, RunLaunchMove, Bounds DEF Back, Moved, Creating, PlaceInv
  <2> QED BY <1>13, RunLaunchMove, <2>1, <2>2 DEF table, OwnedInv, Owned
<1>14. ASSUME NEW c \in Callers, readPIDFile(c) \/ waitForProcessHealth(c)
      PROVE  OwnedInv'
  <2>1. up /\ (Closed => Closed')
    BY <1>14, LaunchedMove DEF Went, Back, Moved, Closed, PlaceInv
  <2>2. \A i \in Instances : Creating(i) => Creating(i)'
    BY <1>14, LaunchedMove, Bounds DEF Went, Back, Moved, Creating, PlaceInv
  <2> QED BY <1>14, LaunchedMove, <2>1, <2>2 DEF table, external, OwnedInv, Owned
<1>15. ASSUME NEW c \in Callers, AddProcess(c)
      PROVE  OwnedInv'
  <2>1. up /\ (Closed => Closed')
    BY <1>15, AddProcessMove DEF Back, Moved, Closed, PlaceInv
  <2>2. \A i \in Instances : Creating(i) => Creating(i)'
    BY <1>15, AddProcessMove, Bounds DEF Back, Moved, Creating, PlaceInv
  <2> QED BY <1>15, AddProcessMove, <2>1, <2>2 DEF external, OwnedInv, Owned
<1>16. ASSUME NEW c \in Callers, KillProcess(c) \/ GetProcessStatus(c)
      PROVE  OwnedInv'
  <2>1. up /\ (Closed => Closed')
    BY <1>16, ProcessCallMove DEF Called, Moved, Closed, PlaceInv
  <2>2. \A i \in Instances : Creating(i) => Creating(i)'
    BY <1>16, ProcessCallMove, Bounds DEF Called, Moved, Creating, PlaceInv
  <2> QED BY <1>16, ProcessCallMove, <2>1, <2>2 DEF table, external, history, OwnedInv, Owned
<1>17. ASSUME NEW c \in Callers, CheckStartTime(c) \/ StatusAnswer(c)
      PROVE  OwnedInv'
  <2>1. up /\ (Closed => Closed')
    BY <1>17, CheckStartMove DEF Went, Back, Moved, Closed, PlaceInv
  <2>2. \A i \in Instances : Creating(i) => Creating(i)'
    BY <1>17, CheckStartMove, Bounds DEF Went, Back, Moved, Creating, PlaceInv
  <2> QED BY <1>17, CheckStartMove, <2>1, <2>2 DEF external, history, OwnedInv, Owned
<1>18. ASSUME NEW c \in Callers, RunKill(c)
      PROVE  OwnedInv'
  <2>1. up /\ (Closed => Closed')
    BY <1>18, RunKillMove DEF Went, Back, Moved, Closed, PlaceInv
  <2>2. \A i \in Instances : Creating(i) => Creating(i)'
    BY <1>18, RunKillMove, Bounds DEF Went, Back, Moved, Creating, PlaceInv
  <2> QED BY <1>18, RunKillMove, <2>1, <2>2 DEF table, OwnedInv, Owned
<1>19. ASSUME NEW c \in Callers, KillCleanup(c)
      PROVE  OwnedInv'
  <2>1. up /\ (Closed => Closed')
    BY <1>19, CleanupMove DEF Back, Moved, Closed, PlaceInv
  <2>2. \A i \in Instances : Creating(i) => Creating(i)'
    BY <1>19, CleanupMove, Bounds DEF Back, Moved, Creating, PlaceInv
  <2> QED BY <1>19, CleanupMove, <2>1, <2>2 DEF history, OwnedInv, Owned
<1>20. ASSUME NEW c \in Callers, Close(c)
      PROVE  OwnedInv'
  <2>1. up /\ (Closed => Closed')
    BY <1>20, CloseMove DEF Called, Moved, Closed, PlaceInv
  <2>2. \A i \in Instances : Creating(i) => Creating(i)'
    BY <1>20, CloseMove, Bounds DEF Called, Moved, Creating, PlaceInv
  <2> QED BY <1>20, CloseMove, <2>1, <2>2 DEF table, external, history, OwnedInv, Owned
<1>21. ASSUME NEW c \in Callers, CloseWait(c)
      PROVE  OwnedInv'
  <2>1. up /\ (Closed => Closed')
    BY <1>21, CloseWaitMove DEF Moved, Closed, PlaceInv
  <2>2. \A i \in Instances : Creating(i) => Creating(i)'
    BY <1>21, CloseWaitMove, Bounds DEF Moved, Creating, PlaceInv
  <2> QED BY <1>21, CloseWaitMove, <2>1, <2>2 DEF table, external, history, OwnedInv, Owned
<1>22. ASSUME NEW c \in Callers, CloseTerminate(c)
      PROVE  OwnedInv'
  <2>1. up /\ (Closed => Closed')
    BY <1>22, CloseTerminateMove DEF Moved, Closed, PlaceInv
  <2>2. \A i \in Instances : Creating(i) => Creating(i)'
    BY <1>22, CloseTerminateMove, Bounds DEF Moved, Creating, PlaceInv
  <2>3. \A j \in Instances : cloud'[j] \in Live => cloud[j] \in Live
    <3>1. "gone" \notin Live
      BY DEF Live
    <3>2. PICK k \in Instances : cloud' = [cloud EXCEPT ![k] = "gone"] \/ cloud' = cloud
      BY <1>22, CloseTerminateMove DEF Ended
    <3> QED BY <3>1, <3>2 DEF TypeOK
  <2>4. unsure \subseteq unsure' /\ inst' = inst
    BY <1>22, CloseTerminateMove DEF table
  <2> QED BY <2>1, <2>2, <2>3, <2>4 DEF OwnedInv, Owned
<1>23. ASSUME NEW c \in Callers, CloseDone(c)
      PROVE  OwnedInv'
  <2>1. up /\ (Closed => Closed')
    BY <1>23, CloseDoneMove DEF Back, Moved, Closed, PlaceInv
  <2>2. \A i \in Instances : Creating(i) => Creating(i)'
    BY <1>23, CloseDoneMove, Bounds DEF Back, Moved, Creating, PlaceInv
  <2>3. \A i \in Instances : TerminateOnClose /\ cloud[i] \in Live => inst[i] = "absent" \/ i \in unsure
    BY <1>23, CloseDoneMove DEF CloseInv, Live
  <2>4. ~TerminateOnClose => Closed'
    BY <1>23, CloseDoneMove DEF Back, Moved, Closed, CloseInv, PlaceInv
  <2> QED BY <1>23, CloseDoneMove, <2>1, <2>2, <2>3, <2>4 DEF external, history, OwnedInv, Owned
<1>24. CASE Crash
    BY <1>24, CrashMove DEF external, history, OwnedInv
<1>25. CASE Recover
    BY <1>25, RecoverMove DEF external, OwnedInv, Owned, Live, TypeOK
<1>26. ASSUME NEW i \in Instances, Boot(i)
      PROVE  OwnedInv'
  <2>1. (Closed => Closed') /\ \A j \in Instances : Creating(j) => Creating(j)'
    BY <1>26, BootMove DEF Closed, Creating
  <2>2. (up' => up) /\ UNCHANGED <<inst, unsure>>
    BY <1>26, BootMove DEF table, history
  <2>3. \A j \in Instances : cloud'[j] \in Live => cloud[j] \in Live
    BY <1>26, BootMove DEF TypeOK, Live
  <2> QED BY <2>1, <2>2, <2>3 DEF OwnedInv, Owned
<1>27. ASSUME NEW i \in Instances, Halt(i)
      PROVE  OwnedInv'
  <2>1. (Closed => Closed') /\ \A j \in Instances : Creating(j) => Creating(j)'
    BY <1>27, HaltMove DEF Closed, Creating
  <2>2. (up' => up) /\ UNCHANGED <<inst, unsure>>
    BY <1>27, HaltMove DEF table, history
  <2>3. \A j \in Instances : cloud'[j] \in Live => cloud[j] \in Live
    BY <1>27, HaltMove DEF TypeOK, Live
  <2> QED BY <2>1, <2>2, <2>3 DEF OwnedInv, Owned
<1>28. ASSUME NEW p \in Procs, ProcessExits(p)
      PROVE  OwnedInv'
  <2>1. (Closed => Closed') /\ \A j \in Instances : Creating(j) => Creating(j)'
    BY <1>28, ExitMove DEF Closed, Creating
  <2>2. (up' => up) /\ UNCHANGED <<inst, unsure>>
    BY <1>28, ExitMove DEF table, history
  <2>3. \A j \in Instances : cloud'[j] \in Live => cloud[j] \in Live
    BY <1>28, ExitMove
  <2> QED BY <2>1, <2>2, <2>3 DEF OwnedInv, Owned
<1>29. ASSUME NEW p \in Procs, PidReused(p)
      PROVE  OwnedInv'
  <2>1. (Closed => Closed') /\ \A j \in Instances : Creating(j) => Creating(j)'
    BY <1>29, PidReusedMove DEF Closed, Creating
  <2>2. (up' => up) /\ UNCHANGED <<inst, unsure>>
    BY <1>29, PidReusedMove DEF table, history
  <2>3. \A j \in Instances : cloud'[j] \in Live => cloud[j] \in Live
    BY <1>29, PidReusedMove
  <2> QED BY <2>1, <2>2, <2>3 DEF OwnedInv, Owned
<1> QED BY <1>1, <1>2, <1>3, <1>4, <1>5, <1>6, <1>7, <1>8, <1>9, <1>10, <1>11, <1>12,
       <1>13, <1>14, <1>15, <1>16, <1>17, <1>18, <1>19, <1>20, <1>21, <1>22, <1>23,
       <1>24, <1>25, <1>26, <1>27, <1>28, <1>29 DEF Next, CallerCalls, CallerStep

\* A live process has its PID file: only a kill that took removes one.
LEMMA FileStep ==
    ASSUME TypeOK, PlaceInv, HomeInv, KillInv, FileInv, Next
    PROVE  FileInv'
<1>1. ASSUME NEW c \in Callers, CreateSandbox(c)
      PROVE  FileInv'
    BY <1>1, CreateSandboxMove DEF external, history, FileInv
<1>2. ASSUME NEW c \in Callers, LaunchInstance(c)
      PROVE  FileInv'
    BY <1>2, LaunchInstanceMove DEF FileInv
<1>3. ASSUME NEW c \in Callers, WaitForInstanceReady(c) \/ WaitForSSMRegistration(c) \/ WaitFails(c)
      PROVE  FileInv'
    BY <1>3, WaitMove DEF external, history, FileInv
<1>4. ASSUME NEW c \in Callers, TerminateOrphan(c)
      PROVE  FileInv'
    BY <1>4, OrphanMove DEF Ended, TypeOK, FileInv
<1>5. ASSUME NEW c \in Callers, Register(c)
      PROVE  FileInv'
    BY <1>5, RegisterMove DEF external, history, FileInv
<1>6. ASSUME NEW c \in Callers, DestroySandbox(c) \/ PauseSandbox(c) \/ ResumeSandbox(c) \/ LaunchProcess(c)
      PROVE  FileInv'
    BY <1>6, LookupMove DEF external, history, FileInv
<1>7. ASSUME NEW c \in Callers, DestroyTerminate(c)
      PROVE  FileInv'
    BY <1>7, DestroyTerminateMove DEF Ended, history, TypeOK, FileInv
<1>8. ASSUME NEW c \in Callers, DestroyDelete(c)
      PROVE  FileInv'
    BY <1>8, DestroyDeleteMove DEF external, history, FileInv
<1>9. ASSUME NEW c \in Callers, StopInstance(c)
      PROVE  FileInv'
    BY <1>9, StopMove DEF history, FileInv
<1>10. ASSUME NEW c \in Callers, MarkStopped(c)
      PROVE  FileInv'
    BY <1>10, MarkStoppedMove DEF external, history, FileInv
<1>11. ASSUME NEW c \in Callers, StartInstance(c)
      PROVE  FileInv'
    BY <1>11, StartMove DEF history, FileInv
<1>12. ASSUME NEW c \in Callers, MarkRunning(c)
      PROVE  FileInv'
    BY <1>12, MarkRunningMove DEF external, FileInv
<1>13. ASSUME NEW c \in Callers, RunLaunch(c)
      PROVE  FileInv'
    BY <1>13, RunLaunchMove DEF TypeOK, FileInv
<1>14. ASSUME NEW c \in Callers, readPIDFile(c) \/ waitForProcessHealth(c)
      PROVE  FileInv'
    BY <1>14, LaunchedMove DEF external, FileInv
<1>15. ASSUME NEW c \in Callers, AddProcess(c)
      PROVE  FileInv'
    BY <1>15, AddProcessMove DEF external, FileInv
<1>16. ASSUME NEW c \in Callers, KillProcess(c) \/ GetProcessStatus(c)
      PROVE  FileInv'
    BY <1>16, ProcessCallMove DEF external, history, FileInv
<1>17. ASSUME NEW c \in Callers, CheckStartTime(c) \/ StatusAnswer(c)
      PROVE  FileInv'
    BY <1>17, CheckStartMove DEF external, history, FileInv
<1>18. ASSUME NEW c \in Callers, RunKill(c)
      PROVE  FileInv'
    BY <1>18, RunKillMove DEF TypeOK, FileInv
<1>19. ASSUME NEW c \in Callers, KillCleanup(c)
      PROVE  FileInv'
    BY <1>19, CleanupMove DEF history, KillInv, FileInv
<1>20. ASSUME NEW c \in Callers, Close(c)
      PROVE  FileInv'
    BY <1>20, CloseMove DEF external, history, FileInv
<1>21. ASSUME NEW c \in Callers, CloseWait(c)
      PROVE  FileInv'
    BY <1>21, CloseWaitMove DEF external, history, FileInv
<1>22. ASSUME NEW c \in Callers, CloseTerminate(c)
      PROVE  FileInv'
    BY <1>22, CloseTerminateMove DEF Ended, TypeOK, FileInv
<1>23. ASSUME NEW c \in Callers, CloseDone(c)
      PROVE  FileInv'
    BY <1>23, CloseDoneMove DEF external, history, FileInv
<1>24. CASE Crash
    BY <1>24, CrashMove DEF external, history, FileInv
<1>25. CASE Recover
    BY <1>25, RecoverMove DEF external, FileInv
<1>26. ASSUME NEW i \in Instances, Boot(i)
      PROVE  FileInv'
    BY <1>26, BootMove DEF history, FileInv
<1>27. ASSUME NEW i \in Instances, Halt(i)
      PROVE  FileInv'
    BY <1>27, HaltMove DEF history, TypeOK, FileInv
<1>28. ASSUME NEW p \in Procs, ProcessExits(p)
      PROVE  FileInv'
    BY <1>28, ExitMove DEF TypeOK, FileInv
<1>29. ASSUME NEW p \in Procs, PidReused(p)
      PROVE  FileInv'
    BY <1>29, PidReusedMove DEF history, FileInv
<1> QED BY <1>1, <1>2, <1>3, <1>4, <1>5, <1>6, <1>7, <1>8, <1>9, <1>10, <1>11, <1>12,
       <1>13, <1>14, <1>15, <1>16, <1>17, <1>18, <1>19, <1>20, <1>21, <1>22, <1>23,
       <1>24, <1>25, <1>26, <1>27, <1>28, <1>29 DEF Next, CallerCalls, CallerStep

\* The adapter does not forget a live process.
LEMMA TrackedStep ==
    ASSUME TypeOK, PlaceInv, InHandInv, HomeInv, KnownInv, ExclusiveInv, WorkInv,
           StoppedInv, KillInv, FileInv, TrackedInv, Next
    PROVE  TrackedInv'
<1>1. ASSUME NEW c \in Callers, CreateSandbox(c)
      PROVE  TrackedInv'
  <2>1. \A p \in Procs : Launching(p) => Launching(p)'
    BY <1>1, CreateSandboxMove, Bounds DEF Called, Moved, Launching, PlaceInv, InHandInv
  <2> QED BY <1>1, CreateSandboxMove, <2>1 DEF table, external, history, TrackedInv
<1>2. ASSUME NEW c \in Callers, LaunchInstance(c)
      PROVE  TrackedInv'
  <2>1. \A p \in Procs : Launching(p) => Launching(p)'
    BY <1>2, LaunchInstanceMove, Bounds DEF Back, Moved, Launching, PlaceInv, InHandInv
  <2> QED BY <1>2, LaunchInstanceMove, <2>1 DEF table, TrackedInv
<1>3. ASSUME NEW c \in Callers, WaitForInstanceReady(c) \/ WaitForSSMRegistration(c) \/ WaitFails(c)
      PROVE  TrackedInv'
  <2>1. \A p \in Procs : Launching(p) => Launching(p)'
    BY <1>3, WaitMove, Bounds DEF Went, Back, Moved, Launching, PlaceInv, InHandInv
  <2> QED BY <1>3, WaitMove, <2>1 DEF table, external, history, TrackedInv
<1>4. ASSUME NEW c \in Callers, TerminateOrphan(c)
      PROVE  TrackedInv'
  <2>1. \A p \in Procs : Launching(p) => Launching(p)'
    BY <1>4, OrphanMove, Bounds DEF Back, Moved, Launching, PlaceInv, InHandInv
  <2> QED BY <1>4, OrphanMove, <2>1 DEF Ended, table, TrackedInv, TypeOK
<1>5. ASSUME NEW c \in Callers, Register(c)
      PROVE  TrackedInv'
  <2>1. \A p \in Procs : Launching(p) => Launching(p)'
    BY <1>5, RegisterMove, Bounds DEF Went, Back, Moved, Launching, PlaceInv, InHandInv
  <2>2. \A p \in Procs : os[p] = "alive" => home[p] \in Instances
    BY DEF HomeInv, TypeOK
  <2>3. \A p \in Procs : home[p] # caller[c].i
    BY <1>5, RegisterMove DEF WorkInv, PlaceInv
  <2> QED BY <1>5, RegisterMove, <2>1, <2>2, <2>3 DEF external, history, TrackedInv, TypeOK
<1>6. ASSUME NEW c \in Callers, DestroySandbox(c) \/ PauseSandbox(c) \/ ResumeSandbox(c) \/ LaunchProcess(c)
      PROVE  TrackedInv'
  <2>1. \A p \in Procs : Launching(p) => Launching(p)'
    BY <1>6, LookupMove, Bounds DEF Called, Moved, Launching, PlaceInv, InHandInv
  <2> QED BY <1>6, LookupMove, <2>1 DEF table, external, history, TrackedInv
<1>7. ASSUME NEW c \in Callers, DestroyTerminate(c)
      PROVE  TrackedInv'
  <2>1. \A p \in Procs : Launching(p) => Launching(p)'
    BY <1>7, DestroyTerminateMove, Bounds DEF Went, Back, Moved, Launching, PlaceInv, InHandInv
  <2> QED BY <1>7, DestroyTerminateMove, <2>1 DEF Ended, table, history, TrackedInv, TypeOK
<1>8. ASSUME NEW c \in Callers, DestroyDelete(c)
      PROVE  TrackedInv'
  <2>1. \A p \in Procs : Launching(p) => Launching(p)'
    BY <1>8, DestroyDeleteMove, Bounds DEF Back, Moved, Launching, PlaceInv, InHandInv
  <2>2. \A p \in Procs : os[p] = "alive" => home[p] \in Instances
    BY DEF HomeInv, TypeOK
  <2> QED BY <1>8, DestroyDeleteMove, <2>1, <2>2 DEF external, history, TrackedInv, TypeOK
<1>9. ASSUME NEW c \in Callers, StopInstance(c)
      PROVE  TrackedInv'
  <2>1. \A p \in Procs : Launching(p) => Launching(p)'
    BY <1>9, StopMove, Bounds DEF Went, Back, Moved, Launching, PlaceInv, InHandInv
  <2> QED BY <1>9, StopMove, <2>1 DEF table, history, TrackedInv
<1>10. ASSUME NEW c \in Callers, MarkStopped(c)
      PROVE  TrackedInv'
  <2>1. \A p \in Procs : Launching(p) => Launching(p)'
    BY <1>10, MarkStoppedMove, Bounds DEF Back, Moved, Launching, PlaceInv, InHandInv
  <2>2. \A p \in Procs : os[p] = "alive" => home[p] \in Instances
    BY DEF HomeInv, TypeOK
  <2> QED BY <1>10, MarkStoppedMove, <2>1, <2>2 DEF external, history, TrackedInv, TypeOK
<1>11. ASSUME NEW c \in Callers, StartInstance(c)
      PROVE  TrackedInv'
  <2>1. \A p \in Procs : Launching(p) => Launching(p)'
    BY <1>11, StartMove, Bounds DEF Went, Back, Moved, Launching, PlaceInv, InHandInv
  <2> QED BY <1>11, StartMove, <2>1 DEF table, history, TrackedInv
<1>12. ASSUME NEW c \in Callers, MarkRunning(c)
      PROVE  TrackedInv'
  <2>1. \A p \in Procs : Launching(p) => Launching(p)'
    BY <1>12, MarkRunningMove, Bounds DEF Back, Moved, Launching, PlaceInv, InHandInv
  <2>2. \A p \in Procs : os[p] = "alive" => home[p] \in Instances
    BY DEF HomeInv, TypeOK
  <2>3. \A p \in Procs : home[p] = caller[c].i /\ inst[caller[c].i] # "absent" =>
                            os[p] # "alive" \/ p \in lost'
    BY <1>12, MarkRunningMove DEF WorkInv, PlaceInv, StoppedInv
  <2> QED BY <1>12, MarkRunningMove, <2>1, <2>2, <2>3 DEF table, external, TrackedInv, TypeOK
<1>13. ASSUME NEW c \in Callers, RunLaunch(c)
      PROVE  TrackedInv'
  <2>1. \A p \in Procs : Launching(p) => Launching(p)'
    BY <1>13, RunLaunchMove, Bounds DEF Back, Moved, Launching, PlaceInv, InHandInv
  <2>3. \A p \in Procs : os'[p] = "alive" => (os[p] = "alive" /\ home'[p] = home[p]) \/ p \in lost' \/ Launching(p)'
    BY <1>13, RunLaunchMove, Bounds DEF Back, Moved, Launching, PlaceInv, TypeOK, HomeInv
  <2>4. lost \subseteq lost' /\ UNCHANGED table
    BY <1>13, RunLaunchMove
  <2> QED BY <2>1, <2>3, <2>4 DEF table, TrackedInv
<1>14. ASSUME NEW c \in Callers, readPIDFile(c) \/ waitForProcessHealth(c)
      PROVE  TrackedInv'
  <2>1. \A p \in Procs : Launching(p) => Launching(p)' \/ p \in lost'
    BY <1>14, LaunchedMove, Bounds DEF Went, Back, Moved, Launching, PlaceInv, InHandInv
  <2> QED BY <1>14, LaunchedMove, <2>1 DEF table, external, TrackedInv
<1>15. ASSUME NEW c \in Callers, AddProcess(c)
      PROVE  TrackedInv'
  <2>1. \A p \in Procs : Launching(p) => Launching(p)' \/ p = caller[c].p
    BY <1>15, AddProcessMove, Bounds DEF Back, Moved, Launching, PlaceInv, InHandInv
  <2>2. \A p \in Procs : os[p] = "alive" => home[p] \in Instances
    BY DEF HomeInv, TypeOK
  <2> QED BY <1>15, AddProcessMove, <2>1, <2>2 DEF external, TrackedInv, TypeOK, InHandInv
<1>16. ASSUME NEW c \in Callers, KillProcess(c) \/ GetProcessStatus(c)
      PROVE  TrackedInv'
  <2>1. \A p \in Procs : Launching(p) => Launching(p)'
    BY <1>16, ProcessCallMove, Bounds DEF Called, Moved, Launching, PlaceInv, InHandInv
  <2> QED BY <1>16, ProcessCallMove, <2>1 DEF table, external, history, TrackedInv
<1>17. ASSUME NEW c \in Callers, CheckStartTime(c) \/ StatusAnswer(c)
      PROVE  TrackedInv'
  <2>1. \A p \in Procs : Launching(p) => Launching(p)'
    BY <1>17, CheckStartMove, Bounds DEF Went, Back, Moved, Launching, PlaceInv, InHandInv
  <2>2. caller[c].p \in Procs /\ (tracked' = tracked \/ os[caller[c].p] # "alive")
    BY <1>17, CheckStartMove DEF InHandInv, KillInv
  <2> QED BY <1>17, CheckStartMove, <2>1, <2>2 DEF Marked, external, history, TrackedInv, TypeOK
<1>18. ASSUME NEW c \in Callers, RunKill(c)
      PROVE  TrackedInv'
  <2>1. \A p \in Procs : Launching(p) => Launching(p)'
    BY <1>18, RunKillMove, Bounds DEF Went, Back, Moved, Launching, PlaceInv, InHandInv
  <2> QED BY <1>18, RunKillMove, <2>1 DEF table, TrackedInv, TypeOK
<1>19. ASSUME NEW c \in Callers, KillCleanup(c)
      PROVE  TrackedInv'
  <2>1. \A p \in Procs : Launching(p) => Launching(p)'
    BY <1>19, CleanupMove, Bounds DEF Back, Moved, Launching, PlaceInv, InHandInv
  <2>2. caller[c].p \in Procs /\ (tracked' = tracked \/ os[caller[c].p] # "alive")
    BY <1>19, CleanupMove DEF InHandInv, KillInv
  <2> QED BY <1>19, CleanupMove, <2>1, <2>2 DEF Marked, history, TrackedInv, TypeOK
<1>20. ASSUME NEW c \in Callers, Close(c)
      PROVE  TrackedInv'
  <2>1. \A p \in Procs : Launching(p) => Launching(p)'
    BY <1>20, CloseMove, Bounds DEF Called, Moved, Launching, PlaceInv, InHandInv
  <2> QED BY <1>20, CloseMove, <2>1 DEF table, external, history, TrackedInv
<1>21. ASSUME NEW c \in Callers, CloseWait(c)
      PROVE  TrackedInv'
  <2>1. \A p \in Procs : Launching(p) => Launching(p)'
    BY <1>21, CloseWaitMove, Bounds DEF Moved, Launching, PlaceInv, InHandInv
  <2> QED BY <1>21, CloseWaitMove, <2>1 DEF table, external, history, TrackedInv
<1>22. ASSUME NEW c \in Callers, CloseTerminate(c)
      PROVE  TrackedInv'
  <2>1. \A p \in Procs : Launching(p) => Launching(p)'
    BY <1>22, CloseTerminateMove, Bounds DEF Moved, Launching, PlaceInv, InHandInv
  <2> QED BY <1>22, CloseTerminateMove, <2>1 DEF Ended, table, TrackedInv, TypeOK
<1>23. ASSUME NEW c \in Callers, CloseDone(c)
      PROVE  TrackedInv'
  <2>1. \A p \in Procs : Launching(p) => Launching(p)'
    BY <1>23, CloseDoneMove, Bounds DEF Back, Moved, Launching, PlaceInv, InHandInv
  <2>2. \A p \in Procs : os[p] = "alive" => home[p] \in Instances
    BY DEF HomeInv, TypeOK
  <2> QED BY <1>23, CloseDoneMove, <2>1, <2>2 DEF external, history, TrackedInv
<1>24. CASE Crash
    BY <1>24, CrashMove DEF TrackedInv, HomeInv, TypeOK, external
<1>25. CASE Recover
  <2>1. \A p \in Procs : os[p] = "alive" => home[p] \in Instances
    BY DEF HomeInv, TypeOK
  <2> QED BY <1>25, RecoverMove, <2>1 DEF TrackedInv, FileInv, external
<1>26. ASSUME NEW i \in Instances, Boot(i)
      PROVE  TrackedInv'
    BY <1>26, BootMove DEF TypeOK, Launching, table, history, TrackedInv
<1>27. ASSUME NEW i \in Instances, Halt(i)
      PROVE  TrackedInv'
    BY <1>27, HaltMove DEF TypeOK, Launching, table, history, TrackedInv
<1>28. ASSUME NEW p \in Procs, ProcessExits(p)
      PROVE  TrackedInv'
    BY <1>28, ExitMove DEF TypeOK, Launching, table, TrackedInv
<1>29. ASSUME NEW p \in Procs, PidReused(p)
      PROVE  TrackedInv'
    BY <1>29, PidReusedMove DEF TypeOK, Launching, table, history, TrackedInv
<1> QED BY <1>1, <1>2, <1>3, <1>4, <1>5, <1>6, <1>7, <1>8, <1>9, <1>10, <1>11, <1>12,
       <1>13, <1>14, <1>15, <1>16, <1>17, <1>18, <1>19, <1>20, <1>21, <1>22, <1>23,
       <1>24, <1>25, <1>26, <1>27, <1>28, <1>29 DEF Next, CallerCalls, CallerStep

-----------------------------------------------------------------------------
(* The theorems *)

LEMMA DirectInit == Init => DirectInv
<1> SUFFICES ASSUME Init PROVE DirectInv
    OBVIOUS
<1>1. /\ \A c \in Callers : caller[c] = Ready
      /\ \A i \in Instances : inst[i] = "absent" /\ cloud[i] = "none"
      /\ \A p \in Procs : os[p] = "none" /\ home[p] = None /\ tracked[p] = "none"
      /\ reused = {} /\ pidFile = {} /\ hit = {} /\ inflight = 0
    BY DEF Init
<1>2. TypeOK
  <2>1. caller \in [Callers -> Caller]
    BY ReadyIs DEF Init
  <2>2. up \in BOOLEAN /\ closing \in BOOLEAN
    BY DEF Init
  <2> QED BY <1>1, <2>1, <2>2 DEF Init, TypeOK
<1>3. ~closing
    BY DEF Init
<1>4. Creators = {}
    BY <1>1, ReadyIs DEF Creators
<1>5. CountInv
    BY <1>1, <1>4, FS_EmptySet DEF CountInv
<1>6. PlaceInv /\ InHandInv /\ HomeInv /\ KnownInv /\ ExclusiveInv /\ WorkInv
    BY <1>1, ReadyIs DEF PlaceInv, InHandInv, HomeInv, KnownInv, ExclusiveInv, WorkInv
<1>7. StoppedInv /\ KillInv /\ DownInv /\ CloseInv
    BY <1>1, <1>3, ReadyIs DEF StoppedInv, KillInv, DownInv, CloseInv, Closed
<1>8. OwnedInv /\ FileInv /\ TrackedInv
    BY <1>1 DEF OwnedInv, FileInv, TrackedInv, Live
<1> QED BY <1>2, <1>5, <1>6, <1>7, <1>8 DEF DirectInv

LEMMA DirectStep == DirectInv /\ [Next]_vars => DirectInv'
<1> SUFFICES ASSUME DirectInv, [Next]_vars PROVE DirectInv'
    OBVIOUS
<1> USE DEF DirectInv
<1>1. CASE Next
  <2>1. TypeOK' /\ CountInv' /\ PlaceInv' /\ InHandInv' /\ HomeInv' /\ KnownInv' /\ ExclusiveInv'
    BY <1>1, TypeStep, CountStep, PlaceStep, InHandStep, HomeStep, KnownStep, ExclusiveStep
  <2>2. WorkInv' /\ StoppedInv' /\ KillInv' /\ DownInv' /\ CloseInv'
    BY <1>1, WorkStep, StoppedStep, KillStep, DownStep, CloseStep
  <2>3. OwnedInv' /\ FileInv' /\ TrackedInv'
    BY <1>1, OwnedStep, FileStep, TrackedStep
  <2> QED BY <2>1, <2>2, <2>3
<1>2. CASE UNCHANGED vars
  <2> USE <1>2 DEF vars, table, external, history
  <2>1. TypeOK' /\ PlaceInv' /\ InHandInv' /\ HomeInv' /\ KnownInv' /\ ExclusiveInv'
    BY DEF TypeOK, PlaceInv, InHandInv, HomeInv, KnownInv, ExclusiveInv
  <2>2. WorkInv' /\ StoppedInv' /\ KillInv' /\ DownInv' /\ CountInv' /\ CloseInv'
    BY DEF WorkInv, StoppedInv, KillInv, DownInv, CountInv, CloseInv, Creators, Closed
  <2>3. OwnedInv' /\ FileInv' /\ TrackedInv'
    BY DEF OwnedInv, Owned, FileInv, TrackedInv, Launching, Creating, Closed
  <2> QED BY <2>1, <2>2, <2>3
<1> QED BY <1>1, <1>2

\* DirectInv holds in every state of the adapter.
LEMMA Invariance == Spec => []DirectInv
BY DirectInit, DirectStep, PTL DEF Spec

\* The adapter knows what runs, restarts included: every instance at EC2 is in
\* its table or in the hands of a create, none is left when a Close that
\* terminates has returned, and every live process on a running sandbox is
\* tracked as running, unless its launch failed, its instance did not answer
\* Recover, or ResumeSandbox was called for the sandbox while it ran.
THEOREM AdapterKnows == Spec => []NothingUnknown
<1>1. DirectInv => InstancesOwned
    BY DEF DirectInv, OwnedInv, Owned, CloseInv, InstancesOwned
<1>2. DirectInv => ProcessesTracked
    BY DEF DirectInv, TrackedInv, Launching, ProcessesTracked
<1> QED BY <1>1, <1>2, Invariance, PTL DEF NothingUnknown

\* KillProcess signals a foreign process only when its own ended between the
\* start time check and the kill: a PID recycled before that is recognised.
THEOREM OthersSpared == Spec => []KillSparesOthers
<1>1. DirectInv => KillSparesOthers
    BY DEF DirectInv, KillInv, KillSparesOthers
<1> QED BY <1>1, Invariance, PTL
=============================================================================
