---------------------- MODULE RemoteEnvironmentProofs ----------------------
(***************************************************************************)
(* Proofs about RemoteEnvironment for any callers and any number of        *)
(* resources: every implementation keeps the lifecycle its interface       *)
(* promises, its account of the sandbox is true, and edits survive.        *)
(***************************************************************************)
EXTENDS RemoteEnvironment, TLAPS

CallerPC == {"idle", "machine", "cleanup", "store", "pause", "resume", "destroy",
             "destroyVolume", "flag", "ask", "tool", "editRead", "editWrite"}
HoldsMu == {"machine", "cleanup", "pause", "resume", "destroy", "destroyVolume"}
InEdit == {"editRead", "editWrite"}
Creating == {"machine", "cleanup", "store"}
Status == {"none", "running", "suspended", "destroying", "failed", "gone"}

TypeOK ==
    /\ kind \in Kinds
    /\ mu \in Callers \cup {None}
    /\ state \in {"creating", "active", "paused", "destroyed"}
    /\ id \in Ids \cup {None} /\ vol \in Ids \cup {None}
    /\ remote \in [Ids -> Status]
    /\ reach \in BOOLEAN
    /\ pc \in [Callers -> CallerPC]
    /\ res \in [Callers -> Ids \cup {None}]
    /\ lost \subseteq Ids /\ replaced \subseteq Ids
    /\ drift \in BOOLEAN
    /\ file \in [Ids -> SUBSET Callers]
    /\ seen \in [Callers -> SUBSET Callers]
    /\ edited \in [Callers -> Ids \cup {None}]
    /\ lapped \subseteq Callers /\ torn \subseteq Callers

\* e.mu is held by the caller that is inside a critical section, and by nobody
\* else: at most one caller is in one.
MutexInv == \A c \in Callers : mu = c <=> pc[c] \in HoldsMu

\* Which state goes with which implementation, and with having a sandbox.
KindInv ==
    /\ kind = "local" => id = None
    /\ kind \in {"native", "local"} => state \in {"creating", "destroyed"}
    /\ id = None /\ kind # "local" => state = "creating"
    /\ id # None /\ kind \in Locked => state # "creating"
    /\ kind # "fly" \/ id = None => vol = None

\* What a caller knows at each place it can be in.
PlaceInv ==
    \A c \in Callers :
        /\ pc[c] \in {"machine", "cleanup"} => kind = "fly"
        /\ pc[c] = "store" => kind \in {"e2b", "daytona", "native"}
        /\ pc[c] = "pause" => kind \in PauseKinds /\ id # None /\ state = "active"
        /\ pc[c] = "resume" => kind \in PauseKinds /\ id # None /\ state = "paused"
        /\ pc[c] = "destroy" => kind \in Locked /\ id # None /\ state # "destroyed"
        /\ pc[c] = "destroyVolume" =>
              /\ kind = "fly" /\ id # None /\ vol # None
              /\ state # "destroyed" /\ remote[id] = "gone"
        /\ pc[c] = "flag" => kind = "native" /\ id # None /\ (replaced = {} => remote[id] = "gone")
        /\ pc[c] = "ask" => kind = "native" /\ res[c] # None /\ (replaced = {} => res[c] = id)
        /\ pc[c] \in InEdit => kind = "fly" /\ res[c] # None

\* What a create has made runs, and is nobody else's: the other creates under
\* way have made others, and a pause or a destroy works on the environment's.
CreateInv ==
    /\ \A c \in Callers : pc[c] \in Creating =>
          /\ res[c] # None /\ remote[res[c]] = "running"
          /\ res[c] # id /\ res[c] # vol
    /\ \A c, d \in Callers :
          c # d /\ pc[c] \in Creating /\ pc[d] \in Creating => res[c] # res[d]

\* A resource somebody names exists, or existed.
NamedInv ==
    /\ id # None => remote[id] # "none"
    /\ vol # None => remote[vol] # "none"

\* StateMatchesRemote also while the lock is held, up to the step between a
\* machine's removal and its volume's.
TrueStateInv ==
    kind \in Locked /\ ~drift /\ id # None
        /\ (\A c \in Callers : pc[c] # "destroyVolume") =>
        /\ state = "active" => remote[id] = "running"
        /\ state = "paused" => remote[id] = "suspended"
        /\ state = "destroyed" => remote[id] = "gone"

\* An edit in progress carries its own edit and every edit reported done on
\* its machine that EditsSurvive speaks of; two edits in progress on one
\* machine overlap.
EditInv ==
    /\ \A c \in Callers : pc[c] = "editWrite" => c \in seen[c]
    /\ \A c, d \in Callers :
          pc[c] = "editWrite" /\ edited[d] = res[c] /\ d \notin lapped \cup torn => d \in seen[c]
    /\ \A c, d \in Callers :
          c # d /\ pc[c] \in InEdit /\ pc[d] \in InEdit /\ res[c] = res[d] => c \in lapped

EnvInv == TypeOK /\ MutexInv /\ KindInv /\ PlaceInv /\ CreateInv /\ NamedInv
AccountInv == EnvInv /\ ResourcesOwned /\ DestroyedIsGone /\ TrueStateInv
FileInv == EnvInv /\ EditInv /\ EditsSurvive

----------------------------------------------------------------------------
(* The provider's answers *)

LEMMA DoJSONEffect ==
    ASSUME TypeOK, NEW r \in Ids, NEW e \in Status,
           NEW ok \in BOOLEAN, DoJSON(r, e, ok)
    PROVE  /\ remote' \in [Ids -> Status]
           /\ \A q \in Ids : q # r => remote'[q] = remote[q]
           /\ remote'[r] = remote[r] \/ (Live(r) /\ remote'[r] = e)
           /\ ok => Live(r) /\ remote'[r] = e
BY DEF DoJSON, TypeOK, Live, Status

LEMMA NextIdIsFree ==
    ASSUME CanCreate
    PROVE  NextId \in Ids /\ remote[NextId] = "none"
BY DEF CanCreate, NextId

LEMMA PostCreateEffect ==
    ASSUME TypeOK, NEW ok \in BOOLEAN, PostCreate(ok)
    PROVE  /\ NextId \in Ids /\ remote[NextId] = "none"
           /\ remote' \in [Ids -> Status]
           /\ lost' \subseteq Ids /\ lost \subseteq lost'
           /\ \A q \in Ids : q # NextId => remote'[q] = remote[q]
           /\ ok => remote'[NextId] = "running"
           /\ ~ok => remote'[NextId] = "none" \/ NextId \in lost'
<1>1. NextId \in Ids /\ remote[NextId] = "none"
    BY NextIdIsFree DEF PostCreate
<1> QED BY <1>1 DEF PostCreate, TypeOK, Status

LEMMA NativeDestroyEffect ==
    ASSUME TypeOK, NEW c \in Callers, NativeDestroy(c)
    PROVE  /\ kind = "native" /\ pc[c] = "idle" /\ state # "destroyed" /\ id \in Ids
           /\ UNCHANGED <<kind, mu, state, id, vol, reach, res, lost, replaced, drift, editVars>>
           /\ remote' \in [Ids -> Status]
           /\ \A q \in Ids : q # id => remote'[q] = remote[q]
           /\ remote'[id] = remote[id] \/ (Live(id) /\ remote'[id] \in {"destroying", "gone"})
           /\ pc' = pc \/ (pc' = [pc EXCEPT ![c] = "flag"] /\ remote'[id] = "gone")
<1>1. kind = "native" /\ pc[c] = "idle" /\ state # "destroyed" /\ id \in Ids
    BY DEF NativeDestroy, TypeOK
<1>2. CASE DoJSON(id, "gone", TRUE) /\ pc' = [pc EXCEPT ![c] = "flag"]
    BY <1>1, <1>2, DoJSONEffect DEF NativeDestroy, Status
<1>3. ASSUME NEW left \in {"destroying", "gone"}, DoJSON(id, left, FALSE), pc' = pc
      PROVE  /\ remote' \in [Ids -> Status]
             /\ \A q \in Ids : q # id => remote'[q] = remote[q]
             /\ remote'[id] = remote[id] \/ (Live(id) /\ remote'[id] \in {"destroying", "gone"})
    BY <1>1, <1>3, DoJSONEffect DEF Status
<1> QED BY <1>1, <1>2, <1>3 DEF NativeDestroy

LEMMA EnvInit == Init => EnvInv
<1> SUFFICES ASSUME Init PROVE EnvInv
    OBVIOUS
<1>1. TypeOK
    BY DEF Init, TypeOK, CallerPC, Status
<1>2. MutexInv /\ KindInv /\ PlaceInv /\ CreateInv /\ NamedInv
    BY EnvConstants DEF Init, MutexInv, KindInv, PlaceInv, CreateInv, NamedInv,
       HoldsMu, InEdit, Creating, Locked, Kinds
<1> QED BY <1>1, <1>2 DEF EnvInv

LEMMA EnvStep == EnvInv /\ [Next]_vars => EnvInv'
<1> SUFFICES ASSUME EnvInv, [Next]_vars PROVE EnvInv'
    OBVIOUS
<1> USE EnvConstants DEF EnvInv, TypeOK, MutexInv, KindInv, PlaceInv, CreateInv, NamedInv,
      CallerPC, HoldsMu, InEdit, Creating, Status, Locked, Kinds, PauseKinds, editVars
<1>0. TypeOK /\ None \notin Ids
    BY DEF Ids
<1>1. ASSUME Expire PROVE EnvInv'
    BY <1>0, <1>1 DEF Expire, Live
<1>2. ASSUME NEW c \in Callers, FlyCreateVolume(c) PROVE EnvInv'
  <2>1. PICK ok \in BOOLEAN :
          /\ PostCreate(ok)
          /\ IF ok
             THEN /\ mu' = c
                  /\ pc' = [pc EXCEPT ![c] = "machine"]
                  /\ res' = [res EXCEPT ![c] = NextId]
             ELSE UNCHANGED <<mu, pc, res>>
    BY <1>2 DEF FlyCreateVolume
  <2> QED BY <1>0, <1>2, <2>1, PostCreateEffect DEF FlyCreateVolume
<1>3. ASSUME NEW c \in Callers, FlyCreateMachine(c) PROVE EnvInv'
  <2>1. PICK ok \in BOOLEAN :
          /\ PostCreate(ok)
          /\ IF ok
             THEN /\ replaced' = Replaced
                  /\ id' = NextId
                  /\ vol' = res[c]
                  /\ state' = "active"
                  /\ mu' = None
                  /\ pc' = [pc EXCEPT ![c] = "idle"]
                  /\ res' = [res EXCEPT ![c] = None]
             ELSE /\ pc' = [pc EXCEPT ![c] = "cleanup"]
                  /\ UNCHANGED <<replaced, id, vol, state, mu, res>>
    BY <1>3 DEF FlyCreateMachine, Replaced
  <2> QED BY <1>0, <1>3, <2>1, PostCreateEffect DEF FlyCreateMachine, Replaced
<1>4. ASSUME NEW c \in Callers, FlyCleanup(c) PROVE EnvInv'
    BY <1>0, <1>4, DoJSONEffect DEF FlyCleanup
<1>5. ASSUME NEW c \in Callers, CreateSandbox(c) PROVE EnvInv'
  <2>1. PICK ok \in BOOLEAN :
          /\ PostCreate(ok)
          /\ IF ok
             THEN /\ pc' = [pc EXCEPT ![c] = "store"]
                  /\ res' = [res EXCEPT ![c] = NextId]
             ELSE UNCHANGED <<pc, res>>
    BY <1>5 DEF CreateSandbox
  <2> QED BY <1>0, <1>5, <2>1, PostCreateEffect DEF CreateSandbox
<1>6. ASSUME NEW c \in Callers, StoreSandbox(c) PROVE EnvInv'
    BY <1>0, <1>6 DEF StoreSandbox, Replaced
<1>7. ASSUME NEW c \in Callers, CapabilityMismatch(c) PROVE EnvInv'
    BY <1>0, <1>7 DEF CapabilityMismatch
<1>8. ASSUME NEW c \in Callers, AttachSession(c) PROVE EnvInv'
    BY <1>0, <1>8, NextIdIsFree DEF AttachSession, Replaced
<1>9. ASSUME NEW c \in Callers, PauseLock(c) PROVE EnvInv'
    BY <1>0, <1>9 DEF PauseLock, Lock
<1>10. ASSUME NEW c \in Callers, PauseCall(c) PROVE EnvInv'
    BY <1>0, <1>10, DoJSONEffect DEF PauseCall, Unlock
<1>11. ASSUME NEW c \in Callers, ResumeLock(c) PROVE EnvInv'
    BY <1>0, <1>11 DEF ResumeLock, Lock
<1>12. ASSUME NEW c \in Callers, ResumeCall(c) PROVE EnvInv'
    BY <1>0, <1>12, DoJSONEffect DEF ResumeCall, Unlock
<1>13. ASSUME NEW c \in Callers, NativePauseResume(c) PROVE EnvInv'
    BY <1>0, <1>13, DoJSONEffect DEF NativePauseResume
<1>14. ASSUME NEW c \in Callers, DestroyLock(c) PROVE EnvInv'
    BY <1>0, <1>14 DEF DestroyLock, Lock
<1>15. ASSUME NEW c \in Callers, DestroyCall(c) PROVE EnvInv'
    BY <1>0, <1>15, DoJSONEffect DEF DestroyCall, Unlock
<1>16. ASSUME NEW c \in Callers, DestroyVolume(c) PROVE EnvInv'
    BY <1>0, <1>16, DoJSONEffect DEF DestroyVolume, Unlock
<1>17. ASSUME NEW c \in Callers, NativeDestroy(c) PROVE EnvInv'
  <2>1. /\ kind = "native" /\ pc[c] = "idle" /\ state # "destroyed" /\ id \in Ids
        /\ UNCHANGED <<kind, mu, state, id, vol, reach, res, lost, replaced, drift, editVars>>
        /\ remote' \in [Ids -> Status]
        /\ \A q \in Ids : q # id => remote'[q] = remote[q]
        /\ remote'[id] = remote[id] \/ (Live(id) /\ remote'[id] \in {"destroying", "gone"})
        /\ pc' = pc \/ (pc' = [pc EXCEPT ![c] = "flag"] /\ remote'[id] = "gone")
    BY ONLY <1>0, <1>17, NativeDestroyEffect
  <2>2. TypeOK'
    BY <1>0, <2>1
  <2>3. MutexInv' /\ KindInv'
    BY <1>0, <2>1
  <2>4. PlaceInv'
    BY <1>0, <2>1 DEF Live
  <2>5. CreateInv' /\ NamedInv'
    BY <1>0, <2>1 DEF Live
  <2> QED BY <2>2, <2>3, <2>4, <2>5
<1>18. ASSUME NEW c \in Callers, StoreDestroyed(c) PROVE EnvInv'
    BY <1>0, <1>18 DEF StoreDestroyed
<1>19. ASSUME NEW c \in Callers, LocalDestroy(c) PROVE EnvInv'
    BY <1>0, <1>19 DEF LocalDestroy
<1>20. ASSUME NEW c \in Callers, ExecuteTool(c) PROVE EnvInv'
    BY <1>0, <1>20 DEF ExecuteTool, ActiveSandboxID
<1>21. ASSUME NEW c \in Callers, ExecuteLocal(c) PROVE EnvInv'
    BY <1>0, <1>21 DEF ExecuteLocal
<1>22. ASSUME NEW c \in Callers, ExecuteNative(c) PROVE EnvInv'
    BY <1>0, <1>22 DEF ExecuteNative
<1>23. ASSUME NEW c \in Callers, ServerAdmits(c) PROVE EnvInv'
    BY <1>0, <1>23 DEF ServerAdmits
<1>24. ASSUME NEW c \in Callers, ToolReturns(c) PROVE EnvInv'
    BY <1>0, <1>24 DEF ToolReturns
<1>25. ASSUME NEW c \in Callers, EditRead(c) PROVE EnvInv'
    BY <1>0, <1>25 DEF EditRead, applyEdit
<1>26. ASSUME NEW c \in Callers, EditWrite(c) PROVE EnvInv'
    BY <1>0, <1>26 DEF EditWrite
<1>28. ASSUME ServerReach PROVE EnvInv'
    BY <1>0, <1>28 DEF ServerReach
<1>29. ASSUME NEW c \in Callers, NativeRollback(c) PROVE EnvInv'
    BY <1>0, <1>29 DEF NativeRollback
<1>27. ASSUME UNCHANGED vars PROVE EnvInv'
    BY <1>0, <1>27 DEF vars
<1> QED BY <1>1, <1>2, <1>3, <1>4, <1>5, <1>6, <1>7, <1>8, <1>9, <1>10, <1>11, <1>12, <1>13, <1>14, <1>15, <1>16, <1>17, <1>18, <1>19, <1>20, <1>21, <1>22, <1>23, <1>24, <1>25, <1>26, <1>27, <1>28, <1>29 DEF Next, CreateStep, LifecycleStep, ToolStep

----------------------------------------------------------------------------
(* Edits *)

LEMMA FileStep == FileInv /\ [Next]_vars => FileInv'
<1> SUFFICES ASSUME FileInv, [Next]_vars PROVE (EditInv /\ EditsSurvive)'
    BY EnvStep DEF FileInv
<1> USE DEF EditInv, EditsSurvive, InEdit, editVars
<1>0. TypeOK /\ FileInv
    BY DEF FileInv, EnvInv
<1> USE DEF FileInv, TypeOK
<1>1. ASSUME Expire PROVE (EditInv /\ EditsSurvive)'
    BY <1>0, <1>1 DEF Expire
<1>2. ASSUME NEW c \in Callers, FlyCreateVolume(c) PROVE (EditInv /\ EditsSurvive)'
    BY <1>0, <1>2, PostCreateEffect DEF FlyCreateVolume
<1>3. ASSUME NEW c \in Callers, FlyCreateMachine(c) PROVE (EditInv /\ EditsSurvive)'
    BY <1>0, <1>3, PostCreateEffect DEF FlyCreateMachine, Replaced
<1>4. ASSUME NEW c \in Callers, FlyCleanup(c) PROVE (EditInv /\ EditsSurvive)'
    BY <1>0, <1>4, DoJSONEffect DEF FlyCleanup
<1>5. ASSUME NEW c \in Callers, CreateSandbox(c) PROVE (EditInv /\ EditsSurvive)'
    BY <1>0, <1>5, PostCreateEffect DEF CreateSandbox
<1>6. ASSUME NEW c \in Callers, StoreSandbox(c) PROVE (EditInv /\ EditsSurvive)'
    BY <1>0, <1>6 DEF StoreSandbox, Replaced
<1>7. ASSUME NEW c \in Callers, CapabilityMismatch(c) PROVE (EditInv /\ EditsSurvive)'
    BY <1>0, <1>7 DEF CapabilityMismatch
<1>8. ASSUME NEW c \in Callers, AttachSession(c) PROVE (EditInv /\ EditsSurvive)'
    BY <1>0, <1>8, NextIdIsFree DEF AttachSession, Replaced
<1>9. ASSUME NEW c \in Callers, PauseLock(c) PROVE (EditInv /\ EditsSurvive)'
    BY <1>0, <1>9 DEF PauseLock, Lock
<1>10. ASSUME NEW c \in Callers, PauseCall(c) PROVE (EditInv /\ EditsSurvive)'
    BY <1>0, <1>10, DoJSONEffect DEF PauseCall, Unlock
<1>11. ASSUME NEW c \in Callers, ResumeLock(c) PROVE (EditInv /\ EditsSurvive)'
    BY <1>0, <1>11 DEF ResumeLock, Lock
<1>12. ASSUME NEW c \in Callers, ResumeCall(c) PROVE (EditInv /\ EditsSurvive)'
    BY <1>0, <1>12, DoJSONEffect DEF ResumeCall, Unlock
<1>13. ASSUME NEW c \in Callers, NativePauseResume(c) PROVE (EditInv /\ EditsSurvive)'
    BY <1>0, <1>13, DoJSONEffect DEF NativePauseResume
<1>14. ASSUME NEW c \in Callers, DestroyLock(c) PROVE (EditInv /\ EditsSurvive)'
    BY <1>0, <1>14 DEF DestroyLock, Lock
<1>15. ASSUME NEW c \in Callers, DestroyCall(c) PROVE (EditInv /\ EditsSurvive)'
    BY <1>0, <1>15, DoJSONEffect DEF DestroyCall, Unlock
<1>16. ASSUME NEW c \in Callers, DestroyVolume(c) PROVE (EditInv /\ EditsSurvive)'
    BY <1>0, <1>16, DoJSONEffect DEF DestroyVolume, Unlock
<1>17. ASSUME NEW c \in Callers, NativeDestroy(c) PROVE (EditInv /\ EditsSurvive)'
    BY <1>0, <1>17, NativeDestroyEffect
<1>18. ASSUME NEW c \in Callers, StoreDestroyed(c) PROVE (EditInv /\ EditsSurvive)'
    BY <1>0, <1>18 DEF StoreDestroyed
<1>19. ASSUME NEW c \in Callers, LocalDestroy(c) PROVE (EditInv /\ EditsSurvive)'
    BY <1>0, <1>19 DEF LocalDestroy
<1>20. ASSUME NEW c \in Callers, ExecuteTool(c) PROVE (EditInv /\ EditsSurvive)'
    BY <1>0, <1>20 DEF ExecuteTool, ActiveSandboxID
<1>21. ASSUME NEW c \in Callers, ExecuteLocal(c) PROVE (EditInv /\ EditsSurvive)'
    BY <1>0, <1>21 DEF ExecuteLocal
<1>22. ASSUME NEW c \in Callers, ExecuteNative(c) PROVE (EditInv /\ EditsSurvive)'
    BY <1>0, <1>22 DEF ExecuteNative
<1>23. ASSUME NEW c \in Callers, ServerAdmits(c) PROVE (EditInv /\ EditsSurvive)'
    BY <1>0, <1>23 DEF ServerAdmits
<1>24. ASSUME NEW c \in Callers, ToolReturns(c) PROVE (EditInv /\ EditsSurvive)'
    BY <1>0, <1>24 DEF ToolReturns
<1>25. ASSUME NEW c \in Callers, EditRead(c) PROVE (EditInv /\ EditsSurvive)'
  <2>1. /\ pc[c] = "editRead" /\ UNCHANGED <<file, edited, lapped, torn>>
        /\ \/ /\ seen' = [seen EXCEPT ![c] = file[res[c]] \cup {c}]
              /\ pc' = [pc EXCEPT ![c] = "editWrite"] /\ res' = res
           \/ /\ pc' = [pc EXCEPT ![c] = "idle"]
              /\ res' = [res EXCEPT ![c] = None] /\ seen' = seen
    BY <1>25 DEF EditRead, applyEdit
  <2>2. EditsSurvive'
    BY <1>0, <2>1
  <2>3. CASE pc' = [pc EXCEPT ![c] = "idle"] /\ res' = [res EXCEPT ![c] = None] /\ seen' = seen
    BY <1>0, <2>1, <2>2, <2>3
  <2>4. CASE /\ seen' = [seen EXCEPT ![c] = file[res[c]] \cup {c}]
             /\ pc' = [pc EXCEPT ![c] = "editWrite"] /\ res' = res
    <3>1. res[c] # None
      BY <1>0, <2>1 DEF EnvInv, PlaceInv
    <3>2. \A d \in Callers : edited[d] = res[c] /\ d \notin lapped \cup torn => d \in file[res[c]]
      BY <1>0, <3>1
    <3> QED BY <1>0, <2>1, <2>2, <2>4, <3>2
  <2> QED BY <2>1, <2>3, <2>4
<1>26. ASSUME NEW c \in Callers, EditWrite(c) PROVE (EditInv /\ EditsSurvive)'
    BY <1>0, <1>26 DEF EditWrite
<1>28. ASSUME ServerReach PROVE (EditInv /\ EditsSurvive)'
    BY <1>0, <1>28 DEF ServerReach
<1>29. ASSUME NEW c \in Callers, NativeRollback(c) PROVE (EditInv /\ EditsSurvive)'
    BY <1>0, <1>29 DEF NativeRollback
<1>27. ASSUME UNCHANGED vars PROVE (EditInv /\ EditsSurvive)'
    BY <1>0, <1>27 DEF vars
<1> QED BY <1>1, <1>2, <1>3, <1>4, <1>5, <1>6, <1>7, <1>8, <1>9, <1>10, <1>11, <1>12, <1>13, <1>14, <1>15, <1>16, <1>17, <1>18, <1>19, <1>20, <1>21, <1>22, <1>23, <1>24, <1>25, <1>26, <1>27, <1>28, <1>29 DEF Next, CreateStep, LifecycleStep, ToolStep

----------------------------------------------------------------------------
(* The account of the sandbox *)

LEMMA AccountInit == Init => AccountInv
<1> SUFFICES ASSUME Init PROVE AccountInv
    OBVIOUS
<1>1. EnvInv
    BY EnvInit
<1>2. ResourcesOwned /\ DestroyedIsGone /\ TrueStateInv
    BY DEF Init, ResourcesOwned, DestroyedIsGone, TrueStateInv, Live
<1> QED BY <1>1, <1>2 DEF AccountInv

LEMMA AccountStep == AccountInv /\ [Next]_vars => AccountInv'
<1> DEFINE Account == ResourcesOwned /\ DestroyedIsGone /\ TrueStateInv
<1> SUFFICES ASSUME AccountInv, [Next]_vars PROVE Account'
    BY EnvStep DEF AccountInv
<1>0. TypeOK /\ None \notin Ids /\ AccountInv
    BY EnvConstants DEF AccountInv, EnvInv, Ids
<1> USE EnvConstants DEF AccountInv, EnvInv, TypeOK, MutexInv, KindInv, PlaceInv, CreateInv, NamedInv,
      HoldsMu, Creating, Status, Locked, Kinds, PauseKinds, editVars, Live, InCreate,
      ResourcesOwned, DestroyedIsGone, TrueStateInv
<1>1. ASSUME Expire PROVE Account'
    BY <1>0, <1>1 DEF Expire
<1>2. ASSUME NEW c \in Callers, FlyCreateVolume(c) PROVE Account'
    BY <1>0, <1>2, PostCreateEffect DEF FlyCreateVolume
<1>3. ASSUME NEW c \in Callers, FlyCreateMachine(c) PROVE Account'
    BY <1>0, <1>3, PostCreateEffect DEF FlyCreateMachine, Replaced
<1>4. ASSUME NEW c \in Callers, FlyCleanup(c) PROVE Account'
    BY <1>0, <1>4, DoJSONEffect DEF FlyCleanup
<1>5. ASSUME NEW c \in Callers, CreateSandbox(c) PROVE Account'
    BY <1>0, <1>5, PostCreateEffect DEF CreateSandbox
<1>6. ASSUME NEW c \in Callers, StoreSandbox(c) PROVE Account'
    BY <1>0, <1>6 DEF StoreSandbox, Replaced
<1>7. ASSUME NEW c \in Callers, CapabilityMismatch(c) PROVE Account'
    BY <1>0, <1>7 DEF CapabilityMismatch
<1>8. ASSUME NEW c \in Callers, AttachSession(c) PROVE Account'
    BY <1>0, <1>8, NextIdIsFree DEF AttachSession, Replaced
<1>9. ASSUME NEW c \in Callers, PauseLock(c) PROVE Account'
    BY <1>0, <1>9 DEF PauseLock, Lock
<1>10. ASSUME NEW c \in Callers, PauseCall(c) PROVE Account'
  <2>1. PICK ok \in BOOLEAN : 
          /\ DoJSON(id, "suspended", ok)
          /\ state' = IF ok THEN "paused" ELSE state
          /\ drift' = (drift \/ ~ok)
    BY <1>10 DEF PauseCall
  <2>2. id \in Ids
    BY <1>0, <1>10 DEF PauseCall
  <2>3. /\ remote' \in [Ids -> Status]
        /\ \A q \in Ids : q # id => remote'[q] = remote[q]
        /\ remote'[id] = remote[id] \/ (Live(id) /\ remote'[id] = "suspended")
        /\ ok => remote'[id] = "suspended"
    BY ONLY <1>0, <2>1, <2>2, DoJSONEffect
  <2>4. ResourcesOwned'
    BY <1>0, <1>10, <2>1, <2>2, <2>3 DEF PauseCall, Unlock
  <2>5. DestroyedIsGone'
    BY <1>0, <1>10, <2>1, <2>2, <2>3 DEF PauseCall, Unlock
  <2>6. TrueStateInv'
    BY <1>0, <1>10, <2>1, <2>2, <2>3 DEF PauseCall, Unlock
  <2> QED BY <2>4, <2>5, <2>6
<1>11. ASSUME NEW c \in Callers, ResumeLock(c) PROVE Account'
    BY <1>0, <1>11 DEF ResumeLock, Lock
<1>12. ASSUME NEW c \in Callers, ResumeCall(c) PROVE Account'
  <2>1. PICK ok \in BOOLEAN : 
          /\ DoJSON(id, "running", ok)
          /\ state' = IF ok THEN "active" ELSE state
          /\ drift' = (drift \/ ~ok)
    BY <1>12 DEF ResumeCall
  <2>2. id \in Ids
    BY <1>0, <1>12 DEF ResumeCall
  <2>3. /\ remote' \in [Ids -> Status]
        /\ \A q \in Ids : q # id => remote'[q] = remote[q]
        /\ remote'[id] = remote[id] \/ (Live(id) /\ remote'[id] = "running")
        /\ ok => remote'[id] = "running"
    BY ONLY <1>0, <2>1, <2>2, DoJSONEffect
  <2>4. ResourcesOwned'
    BY <1>0, <1>12, <2>1, <2>2, <2>3 DEF ResumeCall, Unlock
  <2>5. DestroyedIsGone'
    BY <1>0, <1>12, <2>1, <2>2, <2>3 DEF ResumeCall, Unlock
  <2>6. TrueStateInv'
    BY <1>0, <1>12, <2>1, <2>2, <2>3 DEF ResumeCall, Unlock
  <2> QED BY <2>4, <2>5, <2>6
<1>13. ASSUME NEW c \in Callers, NativePauseResume(c) PROVE Account'
    BY <1>0, <1>13, DoJSONEffect DEF NativePauseResume
<1>14. ASSUME NEW c \in Callers, DestroyLock(c) PROVE Account'
    BY <1>0, <1>14 DEF DestroyLock, Lock
<1>15. ASSUME NEW c \in Callers, DestroyCall(c) PROVE Account'
  <2>1. PICK ok \in BOOLEAN : 
          /\ DoJSON(id, "gone", ok)
          /\ drift' = (drift \/ ~ok)
          /\ IF ok /\ vol # None
             THEN pc' = [pc EXCEPT ![c] = "destroyVolume"] /\ UNCHANGED <<mu, state>>
             ELSE /\ Unlock(c)
                  /\ state' = IF ok THEN "destroyed" ELSE state
    BY <1>15 DEF DestroyCall
  <2>2. id \in Ids
    BY <1>0, <1>15 DEF DestroyCall
  <2>3. /\ remote' \in [Ids -> Status]
        /\ \A q \in Ids : q # id => remote'[q] = remote[q]
        /\ remote'[id] = remote[id] \/ (Live(id) /\ remote'[id] = "gone")
        /\ ok => remote'[id] = "gone"
    BY ONLY <1>0, <2>1, <2>2, DoJSONEffect
  <2>4. ResourcesOwned'
    BY <1>0, <1>15, <2>1, <2>2, <2>3 DEF DestroyCall, Unlock
  <2>5. DestroyedIsGone'
    BY <1>0, <1>15, <2>1, <2>2, <2>3 DEF DestroyCall, Unlock
  <2>6. TrueStateInv'
    <3>1. CASE ok /\ vol # None
      BY <1>0, <1>15, <2>1, <2>2, <2>3, <3>1 DEF DestroyCall
    <3>2. CASE ~ok
      BY <1>0, <1>15, <2>1, <2>2, <2>3, <3>2 DEF DestroyCall, Unlock
    <3>3. CASE ok /\ vol = None
      BY <1>0, <1>15, <2>1, <2>2, <2>3, <3>3 DEF DestroyCall, Unlock
    <3> QED BY <3>1, <3>2, <3>3
  <2> QED BY <2>4, <2>5, <2>6
<1>16. ASSUME NEW c \in Callers, DestroyVolume(c) PROVE Account'
  <2>1. PICK ok \in BOOLEAN : 
          /\ DoJSON(vol, "gone", ok)
          /\ drift' = (drift \/ ~ok)
          /\ state' = IF ok THEN "destroyed" ELSE state
    BY <1>16 DEF DestroyVolume
  <2>2. vol \in Ids
    BY <1>0, <1>16 DEF DestroyVolume
  <2>3. /\ remote' \in [Ids -> Status]
        /\ \A q \in Ids : q # vol => remote'[q] = remote[q]
        /\ remote'[vol] = remote[vol] \/ (Live(vol) /\ remote'[vol] = "gone")
        /\ ok => remote'[vol] = "gone"
    BY ONLY <1>0, <2>1, <2>2, DoJSONEffect
  <2>4. ResourcesOwned'
    BY <1>0, <1>16, <2>1, <2>2, <2>3 DEF DestroyVolume, Unlock
  <2>5. DestroyedIsGone'
    BY <1>0, <1>16, <2>1, <2>2, <2>3 DEF DestroyVolume, Unlock
  <2>6. TrueStateInv'
    BY <1>0, <1>16, <2>1, <2>2, <2>3 DEF DestroyVolume, Unlock
  <2> QED BY <2>4, <2>5, <2>6
<1>17. ASSUME NEW c \in Callers, NativeDestroy(c) PROVE Account'
    BY <1>0, <1>17, NativeDestroyEffect
<1>18. ASSUME NEW c \in Callers, StoreDestroyed(c) PROVE Account'
    BY <1>0, <1>18 DEF StoreDestroyed
<1>19. ASSUME NEW c \in Callers, LocalDestroy(c) PROVE Account'
    BY <1>0, <1>19 DEF LocalDestroy
<1>20. ASSUME NEW c \in Callers, ExecuteTool(c) PROVE Account'
    BY <1>0, <1>20 DEF ExecuteTool, ActiveSandboxID
<1>21. ASSUME NEW c \in Callers, ExecuteLocal(c) PROVE Account'
    BY <1>0, <1>21 DEF ExecuteLocal
<1>22. ASSUME NEW c \in Callers, ExecuteNative(c) PROVE Account'
    BY <1>0, <1>22 DEF ExecuteNative
<1>23. ASSUME NEW c \in Callers, ServerAdmits(c) PROVE Account'
    BY <1>0, <1>23 DEF ServerAdmits
<1>24. ASSUME NEW c \in Callers, ToolReturns(c) PROVE Account'
    BY <1>0, <1>24 DEF ToolReturns
<1>25. ASSUME NEW c \in Callers, EditRead(c) PROVE Account'
    BY <1>0, <1>25 DEF EditRead, applyEdit
<1>26. ASSUME NEW c \in Callers, EditWrite(c) PROVE Account'
    BY <1>0, <1>26 DEF EditWrite
<1>28. ASSUME ServerReach PROVE Account'
    BY <1>0, <1>28 DEF ServerReach
<1>29. ASSUME NEW c \in Callers, NativeRollback(c) PROVE Account'
    BY <1>0, <1>29 DEF NativeRollback
<1>27. ASSUME UNCHANGED vars PROVE Account'
    BY <1>0, <1>27 DEF vars
<1> QED BY <1>1, <1>2, <1>3, <1>4, <1>5, <1>6, <1>7, <1>8, <1>9, <1>10, <1>11, <1>12, <1>13, <1>14, <1>15, <1>16, <1>17, <1>18, <1>19, <1>20, <1>21, <1>22, <1>23, <1>24, <1>25, <1>26, <1>27, <1>28, <1>29 DEF Next, CreateStep, LifecycleStep, ToolStep

(* Creates, pauses, destroys and tools of any callers overlap: nothing runs  *)
(* at a provider that the environment does not know, save what a failed      *)
(* create left and what a later Create replaced; nothing it has runs after a *)
(* Destroy that succeeded (of native until a second Create); and while no    *)
(* request failed the state kept under e.mu is the provider's.               *)
THEOREM Accounted == Spec => []SandboxIsAccounted
<1>1. AccountInv => SandboxIsAccounted
  <2> SUFFICES ASSUME AccountInv PROVE StateMatchesRemote
      BY DEF AccountInv, SandboxIsAccounted
  <2>1. mu = None => \A c \in Callers : pc[c] # "destroyVolume"
    BY EnvConstants DEF AccountInv, EnvInv, MutexInv, HoldsMu
  <2> QED BY <2>1 DEF AccountInv, TrueStateInv, StateMatchesRemote
<1> QED BY <1>1, AccountInit, AccountStep, PTL DEF Spec

(* edit_file over SSH reads a file, edits it and writes it back without a   *)
(* lock: an edit reported done stays in its machine's file unless it        *)
(* overlapped another one or a later write to the file failed.              *)
THEOREM EditsStay == Spec => []EditsSurvive
<1>1. Init => FileInv
  <2> SUFFICES ASSUME Init PROVE EditInv /\ EditsSurvive
      BY EnvInit DEF FileInv
  <2> QED BY DEF Init, EditInv, EditsSurvive, InEdit
<1>2. FileInv => EditsSurvive
    BY DEF FileInv
<1> QED BY <1>1, <1>2, FileStep, PTL DEF Spec

----------------------------------------------------------------------------
(* Refinement *)
RunsTool == {"tool", "editRead", "editWrite"}

LEMMA RunningKept ==
    ASSUME TypeOK, NEW c \in Callers, NEW p, pc' = [pc EXCEPT ![c] = p],
           pc[c] \in RunsTool <=> p \in RunsTool
    PROVE  Running' = Running
BY DEF TypeOK, Running, RunsTool

LEMMA RunningGrows ==
    ASSUME TypeOK, NEW c \in Callers, NEW p \in RunsTool,
           pc' = [pc EXCEPT ![c] = p], pc[c] \notin RunsTool
    PROVE  c \notin Running /\ Running' = Running \cup {c}
BY DEF TypeOK, Running, RunsTool

LEMMA RunningShrinks ==
    ASSUME TypeOK, NEW c \in Callers, NEW p, p \notin RunsTool,
           pc' = [pc EXCEPT ![c] = p], pc[c] \in RunsTool
    PROVE  c \in Running /\ Running' = Running \ {c}
BY DEF TypeOK, Running, RunsTool

\* The state callers see, implementation by implementation.
LEMMA StateOfKinds ==
    /\ kind \in Locked => StateOf = state
    /\ kind = "local" => StateOf = IF state = "destroyed" THEN state ELSE "active"
    /\ kind = "native" => StateOf =
          IF state = "destroyed" THEN "destroyed"
          ELSE IF id = None THEN "creating"
          ELSE IF ~reach THEN "failed"
          ELSE IF remote[id] = "running" THEN "active"
          ELSE IF remote[id] = "suspended" THEN "paused"
          ELSE IF remote[id] = "destroying" THEN "destroying" ELSE "failed"
BY DEF StateOf, Locked

LEMMA StateOfKindsAfter ==
    ASSUME kind' = kind
    PROVE
    /\ kind \in Locked => StateOf' = state'
    /\ kind = "local" => StateOf' = IF state' = "destroyed" THEN state' ELSE "active"
    /\ kind = "native" => StateOf' =
          IF state' = "destroyed" THEN "destroyed"
          ELSE IF id' = None THEN "creating"
          ELSE IF ~reach' THEN "failed"
          ELSE IF remote'[id'] = "running" THEN "active"
          ELSE IF remote'[id'] = "suspended" THEN "paused"
          ELSE IF remote'[id'] = "destroying" THEN "destroying" ELSE "failed"
BY DEF StateOf, Locked

\* A step of the environment that is a step of its interface, or none.
AbstractStep == [Env!Next]_(Env!envVars)

\* The moves the interface allows its state, and those of a server's state.
Moves == {<<"creating", "active">>, <<"active", "paused">>, <<"paused", "active">>}
         \cup {"active", "paused", "destroying", "failed"} \X {"destroyed"}
AskedMoves == {<<"creating", "failed">>}
              \cup {"active", "paused"} \X {"destroying"}
              \cup {"active", "paused", "destroying"} \X {"failed"}
              \cup {"failed"} \X {"active", "paused", "destroying"}

\* Nothing but the state moves; nothing but the admitted tools do.
StateOnly == kind' = kind /\ Running' = Running /\ replaced' = replaced
ToolsOnly == kind' = kind /\ StateOf' = StateOf /\ replaced' = replaced

\* A Create replaces the sandbox; natives may stay destroyed.
Renewed ==
    /\ kind' = kind /\ Running' = Running /\ replaced' # {} /\ StateOf # "creating"
    /\ \/ StateOf' = "active"
       \/ kind = "native" /\ StateOf' = "failed"
       \/ kind = "native" /\ StateOf = "destroyed" /\ StateOf' = StateOf

\* A tool may be admitted.
Admits == StateOf = "active" \/ (kind = "native" /\ (StateOf = "failed" \/ replaced # {}))

LEMMA AbstractSteps ==
    /\ StateOnly /\ StateOf' = StateOf => AbstractStep
    /\ StateOnly /\ <<StateOf, StateOf'>> \in Moves => AbstractStep
    /\ StateOnly /\ kind = "native" /\ <<StateOf, StateOf'>> \in AskedMoves => AbstractStep
    /\ Renewed => AbstractStep
    /\ \A c \in Callers :
         ToolsOnly /\ Admits /\ c \notin Running /\ Running' = Running \cup {c} => AbstractStep
    /\ \A c \in Callers :
         ToolsOnly /\ c \in Running /\ Running' = Running \ {c} => AbstractStep
<1> USE DEF AbstractStep, StateOnly, ToolsOnly, Env!Next, Env!envVars
<1>1. StateOnly /\ StateOf' = StateOf => AbstractStep
    OBVIOUS
<1>2. StateOnly /\ <<StateOf, StateOf'>> \in Moves => AbstractStep
    BY DEF Moves, Env!Create, Env!Pause, Env!Resume, Env!Destroy, Env!SessionState
<1>3. StateOnly /\ kind = "native" /\ <<StateOf, StateOf'>> \in AskedMoves => AbstractStep
    BY DEF AskedMoves, Env!Create, Env!ServerMoves
<1>4. Renewed => AbstractStep
    BY DEF Renewed, Env!Recreate
<1>5. ASSUME NEW c \in Callers,
             ToolsOnly, Admits, c \notin Running, Running' = Running \cup {c}
      PROVE  AbstractStep
    BY <1>5 DEF Admits, Env!ExecuteTool
<1>6. ASSUME NEW c \in Callers, ToolsOnly, c \in Running, Running' = Running \ {c}
      PROVE  AbstractStep
    BY <1>6 DEF Env!ToolReturns
<1> HIDE DEF AbstractStep, StateOnly, ToolsOnly, Env!Next, Env!envVars
<1> QED BY <1>1, <1>2, <1>3, <1>4, <1>5, <1>6

LEMMA RefinementStep == AccountInv /\ [Next]_vars => AbstractStep
<1> SUFFICES ASSUME AccountInv, [Next]_vars PROVE AbstractStep
    OBVIOUS
<1>0. TypeOK /\ None \notin Ids /\ EnvInv /\ DestroyedIsGone
    BY EnvConstants DEF AccountInv, EnvInv, Ids
<1> USE EnvConstants, AbstractSteps, StateOfKinds, StateOfKindsAfter DEF Moves, AskedMoves, StateOnly, ToolsOnly, Renewed, Admits, RunsTool,
      EnvInv, TypeOK, MutexInv, KindInv, PlaceInv, CreateInv, NamedInv, HoldsMu, InEdit, Creating, Status, Locked,
      Kinds, PauseKinds, editVars
<1>s. pc' = pc => Running' = Running
    BY DEF Running
<1>1. ASSUME Expire PROVE AbstractStep
    BY <1>0, <1>s, <1>1 DEF Expire
<1>2. ASSUME NEW c \in Callers, FlyCreateVolume(c) PROVE AbstractStep
    BY <1>0, <1>2, RunningKept, PostCreateEffect DEF FlyCreateVolume
<1>3. ASSUME NEW c \in Callers, FlyCreateMachine(c) PROVE AbstractStep
  <2>1. Running' = Running /\ kind' = kind /\ kind = "fly"
    BY <1>0, <1>3, RunningKept DEF FlyCreateMachine
  <2>2. StateOf = state /\ StateOf' = state'
    BY <2>1
  <2>3. CASE UNCHANGED <<replaced, state>>
    BY <2>1, <2>2, <2>3
  <2>4. CASE replaced' = Replaced /\ state' = "active" /\ id = None
    <3>1. replaced' = replaced /\ state = "creating"
      BY <1>0, <2>1, <2>4 DEF Replaced
    <3> QED BY <2>1, <2>2, <2>4, <3>1
  <2>5. CASE replaced' = Replaced /\ state' = "active" /\ id # None
    <3>1. replaced' # {} /\ state # "creating"
      BY <1>0, <2>1, <2>5 DEF Replaced
    <3> QED BY <2>1, <2>2, <2>5, <3>1
  <2> QED BY <1>3, <2>3, <2>4, <2>5 DEF FlyCreateMachine
<1>4. ASSUME NEW c \in Callers, FlyCleanup(c) PROVE AbstractStep
    BY <1>0, <1>4, RunningKept, DoJSONEffect DEF FlyCleanup
<1>5. ASSUME NEW c \in Callers, CreateSandbox(c) PROVE AbstractStep
    BY <1>0, <1>5, RunningKept, PostCreateEffect DEF CreateSandbox
<1>6. ASSUME NEW c \in Callers, StoreSandbox(c) PROVE AbstractStep
    BY <1>0, <1>6, RunningKept DEF StoreSandbox, Replaced
<1>7. ASSUME NEW c \in Callers, CapabilityMismatch(c) PROVE AbstractStep
    BY <1>0, <1>7, RunningKept DEF CapabilityMismatch
<1>8. ASSUME NEW c \in Callers, AttachSession(c) PROVE AbstractStep
    BY <1>0, <1>8, NextIdIsFree, <1>s DEF AttachSession, Replaced
<1>9. ASSUME NEW c \in Callers, PauseLock(c) PROVE AbstractStep
    BY <1>0, <1>9, RunningKept DEF PauseLock, Lock
<1>10. ASSUME NEW c \in Callers, PauseCall(c) PROVE AbstractStep
    BY <1>0, <1>10, RunningKept, DoJSONEffect DEF PauseCall, Unlock
<1>11. ASSUME NEW c \in Callers, ResumeLock(c) PROVE AbstractStep
    BY <1>0, <1>11, RunningKept DEF ResumeLock, Lock
<1>12. ASSUME NEW c \in Callers, ResumeCall(c) PROVE AbstractStep
    BY <1>0, <1>12, RunningKept, DoJSONEffect DEF ResumeCall, Unlock
<1>13. ASSUME NEW c \in Callers, NativePauseResume(c) PROVE AbstractStep
    BY <1>0, <1>13, <1>s, DoJSONEffect DEF NativePauseResume
<1>14. ASSUME NEW c \in Callers, DestroyLock(c) PROVE AbstractStep
    BY <1>0, <1>14, RunningKept DEF DestroyLock, Lock
<1>15. ASSUME NEW c \in Callers, DestroyCall(c) PROVE AbstractStep
  <2>1. Running' = Running
    BY <1>0, <1>15, RunningKept DEF DestroyCall, Unlock
  <2>2. StateOf = state /\ StateOf' = state' /\ UNCHANGED <<kind, replaced>>
    BY <1>0, <1>15 DEF DestroyCall
  <2>3. state' = state \/ (state \in {"active", "paused"} /\ state' = "destroyed")
    BY <1>0, <1>15 DEF DestroyCall
  <2> QED BY <2>1, <2>2, <2>3
<1>16. ASSUME NEW c \in Callers, DestroyVolume(c) PROVE AbstractStep
    BY <1>0, <1>16, RunningKept, DoJSONEffect DEF DestroyVolume, Unlock
<1>17. ASSUME NEW c \in Callers, NativeDestroy(c) PROVE AbstractStep
  <2>1. Running' = Running
    <3>1. pc[c] = "idle" /\ (pc' = pc \/ pc' = [pc EXCEPT ![c] = "flag"])
      BY <1>0, <1>17, NativeDestroyEffect
    <3> QED BY <1>0, <1>s, <3>1, RunningKept
  <2>2. /\ kind = "native" /\ id \in Ids /\ UNCHANGED <<kind, id, state, reach, replaced>>
        /\ state # "destroyed"
        /\ remote'[id] = remote[id] \/ (Live(id) /\ remote'[id] \in {"destroying", "gone"})
    BY <1>0, <1>17, NativeDestroyEffect
  <2>4. StateOf' = StateOf \/ <<StateOf, StateOf'>> \in AskedMoves
    BY <1>0, <2>2 DEF Live
  <2> QED BY <2>1, <2>2, <2>4
<1>18. ASSUME NEW c \in Callers, StoreDestroyed(c) PROVE AbstractStep
    BY <1>0, <1>18, RunningKept DEF StoreDestroyed
<1>19. ASSUME NEW c \in Callers, LocalDestroy(c) PROVE AbstractStep
    BY <1>0, <1>19, <1>s DEF LocalDestroy
<1>20. ASSUME NEW c \in Callers, ExecuteTool(c) PROVE AbstractStep
    BY <1>0, <1>20, RunningGrows DEF ExecuteTool, ActiveSandboxID
<1>21. ASSUME NEW c \in Callers, ExecuteLocal(c) PROVE AbstractStep
    BY <1>0, <1>21, RunningGrows DEF ExecuteLocal
<1>22. ASSUME NEW c \in Callers, ExecuteNative(c) PROVE AbstractStep
    BY <1>0, <1>22, RunningKept DEF ExecuteNative
<1>23. ASSUME NEW c \in Callers, ServerAdmits(c) PROVE AbstractStep
  <2>1. kind = "native" /\ res[c] \in Ids /\ ToolsOnly
    BY <1>0, <1>23 DEF ServerAdmits
  <2>2. CASE remote[res[c]] = "running"
    <3>1. replaced # {} \/ StateOf = "active" \/ StateOf = "failed"
      <4>1. CASE replaced = {}
        <5>1. res[c] = id /\ id \in Ids
          BY <1>0, <1>23, <2>1, <4>1 DEF ServerAdmits
        <5>2. state # "destroyed"
          BY <1>0, <2>1, <2>2, <4>1, <5>1 DEF DestroyedIsGone, Live
        <5> QED BY <2>1, <2>2, <5>1, <5>2, <1>0
      <4> QED BY <4>1
    <3>3. pc[c] = "ask" /\ pc' = [pc EXCEPT ![c] = "tool"]
      BY <1>23, <2>2 DEF ServerAdmits
    <3>4. c \notin Running /\ Running' = Running \cup {c}
      BY <1>0, <3>3, RunningGrows
    <3> QED BY <2>1, <3>1, <3>4
  <2>3. CASE remote[res[c]] # "running"
    <3>1. Running' = Running
      BY <1>0, <1>23, <2>3, RunningKept DEF ServerAdmits
    <3> QED BY <2>1, <3>1
  <2> QED BY <2>2, <2>3
<1>24. ASSUME NEW c \in Callers, ToolReturns(c) PROVE AbstractStep
    BY <1>0, <1>24, RunningShrinks DEF ToolReturns
<1>25. ASSUME NEW c \in Callers, EditRead(c) PROVE AbstractStep
    BY <1>0, <1>25, RunningShrinks, RunningKept DEF EditRead, applyEdit
<1>26. ASSUME NEW c \in Callers, EditWrite(c) PROVE AbstractStep
    BY <1>0, <1>26, RunningShrinks DEF EditWrite
<1>28. ASSUME ServerReach PROVE AbstractStep
    BY <1>0, <1>s, <1>28 DEF ServerReach
<1>29. ASSUME NEW c \in Callers, NativeRollback(c) PROVE AbstractStep
    BY <1>0, <1>s, <1>29 DEF NativeRollback
<1>27. ASSUME UNCHANGED vars PROVE AbstractStep
    BY <1>0, <1>s, <1>27 DEF vars
<1> QED BY <1>1, <1>2, <1>3, <1>4, <1>5, <1>6, <1>7, <1>8, <1>9, <1>10, <1>11, <1>12, <1>13, <1>14, <1>15, <1>16, <1>17, <1>18, <1>19, <1>20, <1>21, <1>22, <1>23, <1>24, <1>25, <1>26, <1>27, <1>28, <1>29 DEF Next, CreateStep, LifecycleStep, ToolStep

(* Whatever stands behind the interface, and whatever calls overlap, callers *)
(* see the lifecycle of ExecutionEnvironment: only a Create leads out of     *)
(* destroyed, and the implementations that keep their state admit tools in   *)
(* the active state only; native admits what the server admits.              *)
THEOREM Refinement == Spec => ImplementsEnvironment
<1>1. Init => Env!Init
  <2> SUFFICES ASSUME Init PROVE Env!Init
      OBVIOUS
  <2>1. StateOf \in {"creating", "active"}
    BY StateOfKinds DEF Init, Kinds, Locked
  <2>2. Running = {}
    BY DEF Init, Running
  <2> QED BY <2>1, <2>2, EnvInit DEF Env!Init, Init
<1>2. AccountInv /\ [Next]_vars => [Env!Next]_(Env!envVars)
    BY RefinementStep DEF AbstractStep
<1> QED BY <1>1, <1>2, AccountInit, AccountStep, PTL DEF Spec, ImplementsEnvironment, Env!Spec
=============================================================================
