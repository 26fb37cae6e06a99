------------------------- MODULE RemoteEnvironment -------------------------
(***************************************************************************)
(* The execution environments of internal/sandbox/environment: fly, e2b    *)
(* and daytona drive a provider's REST API, native drives the sandbox host *)
(* service, local runs on this machine.  One environment object is shared  *)
(* by concurrent callers.  All of them create, run tools, pause, resume    *)
(* and destroy, in any order: no Create looks at what is there already, so *)
(* one may follow a Destroy (the recovery callers fall back to) or replace *)
(* a sandbox that still runs.                                              *)
(*                                                                         *)
(* The provider is external: a request takes effect or not, and its answer *)
(* may be lost after the effect (DoJSON returns an error in both cases).   *)
(***************************************************************************)
EXTENDS Naturals, FiniteSets

CONSTANTS
    Callers,   \* goroutines that share the environment
    None,
    MaxIds     \* bound: resources the provider ever creates

ASSUME EnvConstants ==
    /\ None \notin Callers \cup Nat
    /\ MaxIds \in Nat

Ids == 1 .. MaxIds
Kinds == {"fly", "e2b", "daytona", "native", "local"}

VARIABLES
    kind,     \* which implementation of ExecutionEnvironment this is
    mu,       \* the write holder of e.mu; readers take it for one step only
    state,    \* e.state; of native and local only the destroyed flag is kept
    id,       \* machineID, sandboxID, workspaceID or sessionID
    vol,      \* fly: volumeID
    remote,   \* the provider's side: the status of every resource
    reach,    \* native: whether a State() query gets its answer
    pc,       \* where each caller is
    res,      \* the resource a caller's local variable names
    lost,     \* resources whose create the environment saw fail
    replaced, \* resources whose ID a later Create or AttachSession overwrote
    drift,    \* a lifecycle request failed, or the provider expired a sandbox
    file,     \* per machine, the file edit_file works on: the edits in its text
    seen,     \* edit_file: the text to write back
    edited,   \* the machine on which a caller's edit was reported done
    lapped,   \* callers whose edit overlapped another one on that machine
    torn      \* callers with a reported edit in a file when a write to it failed

vars == <<kind, mu, state, id, vol, remote, reach, pc, res, lost, replaced, drift,
          file, seen, edited, lapped, torn>>
editVars == <<file, seen, edited, lapped, torn>>

Locked == {"fly", "e2b", "daytona"}    \* kinds that keep a state under e.mu
Live(r) == remote[r] \in {"running", "suspended", "destroying", "failed"}

Init ==
    /\ kind \in Kinds
    /\ mu = None
    /\ state = "creating"
    /\ id = None
    /\ vol = None
    /\ remote = [r \in Ids |-> "none"]
    /\ reach = TRUE
    /\ pc = [c \in Callers |-> "idle"]
    /\ res = [c \in Callers |-> None]
    /\ lost = {}
    /\ replaced = {}
    /\ drift = FALSE
    /\ file = [r \in Ids |-> {}]
    /\ seen = [c \in Callers |-> {}]
    /\ edited = [c \in Callers |-> None]
    /\ lapped = {}
    /\ torn = {}

----------------------------------------------------------------------------
(* The provider *)

(* DoJSON on an existing resource: a 2xx answer means the effect happened; *)
(* an error (status, timeout, decode) leaves it open.                      *)
DoJSON(r, effect, ok) ==
    LET done == IF Live(r) THEN [remote EXCEPT ![r] = effect] ELSE remote
    IN  IF ok THEN Live(r) /\ remote' = done
              ELSE remote' \in {remote, done}

NextId == CHOOSE r \in Ids : remote[r] = "none"
CanCreate == \E r \in Ids : remote[r] = "none"

(* A creating request: on an error (no 2xx, or an answer without the ID) the *)
(* resource may exist all the same, and nobody learns its ID.                *)
PostCreate(ok) ==
    LET made == [remote EXCEPT ![NextId] = "running"] IN
    /\ CanCreate
    /\ IF ok THEN remote' = made /\ lost' = lost
             ELSE \/ remote' = made /\ lost' = lost \cup {NextId}
                  \/ UNCHANGED <<remote, lost>>

(* An e2b sandbox lives for its timeout. *)
Expire ==
    /\ kind = "e2b"
    /\ id # None
    /\ Live(id)
    /\ remote' = [remote EXCEPT ![id] = "gone"]
    /\ drift' = TRUE
    /\ UNCHANGED <<kind, mu, state, id, vol, reach, pc, res, lost, replaced, editVars>>

(* native: GetSession stops or starts answering within State()'s timeout. *)
ServerReach ==
    /\ kind = "native"
    /\ reach' = ~reach
    /\ UNCHANGED <<kind, mu, state, id, vol, remote, pc, res, lost, replaced, drift, editVars>>

----------------------------------------------------------------------------
(* Create: whatever the environment's state is, and whatever it has. *)

(* The IDs a successful create overwrites. *)
Replaced == replaced \cup ({id, vol} \ {None})

(* fly: the volume first, under the lock that is kept until the end. *)
FlyCreateVolume(c) ==
    /\ kind = "fly"
    /\ pc[c] = "idle"
    /\ mu = None
    /\ \E ok \in BOOLEAN :
         /\ PostCreate(ok)
         /\ IF ok
            THEN /\ mu' = c
                 /\ pc' = [pc EXCEPT ![c] = "machine"]
                 /\ res' = [res EXCEPT ![c] = NextId]
            ELSE UNCHANGED <<mu, pc, res>>
    /\ UNCHANGED <<kind, state, id, vol, reach, replaced, drift, editVars>>

(* Then the machine; the environment is active, or the volume is to go. *)
FlyCreateMachine(c) ==
    /\ pc[c] = "machine"
    /\ \E ok \in BOOLEAN :
         /\ PostCreate(ok)
         /\ IF ok
            THEN /\ replaced' = Replaced
                 /\ id' = NextId
                 /\ vol' = res[c]
                 /\ state' = "active"
                 /\ mu' = None
                 /\ pc' = [pc EXCEPT ![c] = "idle"]
                 /\ res' = [res EXCEPT ![c] = None]
            ELSE /\ pc' = [pc EXCEPT ![c] = "cleanup"]
                 /\ UNCHANGED <<replaced, id, vol, state, mu, res>>
    /\ UNCHANGED <<kind, reach, drift, editVars>>

(* A best-effort delete: its error is dropped with the volume's ID. *)
FlyCleanup(c) ==
    /\ pc[c] = "cleanup"
    /\ \E ok \in BOOLEAN : DoJSON(res[c], "gone", ok)
    /\ lost' = IF remote'[res[c]] = "gone" THEN lost ELSE lost \cup {res[c]}
    /\ mu' = None
    /\ pc' = [pc EXCEPT ![c] = "idle"]
    /\ res' = [res EXCEPT ![c] = None]
    /\ UNCHANGED <<kind, state, id, vol, reach, replaced, drift, editVars>>

(* e2b, daytona and native ask without a lock and store the ID afterwards. *)
CreateSandbox(c) ==
    /\ kind \in {"e2b", "daytona", "native"}
    /\ pc[c] = "idle"
    /\ \E ok \in BOOLEAN :
         /\ PostCreate(ok)
         /\ IF ok
            THEN /\ pc' = [pc EXCEPT ![c] = "store"]
                 /\ res' = [res EXCEPT ![c] = NextId]
            ELSE UNCHANGED <<pc, res>>
    /\ UNCHANGED <<kind, mu, state, id, vol, reach, replaced, drift, editVars>>

(* native stores the ID alone: a destroyed flag stays set. *)
StoreSandbox(c) ==
    /\ pc[c] = "store"
    /\ kind \in Locked => mu = None
    /\ replaced' = Replaced
    /\ id' = res[c]
    /\ state' = IF kind \in Locked THEN "active" ELSE state
    /\ pc' = [pc EXCEPT ![c] = "idle"]
    /\ res' = [res EXCEPT ![c] = None]
    /\ UNCHANGED <<kind, mu, vol, remote, reach, lost, drift, editVars>>

(* native: the server lacks a configured capability.  Create fails and the *)
(* session it made is left on the server.                                  *)
CapabilityMismatch(c) ==
    /\ kind = "native"
    /\ pc[c] = "store"
    /\ lost' = lost \cup {res[c]}
    /\ pc' = [pc EXCEPT ![c] = "idle"]
    /\ res' = [res EXCEPT ![c] = None]
    /\ UNCHANGED <<kind, mu, state, id, vol, remote, reach, replaced, drift, editVars>>

(* native: bind to a session the orchestrator provisioned, and clear the flag. *)
AttachSession(c) ==
    /\ kind = "native"
    /\ pc[c] = "idle"
    /\ CanCreate
    /\ remote' = [remote EXCEPT ![NextId] = "running"]
    /\ replaced' = Replaced
    /\ id' = NextId
    /\ state' = "creating"
    /\ UNCHANGED <<kind, mu, vol, reach, pc, res, lost, drift, editVars>>

----------------------------------------------------------------------------
(* Pause and Resume *)

PauseKinds == {"fly", "e2b"}    \* daytona refuses, local does nothing

Lock(c, next) ==
    /\ mu' = c
    /\ pc' = [pc EXCEPT ![c] = next]

Unlock(c) ==
    /\ mu' = None
    /\ pc' = [pc EXCEPT ![c] = "idle"]

PauseLock(c) ==
    /\ kind \in PauseKinds
    /\ pc[c] = "idle"
    /\ mu = None
    /\ state = "active"
    /\ id # None
    /\ Lock(c, "pause")
    /\ UNCHANGED <<kind, state, id, vol, remote, reach, res, lost, replaced, drift, editVars>>

PauseCall(c) ==
    /\ pc[c] = "pause"
    /\ \E ok \in BOOLEAN :
         /\ DoJSON(id, "suspended", ok)
         /\ state' = IF ok THEN "paused" ELSE state
         /\ drift' = (drift \/ ~ok)
    /\ Unlock(c)
    /\ UNCHANGED <<kind, id, vol, reach, res, lost, replaced, editVars>>

ResumeLock(c) ==
    /\ kind \in PauseKinds
    /\ pc[c] = "idle"
    /\ mu = None
    /\ state = "paused"
    /\ id # None
    /\ Lock(c, "resume")
    /\ UNCHANGED <<kind, state, id, vol, remote, reach, res, lost, replaced, drift, editVars>>

ResumeCall(c) ==
    /\ pc[c] = "resume"
    /\ \E ok \in BOOLEAN :
         /\ DoJSON(id, "running", ok)
         /\ state' = IF ok THEN "active" ELSE state
         /\ drift' = (drift \/ ~ok)
    /\ Unlock(c)
    /\ UNCHANGED <<kind, id, vol, reach, res, lost, replaced, editVars>>

(* native keeps no state: the server decides. *)
NativePauseResume(c) ==
    /\ kind = "native"
    /\ pc[c] = "idle"
    /\ id # None
    /\ \E ok \in BOOLEAN :
         \/ remote[id] = "running" /\ DoJSON(id, "suspended", ok)
         \/ remote[id] = "suspended" /\ DoJSON(id, "running", ok)
    /\ UNCHANGED <<kind, mu, state, id, vol, reach, pc, res, lost, replaced, drift, editVars>>

(* native: the server rolls a session back; when that fails the session is *)
(* failed and serves nothing any more.                                     *)
NativeRollback(c) ==
    /\ kind = "native"
    /\ pc[c] = "idle"
    /\ id # None
    /\ remote[id] = "running"
    /\ remote' = [remote EXCEPT ![id] = "failed"]
    /\ UNCHANGED <<kind, mu, state, id, vol, reach, pc, res, lost, replaced, drift, editVars>>

----------------------------------------------------------------------------
(* Destroy *)

DestroyLock(c) ==
    /\ kind \in Locked
    /\ pc[c] = "idle"
    /\ mu = None
    /\ state # "destroyed"
    /\ id # None
    /\ Lock(c, "destroy")
    /\ UNCHANGED <<kind, state, id, vol, remote, reach, res, lost, replaced, drift, editVars>>

(* Mutant: the machine's removal is taken for the environment's. *)
DestroyCallForgetsVolume(c) ==
    /\ pc[c] = "destroy"
    /\ \E ok \in BOOLEAN :
         /\ DoJSON(id, "gone", ok)
         /\ drift' = (drift \/ ~ok)
         /\ Unlock(c)
         /\ state' = IF ok THEN "destroyed" ELSE state
    /\ UNCHANGED <<kind, id, vol, reach, res, lost, replaced, editVars>>

(* The machine goes first.  An error ends the call and leaves the state, so *)
(* a later Destroy starts again with the machine.                           *)
DestroyCall(c) ==
    /\ pc[c] = "destroy"
    /\ \E ok \in BOOLEAN :
         /\ DoJSON(id, "gone", ok)
         /\ drift' = (drift \/ ~ok)
         /\ IF ok /\ vol # None
            THEN pc' = [pc EXCEPT ![c] = "destroyVolume"] /\ UNCHANGED <<mu, state>>
            ELSE /\ Unlock(c)
                 /\ state' = IF ok THEN "destroyed" ELSE state
    /\ UNCHANGED <<kind, id, vol, reach, res, lost, replaced, editVars>>

DestroyVolume(c) ==
    /\ pc[c] = "destroyVolume"
    /\ \E ok \in BOOLEAN :
         /\ DoJSON(vol, "gone", ok)
         /\ drift' = (drift \/ ~ok)
         /\ state' = IF ok THEN "destroyed" ELSE state
    /\ Unlock(c)
    /\ UNCHANGED <<kind, id, vol, reach, res, lost, replaced, editVars>>

(* native: the flag is stored after the server answered.  A destroy that is *)
(* cancelled while it drains leaves the session destroying.                 *)
NativeDestroy(c) ==
    /\ kind = "native"
    /\ pc[c] = "idle"
    /\ state # "destroyed"
    /\ id # None
    /\ \/ /\ DoJSON(id, "gone", TRUE)
          /\ pc' = [pc EXCEPT ![c] = "flag"]
       \/ /\ \E left \in {"destroying", "gone"} : DoJSON(id, left, FALSE)
          /\ UNCHANGED pc
    /\ UNCHANGED <<kind, mu, state, id, vol, reach, res, lost, replaced, drift, editVars>>

StoreDestroyed(c) ==
    /\ pc[c] = "flag"
    /\ state' = "destroyed"
    /\ pc' = [pc EXCEPT ![c] = "idle"]
    /\ UNCHANGED <<kind, mu, id, vol, remote, reach, res, lost, replaced, drift, editVars>>

LocalDestroy(c) ==
    /\ kind = "local"
    /\ pc[c] = "idle"
    /\ state' = "destroyed"
    /\ UNCHANGED <<kind, mu, id, vol, remote, reach, pc, res, lost, replaced, drift, editVars>>

----------------------------------------------------------------------------
(* ExecuteTool *)

(* Mutant: the ID alone is looked at. *)
ActiveSandboxIDOnly(c) ==
    /\ mu = None
    /\ id # None
    /\ res' = [res EXCEPT ![c] = id]

(* The state and the ID are read under the lock, used after it. *)
ActiveSandboxID(c) ==
    /\ mu = None
    /\ state = "active"
    /\ id # None
    /\ res' = [res EXCEPT ![c] = id]

ExecuteTool(c) ==
    /\ kind \in Locked
    /\ pc[c] = "idle"
    /\ ActiveSandboxID(c)
    /\ \/ /\ pc' = [pc EXCEPT ![c] = "tool"]
          /\ UNCHANGED editVars
       \/ /\ kind = "fly"            \* edit_file: a read and a write over SSH
          /\ edited[c] = None        \* each caller edits a file once
          /\ pc' = [pc EXCEPT ![c] = "editRead"]
          /\ lapped' = LET others == {d \in Callers : /\ pc[d] \in {"editRead", "editWrite"}
                                                     /\ res[d] = id}
                       IN  IF others = {} THEN lapped
                           ELSE lapped \cup others \cup {c}
          /\ UNCHANGED <<file, seen, edited, torn>>
    /\ UNCHANGED <<kind, mu, state, id, vol, remote, reach, lost, replaced, drift>>

(* local looks at its flag, native leaves the admission to the server. *)
ExecuteLocal(c) ==
    /\ kind = "local"
    /\ pc[c] = "idle"
    /\ state # "destroyed"
    /\ pc' = [pc EXCEPT ![c] = "tool"]
    /\ UNCHANGED <<kind, mu, state, id, vol, remote, reach, res, lost, replaced, drift, editVars>>

ExecuteNative(c) ==
    /\ kind = "native"
    /\ pc[c] = "idle"
    /\ id # None
    /\ pc' = [pc EXCEPT ![c] = "ask"]
    /\ res' = [res EXCEPT ![c] = id]
    /\ UNCHANGED <<kind, mu, state, id, vol, remote, reach, lost, replaced, drift, editVars>>

ServerAdmits(c) ==
    /\ pc[c] = "ask"
    /\ IF remote[res[c]] = "running"
       THEN /\ pc' = [pc EXCEPT ![c] = "tool"]
            /\ UNCHANGED res
       ELSE /\ pc' = [pc EXCEPT ![c] = "idle"]
            /\ res' = [res EXCEPT ![c] = None]
    /\ UNCHANGED <<kind, mu, state, id, vol, remote, reach, lost, replaced, drift, editVars>>

(* The request, or the SSH session, ends: with output or with an error. *)
ToolReturns(c) ==
    /\ pc[c] = "tool"
    /\ pc' = [pc EXCEPT ![c] = "idle"]
    /\ res' = [res EXCEPT ![c] = None]
    /\ UNCHANGED <<kind, mu, state, id, vol, remote, reach, lost, replaced, drift, editVars>>

(* Mutant: the new text is made of the edit alone. *)
applyEditBlind(content, c, count, replaceAll) ==
    IF count = 0 \/ (count > 1 /\ ~replaceAll) THEN content ELSE {c}

(* An edit of text with no occurrence of old_string, or with several and no *)
(* replace_all, changes nothing; any other is in the text afterwards.       *)
applyEdit(content, c, count, replaceAll) ==
    IF count = 0 \/ (count > 1 /\ ~replaceAll) THEN content ELSE content \cup {c}

(* Read over SSH and edit; the call ends when SSH or cat failed or the edit *)
(* changed nothing.                                                         *)
EditRead(c) ==
    /\ pc[c] = "editRead"
    /\ \E readOK, replaceAll \in BOOLEAN, count \in 0..2 :
         LET content == file[res[c]]
             updated == applyEdit(content, c, count, replaceAll)
         IN  IF readOK /\ updated # content
             THEN /\ remote[res[c]] = "running"
                  /\ seen' = [seen EXCEPT ![c] = updated]
                  /\ pc' = [pc EXCEPT ![c] = "editWrite"]
                  /\ UNCHANGED res
             ELSE /\ pc' = [pc EXCEPT ![c] = "idle"]
                  /\ res' = [res EXCEPT ![c] = None]
                  /\ UNCHANGED seen
    /\ UNCHANGED <<kind, mu, state, id, vol, remote, reach, lost, replaced, drift,
                   file, edited, lapped, torn>>

(* The whole text is written back with a redirect that truncates the file    *)
(* first: a failed write leaves it alone, empty, or with a part of the text. *)
EditWrite(c) ==
    /\ pc[c] = "editWrite"
    /\ \/ /\ remote[res[c]] = "running"
          /\ file' = [file EXCEPT ![res[c]] = seen[c]]
          /\ edited' = [edited EXCEPT ![c] = res[c]]
          /\ UNCHANGED torn
       \/ /\ \E left \in {file[res[c]]} \cup SUBSET seen[c] :
               file' = [file EXCEPT ![res[c]] = left]
          /\ torn' = torn \cup {d \in Callers : edited[d] = res[c]}
          /\ UNCHANGED edited
    /\ seen' = [seen EXCEPT ![c] = {}]
    /\ pc' = [pc EXCEPT ![c] = "idle"]
    /\ res' = [res EXCEPT ![c] = None]
    /\ UNCHANGED <<kind, mu, state, id, vol, remote, reach, lost, replaced, drift, lapped>>

----------------------------------------------------------------------------
CreateStep(c) ==
    \/ FlyCreateVolume(c) \/ FlyCreateMachine(c) \/ FlyCleanup(c)
    \/ CreateSandbox(c) \/ StoreSandbox(c)
    \/ CapabilityMismatch(c) \/ AttachSession(c)

LifecycleStep(c) ==
    \/ PauseLock(c) \/ PauseCall(c) \/ ResumeLock(c) \/ ResumeCall(c)
    \/ NativePauseResume(c) \/ NativeRollback(c)
    \/ DestroyLock(c) \/ DestroyCall(c) \/ DestroyVolume(c)
    \/ NativeDestroy(c) \/ StoreDestroyed(c) \/ LocalDestroy(c)

ToolStep(c) ==
    \/ ExecuteTool(c) \/ ExecuteLocal(c) \/ ExecuteNative(c) \/ ServerAdmits(c)
    \/ ToolReturns(c) \/ EditRead(c) \/ EditWrite(c)

Next ==
    \/ Expire \/ ServerReach
    \/ \E c \in Callers : CreateStep(c) \/ LifecycleStep(c) \/ ToolStep(c)

Spec == Init /\ [][Next]_vars

----------------------------------------------------------------------------
(* Refinement *)

(* State(): the field, of local active until it is destroyed, of native what *)
(* the server says; a query that is not answered, or that asks for a session *)
(* the server no longer has, counts as failed.                               *)
StateOf ==
    CASE kind \in Locked -> state
      [] kind = "local"  -> IF state = "destroyed" THEN state ELSE "active"
      [] kind = "native" ->
           IF state = "destroyed" THEN "destroyed"
           ELSE IF id = None THEN "creating"
           ELSE IF ~reach THEN "failed"
           ELSE CASE remote[id] = "running"    -> "active"
                  [] remote[id] = "suspended"  -> "paused"
                  [] remote[id] = "destroying" -> "destroying"
                  [] OTHER                     -> "failed"

Running == {c \in Callers : pc[c] \in {"tool", "editRead", "editWrite"}}

Env == INSTANCE ExecutionEnvironment
       WITH asks <- kind = "native", state <- StateOf, running <- Running,
            renewed <- replaced # {}

(* Every implementation shows its callers the lifecycle of                  *)
(* ExecutionEnvironment, whatever Create, Pause, Resume, Destroy and tool   *)
(* calls overlap: only Create leads out of destroyed, and a tool is         *)
(* admitted in the active state only, although fly, e2b and daytona check   *)
(* it under a lock that is released before the tool runs.  native leaves    *)
(* the check to the server, whose answer State() may miss.                  *)
ImplementsEnvironment == Env!Spec

----------------------------------------------------------------------------
(* Properties *)

(* The callers that hold resource r in a create under way. *)
InCreate(r) == \E c \in Callers : res[c] = r /\ pc[c] \in {"machine", "cleanup", "store"}

(* A machine, volume or sandbox that exists is known to the environment, or *)
(* to the create under way; the only ones left behind are those of a create *)
(* that was told of a failure (fly.go's best-effort cleanup) and those a    *)
(* later Create replaced, whose IDs no Create looks at.                     *)
ResourcesOwned ==
    \A r \in Ids : Live(r) => r \in {id, vol} \cup lost \cup replaced \/ InCreate(r)

(* Destroy reported success: nothing the environment has runs on.  fly      *)
(* removes two resources in two requests, each of which may fail, and a     *)
(* Create may follow or overlap.  Of native this holds until a second       *)
(* Create: that one leaves the destroyed flag set (native.go:67).           *)
DestroyedIsGone ==
    state = "destroyed" /\ (kind \in Locked \/ replaced = {}) =>
        \A r \in Ids \cap {id, vol} : ~Live(r)

(* While no request failed, the state callers see is the provider's: create, *)
(* pause, resume and destroy of concurrent callers do not pass each other.   *)
StateMatchesRemote ==
    kind \in Locked /\ mu = None /\ ~drift /\ id # None =>
        /\ state = "active" => remote[id] = "running"
        /\ state = "paused" => remote[id] = "suspended"
        /\ state = "destroyed" => remote[id] = "gone"

(* edit_file over SSH reads the file and writes it back: an edit reported   *)
(* done stays in its machine's file unless it overlapped another edit there *)
(* or a later write to that file failed (the redirect truncates first).     *)
EditsSurvive ==
    \A c \in Callers \ (lapped \cup torn) : edited[c] # None => c \in file[edited[c]]

(* The environment's account of its sandbox is true: nothing runs that it  *)
(* does not know, nothing after a destroy, and its state is the provider's. *)
SandboxIsAccounted == ResourcesOwned /\ DestroyedIsGone /\ StateMatchesRemote
=============================================================================
