------------------------- MODULE SandboxHostProofs --------------------------
(***************************************************************************)
(* Proofs about SandboxHost for any callers, sessions, processes and       *)
(* limits: a session that is being destroyed stays so, no tool runs in a   *)
(* session that is rolled back, datasets and processes live as long as     *)
(* their session, and a session lists the snapshots that ZFS has.          *)
(***************************************************************************)
EXTENDS SandboxHost, FiniteSetTheorems, TLAPS

SessionFields == {"id", "state", "dataset", "tools", "rolling", "turn", "snaps", "procs"}

CallFields == {"pc", "op", "id", "o", "p", "name", "todo"}

IsSession(s) == DOMAIN s = SessionFields

IsCall(k) == DOMAIN k = CallFields

\* A list of sessions, whatever their fields hold.
Sessions(s) ==
    /\ s \in Seq({s[i] : i \in DOMAIN s})
    /\ \A i \in DOMAIN s : IsSession(s[i])

Serving == {"active", "paused"}

\* The session t may take the place of s.
Follows(s, t) ==
    /\ IsSession(t)
    /\ t.id = s.id /\ t.dataset = s.dataset
    /\ t.state \in Serving => s.state \in Serving
    /\ s.state = "destroying" => t.state \in {"destroying", "failed"}

\* Objects are added or take a step each, never taken away.
Grows(s, t) ==
    /\ Sessions(t)
    /\ DOMAIN s \subseteq DOMAIN t
    /\ \A o \in DOMAIN s : Follows(s[o], t[o])

\* What a step leaves of a session's tools and rollback, and new sessions have.
Calm(s, t) ==
    /\ \A o \in DOMAIN s : t[o].tools = s[o].tools /\ t[o].rolling = s[o].rolling
    /\ \A o \in DOMAIN t \ DOMAIN s : t[o].tools = 0

LEMMA AppendGrows ==
    ASSUME NEW s, Sessions(s), NEW e, IsSession(e), e.tools = 0
    PROVE  /\ Grows(s, Append(s, e)) /\ Calm(s, Append(s, e))
           /\ Len(Append(s, e)) = Len(s) + 1 /\ Len(s) \in Nat
           /\ DOMAIN s = 1..Len(s)
           /\ Len(s) + 1 \in DOMAIN Append(s, e)
           /\ Append(s, e)[Len(s) + 1] = e
<1> DEFINE S == {s[i] : i \in DOMAIN s}
           t == Append(s, e)
           T == {t[i] : i \in DOMAIN t}
<1>1. s \in Seq(S \cup {e})
  <2>1. s \in Seq(S) BY DEF Sessions
  <2> QED BY <2>1
<1>2. /\ t \in Seq(S \cup {e}) /\ Len(t) = Len(s) + 1 /\ Len(s) \in Nat
      /\ DOMAIN s = 1..Len(s) /\ DOMAIN t = 1..(Len(s) + 1)
      /\ \A i \in 1..Len(s) : t[i] = s[i]
      /\ t[Len(s) + 1] = e
  <2> HIDE DEF S
  <2> QED BY <1>1
<1> HIDE DEF t, S
<1>3. t \in Seq(T)
  <2>1. \A i \in 1..Len(t) : t[i] \in T BY <1>2 DEF T
  <2> HIDE DEF T
  <2> QED BY <1>2, <2>1
<1>4. \A i \in DOMAIN t : IsSession(t[i])
  <2>1. \A i \in DOMAIN s : IsSession(s[i]) BY DEF Sessions
  <2>2. \A i \in DOMAIN t : i \in DOMAIN s \/ i = Len(s) + 1 BY <1>2
  <2> QED BY <1>2, <2>1, <2>2
<1>5. Sessions(t) BY <1>3, <1>4 DEF Sessions, T
<1>6. Grows(s, t) /\ Calm(s, t)
  <2>1. \A o \in DOMAIN s : Follows(s[o], t[o])
        BY <1>2, <1>4 DEF Follows
  <2>2. Calm(s, t) BY <1>2 DEF Calm
  <2> QED BY <1>2, <1>5, <2>1, <2>2 DEF Grows
<1> QED BY <1>2, <1>6 DEF t

LEMMA ReplaceGrows ==
    ASSUME NEW s, Sessions(s), NEW o, NEW e, o \in DOMAIN s => Follows(s[o], e)
    PROVE  /\ Grows(s, [s EXCEPT ![o] = e])
           /\ DOMAIN [s EXCEPT ![o] = e] = DOMAIN s
           /\ (o \in DOMAIN s /\ e.tools = s[o].tools /\ e.rolling = s[o].rolling)
              => Calm(s, [s EXCEPT ![o] = e])
           /\ o \notin DOMAIN s => Calm(s, [s EXCEPT ![o] = e])
<1> DEFINE S == {s[i] : i \in DOMAIN s}
           t == [s EXCEPT ![o] = e]
           T == {t[i] : i \in DOMAIN t}
<1>1. s \in Seq(S) BY DEF Sessions
<1>2. /\ Len(s) \in Nat /\ DOMAIN s = 1..Len(s) /\ DOMAIN t = 1..Len(s)
      /\ t = [i \in 1..Len(s) |-> t[i]]
  <2> HIDE DEF S
  <2> QED BY <1>1
<1>3. /\ \A i \in DOMAIN s : i # o => t[i] = s[i]
      /\ o \in DOMAIN s => t[o] = e
  OBVIOUS
<1> HIDE DEF t, S
<1>4. t \in Seq(T)
  <2>1. \A i \in 1..Len(s) : t[i] \in T BY <1>2 DEF T
  <2>2. t \in [1..Len(s) -> T]
    <3> HIDE DEF T
    <3> QED BY <1>2, <2>1
  <2> HIDE DEF T
  <2> QED BY <1>2, <2>2
<1>5. \A i \in DOMAIN s : Follows(s[i], t[i])
  <2> SUFFICES ASSUME NEW i \in DOMAIN s PROVE Follows(s[i], t[i]) OBVIOUS
  <2>1. CASE i = o BY <1>3, <2>1
  <2>2. CASE i # o
    <3>1. IsSession(s[i]) BY DEF Sessions
    <3> QED BY <1>3, <2>2, <3>1 DEF Follows
  <2> QED BY <2>1, <2>2
<1>6. Sessions(t)
  <2>1. \A i \in DOMAIN t : IsSession(t[i]) BY <1>2, <1>5 DEF Follows
  <2> QED BY <1>4, <2>1 DEF Sessions, T
<1>7. Grows(s, t) BY <1>2, <1>5, <1>6 DEF Grows
<1>8. (o \in DOMAIN s /\ e.tools = s[o].tools /\ e.rolling = s[o].rolling) => Calm(s, t)
      BY <1>2, <1>3 DEF Calm
<1>9. o \notin DOMAIN s => Calm(s, t) BY <1>2, <1>3 DEF Calm
<1> QED BY <1>2, <1>7, <1>8, <1>9 DEF t

LEMMA StayGrows ==
    ASSUME NEW s, Sessions(s)
    PROVE  Grows(s, s) /\ Calm(s, s)
BY DEF Grows, Calm, Sessions, Follows

----------------------------------------------------------------------------
(* The invariant *)

AtTool == {"tier1", "tier2", "tooldone"}

AtRollback == {"zroll", "rolled", "rollfail"}

\* The call a place belongs to, as far as tools and rollbacks go.
Placed(k) ==
    /\ k.op = "tool" => k.pc \in AtTool \cup {"zsnap", "append"}
    /\ k.pc \in AtTool => k.op = "tool"
    /\ k.op = "rollback" <=> k.pc \in AtRollback

Counting == {"tool", "rollback"}

TableOK ==
    /\ DOMAIN table = IDs
    /\ \A i \in IDs : table[i] # 0 => table[i] \in DOMAIN obj /\ obj[table[i]].id = i

\* A tool or a rollback at work is on an object of the ID it was called with.
CallsOK ==
    /\ DOMAIN caller = Callers
    /\ \A c \in Callers : IsCall(caller[c]) /\ Placed(caller[c])
    /\ \A c \in Callers : caller[c].op \in Counting =>
           caller[c].o \in DOMAIN obj /\ obj[caller[c].o].id = caller[c].id

ToolsOf(k, o) == {c \in Callers : k[c].op = "tool" /\ k[c].o = o}

\* activeTools is the number of tools at work.
Counted == \A o \in DOMAIN obj : obj[o].tools = Cardinality(ToolsOf(caller, o))

\* Rollbacks of one session in flight together are noted; one that is alone has
\* rollingBack set and no tool counted.
Excluded ==
    /\ \A c, d \in Callers :
          (c # d /\ caller[c].op = "rollback" /\ caller[d].op = "rollback"
           /\ caller[c].id = caller[d].id) => <<caller[c].id, "roll">> \in overlap
    /\ \A c \in Callers :
          (caller[c].op = "rollback" /\ <<caller[c].id, "roll">> \notin overlap) =>
              obj[caller[c].o].rolling = TRUE /\ obj[caller[c].o].tools = 0

HostInv == Sessions(obj) /\ TableOK /\ CallsOK /\ Counted /\ Excluded

----------------------------------------------------------------------------
(* Steps *)

\* The call goes on with what it has, or is neither a tool nor a rollback.
GoesOn(k, l) ==
    /\ IsCall(l) /\ Placed(l)
    /\ \/ l.op = k.op /\ l.o = k.o /\ l.id = k.id
       \/ k.op \notin Counting /\ l.op \notin Counting

CallStep(c) ==
    /\ DOMAIN caller' = Callers
    /\ \A d \in Callers \ {c} : caller'[d] = caller[d]
    /\ GoesOn(caller[c], caller'[c])

LEMMA TableKept ==
    ASSUME TableOK, Grows(obj, obj'), DOMAIN table' = IDs,
           \A i \in IDs : table'[i] \in {0, table[i]}
    PROVE  TableOK'
BY DEF TableOK, Grows, Follows

LEMMA GotoGoesOn ==
    ASSUME CallsOK, NEW c \in Callers, NEW pc, Goto(c, pc),
           Placed([caller[c] EXCEPT !.pc = pc])
    PROVE  CallStep(c)
BY DEF CallsOK, Goto, CallStep, GoesOn, IsCall, CallFields

LEMMA EnterGoesOn ==
    ASSUME CallsOK, NEW c \in Callers, NEW k, caller' = [caller EXCEPT ![c] = k],
           IsCall(k), Placed(k), caller[c].op \notin Counting, k.op \notin Counting
    PROVE  CallStep(c)
BY DEF CallsOK, CallStep, GoesOn

LEMMA ReadyIsCall == IsCall(Ready) /\ Placed(Ready) /\ Ready.op = "none"
BY DEF Ready, IsCall, CallFields, Placed, AtTool, AtRollback

LEMMA ReturnGoesOn ==
    ASSUME CallsOK, NEW c \in Callers, Return(c), caller[c].op \notin Counting
    PROVE  CallStep(c)
<1> DEFINE k == IF caller[c].op = "shutdown" THEN [caller[c] EXCEPT !.pc = "shut"] ELSE Ready
<1>1. caller' = [caller EXCEPT ![c] = k] BY DEF Return
<1>2. IsCall(k) /\ Placed(k) /\ k.op \notin Counting
  <2>1. IsCall(caller[c]) BY DEF CallsOK
  <2> QED BY <2>1, ReadyIsCall DEF IsCall, CallFields, Placed, Counting, AtTool, AtRollback
<1> HIDE DEF k
<1> QED BY <1>1, <1>2, EnterGoesOn

\* A step that counts no tool, rolls nothing back and leaves both to others.
LEMMA QuietStep ==
    ASSUME HostInv, NEW c \in Callers, Grows(obj, obj'), Calm(obj, obj'), CallStep(c), TableOK',
           overlap \subseteq overlap'
    PROVE  HostInv'
<1>1. Sessions(obj') BY DEF Grows
<1>2. \A d \in Callers : caller'[d].op \in Counting =>
          /\ caller[d].op = caller'[d].op /\ caller[d].o = caller'[d].o
          /\ caller[d].id = caller'[d].id
      BY DEF CallStep, GoesOn
<1>3. \A d \in Callers : caller[d].op \in Counting => caller'[d].op = caller[d].op /\ caller'[d].o = caller[d].o
      BY DEF CallStep, GoesOn
<1>4. CallsOK'
  <2>1. \A d \in Callers : IsCall(caller'[d]) /\ Placed(caller'[d])
        BY DEF CallStep, GoesOn, HostInv, CallsOK
  <2>2. \A d \in Callers : caller'[d].op \in Counting =>
            caller'[d].o \in DOMAIN obj' /\ obj'[caller'[d].o].id = caller'[d].id
        BY <1>2 DEF HostInv, CallsOK, Grows, Follows
  <2> QED BY <2>1, <2>2 DEF CallsOK, CallStep
<1>5. Counted'
  <2> SUFFICES ASSUME NEW o \in DOMAIN obj'
               PROVE  obj'[o].tools = Cardinality(ToolsOf(caller', o))
      BY DEF Counted
  <2>1. ToolsOf(caller', o) = ToolsOf(caller, o)
        BY <1>2, <1>3 DEF ToolsOf, Counting
  <2>2. CASE o \in DOMAIN obj BY <2>1, <2>2 DEF HostInv, Counted, Calm
  <2>3. CASE o \notin DOMAIN obj
    <3>1. ToolsOf(caller, o) = {} BY <2>3 DEF HostInv, CallsOK, ToolsOf, Counting
    <3> QED BY <2>1, <2>3, <3>1, FS_EmptySet DEF Calm
  <2> QED BY <2>2, <2>3
<1>6. Excluded'
  <2>1. \A d, e \in Callers :
            (d # e /\ caller'[d].op = "rollback" /\ caller'[e].op = "rollback"
             /\ caller'[d].id = caller'[e].id) => <<caller'[d].id, "roll">> \in overlap'
        BY <1>2 DEF HostInv, Excluded, Counting
  <2>2. \A d \in Callers :
            (caller'[d].op = "rollback" /\ <<caller'[d].id, "roll">> \notin overlap') =>
                obj'[caller'[d].o].rolling = TRUE /\ obj'[caller'[d].o].tools = 0
        BY <1>2 DEF HostInv, CallsOK, Excluded, Counting, Calm
  <2> QED BY <2>1, <2>2 DEF Excluded
<1> QED BY <1>1, <1>4, <1>5, <1>6 DEF HostInv

\* What every step does.
Outcome == HostInv' /\ Grows(obj, obj')

LEMMA CallMoves ==
    ASSUME HostInv, NEW c \in Callers, obj' = obj, table' = table, CallStep(c),
           overlap \subseteq overlap'
    PROVE  Outcome
<1>1. Grows(obj, obj') /\ Calm(obj, obj') BY StayGrows DEF HostInv
<1>2. TableOK' BY DEF HostInv, TableOK
<1> QED BY <1>1, <1>2, QuietStep DEF Outcome

LEMMA EntryGoes ==
    ASSUME HostInv, NEW c \in Callers, NEW i, obj' = obj, Delete(i), CallStep(c),
           overlap \subseteq overlap'
    PROVE  Outcome
<1>1. Grows(obj, obj') /\ Calm(obj, obj') BY StayGrows DEF HostInv
<1>2. TableOK' BY <1>1, TableKept DEF HostInv, TableOK, Delete
<1> QED BY <1>1, <1>2, QuietStep DEF Outcome

LEMMA ObjectMoves ==
    ASSUME HostInv, NEW c \in Callers, NEW o, NEW e, Set(o, e), table' = table,
           o \in DOMAIN obj => /\ Follows(obj[o], e)
                               /\ e.tools = obj[o].tools /\ e.rolling = obj[o].rolling,
           CallStep(c), overlap \subseteq overlap'
    PROVE  Outcome
<1>1. Grows(obj, obj') /\ Calm(obj, obj') BY ReplaceGrows DEF HostInv, Set
<1>2. TableOK' BY <1>1, TableKept DEF HostInv, TableOK
<1> QED BY <1>1, <1>2, QuietStep DEF Outcome

LEMMA ObjectAdded ==
    ASSUME HostInv, NEW c \in Callers, NEW id, NEW state, NEW dataset,
           obj' = Append(obj, Session(id, state, dataset)),
           table' = [table EXCEPT ![id] = Len(obj')], CallStep(c), overlap \subseteq overlap'
    PROVE  Outcome
<1> DEFINE e == Session(id, state, dataset)
<1>1. IsSession(e) /\ e.tools = 0 /\ e.id = id BY DEF Session, IsSession, SessionFields
<1> HIDE DEF e
<1>2. obj' = Append(obj, e) BY DEF e
<1>3. /\ Grows(obj, obj') /\ Calm(obj, obj')
      /\ Len(obj') \in DOMAIN obj' /\ obj'[Len(obj')] = e
      BY <1>1, <1>2, AppendGrows DEF HostInv
<1>4. TableOK' BY <1>1, <1>3 DEF HostInv, TableOK, Grows, Follows
<1> QED BY <1>3, <1>4, QuietStep DEF Outcome

LEMMA BeginIsReady ==
    ASSUME CallsOK, NEW c \in Callers, NEW op, NEW id, Begin(c, op, id)
    PROVE  caller[c].op \notin Counting /\ overlap \subseteq overlap'
BY DEF CallsOK, Begin, Note, Placed, AtTool, AtRollback, Counting

LEMMA EnterReady ==
    ASSUME CallsOK, NEW c \in Callers, NEW op, NEW id, NEW pc, NEW o,
           Begin(c, op, id), Enter(c, op, id, pc, o), op \notin Counting,
           pc \notin AtTool \cup AtRollback
    PROVE  CallStep(c)
<1> DEFINE k == [Ready EXCEPT !.pc = pc, !.op = op, !.id = id, !.o = o]
<1>1. IsCall(k) /\ Placed(k) /\ k.op = op
      BY DEF Ready, IsCall, CallFields, Placed, Counting
<1>2. caller' = [caller EXCEPT ![c] = k] BY DEF Enter
<1> HIDE DEF k
<1> QED BY <1>1, <1>2, EnterGoesOn, BeginIsReady

LEMMA StandsStill ==
    ASSUME CallsOK, NEW c \in Callers, caller' = caller
    PROVE  CallStep(c)
BY DEF CallsOK, CallStep, GoesOn

----------------------------------------------------------------------------
(* The actions *)

LEMMA CreateStep ==
    ASSUME HostInv, NEW c \in Callers, Create(c)
    PROVE  Outcome
<1> USE DEF HostInv
<1>1. ASSUME NEW id \in IDs, CreateSession(c, id) PROVE Outcome
  <2> USE <1>1 DEF CreateSession
  <2>1. CallStep(c) BY EnterReady DEF Counting, AtTool, AtRollback
  <2> QED BY <2>1, ObjectAdded, BeginIsReady
<1>2. CASE CloneFromSnapshot(c)
  <2> USE <1>2 DEF CloneFromSnapshot
  <2>1. caller[c].op \notin Counting BY DEF CallsOK, Placed, Counting, AtTool, AtRollback
  <2>2. PICK ok \in BOOLEAN :
            /\ table' = IF ok THEN table ELSE [table EXCEPT ![caller[c].id] = 0]
            /\ IF ok THEN Goto(c, "props") ELSE Return(c)
        OBVIOUS
  <2>3. CASE ok
    <3>1. CallStep(c)
          BY <2>1, <2>2, <2>3, GotoGoesOn DEF CallsOK, IsCall, CallFields, Placed, Counting, AtTool, AtRollback
    <3> QED BY <2>2, <2>3, <3>1, CallMoves
  <2>4. CASE ~ok
    <3>1. CallStep(c) BY <2>1, <2>2, <2>4, ReturnGoesOn
    <3> QED BY <2>2, <2>4, <3>1, EntryGoes DEF Delete
  <2> QED BY <2>3, <2>4
<1>3. CASE SetProperties(c)
  <2> USE <1>3 DEF SetProperties
  <2>1. CallStep(c)
        BY GotoGoesOn DEF CallsOK, IsCall, CallFields, Placed, Counting, AtTool, AtRollback
  <2> QED BY <2>1, CallMoves
<1>4. CASE UndoClone(c)
  <2> USE <1>4 DEF UndoClone
  <2>1. CallStep(c)
        BY GotoGoesOn DEF CallsOK, IsCall, CallFields, Placed, Counting, AtTool, AtRollback
  <2> QED BY <2>1, CallMoves
<1>5. CASE DropPlaceholder(c)
  <2> USE <1>5 DEF DropPlaceholder
  <2>1. CallStep(c) BY ReturnGoesOn DEF CallsOK, Placed, Counting, AtTool, AtRollback
  <2> QED BY <2>1, EntryGoes
<1>6. CASE StoreSession(c)
  <2> USE <1>6 DEF StoreSession
  <2>1. CallStep(c) BY ReturnGoesOn DEF CallsOK, Placed, Counting, AtTool, AtRollback
  <2> QED BY <2>1, ObjectAdded
<1> QED BY <1>1, <1>2, <1>3, <1>4, <1>5, <1>6 DEF Create

LEMMA PauseStep ==
    ASSUME HostInv, NEW c \in Callers, Pause(c)
    PROVE  Outcome
<1> USE DEF HostInv
<1>1. ASSUME NEW id \in IDs, PauseSession(c, id) PROVE Outcome
  <2> USE <1>1 DEF PauseSession
  <2>1. CallStep(c) BY EnterReady DEF Counting, AtTool, AtRollback
  <2> QED BY <2>1, CallMoves, BeginIsReady
<1>2. ASSUME NEW id \in IDs, ResumeSession(c, id) PROVE Outcome
  <2> USE <1>2 DEF ResumeSession
  <2>1. CallStep(c) BY StandsStill
  <2>2. Follows(obj[table[id]], [obj[table[id]] EXCEPT !.state = "active"])
        BY DEF TableOK, Sessions, Follows, Serving, IsSession, SessionFields
  <2>3. /\ [obj[table[id]] EXCEPT !.state = "active"].tools = obj[table[id]].tools
        /\ [obj[table[id]] EXCEPT !.state = "active"].rolling = obj[table[id]].rolling
        BY DEF TableOK, Sessions, IsSession, SessionFields
  <2> QED BY <2>1, <2>2, <2>3, ObjectMoves, BeginIsReady
<1>3. CASE PauseDrained(c)
  <2> USE <1>3 DEF PauseDrained
  <2>1. CASE Goto(c, "set")
    <3>1. CallStep(c) BY <2>1, GotoGoesOn DEF CallsOK, IsCall, CallFields, Placed, Counting, AtTool, AtRollback
    <3> QED BY <3>1, CallMoves
  <2>2. CASE Return(c)
    <3>1. CallStep(c) BY <2>2, ReturnGoesOn DEF Counting
    <3> QED BY <3>1, CallMoves
  <2> QED BY <2>1, <2>2
<1>4. CASE SetPaused(c)
  <2> USE <1>4 DEF SetPaused
  <2>1. CallStep(c) BY ReturnGoesOn DEF CallsOK, Placed, Counting, AtTool, AtRollback
  <2> DEFINE o == caller[c].o
             e == IF obj[o].state = "active" THEN [obj[o] EXCEPT !.state = "paused"] ELSE obj[o]
  <2>2. o \in DOMAIN obj => /\ Follows(obj[o], e)
                            /\ e.tools = obj[o].tools /\ e.rolling = obj[o].rolling
        BY DEF Sessions, Follows, Serving, IsSession, SessionFields
  <2>3. Set(o, e) OBVIOUS
  <2> HIDE DEF o, e
  <2> QED BY <2>1, <2>2, <2>3, ObjectMoves
<1> QED BY <1>1, <1>2, <1>3, <1>4 DEF Pause

\* The session becomes destroying and its caller goes to wait for the tools.
LEMMA DestroyBegins ==
    ASSUME HostInv, NEW c \in Callers, NEW id, NEW op \in {"destroy", "shutdown"}, NEW todo,
           DestroyObject(c, id, op, todo), table[id] # 0, caller[c].op \notin Counting,
           table' = table, overlap \subseteq overlap'
    PROVE  Outcome
<1> USE DEF HostInv
<1> DEFINE k == [Ready EXCEPT !.pc = "drain", !.op = op, !.id = id, !.o = table[id], !.todo = todo]
           o == table[id]
           e == [obj[o] EXCEPT !.state = "destroying"]
<1>1. IsCall(k) /\ Placed(k) /\ k.op \notin Counting
      BY DEF Ready, IsCall, CallFields, Placed, Counting, AtTool, AtRollback
<1>2. caller' = [caller EXCEPT ![c] = k] /\ Set(o, e) BY DEF DestroyObject
<1>3. o \in DOMAIN obj => /\ Follows(obj[o], e)
                          /\ e.tools = obj[o].tools /\ e.rolling = obj[o].rolling
      BY DEF Sessions, Follows, Serving, IsSession, SessionFields
<1> HIDE DEF k, o, e
<1>4. CallStep(c) BY <1>1, <1>2, EnterGoesOn
<1> QED BY <1>2, <1>3, <1>4, ObjectMoves

LEMMA DestroyStep ==
    ASSUME HostInv, NEW c \in Callers, Destroy(c)
    PROVE  Outcome
<1> USE DEF HostInv
<1>1. ASSUME NEW id \in IDs, DestroySession(c, id) PROVE Outcome
      BY <1>1, DestroyBegins, BeginIsReady DEF DestroySession
<1>2. CASE DestroyDrained(c)
  <2> USE <1>2 DEF DestroyDrained
  <2>0. overlap \subseteq overlap' OBVIOUS
  <2>1. CASE Goto(c, "kill")
    <3>1. CallStep(c) BY <2>1, GotoGoesOn DEF CallsOK, IsCall, CallFields, Placed, Counting, AtTool, AtRollback
    <3> QED BY <2>0, <3>1, CallMoves
  <2>2. CASE Return(c)
    <3>1. CallStep(c) BY <2>2, ReturnGoesOn DEF Counting
    <3> QED BY <2>0, <3>1, CallMoves
  <2> QED BY <2>1, <2>2
<1>3. CASE KillProcesses(c)
  <2> USE <1>3 DEF KillProcesses
  <2>1. CallStep(c) BY GotoGoesOn DEF CallsOK, IsCall, CallFields, Placed, Counting, AtTool, AtRollback
  <2> QED BY <2>1, CallMoves
<1>4. CASE ClearProcesses(c)
  <2> USE <1>4 DEF ClearProcesses
  <2> DEFINE o == caller[c].o
             e == [obj[o] EXCEPT !.procs = {}]
  <2>1. CallStep(c) BY GotoGoesOn DEF CallsOK, IsCall, CallFields, Placed, Counting, AtTool, AtRollback
  <2>2. o \in DOMAIN obj => /\ Follows(obj[o], e)
                            /\ e.tools = obj[o].tools /\ e.rolling = obj[o].rolling
        BY DEF Sessions, Follows, Serving, IsSession, SessionFields
  <2>3. Set(o, e) OBVIOUS
  <2> HIDE DEF o, e
  <2> QED BY <2>1, <2>2, <2>3, ObjectMoves
<1>5. CASE DestroySessionDataset(c)
  <2> USE <1>5 DEF DestroySessionDataset
  <2>1. CallStep(c) BY GotoGoesOn DEF CallsOK, IsCall, CallFields, Placed, Counting, AtTool, AtRollback
  <2> QED BY <2>1, CallMoves
<1>6. CASE DeleteSession(c)
  <2> USE <1>6 DEF DeleteSession
  <2>1. CallStep(c) BY ReturnGoesOn DEF CallsOK, Placed, Counting, AtTool, AtRollback
  <2> QED BY <2>1, EntryGoes
<1>7. CASE Shutdown(c)
  <2> USE <1>7 DEF Shutdown
  <2> DEFINE k == [Ready EXCEPT !.pc = "shut", !.op = "shutdown",
                                !.todo = {i \in IDs : table[i] # 0}]
  <2>1. IsCall(k) /\ Placed(k) /\ k.op \notin Counting
        BY DEF Ready, IsCall, CallFields, Placed, Counting, AtTool, AtRollback
  <2>2. caller[c].op \notin Counting BY DEF CallsOK, Placed, Counting, AtTool, AtRollback
  <2>3. caller' = [caller EXCEPT ![c] = k] OBVIOUS
  <2> HIDE DEF k
  <2>4. CallStep(c) BY <2>1, <2>2, <2>3, EnterGoesOn
  <2> QED BY <2>4, CallMoves
<1>8. CASE ShutdownNext(c)
  <2> USE <1>8 DEF ShutdownNext
  <2>1. caller[c].op \notin Counting BY DEF CallsOK, Placed, Counting, AtTool, AtRollback
  <2>2. PICK id \in caller[c].todo :
            \/ /\ table[id] # 0
               /\ Note(c, "shutdown", id)
               /\ DestroyObject(c, id, "shutdown", caller[c].todo \ {id})
            \/ /\ table[id] = 0
               /\ caller' = [caller EXCEPT ![c].todo = @ \ {id}]
               /\ UNCHANGED <<obj, overlap>>
        OBVIOUS
  <2>3. CASE /\ table[id] # 0
             /\ Note(c, "shutdown", id)
             /\ DestroyObject(c, id, "shutdown", caller[c].todo \ {id})
    <3>1. overlap \subseteq overlap' BY <2>3 DEF Note
    <3> QED BY <2>1, <2>3, <3>1, DestroyBegins
  <2>4. CASE /\ table[id] = 0
             /\ caller' = [caller EXCEPT ![c].todo = @ \ {id}]
             /\ UNCHANGED <<obj, overlap>>
    <3>1. CallStep(c) BY <2>4 DEF CallStep, GoesOn, CallsOK, IsCall, CallFields, Placed, Counting, AtTool, AtRollback
    <3> QED BY <2>4, <3>1, CallMoves
  <2> QED BY <2>2, <2>3, <2>4
<1>9. CASE CloseGVisor(c)
  <2> USE <1>9 DEF CloseGVisor
  <2>1. caller[c].op \notin Counting BY DEF CallsOK, Placed, Counting, AtTool, AtRollback
  <2>2. CallStep(c) BY <2>1, ReadyIsCall, EnterGoesOn DEF Counting
  <2> QED BY <2>2, CallMoves
<1> QED BY <1>1, <1>2, <1>3, <1>4, <1>5, <1>6, <1>7, <1>8, <1>9 DEF Destroy

LEMMA ProcessStep ==
    ASSUME HostInv, NEW c \in Callers, Process(c)
    PROVE  Outcome
<1> USE DEF HostInv
<1>1. ASSUME NEW id \in IDs, NEW p \in Procs, LaunchProcess(c, id, p) PROVE Outcome
  <2> USE <1>1 DEF LaunchProcess
  <2> DEFINE o == table[id]
             k == [Ready EXCEPT !.pc = "start", !.op = "launch", !.id = id, !.o = o, !.p = p]
  <2>1. PICK kept : Set(o, [obj[o] EXCEPT !.procs = kept \cup {p}]) OBVIOUS
  <2> DEFINE e == [obj[o] EXCEPT !.procs = kept \cup {p}]
  <2>2. IsCall(k) /\ Placed(k) /\ k.op \notin Counting
        BY DEF Ready, IsCall, CallFields, Placed, Counting, AtTool, AtRollback
  <2>3. caller' = [caller EXCEPT ![c] = k] OBVIOUS
  <2>4. o \in DOMAIN obj => /\ Follows(obj[o], e)
                            /\ e.tools = obj[o].tools /\ e.rolling = obj[o].rolling
        BY DEF Sessions, Follows, Serving, IsSession, SessionFields
  <2>5. Set(o, e) BY <2>1
  <2>6. caller[c].op \notin Counting /\ overlap \subseteq overlap' BY BeginIsReady
  <2>7. table' = table OBVIOUS
  <2> HIDE DEF o, k, e
  <2>8. CallStep(c) BY <2>2, <2>3, <2>6, EnterGoesOn
  <2> QED BY <2>4, <2>5, <2>6, <2>7, <2>8, ObjectMoves
<1>2. ASSUME NEW id \in IDs, NEW p \in Procs, KillProcess(c, id, p) PROVE Outcome
  <2> USE <1>2 DEF KillProcess
  <2>1. CallStep(c) BY StandsStill
  <2> QED BY <2>1, CallMoves, BeginIsReady
<1>3. CASE StartProcess(c)
  <2> USE <1>3 DEF StartProcess
  <2> DEFINE o == caller[c].o
             e == [obj[o] EXCEPT !.procs = @ \ {caller[c].p}]
  <2>0. overlap \subseteq overlap' /\ table' = table OBVIOUS
  <2>1. CASE Goto(c, "handle") /\ obj' = obj
    <3>1. CallStep(c) BY <2>1, GotoGoesOn DEF CallsOK, IsCall, CallFields, Placed, Counting, AtTool, AtRollback
    <3> QED BY <2>0, <2>1, <3>1, CallMoves
  <2>2. CASE Return(c) /\ Set(o, e)
    <3>1. CallStep(c) BY <2>2, ReturnGoesOn DEF CallsOK, Placed, Counting, AtTool, AtRollback
    <3>2. o \in DOMAIN obj => /\ Follows(obj[o], e)
                              /\ e.tools = obj[o].tools /\ e.rolling = obj[o].rolling
          BY DEF Sessions, Follows, Serving, IsSession, SessionFields
    <3> HIDE DEF o, e
    <3> QED BY <2>0, <2>2, <3>1, <3>2, ObjectMoves
  <2> QED BY <2>1, <2>2
<1>4. CASE StoreHandle(c)
  <2> USE <1>4 DEF StoreHandle
  <2>1. CallStep(c) BY ReturnGoesOn DEF CallsOK, Placed, Counting, AtTool, AtRollback
  <2> QED BY <2>1, CallMoves
<1> QED BY <1>1, <1>2, <1>3, <1>4 DEF Process

LEMMA ToolStep ==
    ASSUME HostInv, NEW c \in Callers, Tool(c)
    PROVE  Outcome
<1> USE DEF HostInv
<1>1. ASSUME NEW id \in IDs, ExecuteTool(c, id) PROVE Outcome
  <2> USE <1>1 DEF ExecuteTool
  <2> DEFINE o == table[id]
             e == [obj[o] EXCEPT !.tools = @ + 1]
  <2>1. PICK tier \in {"tier1", "tier2"} : Enter(c, "tool", id, tier, o) OBVIOUS
  <2> DEFINE k == [Ready EXCEPT !.pc = tier, !.op = "tool", !.id = id, !.o = o]
  <2>2. IsCall(k) /\ Placed(k) /\ k.op = "tool" /\ k.o = o /\ k.id = id
        BY DEF Ready, IsCall, CallFields, Placed, AtTool, AtRollback
  <2>3. caller' = [caller EXCEPT ![c] = k] BY <2>1 DEF Enter
  <2>4. caller[c].op \notin Counting /\ overlap \subseteq overlap' BY BeginIsReady
  <2>5. o \in DOMAIN obj /\ obj[o].id = id BY DEF Active, TableOK
  <2>6. Follows(obj[o], e) /\ e.tools = obj[o].tools + 1 /\ e.rolling = obj[o].rolling
        BY <2>5 DEF Sessions, Follows, Serving, IsSession, SessionFields
  <2>7. obj' = [obj EXCEPT ![o] = e] BY DEF Set
  <2>8. table' = table /\ obj[o].rolling # TRUE OBVIOUS
  <2> HIDE DEF o, k, e
  <2>9. /\ DOMAIN obj' = DOMAIN obj /\ obj'[o] = e
        /\ \A x \in DOMAIN obj : x # o => obj'[x] = obj[x]
        BY <2>5, <2>7
  <2>10. Grows(obj, obj') BY <2>6, <2>7, ReplaceGrows
  <2>11. TableOK' BY <2>8, <2>10, TableKept DEF TableOK
  <2>12. CallsOK'
         BY <2>2, <2>3, <2>5, <2>10, <2>9 DEF CallsOK, Grows, Follows
  <2>13. Counted'
    <3> SUFFICES ASSUME NEW x \in DOMAIN obj
                 PROVE  obj'[x].tools = Cardinality(ToolsOf(caller', x))
        BY <2>9 DEF Counted
    <3>1. CASE x = o
      <4>1. ToolsOf(caller', o) = ToolsOf(caller, o) \cup {c} /\ c \notin ToolsOf(caller, o)
            BY <2>2, <2>3, <2>4 DEF CallsOK, ToolsOf, Counting
      <4>2. IsFiniteSet(ToolsOf(caller, o))
            BY HostAssumption, FS_Subset DEF ToolsOf
      <4>3. Cardinality(ToolsOf(caller', o)) = Cardinality(ToolsOf(caller, o)) + 1
            BY <4>1, <4>2, FS_AddElement
      <4> QED BY <2>5, <2>6, <2>9, <3>1, <4>3 DEF Counted
    <3>2. CASE x # o
      <4>1. ToolsOf(caller', x) = ToolsOf(caller, x)
            BY <2>2, <2>3, <2>4, <3>2 DEF CallsOK, ToolsOf, Counting
      <4> QED BY <2>9, <3>2, <4>1 DEF Counted
    <3> QED BY <3>1, <3>2
  <2>14. Excluded'
    <3>1. \A d \in Callers : caller'[d].op = "rollback" => d # c /\ caller'[d] = caller[d]
          BY <2>2, <2>3 DEF CallsOK
    <3>2. \A d \in Callers :
              (caller[d].op = "rollback" /\ <<caller[d].id, "roll">> \notin overlap) => caller[d].o # o
          BY <2>8 DEF Excluded
    <3> QED BY <2>4, <2>9, <3>1, <3>2 DEF Excluded, CallsOK, Counting
  <2> QED BY <2>10, <2>11, <2>12, <2>13, <2>14 DEF Outcome, Grows
<1>2. CASE ToolAnswers(c)
  <2> USE <1>2 DEF ToolAnswers
  <2>1. CASE Goto(c, "tooldone")
    <3>1. CallStep(c) BY <2>1, GotoGoesOn DEF CallsOK, IsCall, CallFields, Placed, Counting, AtTool, AtRollback
    <3> QED BY <3>1, CallMoves
  <2>2. CASE caller' = [caller EXCEPT ![c].pc = "zsnap", ![c].name = <<"tool", calls>>]
    <3> DEFINE k == [caller[c] EXCEPT !.pc = "zsnap", !.name = <<"tool", calls>>]
    <3>1. /\ IsCall(k) /\ Placed(k)
          /\ k.op = caller[c].op /\ k.o = caller[c].o /\ k.id = caller[c].id
          BY DEF CallsOK, IsCall, CallFields, Placed, Counting, AtTool, AtRollback
    <3>2. DOMAIN caller' = Callers /\ caller'[c] = k /\ \A d \in Callers \ {c} : caller'[d] = caller[d]
          BY <2>2 DEF CallsOK
    <3> HIDE DEF k
    <3>3. CallStep(c) BY <3>1, <3>2 DEF CallStep, GoesOn
    <3> QED BY <3>3, CallMoves
  <2> QED BY <2>1, <2>2
<1>3. CASE ToolReturns(c)
  <2> USE <1>3 DEF ToolReturns
  <2> DEFINE o == caller[c].o
             e == [obj[o] EXCEPT !.tools = @ - 1]
  <2>1. caller[c].op = "tool" BY DEF CallsOK, Placed, AtTool
  <2>2. caller' = [caller EXCEPT ![c] = Ready] BY <2>1 DEF Return
  <2>3. o \in DOMAIN obj BY <2>1 DEF CallsOK, Counting
  <2>4. Follows(obj[o], e) /\ e.tools = obj[o].tools - 1 /\ e.rolling = obj[o].rolling
        BY <2>3 DEF Sessions, Follows, Serving, IsSession, SessionFields
  <2>5. obj' = [obj EXCEPT ![o] = e] BY DEF Set
  <2>6. table' = table /\ overlap' = overlap OBVIOUS
  <2>7. caller[c].o = o OBVIOUS
  <2> HIDE DEF o, e
  <2>8. /\ DOMAIN obj' = DOMAIN obj /\ obj'[o] = e
        /\ \A x \in DOMAIN obj : x # o => obj'[x] = obj[x]
        BY <2>3, <2>5
  <2>9. Grows(obj, obj') BY <2>4, <2>5, ReplaceGrows
  <2>10. TableOK' BY <2>6, <2>9, TableKept DEF TableOK
  <2>11. CallsOK'
         BY <2>2, <2>8, <2>9, ReadyIsCall DEF CallsOK, Grows, Follows, Counting
  <2>12. c \in ToolsOf(caller, o) BY <2>1, <2>7 DEF ToolsOf
  <2>13. IsFiniteSet(ToolsOf(caller, o)) BY HostAssumption, FS_Subset DEF ToolsOf
  <2>14. Counted'
    <3> SUFFICES ASSUME NEW x \in DOMAIN obj
                 PROVE  obj'[x].tools = Cardinality(ToolsOf(caller', x))
        BY <2>8 DEF Counted
    <3>1. CASE x = o
      <4>1. ToolsOf(caller', o) = ToolsOf(caller, o) \ {c}
            BY <2>2, ReadyIsCall DEF CallsOK, ToolsOf
      <4>2. Cardinality(ToolsOf(caller', o)) = Cardinality(ToolsOf(caller, o)) - 1
            BY <2>12, <2>13, <4>1, FS_RemoveElement
      <4> QED BY <2>3, <2>4, <2>8, <3>1, <4>2 DEF Counted
    <3>2. CASE x # o
      <4>1. ToolsOf(caller', x) = ToolsOf(caller, x)
            BY <2>2, <2>7, <3>2, ReadyIsCall DEF CallsOK, ToolsOf
      <4> QED BY <2>8, <3>2, <4>1 DEF Counted
    <3> QED BY <3>1, <3>2
  <2>15. Excluded'
    <3>1. \A d \in Callers : caller'[d].op = "rollback" => d # c /\ caller'[d] = caller[d]
          BY <2>2, ReadyIsCall DEF CallsOK
    <3>2. obj[o].tools # 0
      <4>1. ToolsOf(caller, o) # {} BY <2>12
      <4>2. Cardinality(ToolsOf(caller, o)) # 0 BY <2>13, <4>1, FS_EmptySet
      <4> QED BY <2>3, <4>2 DEF Counted
    <3>3. \A d \in Callers :
              (caller[d].op = "rollback" /\ <<caller[d].id, "roll">> \notin overlap) => caller[d].o # o
          BY <3>2 DEF Excluded
    <3> QED BY <2>6, <2>8, <3>1, <3>3 DEF Excluded, CallsOK, Counting
  <2> QED BY <2>9, <2>10, <2>11, <2>14, <2>15 DEF Outcome, Grows
<1> QED BY <1>1, <1>2, <1>3 DEF Tool

\* A call enters zsnap: the session is only read.
LEMMA SnapshotBegins ==
    ASSUME HostInv, NEW c \in Callers, NEW op \in {"turn", "snap"}, NEW id, NEW o, NEW name,
           Begin(c, op, id), obj' = obj, table' = table,
           caller' = [caller EXCEPT ![c] = [Ready EXCEPT !.pc = "zsnap", !.op = op, !.id = id,
                                            !.o = o, !.name = name]]
    PROVE  Outcome
<1> USE DEF HostInv
<1> DEFINE k == [Ready EXCEPT !.pc = "zsnap", !.op = op, !.id = id, !.o = o, !.name = name]
<1>1. IsCall(k) /\ Placed(k) /\ k.op \notin Counting
      BY DEF Ready, IsCall, CallFields, Placed, Counting, AtTool, AtRollback
<1>2. caller' = [caller EXCEPT ![c] = k] OBVIOUS
<1>3. caller[c].op \notin Counting /\ overlap \subseteq overlap' BY BeginIsReady
<1> HIDE DEF k
<1>4. CallStep(c) BY <1>1, <1>2, <1>3, EnterGoesOn
<1> QED BY <1>3, <1>4, CallMoves

\* The first rollback of a session sets rollingBack with no tool counted; a
\* second one is noted.
LEMMA RollbackBegins ==
    ASSUME HostInv, NEW c \in Callers, NEW id \in IDs, NEW name, RollbackSession(c, id, name)
    PROVE  Outcome
<1> USE DEF HostInv, RollbackSession
<1> DEFINE o == table[id]
           e == [obj[o] EXCEPT !.rolling = TRUE]
           k == [Ready EXCEPT !.pc = "zroll", !.op = "rollback", !.id = id, !.o = o, !.name = name]
<1>1. IsCall(k) /\ Placed(k) /\ k.op = "rollback" /\ k.o = o /\ k.id = id
      BY DEF Ready, IsCall, CallFields, Placed, AtTool, AtRollback
<1>2. caller' = [caller EXCEPT ![c] = k] OBVIOUS
<1>3. caller[c].op \notin Counting /\ overlap \subseteq overlap' BY BeginIsReady
<1>4. o \in DOMAIN obj /\ obj[o].id = id BY DEF Active, TableOK
<1>5. Follows(obj[o], e) /\ e.tools = obj[o].tools /\ e.rolling = TRUE
      BY <1>4 DEF Sessions, Follows, Serving, IsSession, SessionFields
<1>6. obj' = [obj EXCEPT ![o] = e] BY DEF Set
<1>7. table' = table /\ obj[o].tools = 0 OBVIOUS
<1> HIDE DEF o, k, e
<1>8. /\ DOMAIN obj' = DOMAIN obj /\ obj'[o] = e
      /\ \A x \in DOMAIN obj : x # o => obj'[x] = obj[x]
      BY <1>4, <1>6
<1>9. Grows(obj, obj') BY <1>5, <1>6, ReplaceGrows
<1>10. TableOK' BY <1>7, <1>9, TableKept DEF TableOK
<1> HIDE DEF RollbackSession
<1>11. CallsOK'
  <2>1. DOMAIN caller' = Callers /\ caller'[c] = k /\ \A d \in Callers \ {c} : caller'[d] = caller[d]
        BY <1>2 DEF CallsOK
  <2>2. \A x \in DOMAIN obj : obj'[x].id = obj[x].id BY <1>9 DEF Grows, Follows
  <2>3. \A d \in Callers : IsCall(caller'[d]) /\ Placed(caller'[d]) BY <1>1, <2>1 DEF CallsOK
  <2>4. \A d \in Callers : caller'[d].op \in Counting =>
            caller'[d].o \in DOMAIN obj' /\ obj'[caller'[d].o].id = caller'[d].id
        BY <1>1, <1>4, <1>8, <2>1, <2>2 DEF CallsOK
  <2> QED BY <2>1, <2>3, <2>4 DEF CallsOK
<1>12. Counted'
  <2>1. \A x : ToolsOf(caller', x) = ToolsOf(caller, x)
        BY <1>1, <1>2, <1>3 DEF CallsOK, ToolsOf, Counting
  <2>2. \A x \in DOMAIN obj : obj'[x].tools = obj[x].tools BY <1>5, <1>8
  <2> QED BY <1>8, <2>1, <2>2 DEF Counted
<1>13. Excluded'
  <2>1. \A d \in Callers \ {c} : caller'[d] = caller[d] BY <1>2 DEF CallsOK
  <2>2. caller'[c] = k BY <1>2 DEF CallsOK
  <2>3. \A d \in Callers \ {c} : (caller[d].op = "rollback" /\ caller[d].id = id) =>
            <<id, "roll">> \in overlap'
    <3> SUFFICES ASSUME NEW d \in Callers \ {c}, caller[d].op = "rollback", caller[d].id = id
                 PROVE  <<id, "roll">> \in overlap'
        OBVIOUS
    <3>1. d \in InFlight(id) \ {c}
          BY DEF InFlight, CallsOK, Placed, AtRollback
    <3>2. "roll" \in Conflicts("rollback", caller[d].op) BY DEF Conflicts
    <3>3. Note(c, "rollback", id) BY DEF RollbackSession, Begin
    <3> QED BY <3>1, <3>2, <3>3 DEF Note
  <2>4. \A a, b \in Callers :
            (a # b /\ caller'[a].op = "rollback" /\ caller'[b].op = "rollback"
             /\ caller'[a].id = caller'[b].id) => <<caller'[a].id, "roll">> \in overlap'
        BY <1>1, <1>3, <2>1, <2>2, <2>3 DEF Excluded
  <2>5. \A d \in Callers :
            (caller'[d].op = "rollback" /\ <<caller'[d].id, "roll">> \notin overlap') =>
                obj'[caller'[d].o].rolling = TRUE /\ obj'[caller'[d].o].tools = 0
    <3>1. obj'[o].rolling = TRUE /\ obj'[o].tools = 0 BY <1>5, <1>7, <1>8
    <3>2. ASSUME NEW d \in Callers \ {c}, caller[d].op = "rollback",
                 <<caller[d].id, "roll">> \notin overlap'
          PROVE  obj'[caller[d].o].rolling = TRUE /\ obj'[caller[d].o].tools = 0
      <4>1. caller[d].o \in DOMAIN obj BY <3>2 DEF CallsOK, Counting
      <4>2. obj[caller[d].o].rolling = TRUE /\ obj[caller[d].o].tools = 0
            BY <1>3, <3>2 DEF Excluded
      <4> QED BY <1>8, <3>1, <4>1, <4>2
    <3> QED BY <1>1, <2>1, <2>2, <3>1, <3>2
  <2> QED BY <2>4, <2>5 DEF Excluded
<1> QED BY <1>9, <1>10, <1>11, <1>12, <1>13 DEF Outcome, Grows

\* rollingBack is reset; a second rollback of the object would have been noted.
LEMMA RollbackEnds ==
    ASSUME HostInv, NEW c \in Callers, FinishRollback(c)
    PROVE  Outcome
<1> USE DEF HostInv, FinishRollback
<1> DEFINE o == caller[c].o
           kept == UpTo(obj[o].snaps, caller[c].name)
           e == CASE caller[c].pc = "rollfail" -> [obj[o] EXCEPT !.rolling = FALSE, !.state = "failed"]
                  [] caller[c].pc = "rolled" /\ kept = <<>> -> [obj[o] EXCEPT !.rolling = FALSE]
                  [] OTHER -> [obj[o] EXCEPT !.rolling = FALSE, !.snaps = kept,
                                             !.turn = TurnsIn(kept)]
<1>1. caller[c].op = "rollback" BY DEF CallsOK, Placed, AtRollback
<1>2. caller' = [caller EXCEPT ![c] = Ready] BY <1>1 DEF Return
<1>3. o \in DOMAIN obj /\ obj[o].id = caller[c].id BY <1>1 DEF CallsOK, Counting
<1>4. obj' = [obj EXCEPT ![o] = e] BY DEF Set
<1>5. Follows(obj[o], e) /\ e.tools = obj[o].tools
  <2> HIDE DEF kept
  <2> DEFINE s == obj[o]
  <2>0. IsSession(s) BY <1>3 DEF Sessions
  <2> HIDE DEF s
  <2>1. CASE caller[c].pc = "rollfail"
    <3>1. e = [s EXCEPT !.rolling = FALSE, !.state = "failed"] BY <2>1 DEF s
    <3> HIDE DEF e
    <3>2. Follows(s, e) /\ e.tools = s.tools
          BY <2>0, <3>1 DEF Follows, Serving, IsSession, SessionFields
    <3> QED BY <3>2 DEF s
  <2>2. CASE caller[c].pc = "rolled" /\ kept = <<>>
    <3>1. e = [s EXCEPT !.rolling = FALSE] BY <2>2 DEF s
    <3> HIDE DEF e
    <3>2. Follows(s, e) /\ e.tools = s.tools
          BY <2>0, <3>1 DEF Follows, Serving, IsSession, SessionFields
    <3> QED BY <3>2 DEF s
  <2>3. CASE caller[c].pc = "rolled" /\ kept # <<>>
    <3>1. e = [s EXCEPT !.rolling = FALSE, !.snaps = kept, !.turn = TurnsIn(kept)]
          BY <2>3 DEF s
    <3> HIDE DEF e
    <3>2. Follows(s, e) /\ e.tools = s.tools
          BY <2>0, <3>1 DEF Follows, Serving, IsSession, SessionFields
    <3> QED BY <3>2 DEF s
  <2> QED BY <2>1, <2>2, <2>3
<1>6. table' = table /\ overlap' = overlap /\ caller[c].o = o OBVIOUS
<1> HIDE DEF o, kept, e
<1>7. /\ DOMAIN obj' = DOMAIN obj /\ obj'[o] = e
      /\ \A x \in DOMAIN obj : x # o => obj'[x] = obj[x]
      BY <1>3, <1>4
<1>8. Grows(obj, obj') BY <1>4, <1>5, ReplaceGrows
<1>9. TableOK' BY <1>6, <1>8, TableKept DEF TableOK
<1>10. CallsOK' BY <1>2, <1>7, <1>8, ReadyIsCall DEF CallsOK, Grows, Follows, Counting
<1>11. Counted'
  <2>1. \A x : ToolsOf(caller', x) = ToolsOf(caller, x)
        BY <1>1, <1>2, ReadyIsCall DEF CallsOK, ToolsOf
  <2>2. \A x \in DOMAIN obj : obj'[x].tools = obj[x].tools BY <1>5, <1>7
  <2> QED BY <1>7, <2>1, <2>2 DEF Counted
<1>12. Excluded'
  <2>1. \A d \in Callers : caller'[d].op = "rollback" => d # c /\ caller'[d] = caller[d]
        BY <1>2, ReadyIsCall DEF CallsOK
  <2>2. \A d \in Callers \ {c} : (caller[d].op = "rollback" /\ caller[d].o = o) =>
            <<caller[d].id, "roll">> \in overlap
        BY <1>1, <1>3 DEF Excluded, CallsOK, Counting
  <2> QED BY <1>6, <1>7, <2>1, <2>2 DEF Excluded, CallsOK, Counting
<1> QED BY <1>8, <1>9, <1>10, <1>11, <1>12 DEF Outcome, Grows

LEMMA SnapshotStep ==
    ASSUME HostInv, NEW c \in Callers, Snapshot(c)
    PROVE  Outcome
<1> USE DEF HostInv
<1>1. ASSUME NEW id \in IDs, TurnComplete(c, id) PROVE Outcome
  <2> DEFINE o == table[id]
             name == <<"turn", obj[o].turn + 1>>
  <2>1. /\ Begin(c, "turn", id) /\ obj' = obj /\ table' = table
        /\ caller' = [caller EXCEPT ![c] = [Ready EXCEPT !.pc = "zsnap", !.op = "turn", !.id = id,
                                            !.o = o, !.name = name]]
        BY <1>1 DEF TurnComplete
  <2> HIDE DEF o, name
  <2> QED BY <2>1, SnapshotBegins
<1>2. ASSUME NEW id \in IDs, CreateSnapshot(c, id) PROVE Outcome
  <2> DEFINE o == table[id]
             name == <<"user", 1>>
  <2>1. /\ Begin(c, "snap", id) /\ obj' = obj /\ table' = table
        /\ caller' = [caller EXCEPT ![c] = [Ready EXCEPT !.pc = "zsnap", !.op = "snap", !.id = id,
                                            !.o = o, !.name = name]]
        BY <1>2 DEF CreateSnapshot
  <2> HIDE DEF o, name
  <2> QED BY <2>1, SnapshotBegins
<1>3. CASE ZFSCreateSnapshot(c)
  <2>1. /\ caller[c].pc = "zsnap" /\ obj' = obj /\ table' = table /\ overlap' = overlap
        /\ \/ Goto(c, "append")
           \/ caller[c].op = "tool" /\ Goto(c, "tooldone")
           \/ caller[c].op # "tool" /\ Return(c)
        BY <1>3 DEF ZFSCreateSnapshot
  <2>2. caller[c].op # "rollback" BY <2>1 DEF CallsOK, Placed, AtRollback
  <2>3. CallStep(c)
    <3>1. CASE Goto(c, "append")
          BY <2>1, <2>2, <3>1, GotoGoesOn DEF CallsOK, IsCall, CallFields, Placed, Counting, AtTool, AtRollback
    <3>2. CASE caller[c].op = "tool" /\ Goto(c, "tooldone")
          BY <2>1, <3>2, GotoGoesOn DEF CallsOK, IsCall, CallFields, Placed, Counting, AtTool, AtRollback
    <3>3. CASE caller[c].op # "tool" /\ Return(c)
          BY <2>2, <3>3, ReturnGoesOn DEF Counting
    <3> QED BY <2>1, <3>1, <3>2, <3>3
  <2> QED BY <2>1, <2>3, CallMoves
<1>4. CASE AppendSnapshot(c)
  <2> DEFINE o == caller[c].o
             v == Append(obj[o].snaps, caller[c].name)
             t == IF caller[c].op = "turn" THEN caller[c].name[2] ELSE obj[o].turn
             e == [obj[o] EXCEPT !.snaps = v, !.turn = t]
  <2>1. /\ caller[c].pc = "append" /\ table' = table /\ overlap' = overlap
        /\ \/ caller[c].op = "tool" /\ Goto(c, "tooldone")
           \/ caller[c].op # "tool" /\ Goto(c, "prune")
           \/ caller[c].op # "tool" /\ Return(c)
        BY <1>4 DEF AppendSnapshot
  <2>2. Set(o, e) BY <1>4 DEF AppendSnapshot
  <2>3. o \in DOMAIN obj => /\ Follows(obj[o], e)
                            /\ e.tools = obj[o].tools /\ e.rolling = obj[o].rolling
    <3> HIDE DEF v, t
    <3> QED BY DEF Sessions, Follows, Serving, IsSession, SessionFields
  <2>4. caller[c].op # "rollback" BY <2>1 DEF CallsOK, Placed, AtRollback
  <2>5. CallStep(c)
    <3>1. CASE caller[c].op = "tool" /\ Goto(c, "tooldone")
          BY <2>1, <3>1, GotoGoesOn DEF CallsOK, IsCall, CallFields, Placed, Counting, AtTool, AtRollback
    <3>2. CASE caller[c].op # "tool" /\ Goto(c, "prune")
          BY <2>1, <2>4, <3>2, GotoGoesOn DEF CallsOK, IsCall, CallFields, Placed, Counting, AtTool, AtRollback
    <3>3. CASE caller[c].op # "tool" /\ Return(c)
          BY <2>4, <3>3, ReturnGoesOn DEF Counting
    <3> QED BY <2>1, <3>1, <3>2, <3>3
  <2> HIDE DEF o, e
  <2> QED BY <2>1, <2>2, <2>3, <2>5, ObjectMoves
<1>5. CASE PruneList(c)
  <2> DEFINE o == caller[c].o
             over == Len(obj[o].snaps) - MaxSnapshots
             v == SubSeq(obj[o].snaps, over + 1, Len(obj[o].snaps))
             gone == ToSet(SubSeq(obj[o].snaps, 1, over))
             e == [obj[o] EXCEPT !.snaps = v]
  <2>1. /\ caller[c].pc = "prune" /\ table' = table /\ overlap' = overlap
        /\ \/ Set(o, e) /\ caller' = [caller EXCEPT ![c].pc = "zdel", ![c].todo = gone]
           \/ obj' = obj /\ Return(c)
        BY <1>5 DEF PruneList
  <2>2. caller[c].op \notin Counting BY <2>1 DEF CallsOK, Placed, Counting, AtTool, AtRollback
  <2>3. o \in DOMAIN obj => /\ Follows(obj[o], e)
                            /\ e.tools = obj[o].tools /\ e.rolling = obj[o].rolling
    <3> HIDE DEF v
    <3> QED BY DEF Sessions, Follows, Serving, IsSession, SessionFields
  <2> HIDE DEF o, e, gone
  <2>4. CASE Set(o, e) /\ caller' = [caller EXCEPT ![c].pc = "zdel", ![c].todo = gone]
    <3> DEFINE k == [caller[c] EXCEPT !.pc = "zdel", !.todo = gone]
    <3>1. IsCall(k) /\ Placed(k) /\ k.op \notin Counting BY <2>2 DEF CallsOK, IsCall, CallFields, Placed, Counting, AtTool, AtRollback
    <3>2. DOMAIN caller' = Callers /\ caller'[c] = k /\ \A d \in Callers \ {c} : caller'[d] = caller[d]
          BY <2>4 DEF CallsOK
    <3> HIDE DEF k
    <3>3. CallStep(c) BY <2>2, <3>1, <3>2 DEF CallStep, GoesOn
    <3> QED BY <2>1, <2>3, <2>4, <3>3, ObjectMoves
  <2>5. CASE obj' = obj /\ Return(c)
    <3>1. CallStep(c) BY <2>2, <2>5, ReturnGoesOn
    <3> QED BY <2>1, <2>5, <3>1, CallMoves
  <2> QED BY <2>1, <2>4, <2>5
<1>6. CASE ZFSDestroySnapshot(c)
  <2>1. /\ caller[c].pc = "zdel" /\ obj' = obj /\ table' = table /\ overlap' = overlap
        /\ \/ Return(c)
           \/ \E n : caller' = [caller EXCEPT ![c].todo = @ \ {n}]
        BY <1>6 DEF ZFSDestroySnapshot
  <2>2. caller[c].op \notin Counting BY <2>1 DEF CallsOK, Placed, Counting, AtTool, AtRollback
  <2>3. CallStep(c)
    <3>1. CASE Return(c) BY <2>2, <3>1, ReturnGoesOn
    <3>2. ASSUME NEW n, caller' = [caller EXCEPT ![c].todo = @ \ {n}] PROVE CallStep(c)
          BY <3>2 DEF CallStep, GoesOn, CallsOK, IsCall, CallFields, Placed, Counting, AtTool, AtRollback
    <3> QED BY <2>1, <3>1, <3>2
  <2> QED BY <2>1, <2>3, CallMoves
<1>7. ASSUME NEW id \in IDs, NEW n, RollbackSession(c, id, n) PROVE Outcome
      BY <1>7, RollbackBegins
<1>8. CASE ZFSRollback(c)
  <2>1. /\ caller[c].pc = "zroll" /\ obj' = obj /\ table' = table /\ overlap' = overlap
        /\ \E pc \in {"rolled", "rollfail"} : Goto(c, pc)
        BY <1>8 DEF ZFSRollback
  <2>2. CallStep(c) BY <2>1, GotoGoesOn DEF CallsOK, IsCall, CallFields, Placed, Counting, AtTool, AtRollback
  <2> QED BY <2>1, <2>2, CallMoves
<1>9. CASE FinishRollback(c) BY <1>9, RollbackEnds
<1> QED BY <1>1, <1>2, <1>3, <1>4, <1>5, <1>6, <1>7, <1>8, <1>9 DEF Snapshot

----------------------------------------------------------------------------
(* Theorems *)

LEMMA InitHolds == Init => HostInv
<1> SUFFICES ASSUME Init PROVE HostInv OBVIOUS
<1>1. Sessions(obj) BY DEF Init, Sessions
<1>2. TableOK BY DEF Init, TableOK
<1>3. \A c \in Callers : caller[c] = Ready BY DEF Init
<1>4. CallsOK BY <1>3, ReadyIsCall DEF Init, CallsOK, Counting
<1>5. Counted BY DEF Init, Counted
<1>6. Excluded BY <1>3, ReadyIsCall DEF Excluded
<1> QED BY <1>1, <1>2, <1>4, <1>5, <1>6 DEF HostInv

LEMMA StepHolds == HostInv /\ [Next]_vars => Outcome
<1> SUFFICES ASSUME HostInv, [Next]_vars PROVE Outcome OBVIOUS
<1>1. ASSUME NEW c \in Callers,
             Create(c) \/ Destroy(c) \/ Pause(c) \/ Snapshot(c) \/ Tool(c) \/ Process(c)
      PROVE  Outcome
      BY <1>1, CreateStep, DestroyStep, PauseStep, SnapshotStep, ToolStep, ProcessStep
<1>2. ASSUME UNCHANGED <<obj, table, caller, overlap>> PROVE Outcome
  <2>1. Grows(obj, obj') BY <1>2, StayGrows DEF HostInv
  <2>2. HostInv'
        BY <1>2 DEF HostInv, TableOK, CallsOK, Counted, Excluded
  <2> QED BY <2>1, <2>2 DEF Outcome
<1>3. ASSUME NEW p \in Procs, ProcessExits(p) \/ MonitorExit(p)
      PROVE  UNCHANGED <<obj, table, caller, overlap>>
      BY <1>3 DEF ProcessExits, MonitorExit
<1>4. ASSUME NEW j \in Jobs, RunEnter(j) \/ RunSlot(j) \/ RunStart(j) \/ RunExit(j)
      PROVE  UNCHANGED <<obj, table, caller, overlap>>
      BY <1>4 DEF RunEnter, RunSlot, RunStart, RunExit
<1>5. CASE UNCHANGED vars
  <2>1. UNCHANGED <<obj, table, caller, overlap>> BY <1>5 DEF vars
  <2> QED BY <1>2, <2>1
<1> QED BY <1>1, <1>2, <1>3, <1>4, <1>5 DEF Next

LEMMA Inductive == Spec => []HostInv
<1>1. HostInv /\ [Next]_vars => HostInv' BY StepHolds DEF Outcome
<1> QED BY <1>1, InitHolds, PTL DEF Spec

----------------------------------------------------------------------------
(* What datasets and processes depend on *)

AtCreate == {"clone", "props", "undo", "drop", "store"}

AtDestroy == {"kill", "clear", "zdestroy", "delete"}

Destroys == {"destroy", "shutdown"}

\* The calls that may overlap a create or a destroy.
Mild == {"tool", "pause", "resume", "kill"}

\* The place of a call and what it holds there; s is the list of objects.
Holds(k, s) ==
    /\ k.pc = "ready" => k.op = "none"
    /\ k.op = "create" <=> k.pc \in AtCreate
    /\ k.op \in Destroys => k.pc \in AtDestroy \cup {"drain", "shut"}
    /\ k.op = "destroy" => k.pc # "shut"
    /\ k.pc \in AtDestroy \cup {"shut"} => k.op \in Destroys
    /\ k.op = "launch" <=> k.pc \in {"start", "handle"}
    /\ k.op = "create" => k.id \in IDs
    /\ (k.op \in Destroys /\ k.pc # "shut") \/ k.op = "launch" =>
           k.id \in IDs /\ k.o \in DOMAIN s /\ s[k.o].id = k.id
    /\ k.op = "launch" => k.p \in Procs
    /\ k.op = "shutdown" => k.todo \subseteq IDs

\* A create or a destroy is alone on its ID but for tools and pauses, or the
\* conflict is noted.
Lone ==
    \A c, d \in Callers :
        (c # d /\ caller[c].op \in Life /\ caller[d].pc # "ready"
         /\ caller[c].id = caller[d].id /\ caller[c].id \in IDs) =>
            caller[d].op \in Mild \/ <<caller[c].id, "life">> \in overlap

PlaceInv == (\A c \in Callers : Holds(caller[c], obj)) /\ Lone


\* How a call moves: it returns, goes on as what it is, or begins and is noted.
Moves(c) ==
    /\ DOMAIN caller' = Callers
    /\ \A d \in Callers \ {c} : caller'[d] = caller[d]
    /\ Holds(caller'[c], obj')
    /\ overlap \subseteq overlap'
    /\ \/ caller'[c].pc = "ready"
       \/ caller'[c].id \notin IDs
       \/ /\ caller[c].pc # "ready"
          /\ caller'[c].op = caller[c].op /\ caller'[c].id = caller[c].id
       \/ Note(c, caller'[c].op, caller'[c].id)

LEMMA NoteTells ==
    ASSUME NEW c \in Callers, NEW d \in Callers \ {c}, NEW op, NEW id, Note(c, op, id),
           caller[d].pc # "ready", caller[d].id = id, op \notin Mild, caller[d].op \notin Mild,
           op \in Life \/ caller[d].op \in Life
    PROVE  <<id, "life">> \in overlap'
<1>1. d \in InFlight(id) \ {c} BY DEF InFlight
<1>2. "life" \in Conflicts(op, caller[d].op) BY DEF Conflicts, Mild
<1> QED BY <1>1, <1>2 DEF Note

LEMMA HoldsOn ==
    ASSUME NEW k, Holds(k, obj), Grows(obj, obj')
    PROVE  Holds(k, obj')
BY DEF Holds, Grows, Follows

LEMMA MovesKeep ==
    ASSUME PlaceInv, NEW c \in Callers, Grows(obj, obj'), Moves(c)
    PROVE  PlaceInv'
<1>1. \A d \in Callers : Holds(caller'[d], obj')
      BY HoldsOn DEF PlaceInv, Moves
<1>2. Lone'
  <2> SUFFICES ASSUME NEW a \in Callers, NEW b \in Callers, a # b, caller'[a].op \in Life,
                      caller'[b].pc # "ready", caller'[a].id = caller'[b].id, caller'[a].id \in IDs,
                      caller'[b].op \notin Mild
               PROVE  <<caller'[a].id, "life">> \in overlap'
      BY DEF Lone
  <2>0. caller'[a].op \notin Mild BY DEF Life, Mild
  <2>1. caller'[a].pc # "ready" BY <1>1 DEF Holds, Life
  <2>2. CASE a # c /\ b # c
    <3>1. caller'[a] = caller[a] /\ caller'[b] = caller[b] BY <2>2 DEF Moves
    <3>2. <<caller[a].id, "life">> \in overlap BY <3>1 DEF PlaceInv, Lone
    <3> QED BY <3>1, <3>2 DEF Moves
  <2>3. CASE a = c
    <3>1. caller'[b] = caller[b] BY <2>3 DEF Moves
    <3>2. CASE /\ caller[c].pc # "ready"
               /\ caller'[c].op = caller[c].op /\ caller'[c].id = caller[c].id
      <4>1. <<caller[a].id, "life">> \in overlap BY <2>3, <3>1, <3>2 DEF PlaceInv, Lone
      <4> QED BY <2>3, <3>2, <4>1 DEF Moves
    <3>3. CASE Note(c, caller'[c].op, caller'[c].id)
          BY <2>0, <2>3, <3>1, <3>3, NoteTells
    <3> QED BY <2>1, <2>3, <3>2, <3>3 DEF Moves
  <2>4. CASE b = c
    <3>1. caller'[a] = caller[a] BY <2>4 DEF Moves
    <3>2. CASE /\ caller[c].pc # "ready"
               /\ caller'[c].op = caller[c].op /\ caller'[c].id = caller[c].id
      <4>1. <<caller[a].id, "life">> \in overlap BY <2>4, <3>1, <3>2 DEF PlaceInv, Lone
      <4> QED BY <3>1, <4>1 DEF Moves
    <3>3. CASE Note(c, caller'[c].op, caller'[c].id)
      <4>1. <<caller'[c].id, "life">> \in overlap'
            BY <2>0, <2>1, <2>4, <3>1, <3>3, NoteTells
      <4> QED BY <2>4, <4>1
    <3> QED BY <2>4, <3>2, <3>3 DEF Moves
  <2> QED BY <2>2, <2>3, <2>4
<1> QED BY <1>1, <1>2 DEF PlaceInv

LEMMA GotoMoves ==
    ASSUME HostInv, NEW c \in Callers, NEW pc, Goto(c, pc), caller[c].pc # "ready",
           Holds([caller[c] EXCEPT !.pc = pc], obj'), overlap \subseteq overlap'
    PROVE  Moves(c)
<1> DEFINE k == [caller[c] EXCEPT !.pc = pc]
<1>1. k.op = caller[c].op /\ k.id = caller[c].id BY DEF HostInv, CallsOK, IsCall, CallFields
<1>2. /\ DOMAIN caller' = Callers /\ caller'[c] = k
      /\ \A d \in Callers \ {c} : caller'[d] = caller[d]
      BY DEF HostInv, CallsOK, Goto
<1>3. Holds(k, obj') OBVIOUS
<1> HIDE DEF k
<1> QED BY <1>1, <1>2, <1>3 DEF Moves

LEMMA ReadyHolds == \A s : Holds(Ready, s)
BY DEF Holds, Ready, AtCreate, AtDestroy, Destroys

LEMMA ReturnMoves ==
    ASSUME HostInv, PlaceInv, NEW c \in Callers, Return(c), caller[c].pc # "ready",
           overlap \subseteq overlap'
    PROVE  Moves(c)
<1>1. /\ DOMAIN caller' = Callers
      /\ \A d \in Callers \ {c} : caller'[d] = caller[d]
      BY DEF HostInv, CallsOK, Return
<1>2. CASE caller[c].op = "shutdown"
  <2> DEFINE k == [caller[c] EXCEPT !.pc = "shut"]
  <2>1. Holds(caller[c], obj) BY DEF PlaceInv
  <2>2. /\ k.op = caller[c].op /\ k.id = caller[c].id /\ k.todo = caller[c].todo
        /\ k.pc = "shut"
        BY DEF HostInv, CallsOK, IsCall, CallFields
  <2>3. caller'[c] = k BY <1>2 DEF HostInv, CallsOK, Return
  <2> HIDE DEF k
  <2>4. Holds(k, obj') BY <1>2, <2>1, <2>2 DEF Holds, AtCreate, AtDestroy, Destroys
  <2> QED BY <1>1, <2>2, <2>3, <2>4 DEF Moves
<1>3. CASE caller[c].op # "shutdown"
  <2>1. caller'[c] = Ready BY <1>3 DEF HostInv, CallsOK, Return
  <2> QED BY <1>1, <2>1, ReadyHolds DEF Moves, Ready
<1> QED BY <1>2, <1>3

LEMMA EnterMoves ==
    ASSUME HostInv, NEW c \in Callers, NEW k, caller' = [caller EXCEPT ![c] = k],
           Holds(k, obj'), Note(c, k.op, k.id)
    PROVE  Moves(c)
<1>1. /\ DOMAIN caller' = Callers /\ caller'[c] = k
      /\ \A d \in Callers \ {c} : caller'[d] = caller[d]
      BY DEF HostInv, CallsOK
<1>2. overlap \subseteq overlap' BY DEF Note
<1> QED BY <1>1, <1>2 DEF Moves

LEMMA StillMoves ==
    ASSUME HostInv, PlaceInv, Grows(obj, obj'), NEW c \in Callers, caller' = caller,
           overlap \subseteq overlap'
    PROVE  Moves(c)
<1>1. Holds(caller[c], obj') BY HoldsOn DEF PlaceInv
<1>2. caller[c].pc = "ready" \/ caller[c].pc # "ready" OBVIOUS
<1> QED BY <1>1, <1>2 DEF HostInv, CallsOK, Moves

LEMMA CreateMoves ==
    ASSUME HostInv, PlaceInv, Grows(obj, obj'), NEW c \in Callers, Create(c)
    PROVE  Moves(c)
<1>0. Holds(caller[c], obj') BY HoldsOn DEF PlaceInv
<1>1. ASSUME NEW id \in IDs, CreateSession(c, id) PROVE Moves(c)
  <2> DEFINE k == [Ready EXCEPT !.pc = "clone", !.op = "create", !.id = id, !.o = 0]
  <2>1. Holds(k, obj') /\ k.op = "create" /\ k.id = id BY DEF Ready, Holds, AtCreate, AtDestroy, Destroys
  <2>2. caller' = [caller EXCEPT ![c] = k] BY <1>1 DEF CreateSession, Enter
  <2>3. Note(c, "create", id) BY <1>1 DEF CreateSession, Begin
  <2> HIDE DEF k
  <2> QED BY <2>1, <2>2, <2>3, EnterMoves
<1>2. CASE CloneFromSnapshot(c)
  <2>1. /\ caller[c].pc = "clone" /\ overlap' = overlap
        /\ Goto(c, "props") \/ Return(c)
        BY <1>2 DEF CloneFromSnapshot
  <2>2. CASE Goto(c, "props") BY <1>0, <2>1, <2>2, GotoMoves DEF HostInv, CallsOK, IsCall, CallFields, Holds, AtCreate, AtDestroy, Destroys
  <2>3. CASE Return(c) BY <2>1, <2>3, ReturnMoves
  <2> QED BY <2>1, <2>2, <2>3
<1>3. CASE SetProperties(c)
  <2> USE <1>3 DEF SetProperties
  <2> QED BY <1>0, GotoMoves DEF HostInv, CallsOK, IsCall, CallFields, Holds, AtCreate, AtDestroy, Destroys
<1>4. CASE UndoClone(c)
  <2> USE <1>4 DEF UndoClone
  <2> QED BY <1>0, GotoMoves DEF HostInv, CallsOK, IsCall, CallFields, Holds, AtCreate, AtDestroy, Destroys
<1>5. CASE DropPlaceholder(c)
      BY <1>5, ReturnMoves DEF DropPlaceholder
<1>6. CASE StoreSession(c)
      BY <1>6, ReturnMoves DEF StoreSession
<1> QED BY <1>1, <1>2, <1>3, <1>4, <1>5, <1>6 DEF Create

LEMMA PauseMoves ==
    ASSUME HostInv, PlaceInv, Grows(obj, obj'), NEW c \in Callers, Pause(c)
    PROVE  Moves(c)
<1>0. Holds(caller[c], obj') BY HoldsOn DEF PlaceInv
<1>1. ASSUME NEW id \in IDs, PauseSession(c, id) PROVE Moves(c)
  <2> DEFINE o == getSession(id)
             k == [Ready EXCEPT !.pc = "drain", !.op = "pause", !.id = id, !.o = o]
  <2>0. caller' = [caller EXCEPT ![c] = k] BY <1>1 DEF PauseSession, Enter
  <2> HIDE DEF o
  <2>1. Holds(k, obj') /\ k.op = "pause" /\ k.id = id BY DEF Ready, Holds, AtCreate, AtDestroy, Destroys
  <2>3. Note(c, "pause", id) BY <1>1 DEF PauseSession, Begin
  <2> HIDE DEF k
  <2> QED BY <2>0, <2>1, <2>3, EnterMoves
<1>2. ASSUME NEW id \in IDs, ResumeSession(c, id) PROVE Moves(c)
      BY <1>2, StillMoves DEF ResumeSession, Begin, Note
<1>3. CASE PauseDrained(c)
  <2>1. /\ caller[c].pc = "drain" /\ caller[c].op = "pause" /\ overlap' = overlap
        /\ Goto(c, "set") \/ Return(c)
        BY <1>3 DEF PauseDrained
  <2>2. CASE Goto(c, "set") BY <1>0, <2>1, <2>2, GotoMoves DEF HostInv, CallsOK, IsCall, CallFields, Holds, AtCreate, AtDestroy, Destroys
  <2>3. CASE Return(c) BY <2>1, <2>3, ReturnMoves
  <2> QED BY <2>1, <2>2, <2>3
<1>4. CASE SetPaused(c)
      BY <1>4, ReturnMoves DEF SetPaused
<1> QED BY <1>1, <1>2, <1>3, <1>4 DEF Pause

\* A destroy begins on the session of its ID.
LEMMA DestroyObjectMoves ==
    ASSUME HostInv, Grows(obj, obj'), NEW c \in Callers, NEW id \in IDs, NEW op \in Destroys,
           NEW todo, todo \subseteq IDs, DestroyObject(c, id, op, todo), table[id] # 0, Note(c, op, id)
    PROVE  Moves(c)
<1> DEFINE o == table[id]
           k == [Ready EXCEPT !.pc = "drain", !.op = op, !.id = id, !.o = o, !.todo = todo]
<1>1. caller' = [caller EXCEPT ![c] = k] BY DEF DestroyObject
<1>2. o \in DOMAIN obj' /\ obj'[o].id = id BY DEF HostInv, TableOK, Grows, Follows
<1> HIDE DEF o
<1>3. Holds(k, obj') /\ k.op = op /\ k.id = id BY <1>2 DEF Ready, Holds, AtCreate, AtDestroy, Destroys
<1> HIDE DEF k
<1> QED BY <1>1, <1>3, EnterMoves

LEMMA DestroyMoves ==
    ASSUME HostInv, PlaceInv, Grows(obj, obj'), NEW c \in Callers, Destroy(c)
    PROVE  Moves(c)
<1>0. Holds(caller[c], obj') /\ Holds(caller[c], obj) BY HoldsOn DEF PlaceInv
<1>1. ASSUME NEW id \in IDs, DestroySession(c, id) PROVE Moves(c)
      BY <1>1, DestroyObjectMoves DEF DestroySession, Begin, Destroys
<1>2. CASE DestroyDrained(c)
  <2>1. /\ caller[c].pc = "drain" /\ caller[c].op \in Destroys /\ overlap \subseteq overlap'
        /\ Goto(c, "kill") \/ Return(c)
        BY <1>2 DEF DestroyDrained, Destroys
  <2>2. CASE Goto(c, "kill") BY <1>0, <2>1, <2>2, GotoMoves DEF HostInv, CallsOK, IsCall, CallFields, Holds, AtCreate, AtDestroy, Destroys
  <2>3. CASE Return(c) BY <2>1, <2>3, ReturnMoves
  <2> QED BY <2>1, <2>2, <2>3
<1>3. CASE KillProcesses(c)
  <2> USE <1>3 DEF KillProcesses
  <2> QED BY <1>0, GotoMoves DEF HostInv, CallsOK, IsCall, CallFields, Holds, AtCreate, AtDestroy, Destroys
<1>4. CASE ClearProcesses(c)
  <2> USE <1>4 DEF ClearProcesses
  <2> QED BY <1>0, GotoMoves DEF HostInv, CallsOK, IsCall, CallFields, Holds, AtCreate, AtDestroy, Destroys
<1>5. CASE DestroySessionDataset(c)
  <2> USE <1>5 DEF DestroySessionDataset
  <2> QED BY <1>0, GotoMoves DEF HostInv, CallsOK, IsCall, CallFields, Holds, AtCreate, AtDestroy, Destroys
<1>6. CASE DeleteSession(c)
      BY <1>6, ReturnMoves DEF DeleteSession
<1>7. CASE Shutdown(c)
  <2> DEFINE S == {i \in IDs : table[i] # 0}
             k == [Ready EXCEPT !.pc = "shut", !.op = "shutdown", !.todo = S]
  <2>0. caller' = [caller EXCEPT ![c] = k] BY <1>7 DEF Shutdown
  <2>1. S \subseteq IDs OBVIOUS
  <2> HIDE DEF S
  <2>2. Holds(k, obj') BY <2>1 DEF Ready, Holds, AtCreate, AtDestroy, Destroys
  <2>3. k.id = None BY DEF Ready
  <2>4. overlap' = overlap BY <1>7 DEF Shutdown
  <2>5. /\ DOMAIN caller' = Callers /\ caller'[c] = k
        /\ \A d \in Callers \ {c} : caller'[d] = caller[d]
        BY <2>0 DEF HostInv, CallsOK
  <2> HIDE DEF k
  <2> QED BY <2>2, <2>3, <2>4, <2>5, HostAssumption DEF Moves
<1>8. CASE ShutdownNext(c)
  <2>1. caller[c].op = "shutdown" /\ caller[c].pc = "shut" /\ caller[c].todo \subseteq IDs
        BY <1>0, <1>8 DEF ShutdownNext, Holds, Destroys
  <2>2. PICK id \in caller[c].todo :
            \/ /\ table[id] # 0
               /\ Note(c, "shutdown", id)
               /\ DestroyObject(c, id, "shutdown", caller[c].todo \ {id})
            \/ /\ caller' = [caller EXCEPT ![c].todo = @ \ {id}]
               /\ overlap' = overlap
        BY <1>8 DEF ShutdownNext
  <2>3. CASE /\ table[id] # 0
             /\ Note(c, "shutdown", id)
             /\ DestroyObject(c, id, "shutdown", caller[c].todo \ {id})
    <3>1. caller[c].todo \ {id} \subseteq IDs /\ id \in IDs BY <2>1, <2>2
    <3> QED BY <2>3, <3>1, DestroyObjectMoves DEF Destroys
  <2>4. CASE caller' = [caller EXCEPT ![c].todo = @ \ {id}] /\ overlap' = overlap
    <3> DEFINE k == [caller[c] EXCEPT !.todo = @ \ {id}]
    <3>1. /\ k.op = caller[c].op /\ k.id = caller[c].id /\ k.pc = caller[c].pc
          /\ k.todo = caller[c].todo \ {id}
          BY DEF HostInv, CallsOK, IsCall, CallFields
    <3>2. Holds(k, obj') BY <1>0, <2>1, <3>1 DEF Holds, AtCreate, AtDestroy, Destroys
    <3>3. /\ DOMAIN caller' = Callers /\ caller'[c] = k
          /\ \A d \in Callers \ {c} : caller'[d] = caller[d]
          BY <2>4 DEF HostInv, CallsOK
    <3> HIDE DEF k
    <3> QED BY <2>1, <2>4, <3>1, <3>2, <3>3 DEF Moves
  <2> QED BY <2>2, <2>3, <2>4
<1>9. CASE CloseGVisor(c)
  <2>1. /\ DOMAIN caller' = Callers /\ caller'[c] = Ready /\ overlap' = overlap
        /\ \A d \in Callers \ {c} : caller'[d] = caller[d]
        BY <1>9 DEF CloseGVisor, HostInv, CallsOK
  <2>2. Ready.pc = "ready" BY DEF Ready
  <2> QED BY <2>1, <2>2, ReadyHolds DEF Moves
<1> QED BY <1>1, <1>2, <1>3, <1>4, <1>5, <1>6, <1>7, <1>8, <1>9 DEF Destroy

\* A call that holds no object of its own begins.
LEMMA PlainMoves ==
    ASSUME HostInv, NEW c \in Callers, NEW pc \in {"zsnap", "zroll", "tier1", "tier2"},
           NEW op \in {"turn", "snap", "rollback", "tool"}, NEW id, NEW o, NEW name,
           Begin(c, op, id),
           caller' = [caller EXCEPT ![c] = [Ready EXCEPT !.pc = pc, !.op = op, !.id = id,
                                                         !.o = o, !.name = name]]
    PROVE  Moves(c)
<1> DEFINE k == [Ready EXCEPT !.pc = pc, !.op = op, !.id = id, !.o = o, !.name = name]
<1>1. Holds(k, obj') /\ k.op = op /\ k.id = id BY DEF Ready, Holds, AtCreate, AtDestroy, Destroys
<1>2. caller' = [caller EXCEPT ![c] = k] OBVIOUS
<1>3. Note(c, op, id) BY DEF Begin
<1> HIDE DEF k
<1> QED BY <1>1, <1>2, <1>3, EnterMoves

LEMMA SnapshotMoves ==
    ASSUME HostInv, PlaceInv, Grows(obj, obj'), NEW c \in Callers, Snapshot(c)
    PROVE  Moves(c)
<1>0. Holds(caller[c], obj') /\ Placed(caller[c]) BY HoldsOn DEF PlaceInv, HostInv, CallsOK
<1>1. ASSUME NEW id \in IDs, TurnComplete(c, id) PROVE Moves(c)
  <2> DEFINE o == table[id]
             name == <<"turn", obj[o].turn + 1>>
  <2>1. /\ Begin(c, "turn", id)
        /\ caller' = [caller EXCEPT ![c] = [Ready EXCEPT !.pc = "zsnap", !.op = "turn", !.id = id,
                                            !.o = o, !.name = name]]
        BY <1>1 DEF TurnComplete
  <2> HIDE DEF o, name
  <2> QED BY <2>1, PlainMoves
<1>2. ASSUME NEW id \in IDs, CreateSnapshot(c, id) PROVE Moves(c)
  <2> DEFINE o == table[id]
             name == <<"user", 1>>
  <2>1. /\ Begin(c, "snap", id)
        /\ caller' = [caller EXCEPT ![c] = [Ready EXCEPT !.pc = "zsnap", !.op = "snap", !.id = id,
                                            !.o = o, !.name = name]]
        BY <1>2 DEF CreateSnapshot
  <2> HIDE DEF o, name
  <2> QED BY <2>1, PlainMoves
<1>3. CASE ZFSCreateSnapshot(c)
  <2>1. /\ caller[c].pc = "zsnap" /\ overlap' = overlap
        /\ Goto(c, "append") \/ Goto(c, "tooldone") \/ Return(c)
        BY <1>3 DEF ZFSCreateSnapshot
  <2>2. CASE Goto(c, "append") BY <1>0, <2>1, <2>2, GotoMoves DEF HostInv, CallsOK, IsCall, CallFields, Holds, AtCreate, AtDestroy, Destroys
  <2>3. CASE Goto(c, "tooldone") BY <1>0, <2>1, <2>3, GotoMoves DEF HostInv, CallsOK, IsCall, CallFields, Holds, AtCreate, AtDestroy, Destroys
  <2>4. CASE Return(c) BY <2>1, <2>4, ReturnMoves
  <2> QED BY <2>1, <2>2, <2>3, <2>4
<1>4. CASE AppendSnapshot(c)
  <2>1. /\ caller[c].pc = "append" /\ overlap' = overlap
        /\ Goto(c, "prune") \/ Goto(c, "tooldone") \/ Return(c)
        BY <1>4 DEF AppendSnapshot
  <2>2. CASE Goto(c, "prune") BY <1>0, <2>1, <2>2, GotoMoves DEF HostInv, CallsOK, IsCall, CallFields, Holds, AtCreate, AtDestroy, Destroys
  <2>3. CASE Goto(c, "tooldone") BY <1>0, <2>1, <2>3, GotoMoves DEF HostInv, CallsOK, IsCall, CallFields, Holds, AtCreate, AtDestroy, Destroys
  <2>4. CASE Return(c) BY <2>1, <2>4, ReturnMoves
  <2> QED BY <2>1, <2>2, <2>3, <2>4
<1>5. CASE PruneList(c)
  <2> DEFINE s == obj[caller[c].o].snaps
             gone == ToSet(SubSeq(s, 1, Len(s) - MaxSnapshots))
             k == [caller[c] EXCEPT !.pc = "zdel", !.todo = gone]
  <2>1. /\ caller[c].pc = "prune" /\ overlap' = overlap
        /\ \/ caller' = [caller EXCEPT ![c].pc = "zdel", ![c].todo = gone]
           \/ Return(c)
        BY <1>5 DEF PruneList
  <2> HIDE DEF gone, s
  <2>2. CASE caller' = [caller EXCEPT ![c].pc = "zdel", ![c].todo = gone]
    <3>1. /\ k.op = caller[c].op /\ k.id = caller[c].id /\ k.pc = "zdel" /\ k.o = caller[c].o
          /\ k.p = caller[c].p
          BY DEF HostInv, CallsOK, IsCall, CallFields
    <3>2. /\ DOMAIN caller' = Callers /\ caller'[c] = k
          /\ \A d \in Callers \ {c} : caller'[d] = caller[d]
          BY <2>2 DEF HostInv, CallsOK
    <3> HIDE DEF k
    <3>3. caller[c].op \notin Destroys \cup {"launch", "create"}
          BY <1>0, <2>1 DEF Holds, AtCreate, AtDestroy, Destroys
    <3>4. Holds(k, obj') BY <3>1, <3>3 DEF Holds, AtCreate, AtDestroy, Destroys
    <3> QED BY <2>1, <3>1, <3>2, <3>4 DEF Moves
  <2>3. CASE Return(c) BY <2>1, <2>3, ReturnMoves
  <2> QED BY <2>1, <2>2, <2>3
<1>6. CASE ZFSDestroySnapshot(c)
  <2>1. /\ caller[c].pc = "zdel" /\ overlap' = overlap
        /\ Return(c) \/ \E n : caller' = [caller EXCEPT ![c].todo = @ \ {n}]
        BY <1>6 DEF ZFSDestroySnapshot
  <2>2. ASSUME NEW n, caller' = [caller EXCEPT ![c].todo = @ \ {n}] PROVE Moves(c)
    <3> DEFINE k == [caller[c] EXCEPT !.todo = @ \ {n}]
    <3>1. /\ k.op = caller[c].op /\ k.id = caller[c].id /\ k.pc = "zdel" /\ k.o = caller[c].o
          /\ k.p = caller[c].p
          BY <2>1 DEF HostInv, CallsOK, IsCall, CallFields
    <3>2. /\ DOMAIN caller' = Callers /\ caller'[c] = k
          /\ \A d \in Callers \ {c} : caller'[d] = caller[d]
          BY <2>2 DEF HostInv, CallsOK
    <3> HIDE DEF k
    <3>3. caller[c].op \notin Destroys \cup {"launch", "create"}
          BY <1>0, <2>1 DEF Holds, AtCreate, AtDestroy, Destroys
    <3>4. Holds(k, obj') BY <3>1, <3>3 DEF Holds, AtCreate, AtDestroy, Destroys
    <3> QED BY <2>1, <3>1, <3>2, <3>4 DEF Moves
  <2>3. CASE Return(c) BY <2>1, <2>3, ReturnMoves
  <2> QED BY <2>1, <2>2, <2>3
<1>7. ASSUME NEW id \in IDs, NEW n, RollbackSession(c, id, n) PROVE Moves(c)
  <2> DEFINE o == table[id]
  <2>1. /\ Begin(c, "rollback", id)
        /\ caller' = [caller EXCEPT ![c] = [Ready EXCEPT !.pc = "zroll", !.op = "rollback", !.id = id,
                                            !.o = o, !.name = n]]
        BY <1>7 DEF RollbackSession
  <2> HIDE DEF o
  <2> QED BY <2>1, PlainMoves
<1>8. CASE ZFSRollback(c)
  <2>1. /\ caller[c].pc = "zroll" /\ overlap' = overlap
        /\ \E pc \in {"rolled", "rollfail"} : Goto(c, pc)
        BY <1>8 DEF ZFSRollback
  <2> QED BY <1>0, <2>1, GotoMoves DEF HostInv, CallsOK, IsCall, CallFields, Holds, AtCreate, AtDestroy, Destroys
<1>9. CASE FinishRollback(c) BY <1>9, ReturnMoves DEF FinishRollback
<1> QED BY <1>1, <1>2, <1>3, <1>4, <1>5, <1>6, <1>7, <1>8, <1>9 DEF Snapshot

LEMMA ToolMoves ==
    ASSUME HostInv, PlaceInv, Grows(obj, obj'), NEW c \in Callers, Tool(c)
    PROVE  Moves(c)
<1>0. Holds(caller[c], obj') BY HoldsOn DEF PlaceInv
<1>1. ASSUME NEW id \in IDs, ExecuteTool(c, id) PROVE Moves(c)
  <2> DEFINE o == table[id]
  <2>1. PICK tier \in {"tier1", "tier2"} : Enter(c, "tool", id, tier, o) BY <1>1 DEF ExecuteTool
  <2>2. Begin(c, "tool", id) BY <1>1 DEF ExecuteTool
  <2> HIDE DEF o
  <2> DEFINE k == [Ready EXCEPT !.pc = tier, !.op = "tool", !.id = id, !.o = o]
  <2>3. Holds(k, obj') /\ k.op = "tool" /\ k.id = id BY DEF Ready, Holds, AtCreate, AtDestroy, Destroys
  <2>4. caller' = [caller EXCEPT ![c] = k] BY <2>1 DEF Enter
  <2> HIDE DEF k
  <2> QED BY <2>2, <2>3, <2>4, EnterMoves DEF Begin
<1>2. CASE ToolAnswers(c)
  <2> DEFINE n == <<"tool", calls>>
             k == [caller[c] EXCEPT !.pc = "zsnap", !.name = n]
  <2>1. /\ caller[c].pc \in {"tier1", "tier2"} /\ overlap' = overlap
        /\ Goto(c, "tooldone") \/ caller' = [caller EXCEPT ![c].pc = "zsnap", ![c].name = n]
        BY <1>2 DEF ToolAnswers
  <2> HIDE DEF n
  <2>2. CASE Goto(c, "tooldone") BY <1>0, <2>1, <2>2, GotoMoves DEF HostInv, CallsOK, IsCall, CallFields, Holds, AtCreate, AtDestroy, Destroys
  <2>3. CASE caller' = [caller EXCEPT ![c].pc = "zsnap", ![c].name = n]
    <3>1. /\ k.op = caller[c].op /\ k.id = caller[c].id /\ k.pc = "zsnap" /\ k.o = caller[c].o
          /\ k.p = caller[c].p
          BY DEF HostInv, CallsOK, IsCall, CallFields
    <3>2. /\ DOMAIN caller' = Callers /\ caller'[c] = k
          /\ \A d \in Callers \ {c} : caller'[d] = caller[d]
          BY <2>3 DEF HostInv, CallsOK
    <3> HIDE DEF k
    <3>3. caller[c].op \notin Destroys \cup {"launch", "create"}
          BY <1>0, <2>1 DEF Holds, AtCreate, AtDestroy, Destroys
    <3>4. Holds(k, obj') BY <3>1, <3>3 DEF Holds, AtCreate, AtDestroy, Destroys
    <3> QED BY <2>1, <3>1, <3>2, <3>4 DEF Moves
  <2> QED BY <2>1, <2>2, <2>3
<1>3. CASE ToolReturns(c) BY <1>3, ReturnMoves DEF ToolReturns
<1> QED BY <1>1, <1>2, <1>3 DEF Tool

LEMMA ProcessMoves ==
    ASSUME HostInv, PlaceInv, Grows(obj, obj'), NEW c \in Callers, Process(c)
    PROVE  Moves(c)
<1>0. Holds(caller[c], obj') BY HoldsOn DEF PlaceInv
<1>1. ASSUME NEW id \in IDs, NEW p \in Procs, LaunchProcess(c, id, p) PROVE Moves(c)
  <2> DEFINE o == table[id]
             k == [Ready EXCEPT !.pc = "start", !.op = "launch", !.id = id, !.o = o, !.p = p]
  <2>1. caller' = [caller EXCEPT ![c] = k] BY <1>1 DEF LaunchProcess
  <2>2. o \in DOMAIN obj' /\ obj'[o].id = id
        BY <1>1 DEF LaunchProcess, Active, HostInv, TableOK, Grows, Follows
  <2>3. Note(c, "launch", id) BY <1>1 DEF LaunchProcess, Begin
  <2> HIDE DEF o
  <2>4. Holds(k, obj') /\ k.op = "launch" /\ k.id = id BY <2>2 DEF Ready, Holds, AtCreate, AtDestroy, Destroys
  <2> HIDE DEF k
  <2> QED BY <2>1, <2>3, <2>4, EnterMoves
<1>2. ASSUME NEW id \in IDs, NEW p \in Procs, KillProcess(c, id, p) PROVE Moves(c)
      BY <1>2, StillMoves DEF KillProcess, Begin, Note
<1>3. CASE StartProcess(c)
  <2>1. /\ caller[c].pc = "start" /\ overlap' = overlap
        /\ Goto(c, "handle") \/ Return(c)
        BY <1>3 DEF StartProcess
  <2>2. CASE Goto(c, "handle") BY <1>0, <2>1, <2>2, GotoMoves DEF HostInv, CallsOK, IsCall, CallFields, Holds, AtCreate, AtDestroy, Destroys
  <2>3. CASE Return(c) BY <2>1, <2>3, ReturnMoves
  <2> QED BY <2>1, <2>2, <2>3
<1>4. CASE StoreHandle(c) BY <1>4, ReturnMoves DEF StoreHandle
<1> QED BY <1>1, <1>2, <1>3, <1>4 DEF Process

ByCall(c) == Create(c) \/ Destroy(c) \/ Pause(c) \/ Snapshot(c) \/ Tool(c) \/ Process(c)

LEMMA CallsMove ==
    ASSUME HostInv, PlaceInv, Grows(obj, obj'), NEW c \in Callers, ByCall(c)
    PROVE  Moves(c)
BY CreateMoves, DestroyMoves, PauseMoves, SnapshotMoves, ToolMoves, ProcessMoves DEF ByCall

\* What the processes and the containers do changes no call.
ByRun ==
    \/ \E p \in Procs : ProcessExits(p) \/ MonitorExit(p)
    \/ \E j \in Jobs : RunEnter(j) \/ RunSlot(j) \/ RunStart(j) \/ RunExit(j)

LEMMA RunsKeep ==
    ASSUME ByRun
    PROVE  UNCHANGED <<table, obj, caller, overlap, leaked, ds, runtime>>
BY DEF ByRun, ProcessExits, MonitorExit, RunEnter, RunSlot, RunStart, RunExit, config

LEMMA PlaceStep == HostInv /\ PlaceInv /\ [Next]_vars => PlaceInv'
<1> SUFFICES ASSUME HostInv, PlaceInv, [Next]_vars PROVE PlaceInv' OBVIOUS
<1>0. Grows(obj, obj') BY StepHolds DEF Outcome
<1>1. ASSUME NEW c \in Callers, ByCall(c) PROVE PlaceInv'
      BY <1>0, <1>1, CallsMove, MovesKeep
<1>2. ASSUME UNCHANGED <<obj, caller, overlap>> PROVE PlaceInv'
      BY <1>2 DEF PlaceInv, Lone
<1>3. CASE ByRun BY <1>2, <1>3, RunsKeep
<1>4. CASE UNCHANGED vars BY <1>2, <1>4 DEF vars
<1> QED BY <1>1, <1>3, <1>4 DEF Next, ByCall, ByRun

LEMMA PlaceInit == Init => PlaceInv
<1> SUFFICES ASSUME Init PROVE PlaceInv OBVIOUS
<1>1. \A c \in Callers : caller[c] = Ready BY DEF Init
<1>2. Lone BY <1>1 DEF Lone, Ready, Life
<1> QED BY <1>1, <1>2, ReadyHolds DEF PlaceInv

LEMMA PlaceInductive == Spec => []PlaceInv
BY PlaceInit, PlaceStep, Inductive, PTL DEF Spec
----------------------------------------------------------------------------
(* Datasets.  t, s and d stand for table, obj and ds. *)

Held(i, t, s, d) == d[i].there => t[i] # 0 /\ s[t[i]].dataset

\* A create has a placeholder or nothing in the table; the dataset is not there
\* before the clone and after its undoing, and there when the session is stored.
CreateOK(k, t, s, d) ==
    /\ t[k.id] # 0 => s[t[k.id]].state \notin Serving
    /\ k.pc \in {"clone", "drop"} => ~d[k.id].there
    /\ k.pc = "store" => d[k.id].there

\* A destroy has its session in the table, not serving, until it deletes it; the
\* dataset goes before that.
DestroyOK(k, t, s, d) ==
    /\ t[k.id] = k.o /\ s[k.o].state \notin Serving
    /\ k.pc \in {"drain", "kill", "clear"} => Held(k.id, t, s, d)
    /\ k.pc = "delete" => ~d[k.id].there

CallFits(k, t, s, d) ==
    /\ k.op = "create" => CreateOK(k, t, s, d)
    /\ k.op \in Destroys /\ k.pc # "shut" => DestroyOK(k, t, s, d)
    /\ k.pc = "shut" => Held(k.id, t, s, d)

\* The calls on an ID know its dataset, somebody has the dataset that is there,
\* and a session that serves has one.
DatasetAt(i) ==
    /\ \A c \in Callers : caller[c].id = i => CallFits(caller[c], table, obj, ds)
    /\ \/ Held(i, table, obj, ds)
       \/ \E c \in Callers : caller[c].id = i /\ caller[c].op \in Life
    /\ table[i] # 0 /\ obj[table[i]].state \in Serving => ds[i].there

DatasetTypes(d) ==
    DOMAIN d = IDs /\ \A i \in IDs : DOMAIN d[i] = {"there", "snaps"} /\ d[i].there \in BOOLEAN

DatasetInv == DatasetTypes(ds) /\ \A i \in IDs : Clean(i) => DatasetAt(i)

LEMMA CleanBefore ==
    ASSUME NEW i, Clean(i)', overlap \subseteq overlap', leaked \subseteq leaked'
    PROVE  Clean(i)
BY DEF Clean

\* A create or a destroy that is not noted has no other beside it.
LEMMA Alone ==
    ASSUME PlaceInv, NEW c \in Callers, caller[c].op \in Life, caller[c].id \in IDs,
           Clean(caller[c].id), NEW d \in Callers \ {c}, caller[d].id = caller[c].id
    PROVE  caller[d].op \notin Life \cup {"launch"}
<1>1. CASE caller[d].pc = "ready" BY <1>1 DEF PlaceInv, Holds, Life
<1>2. CASE caller[d].pc # "ready"
  <2>1. caller[d].op \in Mild BY <1>2 DEF PlaceInv, Lone, Clean
  <2> QED BY <2>1 DEF Mild, Life
<1> QED BY <1>1, <1>2

\* An ID whose entry and dataset a step leaves alone.
LEMMA DatasetFrame ==
    ASSUME HostInv, PlaceInv, NEW i \in IDs, DatasetAt(i), NEW c \in Callers, Grows(obj, obj'), Moves(c),
           table'[i] = table[i], ds'[i].there = ds[i].there,
           caller'[c].id = i => CallFits(caller'[c], table', obj', ds'),
           \/ caller[c].id # i \/ caller[c].op \notin Life \/ Held(i, table', obj', ds')
           \/ caller'[c].id = i /\ caller'[c].op \in Life
    PROVE  DatasetAt(i)'
<1>1. table[i] # 0 => /\ table[i] \in DOMAIN obj
                      /\ obj'[table[i]].dataset = obj[table[i]].dataset
                      /\ obj'[table[i]].state \in Serving => obj[table[i]].state \in Serving
      BY DEF HostInv, TableOK, Grows, Follows
<1>2. Held(i, table', obj', ds') <=> Held(i, table, obj, ds) BY <1>1 DEF Held
<1>3. \A d \in Callers : caller'[d].id = i => CallFits(caller'[d], table', obj', ds')
  <2> SUFFICES ASSUME NEW d \in Callers \ {c}, caller'[d].id = i
               PROVE  CallFits(caller'[d], table', obj', ds')
      OBVIOUS
  <2>1. caller'[d] = caller[d] BY DEF Moves
  <2>2. CallFits(caller[d], table, obj, ds) BY <2>1 DEF DatasetAt
  <2>3. CreateOK(caller[d], table, obj, ds) => CreateOK(caller[d], table', obj', ds')
        BY <1>1, <2>1 DEF CreateOK
  <2>4. (caller[d].op \in Destroys /\ caller[d].pc # "shut" /\ DestroyOK(caller[d], table, obj, ds))
        => DestroyOK(caller[d], table', obj', ds')
    <3>1. SUFFICES ASSUME DestroyOK(caller[d], table, obj, ds),
                          caller[d].op \in Destroys, caller[d].pc # "shut"
                   PROVE  DestroyOK(caller[d], table', obj', ds')
          OBVIOUS
    <3>2. table[i] = caller[d].o BY <2>1, <3>1 DEF DestroyOK
    <3>3. caller[d].o \in DOMAIN obj BY <3>1 DEF PlaceInv, Holds
    <3>4. obj'[caller[d].o].state \in Serving => obj[caller[d].o].state \in Serving
          BY <3>3 DEF Grows, Follows
    <3> QED BY <1>2, <2>1, <3>1, <3>2, <3>4 DEF DestroyOK
  <2> QED BY <1>2, <2>1, <2>2, <2>3, <2>4 DEF CallFits
<1>4. \/ Held(i, table', obj', ds')
      \/ \E d \in Callers : caller'[d].id = i /\ caller'[d].op \in Life
  <2>1. CASE Held(i, table, obj, ds) BY <1>2, <2>1
  <2>2. ASSUME NEW d \in Callers, caller[d].id = i, caller[d].op \in Life
        PROVE  \/ Held(i, table', obj', ds')
               \/ \E e \in Callers : caller'[e].id = i /\ caller'[e].op \in Life
    <3>1. CASE d # c BY <2>2, <3>1 DEF Moves
    <3>2. CASE d = c BY <2>2, <3>2
    <3> QED BY <3>1, <3>2
  <2> QED BY <2>1, <2>2 DEF DatasetAt
<1>5. table'[i] # 0 /\ obj'[table'[i]].state \in Serving => ds'[i].there
      BY <1>1 DEF DatasetAt
<1> QED BY <1>3, <1>4, <1>5 DEF DatasetAt

\* The ID whose entry or dataset its create or destroy changes.
LEMMA DatasetChange ==
    ASSUME PlaceInv, PlaceInv', NEW i \in IDs, NEW c \in Callers, Moves(c), Clean(i), Clean(i)',
           \/ caller[c].id = i /\ caller[c].op \in Life
           \/ caller'[c].id = i /\ caller'[c].op \in Life,
           caller'[c].id = i => CallFits(caller'[c], table', obj', ds'),
           \/ Held(i, table', obj', ds')
           \/ caller'[c].id = i /\ caller'[c].op \in Life,
           (table'[i] # 0 /\ obj'[table'[i]].state \in Serving) => ds'[i].there
    PROVE  DatasetAt(i)'
<1>1. \A d \in Callers \ {c} : caller'[d].id = i => caller'[d].op \notin Life
  <2> SUFFICES ASSUME NEW d \in Callers \ {c}, caller'[d].id = i PROVE caller'[d].op \notin Life
      OBVIOUS
  <2>1. caller'[d] = caller[d] BY DEF Moves
  <2>2. CASE caller[c].id = i /\ caller[c].op \in Life BY <2>1, <2>2, Alone
  <2>3. CASE caller'[c].id = i /\ caller'[c].op \in Life
    <3>1. caller'[d].pc = "ready" => caller'[d].op \notin Life BY DEF PlaceInv, Holds, Life
    <3>2. caller'[d].pc # "ready" => caller'[d].op \in Mild
          BY <2>3 DEF PlaceInv, Lone, Clean
    <3> QED BY <3>1, <3>2 DEF Mild, Life
  <2> QED BY <2>2, <2>3
<1>2. \A d \in Callers \ {c} : caller'[d].id = i => CallFits(caller'[d], table', obj', ds')
  <2> SUFFICES ASSUME NEW d \in Callers \ {c}, caller'[d].id = i
               PROVE  CallFits(caller'[d], table', obj', ds')
      OBVIOUS
  <2>1. caller'[d].op \notin Life BY <1>1
  <2>2. caller'[d].pc # "shut" BY <2>1 DEF PlaceInv, Holds, Destroys, Life
  <2> QED BY <2>1, <2>2 DEF CallFits, Life, Destroys
<1> QED BY <1>2 DEF DatasetAt

\* Steps of a call that is neither a create nor a destroy.
LEMMA DatasetQuiet ==
    ASSUME HostInv, PlaceInv, PlaceInv', DatasetInv, NEW c \in Callers, Grows(obj, obj'), Moves(c),
           table' = table, leaked \subseteq leaked', DatasetTypes(ds'),
           \A i \in IDs : ds'[i].there = ds[i].there,
           caller[c].op \notin Life, caller'[c].op \notin Life
    PROVE  DatasetInv'
<1> SUFFICES ASSUME NEW i \in IDs, Clean(i)' PROVE DatasetAt(i)' BY DEF DatasetInv
<1>1. Clean(i) BY CleanBefore DEF Moves
<1>2. DatasetAt(i) BY <1>1 DEF DatasetInv
<1>3. caller'[c].pc # "shut" BY DEF PlaceInv, Holds, Destroys, Life
<1>4. CallFits(caller'[c], table', obj', ds') BY <1>3 DEF CallFits, Life, Destroys
<1> QED BY <1>2, <1>4, DatasetFrame

Weighty == Life \cup {"launch"}

\* No call becomes another as it goes on.
LEMMA StaysQuiet ==
    ASSUME HostInv, NEW c \in Callers, NEW S, "none" \notin S, caller[c].op \notin S,
           (\E pc : Goto(c, pc)) \/ Return(c) \/ caller' = caller
    PROVE  caller'[c].op \notin S
<1>1. ASSUME NEW pc, Goto(c, pc) PROVE caller'[c].op \notin S
      BY <1>1 DEF Goto, HostInv, CallsOK, IsCall, CallFields
<1>2. CASE Return(c) BY <1>2 DEF Return, HostInv, CallsOK, Ready, IsCall, CallFields
<1> QED BY <1>1, <1>2

LEMMA WeightyOps == "none" \notin Weighty /\ "none" \notin Life
BY DEF Weighty, Life

LEMMA SnapshotQuiet ==
    ASSUME HostInv, PlaceInv, NEW c \in Callers, Snapshot(c)
    PROVE  caller[c].op \notin Weighty /\ caller'[c].op \notin Weighty
<1>0. Holds(caller[c], obj) /\ IsCall(caller[c]) /\ DOMAIN caller = Callers
      BY DEF PlaceInv, HostInv, CallsOK
<1>4. caller[c].op \notin Weighty
  <2>1. caller[c].pc \in {"ready", "zsnap", "append", "prune", "zdel", "zroll", "rolled", "rollfail"}
        BY DEF Snapshot, TurnComplete, CreateSnapshot, ZFSCreateSnapshot, AppendSnapshot, PruneList,
               ZFSDestroySnapshot, RollbackSession, ZFSRollback, FinishRollback, Begin
  <2> QED BY <1>0, <2>1 DEF Holds, AtCreate, AtDestroy, Destroys, Weighty, Life
<1>5. ASSUME NEW id \in IDs, NEW op \in {"turn", "snap", "rollback"}, NEW pc, NEW o, NEW n,
             caller' = [caller EXCEPT ![c] = [Ready EXCEPT !.pc = pc, !.op = op, !.id = id,
                                              !.o = o, !.name = n]]
      PROVE  caller'[c].op \notin Weighty
      BY <1>0, <1>5 DEF Ready, Weighty, Life
<1>6. ASSUME NEW id \in IDs, TurnComplete(c, id) PROVE caller'[c].op \notin Weighty
      BY <1>5, <1>6, Zenon DEF TurnComplete
<1>7. ASSUME NEW id \in IDs, CreateSnapshot(c, id) PROVE caller'[c].op \notin Weighty
      BY <1>5, <1>7, Zenon DEF CreateSnapshot
<1>8. ASSUME NEW id \in IDs, NEW n, RollbackSession(c, id, n) PROVE caller'[c].op \notin Weighty
      BY <1>5, <1>8, Zenon DEF RollbackSession
<1>9. CASE ZFSCreateSnapshot(c) BY <1>4, <1>9, StaysQuiet, WeightyOps DEF ZFSCreateSnapshot
<1>10. CASE AppendSnapshot(c) BY <1>4, <1>10, StaysQuiet, WeightyOps DEF AppendSnapshot
<1>11. CASE PruneList(c)
  <2> DEFINE s == obj[caller[c].o].snaps
             gone == ToSet(SubSeq(s, 1, Len(s) - MaxSnapshots))
  <2>1. \/ caller' = [caller EXCEPT ![c].pc = "zdel", ![c].todo = gone]
        \/ Return(c)
        BY <1>11 DEF PruneList
  <2> HIDE DEF gone, s
  <2>2. CASE caller' = [caller EXCEPT ![c].pc = "zdel", ![c].todo = gone]
        BY <1>0, <1>4, <2>2 DEF IsCall, CallFields
  <2> QED BY <1>4, <2>1, <2>2, StaysQuiet, WeightyOps
<1>12. CASE ZFSDestroySnapshot(c)
  <2>1. Return(c) \/ \E n : caller' = [caller EXCEPT ![c].todo = @ \ {n}]
        BY <1>12 DEF ZFSDestroySnapshot
  <2>2. ASSUME NEW n, caller' = [caller EXCEPT ![c].todo = @ \ {n}] PROVE caller'[c].op \notin Weighty
        BY <1>0, <1>4, <2>2 DEF IsCall, CallFields
  <2> QED BY <1>4, <2>1, <2>2, StaysQuiet, WeightyOps
<1>13. CASE ZFSRollback(c) BY <1>4, <1>13, StaysQuiet, WeightyOps DEF ZFSRollback
<1>14. CASE FinishRollback(c) BY <1>4, <1>14, StaysQuiet, WeightyOps DEF FinishRollback
<1> QED BY <1>4, <1>6, <1>7, <1>8, <1>9, <1>10, <1>11, <1>12, <1>13, <1>14 DEF Snapshot

LEMMA SnapshotDataset ==
    ASSUME HostInv, PlaceInv, PlaceInv', DatasetInv, NEW c \in Callers, Grows(obj, obj'), Moves(c),
           Snapshot(c)
    PROVE  DatasetInv'
<1>1. table' = table /\ leaked \subseteq leaked'
      BY DEF Snapshot, TurnComplete, CreateSnapshot, ZFSCreateSnapshot, AppendSnapshot, PruneList,
             ZFSDestroySnapshot, RollbackSession, ZFSRollback, FinishRollback
<1>2. ds' = ds \/ \E i, v : ds' = [ds EXCEPT ![i].snaps = v]
  <2>1. CASE ZFSCreateSnapshot(c)
        BY <2>1, Zenon DEF ZFSCreateSnapshot
  <2>2. CASE ZFSDestroySnapshot(c)
        BY <2>2, Zenon DEF ZFSDestroySnapshot
  <2>3. CASE ZFSRollback(c)
        BY <2>3, Zenon DEF ZFSRollback
  <2>4. ASSUME ~ZFSCreateSnapshot(c), ~ZFSDestroySnapshot(c), ~ZFSRollback(c) PROVE ds' = ds
        BY <2>4 DEF Snapshot, TurnComplete, CreateSnapshot, AppendSnapshot, PruneList,
                    RollbackSession, FinishRollback
  <2> QED BY <2>1, <2>2, <2>3, <2>4
<1>3. DatasetTypes(ds') /\ \A i \in IDs : ds'[i].there = ds[i].there
      BY <1>2 DEF DatasetInv, DatasetTypes
<1> QED BY <1>1, <1>3, SnapshotQuiet, DatasetQuiet DEF Weighty

LEMMA PauseQuiet ==
    ASSUME HostInv, PlaceInv, NEW c \in Callers, Pause(c)
    PROVE  caller[c].op \notin Weighty /\ caller'[c].op \notin Weighty
<1>0. Holds(caller[c], obj) /\ IsCall(caller[c]) /\ DOMAIN caller = Callers
      BY DEF PlaceInv, HostInv, CallsOK
<1>1. caller[c].op \notin Weighty
  <2>1. caller[c].pc \in {"ready", "set"} \/ caller[c].op = "pause"
        BY DEF Pause, PauseSession, ResumeSession, PauseDrained, SetPaused, Begin
  <2> QED BY <1>0, <2>1 DEF Holds, AtCreate, AtDestroy, Destroys, Weighty, Life
<1>2. ASSUME NEW id \in IDs, PauseSession(c, id) PROVE caller'[c].op \notin Weighty
      BY <1>0, <1>2 DEF PauseSession, Enter, Ready, Weighty, Life
<1>3. ASSUME NEW id \in IDs, ResumeSession(c, id) PROVE caller'[c].op \notin Weighty
      BY <1>1, <1>3 DEF ResumeSession
<1>4. CASE PauseDrained(c) BY <1>1, <1>4, StaysQuiet, WeightyOps DEF PauseDrained
<1>5. CASE SetPaused(c) BY <1>1, <1>5, StaysQuiet, WeightyOps DEF SetPaused
<1> QED BY <1>1, <1>2, <1>3, <1>4, <1>5 DEF Pause

LEMMA ToolQuiet ==
    ASSUME HostInv, PlaceInv, NEW c \in Callers, Tool(c)
    PROVE  caller[c].op \notin Weighty /\ caller'[c].op \notin Weighty
<1>0. Holds(caller[c], obj) /\ IsCall(caller[c]) /\ DOMAIN caller = Callers
      BY DEF PlaceInv, HostInv, CallsOK
<1>1. caller[c].op \notin Weighty
  <2>1. caller[c].pc \in {"ready", "tier1", "tier2", "tooldone"}
        BY DEF Tool, ExecuteTool, ToolAnswers, ToolReturns, Begin
  <2> QED BY <1>0, <2>1 DEF Holds, AtCreate, AtDestroy, Destroys, Weighty, Life
<1>2. ASSUME NEW id \in IDs, ExecuteTool(c, id) PROVE caller'[c].op \notin Weighty
  <2>1. PICK tier : Enter(c, "tool", id, tier, table[id]) BY <1>2 DEF ExecuteTool
  <2> QED BY <1>0, <2>1 DEF Enter, Ready, Weighty, Life
<1>3. CASE ToolAnswers(c)
  <2>1. Goto(c, "tooldone") \/ \E n : caller' = [caller EXCEPT ![c].pc = "zsnap", ![c].name = n]
        BY <1>3, Zenon DEF ToolAnswers
  <2>2. ASSUME NEW n, caller' = [caller EXCEPT ![c].pc = "zsnap", ![c].name = n]
        PROVE  caller'[c].op \notin Weighty
        BY <1>0, <1>1, <2>2 DEF IsCall, CallFields
  <2> QED BY <1>1, <2>1, <2>2, StaysQuiet, WeightyOps
<1>4. CASE ToolReturns(c) BY <1>1, <1>4, StaysQuiet, WeightyOps DEF ToolReturns
<1> QED BY <1>1, <1>2, <1>3, <1>4 DEF Tool

LEMMA ProcessQuiet ==
    ASSUME HostInv, PlaceInv, NEW c \in Callers, Process(c)
    PROVE  caller[c].op \notin Life /\ caller'[c].op \notin Life
<1>0. Holds(caller[c], obj) /\ IsCall(caller[c]) /\ DOMAIN caller = Callers
      BY DEF PlaceInv, HostInv, CallsOK
<1>1. caller[c].op \notin Life
  <2>1. caller[c].pc \in {"ready", "start", "handle"}
        BY DEF Process, LaunchProcess, KillProcess, StartProcess, StoreHandle, Begin
  <2> QED BY <1>0, <2>1 DEF Holds, AtCreate, AtDestroy, Destroys, Life
<1>2. ASSUME NEW id \in IDs, NEW p \in Procs, LaunchProcess(c, id, p)
      PROVE  caller'[c].op \notin Life
  <2> DEFINE o == table[id]
  <2>1. caller' = [caller EXCEPT ![c] = [Ready EXCEPT !.pc = "start", !.op = "launch", !.id = id,
                                                      !.o = o, !.p = p]]
        BY <1>2 DEF LaunchProcess
  <2> HIDE DEF o
  <2> QED BY <1>0, <2>1 DEF Ready, Life
<1>3. ASSUME NEW id \in IDs, NEW p \in Procs, KillProcess(c, id, p)
      PROVE  caller'[c].op \notin Life
      BY <1>1, <1>3 DEF KillProcess
<1>4. CASE StartProcess(c) BY <1>1, <1>4, StaysQuiet, WeightyOps DEF StartProcess
<1>5. CASE StoreHandle(c) BY <1>1, <1>5, StaysQuiet, WeightyOps DEF StoreHandle
<1> QED BY <1>1, <1>2, <1>3, <1>4, <1>5 DEF Process

LEMMA OthersDataset ==
    ASSUME HostInv, PlaceInv, PlaceInv', DatasetInv, NEW c \in Callers, Grows(obj, obj'), Moves(c),
           Pause(c) \/ Tool(c) \/ Process(c)
    PROVE  DatasetInv'
<1>1. UNCHANGED <<table, leaked, ds>>
  <2>1. CASE Pause(c) BY <2>1 DEF Pause, PauseSession, ResumeSession, PauseDrained, SetPaused
  <2>2. CASE Tool(c) BY <2>2 DEF Tool, ExecuteTool, ToolAnswers, ToolReturns
  <2>3. CASE Process(c) BY <2>3 DEF Process, LaunchProcess, KillProcess, StartProcess, StoreHandle
  <2> QED BY <2>1, <2>2, <2>3
<1>2. DatasetTypes(ds') BY <1>1 DEF DatasetInv
<1> QED BY <1>1, <1>2, PauseQuiet, ToolQuiet, ProcessQuiet, DatasetQuiet DEF Weighty

LEMMA GotoAt ==
    ASSUME HostInv, NEW c \in Callers, NEW pc, Goto(c, pc)
    PROVE  /\ caller'[c].pc = pc /\ caller'[c].op = caller[c].op /\ caller'[c].id = caller[c].id
           /\ caller'[c].o = caller[c].o /\ caller'[c].p = caller[c].p
BY DEF Goto, HostInv, CallsOK, IsCall, CallFields

LEMMA ReturnAt ==
    ASSUME HostInv, NEW c \in Callers, Return(c)
    PROVE  \/ caller[c].op # "shutdown" /\ caller'[c] = Ready
           \/ /\ caller[c].op = "shutdown" /\ caller'[c].op = "shutdown" /\ caller'[c].pc = "shut"
              /\ caller'[c].id = caller[c].id
BY DEF Return, HostInv, CallsOK, IsCall, CallFields

LEMMA HeldOn ==
    ASSUME HostInv, Grows(obj, obj'), NEW i \in IDs, Held(i, table, obj, ds),
           table'[i] = table[i], ds'[i].there = ds[i].there
    PROVE  Held(i, table', obj', ds')
<1>1. table[i] # 0 => table[i] \in DOMAIN obj BY DEF HostInv, TableOK
<1> QED BY <1>1 DEF Held, Grows, Follows

\* The IDs a create or a destroy does not touch.
LEMMA DatasetElsewhere ==
    ASSUME HostInv, PlaceInv, NEW i \in IDs, DatasetAt(i), NEW c \in Callers, Grows(obj, obj'),
           Moves(c), table'[i] = table[i], ds'[i].there = ds[i].there, caller'[c].id # i,
           caller[c].id # i \/ caller[c].op \notin Life \/ caller[c].pc = "shut"
    PROVE  DatasetAt(i)'
<1>1. CASE caller[c].id # i \/ caller[c].op \notin Life BY <1>1, DatasetFrame
<1>2. CASE caller[c].id = i /\ caller[c].pc = "shut"
  <2>1. Held(i, table, obj, ds) BY <1>2 DEF DatasetAt, CallFits
  <2>2. Held(i, table', obj', ds') BY <2>1, HeldOn
  <2> QED BY <2>2, DatasetFrame
<1> QED BY <1>1, <1>2

\* A create or a destroy goes on or ends.
LEMMA LifeGoesOn ==
    ASSUME HostInv, PlaceInv, PlaceInv', DatasetInv, NEW c \in Callers, Grows(obj, obj'), Moves(c),
           leaked \subseteq leaked', DatasetTypes(ds'), caller[c].op \in Life,
           NEW id \in IDs, caller[c].id = id, caller'[c].id \in {id, None},
           \A i \in IDs \ {id} : table'[i] = table[i] /\ ds'[i].there = ds[i].there,
           (Clean(id)' /\ CallFits(caller[c], table, obj, ds)) =>
               /\ caller'[c].id = id => CallFits(caller'[c], table', obj', ds')
               /\ \/ Held(id, table', obj', ds')
                  \/ caller'[c].id = id /\ caller'[c].op \in Life
               /\ table'[id] # 0 /\ obj'[table'[id]].state \in Serving => ds'[id].there
    PROVE  DatasetInv'
<1> SUFFICES ASSUME NEW i \in IDs, Clean(i)' PROVE DatasetAt(i)' BY DEF DatasetInv
<1>1. Clean(i) BY CleanBefore DEF Moves
<1>2. DatasetAt(i) BY <1>1 DEF DatasetInv
<1>3. None \notin IDs BY HostAssumption
<1>4. CASE i # id BY <1>2, <1>3, <1>4, DatasetElsewhere
<1>5. CASE i = id
  <2>1. CallFits(caller[c], table, obj, ds) BY <1>2, <1>5 DEF DatasetAt
  <2> QED BY <1>1, <1>5, <2>1, DatasetChange
<1> QED BY <1>4, <1>5

\* A create or a destroy begins: no other is at work on the ID, so that the
\* dataset, if it is there, is the table's session's.
LEMMA LifeBegins ==
    ASSUME HostInv, PlaceInv, PlaceInv', DatasetInv, NEW c \in Callers, Grows(obj, obj'), Moves(c),
           UNCHANGED <<ds, leaked>>, NEW id \in IDs, caller'[c].id = id, caller'[c].op \in Life,
           Note(c, caller'[c].op, id), caller[c].op \notin Life \/ caller[c].pc = "shut",
           \A i \in IDs \ {id} : table'[i] = table[i],
           Held(id, table, obj, ds) =>
               /\ CallFits(caller'[c], table', obj', ds')
               /\ table'[id] # 0 => obj'[table'[id]].state \notin Serving
    PROVE  DatasetInv'
<1>0. DatasetTypes(ds') BY DEF DatasetInv
<1> SUFFICES ASSUME NEW i \in IDs, Clean(i)' PROVE DatasetAt(i)' BY <1>0 DEF DatasetInv
<1>1. Clean(i) BY CleanBefore DEF Moves
<1>2. DatasetAt(i) BY <1>1 DEF DatasetInv
<1>4. CASE i # id BY <1>2, <1>4, DatasetElsewhere
<1>5. CASE i = id
  <2>1. Held(id, table, obj, ds)
    <3> SUFFICES ASSUME NEW d \in Callers, caller[d].id = id, caller[d].op \in Life
                 PROVE  Held(id, table, obj, ds)
        BY <1>2, <1>5 DEF DatasetAt
    <3>1. CASE d = c BY <1>2, <1>5, <3>1 DEF DatasetAt, CallFits
    <3>2. CASE d # c
      <4>1. caller[d].pc # "ready" BY DEF PlaceInv, Holds, Life
      <4>2. caller[d].op \notin Mild /\ caller'[c].op \notin Mild BY DEF Mild, Life
      <4>3. <<id, "life">> \in overlap' BY <3>2, <4>1, <4>2, NoteTells
      <4> QED BY <1>5, <4>3 DEF Clean
    <3> QED BY <3>1, <3>2
  <2> QED BY <1>1, <1>5, <2>1, DatasetChange
<1> QED BY <1>4, <1>5

LEMMA CreateDataset ==
    ASSUME HostInv, PlaceInv, PlaceInv', DatasetInv, NEW c \in Callers, Grows(obj, obj'), Moves(c),
           Create(c)
    PROVE  DatasetInv'
<1>0. /\ Holds(caller[c], obj) /\ IsCall(caller[c]) /\ DOMAIN caller = Callers
      /\ DOMAIN table = IDs /\ Sessions(obj)
      BY DEF PlaceInv, HostInv, CallsOK, TableOK
<1>1. ASSUME NEW id \in IDs, CreateSession(c, id) PROVE DatasetInv'
  <2> DEFINE e == Session(id, "creating", FALSE)
             k == [Ready EXCEPT !.pc = "clone", !.op = "create", !.id = id, !.o = 0]
  <2>1. /\ caller[c].pc = "ready" /\ Note(c, "create", id) /\ table[id] = 0
        /\ obj' = Append(obj, e) /\ table' = [table EXCEPT ![id] = Len(obj')]
        /\ UNCHANGED <<ds, leaked>>
        BY <1>1 DEF CreateSession, Begin
  <2>2. caller'[c] = k BY <1>0, <1>1 DEF CreateSession, Enter
  <2>3. k.pc = "clone" /\ k.op = "create" /\ k.id = id BY DEF Ready
  <2>4. IsSession(e) /\ e.tools = 0 /\ e.state = "creating"
        BY DEF Session, IsSession, SessionFields
  <2> HIDE DEF e, k
  <2>5. obj'[Len(obj')] = e BY <1>0, <2>1, <2>4, AppendGrows
  <2>6. table'[id] = Len(obj') /\ \A i \in IDs \ {id} : table'[i] = table[i] BY <1>0, <2>1
  <2>7. ASSUME Held(id, table, obj, ds)
        PROVE  /\ CallFits(caller'[c], table', obj', ds')
               /\ table'[id] # 0 => obj'[table'[id]].state \notin Serving
    <3>1. ~ds'[id].there BY <2>1, <2>7 DEF Held
    <3>2. obj'[table'[id]].state \notin Serving BY <2>4, <2>5, <2>6 DEF Serving
    <3> QED BY <2>2, <2>3, <3>1, <3>2 DEF CallFits, CreateOK, Destroys
  <2>8. caller[c].op \notin Life BY <1>0, <2>1 DEF Holds, Life
  <2> QED BY <2>1, <2>2, <2>3, <2>6, <2>7, <2>8, LifeBegins DEF Life
<1>b. PICK id : id = caller[c].id OBVIOUS
<1>a. DatasetTypes(ds) BY DEF DatasetInv
<1>2. CASE CloneFromSnapshot(c)
  <2>1. caller[c].pc = "clone" /\ caller[c].op = "create" /\ id \in IDs /\ obj' = obj
        BY <1>0, <1>b, <1>2 DEF CloneFromSnapshot, Holds, AtCreate
  <2>2. PICK took \in BOOLEAN, ok \in BOOLEAN :
            /\ ok => took
            /\ ds' = IF took THEN [ds EXCEPT ![id] = [there |-> TRUE, snaps |-> <<>>]] ELSE ds
            /\ leaked' = IF took /\ ~ok THEN leaked \cup {id} ELSE leaked
            /\ table' = IF ok THEN table ELSE [table EXCEPT ![id] = 0]
            /\ IF ok THEN Goto(c, "props") ELSE Return(c)
        BY <1>b, <1>2 DEF CloneFromSnapshot, ZFS
  <2>3. DatasetTypes(ds') BY <1>a, <2>2 DEF DatasetTypes
  <2>4. \A i \in IDs \ {id} : table'[i] = table[i] /\ ds'[i].there = ds[i].there
        BY <1>0, <1>a, <2>1, <2>2 DEF DatasetTypes
  <2>5. CASE ok
    <3>1. caller'[c].pc = "props" /\ caller'[c].op = "create" /\ caller'[c].id = id
          BY <2>1, <2>2, <2>5, <1>b, GotoAt
    <3>2. table' = table /\ ds'[id].there /\ leaked' = leaked
          BY <1>a, <2>1, <2>2, <2>5 DEF DatasetTypes
    <3>3. CallFits(caller[c], table, obj, ds) => CallFits(caller'[c], table', obj', ds')
          BY <1>b, <2>1, <3>1, <3>2 DEF CallFits, CreateOK, Destroys
    <3>4. caller'[c].op \in Life /\ caller[c].op \in Life BY <2>1, <3>1 DEF Life
    <3> QED BY <2>1, <2>3, <2>4, <3>1, <3>2, <3>3, <3>4, <1>b, LifeGoesOn
  <2>6. CASE ~ok
    <3>1. caller'[c].id = None BY <2>1, <2>2, <2>6, ReturnAt DEF Ready
    <3>2. leaked \subseteq leaked' /\ table'[id] = 0 BY <1>0, <2>1, <2>2, <2>6
    <3>3. Clean(id)' => ds' = ds BY <2>2, <2>6 DEF Clean
    <3>4. (CallFits(caller[c], table, obj, ds) /\ ds' = ds) => Held(id, table', obj', ds')
          BY <1>b, <2>1 DEF CallFits, CreateOK, Held
    <3>5. None \notin IDs /\ caller[c].op \in Life BY <2>1, HostAssumption DEF Life
    <3> QED BY <2>1, <2>3, <2>4, <3>1, <3>2, <3>3, <3>4, <3>5, <1>b, LifeGoesOn
  <2> QED BY <2>5, <2>6
<1>3. CASE SetProperties(c)
  <2>1. /\ caller[c].pc = "props" /\ caller[c].op = "create" /\ id \in IDs
        /\ UNCHANGED <<table, obj, ds, leaked>>
        BY <1>0, <1>b, <1>3 DEF SetProperties, Holds, AtCreate
  <2>2. PICK pc \in {"store", "undo"} : Goto(c, pc) /\ (pc = "store" => ds[id].there)
        BY <1>b, <1>3 DEF SetProperties, ZFS
  <2>3. caller'[c].pc = pc /\ caller'[c].op = "create" /\ caller'[c].id = id
        BY <2>1, <2>2, <1>b, GotoAt
  <2>4. CallFits(caller[c], table, obj, ds) => CallFits(caller'[c], table', obj', ds')
        BY <1>b, <2>1, <2>2, <2>3 DEF CallFits, CreateOK, Destroys
  <2>5. CallFits(caller[c], table, obj, ds) =>
            (table[id] # 0 => obj[table[id]].state \notin Serving)
        BY <1>b, <2>1 DEF CallFits, CreateOK
  <2>6. caller'[c].op \in Life /\ caller[c].op \in Life BY <2>1, <2>3 DEF Life
  <2> QED BY <1>a, <2>1, <2>3, <2>4, <2>5, <2>6, <1>b, LifeGoesOn
<1>4. CASE UndoClone(c)
  <2>1. /\ caller[c].pc = "undo" /\ caller[c].op = "create" /\ id \in IDs
        /\ UNCHANGED <<table, obj>> /\ Goto(c, "drop")
        BY <1>0, <1>b, <1>4 DEF UndoClone, Holds, AtCreate
  <2>2. PICK took \in BOOLEAN :
            /\ ds' = IF took THEN [ds EXCEPT ![id] = Absent] ELSE ds
            /\ leaked' = IF ds[id].there /\ ~took THEN leaked \cup {id} ELSE leaked
        BY <1>b, <1>4 DEF UndoClone, DestroyDataset
  <2>3. /\ DatasetTypes(ds') /\ leaked \subseteq leaked'
        /\ \A i \in IDs \ {id} : ds'[i].there = ds[i].there
        /\ Clean(id)' => ~ds'[id].there
        BY <1>a, <2>1, <2>2 DEF DatasetTypes, Absent, Clean
  <2>4. caller'[c].pc = "drop" /\ caller'[c].op = "create" /\ caller'[c].id = id
        BY <2>1, <1>b, GotoAt
  <2>5. (CallFits(caller[c], table, obj, ds) /\ ~ds'[id].there) => CallFits(caller'[c], table', obj', ds')
        BY <1>b, <2>1, <2>4 DEF CallFits, CreateOK, Destroys
  <2>6. CallFits(caller[c], table, obj, ds) =>
            (table[id] # 0 => obj[table[id]].state \notin Serving)
        BY <1>b, <2>1 DEF CallFits, CreateOK
  <2>7. caller'[c].op \in Life /\ caller[c].op \in Life BY <2>1, <2>4 DEF Life
  <2> QED BY <2>1, <2>3, <2>4, <2>5, <2>6, <2>7, <1>b, LifeGoesOn
<1>5. CASE DropPlaceholder(c)
  <2>1. /\ caller[c].pc = "drop" /\ caller[c].op = "create" /\ id \in IDs
        /\ UNCHANGED <<ds, leaked>> /\ Return(c) /\ table' = [table EXCEPT ![id] = 0]
        BY <1>0, <1>b, <1>5 DEF DropPlaceholder, Delete, Holds, AtCreate
  <2>2. caller'[c].id = None BY <2>1, ReturnAt DEF Ready
  <2>3. table'[id] = 0 /\ \A i \in IDs \ {id} : table'[i] = table[i] BY <1>0, <2>1
  <2>4. CallFits(caller[c], table, obj, ds) => Held(id, table', obj', ds')
        BY <1>b, <2>1 DEF CallFits, CreateOK, Held
  <2>5. None \notin IDs /\ caller[c].op \in Life BY <2>1, HostAssumption DEF Life
  <2> QED BY <1>a, <2>1, <2>2, <2>3, <2>4, <2>5, <1>b, LifeGoesOn
<1>6. CASE StoreSession(c)
  <2> DEFINE e == Session(id, "active", TRUE)
  <2>1. /\ caller[c].pc = "store" /\ caller[c].op = "create" /\ id \in IDs
        /\ UNCHANGED <<ds, leaked>> /\ Return(c)
        /\ obj' = Append(obj, e) /\ table' = [table EXCEPT ![id] = Len(obj')]
        BY <1>0, <1>b, <1>6 DEF StoreSession, Holds, AtCreate
  <2>2. IsSession(e) /\ e.tools = 0 /\ e.dataset
        BY DEF Session, IsSession, SessionFields
  <2> HIDE DEF e
  <2>3. obj'[Len(obj')] = e /\ Len(obj') # 0 BY <1>0, <2>1, <2>2, AppendGrows
  <2>4. table'[id] = Len(obj') /\ \A i \in IDs \ {id} : table'[i] = table[i] BY <1>0, <2>1
  <2>5. caller'[c].id = None BY <2>1, ReturnAt DEF Ready
  <2>6. Held(id, table', obj', ds') BY <2>2, <2>3, <2>4 DEF Held
  <2>7. CallFits(caller[c], table, obj, ds) => ds'[id].there BY <1>b, <2>1 DEF CallFits, CreateOK
  <2>8. None \notin IDs /\ caller[c].op \in Life BY <2>1, HostAssumption DEF Life
  <2> QED BY <1>a, <2>1, <2>4, <2>5, <2>6, <2>7, <2>8, <1>b, LifeGoesOn
<1> QED BY <1>1, <1>2, <1>3, <1>4, <1>5, <1>6 DEF Create

LEMMA DestroyDataset1 ==
    ASSUME HostInv, PlaceInv, PlaceInv', DatasetInv, NEW c \in Callers, Grows(obj, obj'), Moves(c),
           UNCHANGED <<table, ds, leaked>>, NEW id \in IDs, table[id] # 0,
           NEW op \in Destroys, NEW todo, DestroyObject(c, id, op, todo), Note(c, op, id),
           caller[c].op \notin Life \/ caller[c].pc = "shut"
    PROVE  DatasetInv'
<1> DEFINE o == table[id]
           k == [Ready EXCEPT !.pc = "drain", !.op = op, !.id = id, !.o = o, !.todo = todo]
           e == [obj[o] EXCEPT !.state = "destroying"]
<1>1. caller'[c] = k /\ obj' = [obj EXCEPT ![o] = e]
      BY DEF DestroyObject, Set, HostInv, CallsOK
<1>2. k.pc = "drain" /\ k.op = op /\ k.id = id /\ k.o = o BY DEF Ready
<1>3. o \in DOMAIN obj BY DEF HostInv, TableOK
<1>4. e.state = "destroying" BY <1>3 DEF HostInv, Sessions, IsSession, SessionFields
<1> HIDE DEF e, k
<1>5. obj'[o].state \notin Serving BY <1>1, <1>3, <1>4 DEF Serving
<1>6. Held(id, table, obj, ds) => Held(id, table', obj', ds') BY HeldOn
<1>7. Held(id, table, obj, ds) => CallFits(caller'[c], table', obj', ds')
      BY <1>1, <1>2, <1>5, <1>6 DEF CallFits, DestroyOK, Destroys
<1>8. caller'[c].op = op /\ op \in Life /\ caller'[c].id = id BY <1>1, <1>2 DEF Life, Destroys
<1> QED BY <1>5, <1>7, <1>8, LifeBegins

\* A destroy's step that leaves the table, the datasets and their flags alone.
LEMMA DestroyGoesOn ==
    ASSUME HostInv, PlaceInv, PlaceInv', DatasetInv, NEW c \in Callers, Grows(obj, obj'), Moves(c),
           leaked \subseteq leaked', UNCHANGED <<table, ds>>,
           caller[c].op \in Destroys, NEW pc, caller[c].pc = pc, pc \in AtDestroy \cup {"drain"},
           NEW id \in IDs, caller[c].id = id,
           \/ Return(c) /\ pc = "drain"
           \/ /\ caller[c].pc \in {"drain", "kill", "clear"}
              /\ \E to \in AtDestroy : Goto(c, to) /\ (to = "delete" => ~obj[caller[c].o].dataset)
    PROVE  DatasetInv'
<1>0. /\ Holds(caller[c], obj) /\ DatasetTypes(ds') /\ pc # "shut"
      BY DEF PlaceInv, DatasetInv, AtDestroy
<1>1. /\ caller[c].o \in DOMAIN obj /\ caller[c].op \in Life
      /\ obj'[caller[c].o].state \in Serving => obj[caller[c].o].state \in Serving
      BY <1>0 DEF Holds, Destroys, Life, Grows, Follows
<1>2. ASSUME CallFits(caller[c], table, obj, ds)
      PROVE  /\ table[id] = caller[c].o /\ obj[caller[c].o].state \notin Serving
             /\ caller[c].pc \in {"drain", "kill", "clear"} => Held(id, table', obj', ds')
      BY <1>0, <1>2, HeldOn DEF CallFits, DestroyOK
<1>3. CASE Return(c) /\ pc = "drain"
  <2>1. CASE caller'[c] = Ready
    <3>1. caller'[c].id = None /\ None \notin IDs BY <2>1, HostAssumption DEF Ready
    <3> QED BY <1>0, <1>1, <1>2, <1>3, <3>1, LifeGoesOn
  <2>2. CASE caller'[c].op = "shutdown" /\ caller'[c].pc = "shut" /\ caller'[c].id = caller[c].id
    <3>1. ASSUME CallFits(caller[c], table, obj, ds) PROVE CallFits(caller'[c], table', obj', ds')
          BY <1>2, <1>3, <2>2, <3>1 DEF CallFits, Destroys
    <3> QED BY <1>0, <1>1, <1>2, <1>3, <2>2, <3>1, LifeGoesOn
  <2> QED BY <1>3, <2>1, <2>2, ReturnAt
<1>4. ASSUME NEW to \in AtDestroy, Goto(c, to),
             caller[c].pc \in {"drain", "kill", "clear"}, to = "delete" => ~obj[caller[c].o].dataset
      PROVE  DatasetInv'
  <2>1. /\ caller'[c].pc = to /\ caller'[c].op = caller[c].op /\ caller'[c].id = id
        /\ caller'[c].o = caller[c].o
        BY <1>4, GotoAt
  <2>2. ASSUME CallFits(caller[c], table, obj, ds) PROVE CallFits(caller'[c], table', obj', ds')
    <3>1. to = "delete" => ~ds'[id].there
          BY <1>1, <1>2, <1>4, <2>2 DEF Held, Grows, Follows
    <3>2. DestroyOK(caller'[c], table', obj', ds')
          BY <1>1, <1>2, <1>4, <2>1, <2>2, <3>1 DEF DestroyOK
    <3> QED BY <1>4, <2>1, <3>2 DEF CallFits, Destroys, AtDestroy
  <2>3. caller'[c].op \in Life BY <1>1, <2>1
  <2> QED BY <1>0, <1>1, <1>2, <2>1, <2>2, <2>3, LifeGoesOn
<1> QED BY <1>3, <1>4

LEMMA DestroyDatasets ==
    ASSUME HostInv, PlaceInv, PlaceInv', DatasetInv, NEW c \in Callers, Grows(obj, obj'), Moves(c),
           Destroy(c)
    PROVE  DatasetInv'
<1>0. /\ Holds(caller[c], obj) /\ IsCall(caller[c]) /\ DOMAIN caller = Callers
      /\ DOMAIN table = IDs /\ Sessions(obj)
      BY DEF PlaceInv, HostInv, CallsOK, TableOK
<1>a. DatasetTypes(ds) /\ None \notin IDs BY HostAssumption DEF DatasetInv
<1>b. PICK id : id = caller[c].id OBVIOUS
<1>c. caller[c].pc \in AtDestroy => caller[c].op \in Destroys /\ id \in IDs
      BY <1>0, <1>b DEF Holds, AtDestroy
<1>1. ASSUME NEW i \in IDs, DestroySession(c, i) PROVE DatasetInv'
  <2>1. /\ UNCHANGED <<table, ds, leaked>> /\ table[i] # 0
        /\ DestroyObject(c, i, "destroy", {}) /\ Note(c, "destroy", i) /\ caller[c].pc = "ready"
        BY <1>1 DEF DestroySession, Begin
  <2>2. caller[c].op \notin Life /\ "destroy" \in Destroys BY <1>0, <2>1 DEF Holds, Life, Destroys
  <2> QED BY <2>1, <2>2, DestroyDataset1
<1>2. CASE DestroyDrained(c)
  <2>1. /\ caller[c].op \in Destroys /\ caller[c].pc = "drain" /\ UNCHANGED <<table, ds, leaked>>
        /\ Goto(c, "kill") \/ Return(c)
        BY <1>2 DEF DestroyDrained, Destroys
  <2>2. id \in IDs BY <1>0, <1>b, <2>1 DEF Holds
  <2>3. "kill" \in AtDestroy BY DEF AtDestroy
  <2>4. CASE Return(c) BY <1>b, <2>1, <2>2, <2>4, DestroyGoesOn
  <2>5. CASE Goto(c, "kill") BY <1>b, <2>1, <2>2, <2>3, <2>5, DestroyGoesOn
  <2> QED BY <2>1, <2>4, <2>5
<1>3. CASE KillProcesses(c)
  <2>1. /\ caller[c].pc = "kill" /\ UNCHANGED <<table, ds>> /\ leaked \subseteq leaked'
        /\ Goto(c, "clear")
        BY <1>3 DEF KillProcesses
  <2> QED BY <1>b, <1>c, <2>1, DestroyGoesOn DEF AtDestroy
<1>4. CASE ClearProcesses(c)
  <2>0. /\ caller[c].pc = "clear" /\ UNCHANGED <<table, ds, leaked>>
        /\ \E to : /\ to = (IF obj[caller[c].o].dataset THEN "zdestroy" ELSE "delete")
                   /\ Goto(c, to)
        BY <1>4, Zenon DEF ClearProcesses
  <2>1. PICK to \in {"zdestroy", "delete"} :
            Goto(c, to) /\ (to = "delete" => ~obj[caller[c].o].dataset)
        BY <2>0
  <2> QED BY <1>b, <1>c, <2>0, <2>1, DestroyGoesOn DEF AtDestroy
<1>5. CASE DestroySessionDataset(c)
  <2>1. /\ caller[c].pc = "zdestroy" /\ UNCHANGED <<table, obj>> /\ Goto(c, "delete")
        BY <1>5 DEF DestroySessionDataset
  <2>2. PICK took \in BOOLEAN :
            /\ ds' = IF took THEN [ds EXCEPT ![id] = Absent] ELSE ds
            /\ leaked' = IF ds[id].there /\ ~took THEN leaked \cup {id} ELSE leaked
        BY <1>b, <1>5 DEF DestroySessionDataset, DestroyDataset
  <2>c. caller[c].op \in Destroys /\ id \in IDs BY <1>c, <2>1 DEF AtDestroy
  <2>3. /\ DatasetTypes(ds') /\ leaked \subseteq leaked'
        /\ \A i \in IDs \ {id} : ds'[i].there = ds[i].there
        /\ Clean(id)' => ~ds'[id].there
        BY <1>a, <2>c, <2>2 DEF DatasetTypes, Absent, Clean
  <2>4. /\ caller'[c].pc = "delete" /\ caller'[c].op = caller[c].op /\ caller'[c].id = id
        /\ caller'[c].o = caller[c].o
        BY <1>b, <2>1, GotoAt
  <2>5. (CallFits(caller[c], table, obj, ds) /\ ~ds'[id].there) => CallFits(caller'[c], table', obj', ds')
        BY <1>b, <2>1, <2>c, <2>4 DEF CallFits, DestroyOK, Destroys
  <2>6. CallFits(caller[c], table, obj, ds) => obj[table[id]].state \notin Serving
        BY <1>b, <2>1, <2>c DEF CallFits, DestroyOK
  <2>7. caller'[c].op \in Life /\ caller[c].op \in Life BY <2>c, <2>4 DEF Life, Destroys
  <2> QED BY <1>b, <2>1, <2>3, <2>4, <2>5, <2>6, <2>7, <2>c, LifeGoesOn
<1>6. CASE DeleteSession(c)
  <2>1. /\ caller[c].pc = "delete" /\ UNCHANGED <<ds, leaked>> /\ Return(c)
        /\ table' = [table EXCEPT ![id] = 0]
        BY <1>b, <1>6 DEF DeleteSession, Delete
  <2>c. caller[c].op \in Destroys /\ id \in IDs BY <1>c, <2>1 DEF AtDestroy
  <2>2. \/ caller'[c].id = None
        \/ caller'[c].id = id /\ caller'[c].pc = "shut" /\ caller'[c].op = "shutdown"
        BY <1>b, <2>1, ReturnAt DEF Ready
  <2>3. table'[id] = 0 /\ \A i \in IDs \ {id} : table'[i] = table[i] BY <1>0, <2>1, <2>c
  <2>4. CallFits(caller[c], table, obj, ds) => Held(id, table', obj', ds')
        BY <1>b, <2>1, <2>c DEF CallFits, DestroyOK, Held
  <2>5. Held(id, table', obj', ds') /\ caller'[c].id = id => CallFits(caller'[c], table', obj', ds')
        BY <1>a, <2>2, <2>c DEF CallFits, Destroys
  <2>6. caller[c].op \in Life BY <2>c DEF Life, Destroys
  <2>7. caller'[c].id \in {id, None} BY <2>2
  <2> QED BY <1>a, <1>b, <2>1, <2>3, <2>4, <2>5, <2>6, <2>7, <2>c, LifeGoesOn
\* What is left changes no dataset, no entry and no session.
<1>d. ASSUME UNCHANGED <<table, obj, ds, leaked>>,
             caller[c].op \notin Life \/ caller[c].pc = "shut",
             caller'[c].id \notin IDs \/ (/\ caller'[c].id = caller[c].id /\ caller[c].pc = "shut"
                                          /\ caller'[c].op = "shutdown" /\ caller'[c].pc = "shut")
      PROVE  DatasetInv'
  <2> SUFFICES ASSUME NEW i \in IDs, Clean(i)' PROVE DatasetAt(i)' BY <1>a, <1>d DEF DatasetInv
  <2>1. Clean(i) BY <1>d, CleanBefore DEF Moves
  <2>2. DatasetAt(i) BY <2>1 DEF DatasetInv
  <2>3. CASE caller'[c].id # i BY <1>d, <2>2, <2>3, DatasetElsewhere
  <2>4. CASE caller'[c].id = i
    <3>1. Held(i, table, obj, ds) BY <1>d, <2>2, <2>4 DEF DatasetAt, CallFits
    <3>2. CallFits(caller'[c], table', obj', ds') BY <1>d, <2>4, <3>1 DEF CallFits, Destroys
    <3>3. Held(i, table', obj', ds') BY <1>d, <3>1
    <3> QED BY <1>d, <2>2, <3>2, <3>3, DatasetFrame
  <2> QED BY <2>3, <2>4
<1>7. CASE Shutdown(c)
  <2> DEFINE todo == {i \in IDs : table[i] # 0}
  <2>1. /\ UNCHANGED <<table, obj, ds, leaked>> /\ caller[c].pc = "ready"
        /\ caller' = [caller EXCEPT ![c] = [Ready EXCEPT !.pc = "shut", !.op = "shutdown",
                                                         !.todo = todo]]
        BY <1>7 DEF Shutdown
  <2> HIDE DEF todo
  <2>2. caller'[c].id = None BY <1>0, <2>1 DEF Ready
  <2>3. caller[c].op \notin Life BY <1>0, <2>1 DEF Holds, Life
  <2> QED BY <1>a, <1>d, <2>1, <2>2, <2>3
<1>8. CASE ShutdownNext(c)
  <2>0. caller[c].pc = "shut" /\ UNCHANGED <<table, ds, leaked>> /\ "shutdown" \in Destroys
        BY <1>8 DEF ShutdownNext, Destroys
  <2>1. PICK i \in caller[c].todo :
            \/ /\ table[i] # 0 /\ Note(c, "shutdown", i)
               /\ DestroyObject(c, i, "shutdown", caller[c].todo \ {i})
            \/ /\ caller' = [caller EXCEPT ![c].todo = @ \ {i}]
               /\ UNCHANGED <<obj, overlap>>
        BY <1>8 DEF ShutdownNext
  <2>2. i \in IDs /\ caller[c].op = "shutdown"
        BY <1>0, <2>0 DEF Holds, Destroys
  <2>3. CASE table[i] # 0 /\ Note(c, "shutdown", i) /\ DestroyObject(c, i, "shutdown", caller[c].todo \ {i})
        BY <2>0, <2>2, <2>3, DestroyDataset1
  <2>4. CASE caller' = [caller EXCEPT ![c].todo = @ \ {i}] /\ UNCHANGED <<obj, overlap>>
    <3>1. /\ caller'[c].id = caller[c].id /\ caller'[c].op = caller[c].op
          /\ caller'[c].pc = caller[c].pc
          BY <1>0, <2>4 DEF IsCall, CallFields
    <3> QED BY <1>d, <2>0, <2>2, <2>4, <3>1
  <2> QED BY <2>1, <2>3, <2>4
<1>9. CASE CloseGVisor(c)
  <2>1. /\ UNCHANGED <<table, obj, ds, leaked>> /\ caller[c].pc = "shut"
        BY <1>9 DEF CloseGVisor
  <2>2. caller'[c].id = None BY <1>0, <1>9 DEF CloseGVisor, Ready
  <2> QED BY <1>a, <1>d, <2>1, <2>2
<1> QED BY <1>1, <1>2, <1>3, <1>4, <1>5, <1>6, <1>7, <1>8, <1>9 DEF Destroy

LEMMA DatasetStep == HostInv /\ PlaceInv /\ DatasetInv /\ [Next]_vars => DatasetInv'
<1> SUFFICES ASSUME HostInv, PlaceInv, DatasetInv, [Next]_vars PROVE DatasetInv' OBVIOUS
<1>0. Grows(obj, obj') /\ PlaceInv' BY StepHolds, PlaceStep DEF Outcome
<1>1. ASSUME NEW c \in Callers, ByCall(c) PROVE DatasetInv'
  <2>1. Moves(c) BY <1>0, <1>1, CallsMove
  <2> QED BY <1>0, <1>1, <2>1, CreateDataset, DestroyDatasets, SnapshotDataset, OthersDataset DEF ByCall
<1>2. ASSUME UNCHANGED <<table, obj, caller, overlap, leaked, ds>> PROVE DatasetInv'
      BY <1>2 DEF DatasetInv, DatasetAt, Clean
<1>3. CASE ByRun BY <1>2, <1>3, RunsKeep
<1>4. CASE UNCHANGED vars BY <1>2, <1>4 DEF vars
<1> QED BY <1>1, <1>3, <1>4 DEF Next, ByCall, ByRun

LEMMA DatasetInit == Init => DatasetInv
<1> SUFFICES ASSUME Init PROVE DatasetInv OBVIOUS
<1>1. DatasetTypes(ds) /\ \A i \in IDs : ~ds[i].there /\ table[i] = 0
      BY DEF Init, DatasetTypes, Absent
<1>2. \A c \in Callers : caller[c].id \notin IDs BY HostAssumption DEF Init, Ready
<1> QED BY <1>1, <1>2 DEF DatasetInv, DatasetAt, Held

LEMMA DatasetInductive == Spec => []DatasetInv
BY DatasetInit, DatasetStep, PlaceInductive, Inductive, PTL DEF Spec

LEMMA DatasetsHaveOwners == PlaceInv /\ DatasetInv => DatasetsOwned
<1> SUFFICES ASSUME PlaceInv, DatasetInv, NEW i \in IDs, Clean(i)
             PROVE  /\ ds[i].there =>
                          \/ table[i] # 0 /\ obj[table[i]].dataset
                          \/ \E c \in InFlight(i) : caller[c].op \in {"create", "destroy", "shutdown"}
                    /\ table[i] # 0 /\ obj[table[i]].state \in {"active", "paused"} => ds[i].there
    BY DEF DatasetsOwned
<1>1. DatasetAt(i) BY DEF DatasetInv
<1>2. ASSUME NEW c \in Callers, caller[c].id = i, caller[c].op \in Life
      PROVE  c \in InFlight(i)
  <2>1. caller[c].pc # "ready" BY <1>2 DEF PlaceInv, Holds, Life
  <2> QED BY <1>2, <2>1 DEF InFlight
<1>3. CASE Held(i, table, obj, ds) BY <1>1, <1>3 DEF DatasetAt, Held, Serving
<1>4. CASE \E c \in Callers : caller[c].id = i /\ caller[c].op \in Life
      BY <1>1, <1>2, <1>4 DEF DatasetAt, Life, Serving
<1> QED BY <1>1, <1>3, <1>4 DEF DatasetAt

----------------------------------------------------------------------------
(* Processes *)

ProcFields == {"status", "o", "handle", "cancelled"}

Going == {"starting", "running"}

\* An entry, its handle and its container's run.
EntryOK(p) ==
    /\ DOMAIN proc[p] = ProcFields /\ proc[p].cancelled \in BOOLEAN
    /\ proc[p].status \in Going \cup {"unused", "exited"}
    /\ proc[p].handle \in {"none", "cmd", "cancel"}
    /\ proc[p].status # "unused" => proc[p].o \in DOMAIN obj
    /\ proc[p].status \in {"unused", "starting"} => proc[p].handle = "none"
    /\ proc[p].status = "running" => proc[p].handle # "none"
    /\ p \in alive => proc[p].status \in Going
    /\ p \in alive /\ proc[p].handle = "none" => runtime = "none"
    /\ p \in alive /\ proc[p].handle = "cancel" => job[p] = "active"
    /\ job[p] # "idle" => proc[p].handle = "cancel" /\ proc[p].status = "running"

Launched(p) == \E c \in Callers : caller[c].op = "launch" /\ caller[c].p = p

LaunchOK(c) ==
    /\ proc[caller[c].p].status = "starting" /\ proc[caller[c].p].o = caller[c].o
    /\ caller[c].pc = "start" => caller[c].p \notin alive

\* The entries on their own: whose they are, and which call makes them.
RunInv ==
    /\ DOMAIN proc = Procs /\ DOMAIN job = Jobs
    /\ \A p \in Procs : EntryOK(p) /\ (proc[p].status = "starting" => Launched(p))
    /\ \A o \in DOMAIN obj : \A p \in obj[o].procs :
           p \in Procs /\ proc[p].status # "unused" /\ proc[p].o = o
    /\ \A c \in Callers : caller[c].op = "launch" => LaunchOK(c)
    /\ \A c, d \in Callers :
           c # d /\ caller[c].op = "launch" /\ caller[d].op = "launch" => caller[c].p # caller[d].p

\* A process that will not run any more, or was told to end.
Quelled(p) ==
    \/ proc[p].cancelled
    \/ p \notin alive /\ (proc[p].handle = "cmd" \/ proc[p].status = "exited")

Listed(i, p) == table[i] = proc[p].o /\ p \in obj[proc[p].o].procs

\* What a call on the ID i knows of the session's processes.
CallerAt(i, c) ==
    /\ caller[c].op = "launch" => table[i] = caller[c].o /\ caller[c].p \in obj[caller[c].o].procs
    /\ caller[c].op = "create" /\ table[i] # 0 => obj[table[i]].procs = {}
    /\ caller[c].pc = "clear" => \A p \in obj[caller[c].o].procs : Quelled(p)
    /\ caller[c].pc \in {"zdestroy", "delete"} => obj[caller[c].o].procs = {}

\* A process that may still run is listed, launched or told to end.
ProcsAt(i) ==
    /\ \A c \in Callers : caller[c].id = i => CallerAt(i, c)
    /\ \A p \in Procs : proc[p].status \in Going /\ obj[proc[p].o].id = i =>
           Listed(i, p) \/ Quelled(p) \/ Launched(p)

ProcessInv == \A i \in IDs : Clean(i) => ProcsAt(i)

\* A step leaves the lists of processes alone; a new session has none.
SameLists ==
    \A o \in DOMAIN obj' : obj'[o].procs = (IF o \in DOMAIN obj THEN obj[o].procs ELSE {})

\* Entries are left alone or cancelled, and nothing begins to run.
Tamer ==
    /\ DOMAIN proc' = Procs /\ DOMAIN job' = Jobs /\ runtime' = runtime
    /\ \A p \in Procs :
           /\ DOMAIN proc'[p] = ProcFields /\ proc'[p].cancelled \in BOOLEAN
           /\ proc'[p].status = proc[p].status /\ proc'[p].o = proc[p].o
           /\ proc'[p].handle = proc[p].handle
           /\ proc[p].cancelled => proc'[p].cancelled
           /\ job'[p] = job[p]
           /\ p \in alive' => p \in alive

NoLaunch(c) == caller[c].op # "launch" /\ caller'[c].op # "launch"

LEMMA SetLists ==
    ASSUME HostInv, NEW o, NEW e, Set(o, e), o \in DOMAIN obj => e.procs = obj[o].procs
    PROVE  SameLists
BY DEF Set, SameLists

LEMMA SessionKeeps ==
    ASSUME NEW s, IsSession(s), NEW x, NEW y
    PROVE  /\ [s EXCEPT !.state = x].procs = s.procs
           /\ [s EXCEPT !.tools = x].procs = s.procs
           /\ [s EXCEPT !.rolling = x].procs = s.procs
           /\ [s EXCEPT !.snaps = x].procs = s.procs
           /\ [s EXCEPT !.snaps = x, !.turn = y].procs = s.procs
           /\ [s EXCEPT !.rolling = FALSE, !.state = x].procs = s.procs
           /\ [s EXCEPT !.rolling = FALSE, !.snaps = x, !.turn = y].procs = s.procs
BY DEF IsSession, SessionFields

LEMMA AppendLists ==
    ASSUME HostInv, NEW id, NEW st, NEW b, obj' = Append(obj, Session(id, st, b))
    PROVE  SameLists
<1> DEFINE e == Session(id, st, b)
<1>1. IsSession(e) /\ e.tools = 0 /\ e.procs = {} BY DEF Session, IsSession, SessionFields
<1> HIDE DEF e
<1>2. /\ Grows(obj, obj') /\ DOMAIN obj = 1..Len(obj) /\ Len(obj) \in Nat
      /\ obj'[Len(obj) + 1] = e
      BY <1>1, AppendGrows DEF HostInv, e
<1>3. /\ DOMAIN obj' = 1..(Len(obj) + 1) /\ \A o \in 1..Len(obj) : obj'[o] = obj[o]
  <2> DEFINE S == {obj[i] : i \in DOMAIN obj} \cup {e}
  <2>1. obj \in Seq({obj[i] : i \in DOMAIN obj}) BY DEF HostInv, Sessions
  <2>2. obj \in Seq(S) BY <2>1
  <2> HIDE DEF S
  <2>3. e \in S BY DEF S
  <2> QED BY <2>2, <2>3 DEF e
<1>4. \A o \in DOMAIN obj' : o \in DOMAIN obj \/ (o \notin DOMAIN obj /\ o = Len(obj) + 1) BY <1>2, <1>3
<1>5. ASSUME NEW o \in DOMAIN obj', o \in DOMAIN obj PROVE obj'[o].procs = obj[o].procs
      BY <1>2, <1>3, <1>5
<1>6. obj'[Len(obj) + 1].procs = {} BY <1>1, <1>2
<1> QED BY <1>4, <1>5, <1>6 DEF SameLists

LEMMA StillLists ==
    ASSUME obj' = obj
    PROVE  SameLists
BY DEF SameLists

LEMMA StillTamer ==
    ASSUME RunInv, UNCHANGED <<proc, job, runtime>>, \A p \in Procs : p \in alive' => p \in alive
    PROVE  Tamer
BY DEF RunInv, EntryOK, Tamer

LEMMA CreateTame ==
    ASSUME HostInv, PlaceInv, RunInv, NEW c \in Callers, Create(c)
    PROVE  SameLists /\ Tamer /\ NoLaunch(c)
<1>0. Holds(caller[c], obj) /\ DOMAIN caller = Callers BY DEF PlaceInv, HostInv, CallsOK
<1>1. UNCHANGED <<proc, job, alive, runtime>>
      BY DEF Create, CreateSession, CloneFromSnapshot, SetProperties, UndoClone, DropPlaceholder,
             StoreSession, config
<1>2. Tamer BY <1>1, StillTamer
<1>3. SameLists
  <2>1. \/ \E id, st, b : obj' = Append(obj, Session(id, st, b))
        \/ obj' = obj
        BY DEF Create, CreateSession, CloneFromSnapshot, SetProperties, UndoClone, DropPlaceholder,
               StoreSession
  <2> QED BY <2>1, AppendLists, StillLists
<1>4. caller[c].op # "launch"
  <2>1. caller[c].pc \in {"ready", "clone", "props", "undo", "drop", "store"}
        BY DEF Create, CreateSession, CloneFromSnapshot, SetProperties, UndoClone, DropPlaceholder,
               StoreSession, Begin
  <2> QED BY <1>0, <2>1 DEF Holds
<1>5. caller'[c].op # "launch"
  <2>1. ASSUME NEW id \in IDs, CreateSession(c, id) PROVE caller'[c].op # "launch"
        BY <1>0, <2>1 DEF CreateSession, Enter, Ready
  <2>2. CASE ~\E id \in IDs : CreateSession(c, id)
    <3>1. (\E pc : Goto(c, pc)) \/ Return(c)
          BY <2>2 DEF Create, CloneFromSnapshot, SetProperties, UndoClone, DropPlaceholder,
                      StoreSession
    <3> QED BY <1>4, <3>1, StaysQuiet
  <2> QED BY <2>1, <2>2
<1> QED BY <1>2, <1>3, <1>4, <1>5 DEF NoLaunch

LEMMA PauseTame ==
    ASSUME HostInv, PlaceInv, RunInv, NEW c \in Callers, Pause(c)
    PROVE  SameLists /\ Tamer /\ NoLaunch(c)
<1>1. UNCHANGED <<proc, job, alive, runtime>>
      BY DEF Pause, PauseSession, ResumeSession, PauseDrained, SetPaused, config
<1>2. Tamer BY <1>1, StillTamer
<1>3. SameLists
  <2>1. \A o \in DOMAIN obj : IsSession(obj[o]) BY DEF HostInv, Sessions
  <2>2. \/ obj' = obj
        \/ \E o, st : Set(o, [obj[o] EXCEPT !.state = st])
        \/ \E o : Set(o, obj[o])
        BY DEF Pause, PauseSession, ResumeSession, PauseDrained, SetPaused
  <2> QED BY <2>1, <2>2, SetLists, SessionKeeps, StillLists
<1> QED BY <1>2, <1>3, PauseQuiet DEF NoLaunch, Weighty

LEMMA ToolTame ==
    ASSUME HostInv, PlaceInv, RunInv, NEW c \in Callers, Tool(c)
    PROVE  SameLists /\ Tamer /\ NoLaunch(c)
<1>1. UNCHANGED <<proc, alive, runtime>> /\ (job' = job \/ job' = [job EXCEPT ![c] = "idle"])
      BY DEF Tool, ExecuteTool, ToolAnswers, ToolReturns, config
<1>2. Tamer
  <2>1. c \notin Procs BY HostAssumption
  <2>2. DOMAIN job' = Jobs /\ \A p \in Procs : job'[p] = job[p] BY <1>1, <2>1 DEF RunInv, Jobs
  <2> QED BY <1>1, <2>2 DEF RunInv, EntryOK, Tamer
<1>3. SameLists
  <2>1. \A o \in DOMAIN obj : IsSession(obj[o]) BY DEF HostInv, Sessions
  <2>2. obj' = obj \/ \E o, n : Set(o, [obj[o] EXCEPT !.tools = n])
    <3>1. ASSUME NEW id, ExecuteTool(c, id) PROVE \E o, n : Set(o, [obj[o] EXCEPT !.tools = n])
          BY <3>1, Zenon DEF ExecuteTool
    <3>2. CASE ToolReturns(c) BY <3>2, Zenon DEF ToolReturns
    <3>3. CASE ToolAnswers(c) BY <3>3 DEF ToolAnswers
    <3> QED BY <3>1, <3>2, <3>3 DEF Tool
  <2> QED BY <2>1, <2>2, SetLists, SessionKeeps, StillLists
<1> QED BY <1>2, <1>3, ToolQuiet DEF NoLaunch, Weighty

LEMMA SnapshotTame ==
    ASSUME HostInv, PlaceInv, RunInv, NEW c \in Callers, Snapshot(c)
    PROVE  SameLists /\ Tamer /\ NoLaunch(c)
<1>1. UNCHANGED <<proc, job, alive, runtime>>
      BY DEF Snapshot, TurnComplete, CreateSnapshot, ZFSCreateSnapshot, AppendSnapshot, PruneList,
             ZFSDestroySnapshot, RollbackSession, ZFSRollback, FinishRollback, config
<1>2. Tamer BY <1>1, StillTamer
<1>3. SameLists
  <2>1. \A o \in DOMAIN obj : IsSession(obj[o]) BY DEF HostInv, Sessions
  <2>2. CASE AppendSnapshot(c)
    <3> DEFINE o == caller[c].o
               v == Append(obj[o].snaps, caller[c].name)
               t == IF caller[c].op = "turn" THEN caller[c].name[2] ELSE obj[o].turn
               e == [obj[o] EXCEPT !.snaps = v, !.turn = t]
    <3>1. Set(o, e) BY <2>2 DEF AppendSnapshot
    <3>2. o \in DOMAIN obj => e.procs = obj[o].procs
      <4> HIDE DEF v, t
      <4> QED BY <2>1, SessionKeeps
    <3> HIDE DEF e
    <3> QED BY <3>1, <3>2, SetLists
  <2>3. CASE PruneList(c)
    <3>1. obj' = obj \/ \E o, x : Set(o, [obj[o] EXCEPT !.snaps = x]) BY <2>3, Zenon DEF PruneList
    <3> QED BY <2>1, <3>1, SetLists, SessionKeeps, StillLists
  <2>4. ASSUME NEW id, NEW n, RollbackSession(c, id, n) PROVE SameLists
    <3>1. \E o, x : Set(o, [obj[o] EXCEPT !.rolling = x]) BY <2>4, Zenon DEF RollbackSession
    <3> QED BY <2>1, <3>1, SetLists, SessionKeeps
  <2>5. CASE FinishRollback(c)
    <3> DEFINE o == caller[c].o
               kept == UpTo(obj[o].snaps, caller[c].name)
               a == [obj[o] EXCEPT !.rolling = FALSE, !.state = "failed"]
               b == [obj[o] EXCEPT !.rolling = FALSE]
               d == [obj[o] EXCEPT !.rolling = FALSE, !.snaps = kept, !.turn = TurnsIn(kept)]
    <3>1. Set(o, CASE caller[c].pc = "rollfail" -> a
                   [] caller[c].pc = "rolled" /\ kept = <<>> -> b
                   [] OTHER -> d)
          BY <2>5 DEF FinishRollback
    <3>2. o \in DOMAIN obj => a.procs = obj[o].procs /\ b.procs = obj[o].procs /\ d.procs = obj[o].procs
          BY <2>1, SessionKeeps
    <3> HIDE DEF a, b, d, kept
    <3>3. caller[c].pc \in {"rolled", "rollfail"} BY <2>5 DEF FinishRollback
    <3>4. CASE caller[c].pc = "rollfail"
      <4>1. Set(o, a) BY <3>1, <3>4 DEF Set
      <4> QED BY <3>2, <4>1, SetLists
    <3>5. CASE caller[c].pc = "rolled" /\ kept = <<>>
      <4>1. Set(o, b) BY <3>1, <3>5 DEF Set
      <4> QED BY <3>2, <4>1, SetLists
    <3>6. CASE caller[c].pc = "rolled" /\ kept # <<>>
      <4>1. Set(o, d) BY <3>1, <3>6 DEF Set
      <4> QED BY <3>2, <4>1, SetLists
    <3> QED BY <3>3, <3>4, <3>5, <3>6
  <2>6. ASSUME ~AppendSnapshot(c), ~PruneList(c), ~FinishRollback(c),
               \A id, n : ~RollbackSession(c, id, n)
        PROVE  obj' = obj
        BY <2>6 DEF Snapshot, TurnComplete, CreateSnapshot, ZFSCreateSnapshot, ZFSDestroySnapshot,
                    ZFSRollback
  <2> QED BY <2>2, <2>3, <2>4, <2>5, <2>6, StillLists
<1> QED BY <1>2, <1>3, SnapshotQuiet DEF NoLaunch, Weighty

LEMMA CancelledTames ==
    ASSUME RunInv, NEW P, Cancelled(P), UNCHANGED <<job, runtime>>,
           \A p \in Procs : p \in alive' => p \in alive
    PROVE  Tamer /\ \A p \in P \cap Procs : (proc[p].handle = "cancel" /\ proc[p].status # "exited")
                                                => proc'[p].cancelled
<1>1. \A p \in Procs : DOMAIN proc[p] = ProcFields /\ proc[p].cancelled \in BOOLEAN
      BY DEF RunInv, EntryOK
<1>2. ASSUME NEW p \in Procs
      PROVE  /\ DOMAIN proc'[p] = ProcFields /\ proc'[p].cancelled \in BOOLEAN
             /\ proc'[p].status = proc[p].status /\ proc'[p].o = proc[p].o
             /\ proc'[p].handle = proc[p].handle
             /\ proc[p].cancelled => proc'[p].cancelled
             /\ (p \in P /\ proc[p].handle = "cancel" /\ proc[p].status # "exited")
                    => proc'[p].cancelled
  <2> DEFINE e == [proc[p] EXCEPT !.cancelled = TRUE]
  <2>1. /\ DOMAIN e = ProcFields /\ e.cancelled = TRUE /\ e.status = proc[p].status
        /\ e.o = proc[p].o /\ e.handle = proc[p].handle
        BY <1>1 DEF ProcFields
  <2>2. proc'[p] = (IF p \in P /\ proc[p].handle = "cancel" /\ proc[p].status # "exited"
                    THEN e ELSE proc[p])
        BY DEF Cancelled
  <2> HIDE DEF e
  <2>3. CASE p \in P /\ proc[p].handle = "cancel" /\ proc[p].status # "exited"
        BY <2>1, <2>2, <2>3
  <2>4. CASE ~(p \in P /\ proc[p].handle = "cancel" /\ proc[p].status # "exited")
        BY <1>1, <2>2, <2>4
  <2> QED BY <2>3, <2>4
<1>3. DOMAIN proc' = Procs BY DEF Cancelled
<1> QED BY <1>2, <1>3 DEF Tamer, RunInv

LEMMA DestroyTame ==
    ASSUME HostInv, PlaceInv, RunInv, NEW c \in Callers, Destroy(c)
    PROVE  (~ClearProcesses(c) => SameLists) /\ Tamer /\ NoLaunch(c)
<1>0. /\ Holds(caller[c], obj) /\ DOMAIN caller = Callers /\ IsCall(caller[c])
      BY DEF PlaceInv, HostInv, CallsOK
<1>1. Tamer
  <2>1. CASE KillProcesses(c)
        BY <2>1, CancelledTames DEF KillProcesses, config
  <2>2. CASE ~KillProcesses(c)
    <3>1. UNCHANGED <<proc, job, runtime>> /\ \A p \in Procs : p \in alive' => p \in alive
          BY <2>2 DEF Destroy, DestroySession, DestroyDrained, ClearProcesses, DestroySessionDataset,
                      DeleteSession, Shutdown, ShutdownNext, CloseGVisor, config
    <3> QED BY <3>1, StillTamer
  <2> QED BY <2>1, <2>2
<1>2. ASSUME ~ClearProcesses(c) PROVE SameLists
  <2>1. \A o \in DOMAIN obj : IsSession(obj[o]) BY DEF HostInv, Sessions
  <2>2. obj' = obj \/ \E o, st : Set(o, [obj[o] EXCEPT !.state = st])
        BY <1>2 DEF Destroy, DestroySession, DestroyDrained, KillProcesses, DestroySessionDataset,
                    DeleteSession, Shutdown, ShutdownNext, CloseGVisor, DestroyObject
  <2> QED BY <2>1, <2>2, SetLists, SessionKeeps, StillLists
<1>3. caller[c].op # "launch"
  <2>1. caller[c].pc \in AtDestroy \cup {"ready", "drain", "shut"}
        BY DEF Destroy, DestroySession, DestroyDrained, KillProcesses, ClearProcesses,
               DestroySessionDataset, DeleteSession, Shutdown, ShutdownNext, CloseGVisor, Begin,
               AtDestroy
  <2> QED BY <1>0, <2>1 DEF Holds, AtDestroy
<1>4. caller'[c].op # "launch"
  <2>1. ASSUME NEW id, NEW op \in Destroys, NEW todo, DestroyObject(c, id, op, todo)
        PROVE  caller'[c].op # "launch"
    <3> DEFINE o == table[id]
    <3>1. caller' = [caller EXCEPT ![c] = [Ready EXCEPT !.pc = "drain", !.op = op, !.id = id,
                                                        !.o = o, !.todo = todo]]
          BY <2>1 DEF DestroyObject
    <3> HIDE DEF o
    <3> QED BY <1>0, <3>1 DEF Ready, Destroys
  <2>2. ASSUME NEW id, DestroySession(c, id) PROVE caller'[c].op # "launch"
        BY <2>1, <2>2 DEF DestroySession, Destroys
  <2>3. CASE ShutdownNext(c)
    <3>1. \/ \E id, todo : DestroyObject(c, id, "shutdown", todo)
          \/ \E i : caller' = [caller EXCEPT ![c].todo = @ \ {i}]
          BY <2>3 DEF ShutdownNext
    <3>2. ASSUME NEW i, caller' = [caller EXCEPT ![c].todo = @ \ {i}] PROVE caller'[c].op # "launch"
          BY <1>0, <1>3, <3>2 DEF IsCall, CallFields
    <3> QED BY <2>1, <3>1, <3>2 DEF Destroys
  <2>4. CASE Shutdown(c)
    <3> DEFINE todo == {i \in IDs : table[i] # 0}
    <3>1. caller' = [caller EXCEPT ![c] = [Ready EXCEPT !.pc = "shut", !.op = "shutdown",
                                                        !.todo = todo]]
          BY <2>4 DEF Shutdown
    <3> HIDE DEF todo
    <3> QED BY <1>0, <3>1 DEF Ready
  <2>5. CASE CloseGVisor(c) BY <1>0, <2>5 DEF CloseGVisor, Ready
  <2>6. ASSUME \A id : ~DestroySession(c, id), ~ShutdownNext(c), ~Shutdown(c), ~CloseGVisor(c)
        PROVE  (\E pc : Goto(c, pc)) \/ Return(c)
        BY <2>6 DEF Destroy, DestroyDrained, KillProcesses, ClearProcesses,
                    DestroySessionDataset, DeleteSession
  <2> QED BY <1>3, <2>2, <2>3, <2>4, <2>5, <2>6, StaysQuiet
<1> QED BY <1>1, <1>2, <1>3, <1>4 DEF NoLaunch

\* The entries under a step that launches nothing.
LEMMA RunFrame ==
    ASSUME PlaceInv, RunInv, NEW c \in Callers, Grows(obj, obj'), Moves(c), Tamer, NoLaunch(c),
           \A o \in DOMAIN obj' : \A p \in obj'[o].procs : o \in DOMAIN obj /\ p \in obj[o].procs
    PROVE  RunInv'
<1>1. \A d \in Callers : /\ caller[d].op = "launch" <=> caller'[d].op = "launch"
                         /\ caller[d].op = "launch" => caller'[d] = caller[d]
      BY DEF Moves, NoLaunch
<1>2. \A p \in Procs : Launched(p) => Launched(p)' BY <1>1 DEF Launched
<1>3. \A p \in Procs : EntryOK(p)'
  <2> SUFFICES ASSUME NEW p \in Procs PROVE EntryOK(p)' OBVIOUS
  <2>1. EntryOK(p) BY DEF RunInv
  <2>2. DOMAIN obj \subseteq DOMAIN obj' BY DEF Grows
  <2> QED BY <2>1, <2>2 DEF Tamer, EntryOK
<1>4. \A p \in Procs : proc'[p].status = "starting" => Launched(p)' BY <1>2 DEF RunInv, Tamer
<1>5. \A o \in DOMAIN obj' : \A p \in obj'[o].procs :
          p \in Procs /\ proc'[p].status # "unused" /\ proc'[p].o = o
      BY DEF RunInv, Tamer
<1>6. ASSUME NEW d \in Callers, caller'[d].op = "launch" PROVE LaunchOK(d)'
  <2>1. caller'[d] = caller[d] /\ caller[d].op = "launch" BY <1>1, <1>6
  <2>2. LaunchOK(d) BY <2>1 DEF RunInv
  <2>3. caller[d].p \in Procs BY <2>1 DEF PlaceInv, Holds
  <2> QED BY <2>1, <2>2, <2>3 DEF LaunchOK, Tamer
<1>7. \A a, b \in Callers : a # b /\ caller'[a].op = "launch" /\ caller'[b].op = "launch"
                                => caller'[a].p # caller'[b].p
      BY <1>1 DEF RunInv
<1> QED BY <1>3, <1>4, <1>5, <1>6, <1>7 DEF RunInv, Tamer

\* A step that changes one entry.
LEMMA RunChange ==
    ASSUME PlaceInv, RunInv, Grows(obj, obj'), NEW p \in Procs,
           DOMAIN proc' = Procs, DOMAIN job' = Jobs, runtime' = runtime,
           \A q \in Procs \ {p} : /\ proc'[q] = proc[q] /\ job'[q] = job[q]
                                  /\ q \in alive' <=> q \in alive
                                  /\ Launched(q) => Launched(q)',
           EntryOK(p)', proc'[p].status = "starting" => Launched(p)',
           \A o \in DOMAIN obj' : \A q \in obj'[o].procs :
               \/ q = p /\ proc'[p].status # "unused" /\ proc'[p].o = o
               \/ q # p /\ o \in DOMAIN obj /\ q \in obj[o].procs,
           \A d \in Callers : caller'[d].op = "launch" =>
               \/ caller'[d] = caller[d] /\ caller[d].p # p
               \/ caller'[d].p = p /\ LaunchOK(d)',
           \A d, e \in Callers : (/\ d # e /\ caller'[d].op = "launch" /\ caller'[e].op = "launch"
                                  /\ caller'[d].p = p) => caller'[e].p # p
    PROVE  RunInv'
<1>1. \A q \in Procs : EntryOK(q)' /\ (proc'[q].status = "starting" => Launched(q)')
  <2> SUFFICES ASSUME NEW q \in Procs \ {p}
               PROVE  EntryOK(q)' /\ (proc'[q].status = "starting" => Launched(q)')
      OBVIOUS
  <2>1. EntryOK(q) /\ (proc[q].status = "starting" => Launched(q)) BY DEF RunInv
  <2>2. DOMAIN obj \subseteq DOMAIN obj' BY DEF Grows
  <2> QED BY <2>1, <2>2 DEF EntryOK
<1>2. \A o \in DOMAIN obj' : \A q \in obj'[o].procs :
          q \in Procs /\ proc'[q].status # "unused" /\ proc'[q].o = o
      BY DEF RunInv
<1>3. ASSUME NEW d \in Callers, caller'[d].op = "launch" PROVE LaunchOK(d)'
  <2>1. CASE caller'[d] = caller[d] /\ caller[d].p # p
    <3>1. LaunchOK(d) /\ caller[d].p \in Procs BY <1>3, <2>1 DEF RunInv, PlaceInv, Holds
    <3> QED BY <2>1, <3>1 DEF LaunchOK
  <2> QED BY <1>3, <2>1
<1>4. ASSUME NEW d \in Callers, NEW e \in Callers, d # e, caller'[d].op = "launch",
             caller'[e].op = "launch"
      PROVE  caller'[d].p # caller'[e].p
  <2>1. CASE caller'[d].p = p \/ caller'[e].p = p BY <1>4, <2>1
  <2>2. CASE caller'[d].p # p /\ caller'[e].p # p
    <3>1. caller'[d] = caller[d] /\ caller'[e] = caller[e] BY <1>4, <2>2
    <3> QED BY <1>4, <3>1 DEF RunInv
  <2> QED BY <2>1, <2>2
<1> QED BY <1>1, <1>2, <1>3, <1>4 DEF RunInv

\* The same when neither a call nor a session changes.
LEMMA RunStill ==
    ASSUME PlaceInv, RunInv, Grows(obj, obj'), NEW p \in Procs, UNCHANGED <<obj, caller, runtime>>,
           DOMAIN proc' = Procs, DOMAIN job' = Jobs, proc[p].status = "running",
           \A q \in Procs \ {p} : /\ proc'[q] = proc[q] /\ job'[q] = job[q]
                                  /\ q \in alive' <=> q \in alive,
           EntryOK(p)', proc'[p].status \in {"running", "exited"}, proc'[p].o = proc[p].o
    PROVE  RunInv'
<1>1. \A q \in Procs : Launched(q) => Launched(q)' BY DEF Launched
<1>2. \A d \in Callers : caller[d].op = "launch" => caller[d].p # p BY DEF RunInv, LaunchOK
<1>3. \A o \in DOMAIN obj : \A q \in obj[o].procs : proc[q].o = o BY DEF RunInv
<1> QED BY <1>1, <1>2, <1>3, RunChange

\* A step of a tool's container changes no entry.
LEMMA RunOther ==
    ASSUME PlaceInv, RunInv, UNCHANGED <<obj, caller, runtime, proc>>, DOMAIN job' = Jobs,
           \A q \in Procs : job'[q] = job[q] /\ (q \in alive' <=> q \in alive)
    PROVE  RunInv'
<1>1. \A q \in Procs : EntryOK(q)' BY DEF RunInv, EntryOK
<1>2. \A q \in Procs : Launched(q) <=> Launched(q)' BY DEF Launched
<1>3. \A d \in Callers : caller[d].op = "launch" => LaunchOK(d)'
      BY DEF RunInv, LaunchOK, PlaceInv, Holds
<1> QED BY <1>1, <1>2, <1>3 DEF RunInv

LEMMA ByRunRuns ==
    ASSUME HostInv, PlaceInv, RunInv, Grows(obj, obj'), ByRun
    PROVE  RunInv'
<1>0. /\ UNCHANGED <<obj, caller, runtime>> /\ DOMAIN proc = Procs /\ DOMAIN job = Jobs
      /\ \A p \in Procs : EntryOK(p) /\ p \in Jobs
      BY RunsKeep DEF RunInv, Jobs
<1>1. ASSUME NEW p \in Procs, ProcessExits(p) PROVE RunInv'
  <2>1. UNCHANGED <<proc, job>> /\ alive' = alive \ {p} /\ p \in alive /\ proc[p].handle = "cmd"
        BY <1>1 DEF ProcessExits
  <2>2. EntryOK(p)' BY <1>0, <2>1 DEF EntryOK
  <2>3. proc[p].status = "running" BY <1>0, <2>1 DEF EntryOK, Going
  <2> QED BY <1>0, <2>1, <2>2, <2>3, RunStill
<1>2. ASSUME NEW p \in Procs, MonitorExit(p) PROVE RunInv'
  <2> DEFINE e == [proc[p] EXCEPT !.status = "exited"]
  <2>1. /\ proc[p].status = "running" /\ alive' = alive
        /\ (proc[p].handle = "cmd" /\ p \notin alive) \/ job[p] \in {"done", "failed"}
        /\ proc' = [proc EXCEPT ![p] = e] /\ job' = [job EXCEPT ![p] = "idle"]
        BY <1>2 DEF MonitorExit
  <2>2. /\ DOMAIN e = ProcFields /\ e.status = "exited" /\ e.o = proc[p].o
        /\ e.handle = proc[p].handle /\ e.cancelled = proc[p].cancelled
        BY <1>0 DEF EntryOK, ProcFields
  <2> HIDE DEF e
  <2>3. /\ DOMAIN proc' = Procs /\ DOMAIN job' = Jobs /\ proc'[p] = e /\ job'[p] = "idle"
        /\ \A q \in Procs \ {p} : proc'[q] = proc[q] /\ job'[q] = job[q]
        BY <1>0, <2>1
  <2>4. p \notin alive BY <1>0, <2>1 DEF EntryOK
  <2>5. EntryOK(p)' BY <1>0, <2>1, <2>2, <2>3, <2>4 DEF EntryOK
  <2> QED BY <1>0, <2>1, <2>2, <2>3, <2>5, RunStill
<1>3. ASSUME NEW j \in Jobs, RunEnter(j) \/ RunSlot(j) \/ RunStart(j) \/ RunExit(j) PROVE RunInv'
  <2>1. proc' = proc BY <1>3 DEF RunEnter, RunSlot, RunStart, RunExit
  <2>2. PICK v : job' = [job EXCEPT ![j] = v]
        BY <1>3, Zenon DEF RunEnter, RunSlot, RunStart, RunExit, runContainer
  <2>3. /\ DOMAIN job' = Jobs /\ job'[j] = v /\ \A q \in Procs \ {j} : job'[q] = job[q]
        BY <1>0, <2>2
  <2>4. \A q \in Procs \ {j} : q \in alive' <=> q \in alive
        BY <1>3 DEF RunEnter, RunSlot, RunStart, RunExit, runContainer
  <2>5. CASE j \notin Procs BY <1>0, <2>1, <2>3, <2>4, <2>5, RunOther
  <2>6. CASE j \in Procs
    <3>0. j \notin Callers BY <2>6, HostAssumption
    <3>1. EntryOK(j) BY <1>0, <2>6
    <3>2. proc[j].status = "running" /\ proc[j].handle = "cancel"
      <4>1. CASE RunEnter(j) BY <2>6, <3>0, <4>1 DEF RunEnter, Wants
      <4>2. CASE ~RunEnter(j) BY <1>3, <3>1, <4>2 DEF RunSlot, RunStart, RunExit, EntryOK
      <4> QED BY <4>1, <4>2
    <3>3. j \in alive' => v = "active"
      <4>1. CASE RunEnter(j)
        <5>1. job[j] = "idle" /\ alive' = alive BY <4>1 DEF RunEnter
        <5> QED BY <3>1, <3>2, <5>1 DEF EntryOK
      <4>2. CASE RunSlot(j)
        <5>1. job[j] = "entered" /\ alive' = alive BY <4>2 DEF RunSlot
        <5> QED BY <3>1, <3>2, <5>1 DEF EntryOK
      <4>3. CASE RunStart(j)
        <5>1. job[j] = "slotted" /\ (job'[j] = "active" \/ alive' = alive)
              BY <1>0, <4>3 DEF RunStart, runContainer
        <5> QED BY <2>3, <3>1, <3>2, <5>1 DEF EntryOK
      <4>4. CASE RunExit(j) BY <4>4 DEF RunExit
      <4> QED BY <1>3, <4>1, <4>2, <4>3, <4>4
    <3>4. EntryOK(j)' BY <1>0, <2>1, <2>3, <3>1, <3>2, <3>3 DEF EntryOK, Going
    <3> QED BY <1>0, <2>1, <2>3, <2>4, <2>6, <3>2, <3>4, RunStill
  <2> QED BY <2>5, <2>6
<1> QED BY <1>1, <1>2, <1>3 DEF ByRun

LEMMA LaunchRuns ==
    ASSUME HostInv, PlaceInv, RunInv, Grows(obj, obj'), NEW c \in Callers, Moves(c),
           NEW id \in IDs, NEW p \in Procs, LaunchProcess(c, id, p)
    PROVE  RunInv'
<1> DEFINE o == table[id]
           e == [proc[p] EXCEPT !.status = "starting", !.o = o]
           k == [Ready EXCEPT !.pc = "start", !.op = "launch", !.id = id, !.o = o, !.p = p]
<1>1. /\ caller' = [caller EXCEPT ![c] = k] /\ proc' = [proc EXCEPT ![p] = e]
      /\ UNCHANGED <<job, alive, runtime>> /\ proc[p].status = "unused" /\ o # 0
      /\ caller[c].pc = "ready"
      BY DEF LaunchProcess, config, Active, Begin
<1>2. EntryOK(p) /\ o \in DOMAIN obj /\ IsSession(obj[o]) BY <1>1 DEF RunInv, HostInv, TableOK, Sessions
<1>3. PICK S \in SUBSET obj[o].procs : obj' = [obj EXCEPT ![o] = [obj[o] EXCEPT !.procs = S \cup {p}]]
      BY DEF LaunchProcess, pruneExitedProcesses, Set
<1>4. k.pc = "start" /\ k.op = "launch" /\ k.o = o /\ k.p = p BY DEF Ready
<1>5. /\ DOMAIN e = ProcFields /\ e.status = "starting" /\ e.o = o
      /\ e.handle = proc[p].handle /\ e.cancelled = proc[p].cancelled
      BY <1>2 DEF EntryOK, ProcFields
<1> HIDE DEF e, k, o
<1>6. /\ DOMAIN proc' = Procs /\ DOMAIN job' = Jobs /\ proc'[p] = e
      /\ \A q \in Procs \ {p} : proc'[q] = proc[q]
      BY <1>1 DEF RunInv
<1>7. caller'[c] = k /\ \A d \in Callers \ {c} : caller'[d] = caller[d]
      BY <1>1 DEF HostInv, CallsOK
<1>8. caller[c].op # "launch" BY <1>1 DEF PlaceInv, Holds
<1>9. p \notin alive /\ job[p] = "idle" /\ proc[p].handle = "none" BY <1>1, <1>2 DEF EntryOK, Going
<1>10. EntryOK(p)'
       BY <1>1, <1>2, <1>3, <1>5, <1>6, <1>9 DEF EntryOK, Going
<1>11. Launched(p)' BY <1>4, <1>7 DEF Launched
<1>12. \A q \in Procs \ {p} : Launched(q) => Launched(q)' BY <1>7, <1>8 DEF Launched
<1>13. ASSUME NEW a \in DOMAIN obj', NEW q \in obj'[a].procs
       PROVE  \/ q = p /\ proc'[p].status # "unused" /\ proc'[p].o = a
              \/ q # p /\ a \in DOMAIN obj /\ q \in obj[a].procs
  <2>1. \A b \in DOMAIN obj : p \notin obj[b].procs BY <1>1 DEF RunInv
  <2>2. a \in DOMAIN obj BY <1>3
  <2>3. CASE a # o
    <3>1. q \in obj[a].procs BY <1>3, <1>13, <2>2, <2>3
    <3> QED BY <2>1, <2>2, <3>1
  <2>4. CASE a = o
    <3>1. q \in S \cup {p} BY <1>2, <1>3, <1>13, <2>4 DEF IsSession, SessionFields
    <3> QED BY <1>5, <1>6, <2>2, <2>4, <3>1
  <2> QED BY <2>3, <2>4
<1>14. \A d \in Callers \ {c} : caller[d].op = "launch" => caller[d].p # p
       BY <1>1 DEF RunInv, LaunchOK
<1>15. LaunchOK(c)' BY <1>1, <1>4, <1>5, <1>6, <1>7, <1>9 DEF LaunchOK
<1> QED BY <1>1, <1>4, <1>6, <1>7, <1>10, <1>11, <1>12, <1>13, <1>14, <1>15, RunChange

LEMMA StartRuns ==
    ASSUME HostInv, PlaceInv, RunInv, Grows(obj, obj'), NEW c \in Callers, Moves(c), StartProcess(c)
    PROVE  RunInv'
<1>b. PICK p, o : p = caller[c].p /\ o = caller[c].o OBVIOUS
<1>0. /\ caller[c].pc = "start" /\ caller[c].op = "launch" /\ p \in Procs
      /\ o \in DOMAIN obj /\ UNCHANGED <<job, runtime>>
      BY <1>b DEF StartProcess, PlaceInv, Holds, config
<1>1. /\ EntryOK(p) /\ proc[p].status = "starting" /\ proc[p].o = o /\ p \notin alive
      /\ DOMAIN proc = Procs /\ DOMAIN job = Jobs /\ IsSession(obj[o])
      BY <1>b, <1>0 DEF RunInv, LaunchOK, HostInv, Sessions
<1>2. \A d \in Callers \ {c} : /\ caller'[d] = caller[d]
                               /\ caller[d].op = "launch" => caller[d].p # p
      BY <1>b, <1>0 DEF Moves, RunInv
<1>3. \A q \in Procs \ {p} : Launched(q) => Launched(q)' BY <1>b, <1>2 DEF Launched
<1>4. CASE /\ alive' = (IF runtime = "none" THEN alive \cup {p} ELSE alive)
           /\ Goto(c, "handle") /\ UNCHANGED <<obj, proc>>
  <2>1. caller'[c].pc = "handle" /\ caller'[c].op = "launch" /\ caller'[c].p = p /\ caller'[c].o = o
        BY <1>b, <1>0, <1>4, GotoAt
  <2>2. EntryOK(p)' BY <1>0, <1>1, <1>4 DEF EntryOK, Going
  <2>3. Launched(p)' BY <2>1 DEF Launched
  <2>4. LaunchOK(c)' BY <1>1, <1>4, <2>1 DEF LaunchOK
  <2>5. \A a \in DOMAIN obj' : \A q \in obj'[a].procs :
            \/ q = p /\ proc'[p].status # "unused" /\ proc'[p].o = a
            \/ q # p /\ a \in DOMAIN obj /\ q \in obj[a].procs
        BY <1>4 DEF RunInv
  <2>6. \A q \in Procs \ {p} : q \in alive' <=> q \in alive BY <1>4
  <2> QED BY <1>0, <1>1, <1>2, <1>3, <1>4, <2>1, <2>2, <2>3, <2>4, <2>5, <2>6, RunChange
<1>5. CASE /\ Set(o, [obj[o] EXCEPT !.procs = @ \ {p}])
           /\ proc' = [proc EXCEPT ![p].status = "exited"]
           /\ Return(c) /\ alive' = alive
  <2> DEFINE e == [proc[p] EXCEPT !.status = "exited"]
  <2>0. caller'[c] = Ready BY <1>0, <1>5, ReturnAt
  <2>1. caller'[c].op # "launch" BY <2>0 DEF Ready
  <2>2. /\ DOMAIN e = ProcFields /\ e.status = "exited" /\ e.o = o
        /\ e.handle = proc[p].handle /\ e.cancelled = proc[p].cancelled
        BY <1>1 DEF EntryOK, ProcFields
  <2> HIDE DEF e
  <2>3. /\ DOMAIN proc' = Procs /\ proc'[p] = e /\ \A q \in Procs \ {p} : proc'[q] = proc[q]
        BY <1>0, <1>1, <1>5 DEF e
  <2>4. EntryOK(p)' BY <1>0, <1>1, <1>5, <2>2, <2>3 DEF EntryOK, Going, Grows
  <2>5. ASSUME NEW a \in DOMAIN obj', NEW q \in obj'[a].procs
        PROVE  \/ q = p /\ proc'[p].status # "unused" /\ proc'[p].o = a
               \/ q # p /\ a \in DOMAIN obj /\ q \in obj[a].procs
    <3>1. a \in DOMAIN obj /\ q \in obj[a].procs
          BY <1>0, <1>1, <1>5, <2>5 DEF Set, IsSession, SessionFields
    <3> QED BY <2>2, <2>3, <3>1, <1>1 DEF RunInv
  <2> QED BY <1>0, <1>1, <1>2, <1>3, <1>5, <2>1, <2>2, <2>3, <2>4, <2>5, RunChange
<1> QED BY <1>b, <1>4, <1>5 DEF StartProcess

LEMMA HandleRuns ==
    ASSUME HostInv, PlaceInv, RunInv, Grows(obj, obj'), NEW c \in Callers, Moves(c), StoreHandle(c)
    PROVE  RunInv'
<1>b. PICK p, h : p = caller[c].p /\ h = (IF runtime = "none" THEN "cmd" ELSE "cancel") OBVIOUS
<1> DEFINE e == [proc[p] EXCEPT !.handle = h, !.status = "running"]
<1>0. /\ caller[c].pc = "handle" /\ caller[c].op = "launch" /\ p \in Procs
      /\ UNCHANGED <<obj, job, alive, runtime>> /\ Return(c)
      BY <1>b DEF StoreHandle, PlaceInv, Holds, config
<1>a. proc' = [proc EXCEPT ![p] = e] BY <1>b DEF StoreHandle
<1>1. /\ EntryOK(p) /\ proc[p].status = "starting"
      /\ DOMAIN proc = Procs /\ DOMAIN job = Jobs
      BY <1>b, <1>0 DEF RunInv, LaunchOK
<1>2. \A d \in Callers \ {c} : /\ caller'[d] = caller[d]
                               /\ caller[d].op = "launch" => caller[d].p # p
      BY <1>b, <1>0 DEF Moves, RunInv
<1>3. \A q \in Procs \ {p} : Launched(q) => Launched(q)' BY <1>b, <1>2 DEF Launched
<1>4. caller'[c] = Ready BY <1>0, ReturnAt
<1>5. caller'[c].op # "launch" BY <1>4 DEF Ready
<1>6. /\ DOMAIN e = ProcFields /\ e.status = "running" /\ e.o = proc[p].o
      /\ e.handle = h /\ e.cancelled = proc[p].cancelled
      BY <1>1 DEF EntryOK, ProcFields
<1> HIDE DEF e
<1>7. /\ DOMAIN proc' = Procs /\ proc'[p] = e /\ \A q \in Procs \ {p} : proc'[q] = proc[q]
      BY <1>0, <1>1, <1>a
<1>8. proc[p].handle = "none" /\ job[p] = "idle" /\ (p \in alive => runtime = "none")
      BY <1>1 DEF EntryOK, Going
<1>9. EntryOK(p)' BY <1>b, <1>0, <1>1, <1>6, <1>7, <1>8 DEF EntryOK, Going
<1>10. \A a \in DOMAIN obj' : \A q \in obj'[a].procs :
           \/ q = p /\ proc'[p].status # "unused" /\ proc'[p].o = a
           \/ q # p /\ a \in DOMAIN obj /\ q \in obj[a].procs
       BY <1>0, <1>6, <1>7 DEF RunInv
<1> QED BY <1>0, <1>1, <1>2, <1>3, <1>5, <1>6, <1>7, <1>9, <1>10, RunChange

LEMMA KillTame ==
    ASSUME HostInv, PlaceInv, RunInv, NEW c \in Callers, NEW id \in IDs, NEW p \in Procs,
           KillProcess(c, id, p)
    PROVE  SameLists /\ Tamer /\ NoLaunch(c)
<1>1. /\ UNCHANGED <<obj, job, caller, runtime>> /\ Cancelled({p}) /\ caller[c].pc = "ready"
      BY DEF KillProcess, config, Begin
<1>2. alive' \subseteq alive BY DEF KillProcess, Killed
<1>3. Tamer BY <1>1, <1>2, CancelledTames
<1>4. caller[c].op # "launch" BY <1>1 DEF PlaceInv, Holds
<1> QED BY <1>1, <1>3, <1>4, StillLists DEF NoLaunch

LEMMA RunStep == HostInv /\ PlaceInv /\ RunInv /\ [Next]_vars => RunInv'
<1> SUFFICES ASSUME HostInv, PlaceInv, RunInv, [Next]_vars PROVE RunInv' OBVIOUS
<1>0. Grows(obj, obj') BY StepHolds DEF Outcome
<1>1. ASSUME NEW c \in Callers, ByCall(c) PROVE RunInv'
  <2>1. Moves(c) BY <1>0, <1>1, CallsMove
  <2>2. ASSUME SameLists, Tamer, NoLaunch(c) PROVE RunInv'
    <3>1. \A o \in DOMAIN obj' : \A p \in obj'[o].procs : o \in DOMAIN obj /\ p \in obj[o].procs
          BY <2>2 DEF SameLists
    <3> QED BY <1>0, <2>1, <2>2, <3>1, RunFrame
  <2>3. CASE Create(c) BY <2>2, <2>3, CreateTame
  <2>4. CASE Pause(c) BY <2>2, <2>4, PauseTame
  <2>5. CASE Snapshot(c) BY <2>2, <2>5, SnapshotTame
  <2>6. CASE Tool(c) BY <2>2, <2>6, ToolTame
  <2>7. CASE ClearProcesses(c)
    <3>1. Tamer /\ NoLaunch(c) BY <2>7, DestroyTame DEF Destroy
    <3>2. caller[c].o \in DOMAIN obj /\ IsSession(obj[caller[c].o])
          BY <2>7 DEF ClearProcesses, PlaceInv, Holds, Destroys, AtDestroy, HostInv, Sessions
    <3>3. obj' = [obj EXCEPT ![caller[c].o] = [obj[caller[c].o] EXCEPT !.procs = {}]]
          BY <2>7 DEF ClearProcesses, Set
    <3>4. \A o \in DOMAIN obj' : \A p \in obj'[o].procs : o \in DOMAIN obj /\ p \in obj[o].procs
          BY <3>2, <3>3 DEF IsSession, SessionFields
    <3> QED BY <1>0, <2>1, <3>1, <3>4, RunFrame
  <2>8. CASE Destroy(c) /\ ~ClearProcesses(c) BY <2>2, <2>8, DestroyTame
  <2>9. CASE Process(c)
        BY <1>0, <2>1, <2>2, <2>9, LaunchRuns, StartRuns, HandleRuns, KillTame DEF Process
  <2> QED BY <1>1, <2>3, <2>4, <2>5, <2>6, <2>7, <2>8, <2>9 DEF ByCall
<1>2. CASE ByRun BY <1>0, <1>2, ByRunRuns
<1>3. CASE UNCHANGED vars
  <2>1. UNCHANGED <<obj, caller, runtime, proc, job, alive>> BY <1>3 DEF vars, config
  <2> QED BY <2>1, RunOther DEF RunInv
<1> QED BY <1>1, <1>2, <1>3 DEF Next, ByCall, ByRun

LEMMA RunInit == Init => RunInv
<1> SUFFICES ASSUME Init PROVE RunInv OBVIOUS
<1>1. /\ DOMAIN proc = Procs /\ DOMAIN job = Jobs /\ DOMAIN obj = {} /\ alive = {}
      /\ \A p \in Procs : job[p] = "idle"
      BY DEF Init, Jobs
<1>2. \A p \in Procs : /\ DOMAIN proc[p] = ProcFields /\ proc[p].cancelled = FALSE
                       /\ proc[p].status = "unused" /\ proc[p].handle = "none"
      BY DEF Init, ProcFields
<1>3. \A p \in Procs : EntryOK(p) BY <1>1, <1>2 DEF EntryOK, Going
<1>4. \A c \in Callers : caller[c].op # "launch" BY DEF Init, Ready
<1> QED BY <1>1, <1>2, <1>3, <1>4 DEF RunInv

LEMMA RunInductive == Spec => []RunInv
BY RunInit, RunStep, PlaceInductive, Inductive, PTL DEF Spec

LEMMA QuelledOn ==
    ASSUME Tamer, NEW p \in Procs, Quelled(p)
    PROVE  Quelled(p)'
BY DEF Tamer, Quelled

LEMMA LaunchedOn ==
    ASSUME NEW c \in Callers, Moves(c), NoLaunch(c), NEW p, Launched(p)
    PROVE  Launched(p)'
BY DEF Moves, NoLaunch, Launched

\* Where the objects are that a step reads.
LEMMA Places ==
    ASSUME HostInv, PlaceInv, RunInv
    PROVE  /\ 0 \notin DOMAIN obj
           /\ \A i \in IDs : table[i] # 0 => table[i] \in DOMAIN obj /\ obj[table[i]].id = i
           /\ \A c \in Callers :
                  caller[c].op = "launch" \/ caller[c].pc \in AtDestroy =>
                      /\ caller[c].o \in DOMAIN obj /\ obj[caller[c].o].id = caller[c].id
                      /\ caller[c].id \in IDs
           /\ \A p \in Procs : proc[p].status \in Going => proc[p].o \in DOMAIN obj
<1>1. 0 \notin DOMAIN obj
  <2> DEFINE S == {obj[i] : i \in DOMAIN obj}
  <2>1. obj \in Seq(S) BY DEF HostInv, Sessions
  <2> HIDE DEF S
  <2> QED BY <2>1
<1>2. \A i \in IDs : table[i] # 0 => table[i] \in DOMAIN obj /\ obj[table[i]].id = i
      BY DEF HostInv, TableOK
<1>3. ASSUME NEW c \in Callers, caller[c].op = "launch" \/ caller[c].pc \in AtDestroy
      PROVE  /\ caller[c].o \in DOMAIN obj /\ obj[caller[c].o].id = caller[c].id
             /\ caller[c].id \in IDs
      BY <1>3 DEF PlaceInv, Holds, AtDestroy
<1>4. \A p \in Procs : proc[p].status \in Going => proc[p].o \in DOMAIN obj
      BY DEF RunInv, EntryOK, Going
<1> QED BY <1>1, <1>2, <1>3, <1>4

\* An ID whose entry and lists a step leaves alone.
LEMMA ProcsFrame ==
    ASSUME HostInv, PlaceInv, RunInv, NEW i \in IDs, ProcsAt(i), NEW c \in Callers, Grows(obj, obj'),
           Moves(c), SameLists, Tamer, NoLaunch(c), table'[i] = table[i],
           caller'[c].id = i => CallerAt(i, c)'
    PROVE  ProcsAt(i)'
<1>0. \A o \in DOMAIN obj : o \in DOMAIN obj' /\ obj'[o].procs = obj[o].procs /\ obj'[o].id = obj[o].id
      BY DEF SameLists, Grows, Follows
<1>1. ASSUME NEW d \in Callers, caller'[d].id = i PROVE CallerAt(i, d)'
  <2>1. CASE d # c
    <3>1. caller'[d] = caller[d] BY <2>1 DEF Moves
    <3>2. CallerAt(i, d) BY <1>1, <3>1 DEF ProcsAt
    <3>3. caller'[d].op = "launch" => table'[i] = caller'[d].o /\ caller'[d].p \in obj'[caller'[d].o].procs
          BY <1>0, <3>1, <3>2, Places DEF CallerAt
    <3>4. caller'[d].op = "create" /\ table'[i] # 0 => obj'[table'[i]].procs = {}
          BY <1>0, <3>1, <3>2, Places DEF CallerAt
    <3>5. ASSUME caller'[d].pc \in {"clear", "zdestroy", "delete"}
          PROVE  obj'[caller'[d].o].procs = obj[caller[d].o].procs /\ caller[d].o \in DOMAIN obj
          BY <1>0, <3>1, <3>5, Places DEF AtDestroy
    <3>6. caller'[d].pc = "clear" => \A p \in obj'[caller'[d].o].procs : Quelled(p)'
      <4> SUFFICES ASSUME caller'[d].pc = "clear", NEW p \in obj'[caller'[d].o].procs PROVE Quelled(p)'
          OBVIOUS
      <4>1. p \in obj[caller[d].o].procs /\ caller[d].o \in DOMAIN obj BY <3>5
      <4>2. Quelled(p) BY <3>1, <3>2, <4>1 DEF CallerAt
      <4>3. p \in Procs BY <4>1 DEF RunInv
      <4> QED BY <4>2, <4>3, QuelledOn
    <3>7. caller'[d].pc \in {"zdestroy", "delete"} => obj'[caller'[d].o].procs = {}
          BY <3>1, <3>2, <3>5 DEF CallerAt
    <3> QED BY <3>3, <3>4, <3>6, <3>7 DEF CallerAt
  <2> QED BY <1>1, <2>1
<1>2. ASSUME NEW p \in Procs, proc'[p].status \in Going, obj'[proc'[p].o].id = i
      PROVE  Listed(i, p)' \/ Quelled(p)' \/ Launched(p)'
  <2>1. proc[p].status \in Going /\ proc'[p].o = proc[p].o BY <1>2 DEF Tamer
  <2>2. proc[p].o \in DOMAIN obj BY <2>1, Places
  <2>3. Listed(i, p) \/ Quelled(p) \/ Launched(p) BY <1>0, <1>2, <2>1, <2>2 DEF ProcsAt
  <2>4. Listed(i, p) => Listed(i, p)' BY <1>0, <2>1, <2>2 DEF Listed
  <2> QED BY <2>3, <2>4, QuelledOn, LaunchedOn
<1> QED BY <1>1, <1>2 DEF ProcsAt

\* Beside a create or a destroy that is not noted there is only what is mild.
LEMMA NoOthers ==
    ASSUME PlaceInv, PlaceInv', NEW i \in IDs, NEW c \in Callers, Moves(c), Clean(i), Clean(i)',
           \/ caller[c].id = i /\ caller[c].op \in Life
           \/ caller'[c].id = i /\ caller'[c].op \in Life,
           NEW d \in Callers \ {c}, caller'[d].id = i
    PROVE  caller'[d].op \notin Weighty
<1>1. caller'[d] = caller[d] BY DEF Moves
<1>2. CASE caller[c].id = i /\ caller[c].op \in Life BY <1>1, <1>2, Alone DEF Weighty
<1>3. CASE caller'[c].id = i /\ caller'[c].op \in Life
  <2>1. caller'[d].pc = "ready" => caller'[d].op \notin Weighty BY DEF PlaceInv, Holds, Life, Weighty
  <2>2. caller'[d].pc # "ready" => caller'[d].op \in Mild
        BY <1>3 DEF PlaceInv, Lone, Clean
  <2> QED BY <2>1, <2>2 DEF Mild, Life, Weighty
<1> QED BY <1>2, <1>3

LEMMA LightAt ==
    ASSUME PlaceInv', NEW i, NEW d \in Callers, caller'[d].op \notin Weighty
    PROVE  CallerAt(i, d)'
<1>1. caller'[d].op \notin Destroys \cup {"create", "launch"} BY DEF Weighty, Life, Destroys
<1>2. caller'[d].pc \notin AtDestroy BY <1>1 DEF PlaceInv, Holds, AtDestroy
<1> QED BY <1>1, <1>2 DEF CallerAt, AtDestroy

\* The ID whose entry or list its create or destroy changes.
LEMMA ProcsChange ==
    ASSUME HostInv, PlaceInv, PlaceInv', RunInv, NEW i \in IDs, ProcsAt(i), NEW c \in Callers,
           Grows(obj, obj'), Moves(c), Tamer, NoLaunch(c), Clean(i), Clean(i)',
           \/ caller[c].id = i /\ caller[c].op \in Life
           \/ caller'[c].id = i /\ caller'[c].op \in Life,
           caller'[c].id = i => CallerAt(i, c)',
           \A p \in Procs : Listed(i, p) /\ proc[p].status \in Going => Quelled(p)
    PROVE  ProcsAt(i)'
<1>1. ASSUME NEW d \in Callers, caller'[d].id = i PROVE CallerAt(i, d)'
  <2>1. CASE d # c
    <3>1. caller'[d].op \notin Weighty BY <1>1, <2>1, NoOthers
    <3> QED BY <3>1, LightAt
  <2> QED BY <1>1, <2>1
<1>2. ASSUME NEW p \in Procs, proc'[p].status \in Going, obj'[proc'[p].o].id = i
      PROVE  Quelled(p)' \/ Launched(p)'
  <2>1. proc[p].status \in Going /\ proc'[p].o = proc[p].o BY <1>2 DEF Tamer
  <2>2. proc[p].o \in DOMAIN obj BY <2>1, Places
  <2>3. obj[proc[p].o].id = i BY <1>2, <2>1, <2>2 DEF Grows, Follows
  <2>4. Quelled(p) \/ Launched(p) BY <2>1, <2>3 DEF ProcsAt
  <2> QED BY <2>4, QuelledOn, LaunchedOn
<1> QED BY <1>1, <1>2 DEF ProcsAt

LEMMA LightProcs ==
    ASSUME HostInv, PlaceInv, PlaceInv', RunInv, ProcessInv, NEW c \in Callers, Grows(obj, obj'),
           Moves(c), SameLists, Tamer, NoLaunch(c), table' = table, leaked \subseteq leaked',
           \A i \in IDs : caller'[c].id = i /\ Clean(i)' /\ ProcsAt(i) => CallerAt(i, c)'
    PROVE  ProcessInv'
<1> SUFFICES ASSUME NEW i \in IDs, Clean(i)' PROVE ProcsAt(i)' BY DEF ProcessInv
<1>1. Clean(i) BY CleanBefore DEF Moves
<1>2. ProcsAt(i) BY <1>1 DEF ProcessInv
<1> QED BY <1>2, ProcsFrame

LEMMA OthersProcs ==
    ASSUME HostInv, PlaceInv, PlaceInv', RunInv, ProcessInv, NEW c \in Callers, Grows(obj, obj'),
           Moves(c), Pause(c) \/ Tool(c) \/ Snapshot(c)
    PROVE  ProcessInv'
<1>1. table' = table /\ leaked \subseteq leaked'
  <2>1. CASE Pause(c) BY <2>1 DEF Pause, PauseSession, ResumeSession, PauseDrained, SetPaused
  <2>2. CASE Tool(c) BY <2>2 DEF Tool, ExecuteTool, ToolAnswers, ToolReturns
  <2>3. CASE Snapshot(c)
        BY <2>3 DEF Snapshot, TurnComplete, CreateSnapshot, ZFSCreateSnapshot, AppendSnapshot,
           PruneList, ZFSDestroySnapshot, RollbackSession, ZFSRollback, FinishRollback
  <2> QED BY <2>1, <2>2, <2>3
<1>2. SameLists /\ Tamer /\ NoLaunch(c) BY PauseTame, ToolTame, SnapshotTame
<1>3. caller'[c].op \notin Weighty BY PauseQuiet, ToolQuiet, SnapshotQuiet
<1> QED BY <1>1, <1>2, <1>3, LightAt, LightProcs

LEMMA CreateProcs ==
    ASSUME HostInv, PlaceInv, PlaceInv', RunInv, ProcessInv, NEW c \in Callers, Grows(obj, obj'),
           Moves(c), Create(c)
    PROVE  ProcessInv'
<1>0. /\ Holds(caller[c], obj) /\ DOMAIN caller = Callers /\ DOMAIN table = IDs /\ Sessions(obj)
      /\ None \notin IDs
      BY HostAssumption DEF PlaceInv, HostInv, CallsOK, TableOK
<1>a. SameLists /\ Tamer /\ NoLaunch(c) BY CreateTame
<1>b. leaked \subseteq leaked'
      BY DEF Create, CreateSession, CloneFromSnapshot, SetProperties, UndoClone, DropPlaceholder,
             StoreSession, DestroyDataset
<1> SUFFICES ASSUME NEW i \in IDs, Clean(i)' PROVE ProcsAt(i)' BY DEF ProcessInv
<1>c. Clean(i) BY <1>b, CleanBefore DEF Moves
<1>d. ProcsAt(i) BY <1>c DEF ProcessInv
<1>1. ASSUME NEW id \in IDs, CreateSession(c, id) PROVE ProcsAt(i)'
  <2> DEFINE e == Session(id, "creating", FALSE)
             k == [Ready EXCEPT !.pc = "clone", !.op = "create", !.id = id, !.o = 0]
  <2>1. /\ table[id] = 0 /\ obj' = Append(obj, e) /\ table' = [table EXCEPT ![id] = Len(obj')]
        BY <1>1 DEF CreateSession, Begin
  <2>2. caller'[c] = k BY <1>0, <1>1 DEF CreateSession, Enter
  <2>3. k.pc = "clone" /\ k.op = "create" /\ k.id = id BY DEF Ready
  <2>4. IsSession(e) /\ e.tools = 0 /\ e.procs = {}
        BY DEF Session, IsSession, SessionFields
  <2> HIDE DEF e, k
  <2>5. obj'[Len(obj')] = e BY <1>0, <2>1, <2>4, AppendGrows
  <2>6. table'[id] = Len(obj') /\ \A j \in IDs \ {id} : table'[j] = table[j] BY <1>0, <2>1
  <2>7. CASE i # id BY <1>a, <1>d, <2>2, <2>3, <2>6, <2>7, ProcsFrame
  <2>8. CASE i = id
    <3>1. CallerAt(i, c)' BY <2>2, <2>3, <2>4, <2>5, <2>6, <2>8 DEF CallerAt
    <3>2. \A p \in Procs : ~(Listed(i, p) /\ proc[p].status \in Going)
          BY <2>1, <2>8, Places DEF Listed
    <3>3. caller'[c].op \in Life BY <2>2, <2>3 DEF Life
    <3> QED BY <1>a, <1>c, <1>d, <2>2, <2>3, <2>8, <3>1, <3>2, <3>3, ProcsChange
  <2> QED BY <2>7, <2>8
<1>2. ASSUME ~\E id \in IDs : CreateSession(c, id) PROVE ProcsAt(i)'
  <2>b. PICK id : id = caller[c].id OBVIOUS
  <2>1. /\ caller[c].pc \in AtCreate
        /\ \/ (\E pc \in AtCreate : Goto(c, pc)) /\ table' = table /\ obj' = obj
           \/ Return(c)
        /\ table' = table \/ \E v : table' = [table EXCEPT ![id] = v]
        BY <1>2, <2>b DEF Create, CloneFromSnapshot, SetProperties, UndoClone, DropPlaceholder,
                          StoreSession, Delete, AtCreate
  <2>2. caller[c].op = "create" /\ id \in IDs /\ caller[c].op \in Life
        BY <1>0, <2>1, <2>b DEF Holds, Life
  <2>3. \A j \in IDs \ {id} : table'[j] = table[j] BY <1>0, <2>1, <2>2
  <2>4. \/ caller'[c].id = None
        \/ /\ caller'[c].id = id /\ caller'[c].op = "create" /\ caller'[c].pc \in AtCreate
           /\ table' = table /\ obj' = obj
    <3>1. CASE Return(c) BY <2>2, <3>1, ReturnAt DEF Ready
    <3>2. ASSUME NEW pc \in AtCreate, Goto(c, pc), table' = table, obj' = obj
          PROVE  /\ caller'[c].id = id /\ caller'[c].op = "create" /\ caller'[c].pc \in AtCreate
                 /\ table' = table /\ obj' = obj
          BY <2>b, <2>2, <3>2, GotoAt
    <3> QED BY <2>1, <3>1, <3>2
  <2>5. CASE i # id BY <1>0, <1>a, <1>d, <2>3, <2>4, <2>5, ProcsFrame
  <2>6. CASE i = id
    <3>1. CallerAt(i, c) BY <1>d, <2>6, <2>b DEF ProcsAt
    <3>2. caller'[c].id = i => CallerAt(i, c)'
          BY <1>0, <2>2, <2>4, <2>6, <3>1 DEF CallerAt, AtCreate
    <3>3. \A p \in Procs : ~(Listed(i, p) /\ proc[p].status \in Going)
          BY <2>2, <3>1, Places DEF Listed, CallerAt
    <3> QED BY <1>a, <1>c, <1>d, <2>2, <2>6, <2>b, <3>2, <3>3, ProcsChange
  <2> QED BY <2>5, <2>6
<1> QED BY <1>1, <1>2

\* An ID that the session whose list changes does not have.
LEMMA ListElsewhere ==
    ASSUME HostInv, PlaceInv, RunInv, NEW i \in IDs, ProcsAt(i), NEW c \in Callers, Moves(c),
           table'[i] = table[i], caller'[c].id # i, NEW o, obj[o].id # i,
           \A a \in DOMAIN obj : /\ a \in DOMAIN obj' /\ obj'[a].id = obj[a].id
                                 /\ a # o => obj'[a].procs = obj[a].procs,
           \A p \in Procs : \/ proc'[p].o = o /\ o \in DOMAIN obj
                            \/ /\ proc'[p].status \in Going => proc[p].status \in Going
                               /\ proc'[p].o = proc[p].o
                               /\ Launched(p) => Launched(p)',
           \A p \in Procs : Quelled(p) => Quelled(p)'
    PROVE  ProcsAt(i)'
<1>1. ASSUME NEW d \in Callers, caller'[d].id = i PROVE CallerAt(i, d)'
  <2>1. caller'[d] = caller[d] BY <1>1 DEF Moves
  <2>2. CallerAt(i, d) BY <1>1, <2>1 DEF ProcsAt
  <2>3. caller'[d].op = "launch" => table'[i] = caller'[d].o /\ caller'[d].p \in obj'[caller'[d].o].procs
        BY <1>1, <2>1, <2>2, Places DEF CallerAt
  <2>4. caller'[d].op = "create" /\ table'[i] # 0 => obj'[table'[i]].procs = {}
        BY <2>1, <2>2, Places DEF CallerAt
  <2>5. ASSUME caller'[d].pc \in {"clear", "zdestroy", "delete"}
        PROVE  obj'[caller'[d].o].procs = obj[caller[d].o].procs /\ caller[d].o \in DOMAIN obj
        BY <1>1, <2>1, <2>5, Places DEF AtDestroy
  <2>6. caller'[d].pc = "clear" => \A p \in obj'[caller'[d].o].procs : Quelled(p)'
    <3> SUFFICES ASSUME caller'[d].pc = "clear", NEW p \in obj'[caller'[d].o].procs PROVE Quelled(p)'
        OBVIOUS
    <3>1. p \in obj[caller[d].o].procs /\ caller[d].o \in DOMAIN obj BY <2>5
    <3>2. Quelled(p) BY <2>1, <2>2, <3>1 DEF CallerAt
    <3>3. p \in Procs BY <3>1 DEF RunInv
    <3> QED BY <3>2, <3>3
  <2>7. caller'[d].pc \in {"zdestroy", "delete"} => obj'[caller'[d].o].procs = {}
        BY <2>1, <2>2, <2>5 DEF CallerAt
  <2> QED BY <2>3, <2>4, <2>6, <2>7 DEF CallerAt
<1>2. ASSUME NEW p \in Procs, proc'[p].status \in Going, obj'[proc'[p].o].id = i
      PROVE  Listed(i, p)' \/ Quelled(p)' \/ Launched(p)'
  <2>1. proc'[p].o # o \/ o \notin DOMAIN obj BY <1>2
  <2>2. proc[p].status \in Going /\ proc'[p].o = proc[p].o /\ (Launched(p) => Launched(p)')
        BY <1>2, <2>1
  <2>3. proc[p].o \in DOMAIN obj BY <2>2, Places
  <2>4. Listed(i, p) \/ Quelled(p) \/ Launched(p) BY <1>2, <2>2, <2>3 DEF ProcsAt
  <2>5. Listed(i, p) => Listed(i, p)' BY <2>1, <2>2, <2>3 DEF Listed
  <2> QED BY <2>2, <2>4, <2>5
<1> QED BY <1>1, <1>2 DEF ProcsAt

LEMMA ProcsElsewhere ==
    ASSUME HostInv, PlaceInv, RunInv, NEW i \in IDs, ProcsAt(i), NEW c \in Callers, Moves(c),
           Tamer, NoLaunch(c), table'[i] = table[i], caller'[c].id # i, NEW o, obj[o].id # i,
           \A a \in DOMAIN obj : /\ a \in DOMAIN obj' /\ obj'[a].id = obj[a].id
                                 /\ a # o => obj'[a].procs = obj[a].procs
    PROVE  ProcsAt(i)'
<1>0. \A p \in Procs : (Launched(p) => Launched(p)') /\ (Quelled(p) => Quelled(p)')
      BY LaunchedOn, QuelledOn
<1> QED BY <1>0, ListElsewhere DEF Tamer

\* Places of a call that knows nothing of processes.
LEMMA PlainAt ==
    ASSUME PlaceInv', NEW i, NEW c \in Callers, caller'[c].op # "launch",
           caller'[c].pc \in {"ready", "drain", "kill", "shut"}
    PROVE  CallerAt(i, c)'
<1>1. caller'[c].op # "create" BY DEF PlaceInv, Holds, AtCreate
<1> QED BY <1>1 DEF CallerAt

LEMMA DestroyProcs ==
    ASSUME HostInv, PlaceInv, PlaceInv', DatasetInv, RunInv, ProcessInv, NEW c \in Callers,
           Grows(obj, obj'), Moves(c), Destroy(c)
    PROVE  ProcessInv'
<1>0. /\ Holds(caller[c], obj) /\ DOMAIN caller = Callers /\ DOMAIN table = IDs /\ Sessions(obj)
      /\ None \notin IDs /\ IsCall(caller[c])
      BY HostAssumption DEF PlaceInv, HostInv, CallsOK, TableOK
<1>a. (~ClearProcesses(c) => SameLists) /\ Tamer /\ NoLaunch(c) BY DestroyTame
<1>1. CASE ~(KillProcesses(c) \/ ClearProcesses(c) \/ DestroySessionDataset(c) \/ DeleteSession(c))
  <2>1. UNCHANGED <<table, leaked>>
        BY <1>1 DEF Destroy, DestroySession, DestroyDrained, Shutdown, ShutdownNext, CloseGVisor
  <2>2. caller'[c].pc \in {"ready", "drain", "kill", "shut"}
    <3>1. ASSUME NEW id, NEW op, NEW todo, DestroyObject(c, id, op, todo)
          PROVE  caller'[c].pc = "drain"
      <4> DEFINE o == table[id]
      <4>1. caller' = [caller EXCEPT ![c] = [Ready EXCEPT !.pc = "drain", !.op = op, !.id = id,
                                                          !.o = o, !.todo = todo]]
            BY <3>1 DEF DestroyObject
      <4> HIDE DEF o
      <4> QED BY <1>0, <4>1 DEF Ready
    <3>2. ASSUME NEW id, DestroySession(c, id) PROVE caller'[c].pc = "drain"
          BY <3>1, <3>2 DEF DestroySession
    <3>3. CASE DestroyDrained(c)
      <4>1. Goto(c, "kill") \/ Return(c) BY <3>3 DEF DestroyDrained
      <4> QED BY <4>1, GotoAt, ReturnAt DEF Ready
    <3>4. CASE Shutdown(c)
      <4> DEFINE todo == {i \in IDs : table[i] # 0}
      <4>1. caller' = [caller EXCEPT ![c] = [Ready EXCEPT !.pc = "shut", !.op = "shutdown",
                                                          !.todo = todo]]
            BY <3>4 DEF Shutdown
      <4> HIDE DEF todo
      <4> QED BY <1>0, <4>1 DEF Ready
    <3>5. CASE ShutdownNext(c)
      <4>1. /\ caller[c].pc = "shut"
            /\ \/ \E id, todo : DestroyObject(c, id, "shutdown", todo)
               \/ \E i : caller' = [caller EXCEPT ![c].todo = @ \ {i}]
            BY <3>5 DEF ShutdownNext
      <4>2. ASSUME NEW i, caller' = [caller EXCEPT ![c].todo = @ \ {i}] PROVE caller'[c].pc = "shut"
            BY <1>0, <4>1, <4>2 DEF IsCall, CallFields
      <4> QED BY <3>1, <4>1, <4>2
    <3>6. CASE CloseGVisor(c) BY <1>0, <3>6 DEF CloseGVisor, Ready
    <3> QED BY <1>1, <3>2, <3>3, <3>4, <3>5, <3>6 DEF Destroy
  <2>3. \A i \in IDs : CallerAt(i, c)' BY <1>a, <2>2, PlainAt DEF NoLaunch
  <2> QED BY <1>a, <1>1, <2>1, <2>3, LightProcs
<1>2. CASE KillProcesses(c)
  <2>b. PICK id, o : id = caller[c].id /\ o = caller[c].o OBVIOUS
  <2>1. /\ caller[c].pc = "kill" /\ Goto(c, "clear") /\ UNCHANGED <<table, obj, job, runtime>>
        /\ leaked \subseteq leaked' /\ Cancelled(obj[o].procs) /\ SameLists
        /\ \/ alive' = alive \ {p \in obj[o].procs : proc[p].handle = "cmd"}
           \/ id \in leaked'
        BY <1>2, <2>b, StillLists DEF KillProcesses, config
  <2>2. /\ o \in DOMAIN obj /\ obj[o].id = id /\ id \in IDs /\ caller[c].op \in Life
        /\ caller[c].op \in Destroys
        BY <1>0, <2>1, <2>b, Places DEF AtDestroy, Holds, Destroys, Life
  <2>3. /\ caller'[c].pc = "clear" /\ caller'[c].op = caller[c].op /\ caller'[c].id = id
        /\ caller'[c].o = o
        BY <2>1, <2>b, GotoAt
  <2>4. ASSUME Clean(id)', NEW p \in obj[o].procs PROVE Quelled(p)'
    <3>1. p \in Procs /\ proc[p].o = o /\ proc[p].status # "unused" /\ EntryOK(p)
          BY <2>2, <2>4 DEF RunInv
    <3>2. alive' = alive \ {q \in obj[o].procs : proc[q].handle = "cmd"} BY <2>1, <2>4 DEF Clean
    <3>3. /\ proc'[p].status = proc[p].status /\ proc'[p].handle = proc[p].handle
          /\ (proc[p].handle = "cancel" /\ proc[p].status # "exited") => proc'[p].cancelled
          BY <1>a, <2>1, <2>4, <3>1, <3>2, CancelledTames DEF Tamer
    <3>4. proc[p].status # "starting"
      <4> SUFFICES ASSUME NEW d \in Callers, caller[d].op = "launch", caller[d].p = p PROVE FALSE
          BY <3>1 DEF RunInv, Launched
      <4>1. caller[d].o = o BY <3>1 DEF RunInv, LaunchOK
      <4>2. caller[d].id = id BY <2>2, <4>1, Places
      <4>3. Clean(id) BY <2>1, <2>4, CleanBefore DEF Moves
      <4>4. d # c BY <2>2 DEF Life
      <4> QED BY <2>2, <2>b, <4>2, <4>3, <4>4, Alone
    <3>5. CASE proc[p].status = "exited" BY <3>1, <3>2, <3>3, <3>5 DEF EntryOK, Going, Quelled
    <3>6. CASE proc[p].status = "running" BY <3>1, <3>2, <3>3, <3>6, <2>4 DEF EntryOK, Quelled
    <3> QED BY <3>1, <3>4, <3>5, <3>6 DEF EntryOK, Going
  <2>5. \A i \in IDs : caller'[c].id = i /\ Clean(i)' => CallerAt(i, c)'
        BY <2>1, <2>2, <2>3, <2>4 DEF CallerAt, Destroys
  <2> QED BY <1>a, <2>1, <2>5, LightProcs
<1>3. CASE DestroySessionDataset(c)
  <2>1. /\ caller[c].pc = "zdestroy" /\ Goto(c, "delete") /\ UNCHANGED <<table, obj>>
        /\ leaked \subseteq leaked' /\ ~ClearProcesses(c)
        BY <1>3 DEF DestroySessionDataset, DestroyDataset, ClearProcesses
  <2>2. /\ caller'[c].pc = "delete" /\ caller'[c].op = caller[c].op /\ caller'[c].id = caller[c].id
        /\ caller'[c].o = caller[c].o
        BY <2>1, GotoAt
  <2>3. caller[c].op \notin {"create", "launch"} BY <1>0, <2>1 DEF Holds, AtCreate
  <2>4. ASSUME NEW i \in IDs, caller'[c].id = i, ProcsAt(i) PROVE CallerAt(i, c)'
    <3>1. CallerAt(i, c) BY <2>2, <2>4 DEF ProcsAt
    <3> QED BY <2>1, <2>2, <2>3, <3>1 DEF CallerAt
  <2> QED BY <1>a, <2>1, <2>4, LightProcs
<1>4. CASE ClearProcesses(c) \/ DeleteSession(c)
  <2>b. PICK id, o : id = caller[c].id /\ o = caller[c].o OBVIOUS
  <2>1. /\ caller[c].pc \in {"clear", "delete"} /\ leaked' = leaked
        /\ \/ /\ table' = table /\ Set(o, [obj[o] EXCEPT !.procs = {}])
              /\ \E pc \in {"zdestroy", "delete"} : Goto(c, pc)
           \/ table' = [table EXCEPT ![id] = 0] /\ obj' = obj /\ Return(c)
        BY <1>4, <2>b DEF ClearProcesses, DeleteSession, Delete
  <2>2. /\ o \in DOMAIN obj /\ obj[o].id = id /\ id \in IDs /\ caller[c].op \in Destroys
        BY <1>0, <2>1, <2>b, Places DEF AtDestroy, Holds
  <2>3. /\ IsSession(obj[o]) /\ caller[c].op \in Life
        BY <1>0, <2>2 DEF Sessions, Destroys, Life
  <2> SUFFICES ASSUME NEW i \in IDs, Clean(i)' PROVE ProcsAt(i)' BY DEF ProcessInv
  <2>4. Clean(i) BY <2>1, CleanBefore DEF Moves
  <2>5. ProcsAt(i) /\ DatasetAt(i) BY <2>4 DEF ProcessInv, DatasetInv
  <2>6. /\ caller'[c].id \in {id, None}
        /\ \/ /\ caller'[c].id = id /\ caller'[c].pc \in {"zdestroy", "delete"} /\ caller'[c].o = o
              /\ obj'[o].procs = {} /\ caller'[c].op = caller[c].op
           \/ caller'[c].pc \in {"ready", "shut"}
    <3>1. ASSUME NEW pc \in {"zdestroy", "delete"}, Goto(c, pc), Set(o, [obj[o] EXCEPT !.procs = {}])
          PROVE  /\ caller'[c].id = id /\ caller'[c].pc \in {"zdestroy", "delete"} /\ caller'[c].o = o
                 /\ obj'[o].procs = {} /\ caller'[c].op = caller[c].op
      <4>1. obj'[o].procs = {} BY <2>2, <2>3, <3>1 DEF Set, IsSession, SessionFields
      <4> QED BY <2>b, <3>1, <4>1, GotoAt
    <3>2. CASE Return(c) BY <2>b, <3>2, ReturnAt DEF Ready
    <3> QED BY <2>1, <3>1, <3>2
  <2>7. CASE i = id
    <3>1. CallerAt(i, c) BY <2>5, <2>7, <2>b DEF ProcsAt
    <3>2. table[i] = o
      <4>1. CallFits(caller[c], table, obj, ds) BY <2>5, <2>7, <2>b DEF DatasetAt
      <4>2. caller[c].pc # "shut" BY <2>1
      <4> QED BY <2>2, <2>7, <2>b, <4>1, <4>2 DEF CallFits, DestroyOK
    <3>3. \A p \in Procs : Listed(i, p) /\ proc[p].status \in Going => Quelled(p)
          BY <2>1, <2>b, <3>1, <3>2 DEF Listed, CallerAt
    <3>4. CallerAt(i, c)'
      <4>1. CASE caller'[c].pc \in {"ready", "shut"} BY <1>a, <4>1, PlainAt DEF NoLaunch
      <4>2. CASE /\ caller'[c].id = id /\ caller'[c].pc \in {"zdestroy", "delete"} /\ caller'[c].o = o
                 /\ obj'[o].procs = {} /\ caller'[c].op = caller[c].op
            BY <2>2, <4>2 DEF CallerAt, Destroys
      <4> QED BY <2>6, <4>1, <4>2
    <3> QED BY <1>a, <2>3, <2>4, <2>5, <2>7, <2>b, <3>3, <3>4, ProcsChange
  <2>8. CASE i # id
    <3>1. table'[i] = table[i] BY <1>0, <2>1, <2>2, <2>8
    <3>2. caller'[c].id # i BY <1>0, <2>6, <2>8
    <3>3. \A a \in DOMAIN obj : /\ a \in DOMAIN obj' /\ obj'[a].id = obj[a].id
                                /\ a # o => obj'[a].procs = obj[a].procs
          BY <2>1 DEF Set, Grows, Follows
    <3> QED BY <1>a, <2>2, <2>5, <2>8, <3>1, <3>2, <3>3, ProcsElsewhere
  <2> QED BY <2>7, <2>8
<1> QED BY <1>1, <1>2, <1>3, <1>4

\* The ID whose session a launch changes: no create and no destroy is at work.
LEMMA ProcsLaunch ==
    ASSUME HostInv, PlaceInv, PlaceInv', RunInv, NEW i \in IDs, ProcsAt(i), NEW c \in Callers,
           Grows(obj, obj'), Moves(c), table' = table, NEW p \in Procs,
           \A d \in Callers \ {c} : caller'[d].id = i => caller'[d].op \notin Life,
           \A d \in Callers \ {c} : caller[d].op = "launch" => caller[d].p # p,
           caller[c].op = "launch" => caller[c].p = p,
           \A q \in Procs \ {p} : proc'[q] = proc[q] /\ (q \in alive' <=> q \in alive),
           \A o \in DOMAIN obj : \A q \in obj[o].procs \ {p} :
               proc[q].status \in Going => q \in obj'[o].procs,
           caller'[c].id = i => CallerAt(i, c)',
           (proc'[p].status \in Going /\ obj'[proc'[p].o].id = i) => Listed(i, p)' \/ Launched(p)'
    PROVE  ProcsAt(i)'
<1>1. ASSUME NEW d \in Callers, caller'[d].id = i PROVE CallerAt(i, d)'
  <2>1. CASE d = c BY <1>1, <2>1
  <2>2. CASE d # c /\ caller'[d].op # "launch"
    <3>1. caller'[d].op \notin Weighty BY <1>1, <2>2 DEF Weighty
    <3> QED BY <3>1, LightAt
  <2>3. CASE d # c /\ caller'[d].op = "launch"
    <3>1. caller'[d] = caller[d] BY <2>3 DEF Moves
    <3>2. table[i] = caller[d].o /\ caller[d].p \in obj[caller[d].o].procs
          BY <1>1, <2>3, <3>1 DEF ProcsAt, CallerAt
    <3>3. caller[d].p # p /\ proc[caller[d].p].status \in Going /\ caller[d].o \in DOMAIN obj
          BY <2>3, <3>1, Places DEF RunInv, LaunchOK, Going
    <3>4. caller'[d].pc \notin {"clear", "zdestroy", "delete"}
          BY <2>3 DEF PlaceInv, Holds, AtDestroy, Destroys
    <3> QED BY <2>3, <3>1, <3>2, <3>3, <3>4 DEF CallerAt
  <2> QED BY <2>1, <2>2, <2>3
<1>2. ASSUME NEW q \in Procs, proc'[q].status \in Going, obj'[proc'[q].o].id = i
      PROVE  Listed(i, q)' \/ Quelled(q)' \/ Launched(q)'
  <2>1. CASE q = p BY <1>2, <2>1
  <2>2. CASE q # p
    <3>1. proc'[q] = proc[q] /\ proc[q].status \in Going BY <1>2, <2>2
    <3>2. proc[q].o \in DOMAIN obj BY <3>1, Places
    <3>3. obj[proc[q].o].id = i BY <1>2, <3>1, <3>2 DEF Grows, Follows
    <3>4. Listed(i, q) \/ Quelled(q) \/ Launched(q) BY <3>1, <3>3 DEF ProcsAt
    <3>5. Listed(i, q) => Listed(i, q)' BY <2>2, <3>1, <3>2 DEF Listed
    <3>6. Quelled(q) => Quelled(q)' BY <2>2, <3>1 DEF Quelled
    <3>7. Launched(q) => Launched(q)' BY <2>2 DEF Launched, Moves
    <3> QED BY <3>4, <3>5, <3>6, <3>7
  <2> QED BY <2>1, <2>2
<1> QED BY <1>1, <1>2 DEF ProcsAt

\* Beside a launch that is not noted there is neither a create nor a destroy.
LEMMA NoLives ==
    ASSUME PlaceInv, PlaceInv', NEW i \in IDs, NEW c \in Callers, Moves(c), Clean(i), Clean(i)',
           \/ caller[c].id = i /\ caller[c].op = "launch"
           \/ caller'[c].id = i /\ caller'[c].op = "launch",
           NEW d \in Callers \ {c}, caller'[d].id = i
    PROVE  caller'[d].op \notin Life
<1> SUFFICES ASSUME caller'[d].op \in Life PROVE FALSE OBVIOUS
<1>1. caller'[d] = caller[d] BY DEF Moves
<1>2. CASE caller[c].id = i /\ caller[c].op = "launch" BY <1>1, <1>2, Alone
<1>3. CASE caller'[c].id = i /\ caller'[c].op = "launch"
  <2>1. caller'[c].pc # "ready" BY <1>3 DEF PlaceInv, Holds
  <2> QED BY <1>3, <2>1 DEF PlaceInv, Lone, Clean, Mild
<1> QED BY <1>2, <1>3

LEMMA LaunchProcs ==
    ASSUME HostInv, PlaceInv, PlaceInv', RunInv, ProcessInv, NEW c \in Callers, Grows(obj, obj'),
           Moves(c), NEW id \in IDs, NEW p \in Procs, LaunchProcess(c, id, p)
    PROVE  ProcessInv'
<1>b. PICK o : o = table[id] OBVIOUS
<1> DEFINE e == [proc[p] EXCEPT !.status = "starting", !.o = o]
           k == [Ready EXCEPT !.pc = "start", !.op = "launch", !.id = id, !.o = o, !.p = p]
<1>1. /\ caller' = [caller EXCEPT ![c] = k] /\ proc' = [proc EXCEPT ![p] = e]
      /\ UNCHANGED <<table, leaked, alive>> /\ proc[p].status = "unused" /\ o # 0
      /\ caller[c].pc = "ready"
      BY <1>b DEF LaunchProcess, Active, Begin
<1>2. EntryOK(p) /\ o \in DOMAIN obj /\ IsSession(obj[o]) /\ obj[o].id = id
      BY <1>1, <1>b DEF RunInv, HostInv, TableOK, Sessions
<1>3. PICK S : /\ obj' = [obj EXCEPT ![o] = [obj[o] EXCEPT !.procs = S \cup {p}]]
               /\ \A q \in obj[o].procs : proc[q].status # "exited" => q \in S
      BY <1>b DEF LaunchProcess, pruneExitedProcesses, Set
<1>4. k.pc = "start" /\ k.op = "launch" /\ k.o = o /\ k.p = p /\ k.id = id BY DEF Ready
<1>5. /\ e.o = o /\ e.cancelled = proc[p].cancelled
      BY <1>2 DEF EntryOK, ProcFields
<1> HIDE DEF e, k
<1>6. /\ proc'[p] = e /\ \A q \in Procs \ {p} : proc'[q] = proc[q]
      BY <1>1 DEF RunInv
<1>7. caller'[c] = k /\ caller[c].op # "launch" BY <1>1 DEF HostInv, CallsOK, PlaceInv, Holds
<1>8. obj'[o].procs = S \cup {p} BY <1>2, <1>3 DEF IsSession, SessionFields
<1>9. \A a \in DOMAIN obj : /\ a \in DOMAIN obj' /\ obj'[a].id = obj[a].id
                            /\ a # o => obj'[a].procs = obj[a].procs
      BY <1>3 DEF Grows, Follows
<1>10. \A q \in Procs : Quelled(q) => Quelled(q)'
  <2>1. proc[p].handle = "none" BY <1>1, <1>2 DEF EntryOK
  <2> QED BY <1>1, <1>5, <1>6, <2>1 DEF Quelled
<1> SUFFICES ASSUME NEW i \in IDs, Clean(i)' PROVE ProcsAt(i)' BY DEF ProcessInv
<1>11. Clean(i) BY <1>1, CleanBefore DEF Moves
<1>12. ProcsAt(i) BY <1>11 DEF ProcessInv
<1>13. CASE i # id
  <2>1. caller'[c].id # i BY <1>4, <1>7, <1>13
  <2>2. \A q \in Procs : Launched(q) => Launched(q)' BY <1>7 DEF Launched, Moves
  <2>3. obj[o].id # i BY <1>2, <1>13
  <2> QED BY <1>1, <1>2, <1>5, <1>6, <1>9, <1>10, <1>12, <2>1, <2>2, <2>3, ListElsewhere
<1>14. CASE i = id
  <2>1. \A d \in Callers \ {c} : caller'[d].id = i => caller'[d].op \notin Life
        BY <1>4, <1>7, <1>11, <1>14, NoLives
  <2>2. \A d \in Callers : caller[d].op = "launch" => caller[d].p # p
        BY <1>1 DEF RunInv, LaunchOK
  <2>3. \A a \in DOMAIN obj : \A q \in obj[a].procs \ {p} :
            proc[q].status \in Going => q \in obj'[a].procs
        BY <1>3, <1>8, <1>9 DEF Going
  <2>4. CallerAt(i, c)' BY <1>1, <1>4, <1>7, <1>8, <1>14, <1>b DEF CallerAt
  <2>5. Launched(p)' BY <1>4, <1>7 DEF Launched
  <2> QED BY <1>1, <1>6, <1>7, <1>12, <2>1, <2>2, <2>3, <2>4, <2>5, ProcsLaunch
<1> QED BY <1>13, <1>14

LEMMA StartProcs ==
    ASSUME HostInv, PlaceInv, PlaceInv', RunInv, ProcessInv, NEW c \in Callers, Grows(obj, obj'),
           Moves(c), StartProcess(c)
    PROVE  ProcessInv'
<1>b. PICK p, o, id : p = caller[c].p /\ o = caller[c].o /\ id = caller[c].id OBVIOUS
<1>0. /\ caller[c].pc = "start" /\ caller[c].op = "launch" /\ p \in Procs
      /\ o \in DOMAIN obj /\ obj[o].id = id /\ id \in IDs /\ UNCHANGED <<table, leaked>>
      BY <1>b DEF StartProcess, PlaceInv, Holds
<1>1. /\ EntryOK(p) /\ proc[p].status = "starting" /\ proc[p].o = o /\ p \notin alive
      /\ DOMAIN proc = Procs /\ IsSession(obj[o])
      BY <1>b, <1>0 DEF RunInv, LaunchOK, HostInv, Sessions
<1>2. \A d \in Callers \ {c} : caller[d].op = "launch" => caller[d].p # p
      BY <1>b, <1>0 DEF RunInv
<1>3. \/ /\ alive' \in {alive, alive \cup {p}} /\ UNCHANGED <<obj, proc>>
         /\ caller'[c].pc = "handle" /\ caller'[c].op = "launch" /\ caller'[c].p = p
         /\ caller'[c].o = o /\ caller'[c].id = id
      \/ /\ Set(o, [obj[o] EXCEPT !.procs = @ \ {p}])
         /\ proc' = [proc EXCEPT ![p].status = "exited"]
         /\ alive' = alive /\ caller'[c] = Ready
  <2>1. CASE Goto(c, "handle") /\ UNCHANGED <<obj, proc>>
             /\ alive' = (IF runtime = "none" THEN alive \cup {p} ELSE alive)
        BY <1>0, <1>b, <2>1, GotoAt
  <2>2. CASE /\ Set(o, [obj[o] EXCEPT !.procs = @ \ {p}])
             /\ proc' = [proc EXCEPT ![p].status = "exited"]
             /\ Return(c) /\ alive' = alive
        BY <1>0, <2>2, ReturnAt
  <2> QED BY <1>b, <2>1, <2>2 DEF StartProcess
<1>4. /\ \A q \in Procs \ {p} : proc'[q] = proc[q] /\ (q \in alive' <=> q \in alive)
      /\ proc'[p].o = o /\ proc'[p].cancelled = proc[p].cancelled
      BY <1>0, <1>1, <1>3 DEF EntryOK, ProcFields
<1>5. /\ \A a \in DOMAIN obj : /\ a \in DOMAIN obj' /\ obj'[a].id = obj[a].id
                               /\ a # o => obj'[a].procs = obj[a].procs
      /\ obj'[o].procs = obj[o].procs \/ obj'[o].procs = obj[o].procs \ {p}
      BY <1>0, <1>1, <1>3 DEF Set, Grows, Follows, IsSession, SessionFields
<1>6. \A q \in Procs : Quelled(q) => Quelled(q)'
  <2>1. Quelled(p) => Quelled(p)' BY <1>1, <1>4 DEF Quelled, EntryOK
  <2> QED BY <1>4, <2>1 DEF Quelled
<1> SUFFICES ASSUME NEW i \in IDs, Clean(i)' PROVE ProcsAt(i)' BY DEF ProcessInv
<1>7. Clean(i) BY <1>0, CleanBefore DEF Moves
<1>8. ProcsAt(i) BY <1>7 DEF ProcessInv
<1>9. None \notin IDs /\ (caller'[c] = Ready => caller'[c].id = None) BY HostAssumption DEF Ready
<1>10. CASE i # id
  <2>1. caller'[c].id # i BY <1>3, <1>9, <1>10
  <2>2. \A q \in Procs \ {p} : Launched(q) => Launched(q)' BY <1>b DEF Launched, Moves
  <2>3. obj[o].id # i BY <1>0, <1>10
  <2> QED BY <1>0, <1>4, <1>5, <1>6, <1>8, <2>1, <2>2, <2>3, ListElsewhere
<1>11. CASE i = id
  <2>1. \A d \in Callers \ {c} : caller'[d].id = i => caller'[d].op \notin Life
        BY <1>0, <1>b, <1>7, <1>11, NoLives
  <2>2. \A a \in DOMAIN obj : \A q \in obj[a].procs \ {p} :
            proc[q].status \in Going => q \in obj'[a].procs
        BY <1>5
  <2>3. caller'[c].id = i => CallerAt(i, c)'
    <3>1. CallerAt(i, c) BY <1>8, <1>11, <1>b DEF ProcsAt
    <3> QED BY <1>0, <1>3, <1>9, <1>b, <3>1 DEF CallerAt
  <2>4. proc'[p].status \in Going => Launched(p)'
    <3>1. CASE caller'[c] = Ready
      <4>1. proc'[p].status = "exited" BY <1>0, <1>1, <1>3, <3>1 DEF Ready, EntryOK, ProcFields
      <4> QED BY <4>1 DEF Going
    <3>2. CASE caller'[c].op = "launch" /\ caller'[c].p = p BY <3>2 DEF Launched
    <3> QED BY <1>3, <3>1, <3>2
  <2> QED BY <1>0, <1>2, <1>4, <1>8, <1>b, <2>1, <2>2, <2>3, <2>4, ProcsLaunch
<1> QED BY <1>10, <1>11

LEMMA HandleProcs ==
    ASSUME HostInv, PlaceInv, PlaceInv', RunInv, ProcessInv, NEW c \in Callers, Grows(obj, obj'),
           Moves(c), StoreHandle(c)
    PROVE  ProcessInv'
<1>b. PICK p, o, id, h : /\ p = caller[c].p /\ o = caller[c].o /\ id = caller[c].id
                         /\ h = (IF runtime = "none" THEN "cmd" ELSE "cancel")
      OBVIOUS
<1> DEFINE e == [proc[p] EXCEPT !.handle = h, !.status = "running"]
<1>0. /\ caller[c].pc = "handle" /\ caller[c].op = "launch" /\ p \in Procs
      /\ o \in DOMAIN obj /\ obj[o].id = id /\ id \in IDs /\ UNCHANGED <<table, obj, alive, leaked>>
      /\ Return(c)
      BY <1>b DEF StoreHandle, PlaceInv, Holds
<1>a. proc' = [proc EXCEPT ![p] = e] BY <1>b DEF StoreHandle
<1>1. /\ EntryOK(p) /\ proc[p].status = "starting" /\ proc[p].o = o /\ DOMAIN proc = Procs
      BY <1>b, <1>0 DEF RunInv, LaunchOK
<1>2. \A d \in Callers \ {c} : caller[d].op = "launch" => caller[d].p # p
      BY <1>b, <1>0 DEF RunInv
<1>3. caller'[c] = Ready BY <1>0, ReturnAt
<1>4. e.o = o /\ e.cancelled = proc[p].cancelled BY <1>1 DEF EntryOK, ProcFields
<1> HIDE DEF e
<1>5. proc'[p] = e /\ \A q \in Procs \ {p} : proc'[q] = proc[q] BY <1>0, <1>1, <1>a
<1>6. \A q \in Procs : Quelled(q) => Quelled(q)'
  <2>1. Quelled(p) => Quelled(p)' BY <1>1, <1>4, <1>5 DEF Quelled, EntryOK
  <2> QED BY <1>0, <1>5, <2>1 DEF Quelled
<1> SUFFICES ASSUME NEW i \in IDs, Clean(i)' PROVE ProcsAt(i)' BY DEF ProcessInv
<1>7. Clean(i) BY <1>0, CleanBefore DEF Moves
<1>8. ProcsAt(i) BY <1>7 DEF ProcessInv
<1>9. caller'[c].id # i BY <1>3, HostAssumption DEF Ready
<1>10. CASE i # id
  <2>2. \A q \in Procs \ {p} : Launched(q) => Launched(q)' BY <1>b DEF Launched, Moves
  <2>3. obj[o].id # i BY <1>0, <1>10
  <2> QED BY <1>0, <1>4, <1>5, <1>6, <1>8, <1>9, <2>2, <2>3, ListElsewhere
<1>11. CASE i = id
  <2>1. \A d \in Callers \ {c} : caller'[d].id = i => caller'[d].op \notin Life
        BY <1>0, <1>b, <1>7, <1>11, NoLives
  <2>2. CallerAt(i, c) BY <1>8, <1>11, <1>b DEF ProcsAt
  <2>3. Listed(i, p)' BY <1>0, <1>4, <1>5, <1>b, <2>2 DEF Listed, CallerAt
  <2> QED BY <1>0, <1>2, <1>5, <1>8, <1>9, <1>b, <2>1, <2>3, ProcsLaunch
<1> QED BY <1>10, <1>11

LEMMA ByRunProcs ==
    ASSUME HostInv, PlaceInv, RunInv, ProcessInv, ByRun
    PROVE  ProcessInv'
<1>0. UNCHANGED <<table, obj, caller, overlap, leaked>> BY RunsKeep
<1>1. ASSUME NEW q \in Procs
      PROVE  /\ Quelled(q) => Quelled(q)'
             /\ proc'[q].o = proc[q].o
             /\ proc'[q].status \in Going => proc[q].status \in Going
  <2>0. EntryOK(q) /\ DOMAIN proc = Procs /\ DOMAIN job = Jobs BY DEF RunInv
  <2>1. ASSUME NEW p \in Procs, ProcessExits(p)
        PROVE  /\ Quelled(q) => Quelled(q)'
               /\ proc'[q].o = proc[q].o
               /\ proc'[q].status \in Going => proc[q].status \in Going
        BY <2>1 DEF ProcessExits, Quelled
  <2>2. ASSUME NEW p \in Procs, MonitorExit(p)
        PROVE  /\ Quelled(q) => Quelled(q)'
               /\ proc'[q].o = proc[q].o
               /\ proc'[q].status \in Going => proc[q].status \in Going
    <3>1. alive' = alive /\ proc' = [proc EXCEPT ![p].status = "exited"] BY <2>2 DEF MonitorExit
    <3>2. CASE q = p
      <4>1. /\ proc'[q].status = "exited" /\ proc'[q].o = proc[q].o
            /\ proc'[q].handle = proc[q].handle /\ proc'[q].cancelled = proc[q].cancelled
            BY <2>0, <3>1, <3>2 DEF EntryOK, ProcFields
      <4> QED BY <3>1, <4>1 DEF Quelled, Going
    <3>3. CASE q # p
      <4>1. proc'[q] = proc[q] BY <2>0, <3>1, <3>3
      <4> QED BY <3>1, <4>1 DEF Quelled
    <3> QED BY <3>2, <3>3
  <2>3. ASSUME NEW j \in Jobs, RunEnter(j) \/ RunSlot(j) \/ RunStart(j) \/ RunExit(j)
        PROVE  /\ Quelled(q) => Quelled(q)'
               /\ proc'[q].o = proc[q].o
               /\ proc'[q].status \in Going => proc[q].status \in Going
    <3>1. proc' = proc BY <2>3 DEF RunEnter, RunSlot, RunStart, RunExit
    <3>2. q \in alive' => \/ q \in alive
                          \/ q = j /\ job[j] = "slotted"
          BY <2>3 DEF RunEnter, RunSlot, RunStart, RunExit, runContainer
    <3>3. q \in alive' => \/ q \in alive
                          \/ proc[q].handle = "cancel" /\ proc[q].status = "running"
          BY <2>0, <3>2 DEF EntryOK
    <3> QED BY <3>1, <3>3 DEF Quelled
  <2> QED BY <2>1, <2>2, <2>3 DEF ByRun
<1>2. \A q : Launched(q) => Launched(q)' BY <1>0 DEF Launched
<1> SUFFICES ASSUME NEW i \in IDs, Clean(i)' PROVE ProcsAt(i)' BY DEF ProcessInv
<1>3. ProcsAt(i) BY <1>0 DEF ProcessInv, Clean
<1>4. ASSUME NEW d \in Callers, caller'[d].id = i PROVE CallerAt(i, d)'
  <2>1. CallerAt(i, d) BY <1>0, <1>3, <1>4 DEF ProcsAt
  <2>2. ASSUME caller[d].pc = "clear", NEW p \in obj[caller[d].o].procs PROVE Quelled(p)'
    <3>1. Quelled(p) BY <2>1, <2>2 DEF CallerAt
    <3>2. p \in Procs BY <2>2, Places DEF RunInv, AtDestroy
    <3> QED BY <1>1, <3>1, <3>2
  <2> QED BY <1>0, <2>1, <2>2 DEF CallerAt
<1>5. ASSUME NEW p \in Procs, proc'[p].status \in Going, obj'[proc'[p].o].id = i
      PROVE  Listed(i, p)' \/ Quelled(p)' \/ Launched(p)'
  <2>1. Listed(i, p) \/ Quelled(p) \/ Launched(p) BY <1>0, <1>1, <1>3, <1>5 DEF ProcsAt
  <2>2. Listed(i, p) => Listed(i, p)' BY <1>0, <1>1 DEF Listed
  <2> QED BY <1>1, <1>2, <2>1, <2>2
<1> QED BY <1>4, <1>5 DEF ProcsAt

LEMMA ProcessesStep ==
    HostInv /\ PlaceInv /\ DatasetInv /\ RunInv /\ ProcessInv /\ [Next]_vars => ProcessInv'
<1> SUFFICES ASSUME HostInv, PlaceInv, DatasetInv, RunInv, ProcessInv, [Next]_vars PROVE ProcessInv'
    OBVIOUS
<1>0. Grows(obj, obj') /\ PlaceInv' BY StepHolds, PlaceStep DEF Outcome
<1>1. ASSUME NEW c \in Callers, ByCall(c) PROVE ProcessInv'
  <2>1. Moves(c) BY <1>0, <1>1, CallsMove
  <2>2. CASE Create(c) BY <1>0, <2>1, <2>2, CreateProcs
  <2>3. CASE Destroy(c) BY <1>0, <2>1, <2>3, DestroyProcs
  <2>4. CASE Pause(c) \/ Snapshot(c) \/ Tool(c) BY <1>0, <2>1, <2>4, OthersProcs
  <2>5. ASSUME NEW id \in IDs, NEW p \in Procs, KillProcess(c, id, p) PROVE ProcessInv'
    <3>1. /\ UNCHANGED <<table, leaked, caller>> /\ caller[c].pc = "ready"
          BY <2>5 DEF KillProcess, Begin
    <3>2. SameLists /\ Tamer /\ NoLaunch(c) BY <2>5, KillTame
    <3>3. \A i \in IDs : CallerAt(i, c)' BY <1>0, <3>1, <3>2, PlainAt DEF NoLaunch
    <3> QED BY <1>0, <2>1, <3>1, <3>2, <3>3, LightProcs
  <2>6. CASE Process(c)
        BY <1>0, <2>1, <2>5, <2>6, LaunchProcs, StartProcs, HandleProcs DEF Process
  <2> QED BY <1>1, <2>2, <2>3, <2>4, <2>6 DEF ByCall
<1>2. CASE ByRun BY <1>2, ByRunProcs
<1>3. CASE UNCHANGED vars
  <2>1. UNCHANGED <<table, obj, caller, proc, alive, overlap, leaked>> BY <1>3 DEF vars
  <2> QED BY <2>1 DEF ProcessInv, ProcsAt, CallerAt, Listed, Quelled, Launched, Clean
<1> QED BY <1>1, <1>2, <1>3 DEF Next, ByCall, ByRun

LEMMA ProcessesInit == Init => ProcessInv
<1> SUFFICES ASSUME Init, NEW i \in IDs PROVE ProcsAt(i) BY DEF ProcessInv
<1>1. \A c \in Callers : caller[c].id # i BY HostAssumption DEF Init, Ready
<1>2. \A p \in Procs : proc[p].status = "unused" BY DEF Init
<1> QED BY <1>1, <1>2 DEF ProcsAt, Going

LEMMA ProcessesInductive == Spec => []ProcessInv
BY ProcessesInit, ProcessesStep, RunInductive, DatasetInductive, PlaceInductive, Inductive, PTL DEF Spec

\* Every session was made for an ID.
Named == \A o \in DOMAIN obj : obj[o].id \in IDs

LEMMA NamedStep == HostInv /\ PlaceInv /\ Named /\ [Next]_vars => Named'
<1> SUFFICES ASSUME HostInv, PlaceInv, Named, [Next]_vars PROVE Named' OBVIOUS
<1>0. Grows(obj, obj') BY StepHolds DEF Outcome
<1>1. ASSUME DOMAIN obj' = DOMAIN obj PROVE Named' BY <1>0, <1>1 DEF Named, Grows, Follows
<1>2. ASSUME obj' = obj \/ \E o, e : Set(o, e) PROVE Named' BY <1>1, <1>2 DEF Set
<1>3. ASSUME NEW id \in IDs, NEW st, NEW b, obj' = Append(obj, Session(id, st, b)) PROVE Named'
  <2> DEFINE e == Session(id, st, b)
  <2>1. IsSession(e) /\ e.tools = 0 /\ e.id = id BY DEF Session, IsSession, SessionFields
  <2> HIDE DEF e
  <2>2. obj' = Append(obj, e) BY <1>3 DEF e
  <2>3. DOMAIN obj = 1..Len(obj) /\ Len(obj) \in Nat /\ obj'[Len(obj) + 1] = e
        BY <2>1, <2>2, AppendGrows DEF HostInv
  <2>4. DOMAIN obj' = 1..(Len(obj) + 1)
    <3> DEFINE S == {obj[i] : i \in DOMAIN obj} \cup {e}
    <3>1. obj \in Seq({obj[i] : i \in DOMAIN obj}) BY DEF HostInv, Sessions
    <3>2. obj \in Seq(S) BY <3>1
    <3>3. e \in S OBVIOUS
    <3> HIDE DEF S
    <3> QED BY <2>2, <3>2, <3>3
  <2>5. \A o \in DOMAIN obj' : o \in DOMAIN obj \/ o = Len(obj) + 1 BY <2>3, <2>4
  <2> QED BY <1>0, <2>1, <2>3, <2>5 DEF Named, Grows, Follows
<1>4. ASSUME NEW c \in Callers, Create(c) PROVE Named'
  <2>1. ASSUME NEW id \in IDs, CreateSession(c, id) PROVE Named'
        BY <1>3, <2>1 DEF CreateSession
  <2>2. CASE StoreSession(c)
    <3>1. obj' = Append(obj, Session(caller[c].id, "active", TRUE)) /\ caller[c].pc = "store"
          BY <2>2 DEF StoreSession
    <3>2. caller[c].id \in IDs BY <3>1 DEF PlaceInv, Holds, AtCreate
    <3> QED BY <1>3, <3>1, <3>2
  <2>3. CASE CloneFromSnapshot(c) \/ SetProperties(c) \/ UndoClone(c) \/ DropPlaceholder(c)
        BY <1>2, <2>3 DEF CloneFromSnapshot, SetProperties, UndoClone, DropPlaceholder
  <2> QED BY <1>4, <2>1, <2>2, <2>3 DEF Create
<1>5. ASSUME NEW c \in Callers, Destroy(c) PROVE Named'
      BY <1>2, <1>5, Zenon DEF Destroy, DestroySession, DestroyDrained, KillProcesses, ClearProcesses,
         DestroySessionDataset, DeleteSession, Shutdown, ShutdownNext, CloseGVisor, DestroyObject
<1>6. ASSUME NEW c \in Callers, Pause(c) PROVE Named'
      BY <1>2, <1>6, Zenon DEF Pause, PauseSession, ResumeSession, PauseDrained, SetPaused
<1>7. ASSUME NEW c \in Callers, Snapshot(c) PROVE Named'
      BY <1>2, <1>7, Zenon DEF Snapshot, TurnComplete, CreateSnapshot, ZFSCreateSnapshot,
         AppendSnapshot, PruneList, ZFSDestroySnapshot, RollbackSession, ZFSRollback, FinishRollback
<1>8. ASSUME NEW c \in Callers, Tool(c) PROVE Named'
      BY <1>2, <1>8, Zenon DEF Tool, ExecuteTool, ToolAnswers, ToolReturns
<1>9. ASSUME NEW c \in Callers, Process(c) PROVE Named'
      BY <1>2, <1>9, Zenon DEF Process, LaunchProcess, KillProcess, StartProcess, StoreHandle
<1>10. CASE ByRun BY <1>2, <1>10, RunsKeep
<1>11. CASE UNCHANGED vars BY <1>2, <1>11 DEF vars
<1> QED BY <1>4, <1>5, <1>6, <1>7, <1>8, <1>9, <1>10, <1>11 DEF Next, ByRun

LEMMA NamedInductive == Spec => []Named
<1>1. Init => Named BY DEF Init, Named
<1> QED BY <1>1, NamedStep, PlaceInductive, Inductive, PTL DEF Spec

LEMMA ProcessesHaveOwners == PlaceInv /\ RunInv /\ Named /\ ProcessInv => ProcessesOwned
<1> SUFFICES ASSUME PlaceInv, RunInv, Named, ProcessInv, NEW p \in Procs \cap alive,
                    Clean(obj[proc[p].o].id)
             PROVE  \/ table[obj[proc[p].o].id] = proc[p].o /\ p \in obj[proc[p].o].procs
                    \/ proc[p].cancelled
                    \/ \E c \in Callers : caller[c].pc # "ready" /\ caller[c].p = p
    BY DEF ProcessesOwned
<1>b. PICK i : i = obj[proc[p].o].id OBVIOUS
<1>1. EntryOK(p) /\ proc[p].status \in Going /\ proc[p].o \in DOMAIN obj
      BY DEF RunInv, EntryOK, Going
<1>2. i \in IDs /\ Clean(i) BY <1>1, <1>b DEF Named
<1>3. Listed(i, p) \/ Quelled(p) \/ Launched(p) BY <1>1, <1>2, <1>b DEF ProcessInv, ProcsAt
<1>4. Quelled(p) => proc[p].cancelled BY DEF Quelled
<1>5. Launched(p) => \E c \in Callers : caller[c].pc # "ready" /\ caller[c].p = p
      BY DEF Launched, PlaceInv, Holds
<1> QED BY <1>3, <1>4, <1>5, <1>b DEF Listed

----------------------------------------------------------------------------
(* Snapshots *)

SnapOps == {"tool", "turn", "snap", "rollback"}

\* The places of a call that takes, prunes or rolls back snapshots, and those at
\* which one of the two lists is ahead of the other.
AtSnap == {"zsnap", "append", "prune", "zdel"} \cup AtRollback

AtGap == {"append", "zdel", "rolled", "rollfail"}

\* What such a call is and holds; only with PerToolSnapshots is it a tool.
SnapHolds(k, s, w) ==
    /\ k.pc \in {"zsnap", "append"} => k.op \in {"turn", "snap", "tool"}
    /\ k.pc \in {"prune", "zdel"} => k.op = "turn"
    /\ k.op \in SnapOps => k.id \in IDs /\ k.o \in DOMAIN s /\ s[k.o].id = k.id
    /\ k.op = "tool" /\ k.pc \in {"zsnap", "append"} => "toolsnap" \in w

\* Calls in flight together whose snapshots interfere are noted.
Paired ==
    \A c, d \in Callers :
        (c # d /\ caller[c].pc # "ready" /\ caller[d].pc # "ready" /\ caller[c].id = caller[d].id
         /\ caller[c].id \in IDs /\ "snap" \in Conflicts(caller[c].op, caller[d].op)) =>
            <<caller[c].id, "snap">> \in overlap

RollNoted == \A i \in IDs : <<i, "roll">> \in overlap => <<i, "snap">> \in overlap

\* A create, or a destroy that has waited for the tools.
Busy(k) == k.op = "create" \/ (k.op \in Destroys /\ k.pc \in AtDestroy)

\* A tool, a snapshot or a rollback works on the session of the table, and not
\* while the session is made or taken down.
SnapPlace(i) ==
    /\ \A d \in Callers : caller[d].op \in SnapOps /\ caller[d].id = i => caller[d].o = table[i]
    /\ \A c, d \in Callers : Busy(caller[c]) /\ caller[c].id = i /\ caller[d].op \in SnapOps =>
           caller[d].id # i

WriterInv ==
    /\ \A c \in Callers : SnapHolds(caller[c], obj, workload)
    /\ Paired /\ RollNoted
    /\ \A i \in IDs : Clean(i) => SnapPlace(i)

Tidy(i) == Clean(i) /\ <<i, "snap">> \notin overlap

Plain(s) == s \in Seq({s[j] : j \in DOMAIN s})

\* A list that names nothing twice.
Names(s) == Plain(s) /\ \A j, k \in 1..Len(s) : s[j] = s[k] => j = k

\* d is a, after the snapshots of todo.
Ahead(a, d, todo) ==
    /\ Len(a) <= Len(d)
    /\ \A j \in 1..Len(a) : a[j] = d[Len(d) - Len(a) + j]
    /\ todo = {d[j] : j \in 1..(Len(d) - Len(a))}

\* What ZFS has, d, is to what the session lists, a, in the middle of a call.
Between(k, a, d) ==
    /\ k.pc = "append" => d = Append(a, k.name)
    /\ k.pc = "zdel" => Ahead(a, d, k.todo)
    /\ k.pc = "rolled" => d = UpTo(a, k.name) /\ d # <<>>

GapOn(k, i) == k.id = i /\ k.pc \in AtGap

Matched(i) ==
    /\ Plain(obj[table[i]].snaps)
    /\ \A c \in Callers : GapOn(caller[c], i) =>
           Between(caller[c], obj[table[i]].snaps, ds[i].snaps)
    /\ (\E c \in Callers : GapOn(caller[c], i)) \/ obj[table[i]].snaps = ds[i].snaps

Serves(i) == table[i] # 0 /\ obj[table[i]].state \in Serving

\* A new dataset has no snapshot until its session is stored.
NewOn(k, i) == k.id = i /\ k.op = "create" /\ k.pc \in {"props", "store"}

ListsAt(i) ==
    /\ \A c \in Callers : NewOn(caller[c], i) => ds[i].snaps = <<>>
    /\ Serves(i) => Matched(i)

ListInv ==
    /\ \A i \in IDs : Names(ds[i].snaps)
    /\ \A i \in IDs : Tidy(i) => ListsAt(i)

\* What a call that is none of these holds.
LEMMA OtherHolds ==
    ASSUME NEW k, NEW s, NEW w, k.op \notin SnapOps, k.pc \notin AtSnap
    PROVE  SnapHolds(k, s, w)
BY DEF SnapHolds, AtSnap, SnapOps

LEMMA SnapHoldsOn ==
    ASSUME NEW k, SnapHolds(k, obj, workload), Grows(obj, obj'), workload' = workload
    PROVE  SnapHolds(k, obj', workload')
<1>1. \A o \in DOMAIN obj : o \in DOMAIN obj' /\ obj'[o].id = obj[o].id BY DEF Grows, Follows
<1> QED BY <1>1 DEF SnapHolds

LEMMA SnapNoteTells ==
    ASSUME NEW c \in Callers, NEW d \in Callers \ {c}, NEW op, NEW id, Note(c, op, id),
           caller[d].pc # "ready", caller[d].id = id, "snap" \in Conflicts(op, caller[d].op)
    PROVE  <<id, "snap">> \in overlap'
<1>1. d \in InFlight(id) \ {c} BY DEF InFlight
<1> QED BY <1>1 DEF Note

LEMMA ConflictsMeet == \A a, b : Conflicts(a, b) = Conflicts(b, a)
BY DEF Conflicts

LEMMA PairedKept ==
    ASSUME Paired, NEW c \in Callers, Moves(c), workload' = workload
    PROVE  Paired'
<1>0. \A a, b : Conflicts(a, b)' = Conflicts(a, b) BY DEF Conflicts, Snapshots
<1> SUFFICES ASSUME NEW a \in Callers, NEW b \in Callers, a # b, caller'[a].pc # "ready",
                    caller'[b].pc # "ready", caller'[a].id = caller'[b].id, caller'[a].id \in IDs,
                    "snap" \in Conflicts(caller'[a].op, caller'[b].op)
             PROVE  <<caller'[a].id, "snap">> \in overlap'
    BY <1>0 DEF Paired
<1>1. CASE a # c /\ b # c
  <2>1. caller'[a] = caller[a] /\ caller'[b] = caller[b] BY <1>1 DEF Moves
  <2>2. <<caller[a].id, "snap">> \in overlap BY <2>1 DEF Paired
  <2> QED BY <2>1, <2>2 DEF Moves
<1>2. ASSUME NEW d \in Callers \ {c}, caller'[c].pc # "ready", caller'[d].pc # "ready",
             caller'[c].id = caller'[d].id, caller'[c].id \in IDs,
             "snap" \in Conflicts(caller'[c].op, caller'[d].op)
      PROVE  <<caller'[c].id, "snap">> \in overlap'
  <2>1. caller'[d] = caller[d] BY DEF Moves
  <2>2. CASE /\ caller[c].pc # "ready"
             /\ caller'[c].op = caller[c].op /\ caller'[c].id = caller[c].id
    <3>1. <<caller[c].id, "snap">> \in overlap BY <1>2, <2>1, <2>2 DEF Paired
    <3> QED BY <2>2, <3>1 DEF Moves
  <2>3. CASE Note(c, caller'[c].op, caller'[c].id)
        BY <1>2, <2>1, <2>3, SnapNoteTells
  <2> QED BY <1>2, <2>2, <2>3 DEF Moves
<1>3. CASE a = c BY <1>2, <1>3
<1>4. CASE b = c
  <2>1. "snap" \in Conflicts(caller'[b].op, caller'[a].op) BY ConflictsMeet
  <2> QED BY <1>2, <1>4, <2>1
<1> QED BY <1>1, <1>3, <1>4

\* Two rollbacks at once are noted as interfering with snapshots, too.
LEMMA RollsPair ==
    ASSUME NEW a, NEW b, "roll" \in Conflicts(a, b)
    PROVE  "snap" \in Conflicts(a, b)
BY DEF Conflicts

LEMMA RollNotedBy ==
    ASSUME RollNoted, NEW c \in Callers,
           \/ overlap' = overlap
           \/ \E op, id : Note(c, op, id)
           \/ \E id : overlap' = overlap \cup {<<id, "life">>}
    PROVE  RollNoted'
<1> SUFFICES ASSUME NEW i \in IDs, <<i, "roll">> \in overlap' PROVE <<i, "snap">> \in overlap'
    BY DEF RollNoted
<1>1. CASE overlap' = overlap BY <1>1 DEF RollNoted
<1>2. ASSUME NEW op, NEW id, Note(c, op, id) PROVE <<i, "snap">> \in overlap'
  <2>1. CASE <<i, "roll">> \in overlap BY <1>2, <2>1 DEF RollNoted, Note
  <2>2. CASE <<i, "roll">> \notin overlap
    <3>1. PICK d \in InFlight(id) \ {c} :
              <<i, "roll">> \in {<<id, k>> : k \in Conflicts(op, caller[d].op)}
          BY <1>2, <2>2 DEF Note
    <3>2. i = id /\ "roll" \in Conflicts(op, caller[d].op) BY <3>1
    <3>3. "snap" \in Conflicts(op, caller[d].op) BY <3>2, RollsPair
    <3> QED BY <1>2, <3>1, <3>2, <3>3 DEF Note
  <2> QED BY <2>1, <2>2
<1>3. ASSUME NEW id, overlap' = overlap \cup {<<id, "life">>} PROVE <<i, "snap">> \in overlap'
  <2>1. <<i, "roll">> \in overlap BY <1>3
  <2> QED BY <1>3, <2>1 DEF RollNoted
<1> QED BY <1>1, <1>2, <1>3

LEMMA CallsNote ==
    ASSUME NEW c \in Callers, ByCall(c)
    PROVE  /\ \/ overlap' = overlap
              \/ \E op, id : Note(c, op, id)
              \/ \E id : overlap' = overlap \cup {<<id, "life">>}
           /\ workload' = workload
<1>1. CASE Create(c)
      BY <1>1, Zenon DEF Create, CreateSession, CloneFromSnapshot, SetProperties, UndoClone, DropPlaceholder,
                  StoreSession, Begin, config
<1>2. CASE Destroy(c)
      BY <1>2, Zenon DEF Destroy, DestroySession, DestroyDrained, KillProcesses, ClearProcesses,
                  DestroySessionDataset, DeleteSession, Shutdown, ShutdownNext, CloseGVisor, Begin, config
<1>3. CASE Pause(c)
      BY <1>3, Zenon DEF Pause, PauseSession, ResumeSession, PauseDrained, SetPaused, Begin, config
<1>4. CASE Snapshot(c)
      BY <1>4, Zenon DEF Snapshot, TurnComplete, CreateSnapshot, ZFSCreateSnapshot, AppendSnapshot, PruneList,
                  ZFSDestroySnapshot, RollbackSession, ZFSRollback, FinishRollback, Begin, config
<1>5. CASE Tool(c) BY <1>5, Zenon DEF Tool, ExecuteTool, ToolAnswers, ToolReturns, Begin, config
<1>6. CASE Process(c)
      BY <1>6, Zenon DEF Process, LaunchProcess, KillProcess, StartProcess, StoreHandle, Begin, config
<1> QED BY <1>1, <1>2, <1>3, <1>4, <1>5, <1>6 DEF ByCall

NoneOn(c, i) == \A d \in Callers \ {c} : caller[d].op \in SnapOps => caller[d].id # i

\* A step of a call, and what it may do to the entry of an ID.
LEMMA WriterFrame ==
    ASSUME HostInv, PlaceInv, WriterInv, Grows(obj, obj'), NEW c \in Callers, Moves(c), ByCall(c),
           leaked \subseteq leaked', SnapHolds(caller'[c], obj', workload'),
           \A i \in IDs : Clean(i)' =>
               /\ table'[i] = table[i] \/ NoneOn(c, i)
               /\ caller'[c].op \in SnapOps /\ caller'[c].id = i =>
                      /\ caller'[c].o = table'[i]
                      /\ \A d \in Callers \ {c} : Busy(caller[d]) => caller[d].id # i
               /\ Busy(caller'[c]) /\ caller'[c].id = i =>
                      (Busy(caller[c]) /\ caller[c].id = i) \/ NoneOn(c, i)
    PROVE  WriterInv'
<1>1. workload' = workload /\ RollNoted' /\ Paired'
      BY CallsNote, RollNotedBy, PairedKept DEF WriterInv
<1>2. \A d \in Callers : SnapHolds(caller'[d], obj', workload')
  <2> SUFFICES ASSUME NEW d \in Callers \ {c} PROVE SnapHolds(caller'[d], obj', workload') OBVIOUS
  <2>1. caller'[d] = caller[d] /\ SnapHolds(caller[d], obj, workload) BY DEF Moves, WriterInv
  <2>2. SnapHolds(caller[d], obj', workload') BY <1>1, <2>1, SnapHoldsOn
  <2> QED BY <2>1, <2>2
<1>3. ASSUME NEW i \in IDs, Clean(i)' PROVE SnapPlace(i)'
  <2>0. SnapPlace(i) BY <1>3, CleanBefore DEF Moves, WriterInv
  <2>1. \A d \in Callers \ {c} : caller'[d] = caller[d] BY DEF Moves
  <2>2. \A d \in Callers : caller'[d].op \in SnapOps /\ caller'[d].id = i => caller'[d].o = table'[i]
    <3> SUFFICES ASSUME NEW d \in Callers \ {c}, caller'[d].op \in SnapOps, caller'[d].id = i
                 PROVE  caller'[d].o = table'[i]
        BY <1>3
    <3>1. caller[d].o = table[i] BY <2>0, <2>1 DEF SnapPlace
    <3>2. ~NoneOn(c, i) BY <2>1 DEF NoneOn
    <3> QED BY <1>3, <2>1, <3>1, <3>2
  <2>3. ASSUME NEW a \in Callers, NEW d \in Callers, Busy(caller'[a]), caller'[a].id = i,
               caller'[d].op \in SnapOps, caller'[d].id = i
        PROVE  FALSE
    <3>0. a # d BY <2>3 DEF Busy, SnapOps, Destroys
    <3>1. CASE a # c /\ d # c BY <2>0, <2>1, <2>3, <3>1 DEF SnapPlace
    <3>2. CASE a = c
      <4>1. caller'[d] = caller[d] BY <2>1, <3>0, <3>2
      <4>2. CASE Busy(caller[c]) /\ caller[c].id = i BY <2>0, <2>3, <4>1, <4>2 DEF SnapPlace
      <4>3. CASE NoneOn(c, i) BY <2>3, <3>0, <3>2, <4>1, <4>3 DEF NoneOn
      <4> QED BY <1>3, <2>3, <3>2, <4>2, <4>3
    <3>3. CASE d = c
      <4>1. caller'[a] = caller[a] BY <2>1, <3>0, <3>3
      <4> QED BY <1>3, <2>3, <3>0, <3>3, <4>1
    <3> QED BY <3>1, <3>2, <3>3
  <2>4. \A a, d \in Callers : Busy(caller'[a]) /\ caller'[a].id = i /\ caller'[d].op \in SnapOps
                                  => caller'[d].id # i
        BY <2>3
  <2> QED BY <2>2, <2>4 DEF SnapPlace
<1> QED BY <1>1, <1>2, <1>3 DEF WriterInv

\* The call is none of the snapshots'.
Apart(k) == k.op \notin SnapOps /\ k.pc \notin AtSnap

LEMMA ApartGoes ==
    ASSUME HostInv, NEW c \in Callers, caller[c].op \notin SnapOps,
           (\E pc : pc \notin AtSnap /\ Goto(c, pc)) \/ Return(c)
    PROVE  Apart(caller'[c])
<1>1. ASSUME NEW pc, pc \notin AtSnap, Goto(c, pc) PROVE Apart(caller'[c]) BY <1>1, GotoAt DEF Apart
<1>2. CASE Return(c)
  <2>1. "none" \notin SnapOps /\ "ready" \notin AtSnap /\ "shut" \notin AtSnap /\ "shutdown" \notin SnapOps
        BY DEF SnapOps, AtSnap, AtRollback
  <2> QED BY <1>2, <2>1, ReturnAt DEF Apart, Ready
<1> QED BY <1>1, <1>2

LEMMA ApartEnters ==
    ASSUME HostInv, NEW c \in Callers, NEW k, caller' = [caller EXCEPT ![c] = k], Apart(k)
    PROVE  Apart(caller'[c])
BY DEF HostInv, CallsOK

LEMMA Sets ==
    /\ \A op \in Life \cup {"none", "pause", "launch"} : op \notin SnapOps
    /\ \A pc \in AtCreate \cup AtDestroy \cup {"ready", "drain", "set", "shut", "start", "handle"} :
           pc \notin AtSnap
BY DEF SnapOps, AtSnap, AtRollback, Life, AtCreate, AtDestroy

LEMMA CreateApart ==
    ASSUME HostInv, PlaceInv, NEW c \in Callers, Create(c)
    PROVE  Apart(caller[c]) /\ Apart(caller'[c])
<1>0. Holds(caller[c], obj) BY DEF PlaceInv
<1>1. caller[c].pc \in AtCreate \cup {"ready"}
      BY DEF Create, CreateSession, CloneFromSnapshot, SetProperties, UndoClone, DropPlaceholder,
             StoreSession, Begin, AtCreate
<1>2. Apart(caller[c]) BY <1>0, <1>1, Sets DEF Holds, Life, Apart
<1>3. ASSUME NEW id \in IDs, CreateSession(c, id) PROVE Apart(caller'[c])
  <2> DEFINE k == [Ready EXCEPT !.pc = "clone", !.op = "create", !.id = id, !.o = 0]
  <2>1. caller' = [caller EXCEPT ![c] = k] BY <1>3 DEF CreateSession, Enter
  <2>2. Apart(k) BY Sets DEF Ready, Apart, Life, AtCreate
  <2> HIDE DEF k
  <2> QED BY <2>1, <2>2, ApartEnters
<1>4. ASSUME ~\E id \in IDs : CreateSession(c, id)
      PROVE  (\E pc : pc \in AtCreate /\ Goto(c, pc)) \/ Return(c)
  <2>1. CASE CloneFromSnapshot(c) BY <2>1 DEF CloneFromSnapshot, AtCreate
  <2>2. CASE SetProperties(c)
    <3>1. Goto(c, "store") \/ Goto(c, "undo") BY <2>2 DEF SetProperties
    <3> QED BY <3>1 DEF AtCreate
  <2>3. CASE UndoClone(c) BY <2>3 DEF UndoClone, AtCreate
  <2>4. CASE DropPlaceholder(c) BY <2>4 DEF DropPlaceholder
  <2>5. CASE StoreSession(c) BY <2>5 DEF StoreSession
  <2> QED BY <1>4, <2>1, <2>2, <2>3, <2>4, <2>5 DEF Create
<1> QED BY <1>2, <1>3, <1>4, Sets, ApartGoes DEF Apart

LEMMA DestroyApart ==
    ASSUME HostInv, PlaceInv, NEW c \in Callers, Destroy(c)
    PROVE  Apart(caller[c]) /\ Apart(caller'[c])
<1>0. Holds(caller[c], obj) /\ IsCall(caller[c]) BY DEF PlaceInv, HostInv, CallsOK
<1>1. \/ caller[c].pc \in AtDestroy \cup {"ready", "shut"}
      \/ caller[c].op \in Destroys
      BY DEF Destroy, DestroySession, DestroyDrained, KillProcesses, ClearProcesses,
             DestroySessionDataset, DeleteSession, Shutdown, ShutdownNext, CloseGVisor, Begin, AtDestroy,
             Destroys
<1>2. caller[c].op \in Life \cup {"none"} BY <1>0, <1>1 DEF Holds, Life, Destroys
<1>3. Apart(caller[c])
  <2>1. caller[c].op \in Destroys => caller[c].pc \in AtDestroy \cup {"drain", "shut"} BY <1>0 DEF Holds
  <2> QED BY <1>1, <1>2, <2>1, Sets DEF Apart
<1>4. ASSUME NEW id, NEW op \in Destroys, NEW todo, DestroyObject(c, id, op, todo) PROVE Apart(caller'[c])
  <2> DEFINE o == table[id]
             k == [Ready EXCEPT !.pc = "drain", !.op = op, !.id = id, !.o = o, !.todo = todo]
  <2>1. caller' = [caller EXCEPT ![c] = k] BY <1>4 DEF DestroyObject
  <2> HIDE DEF o
  <2>2. k.pc = "drain" /\ k.op = op BY DEF Ready
  <2> HIDE DEF k
  <2>3. Apart(k) BY <2>2, Sets DEF Apart, Life, Destroys
  <2> QED BY <2>1, <2>3, ApartEnters
<1>5. ASSUME NEW id \in IDs, DestroySession(c, id) PROVE Apart(caller'[c])
      BY <1>4, <1>5 DEF DestroySession, Destroys
<1>6. ASSUME \/ DestroyDrained(c) \/ KillProcesses(c) \/ ClearProcesses(c)
             \/ DestroySessionDataset(c) \/ DeleteSession(c)
      PROVE  (\E pc : pc \in AtDestroy /\ Goto(c, pc)) \/ Return(c)
  <2>1. CASE DestroyDrained(c) BY <2>1 DEF DestroyDrained, AtDestroy
  <2>2. CASE KillProcesses(c) BY <2>2 DEF KillProcesses, AtDestroy
  <2>3. CASE ClearProcesses(c)
    <3>1. Goto(c, "zdestroy") \/ Goto(c, "delete") BY <2>3 DEF ClearProcesses
    <3> QED BY <3>1 DEF AtDestroy
  <2>4. CASE DestroySessionDataset(c) BY <2>4 DEF DestroySessionDataset, AtDestroy
  <2>5. CASE DeleteSession(c) BY <2>5 DEF DeleteSession
  <2> QED BY <1>6, <2>1, <2>2, <2>3, <2>4, <2>5
<1>7. CASE Shutdown(c)
  <2> DEFINE todo == {i \in IDs : table[i] # 0}
             k == [Ready EXCEPT !.pc = "shut", !.op = "shutdown", !.todo = todo]
  <2>1. caller' = [caller EXCEPT ![c] = k] BY <1>7 DEF Shutdown
  <2> HIDE DEF todo
  <2>2. k.pc = "shut" /\ k.op = "shutdown" BY DEF Ready
  <2> HIDE DEF k
  <2>3. Apart(k) BY <2>2, Sets DEF Apart, Life
  <2> QED BY <1>3, <2>1, <2>3, ApartEnters
<1>8. CASE ShutdownNext(c)
  <2>1. \/ \E i : DestroyObject(c, i, "shutdown", caller[c].todo \ {i})
        \/ \E i : caller' = [caller EXCEPT ![c].todo = @ \ {i}]
        BY <1>8 DEF ShutdownNext
  <2>2. ASSUME NEW i, caller' = [caller EXCEPT ![c].todo = @ \ {i}] PROVE Apart(caller'[c])
    <3>1. caller'[c].op = caller[c].op /\ caller'[c].pc = caller[c].pc
          BY <1>0, <2>2 DEF HostInv, CallsOK, IsCall, CallFields
    <3> QED BY <1>3, <3>1 DEF Apart
  <2>3. "shutdown" \in Destroys BY DEF Destroys
  <2> QED BY <1>3, <1>4, <2>1, <2>2, <2>3
<1>9. CASE CloseGVisor(c)
  <2>1. caller' = [caller EXCEPT ![c] = Ready] BY <1>9 DEF CloseGVisor
  <2>2. Apart(Ready) BY Sets DEF Apart, Ready
  <2> QED BY <1>3, <2>1, <2>2, ApartEnters
<1>10. (\E pc : pc \in AtDestroy /\ Goto(c, pc)) \/ Return(c) => Apart(caller'[c])
       BY <1>3, Sets, ApartGoes DEF Apart
<1> QED BY <1>3, <1>5, <1>6, <1>7, <1>8, <1>9, <1>10 DEF Destroy

LEMMA PauseApart ==
    ASSUME HostInv, PlaceInv, NEW c \in Callers, Pause(c)
    PROVE  Apart(caller'[c])
<1>0. Holds(caller[c], obj) /\ Placed(caller[c]) BY DEF PlaceInv, HostInv, CallsOK
<1>1. ASSUME NEW id \in IDs, PauseSession(c, id) PROVE Apart(caller'[c])
  <2> DEFINE o == getSession(id)
             k == [Ready EXCEPT !.pc = "drain", !.op = "pause", !.id = id, !.o = o]
  <2>1. caller' = [caller EXCEPT ![c] = k] BY <1>1 DEF PauseSession, Enter
  <2> HIDE DEF o
  <2>2. k.pc = "drain" /\ k.op = "pause" BY DEF Ready
  <2> HIDE DEF k
  <2>3. Apart(k) BY <2>2, Sets DEF Apart
  <2> QED BY <2>1, <2>3, ApartEnters
<1>2. ASSUME NEW id \in IDs, ResumeSession(c, id) PROVE Apart(caller'[c])
  <2>1. caller' = caller /\ caller[c].pc = "ready" BY <1>2 DEF ResumeSession, Begin
  <2> QED BY <1>0, <2>1, Sets DEF Holds, Apart
<1>3. CASE PauseDrained(c)
  <2>1. caller[c].op = "pause" /\ (Goto(c, "set") \/ Return(c)) BY <1>3 DEF PauseDrained
  <2> QED BY <2>1, Sets, ApartGoes
<1>4. CASE SetPaused(c)
  <2>1. caller[c].pc = "set" /\ Return(c) BY <1>4 DEF SetPaused
  <2>2. CASE caller[c].op = "shutdown"
        BY <1>0, <2>1, <2>2 DEF Holds, Destroys, AtDestroy
  <2>3. CASE caller[c].op # "shutdown"
    <3>1. caller'[c] = Ready BY <2>1, <2>3, ReturnAt
    <3> QED BY <3>1, Sets DEF Apart, Ready
  <2> QED BY <2>2, <2>3
<1> QED BY <1>1, <1>2, <1>3, <1>4 DEF Pause

LEMMA ProcessApart ==
    ASSUME HostInv, PlaceInv, NEW c \in Callers, Process(c)
    PROVE  Apart(caller'[c])
<1>0. Holds(caller[c], obj) BY DEF PlaceInv
<1>1. ASSUME NEW id \in IDs, NEW p \in Procs, LaunchProcess(c, id, p) PROVE Apart(caller'[c])
  <2> DEFINE o == table[id]
             k == [Ready EXCEPT !.pc = "start", !.op = "launch", !.id = id, !.o = o, !.p = p]
  <2>1. caller' = [caller EXCEPT ![c] = k] BY <1>1 DEF LaunchProcess
  <2> HIDE DEF o
  <2>2. k.pc = "start" /\ k.op = "launch" BY DEF Ready
  <2> HIDE DEF k
  <2>3. Apart(k) BY <2>2, Sets DEF Apart
  <2> QED BY <2>1, <2>3, ApartEnters
<1>2. ASSUME NEW id \in IDs, NEW p \in Procs, KillProcess(c, id, p) PROVE Apart(caller'[c])
  <2>1. caller' = caller /\ caller[c].pc = "ready" BY <1>2 DEF KillProcess, Begin
  <2> QED BY <1>0, <2>1, Sets DEF Holds, Apart
<1>3. CASE StartProcess(c)
  <2>1. caller[c].pc = "start" /\ (Goto(c, "handle") \/ Return(c)) BY <1>3 DEF StartProcess
  <2> QED BY <1>0, <2>1, Sets, ApartGoes DEF Holds
<1>4. CASE StoreHandle(c)
  <2>1. caller[c].pc = "handle" /\ Return(c) BY <1>4 DEF StoreHandle
  <2> QED BY <1>0, <2>1, Sets, ApartGoes DEF Holds
<1> QED BY <1>1, <1>2, <1>3, <1>4 DEF Process

LEMMA NotZero ==
    ASSUME HostInv
    PROVE  0 \notin DOMAIN obj
<1> DEFINE S == {obj[i] : i \in DOMAIN obj}
<1>1. obj \in Seq(S) BY DEF HostInv, Sessions
<1> HIDE DEF S
<1> QED BY <1>1

\* Nobody works on the snapshots of an ID without a session.
LEMMA EmptyEntry ==
    ASSUME HostInv, WriterInv, NEW i \in IDs, Clean(i), table[i] = 0, NEW c
    PROVE  NoneOn(c, i)
<1> SUFFICES ASSUME NEW d \in Callers, caller[d].op \in SnapOps, caller[d].id = i PROVE FALSE BY DEF NoneOn
<1>1. caller[d].o = 0 BY DEF WriterInv, SnapPlace
<1>2. caller[d].o \in DOMAIN obj BY DEF WriterInv, SnapHolds
<1> QED BY <1>1, <1>2, NotZero

\* Nor of one that a create or a destroy past its wait has.
LEMMA BusyEntry ==
    ASSUME WriterInv, NEW i \in IDs, Clean(i), NEW c \in Callers, Busy(caller[c]), caller[c].id = i
    PROVE  NoneOn(c, i)
BY DEF WriterInv, SnapPlace, NoneOn

\* A destroy with no tool left has its ID for itself.
LEMMA DrainedEntry ==
    ASSUME HostInv, PlaceInv, DatasetInv, WriterInv, NEW c \in Callers, caller[c].op \in Destroys,
           caller[c].pc = "drain", obj[caller[c].o].tools = 0, Clean(caller[c].id)
    PROVE  NoneOn(c, caller[c].id)
<1> DEFINE i == caller[c].id
<1>0. Holds(caller[c], obj) BY DEF PlaceInv
<1>1. i \in IDs /\ caller[c].o \in DOMAIN obj /\ caller[c].op \in Life
      BY <1>0 DEF Holds, Destroys, Life
<1>2. table[i] = caller[c].o BY <1>1 DEF DatasetInv, DatasetAt, CallFits, DestroyOK
<1> SUFFICES ASSUME NEW d \in Callers \ {c}, caller[d].op \in SnapOps, caller[d].id = i PROVE FALSE
    BY DEF NoneOn
<1>3. caller[d].pc # "ready" BY DEF PlaceInv, Holds, SnapOps
<1>4. caller[d].op \in Mild BY <1>1, <1>3 DEF PlaceInv, Lone, Clean
<1>5. caller[d].op = "tool" BY <1>4 DEF Mild, SnapOps
<1>6. caller[d].o = caller[c].o BY <1>1, <1>2 DEF WriterInv, SnapPlace
<1>7. d \in ToolsOf(caller, caller[c].o) BY <1>5, <1>6 DEF ToolsOf
<1>8. Cardinality(ToolsOf(caller, caller[c].o)) = 0 BY <1>1 DEF HostInv, Counted
<1>9. IsFiniteSet(ToolsOf(caller, caller[c].o))
  <2>1. ToolsOf(caller, caller[c].o) \subseteq Callers BY DEF ToolsOf
  <2> QED BY <2>1, HostAssumption, FS_Subset
<1> QED BY <1>7, <1>8, <1>9, FS_EmptySet

\* Steps of calls that are none of the snapshots'.
LEMMA ApartWriters ==
    ASSUME HostInv, PlaceInv, WriterInv, Grows(obj, obj'), NEW c \in Callers, Moves(c), ByCall(c),
           leaked \subseteq leaked', Apart(caller'[c]),
           \A i \in IDs : Clean(i)' =>
               /\ table'[i] = table[i] \/ NoneOn(c, i)
               /\ Busy(caller'[c]) /\ caller'[c].id = i =>
                      (Busy(caller[c]) /\ caller[c].id = i) \/ NoneOn(c, i)
    PROVE  WriterInv'
BY WriterFrame, OtherHolds DEF Apart

\* A create or a destroy past its wait goes on or ends.
LEMMA BusyWriters ==
    ASSUME HostInv, PlaceInv, WriterInv, Grows(obj, obj'), NEW c \in Callers, Moves(c), ByCall(c),
           leaked \subseteq leaked', Apart(caller'[c]), Busy(caller[c]), caller[c].id \in IDs,
           \A i \in IDs \ {caller[c].id} : table'[i] = table[i],
           ~Busy(caller'[c]) \/ caller'[c].id = caller[c].id
    PROVE  WriterInv'
<1> SUFFICES ASSUME NEW i \in IDs, Clean(i)'
             PROVE  /\ table'[i] = table[i] \/ NoneOn(c, i)
                    /\ Busy(caller'[c]) /\ caller'[c].id = i =>
                           (Busy(caller[c]) /\ caller[c].id = i) \/ NoneOn(c, i)
    BY ApartWriters
<1>1. Clean(i) BY CleanBefore DEF Moves
<1>2. CASE i = caller[c].id
  <2>1. NoneOn(c, i) BY <1>1, <1>2, BusyEntry
  <2> QED BY <2>1
<1>3. CASE i # caller[c].id
  <2>1. table'[i] = table[i] BY <1>3
  <2> QED BY <1>3, <2>1
<1> QED BY <1>2, <1>3

LEMMA CreateWriters ==
    ASSUME HostInv, PlaceInv, WriterInv, Grows(obj, obj'), NEW c \in Callers, Moves(c), Create(c)
    PROVE  WriterInv'
<1>0. Holds(caller[c], obj) /\ DOMAIN table = IDs BY DEF PlaceInv, HostInv, TableOK
<1>1. Apart(caller'[c]) /\ ByCall(c) BY CreateApart DEF ByCall
<1>2. ASSUME NEW id \in IDs, CreateSession(c, id) PROVE WriterInv'
  <2>1. /\ table[id] = 0 /\ leaked' = leaked /\ \A i \in IDs \ {id} : table'[i] = table[i]
        BY <1>0, <1>2 DEF CreateSession
  <2>2. Clean(id)' => NoneOn(c, id)
        BY <2>1, CleanBefore, EmptyEntry DEF Moves
  <2>3. caller'[c].id = id
        BY <1>2 DEF CreateSession, Enter, Ready, HostInv, CallsOK
  <2> QED BY <1>1, <2>1, <2>2, <2>3, ApartWriters
<1>3. ASSUME caller[c].pc \in AtCreate, leaked \subseteq leaked',
             \A i \in IDs \ {caller[c].id} : table'[i] = table[i],
             caller'[c] = Ready \/ caller'[c].id = caller[c].id
      PROVE  WriterInv'
  <2>1. Busy(caller[c]) /\ caller[c].id \in IDs BY <1>0, <1>3 DEF Holds, Busy
  <2>2. ~Busy(Ready) BY DEF Busy, Ready, Destroys
  <2> QED BY <1>1, <1>3, <2>1, <2>2, BusyWriters
<1>4. ASSUME Return(c), caller[c].pc \in AtCreate PROVE caller'[c] = Ready
      BY <1>0, <1>4, ReturnAt DEF Holds
<1>5. ASSUME NEW pc, Goto(c, pc) PROVE caller'[c].id = caller[c].id BY <1>5, GotoAt
<1>6. CASE CloneFromSnapshot(c)
  <2>1. caller[c].pc \in AtCreate BY <1>6 DEF CloneFromSnapshot, AtCreate
  <2>2. /\ leaked \subseteq leaked'
        /\ table' = table \/ table' = [table EXCEPT ![caller[c].id] = 0]
        /\ Goto(c, "props") \/ Return(c)
        BY <1>6 DEF CloneFromSnapshot
  <2> QED BY <1>0, <1>3, <1>4, <1>5, <2>1, <2>2
<1>7. CASE SetProperties(c)
  <2>1. /\ caller[c].pc \in AtCreate /\ UNCHANGED <<leaked, table>>
        /\ Goto(c, "store") \/ Goto(c, "undo")
        BY <1>7 DEF SetProperties, AtCreate
  <2> QED BY <1>3, <1>5, <2>1
<1>8. CASE UndoClone(c)
  <2>1. caller[c].pc \in AtCreate /\ leaked \subseteq leaked' /\ table' = table /\ Goto(c, "drop")
        BY <1>8 DEF UndoClone, DestroyDataset, AtCreate
  <2> QED BY <1>3, <1>5, <2>1
<1>9. CASE DropPlaceholder(c)
  <2>1. /\ caller[c].pc \in AtCreate /\ leaked' = leaked /\ Return(c)
        /\ table' = [table EXCEPT ![caller[c].id] = 0]
        BY <1>9 DEF DropPlaceholder, Delete, AtCreate
  <2> QED BY <1>0, <1>3, <1>4, <2>1
<1>10. CASE StoreSession(c)
  <2>1. /\ caller[c].pc \in AtCreate /\ leaked' = leaked /\ Return(c)
        /\ table' = [table EXCEPT ![caller[c].id] = Len(obj')]
        BY <1>10 DEF StoreSession, AtCreate
  <2> QED BY <1>0, <1>3, <1>4, <2>1
<1> QED BY <1>2, <1>6, <1>7, <1>8, <1>9, <1>10 DEF Create

LEMMA DestroyWriters ==
    ASSUME HostInv, PlaceInv, DatasetInv, WriterInv, Grows(obj, obj'), NEW c \in Callers, Moves(c), Destroy(c)
    PROVE  WriterInv'
<1>0. Holds(caller[c], obj) /\ DOMAIN table = IDs /\ IsCall(caller[c])
      BY DEF PlaceInv, HostInv, TableOK, CallsOK
<1>1. Apart(caller'[c]) /\ ByCall(c) BY DestroyApart DEF ByCall
<1>2. ASSUME table' = table, leaked \subseteq leaked', ~Busy(caller'[c]) PROVE WriterInv'
      BY <1>1, <1>2, ApartWriters
<1>3. ASSUME NEW id, NEW op \in Destroys, NEW todo, DestroyObject(c, id, op, todo) PROVE ~Busy(caller'[c])
  <2>1. caller'[c].pc = "drain" /\ caller'[c].op = op
        BY <1>3 DEF DestroyObject, HostInv, CallsOK, Ready
  <2> QED BY <2>1 DEF Busy, Destroys, AtDestroy
<1>4. ASSUME NEW id \in IDs, DestroySession(c, id) PROVE WriterInv'
      BY <1>2, <1>3, <1>4 DEF DestroySession, Destroys
<1>5. ASSUME Return(c) PROVE ~Busy(caller'[c])
  <2>1. ~Busy(Ready) BY DEF Busy, Ready, Destroys
  <2>2. \/ caller'[c] = Ready
        \/ caller'[c].op = "shutdown" /\ caller'[c].pc = "shut"
        BY <1>5, ReturnAt
  <2> QED BY <2>1, <2>2 DEF Busy, AtDestroy
<1>6. CASE DestroyDrained(c)
  <2>1. /\ caller[c].op \in Destroys /\ caller[c].pc = "drain" /\ UNCHANGED <<table, leaked>>
        /\ \/ obj[caller[c].o].tools = 0 /\ Goto(c, "kill")
           \/ Goto(c, "kill") /\ overlap' = overlap \cup {<<caller[c].id, "life">>}
           \/ Return(c)
        BY <1>6 DEF DestroyDrained, Destroys
  <2>2. CASE Return(c) BY <1>2, <1>5, <2>1, <2>2
  <2>3. CASE Goto(c, "kill") /\ (obj[caller[c].o].tools = 0 \/ <<caller[c].id, "life">> \in overlap')
    <3>1. caller'[c].id = caller[c].id /\ caller[c].id \in IDs BY <1>0, <2>1, <2>3, GotoAt DEF Holds
    <3>2. Clean(caller[c].id)' => NoneOn(c, caller[c].id)
      <4> SUFFICES ASSUME Clean(caller[c].id)' PROVE NoneOn(c, caller[c].id) OBVIOUS
      <4>1. obj[caller[c].o].tools = 0 BY <2>3, <3>1 DEF Clean
      <4>2. Clean(caller[c].id) BY <2>1, <3>1, CleanBefore DEF Moves
      <4> QED BY <2>1, <4>1, <4>2, DrainedEntry
    <3> QED BY <1>1, <2>1, <3>1, <3>2, ApartWriters
  <2> QED BY <2>1, <2>2, <2>3
<1>7. ASSUME caller[c].pc \in AtDestroy, leaked \subseteq leaked',
             \A i \in IDs \ {caller[c].id} : table'[i] = table[i],
             ~Busy(caller'[c]) \/ caller'[c].id = caller[c].id
      PROVE  WriterInv'
  <2>1. Busy(caller[c]) /\ caller[c].id \in IDs BY <1>0, <1>7 DEF Holds, Busy, AtDestroy
  <2> QED BY <1>1, <1>7, <2>1, BusyWriters
<1>8. CASE KillProcesses(c)
  <2>1. caller[c].pc \in AtDestroy /\ leaked \subseteq leaked' /\ table' = table /\ Goto(c, "clear")
        BY <1>8 DEF KillProcesses, AtDestroy
  <2> QED BY <1>7, <2>1, GotoAt
<1>9. CASE ClearProcesses(c)
  <2>1. /\ caller[c].pc \in AtDestroy /\ UNCHANGED <<leaked, table>>
        /\ Goto(c, "zdestroy") \/ Goto(c, "delete")
        BY <1>9 DEF ClearProcesses, AtDestroy
  <2> QED BY <1>7, <2>1, GotoAt
<1>10. CASE DestroySessionDataset(c)
  <2>1. caller[c].pc \in AtDestroy /\ leaked \subseteq leaked' /\ table' = table /\ Goto(c, "delete")
        BY <1>10 DEF DestroySessionDataset, DestroyDataset, AtDestroy
  <2> QED BY <1>7, <2>1, GotoAt
<1>11. CASE DeleteSession(c)
  <2>1. /\ caller[c].pc \in AtDestroy /\ leaked' = leaked /\ Return(c)
        /\ table' = [table EXCEPT ![caller[c].id] = 0]
        BY <1>11 DEF DeleteSession, Delete, AtDestroy
  <2> QED BY <1>0, <1>5, <1>7, <2>1
<1>12. CASE Shutdown(c)
  <2> DEFINE todo == {i \in IDs : table[i] # 0}
             k == [Ready EXCEPT !.pc = "shut", !.op = "shutdown", !.todo = todo]
  <2>1. caller'[c] = k /\ UNCHANGED <<table, leaked>> BY <1>12 DEF Shutdown, HostInv, CallsOK
  <2> HIDE DEF todo
  <2>2. ~Busy(k) BY DEF Ready, Busy, AtDestroy
  <2> HIDE DEF k
  <2> QED BY <1>2, <2>1, <2>2
<1>13. CASE ShutdownNext(c)
  <2>1. /\ caller[c].pc = "shut" /\ UNCHANGED <<table, leaked>>
        /\ \/ \E i : DestroyObject(c, i, "shutdown", caller[c].todo \ {i})
           \/ \E i : caller' = [caller EXCEPT ![c].todo = @ \ {i}]
        BY <1>13 DEF ShutdownNext
  <2>2. ASSUME NEW i, caller' = [caller EXCEPT ![c].todo = @ \ {i}] PROVE ~Busy(caller'[c])
    <3>1. caller'[c].op = caller[c].op /\ caller'[c].pc = "shut"
          BY <1>0, <2>1, <2>2 DEF HostInv, CallsOK, IsCall, CallFields
    <3>2. caller[c].op # "create" BY <1>0, <2>1 DEF Holds, AtCreate
    <3> QED BY <3>1, <3>2 DEF Busy, AtDestroy
  <2>3. "shutdown" \in Destroys BY DEF Destroys
  <2>4. ~Busy(caller'[c]) BY <1>3, <2>1, <2>2, <2>3
  <2> QED BY <1>2, <2>1, <2>4
<1>14. CASE CloseGVisor(c)
  <2>1. caller'[c] = Ready /\ UNCHANGED <<table, leaked>> BY <1>14 DEF CloseGVisor, HostInv, CallsOK
  <2>2. ~Busy(Ready) BY DEF Busy, Ready, Destroys
  <2> QED BY <1>2, <2>1, <2>2
<1> QED BY <1>4, <1>6, <1>8, <1>9, <1>10, <1>11, <1>12, <1>13, <1>14 DEF Destroy

LEMMA OtherWriters ==
    ASSUME HostInv, PlaceInv, WriterInv, Grows(obj, obj'), NEW c \in Callers, Moves(c), Pause(c) \/ Process(c)
    PROVE  WriterInv'
<1>1. UNCHANGED <<table, leaked>>
  <2>1. CASE Pause(c) BY <2>1 DEF Pause, PauseSession, ResumeSession, PauseDrained, SetPaused
  <2>2. CASE Process(c) BY <2>2 DEF Process, LaunchProcess, KillProcess, StartProcess, StoreHandle
  <2> QED BY <2>1, <2>2
<1>2. caller'[c].op \notin Life BY PauseQuiet, ProcessQuiet DEF Weighty
<1>3. ~Busy(caller'[c]) BY <1>2 DEF Busy, Life, Destroys
<1> QED BY <1>1, <1>3, PauseApart, ProcessApart, ApartWriters DEF ByCall

LEMMA ReadyApart == Apart(Ready) /\ ~Busy(Ready)
BY Sets DEF Apart, Ready, Busy, Destroys

\* A call on the snapshots begins, on the session of the table.
LEMMA SnapBegins ==
    ASSUME HostInv, PlaceInv, PlaceInv', DatasetInv, WriterInv, Grows(obj, obj'), NEW c \in Callers,
           Moves(c), ByCall(c), UNCHANGED <<table, leaked>>, NEW id \in IDs, table[id] # 0,
           caller'[c].op \in SnapOps, caller'[c].id = id, caller'[c].o = table[id],
           caller'[c].pc \notin {"append", "prune", "zdel", "ready"},
           caller'[c].pc = "zsnap" => caller'[c].op \in {"turn", "snap"},
           caller'[c].op = "tool" => obj[table[id]].state \in Serving
    PROVE  WriterInv'
<1>1. SnapHolds(caller'[c], obj', workload')
  <2>1. table[id] \in DOMAIN obj' /\ obj'[table[id]].id = id BY DEF HostInv, TableOK, Grows, Follows
  <2> QED BY <2>1 DEF SnapHolds
<1>2. ASSUME Clean(id)', NEW d \in Callers \ {c}, Busy(caller[d]), caller[d].id = id PROVE FALSE
  <2>0. caller[d].op \in Life /\ caller'[d] = caller[d] BY <1>2 DEF Busy, Life, Destroys, Moves
  <2>1. CASE caller'[c].op # "tool"
    <3>1. caller'[c].op \notin Mild BY <2>1 DEF SnapOps, Mild
    <3>2. <<id, "life">> \in overlap' BY <1>2, <2>0, <3>1 DEF PlaceInv, Lone
    <3> QED BY <1>2, <3>2 DEF Clean
  <2>2. CASE caller'[c].op = "tool"
    <3>1. Clean(id) BY <1>2, CleanBefore DEF Moves
    <3>2. CallFits(caller[d], table, obj, ds) BY <1>2, <3>1 DEF DatasetInv, DatasetAt
    <3>3. CASE caller[d].op = "create" BY <1>2, <2>2, <3>2, <3>3 DEF CallFits, CreateOK
    <3>4. CASE caller[d].op \in Destroys /\ caller[d].pc \in AtDestroy
      <4>1. caller[d].pc # "shut" BY <3>4 DEF AtDestroy
      <4>2. DestroyOK(caller[d], table, obj, ds) BY <3>2, <3>4, <4>1 DEF CallFits
      <4> QED BY <1>2, <2>2, <4>2 DEF DestroyOK
    <3> QED BY <1>2, <3>3, <3>4 DEF Busy
  <2> QED BY <2>1, <2>2
<1>3. ~Busy(caller'[c]) BY DEF Busy, SnapOps, Destroys
<1> QED BY <1>1, <1>2, <1>3, WriterFrame

LEMMA SnapGoes ==
    ASSUME HostInv, PlaceInv, WriterInv, Grows(obj, obj'), NEW c \in Callers,
           Moves(c), ByCall(c), table' = table, leaked \subseteq leaked', caller[c].op \in SnapOps,
           caller'[c].op = caller[c].op, caller'[c].id = caller[c].id, caller'[c].o = caller[c].o,
           SnapHolds(caller'[c], obj', workload')
    PROVE  WriterInv'
<1>1. ASSUME NEW i \in IDs, Clean(i)', caller'[c].id = i
      PROVE  /\ caller'[c].o = table'[i]
             /\ \A d \in Callers \ {c} : Busy(caller[d]) => caller[d].id # i
  <2>1. SnapPlace(i) BY <1>1, CleanBefore DEF Moves, WriterInv
  <2> QED BY <1>1, <2>1 DEF SnapPlace
<1>2. ~Busy(caller'[c]) BY DEF Busy, SnapOps, Destroys
<1> QED BY <1>1, <1>2, WriterFrame

LEMMA SnapEnds ==
    ASSUME HostInv, PlaceInv, WriterInv, Grows(obj, obj'), NEW c \in Callers,
           Moves(c), ByCall(c), table' = table, leaked \subseteq leaked', caller[c].op \in SnapOps,
           Return(c)
    PROVE  WriterInv'
<1>1. caller'[c] = Ready BY ReturnAt DEF SnapOps
<1> QED BY <1>1, ReadyApart, ApartWriters

\* The call a place belongs to.
LEMMA SnapOp ==
    ASSUME HostInv, WriterInv, NEW c \in Callers, caller[c].pc \in AtSnap \cup AtTool
    PROVE  /\ caller[c].op \in SnapOps
           /\ caller[c].id \in IDs /\ caller[c].o \in DOMAIN obj /\ obj[caller[c].o].id = caller[c].id
           /\ IsCall(caller[c])
           /\ caller[c].pc \in {"zsnap", "append"} => caller[c].op \in {"turn", "snap", "tool"}
           /\ caller[c].pc \in {"prune", "zdel"} => caller[c].op = "turn"
           /\ caller[c].pc \in AtRollback <=> caller[c].op = "rollback"
<1>1. SnapHolds(caller[c], obj, workload) /\ Placed(caller[c]) /\ IsCall(caller[c])
      BY DEF WriterInv, HostInv, CallsOK
<1>2. caller[c].op \in SnapOps BY <1>1 DEF SnapHolds, Placed, SnapOps, AtSnap
<1> QED BY <1>1, <1>2 DEF SnapHolds, Placed

LEMMA ToolWriters ==
    ASSUME HostInv, PlaceInv, PlaceInv', DatasetInv, WriterInv, Grows(obj, obj'), NEW c \in Callers, Moves(c),
           Tool(c)
    PROVE  WriterInv'
<1>0. ByCall(c) BY DEF ByCall
<1>w. workload' = workload BY <1>0, CallsNote
<1>1. ASSUME NEW id \in IDs, ExecuteTool(c, id) PROVE WriterInv'
  <2> DEFINE o == table[id]
  <2>1. /\ table[id] # 0 /\ obj[table[id]].state = "active" /\ UNCHANGED <<table, leaked>>
        BY <1>1 DEF ExecuteTool, Active
  <2>2. PICK tier \in {"tier1", "tier2"} : Enter(c, "tool", id, tier, o) BY <1>1 DEF ExecuteTool
  <2> HIDE DEF o
  <2>3. /\ caller'[c].pc = tier /\ caller'[c].op = "tool" /\ caller'[c].id = id /\ caller'[c].o = o
        BY <2>2 DEF Enter, HostInv, CallsOK, Ready
  <2>4. /\ caller'[c].op \in SnapOps
        /\ caller'[c].pc \notin {"append", "prune", "zdel", "ready", "zsnap"}
        /\ obj[table[id]].state \in Serving
        BY <2>1, <2>3 DEF SnapOps, Serving
  <2> QED BY <1>0, <2>1, <2>3, <2>4, SnapBegins DEF o
<1>2. CASE ToolAnswers(c)
  <2> DEFINE n == <<"tool", calls>>
  <2>1. /\ caller[c].pc \in AtTool /\ UNCHANGED <<table, leaked>>
        /\ \/ Goto(c, "tooldone")
           \/ /\ "toolsnap" \in workload
              /\ caller' = [caller EXCEPT ![c].pc = "zsnap", ![c].name = n]
        BY <1>2 DEF ToolAnswers, AtTool
  <2> HIDE DEF n
  <2>2. caller[c].op \in SnapOps /\ caller[c].op = "tool" /\ IsCall(caller[c])
        BY <2>1, SnapOp DEF HostInv, CallsOK, Placed
  <2>3. /\ caller'[c].op = caller[c].op /\ caller'[c].id = caller[c].id /\ caller'[c].o = caller[c].o
        /\ caller'[c].pc = "tooldone" \/ ("toolsnap" \in workload /\ caller'[c].pc = "zsnap")
    <3>1. CASE Goto(c, "tooldone") BY <3>1, GotoAt
    <3>2. CASE "toolsnap" \in workload /\ caller' = [caller EXCEPT ![c].pc = "zsnap", ![c].name = n]
          BY <2>2, <3>2 DEF HostInv, CallsOK, IsCall, CallFields
    <3> QED BY <2>1, <3>1, <3>2
  <2>4. SnapHolds(caller'[c], obj', workload')
    <3>1. SnapHolds(caller[c], obj', workload') BY <1>w, SnapHoldsOn DEF WriterInv
    <3> QED BY <1>w, <2>2, <2>3, <3>1 DEF SnapHolds
  <2> QED BY <1>0, <2>1, <2>2, <2>3, <2>4, SnapGoes
<1>3. CASE ToolReturns(c)
  <2>1. caller[c].pc \in AtTool /\ UNCHANGED <<table, leaked>> /\ Return(c)
        BY <1>3 DEF ToolReturns, AtTool
  <2> QED BY <1>0, <2>1, SnapOp, SnapEnds
<1> QED BY <1>1, <1>2, <1>3 DEF Tool

LEMMA SnapshotWriters ==
    ASSUME HostInv, PlaceInv, PlaceInv', DatasetInv, WriterInv, Grows(obj, obj'), NEW c \in Callers, Moves(c),
           Snapshot(c)
    PROVE  WriterInv'
<1>0. ByCall(c) /\ DOMAIN caller = Callers BY DEF ByCall, HostInv, CallsOK
<1>w. workload' = workload BY <1>0, CallsNote
<1>a. ASSUME NEW id \in IDs, table[id] # 0, NEW op \in {"turn", "snap", "rollback"}, NEW n,
             NEW pc \in {"zsnap", "zroll"}, pc = "zsnap" => op # "rollback", UNCHANGED <<table, leaked>>,
             caller' = [caller EXCEPT ![c] = [Ready EXCEPT !.pc = pc, !.op = op, !.id = id,
                                                           !.o = table[id], !.name = n]]
      PROVE  WriterInv'
  <2> DEFINE o == table[id]
             k == [Ready EXCEPT !.pc = pc, !.op = op, !.id = id, !.o = o, !.name = n]
  <2>1. caller'[c] = k BY <1>0, <1>a
  <2> HIDE DEF o
  <2>2. k.pc = pc /\ k.op = op /\ k.id = id /\ k.o = o BY DEF Ready
  <2> HIDE DEF k
  <2>3. /\ caller'[c].op \in SnapOps /\ caller'[c].op # "tool"
        /\ caller'[c].pc \notin {"append", "prune", "zdel", "ready"}
        /\ caller'[c].pc = "zsnap" => caller'[c].op \in {"turn", "snap"}
        BY <1>a, <2>1, <2>2 DEF SnapOps
  <2> QED BY <1>0, <1>a, <2>1, <2>2, <2>3, SnapBegins DEF o
<1>b. ASSUME caller[c].pc \in AtSnap, table' = table, leaked \subseteq leaked', Return(c) PROVE WriterInv'
      BY <1>0, <1>b, SnapOp, SnapEnds
<1>c. ASSUME caller[c].pc \in AtSnap, table' = table, leaked \subseteq leaked',
             caller'[c].op = caller[c].op, caller'[c].id = caller[c].id, caller'[c].o = caller[c].o,
             SnapHolds(caller'[c], obj', workload')
      PROVE  WriterInv'
      BY <1>0, <1>c, SnapOp, SnapGoes
<1>d. SnapHolds(caller[c], obj', workload') BY <1>w, SnapHoldsOn DEF WriterInv
<1>1. ASSUME NEW id \in IDs, TurnComplete(c, id) PROVE WriterInv'
  <2> DEFINE n == <<"turn", obj[table[id]].turn + 1>>
  <2>1. /\ table[id] # 0 /\ UNCHANGED <<table, leaked>>
        /\ caller' = [caller EXCEPT ![c] = [Ready EXCEPT !.pc = "zsnap", !.op = "turn", !.id = id,
                                            !.o = table[id], !.name = n]]
        BY <1>1, Zenon DEF TurnComplete, Active
  <2> HIDE DEF n
  <2> QED BY <1>a, <2>1
<1>2. ASSUME NEW id \in IDs, CreateSnapshot(c, id) PROVE WriterInv'
  <2> DEFINE n == <<"user", 1>>
  <2>1. /\ table[id] # 0 /\ UNCHANGED <<table, leaked>>
        /\ caller' = [caller EXCEPT ![c] = [Ready EXCEPT !.pc = "zsnap", !.op = "snap", !.id = id,
                                            !.o = table[id], !.name = n]]
        BY <1>2, Zenon DEF CreateSnapshot
  <2> HIDE DEF n
  <2> QED BY <1>a, <2>1
<1>3. CASE ZFSCreateSnapshot(c)
  <2>1. /\ caller[c].pc = "zsnap" /\ table' = table /\ leaked \subseteq leaked'
        /\ \/ Goto(c, "append")
           \/ caller[c].op = "tool" /\ Goto(c, "tooldone")
           \/ Return(c)
        BY <1>3 DEF ZFSCreateSnapshot
  <2>2. caller[c].pc \in AtSnap BY <2>1 DEF AtSnap
  <2>3. CASE Return(c) BY <1>b, <2>1, <2>2, <2>3
  <2>4. ASSUME NEW pc \in {"append", "tooldone"}, Goto(c, pc) PROVE WriterInv'
    <3>1. /\ caller'[c].op = caller[c].op /\ caller'[c].id = caller[c].id /\ caller'[c].o = caller[c].o
          /\ caller'[c].pc = pc
          BY <2>4, GotoAt
    <3>2. SnapHolds(caller'[c], obj', workload') BY <1>d, <2>1, <2>4, <3>1 DEF SnapHolds
    <3> QED BY <1>c, <2>1, <2>2, <3>1, <3>2
  <2> QED BY <2>1, <2>3, <2>4
<1>4. CASE AppendSnapshot(c)
  <2>1. /\ caller[c].pc = "append" /\ table' = table /\ leaked' = leaked
        /\ \/ Goto(c, "tooldone")
           \/ caller[c].op = "turn" /\ Goto(c, "prune")
           \/ Return(c)
        BY <1>4 DEF AppendSnapshot
  <2>2. caller[c].pc \in AtSnap BY <2>1 DEF AtSnap
  <2>3. CASE Return(c) BY <1>b, <2>1, <2>2, <2>3
  <2>4. ASSUME NEW pc \in {"prune", "tooldone"}, Goto(c, pc), pc = "prune" => caller[c].op = "turn"
        PROVE  WriterInv'
    <3>1. /\ caller'[c].op = caller[c].op /\ caller'[c].id = caller[c].id /\ caller'[c].o = caller[c].o
          /\ caller'[c].pc = pc
          BY <2>4, GotoAt
    <3>2. SnapHolds(caller'[c], obj', workload') BY <1>d, <2>1, <2>4, <3>1 DEF SnapHolds
    <3> QED BY <1>c, <2>1, <2>2, <3>1, <3>2
  <2> QED BY <2>1, <2>3, <2>4
<1>5. CASE PruneList(c)
  <2> DEFINE s == obj[caller[c].o].snaps
             gone == ToSet(SubSeq(s, 1, Len(s) - MaxSnapshots))
  <2>1. /\ caller[c].pc = "prune" /\ table' = table /\ leaked' = leaked
        /\ \/ caller' = [caller EXCEPT ![c].pc = "zdel", ![c].todo = gone]
           \/ Return(c)
        BY <1>5 DEF PruneList
  <2> HIDE DEF gone, s
  <2>2. caller[c].pc \in AtSnap BY <2>1 DEF AtSnap
  <2>3. CASE Return(c) BY <1>b, <2>1, <2>2, <2>3
  <2>4. CASE caller' = [caller EXCEPT ![c].pc = "zdel", ![c].todo = gone]
    <3>1. /\ caller'[c].op = caller[c].op /\ caller'[c].id = caller[c].id /\ caller'[c].o = caller[c].o
          /\ caller'[c].pc = "zdel"
          BY <2>4 DEF HostInv, CallsOK, IsCall, CallFields
    <3>2. SnapHolds(caller'[c], obj', workload') BY <1>d, <2>1, <3>1 DEF SnapHolds
    <3> QED BY <1>c, <2>1, <2>2, <3>1, <3>2
  <2> QED BY <2>1, <2>3, <2>4
<1>6. CASE ZFSDestroySnapshot(c)
  <2>1. /\ caller[c].pc = "zdel" /\ table' = table /\ leaked \subseteq leaked'
        /\ Return(c) \/ \E n : caller' = [caller EXCEPT ![c].todo = @ \ {n}]
        BY <1>6 DEF ZFSDestroySnapshot
  <2>2. caller[c].pc \in AtSnap BY <2>1 DEF AtSnap
  <2>3. CASE Return(c) BY <1>b, <2>1, <2>2, <2>3
  <2>4. ASSUME NEW n, caller' = [caller EXCEPT ![c].todo = @ \ {n}] PROVE WriterInv'
    <3>1. /\ caller'[c].op = caller[c].op /\ caller'[c].id = caller[c].id /\ caller'[c].o = caller[c].o
          /\ caller'[c].pc = "zdel"
          BY <2>1, <2>4 DEF HostInv, CallsOK, IsCall, CallFields
    <3>2. SnapHolds(caller'[c], obj', workload') BY <1>d, <2>1, <3>1 DEF SnapHolds
    <3> QED BY <1>c, <2>1, <2>2, <3>1, <3>2
  <2> QED BY <2>1, <2>3, <2>4
<1>7. ASSUME NEW id \in IDs, NEW n, RollbackSession(c, id, n) PROVE WriterInv'
  <2>1. /\ table[id] # 0 /\ UNCHANGED <<table, leaked>>
        /\ caller' = [caller EXCEPT ![c] = [Ready EXCEPT !.pc = "zroll", !.op = "rollback",
                                            !.id = id, !.o = table[id], !.name = n]]
        BY <1>7, Zenon DEF RollbackSession, Active
  <2> QED BY <1>a, <2>1
<1>8. CASE ZFSRollback(c)
  <2>1. /\ caller[c].pc = "zroll" /\ table' = table /\ leaked \subseteq leaked'
        /\ \E pc \in {"rolled", "rollfail"} : Goto(c, pc)
        BY <1>8 DEF ZFSRollback
  <2>2. caller[c].pc \in AtSnap BY <2>1 DEF AtSnap, AtRollback
  <2>4. ASSUME NEW pc \in {"rolled", "rollfail"}, Goto(c, pc) PROVE WriterInv'
    <3>1. /\ caller'[c].op = caller[c].op /\ caller'[c].id = caller[c].id /\ caller'[c].o = caller[c].o
          /\ caller'[c].pc = pc
          BY <2>4, GotoAt
    <3>2. SnapHolds(caller'[c], obj', workload') BY <1>d, <2>1, <2>4, <3>1 DEF SnapHolds
    <3> QED BY <1>c, <2>1, <2>2, <3>1, <3>2
  <2> QED BY <2>1, <2>4
<1>9. CASE FinishRollback(c)
  <2>1. /\ caller[c].pc \in AtSnap /\ table' = table /\ leaked' = leaked /\ Return(c)
        BY <1>9 DEF FinishRollback, AtSnap, AtRollback
  <2> QED BY <1>b, <2>1
<1> QED BY <1>1, <1>2, <1>3, <1>4, <1>5, <1>6, <1>7, <1>8, <1>9 DEF Snapshot

LEMMA WriterStep == HostInv /\ PlaceInv /\ DatasetInv /\ WriterInv /\ [Next]_vars => WriterInv'
<1> SUFFICES ASSUME HostInv, PlaceInv, DatasetInv, WriterInv, [Next]_vars PROVE WriterInv' OBVIOUS
<1>0. Grows(obj, obj') /\ PlaceInv' BY StepHolds, PlaceStep DEF Outcome
<1>1. ASSUME NEW c \in Callers, ByCall(c) PROVE WriterInv'
  <2>1. Moves(c) BY <1>0, <1>1, CallsMove
  <2> QED BY <1>0, <1>1, <2>1, CreateWriters, DestroyWriters, OtherWriters, ToolWriters, SnapshotWriters
          DEF ByCall
<1>2. ASSUME UNCHANGED <<table, obj, caller, overlap, leaked, workload>> PROVE WriterInv'
  <2>1. Paired' BY <1>2 DEF WriterInv, Paired, Conflicts, Snapshots
  <2>2. RollNoted' BY <1>2 DEF WriterInv, RollNoted
  <2>3. \A c \in Callers : SnapHolds(caller'[c], obj', workload') BY <1>2 DEF WriterInv
  <2>4. \A i \in IDs : Clean(i)' => SnapPlace(i)' BY <1>2 DEF WriterInv, Clean, SnapPlace
  <2> QED BY <2>1, <2>2, <2>3, <2>4 DEF WriterInv
<1>3. CASE ByRun
  <2>1. workload' = workload
        BY <1>3 DEF ByRun, ProcessExits, MonitorExit, RunEnter, RunSlot, RunStart, RunExit, config
  <2> QED BY <1>2, <1>3, <2>1, RunsKeep
<1>4. CASE UNCHANGED vars BY <1>2, <1>4 DEF vars, config
<1> QED BY <1>1, <1>3, <1>4 DEF Next, ByCall, ByRun

LEMMA WriterInit == Init => WriterInv
<1> SUFFICES ASSUME Init PROVE WriterInv OBVIOUS
<1>1. (\A c \in Callers : caller[c] = Ready) /\ overlap = {} BY DEF Init
<1>2. \A c \in Callers : Apart(caller[c]) /\ ~Busy(caller[c]) BY <1>1, ReadyApart
<1>3. \A c \in Callers : SnapHolds(caller[c], obj, workload) BY <1>2, OtherHolds DEF Apart
<1>4. Paired BY <1>1 DEF Paired, Ready
<1>5. RollNoted BY <1>1 DEF RollNoted
<1>6. \A i \in IDs : SnapPlace(i) BY <1>2 DEF SnapPlace, Apart
<1> QED BY <1>3, <1>4, <1>5, <1>6 DEF WriterInv

LEMMA WriterInductive == Spec => []WriterInv
BY WriterInit, WriterStep, Inductive, PlaceInductive, DatasetInductive, PTL DEF Spec

----------------------------------------------------------------------------
(* Lists of snapshots *)

LEMMA PlainIs ==
    ASSUME NEW S, NEW s \in Seq(S)
    PROVE  Plain(s) /\ Len(s) \in Nat /\ DOMAIN s = 1..Len(s)
<1>1. \A j \in 1..Len(s) : s[j] \in {s[k] : k \in DOMAIN s} OBVIOUS
<1> QED BY <1>1 DEF Plain

LEMMA PlainLen ==
    ASSUME NEW s, Plain(s)
    PROVE  Len(s) \in Nat /\ DOMAIN s = 1..Len(s)
<1> DEFINE S == {s[k] : k \in DOMAIN s}
<1>1. s \in Seq(S) BY DEF Plain
<1> HIDE DEF S
<1> QED BY <1>1

\* Lists with the same entries are the same.
LEMMA PlainSame ==
    ASSUME NEW s, NEW t, Plain(s), Plain(t), Len(s) = Len(t), \A j \in 1..Len(s) : s[j] = t[j]
    PROVE  s = t
<1> DEFINE S == {s[k] : k \in DOMAIN s} \cup {t[k] : k \in DOMAIN t}
<1>1. s \in Seq(S) /\ t \in Seq(S) BY DEF Plain
<1> HIDE DEF S
<1> QED BY <1>1

LEMMA PlainAppend ==
    ASSUME NEW s, Plain(s), NEW e
    PROVE  /\ Plain(Append(s, e)) /\ Len(Append(s, e)) = Len(s) + 1 /\ Len(s) \in Nat
           /\ \A j \in 1..Len(s) : Append(s, e)[j] = s[j]
           /\ Append(s, e)[Len(s) + 1] = e
<1> DEFINE S == {s[k] : k \in DOMAIN s} \cup {e}
<1>1. s \in Seq(S) /\ e \in S BY DEF Plain
<1> HIDE DEF S
<1>2. Append(s, e) \in Seq(S) BY <1>1
<1>3. Plain(Append(s, e)) BY <1>2, PlainIs
<1>4. Len(Append(s, e)) = Len(s) + 1 /\ Len(s) \in Nat BY <1>1
<1>5. \A j \in 1..Len(s) : Append(s, e)[j] = s[j] BY <1>1
<1>6. Append(s, e)[Len(s) + 1] = e BY <1>1
<1> QED BY <1>3, <1>4, <1>5, <1>6

LEMMA PlainSub ==
    ASSUME NEW s, Plain(s), NEW a \in Nat, NEW b \in Nat, a <= b, b <= Len(s)
    PROVE  /\ Plain(SubSeq(s, a + 1, b)) /\ Len(SubSeq(s, a + 1, b)) = b - a
           /\ \A j \in 1..(b - a) : SubSeq(s, a + 1, b)[j] = s[a + j]
<1> DEFINE S == {s[k] : k \in DOMAIN s}
<1>1. s \in Seq(S) BY DEF Plain
<1> HIDE DEF S
<1>2. SubSeq(s, a + 1, b) \in Seq(S) BY <1>1
<1>3. Plain(SubSeq(s, a + 1, b)) BY <1>2, PlainIs
<1>4. Len(SubSeq(s, a + 1, b)) = b - a BY <1>1
<1>5. ASSUME NEW j \in 1..(b - a) PROVE SubSeq(s, a + 1, b)[j] = s[a + j] BY <1>1
<1> QED BY <1>3, <1>4, <1>5

LEMMA PlainHead ==
    ASSUME NEW s, Plain(s), NEW b \in Nat, b <= Len(s)
    PROVE  /\ Plain(SubSeq(s, 1, b)) /\ Len(SubSeq(s, 1, b)) = b
           /\ \A j \in 1..b : SubSeq(s, 1, b)[j] = s[j]
<1> DEFINE S == {s[k] : k \in DOMAIN s}
<1>1. s \in Seq(S) BY DEF Plain
<1> HIDE DEF S
<1>2. SubSeq(s, 1, b) \in Seq(S) BY <1>1
<1>3. Plain(SubSeq(s, 1, b)) BY <1>2, PlainIs
<1>4. Len(SubSeq(s, 1, b)) = b BY <1>1
<1>5. ASSUME NEW j \in 1..b PROVE SubSeq(s, 1, b)[j] = s[j] BY <1>1
<1> QED BY <1>3, <1>4, <1>5

LEMMA EmptyPlain == Plain(<<>>) /\ Names(<<>>)
BY DEF Plain, Names

LEMMA NamesAppend ==
    ASSUME NEW s, Names(s), NEW n, ~Contains(s, n)
    PROVE  Names(Append(s, n))
<1> DEFINE t == Append(s, n)
<1>1. /\ Plain(t) /\ Len(t) = Len(s) + 1 /\ Len(s) \in Nat
      /\ \A j \in 1..Len(s) : t[j] = s[j]
      /\ t[Len(s) + 1] = n
      BY PlainAppend DEF Names
<1> HIDE DEF t
<1>2. \A j \in 1..Len(s) : s[j] # n BY DEF Contains
<1>3. \A j, k \in 1..Len(s) : s[j] = s[k] => j = k BY DEF Names
<1>4. \A j \in 1..Len(t) : j \in 1..Len(s) \/ j = Len(s) + 1 BY <1>1
<1>5. \A j, k \in 1..Len(t) : t[j] = t[k] => j = k BY <1>1, <1>2, <1>3, <1>4
<1> QED BY <1>1, <1>5 DEF Names, t

\* The place of an entry of a list that names nothing twice.
LEMMA PositionIs ==
    ASSUME NEW s, Names(s), NEW k \in 1..Len(s)
    PROVE  Position(s, s[k]) = k
<1> DEFINE I == {i \in 1..Len(s) : s[i] = s[k]}
<1>0. Len(s) \in Nat BY PlainLen DEF Names
<1>1. I = {k} BY DEF Names
<1>2. Position(s, s[k]) = IF I # {} THEN Min(I) ELSE 0 BY DEF Position, SelectInSeq
<1> HIDE DEF I
<1>3. Min({k}) = k BY <1>0 DEF Min
<1> QED BY <1>1, <1>2, <1>3

LEMMA PositionOf ==
    ASSUME NEW s, Names(s), NEW n, Contains(s, n)
    PROVE  Position(s, n) \in 1..Len(s) /\ s[Position(s, n)] = n
<1>1. PICK k \in 1..Len(s) : s[k] = n BY DEF Contains
<1> QED BY <1>1, PositionIs

LEMMA NamesUpTo ==
    ASSUME NEW s, Names(s), NEW n, Contains(s, n)
    PROVE  Names(UpTo(s, n)) /\ UpTo(s, n) # <<>>
<1> DEFINE b == Position(s, n)
           t == UpTo(s, n)
<1>1. b \in 1..Len(s) /\ Len(s) \in Nat BY PositionOf, PlainLen DEF Names
<1>2. t = SubSeq(s, 1, b) BY DEF UpTo
<1> HIDE DEF b, t
<1>3. b \in Nat /\ b <= Len(s) /\ b # 0 BY <1>1
<1>4. Plain(t) /\ Len(t) = b /\ \A j \in 1..b : t[j] = s[j] BY <1>2, <1>3, PlainHead DEF Names
<1>5. \A j \in 1..b : j \in 1..Len(s) BY <1>1
<1>6. \A j, k \in 1..Len(t) : t[j] = t[k] => j = k BY <1>4, <1>5 DEF Names
<1>7. t # <<>> BY <1>3, <1>4
<1> QED BY <1>4, <1>6, <1>7 DEF Names, t

LEMMA RemovePlain ==
    ASSUME NEW s, Plain(s), NEW k \in 1..Len(s)
    PROVE  /\ Plain(RemoveAt(s, k)) /\ Len(RemoveAt(s, k)) = Len(s) - 1
           /\ \A j \in 1..(Len(s) - 1) : RemoveAt(s, k)[j] = IF j < k THEN s[j] ELSE s[j + 1]
<1> DEFINE S == {s[i] : i \in DOMAIN s}
           a == SubSeq(s, 1, k - 1)
           b == SubSeq(s, k + 1, Len(s))
<1>0. s \in Seq(S) BY DEF Plain
<1> HIDE DEF S
<1>1. Len(s) \in Nat /\ k \in Nat /\ k - 1 \in Nat /\ k - 1 <= Len(s) BY <1>0
<1>2. a \in Seq(S) /\ b \in Seq(S) BY <1>0, <1>1
<1>3. Len(a) = k - 1 /\ Len(b) = Len(s) - k BY <1>0, <1>1
<1>4. \A j \in 1..(k - 1) : a[j] = s[j] BY <1>1, PlainHead
<1>5. \A j \in 1..(Len(s) - k) : b[j] = s[k + j] BY <1>1, PlainSub
<1>6. RemoveAt(s, k) = a \o b BY DEF RemoveAt
<1> HIDE DEF a, b
<1>7. a \o b \in Seq(S) /\ Len(a \o b) = Len(s) - 1 BY <1>1, <1>2, <1>3
<1>8. ASSUME NEW j \in 1..(Len(s) - 1) PROVE (a \o b)[j] = IF j < k THEN s[j] ELSE s[j + 1]
  <2>1. CASE j < k
    <3>1. j \in 1..(k - 1) BY <1>1, <2>1
    <3>2. (a \o b)[j] = a[j] BY <1>2, <1>3, <3>1
    <3> QED BY <1>4, <2>1, <3>1, <3>2
  <2>2. CASE ~(j < k)
    <3>1. j - (k - 1) \in 1..(Len(s) - k) /\ k + (j - (k - 1)) = j + 1 BY <1>1, <2>2
    <3>2. (a \o b)[j] = b[j - (k - 1)] BY <1>1, <1>2, <1>3, <2>2
    <3>3. b[j - (k - 1)] = s[j + 1] BY <1>5, <3>1
    <3> QED BY <2>2, <3>2, <3>3
  <2> QED BY <2>1, <2>2
<1> QED BY <1>6, <1>7, <1>8, PlainIs

LEMMA NamesRemove ==
    ASSUME NEW s, Names(s), NEW n, Contains(s, n)
    PROVE  Names(RemoveAt(s, Position(s, n)))
<1> DEFINE k == Position(s, n)
           t == RemoveAt(s, k)
           m == Len(s) - 1
<1>1. k \in 1..Len(s) /\ Len(s) \in Nat BY PositionOf, PlainLen DEF Names
<1> HIDE DEF k
<1>2. Plain(t) /\ Len(t) = m /\ \A j \in 1..m : t[j] = IF j < k THEN s[j] ELSE s[j + 1]
      BY <1>1, RemovePlain DEF Names
<1> HIDE DEF t
<1>3. \A i, j \in 1..Len(s) : s[i] = s[j] => i = j BY DEF Names
<1>4. ASSUME NEW i \in 1..m, NEW j \in 1..m, t[i] = t[j] PROVE i = j
  <2>1. i \in 1..Len(s) /\ i + 1 \in 1..Len(s) /\ j \in 1..Len(s) /\ j + 1 \in 1..Len(s) BY <1>1
  <2>2. CASE i < k /\ j < k BY <1>2, <1>3, <1>4, <2>1, <2>2
  <2>3. CASE i < k /\ ~(j < k)
    <3>1. s[i] = s[j + 1] BY <1>2, <1>4, <2>3
    <3>2. i = j + 1 BY <1>3, <2>1, <3>1
    <3> QED BY <1>1, <2>1, <2>3, <3>2
  <2>4. CASE ~(i < k) /\ j < k
    <3>1. s[i + 1] = s[j] BY <1>2, <1>4, <2>4
    <3>2. i + 1 = j BY <1>3, <2>1, <3>1
    <3> QED BY <1>1, <2>1, <2>4, <3>2
  <2>5. CASE ~(i < k) /\ ~(j < k)
    <3>1. s[i + 1] = s[j + 1] BY <1>2, <1>4, <2>5
    <3>2. i + 1 = j + 1 BY <1>3, <2>1, <3>1
    <3> QED BY <2>1, <3>2
  <2> QED BY <2>2, <2>3, <2>4, <2>5
<1> QED BY <1>2, <1>4 DEF Names, t, k

\* The list as pruning leaves it.
LEMMA AheadPrune ==
    ASSUME NEW d, Plain(d), NEW over \in 1..Len(d)
    PROVE  /\ Plain(SubSeq(d, over + 1, Len(d)))
           /\ Ahead(SubSeq(d, over + 1, Len(d)), d, ToSet(SubSeq(d, 1, over)))
<1> DEFINE a == SubSeq(d, over + 1, Len(d))
           b == SubSeq(d, 1, over)
<1>1. Len(d) \in Nat /\ over \in Nat /\ over <= Len(d) BY PlainLen
<1>2. Plain(a) /\ Len(a) = Len(d) - over /\ \A j \in 1..(Len(d) - over) : a[j] = d[over + j]
      BY <1>1, PlainSub
<1>3. Plain(b) /\ Len(b) = over /\ \A j \in 1..over : b[j] = d[j] BY <1>1, PlainHead
<1> HIDE DEF a, b
<1>4. DOMAIN b = 1..over BY <1>3, PlainLen
<1>5. ToSet(b) = {d[j] : j \in 1..over} BY <1>3, <1>4 DEF ToSet
<1>6. Len(a) <= Len(d) /\ Len(d) - Len(a) = over BY <1>1, <1>2
<1>7. Ahead(a, d, ToSet(b)) BY <1>2, <1>5, <1>6 DEF Ahead
<1> QED BY <1>2, <1>7 DEF a, b

\* Nothing is left to destroy.
LEMMA AheadDone ==
    ASSUME NEW a, NEW d, Plain(a), Plain(d), Ahead(a, d, {})
    PROVE  a = d
<1>1. Len(a) \in Nat /\ Len(d) \in Nat /\ Len(a) <= Len(d) BY PlainLen DEF Ahead
<1>2. \A j \in 1..(Len(d) - Len(a)) : FALSE BY DEF Ahead
<1>3. Len(d) - Len(a) = 0
  <2>1. CASE Len(d) - Len(a) > 0 BY <1>1, <1>2, <2>1
  <2> QED BY <1>1, <2>1
<1>4. Len(a) = Len(d) BY <1>1, <1>3
<1>5. \A j \in 1..Len(a) : a[j] = d[j]
  <2> SUFFICES ASSUME NEW j \in 1..Len(a) PROVE a[j] = d[j] OBVIOUS
  <2>1. a[j] = d[Len(d) - Len(a) + j] BY DEF Ahead
  <2>2. Len(d) - Len(a) + j = j BY <1>1, <1>3
  <2> QED BY <2>1, <2>2
<1> QED BY <1>4, <1>5, PlainSame

\* One of the old snapshots is destroyed.
LEMMA AheadRemove ==
    ASSUME NEW a, NEW d, NEW todo, Plain(a), Names(d), Ahead(a, d, todo), NEW n \in todo
    PROVE  Contains(d, n) /\ Ahead(a, RemoveAt(d, Position(d, n)), todo \ {n})
<1> DEFINE g == Len(d) - Len(a)
<1>0. Len(a) \in Nat /\ Len(d) \in Nat /\ Len(a) <= Len(d) BY PlainLen DEF Ahead, Names
<1>1. g \in Nat /\ Len(d) = g + Len(a) BY <1>0
<1>2. todo = {d[j] : j \in 1..g} /\ \A j \in 1..Len(a) : a[j] = d[g + j] BY DEF Ahead
<1> HIDE DEF g
<1>3. PICK k \in 1..g : n = d[k] BY <1>2
<1>4. k \in 1..Len(d) BY <1>0, <1>1, <1>3
<1>5. Contains(d, n) /\ Position(d, n) = k BY <1>3, <1>4, PositionIs DEF Contains
<1> DEFINE e == RemoveAt(d, k)
<1>6. Len(e) = Len(d) - 1 /\ \A j \in 1..(Len(d) - 1) : e[j] = IF j < k THEN d[j] ELSE d[j + 1]
      BY <1>4, RemovePlain DEF Names
<1> HIDE DEF e
<1>7. Len(a) <= Len(e) /\ Len(e) - Len(a) = g - 1 BY <1>0, <1>1, <1>3, <1>6
<1>8. ASSUME NEW j \in 1..Len(a) PROVE a[j] = e[g - 1 + j]
  <2>1. g - 1 + j \in 1..(Len(d) - 1) /\ ~(g - 1 + j < k) /\ (g - 1 + j) + 1 = g + j
        BY <1>0, <1>1, <1>3
  <2>2. e[g - 1 + j] = d[g + j] BY <1>6, <2>1
  <2> QED BY <1>2, <2>2
<1>9. todo \ {n} = {e[j] : j \in 1..(g - 1)}
  <2>0. \A i, j \in 1..Len(d) : d[i] = d[j] => i = j BY DEF Names
  <2>1. ASSUME NEW x \in todo \ {n} PROVE \E j \in 1..(g - 1) : e[j] = x
    <3>1. PICK i \in 1..g : x = d[i] BY <1>2
    <3>2. i # k BY <1>3, <3>1
    <3>3. CASE i < k
      <4>1. i \in 1..(g - 1) /\ i \in 1..(Len(d) - 1) BY <1>0, <1>1, <1>3, <3>3
      <4>2. e[i] = d[i] BY <1>6, <3>3, <4>1
      <4> QED BY <3>1, <4>1, <4>2
    <3>4. CASE i > k
      <4>1. i - 1 \in 1..(g - 1) /\ i - 1 \in 1..(Len(d) - 1) /\ ~(i - 1 < k) /\ (i - 1) + 1 = i
            BY <1>0, <1>1, <1>3, <3>4
      <4>2. e[i - 1] = d[i] BY <1>6, <4>1
      <4> QED BY <3>1, <4>1, <4>2
    <3> QED BY <1>3, <3>2, <3>3, <3>4
  <2>2. ASSUME NEW j \in 1..(g - 1) PROVE e[j] \in todo \ {n}
    <3>0. j \in 1..(Len(d) - 1) /\ j \in 1..g /\ j + 1 \in 1..g /\ j \in 1..Len(d) /\ j + 1 \in 1..Len(d)
          BY <1>0, <1>1
    <3>1. CASE j < k
      <4>1. e[j] = d[j] BY <1>6, <3>0, <3>1
      <4>2. d[j] # d[k] BY <1>3, <1>4, <2>0, <3>0, <3>1
      <4> QED BY <1>2, <1>3, <3>0, <4>1, <4>2
    <3>2. CASE ~(j < k)
      <4>1. e[j] = d[j + 1] BY <1>6, <3>0, <3>2
      <4>2. d[j + 1] # d[k] BY <1>3, <1>4, <2>0, <3>0, <3>2
      <4> QED BY <1>2, <1>3, <3>0, <4>1, <4>2
    <3> QED BY <3>1, <3>2
  <2> QED BY <2>1, <2>2
<1>10. Ahead(a, e, todo \ {n}) BY <1>7, <1>8, <1>9 DEF Ahead
<1> QED BY <1>5, <1>10 DEF e

----------------------------------------------------------------------------
(* The two lists *)

LEMMA TidyBefore ==
    ASSUME NEW i, Tidy(i)', overlap \subseteq overlap', leaked \subseteq leaked'
    PROVE  Tidy(i) /\ Clean(i) /\ Clean(i)'
BY DEF Tidy, Clean

\* Two calls are never at work on the snapshots of a tidy ID.
LEMMA Sole ==
    ASSUME HostInv, PlaceInv, WriterInv, NEW i \in IDs, Tidy(i), NEW c \in Callers, NEW d \in Callers,
           c # d, caller[c].pc \in AtSnap, caller[d].pc \in AtSnap, caller[c].id = i, caller[d].id = i
    PROVE  FALSE
<1>0. caller[c].pc # "ready" /\ caller[d].pc # "ready" BY DEF AtSnap, AtRollback
<1>1. "snap" \notin Conflicts(caller[c].op, caller[d].op)
      BY <1>0 DEF WriterInv, Paired, Tidy
<1>2. SnapPlace(i) /\ <<i, "roll">> \notin overlap BY DEF WriterInv, RollNoted, Tidy
<1>3. ASSUME NEW a \in Callers, NEW b \in Callers, caller[a].op = "rollback", caller[b].op = "tool",
             caller[a].id = i, caller[b].id = i
      PROVE  FALSE
  <2>1. caller[a].o = table[i] /\ caller[b].o = table[i] BY <1>2, <1>3 DEF SnapPlace, SnapOps
  <2>2. obj[caller[a].o].tools = 0 BY <1>2, <1>3 DEF HostInv, Excluded
  <2>3. caller[a].o \in DOMAIN obj BY <1>3 DEF HostInv, CallsOK, Counting
  <2>4. b \in ToolsOf(caller, caller[a].o) BY <1>3, <2>1 DEF ToolsOf
  <2>5. Cardinality(ToolsOf(caller, caller[a].o)) = 0 BY <2>2, <2>3 DEF HostInv, Counted
  <2>6. IsFiniteSet(ToolsOf(caller, caller[a].o))
    <3>1. ToolsOf(caller, caller[a].o) \subseteq Callers BY DEF ToolsOf
    <3> QED BY <3>1, HostAssumption, FS_Subset
  <2> QED BY <2>4, <2>5, <2>6, FS_EmptySet
<1>4. caller[c].op \in SnapOps /\ caller[d].op \in SnapOps BY SnapOp
<1>5. ASSUME NEW a \in Callers, caller[a].pc \in AtSnap, caller[a].op = "tool"
      PROVE  "tool" \in Snapshots
  <2>1. caller[a].pc \in {"zsnap", "append"} BY <1>5, SnapOp DEF AtSnap
  <2>2. "toolsnap" \in workload BY <1>5, <2>1 DEF WriterInv, SnapHolds
  <2> QED BY <2>2 DEF Snapshots
<1>6. \/ {caller[c].op, caller[d].op} \subseteq Snapshots
      \/ {caller[c].op, caller[d].op} \subseteq {"rollback", "turn", "snap"}
      \/ caller[c].op = "rollback" /\ caller[d].op = "tool"
      \/ caller[d].op = "rollback" /\ caller[c].op = "tool"
  <2>1. "turn" \in Snapshots /\ "snap" \in Snapshots BY DEF Snapshots
  <2> QED BY <1>4, <1>5, <2>1 DEF SnapOps
<1> QED BY <1>1, <1>3, <1>6 DEF Conflicts

\* What a step leaves of the list of an ID's session.
SameSnaps(i) == table[i] # 0 => obj'[table[i]].snaps = obj[table[i]].snaps

LEMMA ServedBefore ==
    ASSUME HostInv, Grows(obj, obj'), NEW i \in IDs, table'[i] = table[i], Serves(i)'
    PROVE  Serves(i) /\ table[i] # 0
<1>1. table[i] # 0 /\ obj'[table[i]].state \in Serving BY DEF Serves
<1>2. table[i] \in DOMAIN obj BY <1>1 DEF HostInv, TableOK
<1> QED BY <1>1, <1>2 DEF Serves, Grows, Follows

\* An ID whose lists and whose snapshot calls a step leaves alone.
LEMMA ListsFrame ==
    ASSUME HostInv, Grows(obj, obj'), NEW c \in Callers, Moves(c), NEW i \in IDs, ListsAt(i),
           table'[i] = table[i], ds'[i].snaps = ds[i].snaps, SameSnaps(i),
           ~GapOn(caller[c], i), ~GapOn(caller'[c], i),
           NewOn(caller'[c], i) => NewOn(caller[c], i)
    PROVE  ListsAt(i)'
<1>0. \A d \in Callers \ {c} : caller'[d] = caller[d] BY DEF Moves
<1>1. \A d \in Callers : NewOn(caller'[d], i) => ds'[i].snaps = <<>> BY <1>0 DEF ListsAt
<1>2. ASSUME Serves(i)' PROVE Matched(i)'
  <2>1. Serves(i) /\ table[i] # 0 BY <1>2, ServedBefore
  <2>2. Matched(i) /\ obj'[table'[i]].snaps = obj[table[i]].snaps BY <2>1 DEF ListsAt, SameSnaps
  <2>3. \A d \in Callers : GapOn(caller'[d], i) => caller'[d] = caller[d] BY <1>0
  <2>4. \A d \in Callers : GapOn(caller[d], i) => caller'[d] = caller[d] BY <1>0
  <2>5. Plain(obj'[table'[i]].snaps) BY <2>2 DEF Matched
  <2>6. ASSUME NEW d \in Callers, GapOn(caller'[d], i)
        PROVE  Between(caller'[d], obj'[table'[i]].snaps, ds'[i].snaps)
    <3>1. Between(caller[d], obj[table[i]].snaps, ds[i].snaps) BY <2>2, <2>3, <2>6 DEF Matched
    <3> QED BY <2>2, <2>3, <2>6, <3>1
  <2>7. (\E d \in Callers : GapOn(caller'[d], i)) \/ obj'[table'[i]].snaps = ds'[i].snaps
        BY <2>2, <2>4 DEF Matched
  <2> QED BY <2>5, <2>6, <2>7 DEF Matched
<1> QED BY <1>1, <1>2 DEF ListsAt

\* An ID that does not serve.
LEMMA ListsUnserved ==
    ASSUME NEW c \in Callers, Moves(c), NEW i \in IDs, ListsAt(i), ~Serves(i)',
           ds'[i].snaps \in {<<>>, ds[i].snaps},
           NewOn(caller'[c], i) => NewOn(caller[c], i) \/ ds'[i].snaps = <<>>
    PROVE  ListsAt(i)'
<1>0. \A d \in Callers \ {c} : caller'[d] = caller[d] BY DEF Moves
<1>1. ASSUME NEW d \in Callers, NewOn(caller'[d], i) PROVE ds'[i].snaps = <<>>
      BY <1>0, <1>1 DEF ListsAt
<1> QED BY <1>1 DEF ListsAt

\* The lists are those of the place a call is at.
LinedUp(c, i) ==
    /\ Plain(obj[table[i]].snaps)
    /\ GapOn(caller[c], i) => Between(caller[c], obj[table[i]].snaps, ds[i].snaps)
    /\ GapOn(caller[c], i) \/ obj[table[i]].snaps = ds[i].snaps

\* A call at work on the snapshots of an ID is the only one.
LEMMA ListsWriter ==
    ASSUME HostInv, PlaceInv, WriterInv, Grows(obj, obj'), NEW c \in Callers, Moves(c), NEW i \in IDs,
           ListsAt(i), Tidy(i), table' = table, caller[c].pc \in AtSnap, caller[c].id = i,
           caller'[c].op # "create", Serves(i)' /\ LinedUp(c, i) => LinedUp(c, i)'
    PROVE  ListsAt(i)'
<1>0. \A e \in Callers \ {c} : caller'[e] = caller[e] BY DEF Moves
<1>a. AtGap \subseteq AtSnap BY DEF AtGap, AtSnap, AtRollback
<1>1. \A e \in Callers \ {c} : ~GapOn(caller[e], i) /\ ~GapOn(caller'[e], i)
      BY <1>0, <1>a, Sole DEF GapOn
<1>2. caller[c].op \in SnapOps BY SnapOp
<1>3. ASSUME NEW e \in Callers, NewOn(caller'[e], i) PROVE FALSE
  <2>1. e # c BY <1>3 DEF NewOn
  <2>2. Busy(caller[e]) /\ caller[e].id = i BY <1>0, <1>3, <2>1 DEF NewOn, Busy
  <2> QED BY <1>2, <2>2 DEF WriterInv, SnapPlace, Tidy
<1>4. ASSUME Serves(i)' PROVE Matched(i)'
  <2>1. Serves(i) BY <1>4, ServedBefore
  <2>2. Matched(i) BY <2>1 DEF ListsAt
  <2>3. LinedUp(c, i) BY <1>1, <2>2 DEF Matched, LinedUp
  <2>4. LinedUp(c, i)' BY <1>4, <2>3
  <2>5. \A e \in Callers : GapOn(caller'[e], i) => e = c BY <1>1
  <2> QED BY <2>4, <2>5 DEF Matched, LinedUp
<1> QED BY <1>3, <1>4 DEF ListsAt

LEMMA SetSnaps ==
    ASSUME HostInv, NEW o, NEW e, Set(o, e), o \in DOMAIN obj => e.snaps = obj[o].snaps
    PROVE  \A i \in IDs : SameSnaps(i)
BY DEF Set, SameSnaps, HostInv, TableOK

LEMMA StillSnaps ==
    ASSUME obj' = obj
    PROVE  \A i \in IDs : SameSnaps(i)
BY DEF SameSnaps

LEMMA SnapsKept ==
    ASSUME NEW s, IsSession(s), NEW x
    PROVE  /\ [s EXCEPT !.state = x].snaps = s.snaps
           /\ [s EXCEPT !.tools = x].snaps = s.snaps
           /\ [s EXCEPT !.rolling = x].snaps = s.snaps
           /\ [s EXCEPT !.procs = x].snaps = s.snaps
           /\ [s EXCEPT !.rolling = FALSE, !.state = x].snaps = s.snaps
BY DEF IsSession, SessionFields

LEMMA AppendSnaps ==
    ASSUME HostInv, NEW id, NEW st, NEW b, obj' = Append(obj, Session(id, st, b))
    PROVE  /\ \A i \in IDs : SameSnaps(i)
           /\ obj'[Len(obj')].state = st /\ obj'[Len(obj')].snaps = <<>>
<1> DEFINE e == Session(id, st, b)
<1>1. e.state = st /\ e.snaps = <<>> BY DEF Session
<1> DEFINE S == {obj[i] : i \in DOMAIN obj} \cup {e}
<1>2. obj \in Seq({obj[i] : i \in DOMAIN obj}) BY DEF HostInv, Sessions
<1>3. obj \in Seq(S) /\ e \in S BY <1>2
<1> HIDE DEF S, e
<1>4. obj' = Append(obj, e) BY DEF e
<1>5. Len(obj') = Len(obj) + 1 /\ obj'[Len(obj) + 1] = e BY <1>3, <1>4
<1>6. \A o \in DOMAIN obj : obj'[o] = obj[o] BY <1>3, <1>4
<1>7. \A i \in IDs : table[i] # 0 => table[i] \in DOMAIN obj BY DEF HostInv, TableOK
<1> QED BY <1>1, <1>5, <1>6, <1>7 DEF SameSnaps

LEMMA NoGap ==
    ASSUME NEW k, Apart(k), NEW i
    PROVE  ~GapOn(k, i)
BY DEF Apart, GapOn, AtGap, AtSnap, AtRollback

LEMMA ListsStep ==
    ASSUME ListInv, NEW c \in Callers, Moves(c), leaked \subseteq leaked',
           \A i \in IDs : Names(ds'[i].snaps),
           \A i \in IDs : Tidy(i) /\ Tidy(i)' /\ ListsAt(i) => ListsAt(i)'
    PROVE  ListInv'
<1>1. ASSUME NEW i \in IDs, Tidy(i)' PROVE ListsAt(i)'
  <2>1. Tidy(i) BY <1>1, TidyBefore DEF Moves
  <2> QED BY <1>1, <2>1 DEF ListInv
<1> QED BY <1>1 DEF ListInv

\* Steps that leave all lists and snapshot calls alone.
LEMMA QuietLists ==
    ASSUME HostInv, ListInv, Grows(obj, obj'), NEW c \in Callers, Moves(c), leaked \subseteq leaked',
           table' = table, ds' = ds, \A i \in IDs : SameSnaps(i),
           \A i \in IDs : ~GapOn(caller[c], i) /\ ~GapOn(caller'[c], i),
           \A i \in IDs : NewOn(caller'[c], i) => NewOn(caller[c], i)
    PROVE  ListInv'
<1>1. \A i \in IDs : Names(ds'[i].snaps) BY DEF ListInv
<1>2. ASSUME NEW i \in IDs, ListsAt(i) PROVE ListsAt(i)'
  <2>1. table'[i] = table[i] /\ ds'[i].snaps = ds[i].snaps OBVIOUS
  <2> QED BY <1>2, <2>1, ListsFrame
<1> QED BY <1>1, <1>2, ListsStep

\* Steps that touch the entry or the dataset of one ID.
LEMMA LifeLists ==
    ASSUME HostInv, ListInv, Grows(obj, obj'), NEW c \in Callers, Moves(c), leaked \subseteq leaked',
           NEW id \in IDs,
           \A i \in IDs \ {id} : table'[i] = table[i] /\ ds'[i] = ds[i],
           \A i \in IDs : SameSnaps(i), Apart(caller[c]), Apart(caller'[c]),
           caller'[c].op = "create" => caller'[c].id = id,
           Names(ds'[id].snaps),
           Tidy(id) /\ Tidy(id)' /\ ListsAt(id) => ListsAt(id)'
    PROVE  ListInv'
<1>1. ASSUME NEW i \in IDs PROVE Names(ds'[i].snaps) BY DEF ListInv
<1>2. ASSUME NEW i \in IDs, Tidy(i), Tidy(i)', ListsAt(i) PROVE ListsAt(i)'
  <2>1. CASE i = id BY <1>2, <2>1
  <2>2. CASE i # id
    <3>1. table'[i] = table[i] /\ ds'[i].snaps = ds[i].snaps BY <2>2
    <3>2. ~NewOn(caller'[c], i) BY <2>2 DEF NewOn
    <3> QED BY <1>2, <3>1, <3>2, NoGap, ListsFrame
  <2> QED BY <2>1, <2>2
<1> QED BY <1>1, <1>2, ListsStep

LEMMA CreateUnserved ==
    ASSUME HostInv, DatasetInv, Grows(obj, obj'), NEW c \in Callers, caller[c].op = "create",
           NEW i \in IDs, caller[c].id = i, Clean(i), table'[i] = table[i]
    PROVE  ~Serves(i)'
<1>1. CallFits(caller[c], table, obj, ds) BY DEF DatasetInv, DatasetAt
<1>2. ~Serves(i) BY <1>1 DEF CallFits, CreateOK, Serves
<1> SUFFICES ASSUME Serves(i)' PROVE FALSE OBVIOUS
<1> QED BY <1>2, ServedBefore

LEMMA DestroyUnserved ==
    ASSUME HostInv, DatasetInv, Grows(obj, obj'), NEW c \in Callers, caller[c].op \in Destroys,
           caller[c].pc # "shut",
           NEW i \in IDs, caller[c].id = i, Clean(i), table'[i] = table[i]
    PROVE  ~Serves(i)'
<1>1. CallFits(caller[c], table, obj, ds) BY DEF DatasetInv, DatasetAt
<1>2. ~Serves(i) BY <1>1 DEF CallFits, DestroyOK, Serves
<1> SUFFICES ASSUME Serves(i)' PROVE FALSE OBVIOUS
<1> QED BY <1>2, ServedBefore

LEMMA CreateLists ==
    ASSUME HostInv, PlaceInv, DatasetInv, WriterInv, ListInv, Grows(obj, obj'), NEW c \in Callers,
           Moves(c), Create(c)
    PROVE  ListInv'
<1>0. /\ Holds(caller[c], obj) /\ DOMAIN table = IDs /\ DatasetTypes(ds)
      /\ \A i \in IDs : Names(ds[i].snaps)
      BY DEF PlaceInv, HostInv, TableOK, DatasetInv, ListInv
<1>1. Apart(caller[c]) /\ Apart(caller'[c]) BY CreateApart
<1>2. ASSUME NEW id \in IDs, CreateSession(c, id) PROVE ListInv'
  <2>1. /\ obj' = Append(obj, Session(id, "creating", FALSE)) /\ UNCHANGED <<ds, leaked>>
        /\ table' = [table EXCEPT ![id] = Len(obj')] /\ Enter(c, "create", id, "clone", 0)
        BY <1>2 DEF CreateSession
  <2>2. caller'[c].id = id /\ caller'[c].pc = "clone" BY <2>1 DEF Enter, Ready, HostInv, CallsOK
  <2>3. (\A i \in IDs : SameSnaps(i)) /\ obj'[Len(obj')].state = "creating" BY <2>1, AppendSnaps
  <2>4. table'[id] = Len(obj') /\ \A i \in IDs \ {id} : table'[i] = table[i] BY <1>0, <2>1
  <2>5. ~Serves(id)' BY <2>3, <2>4 DEF Serves, Serving
  <2>6. ~NewOn(caller'[c], id) BY <2>2 DEF NewOn
  <2>7. ListsAt(id) => ListsAt(id)' BY <2>1, <2>5, <2>6, ListsUnserved
  <2> QED BY <1>0, <1>1, <2>1, <2>2, <2>3, <2>4, <2>7, LifeLists
<1>3. ASSUME caller[c].pc \in AtCreate PROVE caller[c].op = "create" /\ caller[c].id \in IDs
      BY <1>0, <1>3 DEF Holds
<1>4. ASSUME Return(c), caller[c].pc \in AtCreate PROVE caller'[c] = Ready
      BY <1>0, <1>3, <1>4, ReturnAt
<1>r. Ready.op # "create" BY DEF Ready
<1>6. CASE CloneFromSnapshot(c)
  <2>0. caller[c].pc \in AtCreate BY <1>6 DEF CloneFromSnapshot, AtCreate
  <2>1. PICK id \in IDs : id = caller[c].id BY <1>3, <2>0
  <2>2. PICK took, ok \in BOOLEAN :
          /\ ZFS(~ds[id].there, took, ok)
          /\ ds' = IF took THEN [ds EXCEPT ![id] = [there |-> TRUE, snaps |-> <<>>]] ELSE ds
          /\ leaked' = IF took /\ ~ok THEN leaked \cup {id} ELSE leaked
          /\ table' = IF ok THEN table ELSE [table EXCEPT ![id] = 0]
          /\ IF ok THEN Goto(c, "props") ELSE Return(c)
        BY <1>6, <2>1 DEF CloneFromSnapshot
  <2>3. obj' = obj BY <1>6 DEF CloneFromSnapshot
  <2>4. \A i \in IDs \ {id} : table'[i] = table[i] /\ ds'[i] = ds[i] BY <1>0, <2>2 DEF DatasetTypes
  <2>5. ds'[id].snaps \in {<<>>, ds[id].snaps} /\ (took => ds'[id].snaps = <<>>)
        BY <1>0, <2>2 DEF DatasetTypes
  <2>6. Names(ds'[id].snaps) BY <1>0, <2>5, EmptyPlain
  <2>7. caller'[c].op = "create" => ok /\ caller'[c].id = id
        BY <1>4, <1>r, <2>0, <2>1, <2>2, GotoAt
  <2>8. ok => took BY <2>2 DEF ZFS
  <2>9. ASSUME Tidy(id)', ListsAt(id) PROVE ListsAt(id)'
    <3>1. Clean(id) BY <2>2, <2>9, TidyBefore DEF Moves
    <3>2. ~Serves(id)'
      <4>1. CASE ok BY <1>3, <2>0, <2>1, <2>2, <3>1, <4>1, CreateUnserved
      <4>2. CASE ~ok
        <5>1. table'[id] = 0 BY <1>0, <2>2, <4>2
        <5> QED BY <5>1 DEF Serves
      <4> QED BY <4>1, <4>2
    <3>3. NewOn(caller'[c], id) => ds'[id].snaps = <<>> BY <2>5, <2>7, <2>8 DEF NewOn
    <3> QED BY <2>5, <2>9, <3>2, <3>3, ListsUnserved
  <2>10. leaked \subseteq leaked' BY <2>2
  <2> QED BY <1>1, <2>3, <2>4, <2>6, <2>7, <2>9, <2>10, StillSnaps, LifeLists
<1>7. CASE SetProperties(c)
  <2>1. /\ caller[c].pc = "props" /\ UNCHANGED <<leaked, table, ds, obj>>
        /\ Goto(c, "store") \/ Goto(c, "undo")
        BY <1>7 DEF SetProperties
  <2>2. caller'[c].id = caller[c].id /\ caller'[c].op = caller[c].op BY <2>1, GotoAt
  <2>3. \A i \in IDs : NewOn(caller'[c], i) => NewOn(caller[c], i) BY <2>1, <2>2 DEF NewOn
  <2>4. \A i \in IDs : ~GapOn(caller[c], i) /\ ~GapOn(caller'[c], i) BY <1>1, NoGap
  <2> QED BY <2>1, <2>3, <2>4, StillSnaps, QuietLists
<1>8. CASE UndoClone(c)
  <2>0. caller[c].pc \in AtCreate /\ obj' = obj /\ table' = table /\ Goto(c, "drop")
        BY <1>8 DEF UndoClone, AtCreate
  <2>1. PICK id \in IDs : id = caller[c].id BY <1>3, <2>0
  <2>2. leaked \subseteq leaked' /\ (ds' = ds \/ ds' = [ds EXCEPT ![id] = Absent])
        BY <1>8, <2>1 DEF UndoClone, DestroyDataset
  <2>4. \A i \in IDs \ {id} : table'[i] = table[i] /\ ds'[i] = ds[i]
        BY <1>0, <2>0, <2>2 DEF DatasetTypes
  <2>5. ds'[id].snaps \in {<<>>, ds[id].snaps} BY <1>0, <2>2 DEF DatasetTypes, Absent
  <2>6. Names(ds'[id].snaps) BY <1>0, <2>5, EmptyPlain
  <2>7. caller'[c].id = id /\ caller'[c].pc = "drop" BY <2>0, <2>1, GotoAt
  <2>8. ~NewOn(caller'[c], id) BY <2>7 DEF NewOn
  <2>9. ASSUME Tidy(id)', ListsAt(id) PROVE ListsAt(id)'
    <3>1. Clean(id) BY <2>2, <2>9, TidyBefore DEF Moves
    <3>2. ~Serves(id)' BY <1>3, <2>0, <2>1, <3>1, CreateUnserved
    <3> QED BY <2>5, <2>8, <2>9, <3>2, ListsUnserved
  <2> QED BY <1>1, <2>0, <2>2, <2>4, <2>6, <2>7, <2>9, StillSnaps, LifeLists
<1>9. CASE DropPlaceholder(c)
  <2>0. /\ caller[c].pc \in AtCreate /\ UNCHANGED <<leaked, ds, obj>> /\ Return(c)
        /\ table' = [table EXCEPT ![caller[c].id] = 0]
        BY <1>9 DEF DropPlaceholder, Delete, AtCreate
  <2>1. PICK id \in IDs : id = caller[c].id BY <1>3, <2>0
  <2>2. caller'[c].op # "create" BY <1>4, <1>r, <2>0
  <2>3. table'[id] = 0 /\ \A i \in IDs \ {id} : table'[i] = table[i] BY <1>0, <2>0, <2>1
  <2>4. ~Serves(id)' BY <2>3 DEF Serves
  <2>5. ListsAt(id) => ListsAt(id)' BY <2>0, <2>2, <2>4, ListsUnserved DEF NewOn
  <2> QED BY <1>0, <1>1, <2>0, <2>2, <2>3, <2>5, StillSnaps, LifeLists
<1>10. CASE StoreSession(c)
  <2>0. /\ caller[c].pc = "store" /\ UNCHANGED <<leaked, ds>> /\ Return(c)
        /\ table' = [table EXCEPT ![caller[c].id] = Len(obj')]
        /\ obj' = Append(obj, Session(caller[c].id, "active", TRUE))
        BY <1>10 DEF StoreSession
  <2>a. caller[c].pc \in AtCreate BY <2>0 DEF AtCreate
  <2>1. PICK id \in IDs : id = caller[c].id BY <1>3, <2>a
  <2>2. caller'[c] = Ready BY <1>4, <2>0, <2>a
  <2>3. (\A i \in IDs : SameSnaps(i)) /\ obj'[Len(obj')].snaps = <<>> BY <2>0, AppendSnaps
  <2>4. table'[id] = Len(obj') /\ \A i \in IDs \ {id} : table'[i] = table[i] BY <1>0, <2>0, <2>1
  <2>5. ASSUME Tidy(id), Tidy(id)', ListsAt(id) PROVE ListsAt(id)'
    <3>1. ds'[id].snaps = <<>> BY <1>3, <2>0, <2>1, <2>5, <2>a DEF ListsAt, NewOn
    <3>2. Busy(caller[c]) /\ Clean(id) BY <1>3, <2>5, <2>a DEF Busy, Tidy
    <3>3. NoneOn(c, id) BY <2>1, <3>2, BusyEntry
    <3>4. ASSUME NEW d \in Callers PROVE ~GapOn(caller'[d], id)
      <4>1. CASE d = c BY <1>1, <4>1, NoGap
      <4>2. CASE d # c
        <5>1. caller'[d] = caller[d] BY <4>2 DEF Moves
        <5>2. CASE caller[d].pc \in AtGap
          <6>1. caller[d].op \in SnapOps BY <5>2, SnapOp DEF AtGap, AtSnap, AtRollback
          <6> QED BY <3>3, <4>2, <5>1, <6>1 DEF NoneOn, GapOn
        <5> QED BY <5>1, <5>2 DEF GapOn
      <4> QED BY <4>1, <4>2
    <3>5. Matched(id)' BY <2>3, <2>4, <3>1, <3>4, EmptyPlain DEF Matched
    <3>6. \A d \in Callers : NewOn(caller'[d], id) => ds'[id].snaps = <<>> BY <3>1
    <3> QED BY <3>5, <3>6 DEF ListsAt
  <2> QED BY <1>0, <1>1, <1>r, <2>0, <2>2, <2>3, <2>4, <2>5, LifeLists
<1> QED BY <1>2, <1>6, <1>7, <1>8, <1>9, <1>10 DEF Create

LEMMA DestroyLists ==
    ASSUME HostInv, PlaceInv, DatasetInv, WriterInv, ListInv, Grows(obj, obj'), NEW c \in Callers,
           Moves(c), Destroy(c)
    PROVE  ListInv'
<1>0. /\ Holds(caller[c], obj) /\ DOMAIN table = IDs /\ DatasetTypes(ds)
      /\ \A i \in IDs : Names(ds[i].snaps)
      /\ \A o \in DOMAIN obj : IsSession(obj[o])
      BY DEF PlaceInv, HostInv, TableOK, DatasetInv, ListInv, Sessions
<1>1. Apart(caller[c]) /\ Apart(caller'[c]) BY DestroyApart
<1>2. \A i \in IDs : ~GapOn(caller[c], i) /\ ~GapOn(caller'[c], i) BY <1>1, NoGap
<1>3. caller'[c].op # "create"
  <2>1. Holds(caller'[c], obj') BY DEF Moves
  <2>2. ASSUME NEW id, NEW op \in Destroys, NEW todo, DestroyObject(c, id, op, todo)
        PROVE  caller'[c].op # "create"
    <3>1. caller'[c].op = op BY <2>2 DEF DestroyObject, HostInv, CallsOK, Ready
    <3> QED BY <3>1 DEF Destroys
  <2>3. ASSUME (\E pc : Goto(c, pc)) \/ Return(c), caller[c].op # "create" PROVE caller'[c].op # "create"
        BY <2>3, GotoAt, ReturnAt DEF Ready
  <2>4. ASSUME NEW id \in IDs, DestroySession(c, id) PROVE caller'[c].op # "create"
        BY <2>2, <2>4 DEF DestroySession, Destroys
  <2>5. CASE \/ DestroyDrained(c) \/ KillProcesses(c) \/ ClearProcesses(c)
             \/ DestroySessionDataset(c) \/ DeleteSession(c)
    <3>1. (\E pc : Goto(c, pc)) \/ Return(c)
          BY <2>5, Zenon DEF DestroyDrained, KillProcesses, ClearProcesses, DestroySessionDataset, DeleteSession
    <3>2. caller[c].pc \in AtDestroy \cup {"drain"}
          BY <2>5 DEF DestroyDrained, KillProcesses, ClearProcesses, DestroySessionDataset, DeleteSession, AtDestroy
    <3>3. caller[c].op # "create" BY <1>0, <3>2 DEF Holds, AtDestroy, AtCreate
    <3> QED BY <2>3, <3>1, <3>3
  <2>6. CASE Shutdown(c) \/ CloseGVisor(c)
    <3> DEFINE todo == {i \in IDs : table[i] # 0}
               k == [Ready EXCEPT !.pc = "shut", !.op = "shutdown", !.todo = todo]
    <3>1. caller'[c] = k \/ caller'[c] = Ready BY <2>6 DEF Shutdown, CloseGVisor, HostInv, CallsOK
    <3> HIDE DEF todo
    <3>2. k.op = "shutdown" /\ Ready.op = "none" BY DEF Ready
    <3> HIDE DEF k
    <3> QED BY <3>1, <3>2
  <2>7. CASE ShutdownNext(c)
    <3>1. \/ \E i : DestroyObject(c, i, "shutdown", caller[c].todo \ {i})
          \/ \E i : caller' = [caller EXCEPT ![c].todo = @ \ {i}]
          BY <2>7 DEF ShutdownNext
    <3>2. ASSUME NEW i, caller' = [caller EXCEPT ![c].todo = @ \ {i}] PROVE caller'[c].op # "create"
      <4>1. caller'[c].pc = "shut"
            BY <2>7, <3>2 DEF ShutdownNext, HostInv, CallsOK, IsCall, CallFields
      <4> QED BY <2>1, <4>1 DEF Holds, AtCreate
    <3>3. "shutdown" \in Destroys BY DEF Destroys
    <3> QED BY <2>2, <3>1, <3>2, <3>3
  <2> QED BY <2>4, <2>5, <2>6, <2>7 DEF Destroy
<1>4. \A i \in IDs : ~NewOn(caller'[c], i) BY <1>3 DEF NewOn
<1>5. ASSUME leaked \subseteq leaked', table' = table, ds' = ds, \A i \in IDs : SameSnaps(i) PROVE ListInv'
      BY <1>2, <1>4, <1>5, QuietLists
<1>6. ASSUME NEW id, NEW op, NEW todo, DestroyObject(c, id, op, todo) PROVE \A i \in IDs : SameSnaps(i)
  <2>1. \E o : Set(o, [obj[o] EXCEPT !.state = "destroying"]) BY <1>6, Zenon DEF DestroyObject
  <2> QED BY <1>0, <2>1, SetSnaps, SnapsKept
<1>7. ASSUME NEW id \in IDs, DestroySession(c, id) PROVE ListInv'
      BY <1>5, <1>6, <1>7 DEF DestroySession
<1>8. CASE DestroyDrained(c) \/ KillProcesses(c) \/ Shutdown(c) \/ CloseGVisor(c)
  <2>1. UNCHANGED <<table, ds, obj>> /\ leaked \subseteq leaked'
        BY <1>8 DEF DestroyDrained, KillProcesses, Shutdown, CloseGVisor
  <2> QED BY <1>5, <2>1, StillSnaps
<1>9. CASE ClearProcesses(c)
  <2>1. UNCHANGED <<table, ds, leaked>> /\ \E o : Set(o, [obj[o] EXCEPT !.procs = {}])
        BY <1>9, Zenon DEF ClearProcesses
  <2>2. \A i \in IDs : SameSnaps(i) BY <1>0, <2>1, SetSnaps, SnapsKept
  <2> QED BY <1>5, <2>1, <2>2
<1>10. CASE ShutdownNext(c)
  <2>1. /\ UNCHANGED <<table, ds, leaked>>
        /\ \/ \E i : DestroyObject(c, i, "shutdown", caller[c].todo \ {i})
           \/ obj' = obj
        BY <1>10 DEF ShutdownNext
  <2>2. \A i \in IDs : SameSnaps(i) BY <1>6, <2>1, StillSnaps
  <2> QED BY <1>5, <2>1, <2>2
<1>11. CASE DestroySessionDataset(c)
  <2>0. caller[c].pc = "zdestroy" /\ UNCHANGED <<table, obj>> BY <1>11 DEF DestroySessionDataset
  <2>a. caller[c].op \in Destroys /\ caller[c].pc # "shut" /\ caller[c].id \in IDs
        BY <1>0, <2>0 DEF Holds, AtDestroy
  <2>1. PICK id \in IDs : id = caller[c].id BY <2>a
  <2>2. leaked \subseteq leaked' /\ (ds' = ds \/ ds' = [ds EXCEPT ![id] = Absent])
        BY <1>11, <2>1 DEF DestroySessionDataset, DestroyDataset
  <2>4. \A i \in IDs \ {id} : table'[i] = table[i] /\ ds'[i] = ds[i]
        BY <1>0, <2>0, <2>2 DEF DatasetTypes
  <2>5. ds'[id].snaps \in {<<>>, ds[id].snaps} BY <1>0, <2>2 DEF DatasetTypes, Absent
  <2>6. Names(ds'[id].snaps) BY <1>0, <2>5, EmptyPlain
  <2>9. ASSUME Tidy(id)', ListsAt(id) PROVE ListsAt(id)'
    <3>1. Clean(id) BY <2>2, <2>9, TidyBefore DEF Moves
    <3>2. ~Serves(id)' BY <2>0, <2>a, <2>1, <3>1, DestroyUnserved
    <3> QED BY <1>4, <2>5, <2>9, <3>2, ListsUnserved
  <2> QED BY <1>1, <1>3, <2>0, <2>2, <2>4, <2>6, <2>9, StillSnaps, LifeLists
<1>12. CASE DeleteSession(c)
  <2>0. /\ caller[c].pc = "delete" /\ UNCHANGED <<leaked, ds, obj>>
        /\ table' = [table EXCEPT ![caller[c].id] = 0]
        BY <1>12 DEF DeleteSession, Delete
  <2>a. caller[c].id \in IDs BY <1>0, <2>0 DEF Holds, AtDestroy
  <2>1. PICK id \in IDs : id = caller[c].id BY <2>a
  <2>3. table'[id] = 0 /\ \A i \in IDs \ {id} : table'[i] = table[i] BY <1>0, <2>0, <2>1
  <2>4. ~Serves(id)' BY <2>3 DEF Serves
  <2>5. ListsAt(id) => ListsAt(id)' BY <1>4, <2>0, <2>4, ListsUnserved
  <2> QED BY <1>0, <1>1, <1>3, <2>0, <2>3, <2>5, StillSnaps, LifeLists
<1> QED BY <1>7, <1>8, <1>9, <1>10, <1>11, <1>12 DEF Destroy

LEMMA OtherLists ==
    ASSUME HostInv, PlaceInv, WriterInv, ListInv, Grows(obj, obj'), NEW c \in Callers, Moves(c),
           Pause(c) \/ Process(c)
    PROVE  ListInv'
<1>0. \A o \in DOMAIN obj : IsSession(obj[o]) BY DEF HostInv, Sessions
<1>1. UNCHANGED <<table, leaked, ds>>
  <2>1. CASE Pause(c) BY <2>1 DEF Pause, PauseSession, ResumeSession, PauseDrained, SetPaused
  <2>2. CASE Process(c) BY <2>2 DEF Process, LaunchProcess, KillProcess, StartProcess, StoreHandle
  <2> QED BY <2>1, <2>2
<1>2. caller'[c].op \notin Life BY PauseQuiet, ProcessQuiet DEF Weighty
<1>3. \A i \in IDs : ~NewOn(caller'[c], i) BY <1>2 DEF NewOn, Life
<1>4. caller[c].pc \in {"ready", "drain", "set", "start", "handle"}
      BY DEF Pause, PauseSession, ResumeSession, PauseDrained, SetPaused, Process, LaunchProcess, KillProcess,
             StartProcess, StoreHandle, Begin
<1>5. \A i \in IDs : ~GapOn(caller[c], i) /\ ~GapOn(caller'[c], i)
      BY <1>4, PauseApart, ProcessApart, NoGap DEF GapOn, AtGap
<1>6. ASSUME NEW o, NEW x, NEW e,
             e \in {[obj[o] EXCEPT !.state = x], [obj[o] EXCEPT !.procs = x], obj[o]}, Set(o, e)
      PROVE  \A i \in IDs : SameSnaps(i)
  <2>1. ASSUME o \in DOMAIN obj PROVE e.snaps = obj[o].snaps
    <3>1. [obj[o] EXCEPT !.state = x].snaps = obj[o].snaps /\ [obj[o] EXCEPT !.procs = x].snaps = obj[o].snaps
          BY <1>0, <2>1, SnapsKept
    <3> QED BY <1>6, <3>1, Zenon
  <2> QED BY <1>6, <2>1, SetSnaps
<1>7. \A i \in IDs : SameSnaps(i)
  <2>1. ASSUME NEW id, ResumeSession(c, id) PROVE \A i \in IDs : SameSnaps(i)
        BY <1>6, <2>1, Zenon DEF ResumeSession
  <2>2. CASE SetPaused(c)
    <3> DEFINE o == caller[c].o
    <3>1. Set(o, [obj[o] EXCEPT !.state = "paused"]) \/ Set(o, obj[o]) BY <2>2 DEF SetPaused, Set
    <3> QED BY <1>6, <3>1
  <2>3. ASSUME NEW id, NEW p, LaunchProcess(c, id, p) PROVE \A i \in IDs : SameSnaps(i)
    <3>1. \E x : Set(table[id], [obj[table[id]] EXCEPT !.procs = x]) BY <2>3, Zenon DEF LaunchProcess
    <3> QED BY <1>6, <3>1
  <2>4. CASE StartProcess(c)
    <3> DEFINE o == caller[c].o
               x == obj[o].procs \ {caller[c].p}
    <3>1. obj' = obj \/ Set(o, [obj[o] EXCEPT !.procs = x]) BY <2>4 DEF StartProcess
    <3> HIDE DEF o, x
    <3> QED BY <1>6, <3>1, StillSnaps
  <2>5. ASSUME \A id : ~ResumeSession(c, id), ~SetPaused(c), \A id, p : ~LaunchProcess(c, id, p),
               ~StartProcess(c)
        PROVE  obj' = obj
        BY <2>5 DEF Pause, Process, PauseSession, PauseDrained, KillProcess, StoreHandle
  <2> QED BY <2>1, <2>2, <2>3, <2>4, <2>5, StillSnaps
<1> QED BY <1>1, <1>3, <1>5, <1>7, QuietLists

LEMMA ToolLists ==
    ASSUME HostInv, PlaceInv, WriterInv, ListInv, Grows(obj, obj'), NEW c \in Callers, Moves(c), Tool(c)
    PROVE  ListInv'
<1>0. (\A o \in DOMAIN obj : IsSession(obj[o])) /\ IsCall(caller[c]) /\ DOMAIN caller = Callers
      BY DEF HostInv, Sessions, CallsOK
<1>1. UNCHANGED <<table, leaked, ds>> BY DEF Tool, ExecuteTool, ToolAnswers, ToolReturns
<1>2. caller'[c].op \notin Life BY ToolQuiet DEF Weighty
<1>3. \A i \in IDs : ~NewOn(caller'[c], i) BY <1>2 DEF NewOn, Life
<1>4. caller[c].pc \in AtTool \cup {"ready"}
      BY DEF Tool, ExecuteTool, ToolAnswers, ToolReturns, Begin, AtTool
<1>5. caller'[c].pc \notin AtGap
  <2>1. ASSUME NEW id, ExecuteTool(c, id) PROVE caller'[c].pc \notin AtGap
    <3> DEFINE o == table[id]
    <3>1. PICK tier \in {"tier1", "tier2"} : Enter(c, "tool", id, tier, o) BY <2>1 DEF ExecuteTool
    <3> HIDE DEF o
    <3>2. caller'[c].pc = tier BY <1>0, <3>1 DEF Enter, Ready
    <3> QED BY <3>2 DEF AtGap
  <2>2. CASE ToolAnswers(c)
    <3> DEFINE n == <<"tool", calls>>
    <3>1. Goto(c, "tooldone") \/ caller' = [caller EXCEPT ![c].pc = "zsnap", ![c].name = n]
          BY <2>2 DEF ToolAnswers
    <3> HIDE DEF n
    <3>2. caller'[c].pc \in {"tooldone", "zsnap"} BY <1>0, <3>1, GotoAt DEF IsCall, CallFields
    <3> QED BY <3>2 DEF AtGap
  <2>3. CASE ToolReturns(c)
    <3>1. caller'[c] = Ready \/ caller'[c].pc = "shut" BY <2>3, ReturnAt DEF ToolReturns
    <3> QED BY <3>1 DEF Ready, AtGap
  <2> QED BY <2>1, <2>2, <2>3 DEF Tool
<1>6. \A i \in IDs : ~GapOn(caller[c], i) /\ ~GapOn(caller'[c], i) BY <1>4, <1>5 DEF GapOn, AtGap, AtTool
<1>7. \A i \in IDs : SameSnaps(i)
  <2>1. ASSUME NEW o, NEW x, Set(o, [obj[o] EXCEPT !.tools = x]) PROVE \A i \in IDs : SameSnaps(i)
    <3> DEFINE e == [obj[o] EXCEPT !.tools = x]
    <3>1. o \in DOMAIN obj => e.snaps = obj[o].snaps BY <1>0, SnapsKept
    <3> HIDE DEF e
    <3>2. Set(o, e) BY <2>1 DEF e
    <3> QED BY <3>1, <3>2, SetSnaps
  <2>2. (\E o, x : Set(o, [obj[o] EXCEPT !.tools = x])) \/ obj' = obj
        BY Zenon DEF Tool, ExecuteTool, ToolAnswers, ToolReturns
  <2> QED BY <2>1, <2>2, StillSnaps
<1> QED BY <1>1, <1>3, <1>6, <1>7, QuietLists

\* A call at work on the snapshots of its ID leaves the others' alone.
LEMMA WriterLists ==
    ASSUME HostInv, PlaceInv, WriterInv, ListInv, Grows(obj, obj'), NEW c \in Callers, Moves(c),
           leaked \subseteq leaked', table' = table, caller[c].pc \in AtSnap, NEW id \in IDs, caller[c].id = id,
           caller'[c] = Ready \/ caller'[c].id = id, caller'[c].op # "create",
           \A i \in IDs \ {id} : ds'[i] = ds[i], Names(ds'[id].snaps),
           obj' = obj \/ \E e : Set(caller[c].o, e),
           Tidy(id) /\ Tidy(id)' /\ ListsAt(id) => ListsAt(id)'
    PROVE  ListInv'
<1>1. ASSUME NEW i \in IDs PROVE Names(ds'[i].snaps) BY DEF ListInv
<1>2. ASSUME NEW i \in IDs, Tidy(i), Tidy(i)', ListsAt(i) PROVE ListsAt(i)'
  <2>1. CASE i = id BY <1>2, <2>1
  <2>2. CASE i # id
    <3>1. table'[i] = table[i] /\ ds'[i].snaps = ds[i].snaps BY <2>2
    <3>2. ~NewOn(caller'[c], i) BY DEF NewOn
    <3>3. ~GapOn(caller[c], i) BY <2>2 DEF GapOn
    <3>4. ~GapOn(caller'[c], i)
      <4>1. CASE caller'[c] = Ready BY <4>1, ReadyApart, NoGap
      <4>2. CASE caller'[c].id = id BY <2>2, <4>2 DEF GapOn
      <4> QED BY <4>1, <4>2
    <3>5. SameSnaps(i)
      <4>1. obj[caller[c].o].id = id BY SnapOp
      <4>2. table[i] # 0 => obj[table[i]].id = i /\ table[i] \in DOMAIN obj BY DEF HostInv, TableOK
      <4>3. table[i] # 0 => table[i] # caller[c].o BY <2>2, <4>1, <4>2
      <4> QED BY <4>2, <4>3 DEF SameSnaps, Set
    <3> QED BY <1>2, <3>1, <3>2, <3>3, <3>4, <3>5, ListsFrame
  <2> QED BY <2>1, <2>2
<1> QED BY <1>1, <1>2, ListsStep

LEMMA GotoKeeps ==
    ASSUME HostInv, NEW c \in Callers, NEW pc, Goto(c, pc)
    PROVE  caller'[c].name = caller[c].name /\ caller'[c].todo = caller[c].todo
BY DEF Goto, HostInv, CallsOK, IsCall, CallFields

\* The session a call at work on snapshots has.
LEMMA SnapSession ==
    ASSUME HostInv, WriterInv, NEW i \in IDs, Clean(i), NEW c \in Callers, caller[c].pc \in AtSnap,
           caller[c].id = i
    PROVE  caller[c].o = table[i] /\ table[i] \in DOMAIN obj /\ IsSession(obj[table[i]])
<1>1. caller[c].op \in SnapOps /\ caller[c].o \in DOMAIN obj BY SnapOp
<1>2. caller[c].o = table[i] BY <1>1 DEF WriterInv, SnapPlace
<1> QED BY <1>1, <1>2 DEF HostInv, Sessions

LEMMA NewSnaps ==
    ASSUME NEW s, IsSession(s), NEW v, NEW t
    PROVE  /\ [s EXCEPT !.snaps = v, !.turn = t].snaps = v
           /\ [s EXCEPT !.snaps = v].snaps = v
           /\ [s EXCEPT !.rolling = FALSE, !.snaps = v, !.turn = t].snaps = v
           /\ [s EXCEPT !.rolling = FALSE, !.state = t].state = t
           /\ [s EXCEPT !.rolling = FALSE].snaps = s.snaps
BY DEF IsSession, SessionFields

\* The step of a writer that goes on or returns.
LEMMA WriterGoes ==
    ASSUME HostInv, WriterInv, NEW c \in Callers, caller[c].pc \in AtSnap,
           (\E pc : Goto(c, pc)) \/ Return(c)
    PROVE  /\ caller'[c] = Ready \/ caller'[c].id = caller[c].id
           /\ caller'[c].op # "create"
           /\ Return(c) => caller'[c] = Ready
<1>1. caller[c].op \in SnapOps BY SnapOp
<1>2. caller[c].op # "create" /\ caller[c].op # "shutdown" BY <1>1 DEF SnapOps
<1>3. CASE Return(c)
  <2>1. caller'[c] = Ready BY <1>2, <1>3, ReturnAt
  <2>2. Ready.op # "create" BY DEF Ready
  <2> QED BY <2>1, <2>2
<1>4. ASSUME NEW pc, Goto(c, pc) PROVE caller'[c].id = caller[c].id /\ caller'[c].op # "create"
      BY <1>2, <1>4, GotoAt
<1> QED BY <1>3, <1>4

LEMMA TakeLists ==
    ASSUME HostInv, PlaceInv, DatasetInv, WriterInv, ListInv, Grows(obj, obj'), NEW c \in Callers,
           Moves(c), ZFSCreateSnapshot(c)
    PROVE  ListInv'
<1>0. /\ caller[c].pc = "zsnap" /\ UNCHANGED <<table, obj>> BY DEF ZFSCreateSnapshot
<1>1. caller[c].pc \in AtSnap BY <1>0 DEF AtSnap
<1>2. PICK id \in IDs : caller[c].id = id BY <1>1, SnapOp
<1> DEFINE n == caller[c].name
           d == ds[id].snaps
<1>3. PICK took, ok \in BOOLEAN :
        /\ ZFS(ds[id].there /\ ~Contains(d, n), took, ok)
        /\ ds' = IF took THEN [ds EXCEPT ![id].snaps = Append(@, n)] ELSE ds
        /\ leaked' = IF took /\ ~ok THEN leaked \cup {id} ELSE leaked
        /\ \/ ok /\ Goto(c, "append")
           \/ ~ok /\ (Goto(c, "tooldone") \/ Return(c))
      BY <1>2 DEF ZFSCreateSnapshot
<1>4. /\ ok => took
      /\ took => ~Contains(d, n)
      BY <1>3 DEF ZFS
<1>5. DatasetTypes(ds) BY DEF DatasetInv
<1>6. /\ \A i \in IDs \ {id} : ds'[i] = ds[i]
      /\ took => ds'[id].snaps = Append(d, n)
      /\ ~took => ds'[id].snaps = d
      BY <1>3, <1>5 DEF DatasetTypes
<1>7. Names(d) BY DEF ListInv
<1>8. Names(ds'[id].snaps) BY <1>4, <1>6, <1>7, NamesAppend
<1>9. /\ caller'[c] = Ready \/ caller'[c].id = id
      /\ caller'[c].op # "create"
      BY <1>1, <1>2, <1>3, WriterGoes
<1>10. leaked \subseteq leaked' BY <1>3
<1>11. ASSUME Tidy(id), Tidy(id)', ListsAt(id), Serves(id)', LinedUp(c, id) PROVE LinedUp(c, id)'
  <2>1. obj[table[id]].snaps = d /\ Plain(d) BY <1>0, <1>11 DEF LinedUp, GapOn, AtGap
  <2>2. obj'[table'[id]].snaps = d BY <1>0, <2>1
  <2>3. CASE ok
    <3>1. caller'[c].pc = "append" /\ caller'[c].id = id /\ caller'[c].name = n
          BY <1>2, <1>3, <2>3, GotoAt, GotoKeeps
    <3>2. ds'[id].snaps = Append(d, n) BY <1>4, <1>6, <2>3
    <3>3. GapOn(caller'[c], id) BY <3>1 DEF GapOn, AtGap
    <3>4. Between(caller'[c], d, Append(d, n)) BY <3>1 DEF Between
    <3> QED BY <2>1, <2>2, <3>2, <3>3, <3>4 DEF LinedUp
  <2>4. CASE ~ok
    <3>1. ~took BY <1>3, <1>11, <2>4 DEF Tidy, Clean
    <3>2. ds'[id].snaps = d BY <1>6, <3>1
    <3>3. ~GapOn(caller'[c], id)
      <4>1. CASE Goto(c, "tooldone")
        <5>1. caller'[c].pc = "tooldone" BY <4>1, GotoAt
        <5> QED BY <5>1 DEF GapOn, AtGap
      <4>2. CASE Return(c)
        <5>1. caller'[c] = Ready BY <1>1, <4>2, WriterGoes
        <5> QED BY <5>1, ReadyApart, NoGap
      <4> QED BY <1>3, <2>4, <4>1, <4>2
    <3> QED BY <2>1, <2>2, <3>2, <3>3 DEF LinedUp
  <2> QED BY <2>3, <2>4
<1>12. Tidy(id) /\ Tidy(id)' /\ ListsAt(id) => ListsAt(id)' BY <1>0, <1>1, <1>2, <1>9, <1>11, ListsWriter
<1> HIDE DEF d, n
<1> QED BY <1>0, <1>1, <1>2, <1>6, <1>8, <1>9, <1>10, <1>12, WriterLists

LEMMA NotedLists ==
    ASSUME HostInv, PlaceInv, WriterInv, ListInv, Grows(obj, obj'), NEW c \in Callers,
           Moves(c), AppendSnapshot(c)
    PROVE  ListInv'
<1> DEFINE o == caller[c].o
           n == caller[c].name
           t == IF caller[c].op = "turn" THEN n[2] ELSE obj[o].turn
           e == [obj[o] EXCEPT !.snaps = Append(obj[o].snaps, n), !.turn = t]
<1>0. /\ caller[c].pc = "append" /\ UNCHANGED <<table, ds, leaked>> /\ Set(o, e)
      /\ Goto(c, "tooldone") \/ Goto(c, "prune") \/ Return(c)
      BY DEF AppendSnapshot
<1>1. caller[c].pc \in AtSnap BY <1>0 DEF AtSnap
<1>2. PICK id \in IDs : caller[c].id = id BY <1>1, SnapOp
<1>a. IsSession(obj[o]) => e.snaps = Append(obj[o].snaps, n)
  <2> HIDE DEF n, t, o
  <2> QED BY NewSnaps
<1> HIDE DEF e, t
<1>9. /\ caller'[c] = Ready \/ caller'[c].id = id
      /\ caller'[c].op # "create"
      BY <1>0, <1>1, <1>2, WriterGoes
<1>10. ~GapOn(caller'[c], id)
  <2>1. CASE Return(c)
    <3>1. caller'[c] = Ready BY <1>1, <2>1, WriterGoes
    <3> QED BY <3>1, ReadyApart, NoGap
  <2>2. ASSUME NEW pc \in {"tooldone", "prune"}, Goto(c, pc) PROVE ~GapOn(caller'[c], id)
    <3>1. caller'[c].pc = pc BY <2>2, GotoAt
    <3> QED BY <3>1 DEF GapOn, AtGap
  <2> QED BY <1>0, <2>1, <2>2
<1>11. ASSUME Tidy(id), LinedUp(c, id) PROVE LinedUp(c, id)'
  <2>1. o = table[id] /\ o \in DOMAIN obj /\ IsSession(obj[o]) BY <1>1, <1>2, <1>11, SnapSession DEF Tidy
  <2>2. obj'[table'[id]].snaps = Append(obj[o].snaps, n) BY <1>0, <1>a, <2>1 DEF Set
  <2>3. GapOn(caller[c], id) BY <1>0, <1>2 DEF GapOn, AtGap
  <2>4. Plain(obj[o].snaps) /\ ds[id].snaps = Append(obj[o].snaps, n)
        BY <1>0, <1>11, <2>1, <2>3 DEF LinedUp, Between
  <2>5. Plain(Append(obj[o].snaps, n)) BY <2>4, PlainAppend
  <2> QED BY <1>0, <1>10, <2>2, <2>4, <2>5 DEF LinedUp
<1>12. Tidy(id) /\ Tidy(id)' /\ ListsAt(id) => ListsAt(id)' BY <1>0, <1>1, <1>2, <1>9, <1>11, ListsWriter
<1>13. Names(ds'[id].snaps) BY <1>0 DEF ListInv
<1> HIDE DEF n
<1> QED BY <1>0, <1>1, <1>2, <1>9, <1>12, <1>13, WriterLists

LEMMA PruneLists ==
    ASSUME HostInv, PlaceInv, WriterInv, ListInv, Grows(obj, obj'), NEW c \in Callers,
           Moves(c), PruneList(c)
    PROVE  ListInv'
<1> DEFINE o == caller[c].o
           a == obj[o].snaps
           over == Len(a) - MaxSnapshots
           rest == SubSeq(a, over + 1, Len(a))
           gone == ToSet(SubSeq(a, 1, over))
           e == [obj[o] EXCEPT !.snaps = rest]
<1>0. /\ caller[c].pc = "prune" /\ UNCHANGED <<table, ds, leaked>>
      /\ \/ /\ over > 0 /\ Set(o, e)
            /\ caller' = [caller EXCEPT ![c].pc = "zdel", ![c].todo = gone]
         \/ obj' = obj /\ Return(c)
      BY DEF PruneList
<1>1. caller[c].pc \in AtSnap BY <1>0 DEF AtSnap
<1>2. PICK id \in IDs : caller[c].id = id BY <1>1, SnapOp
<1>a. IsSession(obj[o]) => e.snaps = rest
  <2> HIDE DEF rest, o
  <2> QED BY NewSnaps
<1>b. Plain(a) /\ over > 0 => over \in 1..Len(a)
  <2>1. Plain(a) => Len(a) \in Nat BY PlainLen
  <2> HIDE DEF a
  <2> QED BY <2>1, HostAssumption
<1>c. Plain(a) /\ over > 0 => Plain(rest) /\ Ahead(rest, a, gone)
  <2> HIDE DEF over, a
  <2> QED BY <1>b, AheadPrune
<1> HIDE DEF e, rest, gone, over
<1>d. ASSUME caller' = [caller EXCEPT ![c].pc = "zdel", ![c].todo = gone]
      PROVE  /\ caller'[c].pc = "zdel" /\ caller'[c].id = id /\ caller'[c].todo = gone
             /\ caller'[c].op = caller[c].op
      BY <1>2, <1>d DEF HostInv, CallsOK, IsCall, CallFields
<1>9. /\ caller'[c] = Ready \/ caller'[c].id = id
      /\ caller'[c].op # "create"
  <2>1. caller[c].op # "create" BY <1>1, SnapOp DEF SnapOps
  <2> QED BY <1>0, <1>1, <1>2, <1>d, <2>1, WriterGoes
<1>11. ASSUME Tidy(id), LinedUp(c, id) PROVE LinedUp(c, id)'
  <2>1. o = table[id] /\ o \in DOMAIN obj /\ IsSession(obj[o]) BY <1>1, <1>2, <1>11, SnapSession DEF Tidy
  <2>2. Plain(a) /\ ds[id].snaps = a BY <1>0, <1>11, <2>1 DEF LinedUp, GapOn, AtGap
  <2>3. CASE obj' = obj /\ Return(c)
    <3>1. caller'[c] = Ready BY <1>1, <2>3, WriterGoes
    <3>2. ~GapOn(caller'[c], id) BY <3>1, ReadyApart, NoGap
    <3>3. obj'[table'[id]].snaps = a /\ ds'[id].snaps = a BY <1>0, <2>1, <2>2, <2>3
    <3> QED BY <2>2, <3>2, <3>3 DEF LinedUp
  <2>4. CASE /\ over > 0 /\ Set(o, e)
             /\ caller' = [caller EXCEPT ![c].pc = "zdel", ![c].todo = gone]
    <3>1. obj'[table'[id]].snaps = rest BY <1>0, <1>a, <2>1, <2>4 DEF Set
    <3>2. caller'[c].pc = "zdel" /\ caller'[c].id = id /\ caller'[c].todo = gone BY <1>d, <2>4
    <3>3. GapOn(caller'[c], id) BY <3>2 DEF GapOn, AtGap
    <3>4. Plain(rest) /\ Ahead(rest, a, gone) BY <1>c, <2>2, <2>4
    <3>5. Between(caller'[c], rest, a) BY <3>2, <3>4 DEF Between
    <3>6. ds'[id].snaps = a BY <1>0, <2>2
    <3> QED BY <3>1, <3>3, <3>4, <3>5, <3>6 DEF LinedUp
  <2> QED BY <1>0, <2>3, <2>4
<1>12. Tidy(id) /\ Tidy(id)' /\ ListsAt(id) => ListsAt(id)' BY <1>0, <1>1, <1>2, <1>9, <1>11, ListsWriter
<1>13. Names(ds'[id].snaps) BY <1>0 DEF ListInv
<1> QED BY <1>0, <1>1, <1>2, <1>9, <1>12, <1>13, WriterLists

LEMMA DropLists ==
    ASSUME HostInv, PlaceInv, DatasetInv, WriterInv, ListInv, Grows(obj, obj'), NEW c \in Callers,
           Moves(c), ZFSDestroySnapshot(c)
    PROVE  ListInv'
<1>0. /\ caller[c].pc = "zdel" /\ UNCHANGED <<table, obj>> BY DEF ZFSDestroySnapshot
<1>1. caller[c].pc \in AtSnap BY <1>0 DEF AtSnap
<1>2. PICK id \in IDs : caller[c].id = id BY <1>1, SnapOp
<1> DEFINE a == obj[table[id]].snaps
           d == ds[id].snaps
<1>3. DatasetTypes(ds) /\ Names(d) BY DEF DatasetInv, ListInv
<1>4. LinedUp(c, id) => Plain(a) /\ Ahead(a, d, caller[c].todo)
  <2>1. GapOn(caller[c], id) BY <1>0, <1>2 DEF GapOn, AtGap
  <2> QED BY <1>0, <2>1 DEF LinedUp, Between
<1>5. CASE caller[c].todo = {} /\ Return(c) /\ UNCHANGED <<ds, leaked>>
  <2>1. caller'[c] = Ready BY <1>1, <1>5, WriterGoes
  <2>2. ~GapOn(caller'[c], id) /\ caller'[c].op # "create" BY <1>1, <1>5, <2>1, WriterGoes, ReadyApart, NoGap
  <2>3. ASSUME LinedUp(c, id) PROVE LinedUp(c, id)'
    <3>1. Plain(a) /\ Ahead(a, d, {}) BY <1>4, <1>5, <2>3
    <3>2. a = d BY <1>3, <3>1, AheadDone DEF Names
    <3>3. obj'[table'[id]].snaps = a /\ ds'[id].snaps = d BY <1>0, <1>5
    <3> QED BY <2>2, <3>1, <3>2, <3>3 DEF LinedUp
  <2>4. Tidy(id) /\ Tidy(id)' /\ ListsAt(id) => ListsAt(id)' BY <1>0, <1>1, <1>2, <2>2, <2>3, ListsWriter
  <2>5. Names(ds'[id].snaps) BY <1>3, <1>5
  <2> HIDE DEF a, d
  <2> QED BY <1>0, <1>1, <1>2, <1>5, <2>1, <2>2, <2>4, <2>5, WriterLists
<1>6. ASSUME NEW n \in caller[c].todo, NEW took \in BOOLEAN, NEW ok \in BOOLEAN,
             ZFS(Contains(d, n), took, ok),
             ds' = IF took THEN [ds EXCEPT ![id].snaps = RemoveAt(@, Position(@, n))] ELSE ds,
             leaked' = IF Contains(d, n) /\ ~took THEN leaked \cup {id} ELSE leaked,
             caller' = [caller EXCEPT ![c].todo = @ \ {n}]
      PROVE  ListInv'
  <2>1. took => Contains(d, n) BY <1>6 DEF ZFS
  <2>2. /\ \A i \in IDs \ {id} : ds'[i] = ds[i]
        /\ took => ds'[id].snaps = RemoveAt(d, Position(d, n))
        /\ ~took => ds'[id].snaps = d
        BY <1>3, <1>6 DEF DatasetTypes
  <2>3. Names(ds'[id].snaps) BY <1>3, <2>1, <2>2, NamesRemove
  <2>4. /\ caller'[c].pc = "zdel" /\ caller'[c].id = id /\ caller'[c].op = caller[c].op
        /\ caller'[c].todo = caller[c].todo \ {n}
        BY <1>0, <1>2, <1>6 DEF HostInv, CallsOK, IsCall, CallFields
  <2>5. caller'[c].op # "create" BY <1>1, <2>4, SnapOp DEF SnapOps
  <2>6. ASSUME Tidy(id)', LinedUp(c, id) PROVE LinedUp(c, id)'
    <3>1. Plain(a) /\ Ahead(a, d, caller[c].todo) BY <1>4, <2>6
    <3>2. Contains(d, n) /\ Ahead(a, RemoveAt(d, Position(d, n)), caller[c].todo \ {n})
          BY <1>3, <1>6, <3>1, AheadRemove
    <3>3. took BY <1>6, <2>6, <3>2 DEF Tidy, Clean
    <3>4. obj'[table'[id]].snaps = a /\ ds'[id].snaps = RemoveAt(d, Position(d, n)) BY <1>0, <2>2, <3>3
    <3>5. GapOn(caller'[c], id) BY <2>4 DEF GapOn, AtGap
    <3>6. Between(caller'[c], a, RemoveAt(d, Position(d, n))) BY <2>4, <3>2 DEF Between
    <3> QED BY <3>1, <3>4, <3>5, <3>6 DEF LinedUp
  <2>7. Tidy(id) /\ Tidy(id)' /\ ListsAt(id) => ListsAt(id)' BY <1>0, <1>1, <1>2, <2>5, <2>6, ListsWriter
  <2>8. leaked \subseteq leaked' BY <1>6
  <2> HIDE DEF a, d
  <2> QED BY <1>0, <1>1, <1>2, <2>2, <2>3, <2>4, <2>5, <2>7, <2>8, WriterLists
<1>7. \/ caller[c].todo = {} /\ Return(c) /\ UNCHANGED <<ds, leaked>>
      \/ \E n \in caller[c].todo, took, ok \in BOOLEAN :
          /\ ZFS(Contains(d, n), took, ok)
          /\ ds' = IF took THEN [ds EXCEPT ![id].snaps = RemoveAt(@, Position(@, n))] ELSE ds
          /\ leaked' = IF Contains(d, n) /\ ~took THEN leaked \cup {id} ELSE leaked
          /\ caller' = [caller EXCEPT ![c].todo = @ \ {n}]
      BY <1>2 DEF ZFSDestroySnapshot
<1> QED BY <1>5, <1>6, <1>7

LEMMA RollLists ==
    ASSUME HostInv, PlaceInv, DatasetInv, WriterInv, ListInv, Grows(obj, obj'), NEW c \in Callers,
           Moves(c), ZFSRollback(c)
    PROVE  ListInv'
<1>0. /\ caller[c].pc = "zroll" /\ UNCHANGED <<table, obj>> BY DEF ZFSRollback
<1>1. caller[c].pc \in AtSnap BY <1>0 DEF AtSnap, AtRollback
<1>2. PICK id \in IDs : caller[c].id = id BY <1>1, SnapOp
<1> DEFINE n == caller[c].name
           d == ds[id].snaps
<1>3. PICK took, ok \in BOOLEAN :
        /\ ZFS(Contains(d, n), took, ok)
        /\ ds' = IF took THEN [ds EXCEPT ![id].snaps = UpTo(@, n)] ELSE ds
        /\ leaked' = IF took /\ ~ok THEN leaked \cup {id} ELSE leaked
        /\ Goto(c, IF ok THEN "rolled" ELSE "rollfail")
      BY <1>2 DEF ZFSRollback
<1>4. (ok => took) /\ (took => Contains(d, n)) BY <1>3 DEF ZFS
<1>5. DatasetTypes(ds) /\ Names(d) BY DEF DatasetInv, ListInv
<1>6. /\ \A i \in IDs \ {id} : ds'[i] = ds[i]
      /\ took => ds'[id].snaps = UpTo(d, n)
      /\ ~took => ds'[id].snaps = d
      BY <1>3, <1>5 DEF DatasetTypes
<1>7. took => Names(UpTo(d, n)) /\ UpTo(d, n) # <<>> BY <1>4, <1>5, NamesUpTo
<1>8. Names(ds'[id].snaps) BY <1>5, <1>6, <1>7
<1>9. /\ caller'[c].pc = (IF ok THEN "rolled" ELSE "rollfail") /\ caller'[c].id = id
      /\ caller'[c].name = n /\ caller'[c].op = caller[c].op
      BY <1>2, <1>3, GotoAt, GotoKeeps
<1>10. caller'[c].op # "create" BY <1>1, <1>9, SnapOp DEF SnapOps
<1>11. ASSUME LinedUp(c, id) PROVE LinedUp(c, id)'
  <2>1. obj[table[id]].snaps = d /\ Plain(d) BY <1>0, <1>11 DEF LinedUp, GapOn, AtGap
  <2>2. obj'[table'[id]].snaps = d BY <1>0, <2>1
  <2>3. GapOn(caller'[c], id) BY <1>9 DEF GapOn, AtGap
  <2>4. Between(caller'[c], d, ds'[id].snaps)
    <3>1. CASE ok
      <4>1. caller'[c].pc = "rolled" BY <1>9, <3>1
      <4>2. ds'[id].snaps = UpTo(d, n) /\ UpTo(d, n) # <<>> BY <1>4, <1>6, <1>7, <3>1
      <4> QED BY <1>9, <4>1, <4>2 DEF Between
    <3>2. CASE ~ok
      <4>1. caller'[c].pc = "rollfail" BY <1>9, <3>2
      <4> QED BY <4>1 DEF Between
    <3> QED BY <3>1, <3>2
  <2> QED BY <2>1, <2>2, <2>3, <2>4 DEF LinedUp
<1>12. Tidy(id) /\ Tidy(id)' /\ ListsAt(id) => ListsAt(id)' BY <1>0, <1>1, <1>2, <1>10, <1>11, ListsWriter
<1>13. leaked \subseteq leaked' BY <1>3
<1> HIDE DEF d, n
<1> QED BY <1>0, <1>1, <1>2, <1>6, <1>8, <1>9, <1>10, <1>12, <1>13, WriterLists

LEMMA RolledLists ==
    ASSUME HostInv, PlaceInv, WriterInv, ListInv, Grows(obj, obj'), NEW c \in Callers,
           Moves(c), FinishRollback(c)
    PROVE  ListInv'
<1> DEFINE o == caller[c].o
           kept == UpTo(obj[o].snaps, caller[c].name)
           t == TurnsIn(kept)
           f == [obj[o] EXCEPT !.rolling = FALSE, !.state = "failed"]
           g == [obj[o] EXCEPT !.rolling = FALSE]
           h == [obj[o] EXCEPT !.rolling = FALSE, !.snaps = kept, !.turn = t]
<1>0. /\ caller[c].pc \in {"rolled", "rollfail"} /\ UNCHANGED <<table, ds, leaked>> /\ Return(c)
      /\ Set(o, CASE caller[c].pc = "rollfail" -> f
                  [] caller[c].pc = "rolled" /\ kept = <<>> -> g
                  [] OTHER -> h)
      BY DEF FinishRollback
<1>1. caller[c].pc \in AtSnap BY <1>0 DEF AtSnap, AtRollback
<1>2. PICK id \in IDs : caller[c].id = id BY <1>1, SnapOp
<1>3. IsSession(obj[o]) => f.state = "failed" /\ h.snaps = kept
  <2> HIDE DEF kept, t, o
  <2> QED BY NewSnaps
<1> HIDE DEF f, g, h, t, kept
<1>4. caller'[c] = Ready /\ caller'[c].op # "create" /\ ~GapOn(caller'[c], id)
      BY <1>0, <1>1, WriterGoes, ReadyApart, NoGap
<1>5. GapOn(caller[c], id) BY <1>0, <1>2 DEF GapOn, AtGap
<1>6. ASSUME Tidy(id), Serves(id)', LinedUp(c, id) PROVE LinedUp(c, id)'
  <2>1. o = table[id] /\ o \in DOMAIN obj /\ IsSession(obj[o]) BY <1>1, <1>2, <1>6, SnapSession DEF Tidy
  <2>2. caller[c].pc # "rollfail"
    <3> SUFFICES ASSUME caller[c].pc = "rollfail" PROVE FALSE OBVIOUS
    <3>1. Set(o, f) BY <1>0 DEF Set
    <3>2. obj'[table'[id]].state = "failed" BY <1>0, <1>3, <2>1, <3>1 DEF Set
    <3> QED BY <1>6, <3>2 DEF Serves, Serving
  <2>3. caller[c].pc = "rolled" BY <1>0, <2>2
  <2>4. ds[id].snaps = kept /\ kept # <<>> BY <1>5, <1>6, <2>1, <2>3 DEF LinedUp, Between, kept
  <2>5. Set(o, h) BY <1>0, <2>3, <2>4 DEF Set
  <2>6. obj'[table'[id]].snaps = kept BY <1>0, <1>3, <2>1, <2>5 DEF Set
  <2>7. Plain(kept) BY <2>4 DEF ListInv, Names
  <2>8. ds'[id].snaps = kept BY <1>0, <2>4
  <2> QED BY <1>4, <2>6, <2>7, <2>8 DEF LinedUp
<1>7. Tidy(id) /\ Tidy(id)' /\ ListsAt(id) => ListsAt(id)' BY <1>0, <1>1, <1>2, <1>4, <1>6, ListsWriter
<1>8. Names(ds'[id].snaps) BY <1>0 DEF ListInv
<1> QED BY <1>0, <1>1, <1>2, <1>4, <1>7, <1>8, WriterLists

LEMMA SnapshotLists ==
    ASSUME HostInv, PlaceInv, DatasetInv, WriterInv, ListInv, Grows(obj, obj'), NEW c \in Callers,
           Moves(c), Snapshot(c)
    PROVE  ListInv'
<1>0. (\A o \in DOMAIN obj : IsSession(obj[o])) /\ DOMAIN caller = Callers BY DEF HostInv, Sessions, CallsOK
<1>a. ASSUME NEW id, NEW o, NEW op, NEW n, NEW pc \in {"zsnap", "zroll"}, caller[c].pc = "ready",
             UNCHANGED <<table, ds, leaked>>, \A i \in IDs : SameSnaps(i),
             caller' = [caller EXCEPT ![c] = [Ready EXCEPT !.pc = pc, !.op = op, !.id = id,
                                                           !.o = o, !.name = n]]
      PROVE  ListInv'
  <2>1. caller'[c].pc = pc BY <1>0, <1>a DEF Ready
  <2>2. \A i \in IDs : ~GapOn(caller[c], i) /\ ~GapOn(caller'[c], i) /\ ~NewOn(caller'[c], i)
        BY <1>a, <2>1 DEF GapOn, AtGap, NewOn
  <2> QED BY <1>a, <2>2, QuietLists
<1>1. ASSUME NEW id \in IDs, TurnComplete(c, id) PROVE ListInv'
  <2> DEFINE n == <<"turn", obj[table[id]].turn + 1>>
             o == table[id]
  <2>1. /\ caller[c].pc = "ready" /\ UNCHANGED <<table, ds, leaked, obj>>
        /\ caller' = [caller EXCEPT ![c] = [Ready EXCEPT !.pc = "zsnap", !.op = "turn", !.id = id,
                                            !.o = o, !.name = n]]
        BY <1>1, Zenon DEF TurnComplete, Begin
  <2> HIDE DEF n, o
  <2> QED BY <1>a, <2>1, StillSnaps
<1>2. ASSUME NEW id \in IDs, CreateSnapshot(c, id) PROVE ListInv'
  <2> DEFINE n == <<"user", 1>>
             o == table[id]
  <2>1. /\ caller[c].pc = "ready" /\ UNCHANGED <<table, ds, leaked, obj>>
        /\ caller' = [caller EXCEPT ![c] = [Ready EXCEPT !.pc = "zsnap", !.op = "snap", !.id = id,
                                            !.o = o, !.name = n]]
        BY <1>2, Zenon DEF CreateSnapshot, Begin
  <2> HIDE DEF n, o
  <2> QED BY <1>a, <2>1, StillSnaps
<1>3. ASSUME NEW id \in IDs, NEW n, RollbackSession(c, id, n) PROVE ListInv'
  <2> DEFINE o == table[id]
             e == [obj[o] EXCEPT !.rolling = TRUE]
  <2>1. /\ caller[c].pc = "ready" /\ UNCHANGED <<table, ds, leaked>> /\ Set(o, e)
        /\ caller' = [caller EXCEPT ![c] = [Ready EXCEPT !.pc = "zroll", !.op = "rollback", !.id = id,
                                            !.o = o, !.name = n]]
        BY <1>3, Zenon DEF RollbackSession, Begin
  <2> HIDE DEF o
  <2>2. o \in DOMAIN obj => e.snaps = obj[o].snaps BY <1>0, SnapsKept
  <2> HIDE DEF e
  <2>3. \A i \in IDs : SameSnaps(i) BY <2>1, <2>2, SetSnaps
  <2> QED BY <1>a, <2>1, <2>3
<1> QED BY <1>1, <1>2, <1>3, TakeLists, NotedLists, PruneLists, DropLists, RollLists, RolledLists DEF Snapshot

LEMMA ListStep ==
    HostInv /\ PlaceInv /\ DatasetInv /\ WriterInv /\ ListInv /\ [Next]_vars => ListInv'
<1> SUFFICES ASSUME HostInv, PlaceInv, DatasetInv, WriterInv, ListInv, [Next]_vars PROVE ListInv' OBVIOUS
<1>0. Grows(obj, obj') BY StepHolds DEF Outcome
<1>1. ASSUME NEW c \in Callers, ByCall(c) PROVE ListInv'
  <2>1. Moves(c) BY <1>0, <1>1, CallsMove
  <2> QED BY <1>0, <1>1, <2>1, CreateLists, DestroyLists, OtherLists, ToolLists, SnapshotLists DEF ByCall
<1>2. ASSUME UNCHANGED <<table, obj, caller, overlap, leaked, ds>> PROVE ListInv'
  <2>1. \A i \in IDs : Names(ds'[i].snaps) BY <1>2 DEF ListInv
  <2>2. ASSUME NEW i \in IDs, Tidy(i)' PROVE ListsAt(i)'
    <3>1. Tidy(i) BY <1>2, <2>2 DEF Tidy, Clean
    <3>2. ListsAt(i) BY <3>1 DEF ListInv
    <3> QED BY <1>2, <3>2 DEF ListsAt, Serves, Matched
  <2> QED BY <2>1, <2>2 DEF ListInv
<1>3. CASE ByRun BY <1>2, <1>3, RunsKeep
<1>4. CASE UNCHANGED vars BY <1>2, <1>4 DEF vars
<1> QED BY <1>1, <1>3, <1>4 DEF Next, ByCall, ByRun

LEMMA ListInit == Init => ListInv
<1> SUFFICES ASSUME Init PROVE ListInv OBVIOUS
<1>1. \A i \in IDs : ds[i].snaps = <<>> /\ table[i] = 0 BY DEF Init, Absent
<1>2. \A i \in IDs : Names(ds[i].snaps) BY <1>1, EmptyPlain
<1>3. \A i \in IDs : ListsAt(i) BY <1>1 DEF ListsAt, Serves
<1> QED BY <1>2, <1>3 DEF ListInv

LEMMA ListInductive == Spec => []ListInv
BY ListInit, ListStep, Inductive, PlaceInductive, DatasetInductive, WriterInductive, PTL DEF Spec

LEMMA ListsMatch == ListInv => SnapshotsMatch
<1> SUFFICES ASSUME ListInv, NEW id \in IDs, Clean(id), <<id, "snap">> \notin overlap, InFlight(id) = {},
                    table[id] # 0, obj[table[id]].state \in {"active", "paused"}
             PROVE  obj[table[id]].snaps = ds[id].snaps
    BY DEF SnapshotsMatch
<1>1. Matched(id) BY DEF ListInv, Tidy, ListsAt, Serves, Serving
<1>2. \A c \in Callers : ~GapOn(caller[c], id) BY DEF InFlight, GapOn, AtGap
<1> QED BY <1>1, <1>2 DEF Matched

----------------------------------------------------------------------------
(* Theorems *)

\* Unless a ZFS call failed on the session or calls on its ID conflicted, no
\* dataset and no process outlives its owner: a dataset that is there belongs to
\* the session of the table or to a create or destroy in flight, a session that
\* serves has one, and a process that runs is listed by its session, is being
\* launched or was cancelled, through every failure and interleaving of the
\* compensations of CreateSession, of DestroySession, Shutdown and
\* LaunchProcess (service.go:185, 364; process.go:111, 360).
THEOREM NoLeak == Spec => []NothingLeaks
<1>1. HostInv /\ PlaceInv /\ DatasetInv /\ RunInv /\ Named /\ ProcessInv => NothingLeaks
      BY DatasetsHaveOwners, ProcessesHaveOwners DEF NothingLeaks
<1> QED BY <1>1, Inductive, PlaceInductive, DatasetInductive, RunInductive, NamedInductive,
           ProcessesInductive, PTL

\* A session that DestroySession or Shutdown has marked destroying stays so, or
\* fails: whatever calls looked it up before, no pause, resume, tool, snapshot
\* or rollback that ends late makes it serve again (service.go:316, 331;
\* snapshot.go:96).
THEOREM DestroyFinal == Spec => DestroyingIsFinal
<1> DEFINE Final == \A o \in 1..Len(obj) : obj[o].state = "destroying" =>
                        obj'[o].state \in {"destroying", "failed"}
<1>1. HostInv /\ [Next]_vars => [Final]_vars
  <2> SUFFICES ASSUME HostInv, [Next]_vars PROVE Final OBVIOUS
  <2>1. Grows(obj, obj') BY StepHolds DEF Outcome
  <2>2. DOMAIN obj = 1..Len(obj)
    <3> DEFINE S == {obj[i] : i \in DOMAIN obj}
    <3>1. obj \in Seq(S) BY DEF HostInv, Sessions
    <3> HIDE DEF S
    <3> QED BY <3>1
  <2> QED BY <2>1, <2>2 DEF Grows, Follows
<1> QED BY <1>1, Inductive, PTL DEF Spec, DestroyingIsFinal

\* While zfs.Rollback replaces a session's dataset no tool of the session is
\* counted, unless two rollbacks of it were in flight together: rollingBack
\* keeps new tools out, and activeTools, the exact number of tools at work,
\* keeps the rollback from starting (snapshot.go:82, execute.go:28).
THEOREM RollbackAlone == Spec => []RollbackExcludesTools
<1>1. HostInv => RollbackExcludesTools
      BY DEF HostInv, CallsOK, Placed, AtRollback, Excluded, RollbackExcludesTools
<1> QED BY <1>1, Inductive, PTL

\* Unless a ZFS call failed on the session or calls that write its snapshots
\* overlapped, what the session lists is what ZFS has, in the order in which the
\* snapshots were taken, whenever no call is in flight on it: taking one, pruning
\* to the limit and rolling back each write the two lists in separate steps and
\* with other calls in between (snapshot.go:34, 99, 134), and no tool runs in a
\* session that is rolled back (snapshot.go:82, execute.go:28).
THEOREM SnapshotsSound == Spec => []SnapshotsAreSound
<1>1. RollbackExcludesTools /\ SnapshotsMatch => SnapshotsAreSound BY DEF SnapshotsAreSound
<1> QED BY <1>1, RollbackAlone, ListInductive, ListsMatch, PTL

\* activeTools counts the tools at work, so that a drain that sees 0 has waited
\* for each of them (service.go:305, 354; execute.go:32, 35).
THEOREM ToolsCounted == Spec => []Counted
<1>1. HostInv => Counted BY DEF HostInv
<1> QED BY <1>1, Inductive, PTL
=============================================================================
