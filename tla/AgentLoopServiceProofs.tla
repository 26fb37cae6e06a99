----------------------- MODULE AgentLoopServiceProofs -----------------------
(***************************************************************************)
(* Proofs about AgentLoopService for any clients, loops, sessions and      *)
(* receivers, any buffer size and any plan of calls.                       *)
(***************************************************************************)
EXTENDS AgentLoopService, FiniteSetTheorems, TLAPS

SettingUp == {"stream", "hook", "add"}

Holding == SettingUp \cup {"start", "launch", "failed"}

TearingPC == {"stop", "stopDriver", "exit", "busClose", "complete", "closeStreams"}

\* A call has the session and the receiver that its place calls for.
ClientOK(c) ==
    /\ cl[c].pc \in Holding \cup TearingPC \cup {"track", "events", "control", "emit", "delete"} =>
         cl[c].obj \in Objs
    /\ cl[c].pc \in Holding <=> cl[c].rcv # None
    /\ cl[c].pc \in {"track", "start", "launch", "failed"} => cl[c].op \in {"send", "continue"}
    /\ cl[c].pc = "events" => cl[c].op = "events"
    /\ cl[c].pc \in SettingUp => cl[c].op \in {"send", "continue", "events"}
    /\ cl[c].pc = "control" => cl[c].op \in Event
    /\ cl[c].rcv # None => /\ rcv[cl[c].rcv].obj = cl[c].obj
                           /\ rcv[cl[c].rcv].kind = IF cl[c].op = "events" THEN "events" ELSE "turn"

ClientInv == \A c \in Clients : ClientOK(c)

LoopInv == \A l \in Loops : lp[l].pc # "none" => lp[l].obj \in Objs

\* A receiver that was not made yet is blank, the others have their session.
ReceiverInv ==
    \A r \in Receivers :
      /\ rcv[r].kind = "free" => /\ ~rcv[r].done /\ ~rcv[r].closed /\ ~rcv[r].returned
                                 /\ rcv[r].hooks = {} /\ rcv[r].obj = None
      /\ rcv[r].kind # "free" => rcv[r].obj \in Objs

\* Only turns are tracked and completed, and handlers belong to receivers.
TurnInv ==
    /\ \A m \in Objs : ms[m].turnDone # None => rcv[ms[m].turnDone].kind = "turn"
    /\ \A r \in Receivers, x \in {"tracker", "stream"} :
         (\/ \E m \in Objs : <<r, x>> \in ms[m].subs
          \/ \E p \in Publishers : <<r, x>> \in pub[p].pend) =>
         rcv[r].kind # "free" /\ (x = "tracker" => rcv[r].kind = "turn")
    /\ \A p \in Publishers : pub[p].cur # None => rcv[pub[p].cur].kind # "free"

\* A receiver is set up by one call, and nobody has it before the call returns.
SoleInv ==
    \A c \in Clients : cl[c].rcv # None =>
      /\ \A d \in Clients : cl[d].rcv = cl[c].rcv => d = c
      /\ ~rcv[cl[c].rcv].returned

\* Handlers and stream sets hold receivers of their own session.
PlaceInv ==
    \A r \in Receivers, m \in Objs :
      /\ r \in ms[m].streams => rcv[r].obj = m /\ ~rcv[r].closed
      /\ \A x \in {"tracker", "stream"} : <<r, x>> \in ms[m].subs => rcv[r].obj = m

\* How far the set-up of a receiver is: no event reaches it before its stream
\* handler is on the bus, and what was closed meanwhile is off the bus again
\* once the hook is set.
SetUpInv ==
    \A c \in Clients : cl[c].pc \in SettingUp =>
      LET r == cl[c].rcv IN
      /\ \A m \in Objs : r \notin ms[m].streams
      /\ cl[c].pc = "stream" =>
           /\ ~rcv[r].closed
           /\ \A m \in Objs : <<r, "stream">> \notin ms[m].subs
           /\ \A p \in Publishers : pub[p].cur # r /\ <<r, "stream">> \notin pub[p].pend
      /\ cl[c].pc = "add" /\ ~rcv[r].closed => "unsub" \in rcv[r].hooks
      /\ cl[c].pc = "add" /\ rcv[r].closed => \A m \in Objs : ms[m].subs \cap HandlersOf(r) = {}

\* A stream that is open after its set-up is in its session's set, and its
\* close will detach it.
OpenInv ==
    \A r \in Receivers : rcv[r].kind # "free" /\ ~rcv[r].closed /\ ~BeingSetUp(r) =>
      /\ r \in ms[rcv[r].obj].streams
      /\ "unsub" \in rcv[r].hooks /\ "remove" \in rcv[r].hooks

\* A session that is destroyed is being torn down or has exited, and then no
\* turn of it gets past its start.
ExitInv ==
    /\ \A c \in Clients : cl[c].pc \in {"busClose", "complete", "closeStreams"} => ms[cl[c].obj].exited
    /\ \A m \in Objs : ms[m].destroyed => ms[m].exited \/ TearingDown(m)
    /\ \A c \in Clients : cl[c].pc = "launch" /\ TornDown(cl[c].obj) => rcv[cl[c].rcv].closed

\* The WaitGroup counts the turns that are not completed.
CountInv == wg = Cardinality(OpenTurns)

\* Turns that are open together are overlapped, and the only open turn of a
\* session is the one that the session remembers.
OwnInv ==
    /\ \A r, q \in OpenTurns : r # q /\ rcv[r].obj = rcv[q].obj => r \in overlapped
    /\ \A r \in OpenTurns : r \notin overlapped => ms[rcv[r].obj].turnDone = r

EarlyPC == {"stop", "stopDriver", "exit", "busClose", "complete"}

\* Session m is destroyed, and no teardown is still going to complete its turn.
PastComplete(m) ==
    ms[m].destroyed /\ \A c \in Clients : ~(cl[c].obj = m /\ cl[c].pc \in EarlyPC)

\* Then a turn that is open has its call, which the exited agent will refuse.
RefusedInv ==
    \A r \in OpenTurns : r \notin overlapped /\ PastComplete(rcv[r].obj) =>
      \E c \in Clients : cl[c].rcv = r /\ cl[c].pc # "launch"

ServiceInv ==
    /\ TypeOK /\ ClientInv /\ LoopInv /\ ReceiverInv /\ TurnInv /\ CountInv
    /\ SoleInv /\ PlaceInv /\ SetUpInv /\ OpenInv /\ ClosedIsDetached
    /\ ExitInv /\ TornDownTurnsClosed /\ OwnInv /\ RefusedInv
-----------------------------------------------------------------------------
(* What the operations on the shared objects do *)

HeapType == [ms : [Objs -> Managed], rcv : [Receivers -> Receiver], wg : Int]

LEMMA NoneIs ==
    /\ None \notin Clients /\ None \notin Loops /\ None \notin Ids
    /\ None \notin Objs /\ None \notin Receivers
BY ServiceAssumption DEF Publishers

LEMMA HandlersIs ==
    ASSUME NEW r \in Receivers, NEW H \in SUBSET Handler
    PROVE  H \cap HandlersOf(r) = {} <=> <<r, "tracker">> \notin H /\ <<r, "stream">> \notin H
<1>1. HandlersOf(r) = {<<r, "tracker">>, <<r, "stream">>}
    BY DEF HandlersOf
<1> QED BY <1>1

LEMMA HeapIs ==
    ASSUME TypeOK
    PROVE  Heap \in HeapType /\ Heap.ms = ms /\ Heap.rcv = rcv /\ Heap.wg = wg
BY DEF Heap, HeapType, TypeOK

\* What the invariants look at in a receiver and in a session.
RcvAs(a, b) ==
    /\ b.kind = a.kind /\ b.obj = a.obj /\ b.hooks = a.hooks /\ b.buf = a.buf
    /\ (b.closed <=> a.closed) /\ (b.done <=> a.done) /\ (b.returned <=> a.returned)

MsAs(a, b) ==
    /\ b.streams = a.streams /\ b.turnDone = a.turnDone /\ b.subs = a.subs
    /\ (b.destroyed <=> a.destroyed) /\ (b.exited <=> a.exited)

\* The flags of receivers may be set.
LEMMA WithFlag ==
    ASSUME NEW x \in Receiver, NEW b \in BOOLEAN
    PROVE  /\ [x EXCEPT !.done = b] \in Receiver
           /\ [x EXCEPT !.closed = b] \in Receiver
           /\ [x EXCEPT !.returned = b] \in Receiver
BY DEF Receiver

LEMMA WithDone ==
    ASSUME NEW f \in [Receivers -> Receiver], NEW r \in Receivers
    PROVE  /\ [f EXCEPT ![r].done = TRUE] \in [Receivers -> Receiver]
           /\ [f EXCEPT ![r].returned = TRUE] \in [Receivers -> Receiver]
<1>1. [f[r] EXCEPT !.done = TRUE] \in Receiver /\ [f[r] EXCEPT !.returned = TRUE] \in Receiver
    BY WithFlag
<1> QED BY <1>1

\* A turn is completed, from heap h to heap g.
Done(h, g, r) ==
    /\ g.wg = IF h.rcv[r].done THEN h.wg ELSE h.wg - 1
    /\ \A q \in Receivers :
         /\ g.rcv[q].kind = h.rcv[q].kind /\ g.rcv[q].obj = h.rcv[q].obj
         /\ g.rcv[q].hooks = h.rcv[q].hooks /\ g.rcv[q].buf = h.rcv[q].buf
         /\ g.rcv[q].closed <=> h.rcv[q].closed
         /\ g.rcv[q].returned <=> h.rcv[q].returned
         /\ g.rcv[q].done <=> (h.rcv[q].done \/ q = r)
    /\ \A m \in Objs :
         /\ g.ms[m].streams = h.ms[m].streams /\ g.ms[m].subs = h.ms[m].subs
         /\ g.ms[m].destroyed <=> h.ms[m].destroyed
         /\ g.ms[m].exited <=> h.ms[m].exited
         /\ g.ms[m].turnDone \in {h.ms[m].turnDone, None}
         /\ m # h.rcv[r].obj \/ h.rcv[r].done => g.ms[m].turnDone = h.ms[m].turnDone

LEMMA DoneIs ==
    ASSUME NEW h \in HeapType, NEW r \in Receivers, h.rcv[r].obj \in Objs
    PROVE  doneTurn(h, r) \in HeapType /\ Done(h, doneTurn(h, r), r)
<1>1. CASE h.rcv[r].done
    BY <1>1 DEF doneTurn, Done
<1>2. CASE ~h.rcv[r].done
  <2> DEFINE o == h.rcv[r].obj
             g == doneTurn(h, r)
  <2>1. g = [h EXCEPT !.wg = h.wg - 1, !.rcv[r].done = TRUE, !.ms[o].turnDone = None]
    BY <1>2 DEF doneTurn
  <2>2. /\ g.wg = h.wg - 1 /\ g.rcv = [h.rcv EXCEPT ![r].done = TRUE]
        /\ g.ms = [h.ms EXCEPT ![o].turnDone = None]
        /\ g = [ms |-> g.ms, rcv |-> g.rcv, wg |-> g.wg]
    BY <2>1 DEF HeapType
  <2>3. /\ h.ms \in [Objs -> Managed] /\ h.rcv \in [Receivers -> Receiver]
        /\ g.wg \in Int
    BY <2>2 DEF HeapType
  <2>4. g.ms \in [Objs -> Managed]
    BY <2>2, SMTT(20) DEF HeapType, Managed
  <2>5. g.rcv \in [Receivers -> Receiver]
    <3>1. [h.rcv EXCEPT ![r].done = TRUE] \in [Receivers -> Receiver]
      BY <2>3, WithDone
    <3> HIDE DEF g
    <3> QED BY <2>2, <3>1, Zenon
  <2>6. g \in HeapType
    <3> HIDE DEF g
    <3> QED BY <2>2, <2>3, <2>4, <2>5 DEF HeapType
  <2>7. \A q \in Receivers :
         /\ g.rcv[q].kind = h.rcv[q].kind /\ g.rcv[q].obj = h.rcv[q].obj
         /\ g.rcv[q].hooks = h.rcv[q].hooks /\ g.rcv[q].buf = h.rcv[q].buf
         /\ g.rcv[q].closed <=> h.rcv[q].closed
         /\ g.rcv[q].returned <=> h.rcv[q].returned
         /\ g.rcv[q].done <=> (h.rcv[q].done \/ q = r)
    BY <2>2 DEF HeapType, Receiver
  <2>8. \A m \in Objs :
         /\ g.ms[m].streams = h.ms[m].streams /\ g.ms[m].subs = h.ms[m].subs
         /\ g.ms[m].destroyed <=> h.ms[m].destroyed
         /\ g.ms[m].exited <=> h.ms[m].exited
         /\ g.ms[m].turnDone \in {h.ms[m].turnDone, None}
         /\ m # o => g.ms[m].turnDone = h.ms[m].turnDone
    BY <2>2 DEF HeapType, Managed
  <2> HIDE DEF g
  <2>9. Done(h, g, r)
    BY <1>2, <2>2, <2>7, <2>8 DEF Done
  <2> QED BY <2>6, <2>9 DEF g
<1> QED BY <1>1, <1>2

\* The hooks of receiver r run.
Ran(h, g, r, hooks) ==
    /\ g.rcv = h.rcv /\ g.wg = h.wg
    /\ \A m \in Objs :
         /\ g.ms[m].turnDone = h.ms[m].turnDone
         /\ g.ms[m].destroyed <=> h.ms[m].destroyed
         /\ g.ms[m].exited <=> h.ms[m].exited
         /\ g.ms[m].subs = IF m = h.rcv[r].obj /\ "unsub" \in hooks
                           THEN h.ms[m].subs \ HandlersOf(r) ELSE h.ms[m].subs
         /\ g.ms[m].streams = IF m = h.rcv[r].obj /\ "remove" \in hooks
                              THEN h.ms[m].streams \ {r} ELSE h.ms[m].streams

LEMMA RanIs ==
    ASSUME NEW h \in HeapType, NEW r \in Receivers, h.rcv[r].obj \in Objs, NEW hooks
    PROVE  RunHooks(h, r, hooks) \in HeapType /\ Ran(h, RunHooks(h, r, hooks), r, hooks)
<1> DEFINE o == h.rcv[r].obj
           u == IF "unsub" \in hooks THEN h.ms[o].subs \ HandlersOf(r) ELSE h.ms[o].subs
           t == IF "remove" \in hooks THEN h.ms[o].streams \ {r} ELSE h.ms[o].streams
           g == RunHooks(h, r, hooks)
<1>1. h.ms \in [Objs -> Managed] /\ h.rcv \in [Receivers -> Receiver] /\ h.wg \in Int
    BY DEF HeapType
<1>2. u \in SUBSET Handler /\ t \in SUBSET Receivers
    BY <1>1 DEF Managed
<1>3. g = [h EXCEPT !.ms[o].subs = u, !.ms[o].streams = t]
    BY DEF RunHooks
<1> HIDE DEF u, t, g
<1>4. /\ g.wg = h.wg /\ g.rcv = h.rcv /\ g.ms = [h.ms EXCEPT ![o].subs = u, ![o].streams = t]
      /\ g = [ms |-> g.ms, rcv |-> g.rcv, wg |-> g.wg]
    BY <1>3 DEF HeapType
<1> DEFINE y == [h.ms[o] EXCEPT !.subs = u, !.streams = t]
<1>9. /\ y \in Managed /\ y.subs = u /\ y.streams = t /\ y.turnDone = h.ms[o].turnDone
      /\ y.destroyed = h.ms[o].destroyed /\ y.exited = h.ms[o].exited
  <2>1. h.ms[o] \in Managed
    BY <1>1
  <2> QED BY <1>2, <2>1, Zenon DEF Managed
<1>10. [h.ms EXCEPT ![o].subs = u, ![o].streams = t] = [h.ms EXCEPT ![o] = y]
    BY <1>1, Zenon
<1> HIDE DEF y
<1>5. [h.ms EXCEPT ![o].subs = u, ![o].streams = t] \in [Objs -> Managed]
    BY <1>1, <1>9, <1>10
<1>6. g \in HeapType
    BY <1>1, <1>4, <1>5 DEF HeapType
<1>7. \A m \in Objs :
         /\ g.ms[m].turnDone = h.ms[m].turnDone
         /\ g.ms[m].destroyed = h.ms[m].destroyed
         /\ g.ms[m].exited = h.ms[m].exited
         /\ g.ms[m].subs = IF m = o THEN u ELSE h.ms[m].subs
         /\ g.ms[m].streams = IF m = o THEN t ELSE h.ms[m].streams
    BY <1>1, <1>4, <1>9, <1>10
<1>8. Ran(h, g, r, hooks)
    BY <1>4, <1>7, ZenonT(30) DEF Ran, u, t
<1> QED BY <1>6, <1>8 DEF g

\* A receiver is closed.
Shut(h, g, r) ==
    /\ g.wg = h.wg
    /\ \A q \in Receivers :
         /\ g.rcv[q].kind = h.rcv[q].kind /\ g.rcv[q].obj = h.rcv[q].obj
         /\ g.rcv[q].buf = h.rcv[q].buf
         /\ q # r => g.rcv[q].hooks = h.rcv[q].hooks
         /\ g.rcv[q].closed <=> (h.rcv[q].closed \/ q = r)
         /\ g.rcv[q].returned <=> h.rcv[q].returned
         /\ g.rcv[q].done <=> h.rcv[q].done
    /\ \A m \in Objs :
         /\ g.ms[m].turnDone = h.ms[m].turnDone
         /\ g.ms[m].destroyed <=> h.ms[m].destroyed
         /\ g.ms[m].exited <=> h.ms[m].exited
         /\ g.ms[m].subs = IF m = h.rcv[r].obj /\ ~h.rcv[r].closed /\ "unsub" \in h.rcv[r].hooks
                           THEN h.ms[m].subs \ HandlersOf(r) ELSE h.ms[m].subs
         /\ g.ms[m].streams = IF m = h.rcv[r].obj /\ ~h.rcv[r].closed /\ "remove" \in h.rcv[r].hooks
                              THEN h.ms[m].streams \ {r} ELSE h.ms[m].streams

LEMMA ShutIs ==
    ASSUME NEW h \in HeapType, NEW r \in Receivers, h.rcv[r].obj \in Objs
    PROVE  closeWithError(h, r) \in HeapType /\ Shut(h, closeWithError(h, r), r)
<1>1. CASE h.rcv[r].closed
    BY <1>1 DEF closeWithError, Shut
<1>2. CASE ~h.rcv[r].closed
  <2> DEFINE x == [h EXCEPT !.rcv[r].closed = TRUE, !.rcv[r].hooks = {}]
             y == [h.rcv[r] EXCEPT !.closed = TRUE, !.hooks = {}]
             g == RunHooks(x, r, h.rcv[r].hooks)
  <2>1. h.ms \in [Objs -> Managed] /\ h.rcv \in [Receivers -> Receiver] /\ h.wg \in Int
    BY DEF HeapType
  <2>2. /\ x.wg = h.wg /\ x.ms = h.ms /\ x.rcv = [h.rcv EXCEPT ![r] = y]
        /\ x = [ms |-> x.ms, rcv |-> x.rcv, wg |-> x.wg]
    <3>1. x = [h EXCEPT !.rcv = [h.rcv EXCEPT ![r] = y]]
      BY <2>1 DEF HeapType
    <3> HIDE DEF x, y
    <3> QED BY <3>1 DEF HeapType
  <2> HIDE DEF x
  <2>3. x.rcv \in [Receivers -> Receiver]
    <3>1. ASSUME NEW b \in BOOLEAN PROVE [h.rcv[r] EXCEPT !.closed = b, !.hooks = {}] \in Receiver
      BY <2>1 DEF Receiver
    <3>2. y \in Receiver
      BY <3>1
    <3> HIDE DEF y
    <3> QED BY <2>1, <2>2, <3>2
  <2>4. x \in HeapType
    BY <2>1, <2>2, <2>3 DEF HeapType
  <2>5. \A q \in Receivers :
         /\ x.rcv[q].kind = h.rcv[q].kind /\ x.rcv[q].obj = h.rcv[q].obj
         /\ x.rcv[q].buf = h.rcv[q].buf
         /\ q # r => x.rcv[q].hooks = h.rcv[q].hooks
         /\ x.rcv[q].closed <=> (h.rcv[q].closed \/ q = r)
         /\ x.rcv[q].returned <=> h.rcv[q].returned
         /\ x.rcv[q].done <=> h.rcv[q].done
    BY <2>1, <2>2 DEF Receiver
  <2>6. g \in HeapType /\ Ran(x, g, r, h.rcv[r].hooks)
    BY <2>4, <2>5, RanIs
  <2>7. g = closeWithError(h, r)
    BY <1>2 DEF closeWithError, x
  <2> HIDE DEF g
  <2>8. Shut(h, g, r)
    BY <1>2, <2>2, <2>5, <2>6 DEF Ran, Shut
  <2> QED BY <2>6, <2>7, <2>8
<1> QED BY <1>1, <1>2

-----------------------------------------------------------------------------
(* Steps, field by field *)

\* A session forgets its turn only when one of its turns is completed.
Cleared(D) ==
    \A m \in Objs : ms'[m].turnDone # ms[m].turnDone => \E r \in D : ~rcv[r].done /\ rcv[r].obj = m

\* The turns in D are completed and the receivers in S closed; nothing is
\* added to a bus or to a stream set.
Settled(D, S) ==
    /\ ms' \in [Objs -> Managed] /\ rcv' \in [Receivers -> Receiver] /\ wg' \in Int
    /\ \A r \in Receivers :
         /\ rcv'[r].kind = rcv[r].kind /\ rcv'[r].obj = rcv[r].obj
         /\ rcv'[r].done <=> (rcv[r].done \/ r \in D)
         /\ rcv'[r].closed <=> (rcv[r].closed \/ r \in S)
         /\ r \notin S => rcv'[r].hooks = rcv[r].hooks
    /\ \A m \in Objs :
         /\ ms'[m].turnDone \in {ms[m].turnDone, None}
         /\ ms'[m].subs \subseteq ms[m].subs
         /\ ms'[m].streams \subseteq ms[m].streams
         /\ \A r \in ms[m].streams : r \in ms'[m].streams \/ r \in S
    /\ \A r \in S : ~rcv[r].closed =>
         /\ "unsub" \in rcv[r].hooks => ms'[rcv[r].obj].subs \cap HandlersOf(r) = {}
         /\ "remove" \in rcv[r].hooks => r \notin ms'[rcv[r].obj].streams
    /\ \/ wg' = wg /\ \A r \in D : rcv[r].done
       \/ \E r \in D : ~rcv[r].done /\ D = {r} /\ wg' = wg - 1
    /\ Cleared(D)

\* The marks of a teardown, and which calls have returned their stream.
MarksKept ==
    /\ \A m \in Objs : /\ ms'[m].destroyed <=> ms[m].destroyed
                       /\ ms'[m].exited <=> ms[m].exited
    /\ \A r \in Receivers : rcv'[r].returned <=> rcv[r].returned

BufKept == \A r \in Receivers : rcv'[r].buf = rcv[r].buf

Calm == Settled({}, {}) /\ MarksKept /\ BufKept

LEMMA SameIsCalm ==
    ASSUME TypeOK, ms' = ms, rcv' = rcv, wg' = wg
    PROVE  Calm
BY DEF TypeOK, Calm, Settled, MarksKept, BufKept, Cleared

\* Fields that the invariants do not look at.
LEMMA CalmMs ==
    ASSUME TypeOK, ms' \in [Objs -> Managed], \A m \in Objs : MsAs(ms[m], ms'[m]),
           rcv' = rcv, wg' = wg
    PROVE  Calm
BY DEF TypeOK, Calm, Settled, MarksKept, BufKept, MsAs, Cleared

LEMMA DoneSettled ==
    ASSUME TypeOK, NEW r \in Receivers, rcv[r].obj \in Objs, Becomes(doneTurn(Heap, r))
    PROVE  Settled({r}, {}) /\ MarksKept /\ BufKept
<1> DEFINE g == doneTurn(Heap, r)
<1>1. g \in HeapType /\ Done(Heap, g, r)
    BY HeapIs, DoneIs
<1>2. ms' = g.ms /\ rcv' = g.rcv /\ wg' = g.wg
    BY DEF Becomes
<1>3. ms' \in [Objs -> Managed] /\ rcv' \in [Receivers -> Receiver] /\ wg' \in Int
    BY <1>1, <1>2 DEF HeapType
<1> HIDE DEF g
<1>4. Cleared({r})
    BY <1>1, <1>2, HeapIs DEF Done, Cleared
<1> QED BY <1>1, <1>2, <1>3, <1>4, HeapIs DEF Done, Settled, MarksKept, BufKept

LEMMA ShutSettled ==
    ASSUME TypeOK, NEW r \in Receivers, rcv[r].obj \in Objs, Becomes(closeWithError(Heap, r))
    PROVE  Settled({}, {r}) /\ MarksKept /\ BufKept
<1> DEFINE g == closeWithError(Heap, r)
<1>1. g \in HeapType /\ Shut(Heap, g, r)
    BY HeapIs, ShutIs
<1>2. ms' = g.ms /\ rcv' = g.rcv /\ wg' = g.wg
    BY DEF Becomes
<1>3. ms' \in [Objs -> Managed] /\ rcv' \in [Receivers -> Receiver] /\ wg' \in Int
    BY <1>1, <1>2 DEF HeapType
<1> HIDE DEF g
<1>4. \A q \in Receivers :
         /\ rcv'[q].kind = rcv[q].kind /\ rcv'[q].obj = rcv[q].obj /\ rcv'[q].buf = rcv[q].buf
         /\ rcv'[q].done <=> rcv[q].done
         /\ rcv'[q].closed <=> (rcv[q].closed \/ q = r)
         /\ rcv'[q].returned <=> rcv[q].returned
         /\ q # r => rcv'[q].hooks = rcv[q].hooks
    BY <1>1, <1>2, HeapIs DEF Shut
<1>5. \A m \in Objs :
         /\ ms'[m].destroyed <=> ms[m].destroyed
         /\ ms'[m].exited <=> ms[m].exited
         /\ ms'[m].turnDone = ms[m].turnDone
         /\ ms'[m].subs = IF m = rcv[r].obj /\ ~rcv[r].closed /\ "unsub" \in rcv[r].hooks
                          THEN ms[m].subs \ HandlersOf(r) ELSE ms[m].subs
         /\ ms'[m].streams = IF m = rcv[r].obj /\ ~rcv[r].closed /\ "remove" \in rcv[r].hooks
                             THEN ms[m].streams \ {r} ELSE ms[m].streams
    BY <1>1, <1>2, HeapIs, SMTT(20) DEF Shut
<1>6. wg' = wg
    BY <1>1, <1>2, HeapIs DEF Shut
<1>7. Cleared({})
    BY <1>5 DEF Cleared
<1> QED BY <1>3, <1>4, <1>5, <1>6, <1>7 DEF Settled, MarksKept, BufKept

LEMMA FailSettled ==
    ASSUME TypeOK, NEW r \in Receivers, rcv[r].obj \in Objs, Becomes(FailTurn(Heap, r))
    PROVE  Settled({r}, {r}) /\ MarksKept /\ BufKept
<1> DEFINE x == doneTurn(Heap, r)
           g == closeWithError(x, r)
<1>1. x \in HeapType /\ Done(Heap, x, r)
    BY HeapIs, DoneIs
<1>2. x.rcv[r].obj \in Objs
    BY <1>1, HeapIs DEF Done
<1>3. g \in HeapType /\ Shut(x, g, r)
    BY <1>1, <1>2, ShutIs
<1>4. ms' = g.ms /\ rcv' = g.rcv /\ wg' = g.wg
    BY DEF Becomes, FailTurn
<1>5. ms' \in [Objs -> Managed] /\ rcv' \in [Receivers -> Receiver] /\ wg' \in Int
    BY <1>3, <1>4 DEF HeapType
<1> HIDE DEF g, x
<1>6. \A q \in Receivers :
         /\ rcv'[q].kind = rcv[q].kind /\ rcv'[q].obj = rcv[q].obj /\ rcv'[q].buf = rcv[q].buf
         /\ rcv'[q].done <=> (rcv[q].done \/ q = r)
         /\ rcv'[q].closed <=> (rcv[q].closed \/ q = r)
         /\ rcv'[q].returned <=> rcv[q].returned
         /\ q # r => rcv'[q].hooks = rcv[q].hooks
    BY <1>1, <1>3, <1>4, HeapIs DEF Done, Shut
<1>7. \A m \in Objs :
         /\ ms'[m].destroyed <=> ms[m].destroyed
         /\ ms'[m].exited <=> ms[m].exited
         /\ ms'[m].turnDone \in {ms[m].turnDone, None}
         /\ ms'[m].subs = IF m = rcv[r].obj /\ ~rcv[r].closed /\ "unsub" \in rcv[r].hooks
                          THEN ms[m].subs \ HandlersOf(r) ELSE ms[m].subs
         /\ ms'[m].streams = IF m = rcv[r].obj /\ ~rcv[r].closed /\ "remove" \in rcv[r].hooks
                             THEN ms[m].streams \ {r} ELSE ms[m].streams
  <2>1. /\ x.rcv[r].obj = rcv[r].obj /\ x.rcv[r].hooks = rcv[r].hooks
        /\ x.rcv[r].closed <=> rcv[r].closed
    BY <1>1, HeapIs DEF Done
  <2>2. \A m \in Objs :
         /\ x.ms[m].streams = ms[m].streams /\ x.ms[m].subs = ms[m].subs
         /\ x.ms[m].destroyed <=> ms[m].destroyed
         /\ x.ms[m].exited <=> ms[m].exited
         /\ x.ms[m].turnDone \in {ms[m].turnDone, None}
    BY <1>1, HeapIs DEF Done
  <2>3. \A m \in Objs :
         /\ ms'[m].destroyed <=> x.ms[m].destroyed
         /\ ms'[m].exited <=> x.ms[m].exited
         /\ ms'[m].turnDone = x.ms[m].turnDone
         /\ ms'[m].subs = IF m = x.rcv[r].obj /\ ~x.rcv[r].closed /\ "unsub" \in x.rcv[r].hooks
                          THEN x.ms[m].subs \ HandlersOf(r) ELSE x.ms[m].subs
         /\ ms'[m].streams = IF m = x.rcv[r].obj /\ ~x.rcv[r].closed /\ "remove" \in x.rcv[r].hooks
                             THEN x.ms[m].streams \ {r} ELSE x.ms[m].streams
    BY <1>3, <1>4 DEF Shut
  <2>4. ASSUME NEW m \in Objs
        PROVE  /\ ms'[m].subs = IF m = rcv[r].obj /\ ~rcv[r].closed /\ "unsub" \in rcv[r].hooks
                                THEN ms[m].subs \ HandlersOf(r) ELSE ms[m].subs
               /\ ms'[m].streams = IF m = rcv[r].obj /\ ~rcv[r].closed /\ "remove" \in rcv[r].hooks
                                   THEN ms[m].streams \ {r} ELSE ms[m].streams
    BY <2>1, <2>2, <2>3, Zenon
  <2> QED BY <2>2, <2>3, <2>4
<1>8. wg' = IF rcv[r].done THEN wg ELSE wg - 1
    BY <1>1, <1>3, <1>4, HeapIs DEF Done, Shut
<1>9. Cleared({r})
  <2>1. \A m \in Objs : ms'[m].turnDone = x.ms[m].turnDone
    BY <1>3, <1>4 DEF Shut
  <2>2. \A m \in Objs : m # rcv[r].obj \/ rcv[r].done => x.ms[m].turnDone = ms[m].turnDone
    BY <1>1, HeapIs DEF Done
  <2> QED BY <2>1, <2>2 DEF Cleared
<1> QED BY <1>5, <1>6, <1>7, <1>8, <1>9 DEF Settled, MarksKept, BufKept

PubType == [event : Event, pend : SUBSET Handler, cur : Receivers \cup {None}]

\* Publishers get new handlers from a bus only, and enter the streams they got.
Published ==
    /\ pub' \in [Publishers -> PubType]
    /\ \A p \in Publishers :
         /\ \A h \in pub'[p].pend : h \in pub[p].pend \/ \E m \in Objs : h \in ms[m].subs
         /\ pub'[p].cur # None => \/ pub'[p].cur = pub[p].cur
                                  \/ <<pub'[p].cur, "stream">> \in pub[p].pend

LEMMA QuietIs == Quiet \in PubType /\ Quiet.pend = {} /\ Quiet.cur = None
BY DEF Quiet, PubType, Event

LEMMA SamePublished ==
    ASSUME TypeOK, pub' = pub
    PROVE  Published
BY DEF Published, TypeOK, PubType

LEMMA PublishIs ==
    ASSUME TypeOK, NEW p \in Publishers, NEW m \in Objs, NEW e \in Event, publish(p, m, e)
    PROVE  Published
<1> DEFINE heard == {h \in ms[m].subs : e = "terminal" \/ h[2] = "stream"}
<1>1. heard \subseteq ms[m].subs /\ heard \in SUBSET Handler
    BY DEF TypeOK, Managed
<1>2. pub' = [pub EXCEPT ![p] = IF heard = {} THEN Quiet
                                ELSE [event |-> e, pend |-> heard, cur |-> None]]
    BY DEF publish
<1> HIDE DEF heard
<1>3. pub \in [Publishers -> PubType]
    BY DEF TypeOK, PubType
<1>4. [event |-> e, pend |-> heard, cur |-> None] \in PubType
    BY <1>1 DEF PubType
<1>5. /\ pub' \in [Publishers -> PubType] /\ \A q \in Publishers : q # p => pub'[q] = pub[q]
      /\ pub'[p].pend \subseteq heard /\ pub'[p].cur = None
    BY <1>2, <1>3, <1>4, QuietIs
<1> QED BY <1>1, <1>3, <1>5 DEF Published

\* One handler less, or the one being called.
LEMMA RemainIs ==
    ASSUME TypeOK, NEW p \in Publishers, NEW P \in SUBSET pub[p].pend,
           NEW k \in Receivers \cup {None},
           k # None => k = pub[p].cur \/ <<k, "stream">> \in pub[p].pend,
           pub' = [pub EXCEPT ![p] = Remaining(p, P, k)]
    PROVE  Published
<1>1. pub \in [Publishers -> PubType]
    BY DEF TypeOK, PubType
<1>2. P \in SUBSET Handler
    BY <1>1 DEF PubType
<1>3. /\ Remaining(p, P, k) \in PubType
      /\ Remaining(p, P, k).pend \subseteq P /\ Remaining(p, P, k).cur \in {k, None}
    BY <1>1, <1>2, QuietIs DEF Remaining, PubType
<1>4. /\ pub' \in [Publishers -> PubType] /\ \A q \in Publishers : q # p => pub'[q] = pub[q]
      /\ pub'[p] = Remaining(p, P, k)
    BY <1>1, <1>3
<1> QED BY <1>1, <1>3, <1>4 DEF Published

\* Client c is the only one to move, and these are its local variables now.
Moved(c, pc, op, m, r) ==
    /\ cl' \in [Clients -> Client]
    /\ \A d \in Clients : d # c => cl'[d] = cl[d]
    /\ cl'[c].pc = pc /\ cl'[c].op = op /\ cl'[c].obj = m /\ cl'[c].rcv = r

Went(c, pc) == Moved(c, pc, cl[c].op, cl[c].obj, cl[c].rcv)

Back(c) == Moved(c, "ready", "none", None, None)

LEMMA ReadyIs ==
    /\ Ready \in Client /\ Ready.pc = "ready" /\ Ready.op = "none" /\ Ready.obj = None
    /\ Ready.rcv = None /\ Ready.todo = {} /\ Ready.all = {}
BY DEF Ready, Client, ClientPC

LEMMA WentIs ==
    ASSUME TypeOK, NEW c \in Clients, NEW pc \in ClientPC, Goto(c, pc)
    PROVE  Went(c, pc)
BY SMTT(20) DEF TypeOK, Goto, Went, Moved, Client

LEMMA BackIs ==
    ASSUME TypeOK, NEW c \in Clients, Return(c)
    PROVE  Back(c)
BY ReadyIs DEF TypeOK, Return, Back, Moved

LEMMA NewCallIs ==
    ASSUME TypeOK, NEW c \in Clients, NEW op, NewCall(c, op)
    PROVE  cl[c].pc = "ready" /\ calls' \in PlanOf
<1>1. calls[c] \in Seq(SUBSET Ops) /\ calls[c] # <<>>
    BY DEF NewCall, TypeOK, PlanOf
<1>2. Tail(calls[c]) \in Seq(SUBSET Ops)
    BY <1>1
<1> QED BY <1>2 DEF NewCall, TypeOK, PlanOf

-----------------------------------------------------------------------------
(* The actions *)

TearKept ==
    \A m \in Objs : /\ ms'[m].destroyed <=> ms[m].destroyed
                    /\ ms'[m].exited <=> ms[m].exited

ReturnsKept == \A r \in Receivers : rcv'[r].returned <=> rcv[r].returned

\* Fields of a session that may be written without the invariants noticing.
LEMMA FlagAs ==
    ASSUME NEW x \in Managed, NEW b \in BOOLEAN
    PROVE  /\ [x EXCEPT !.running = b] \in Managed /\ MsAs(x, [x EXCEPT !.running = b])
           /\ [x EXCEPT !.dRunning = b] \in Managed /\ MsAs(x, [x EXCEPT !.dRunning = b])
BY DEF Managed, MsAs

LEMMA IdAs ==
    ASSUME NEW x \in Managed, NEW i \in Ids
    PROVE  [x EXCEPT !.id = i] \in Managed /\ MsAs(x, [x EXCEPT !.id = i])
BY DEF Managed, MsAs

LEMMA QueuedAs ==
    ASSUME NEW x \in Managed, NEW n \in Nat
    PROVE  [x EXCEPT !.queued = n] \in Managed /\ MsAs(x, [x EXCEPT !.queued = n])
BY DEF Managed, MsAs

LEMMA OneAs ==
    ASSUME TypeOK, NEW m \in Objs, NEW y \in Managed, MsAs(ms[m], y), ms' = [ms EXCEPT ![m] = y]
    PROVE  ms' \in [Objs -> Managed] /\ \A n \in Objs : MsAs(ms[n], ms'[n])
<1>1. ms' \in [Objs -> Managed]
    BY DEF TypeOK
<1>2. ASSUME NEW n \in Objs PROVE MsAs(ms[n], ms'[n])
  <2>1. CASE n = m
    BY <2>1 DEF TypeOK
  <2>2. CASE n # m
    BY <2>2 DEF TypeOK, MsAs
  <2> QED BY <2>1, <2>2
<1> QED BY <1>1, <1>2

LEMMA CreateMove ==
    ASSUME TypeOK, NEW c \in Clients, CreateSession(c)
    PROVE  Calm /\ Published /\ cl' = cl
<1>1. PICK i \in Ids, m \in Objs : ms' = [ms EXCEPT ![m].id = i]
    BY DEF CreateSession
<1>2. ms' \in [Objs -> Managed] /\ \A n \in Objs : MsAs(ms[n], ms'[n])
  <2>1. ms' = [ms EXCEPT ![m] = [ms[m] EXCEPT !.id = i]] /\ ms[m] \in Managed
    BY <1>1 DEF TypeOK
  <2> QED BY <2>1, IdAs, OneAs
<1> QED BY <1>2, CalmMs, SamePublished DEF CreateSession

\* The calls that look a session up.
Gets(c) ==
    \/ \E op \in {"send", "continue"} : getSession(c, op, "track")
    \/ getSession(c, "events", "events")
    \/ \E op \in Event : getSession(c, op, "control")

LEMMA GetMove ==
    ASSUME TypeOK, NEW c \in Clients, Gets(c)
    PROVE  /\ Calm /\ Published /\ cl[c].pc = "ready"
           /\ \E m \in Objs : \/ Moved(c, "track", "send", m, None)
                              \/ Moved(c, "track", "continue", m, None)
                              \/ Moved(c, "events", "events", m, None)
                              \/ \E op \in Event : Moved(c, "control", op, m, None)
<1>1. ASSUME NEW op \in {"send", "continue", "events", "info", "terminal"}, NEW pc \in ClientPC,
             getSession(c, op, pc)
      PROVE  /\ Calm /\ Published /\ cl[c].pc = "ready"
             /\ \E m \in Objs : Moved(c, pc, op, m, None)
  <2>1. PICK i \in Ids : /\ sessions[i] # None
                         /\ cl' = [cl EXCEPT ![c] = [Ready EXCEPT !.pc = pc, !.op = op, !.obj = sessions[i]]]
    BY <1>1 DEF getSession
  <2>2. sessions[i] \in Objs
    BY <2>1 DEF TypeOK
  <2>3. Moved(c, pc, op, sessions[i], None)
    BY <2>1, <2>2, ReadyIs DEF TypeOK, Moved, Client
  <2>4. Calm /\ Published
    BY <1>1, SameIsCalm, SamePublished DEF getSession
  <2>5. cl[c].pc = "ready"
    BY <1>1 DEF getSession, NewCall
  <2> QED BY <2>2, <2>3, <2>4, <2>5
<1>2. {"track", "events", "control"} \subseteq ClientPC /\ Event = {"info", "terminal"}
    BY DEF ClientPC, Event
<1> QED BY <1>1, <1>2 DEF Gets

LEMMA StartMove ==
    ASSUME TypeOK, ClientInv, ReceiverInv, NEW c \in Clients, StartTurn(c)
    PROVE  /\ cl[c].pc = "start" /\ Published /\ MarksKept /\ BufKept
           /\ \/ Settled({cl[c].rcv}, {cl[c].rcv}) /\ Back(c)
              \/ Settled({}, {}) /\ Went(c, "launch") /\ ~ms[cl[c].obj].exited
<1>1. /\ cl[c].pc = "start" /\ cl[c].obj \in Objs /\ cl[c].rcv \in Receivers
      /\ rcv[cl[c].rcv].obj = cl[c].obj /\ "launch" \in ClientPC /\ "info" \in Event
    BY DEF StartTurn, ClientInv, ClientOK, Holding, TypeOK, Client, ClientPC, Event
<1>2. CASE ms[cl[c].obj].exited \/ ms[cl[c].obj].running
  <2>1. Becomes(FailTurn(Heap, cl[c].rcv)) /\ Return(c) /\ pub' = pub
    BY <1>2 DEF StartTurn
  <2> QED BY <1>1, <2>1, FailSettled, BackIs, SamePublished
<1>3. CASE ~(ms[cl[c].obj].exited \/ ms[cl[c].obj].running)
  <2>1. /\ Becomes([Heap EXCEPT !.ms[cl[c].obj].running = TRUE]) /\ Goto(c, "launch")
        /\ publish(c, cl[c].obj, "info") \/ pub' = pub
    BY <1>3 DEF StartTurn
  <2>2. ms' = [ms EXCEPT ![cl[c].obj].running = TRUE] /\ rcv' = rcv /\ wg' = wg
    BY <2>1 DEF Becomes, Heap
  <2>3. ms' = [ms EXCEPT ![cl[c].obj] = [ms[cl[c].obj] EXCEPT !.running = TRUE]] /\ ms[cl[c].obj] \in Managed
    BY <1>1, <2>2 DEF TypeOK
  <2>4. ms' \in [Objs -> Managed] /\ \A n \in Objs : MsAs(ms[n], ms'[n])
    BY <1>1, <2>3, FlagAs, OneAs
  <2>6. Published
    BY <1>1, <2>1, PublishIs, SamePublished DEF Publishers
  <2> QED BY <1>1, <1>3, <2>1, <2>2, <2>4, <2>6, CalmMs, WentIs DEF Calm
<1> QED BY <1>2, <1>3

LEMMA LaunchMove ==
    ASSUME TypeOK, ClientInv, NEW c \in Clients, LaunchLoop(c)
    PROVE  /\ cl[c].pc = "launch" /\ Published /\ Settled({}, {}) /\ BufKept /\ TearKept
           /\ \/ Went(c, "failed") /\ ReturnsKept
              \/ /\ Back(c)
                 /\ \A r \in Receivers : rcv'[r].returned <=> (rcv[r].returned \/ r = cl[c].rcv)
<1>1. /\ cl[c].pc = "launch" /\ cl[c].obj \in Objs /\ cl[c].rcv \in Receivers
      /\ "failed" \in ClientPC /\ "info" \in Event
    BY DEF LaunchLoop, ClientInv, ClientOK, Holding, TypeOK, Client, ClientPC, Event
<1> DEFINE m == cl[c].obj
           r == cl[c].rcv
<1>0. ms[m] \in Managed
    BY <1>1 DEF TypeOK
<1>2. CASE ms[m].dRunning
  <2>1. /\ Becomes([Heap EXCEPT !.ms[m].running = FALSE]) /\ Goto(c, "failed")
        /\ publish(c, m, "info") \/ pub' = pub
    BY <1>2 DEF LaunchLoop
  <2>2. ms' = [ms EXCEPT ![m].running = FALSE] /\ rcv' = rcv /\ wg' = wg
    BY <2>1 DEF Becomes, Heap
  <2>3. ms' \in [Objs -> Managed] /\ \A n \in Objs : MsAs(ms[n], ms'[n])
    <3>1. ms' = [ms EXCEPT ![m] = [ms[m] EXCEPT !.running = FALSE]]
      BY <2>2 DEF TypeOK
    <3> QED BY <1>0, <1>1, <3>1, FlagAs, OneAs
  <2>6. Published
    BY <1>1, <2>1, PublishIs, SamePublished DEF Publishers
  <2> QED BY <1>1, <2>1, <2>2, <2>3, <2>6, CalmMs, WentIs
          DEF Calm, MarksKept, TearKept, ReturnsKept
<1>3. CASE ~ms[m].dRunning
  <2>1. /\ Becomes([Heap EXCEPT !.ms[m].dRunning = TRUE, !.rcv[r].returned = TRUE])
        /\ Return(c) /\ pub' = pub
    BY <1>3 DEF LaunchLoop
  <2>2. /\ ms' = [ms EXCEPT ![m].dRunning = TRUE] /\ rcv' = [rcv EXCEPT ![r].returned = TRUE]
        /\ wg' = wg
    BY <2>1 DEF Becomes, Heap
  <2>3. ms' \in [Objs -> Managed] /\ \A n \in Objs : MsAs(ms[n], ms'[n])
    <3>1. ms' = [ms EXCEPT ![m] = [ms[m] EXCEPT !.dRunning = TRUE]]
      BY <2>2 DEF TypeOK
    <3> QED BY <1>0, <1>1, <3>1, FlagAs, OneAs
  <2>4. rcv' \in [Receivers -> Receiver]
    <3>1. [rcv EXCEPT ![r].returned = TRUE] \in [Receivers -> Receiver]
      BY <1>1, WithDone DEF TypeOK
    <3> QED BY <2>2, <3>1, Zenon
  <2>6. \A q \in Receivers :
          /\ rcv'[q].kind = rcv[q].kind /\ rcv'[q].obj = rcv[q].obj
          /\ rcv'[q].hooks = rcv[q].hooks /\ rcv'[q].buf = rcv[q].buf
          /\ rcv'[q].closed <=> rcv[q].closed
          /\ rcv'[q].done <=> rcv[q].done
          /\ rcv'[q].returned <=> (rcv[q].returned \/ q = r)
    BY <1>1, <2>2 DEF TypeOK, Receiver
  <2>7. Settled({}, {}) /\ BufKept /\ TearKept
    BY <2>2, <2>3, <2>4, <2>6 DEF Settled, BufKept, TearKept, MsAs, TypeOK, Cleared
  <2> QED BY <1>1, <2>1, <2>6, <2>7, BackIs, SamePublished
<1> QED BY <1>2, <1>3

LEMMA FailedMove ==
    ASSUME TypeOK, ClientInv, ReceiverInv, NEW c \in Clients, LaunchFailed(c)
    PROVE  /\ cl[c].pc = "failed" /\ Published /\ MarksKept /\ BufKept
           /\ Settled({cl[c].rcv}, {cl[c].rcv}) /\ Back(c)
<1>1. /\ cl[c].pc = "failed" /\ cl[c].obj \in Objs /\ cl[c].rcv \in Receivers
      /\ rcv[cl[c].rcv].obj = cl[c].obj
    BY DEF LaunchFailed, ClientInv, ClientOK, Holding, TypeOK, Client
<1>2. Becomes(FailTurn(Heap, cl[c].rcv)) /\ Return(c) /\ pub' = pub
    BY DEF LaunchFailed
<1> QED BY <1>1, <1>2, FailSettled, BackIs, SamePublished

LEMMA ControlMove ==
    ASSUME TypeOK, ClientInv, NEW c \in Clients, Control(c) \/ ControlReturns(c)
    PROVE  /\ cl[c].pc \in {"control", "emit"} /\ Calm /\ Published
           /\ Back(c) \/ Went(c, "emit")
<1>1. CASE Control(c)
  <2>1. cl[c].pc = "control" /\ cl[c].obj \in Objs /\ cl[c].op \in Event /\ "emit" \in ClientPC
    BY <1>1 DEF Control, ClientInv, ClientOK, ClientPC
  <2>2. CASE ms[cl[c].obj].busClosed
    BY <1>1, <2>1, <2>2, SameIsCalm, SamePublished, BackIs DEF Control
  <2>3. CASE ~ms[cl[c].obj].busClosed
    <3>1. /\ publish(c, cl[c].obj, cl[c].op) /\ Goto(c, "emit") /\ rcv' = rcv /\ wg' = wg
          /\ \E n \in Nat : ms' = [ms EXCEPT ![cl[c].obj].queued = n]
      <4>1. ms[cl[c].obj].queued \in Nat
        BY <2>1 DEF TypeOK, Managed
      <4> DEFINE n == IF cl[c].op = "info" THEN ms[cl[c].obj].queued + 1 ELSE ms[cl[c].obj].queued
      <4>2. n \in Nat /\ ms' = [ms EXCEPT ![cl[c].obj].queued = n]
        BY <1>1, <2>3, <4>1 DEF Control
      <4> QED BY <1>1, <2>3, <4>2 DEF Control
    <3>2. ms' \in [Objs -> Managed] /\ \A n \in Objs : MsAs(ms[n], ms'[n])
      <4>1. PICK n \in Nat : ms' = [ms EXCEPT ![cl[c].obj].queued = n]
        BY <3>1
      <4>2. ms' = [ms EXCEPT ![cl[c].obj] = [ms[cl[c].obj] EXCEPT !.queued = n]] /\ ms[cl[c].obj] \in Managed
        BY <2>1, <4>1 DEF TypeOK
      <4> QED BY <2>1, <4>2, QueuedAs, OneAs
    <3> QED BY <2>1, <3>1, <3>2, CalmMs, PublishIs, WentIs DEF Publishers
  <2> QED BY <2>2, <2>3
<1>2. CASE ControlReturns(c)
    BY <1>2, SameIsCalm, SamePublished, BackIs DEF ControlReturns
<1> QED BY <1>1, <1>2

\* Session m is marked as destroyed.
Destroyed(m) ==
    /\ Settled({}, {}) /\ BufKept /\ ReturnsKept
    /\ \A n \in Objs : /\ ms'[n].destroyed <=> (ms[n].destroyed \/ n = m)
                       /\ ms'[n].exited <=> ms[n].exited

LEMMA DestroyedIs ==
    ASSUME TypeOK, NEW m \in Objs, ms' = [ms EXCEPT ![m].destroyed = TRUE], rcv' = rcv, wg' = wg
    PROVE  Destroyed(m)
<1>1. ASSUME NEW x \in Managed, NEW b \in BOOLEAN PROVE [x EXCEPT !.destroyed = b] \in Managed
    BY DEF Managed
<1>2. ms[m] \in Managed /\ ms' = [ms EXCEPT ![m] = [ms[m] EXCEPT !.destroyed = TRUE]]
    BY DEF TypeOK
<1>3. [ms[m] EXCEPT !.destroyed = TRUE] \in Managed
    BY <1>1, <1>2
<1>4. ms' \in [Objs -> Managed]
    BY <1>2, <1>3 DEF TypeOK
<1>5. \A n \in Objs : /\ ms'[n].turnDone = ms[n].turnDone
                      /\ ms'[n].subs = ms[n].subs /\ ms'[n].streams = ms[n].streams
                      /\ ms'[n].exited <=> ms[n].exited
                      /\ ms'[n].destroyed <=> (ms[n].destroyed \/ n = m)
    BY <1>2 DEF TypeOK, Managed
<1> QED BY <1>4, <1>5 DEF Destroyed, Settled, BufKept, ReturnsKept, TypeOK, Cleared

LEMMA DestroyMove ==
    ASSUME TypeOK, NEW c \in Clients, DestroySession(c)
    PROVE  /\ cl[c].pc = "ready" /\ Published
           /\ \E m \in Objs : Moved(c, "stop", "destroy", m, None) /\ Destroyed(m)
<1>1. PICK i \in Ids :
         /\ sessions[i] # None /\ ms' = [ms EXCEPT ![sessions[i]].destroyed = TRUE]
         /\ cl' = [cl EXCEPT ![c] = [Ready EXCEPT !.pc = "stop", !.op = "destroy", !.obj = sessions[i]]]
    BY DEF DestroySession
<1>2. sessions[i] \in Objs
    BY <1>1 DEF TypeOK
<1>3. Moved(c, "stop", "destroy", sessions[i], None)
    BY <1>1, <1>2, ReadyIs DEF TypeOK, Moved, Client, ClientPC
<1>4. Destroyed(sessions[i])
    BY <1>1, <1>2, DestroyedIs DEF DestroySession
<1>5. cl[c].pc = "ready" /\ pub' = pub
    BY DEF DestroySession, NewCall
<1> QED BY <1>2, <1>3, <1>4, <1>5, SamePublished

LEMMA CloseMove ==
    ASSUME TypeOK, NEW c \in Clients,
           Close(c) \/ CloseDrained(c) \/ CloseTimeout(c) \/ CloseGivesUp(c)
    PROVE  /\ cl[c].pc \in {"ready", "wait", "wait2"} /\ Calm /\ Published
           /\ Moved(c, "next", "close", None, None) \/ Back(c) \/ Went(c, "again")
<1>1. CASE Close(c)
  <2> DEFINE all == {sessions[i] : i \in Ids} \ {None}
  <2>1. all \in SUBSET Objs
    BY DEF TypeOK
  <2>2. cl' = [cl EXCEPT ![c] = [Ready EXCEPT !.pc = "next", !.op = "close", !.todo = all, !.all = all]]
    BY <1>1 DEF Close
  <2> HIDE DEF all
  <2>3. Moved(c, "next", "close", None, None)
    BY <2>1, <2>2, ReadyIs DEF TypeOK, Moved, Client, ClientPC
  <2> QED BY <1>1, <2>3, SameIsCalm, SamePublished DEF Close, NewCall
<1>2. CASE CloseDrained(c) \/ CloseGivesUp(c)
    BY <1>2, SameIsCalm, SamePublished, BackIs DEF CloseDrained, CloseGivesUp
<1>3. CASE CloseTimeout(c)
  <2>1. Went(c, "again")
    <3> DEFINE y == [cl[c] EXCEPT !.pc = "again", !.todo = cl[c].all]
    <3>1. cl[c] \in Client /\ "again" \in ClientPC
      BY DEF TypeOK, ClientPC
    <3>2. y \in Client /\ y.pc = "again" /\ y.op = cl[c].op /\ y.obj = cl[c].obj /\ y.rcv = cl[c].rcv
      BY <3>1 DEF Client
    <3>3. cl' = [cl EXCEPT ![c] = y]
      BY <1>3 DEF CloseTimeout, TypeOK
    <3> HIDE DEF y
    <3> QED BY <3>2, <3>3 DEF Went, Moved, TypeOK
  <2> QED BY <1>3, <2>1, SameIsCalm, SamePublished DEF CloseTimeout
<1> QED BY <1>1, <1>2, <1>3

LEMMA CloseNextMove ==
    ASSUME TypeOK, NEW c \in Clients, CloseNext(c)
    PROVE  /\ cl[c].pc = "next" /\ Published
           /\ \/ Calm /\ Went(c, "wait")
              \/ \E m \in Objs : Moved(c, "stop", cl[c].op, m, cl[c].rcv) /\ Destroyed(m)
<1>1. cl[c].pc = "next" /\ Published /\ "wait" \in ClientPC
    BY SamePublished DEF CloseNext, ClientPC
<1>2. CASE cl[c].todo = {}
    BY <1>1, <1>2, SameIsCalm, WentIs DEF CloseNext
<1>3. CASE cl[c].todo # {}
  <2>1. PICK m \in cl[c].todo :
           /\ ms' = [ms EXCEPT ![m].destroyed = TRUE]
           /\ cl' = [cl EXCEPT ![c].pc = "stop", ![c].obj = m, ![c].todo = @ \ {m}]
    BY <1>3 DEF CloseNext
  <2>2. m \in Objs /\ cl[c] \in Client /\ "stop" \in ClientPC
    BY DEF TypeOK, Client, ClientPC
  <2> DEFINE y == [cl[c] EXCEPT !.pc = "stop", !.obj = m, !.todo = @ \ {m}]
  <2>3. y \in Client /\ y.pc = "stop" /\ y.op = cl[c].op /\ y.obj = m /\ y.rcv = cl[c].rcv
    BY <2>2 DEF Client
  <2>4. cl' = [cl EXCEPT ![c] = y]
    BY <2>1 DEF TypeOK
  <2> HIDE DEF y
  <2>5. Moved(c, "stop", cl[c].op, m, cl[c].rcv)
    BY <2>3, <2>4 DEF Moved, TypeOK
  <2>6. Destroyed(m)
    BY <2>1, <2>2, DestroyedIs DEF CloseNext
  <2> QED BY <1>1, <2>2, <2>5, <2>6
<1> QED BY <1>2, <1>3

LEMMA StopMove ==
    ASSUME TypeOK, ClientInv, NEW c \in Clients, AgentStop(c) \/ AgentStopDriver(c)
    PROVE  /\ Calm /\ Published
           /\ \/ cl[c].pc = "stop" /\ ms[cl[c].obj].exited /\ Went(c, "complete")
              \/ cl[c].pc = "stop" /\ Went(c, "stopDriver")
              \/ cl[c].pc = "stopDriver" /\ Went(c, "exit")
<1>1. cl[c].obj \in Objs /\ {"complete", "stopDriver", "exit"} \subseteq ClientPC
    BY DEF AgentStop, AgentStopDriver, ClientInv, ClientOK, TearingPC, ClientPC
<1>2. ms[cl[c].obj] \in Managed /\ Published
    BY <1>1, SamePublished DEF TypeOK, AgentStop, AgentStopDriver
<1>3. CASE AgentStop(c)
  <2>1. CASE ms[cl[c].obj].exited
    BY <1>1, <1>2, <1>3, <2>1, SameIsCalm, WentIs DEF AgentStop
  <2>2. CASE ~ms[cl[c].obj].exited
    <3>1. ms' = [ms EXCEPT ![cl[c].obj] = [ms[cl[c].obj] EXCEPT !.running = FALSE]]
      BY <1>3, <2>2 DEF AgentStop, TypeOK
    <3>2. ms' \in [Objs -> Managed] /\ \A n \in Objs : MsAs(ms[n], ms'[n])
      BY <1>1, <1>2, <3>1, FlagAs, OneAs
    <3> QED BY <1>1, <1>2, <1>3, <2>2, <3>2, CalmMs, WentIs DEF AgentStop
  <2> QED BY <2>1, <2>2
<1>4. CASE AgentStopDriver(c)
  <2>1. ms' = [ms EXCEPT ![cl[c].obj] = [ms[cl[c].obj] EXCEPT !.dRunning = FALSE]]
    BY <1>4 DEF AgentStopDriver, TypeOK
  <2>2. ms' \in [Objs -> Managed] /\ \A n \in Objs : MsAs(ms[n], ms'[n])
    BY <1>1, <1>2, <2>1, FlagAs, OneAs
  <2> QED BY <1>1, <1>2, <1>4, <2>2, CalmMs, WentIs DEF AgentStopDriver
<1> QED BY <1>3, <1>4

LEMMA ExitMove ==
    ASSUME TypeOK, ClientInv, NEW c \in Clients, AgentExit(c)
    PROVE  /\ cl[c].pc = "exit" /\ Published
           /\ \/ Calm /\ ms[cl[c].obj].exited /\ Went(c, "complete")
              \/ /\ Settled({}, {}) /\ BufKept /\ ReturnsKept /\ Went(c, "busClose")
                 /\ \A n \in Objs : /\ ms'[n].destroyed <=> ms[n].destroyed
                                    /\ ms'[n].exited <=> (ms[n].exited \/ n = cl[c].obj)
<1> DEFINE m == cl[c].obj
<1>1. /\ cl[c].pc = "exit" /\ m \in Objs /\ {"complete", "busClose"} \subseteq ClientPC
      /\ ms[m] \in Managed /\ "info" \in Event
    BY DEF AgentExit, ClientInv, ClientOK, TearingPC, ClientPC, TypeOK, Event
<1>2. CASE ms[m].exited
    BY <1>1, <1>2, SameIsCalm, SamePublished, WentIs DEF AgentExit
<1>3. CASE ~ms[m].exited
  <2>1. /\ ms' = [ms EXCEPT ![m].exited = TRUE] /\ publish(c, m, "info") /\ Goto(c, "busClose")
        /\ rcv' = rcv /\ wg' = wg
    BY <1>3 DEF AgentExit
  <2>2. ASSUME NEW x \in Managed, NEW b \in BOOLEAN PROVE [x EXCEPT !.exited = b] \in Managed
    BY DEF Managed
  <2>3. ms' = [ms EXCEPT ![m] = [ms[m] EXCEPT !.exited = TRUE]]
    BY <2>1 DEF TypeOK
  <2>4. [ms[m] EXCEPT !.exited = TRUE] \in Managed
    BY <1>1, <2>2
  <2>5. ms' \in [Objs -> Managed]
    BY <2>3, <2>4 DEF TypeOK
  <2>6. \A n \in Objs : /\ ms'[n].turnDone = ms[n].turnDone
                        /\ ms'[n].subs = ms[n].subs /\ ms'[n].streams = ms[n].streams
                        /\ ms'[n].destroyed <=> ms[n].destroyed
                        /\ ms'[n].exited <=> (ms[n].exited \/ n = m)
    BY <1>1, <2>3 DEF TypeOK, Managed
  <2>7. Settled({}, {}) /\ BufKept /\ ReturnsKept
    BY <2>1, <2>5, <2>6 DEF Settled, BufKept, ReturnsKept, TypeOK, Cleared
  <2>8. Published /\ Went(c, "busClose")
    BY <1>1, <2>1, PublishIs, WentIs DEF Publishers
  <2> QED BY <1>1, <2>6, <2>7, <2>8
<1> QED BY <1>2, <1>3

LEMMA BusCloseMove ==
    ASSUME TypeOK, ClientInv, NEW c \in Clients, AgentBusClose(c)
    PROVE  cl[c].pc = "busClose" /\ Published /\ Calm /\ Went(c, "complete")
<1> DEFINE m == cl[c].obj
<1>1. cl[c].pc = "busClose" /\ m \in Objs /\ "complete" \in ClientPC /\ ms[m] \in Managed
    BY DEF AgentBusClose, ClientInv, ClientOK, TearingPC, ClientPC, TypeOK
<1>2. ms' = [ms EXCEPT ![m] = [ms[m] EXCEPT !.busClosed = TRUE, !.subs = {}]] /\ rcv' = rcv /\ wg' = wg
    BY DEF AgentBusClose, TypeOK
<1>3. ASSUME NEW x \in Managed, NEW b \in BOOLEAN PROVE [x EXCEPT !.busClosed = b, !.subs = {}] \in Managed
    BY DEF Managed
<1>4. [ms[m] EXCEPT !.busClosed = TRUE, !.subs = {}] \in Managed
    BY <1>1, <1>3
<1>5. ms' \in [Objs -> Managed]
    BY <1>2, <1>4 DEF TypeOK
<1>6. \A n \in Objs : /\ ms'[n].turnDone = ms[n].turnDone
                      /\ ms'[n].subs \subseteq ms[n].subs /\ ms'[n].streams = ms[n].streams
                      /\ ms'[n].destroyed <=> ms[n].destroyed
                      /\ ms'[n].exited <=> ms[n].exited
    BY <1>1, <1>2 DEF TypeOK, Managed
<1>7. Calm
    BY <1>2, <1>5, <1>6 DEF Calm, Settled, BufKept, MarksKept, TypeOK, Cleared
<1> QED BY <1>1, <1>7, SamePublished, WentIs DEF AgentBusClose

LEMMA CompleteIs ==
    ASSUME TypeOK, TurnInv, ReceiverInv, NEW m \in Objs, Becomes(completeActiveTurn(Heap, m))
    PROVE  /\ MarksKept /\ BufKept
           /\ \/ Settled({}, {})
              \/ \E r \in Receivers : rcv[r].kind = "turn" /\ Settled({r}, {})
           /\ ms[m].turnDone # None => rcv'[ms[m].turnDone].done
<1>1. CASE ms[m].turnDone = None
  <2>1. Becomes(Heap)
    BY <1>1, HeapIs DEF completeActiveTurn
  <2> QED BY <1>1, <2>1, HeapIs, SameIsCalm DEF Becomes, Calm
<1>2. CASE ms[m].turnDone # None
  <2> DEFINE r == ms[m].turnDone
  <2>1. r \in Receivers /\ rcv[r].kind = "turn" /\ rcv[r].obj \in Objs
    BY <1>2 DEF TypeOK, Managed, TurnInv, ReceiverInv
  <2>2. Becomes(doneTurn(Heap, r))
    BY <1>2, HeapIs DEF completeActiveTurn
  <2>3. Settled({r}, {}) /\ MarksKept /\ BufKept
    BY <2>1, <2>2, DoneSettled
  <2>4. rcv'[r].done
    BY <2>1, <2>3 DEF Settled
  <2> QED BY <2>1, <2>3, <2>4
<1> QED BY <1>1, <1>2

LEMMA CompleteMove ==
    ASSUME TypeOK, ClientInv, TurnInv, ReceiverInv, NEW c \in Clients, CompleteActiveTurn(c)
    PROVE  /\ cl[c].pc = "complete" /\ Published /\ MarksKept /\ BufKept /\ Went(c, "closeStreams")
           /\ \/ Settled({}, {})
              \/ \E r \in Receivers : rcv[r].kind = "turn" /\ Settled({r}, {})
           /\ ms[cl[c].obj].turnDone # None => rcv'[ms[cl[c].obj].turnDone].done
<1>1. cl[c].pc = "complete" /\ cl[c].obj \in Objs /\ "closeStreams" \in ClientPC
    BY DEF CompleteActiveTurn, ClientInv, ClientOK, TearingPC, ClientPC
<1>2. Becomes(completeActiveTurn(Heap, cl[c].obj)) /\ Goto(c, "closeStreams") /\ pub' = pub
    BY DEF CompleteActiveTurn
<1> QED BY <1>1, <1>2, CompleteIs, WentIs, SamePublished

LEMMA AgainMove ==
    ASSUME TypeOK, TurnInv, ReceiverInv, NEW c \in Clients, CloseAgain(c)
    PROVE  /\ cl[c].pc = "again" /\ Published /\ MarksKept /\ BufKept
           /\ Went(c, "again") \/ Went(c, "wait2")
           /\ \/ Settled({}, {})
              \/ \E r \in Receivers : rcv[r].kind = "turn" /\ Settled({r}, {})
<1>1. cl[c].pc = "again" /\ {"again", "wait2"} \subseteq ClientPC /\ pub' = pub /\ cl[c] \in Client
    BY DEF CloseAgain, ClientPC, TypeOK
<1>2. CASE cl[c].todo = {}
  <2>1. Goto(c, "wait2") /\ Becomes(Heap)
    BY <1>2 DEF CloseAgain
  <2> QED BY <1>1, <2>1, HeapIs, SameIsCalm, WentIs, SamePublished DEF Becomes, Calm
<1>3. CASE cl[c].todo # {}
  <2>1. PICK m \in cl[c].todo : /\ cl' = [cl EXCEPT ![c].todo = @ \ {m}]
                                /\ Becomes(completeActiveTurn(Heap, m))
    BY <1>3 DEF CloseAgain
  <2>2. m \in Objs
    BY <1>1 DEF Client
  <2>3. Went(c, "again")
    <3> DEFINE y == [cl[c] EXCEPT !.todo = @ \ {m}]
    <3>1. y \in Client /\ y.pc = "again" /\ y.op = cl[c].op /\ y.obj = cl[c].obj /\ y.rcv = cl[c].rcv
      BY <1>1 DEF Client
    <3>2. cl' = [cl EXCEPT ![c] = y]
      BY <2>1 DEF TypeOK
    <3> HIDE DEF y
    <3> QED BY <3>1, <3>2 DEF Went, Moved, TypeOK
  <2> QED BY <1>1, <2>1, <2>2, <2>3, CompleteIs, SamePublished
<1> QED BY <1>2, <1>3

LEMMA CloseStreamsMove ==
    ASSUME TypeOK, ClientInv, PlaceInv, NEW c \in Clients, CloseAllStreams(c)
    PROVE  /\ cl[c].pc = "closeStreams" /\ Published /\ MarksKept /\ BufKept
           /\ Went(c, "delete") \/ Went(c, "next")
           /\ Settled({}, ms[cl[c].obj].streams)
<1> DEFINE m == cl[c].obj
           open == {r \in ms[m].streams : ~rcv[r].closed}
           unsub == UNION {HandlersOf(r) : r \in {q \in open : "unsub" \in rcv[q].hooks}}
           y == [ms[m] EXCEPT !.streams = {}, !.subs = ms[m].subs \ unsub]
           R == [r \in Receivers |-> IF r \in open THEN [rcv[r] EXCEPT !.closed = TRUE, !.hooks = {}]
                                     ELSE rcv[r]]
<1>1. /\ cl[c].pc = "closeStreams" /\ m \in Objs /\ {"delete", "next"} \subseteq ClientPC
      /\ ms[m] \in Managed /\ pub' = pub /\ (Goto(c, "delete") \/ Goto(c, "next"))
    BY DEF CloseAllStreams, ClientInv, ClientOK, TearingPC, ClientPC, TypeOK
<1>2. open = ms[m].streams
    BY <1>1 DEF PlaceInv, TypeOK, Managed
<1>3. ms' = [ms EXCEPT ![m] = y] /\ rcv' = R /\ wg' = wg
  <2>1. Becomes(closeAllStreams(Heap, m))
    BY DEF CloseAllStreams
  <2>2. closeAllStreams(Heap, m) = [Heap EXCEPT !.ms[m].streams = {}, !.ms[m].subs = @ \ unsub, !.rcv = R]
    BY HeapIs DEF closeAllStreams
  <2> HIDE DEF open, unsub, R
  <2>3. /\ ms' = [ms EXCEPT ![m].streams = {}, ![m].subs = @ \ unsub] /\ rcv' = R /\ wg' = wg
    BY <2>1, <2>2 DEF Becomes, Heap
  <2>4. [ms EXCEPT ![m].streams = {}, ![m].subs = @ \ unsub] = [ms EXCEPT ![m] = y]
    BY <1>1 DEF TypeOK, Managed
  <2> QED BY <2>3, <2>4
<1>4. /\ y \in Managed /\ y.streams = {} /\ y.subs = ms[m].subs \ unsub
      /\ y.turnDone = ms[m].turnDone /\ y.destroyed = ms[m].destroyed /\ y.exited = ms[m].exited
    BY <1>1 DEF Managed
<1>5. \A r \in Receivers : r \in ms[m].streams /\ "unsub" \in rcv[r].hooks => HandlersOf(r) \subseteq unsub
    BY <1>2
<1>6. ms' \in [Objs -> Managed]
    BY <1>1, <1>3, <1>4 DEF TypeOK
<1>7. rcv' \in [Receivers -> Receiver]
  <2>1. ASSUME NEW x \in Receiver, NEW b \in BOOLEAN PROVE [x EXCEPT !.closed = b, !.hooks = {}] \in Receiver
    BY DEF Receiver
  <2>2. ASSUME NEW x \in Receiver PROVE [x EXCEPT !.closed = TRUE, !.hooks = {}] \in Receiver
    BY <2>1
  <2> QED BY <1>3, <2>2 DEF TypeOK
<1>8. \A n \in Objs :
         /\ ms'[n].turnDone = ms[n].turnDone /\ ms'[n].destroyed = ms[n].destroyed
         /\ ms'[n].exited = ms[n].exited
         /\ ms'[n].subs = IF n = m THEN ms[m].subs \ unsub ELSE ms[n].subs
         /\ ms'[n].streams = IF n = m THEN {} ELSE ms[n].streams
    BY <1>1, <1>3, <1>4 DEF TypeOK
<1>9. \A r \in Receivers :
         /\ rcv'[r].kind = rcv[r].kind /\ rcv'[r].obj = rcv[r].obj /\ rcv'[r].buf = rcv[r].buf
         /\ rcv'[r].done <=> rcv[r].done
         /\ rcv'[r].returned <=> rcv[r].returned
         /\ rcv'[r].closed <=> (rcv[r].closed \/ r \in ms[m].streams)
         /\ r \notin ms[m].streams => rcv'[r].hooks = rcv[r].hooks
  <2> SUFFICES ASSUME NEW r \in Receivers
               PROVE  /\ rcv'[r].kind = rcv[r].kind /\ rcv'[r].obj = rcv[r].obj /\ rcv'[r].buf = rcv[r].buf
                      /\ rcv'[r].done <=> rcv[r].done
                      /\ rcv'[r].returned <=> rcv[r].returned
                      /\ rcv'[r].closed <=> (rcv[r].closed \/ r \in ms[m].streams)
                      /\ r \notin ms[m].streams => rcv'[r].hooks = rcv[r].hooks
    OBVIOUS
  <2>1. rcv[r] \in Receiver
    BY DEF TypeOK
  <2>2. CASE r \in open
    <3>1. rcv'[r] = [rcv[r] EXCEPT !.closed = TRUE, !.hooks = {}]
      BY <1>3, <2>2
    <3> QED BY <1>2, <2>1, <2>2, <3>1 DEF Receiver
  <2>3. CASE r \notin open
    <3>1. rcv'[r] = rcv[r]
      BY <1>3, <2>3
    <3> QED BY <1>2, <2>3, <3>1
  <2> QED BY <2>2, <2>3
<1>10. \A r \in ms[m].streams : r \in Receivers /\ rcv[r].obj = m
    BY <1>1, Zenon DEF PlaceInv, TypeOK, Managed
<1> HIDE DEF open, unsub, y, R
<1>11. Settled({}, ms[m].streams)
    BY <1>1, <1>3, <1>5, <1>6, <1>7, <1>8, <1>9, <1>10 DEF Settled, TypeOK, Cleared
<1>12. MarksKept /\ BufKept
    BY <1>8, <1>9 DEF MarksKept, BufKept
<1> QED BY <1>1, <1>11, <1>12, WentIs, SamePublished

LEMMA DeleteMove ==
    ASSUME TypeOK, NEW c \in Clients, DeleteSession(c)
    PROVE  cl[c].pc = "delete" /\ Calm /\ Published /\ Back(c)
BY SameIsCalm, SamePublished, BackIs DEF DeleteSession

\* Driver goroutines only publish.
LEMMA LoopMove ==
    ASSUME TypeOK, LoopInv, NEW l \in Loops, LoopStep(l)
    PROVE  Calm /\ Published /\ cl' = cl
<1> DEFINE m == lp[l].obj
<1>1. lp[l].pc # "none" /\ cl' = cl /\ wg' = wg /\ rcv' = rcv
    BY DEF LoopStep, LoopEvents, LoopTerminal, LoopDriverError, LoopNextTurn, LoopIdle, LoopDone
<1>2. m \in Objs /\ ms[m] \in Managed /\ l \in Publishers /\ {"info", "terminal"} \subseteq Event
    BY <1>1 DEF LoopInv, TypeOK, Publishers, Event
<1>3. pub' = pub \/ publish(l, m, "info") \/ publish(l, m, "terminal")
    BY DEF LoopStep, LoopEvents, LoopTerminal, LoopDriverError, LoopNextTurn, LoopIdle, LoopDone
<1>4. Published
    BY <1>2, <1>3, PublishIs, SamePublished
<1>5. ms' \in [Objs -> Managed] /\ \A n \in Objs : MsAs(ms[n], ms'[n])
  <2>1. CASE ms' = ms
    BY <2>1 DEF TypeOK, MsAs
  <2>2. CASE LoopNextTurn(l)
    <3>1. ms[m].queued - 1 \in Nat
      BY <1>2, <2>2 DEF LoopNextTurn, Managed
    <3>2. ms' = [ms EXCEPT ![m] = [ms[m] EXCEPT !.queued = ms[m].queued - 1]]
      BY <2>2 DEF LoopNextTurn, TypeOK
    <3> QED BY <1>2, <3>1, <3>2, QueuedAs, OneAs
  <2>3. CASE LoopDone(l)
    <3> DEFINE y == [[ms[m] EXCEPT !.running = FALSE] EXCEPT !.dRunning = FALSE]
    <3>1. y \in Managed /\ MsAs(ms[m], y)
      BY <1>2, FlagAs, Zenon DEF MsAs
    <3>2. ms' = [ms EXCEPT ![m] = y]
      BY <2>3 DEF LoopDone, TypeOK
    <3> HIDE DEF y
    <3> QED BY <1>2, <3>1, <3>2, OneAs
  <2> QED BY <2>1, <2>2, <2>3
          DEF LoopStep, LoopEvents, LoopTerminal, LoopDriverError, LoopIdle
<1> QED BY <1>1, <1>4, <1>5, CalmMs

LEMMA CallMove ==
    ASSUME TypeOK, TurnInv, ReceiverInv, NEW p \in Publishers, CallHandler(p)
    PROVE  /\ Published /\ cl' = cl /\ MarksKept /\ BufKept
           /\ \/ Settled({}, {})
              \/ \E r \in Receivers : rcv[r].kind = "turn" /\ Settled({r}, {})
<1>1. PICK h \in pub[p].pend :
        \/ /\ h[2] = "tracker"
           /\ pub' = [pub EXCEPT ![p] = Remaining(p, pub[p].pend \ {h}, None)]
           /\ Becomes(doneTurn(Heap, h[1]))
        \/ /\ h[2] = "stream"
           /\ pub' = [pub EXCEPT ![p] = Remaining(p, pub[p].pend \ {h},
                                                  IF rcv[h[1]].closed THEN None ELSE h[1])]
           /\ Becomes(Heap)
    BY DEF CallHandler, TypeOK
<1>2. h \in Handler /\ h[1] \in Receivers /\ h = <<h[1], h[2]>>
    BY DEF TypeOK, Handler
<1>3. pub[p].pend \ {h} \in SUBSET pub[p].pend
    OBVIOUS
<1>4. CASE h[2] = "tracker"
  <2>1. <<h[1], "tracker">> \in pub[p].pend
    BY <1>2, <1>4
  <2>2. rcv[h[1]].kind = "turn" /\ rcv[h[1]].obj \in Objs
    BY <1>2, <2>1 DEF TurnInv, ReceiverInv
  <2>3. Published
    BY <1>1, <1>3, <1>4, RemainIs
  <2> QED BY <1>1, <1>2, <1>4, <2>2, <2>3, DoneSettled DEF CallHandler
<1>5. CASE h[2] = "stream"
  <2> DEFINE k == IF rcv[h[1]].closed THEN None ELSE h[1]
  <2>1. k \in Receivers \cup {None} /\ (k # None => <<k, "stream">> \in pub[p].pend)
    BY <1>2, <1>5
  <2>2. pub' = [pub EXCEPT ![p] = Remaining(p, pub[p].pend \ {h}, k)] /\ Becomes(Heap)
    BY <1>1, <1>5
  <2> HIDE DEF k
  <2>3. Published
    BY <1>3, <2>1, <2>2, RemainIs
  <2> QED BY <2>2, <2>3, HeapIs, SameIsCalm DEF Becomes, Calm, CallHandler
<1> QED BY <1>1, <1>4, <1>5

BufsFit == \A r \in Receivers : Len(rcv'[r].buf) <= BufCap

\* An event is put into the buffer of receiver r.
Put(g, r) ==
    /\ g \in HeapType /\ g.ms = ms /\ g.wg = wg
    /\ \A q \in Receivers :
         /\ g.rcv[q].kind = rcv[q].kind /\ g.rcv[q].obj = rcv[q].obj
         /\ g.rcv[q].hooks = rcv[q].hooks
         /\ g.rcv[q].closed <=> rcv[q].closed
         /\ g.rcv[q].done <=> rcv[q].done
         /\ g.rcv[q].returned <=> rcv[q].returned
         /\ Len(g.rcv[q].buf) <= BufCap

LEMMA WithBuf ==
    ASSUME TypeOK, NEW r \in Receivers, NEW b
    PROVE  [Heap EXCEPT !.rcv[r].buf = b]
             = [ms |-> ms, rcv |-> [rcv EXCEPT ![r] = [rcv[r] EXCEPT !.buf = b]], wg |-> wg]
<1>1. rcv \in [Receivers -> Receiver]
    BY DEF TypeOK
<1> QED BY <1>1 DEF Heap

LEMMA PutIs ==
    ASSUME TypeOK, NEW r \in Receivers, NEW e \in Event, Len(rcv[r].buf) < BufCap
    PROVE  Put([Heap EXCEPT !.rcv[r].buf = Append(@, e)], r)
<1> DEFINE y == [rcv[r] EXCEPT !.buf = Append(rcv[r].buf, e)]
           g == [Heap EXCEPT !.rcv[r].buf = Append(@, e)]
<1>1. rcv[r] \in Receiver /\ rcv \in [Receivers -> Receiver]
    BY DEF TypeOK
<1>2. rcv[r].buf \in Seq(Event)
    BY <1>1 DEF Receiver
<1>3. Append(rcv[r].buf, e) \in Seq(Event) /\ Len(Append(rcv[r].buf, e)) <= BufCap
    BY <1>2, ServiceAssumption
<1>4. /\ y \in Receiver /\ y.buf = Append(rcv[r].buf, e)
      /\ y.kind = rcv[r].kind /\ y.obj = rcv[r].obj /\ y.hooks = rcv[r].hooks
      /\ y.closed = rcv[r].closed /\ y.done = rcv[r].done /\ y.returned = rcv[r].returned
    BY <1>1, <1>3 DEF Receiver
<1>5. g = [ms |-> ms, rcv |-> [rcv EXCEPT ![r] = y], wg |-> wg]
  <2> DEFINE b == Append(rcv[r].buf, e)
  <2>1. g = [Heap EXCEPT !.rcv[r].buf = b]
    BY DEF Heap, TypeOK, Receiver
  <2> HIDE DEF b, g
  <2> QED BY <2>1, WithBuf DEF b
<1> HIDE DEF y, g
<1>6. g.ms = ms /\ g.wg = wg /\ g.rcv = [rcv EXCEPT ![r] = y]
    BY <1>5
<1>7. g \in HeapType
    BY <1>1, <1>4, <1>5 DEF HeapType, TypeOK
<1>8. \A q \in Receivers : g.rcv[q] = IF q = r THEN y ELSE rcv[q]
    BY <1>1, <1>6
<1>9. Put(g, r)
    BY <1>3, <1>4, <1>6, <1>7, <1>8 DEF Put, TypeOK
<1> QED BY <1>9 DEF g

LEMMA PushMove ==
    ASSUME TypeOK, TurnInv, ReceiverInv, NEW p \in Publishers, PushSends(p)
    PROVE  /\ Published /\ cl' = cl /\ MarksKept /\ BufsFit
           /\ pub[p].cur \in Receivers /\ rcv[pub[p].cur].kind # "free"
           /\ \/ Settled({}, {})
              \/ rcv[pub[p].cur].kind = "turn" /\ Settled({pub[p].cur}, {pub[p].cur})
<1> DEFINE r == pub[p].cur
           x == [Heap EXCEPT !.rcv[r].buf = Append(@, pub[p].event)]
<1>1. r \in Receivers /\ pub[p].event \in Event /\ Len(rcv[r].buf) < BufCap
    BY DEF PushSends, TypeOK
<1>2. rcv[r].kind # "free" /\ rcv[r].obj \in Objs
    BY <1>1, NoneIs DEF TurnInv, ReceiverInv
<1>3. Put(x, r)
    BY <1>1, PutIs
<1>4. Published /\ cl' = cl
  <2>1. pub' = [pub EXCEPT ![p] = Remaining(p, pub[p].pend, None)]
    BY DEF PushSends, TypeOK
  <2>2. cl' = cl
    BY DEF PushSends
  <2> QED BY <2>1, <2>2, RemainIs
<1>5. \/ Becomes(x)
      \/ rcv[r].kind = "turn" /\ Becomes(doneTurn(closeWithError(x, r), r))
    BY DEF PushSends
<1> HIDE DEF x
<1>6. CASE Becomes(x)
  <2>1. ms' = ms /\ wg' = wg /\ rcv' = x.rcv /\ rcv' \in [Receivers -> Receiver]
    BY <1>3, <1>6 DEF Becomes, Put, HeapType
  <2>2. Settled({}, {}) /\ MarksKept /\ BufsFit
    BY <1>3, <2>1 DEF Put, Settled, MarksKept, BufsFit, TypeOK, Cleared
  <2> QED BY <1>1, <1>2, <1>4, <2>2
<1>7. CASE rcv[r].kind = "turn" /\ Becomes(doneTurn(closeWithError(x, r), r))
  <2> DEFINE y == closeWithError(x, r)
             g == doneTurn(y, r)
  <2>1. y \in HeapType /\ Shut(x, y, r)
    BY <1>1, <1>2, <1>3, ShutIs DEF Put
  <2>2. y.rcv[r].obj \in Objs
    BY <1>1, <1>2, <1>3, <2>1 DEF Put, Shut
  <2>3. g \in HeapType /\ Done(y, g, r)
    BY <1>1, <2>1, <2>2, DoneIs
  <2>4. ms' = g.ms /\ rcv' = g.rcv /\ wg' = g.wg
    BY <1>7 DEF Becomes
  <2>5. ms' \in [Objs -> Managed] /\ rcv' \in [Receivers -> Receiver] /\ wg' \in Int
    BY <2>3, <2>4 DEF HeapType
  <2> HIDE DEF g, y
  <2>6. \A q \in Receivers :
         /\ y.rcv[q].kind = rcv[q].kind /\ y.rcv[q].obj = rcv[q].obj
         /\ Len(y.rcv[q].buf) <= BufCap
         /\ y.rcv[q].done <=> rcv[q].done
         /\ y.rcv[q].closed <=> (rcv[q].closed \/ q = r)
         /\ y.rcv[q].returned <=> rcv[q].returned
         /\ q # r => y.rcv[q].hooks = rcv[q].hooks
    BY <1>3, <2>1 DEF Put, Shut
  <2>7. \A q \in Receivers :
         /\ rcv'[q].kind = rcv[q].kind /\ rcv'[q].obj = rcv[q].obj
         /\ Len(rcv'[q].buf) <= BufCap
         /\ rcv'[q].done <=> (rcv[q].done \/ q = r)
         /\ rcv'[q].closed <=> (rcv[q].closed \/ q = r)
         /\ rcv'[q].returned <=> rcv[q].returned
         /\ q # r => rcv'[q].hooks = rcv[q].hooks
    BY <2>3, <2>4, <2>6 DEF Done
  <2>8. \A m \in Objs :
         /\ y.ms[m].destroyed <=> ms[m].destroyed
         /\ y.ms[m].exited <=> ms[m].exited
         /\ y.ms[m].turnDone = ms[m].turnDone
         /\ y.ms[m].subs \subseteq ms[m].subs
         /\ y.ms[m].streams \subseteq ms[m].streams
         /\ \A q \in ms[m].streams : q \in y.ms[m].streams \/ q = r
    BY <2>1, <1>3 DEF Put, Shut
  <2>9. ~rcv[r].closed =>
         /\ "unsub" \in rcv[r].hooks => y.ms[rcv[r].obj].subs \cap HandlersOf(r) = {}
         /\ "remove" \in rcv[r].hooks => r \notin y.ms[rcv[r].obj].streams
    BY <1>1, <1>2, <1>3, <2>1, ZenonT(30) DEF Put, Shut
  <2>10. \A m \in Objs :
         /\ ms'[m].destroyed <=> y.ms[m].destroyed
         /\ ms'[m].exited <=> y.ms[m].exited
         /\ ms'[m].turnDone \in {y.ms[m].turnDone, None}
         /\ ms'[m].subs = y.ms[m].subs /\ ms'[m].streams = y.ms[m].streams
    BY <2>3, <2>4 DEF Done
  <2>11. wg' = IF rcv[r].done THEN wg ELSE wg - 1
    <3>1. y.wg = wg /\ (y.rcv[r].done <=> rcv[r].done)
      BY <1>1, <1>3, <2>1, <2>6 DEF Put, Shut
    <3> QED BY <2>3, <2>4, <3>1 DEF Done
  <2>14. Cleared({r})
    <3>1. \A m \in Objs : m # y.rcv[r].obj \/ y.rcv[r].done => ms'[m].turnDone = y.ms[m].turnDone
      BY <2>3, <2>4 DEF Done
    <3> QED BY <1>1, <2>6, <2>8, <3>1 DEF Cleared
  <2>12. Settled({r}, {r})
    BY <2>14, <1>1, <1>2, <2>5, <2>7, <2>8, <2>9, <2>10, <2>11 DEF Settled
  <2>13. MarksKept /\ BufsFit
    BY <2>7, <2>8, <2>10 DEF MarksKept, BufsFit
  <2> QED BY <1>1, <1>2, <1>4, <1>7, <2>12, <2>13
<1> QED BY <1>5, <1>6, <1>7

LEMMA GiveUpMove ==
    ASSUME TypeOK, NEW p \in Publishers, PushGivesUp(p)
    PROVE  Published /\ cl' = cl /\ Calm
<1>1. pub' = [pub EXCEPT ![p] = Remaining(p, pub[p].pend, None)]
    BY DEF PushGivesUp, TypeOK
<1> QED BY <1>1, RemainIs, SameIsCalm DEF PushGivesUp

LEMMA RecvMove ==
    ASSUME TypeOK, NEW r \in Receivers, Recv(r)
    PROVE  Published /\ cl' = cl /\ Settled({}, {}) /\ MarksKept /\ BufsFit
<1> DEFINE y == [rcv[r] EXCEPT !.buf = Tail(rcv[r].buf)]
<1>1. rcv[r] \in Receiver /\ rcv[r].buf # <<>> /\ Published /\ cl' = cl /\ ms' = ms /\ wg' = wg
    BY SamePublished DEF TypeOK, Recv
<1>2. rcv[r].buf \in Seq(Event) /\ Len(rcv[r].buf) <= BufCap
    BY <1>1 DEF Receiver, TypeOK
<1>3. Tail(rcv[r].buf) \in Seq(Event) /\ Len(Tail(rcv[r].buf)) <= BufCap
    BY <1>1, <1>2, ServiceAssumption
<1>4. /\ y \in Receiver /\ y.buf = Tail(rcv[r].buf)
      /\ y.kind = rcv[r].kind /\ y.obj = rcv[r].obj /\ y.hooks = rcv[r].hooks
      /\ y.closed = rcv[r].closed /\ y.done = rcv[r].done /\ y.returned = rcv[r].returned
    BY <1>1, <1>3 DEF Receiver
<1>5. rcv' = [rcv EXCEPT ![r] = y]
    BY DEF Recv, TypeOK
<1> HIDE DEF y
<1>6. rcv' \in [Receivers -> Receiver] /\ \A q \in Receivers : rcv'[q] = IF q = r THEN y ELSE rcv[q]
    BY <1>4, <1>5 DEF TypeOK
<1> QED BY <1>1, <1>3, <1>4, <1>6 DEF Settled, MarksKept, BufsFit, TypeOK, Cleared

LEMMA CloseReceiverMove ==
    ASSUME TypeOK, ReceiverInv, NEW r \in Receivers, CloseReceiver(r)
    PROVE  /\ Published /\ cl' = cl /\ rcv[r].returned /\ rcv[r].kind # "free"
           /\ Settled({}, {r}) /\ MarksKept /\ BufKept
<1>1. rcv[r].returned /\ Becomes(closeWithError(Heap, r)) /\ cl' = cl /\ pub' = pub
    BY DEF CloseReceiver
<1>2. rcv[r].kind # "free" /\ rcv[r].obj \in Objs
    BY <1>1 DEF ReceiverInv
<1> QED BY <1>1, <1>2, ShutSettled, SamePublished

-----------------------------------------------------------------------------
(* The set-up of a receiver *)

Rivals(m) == {q \in OpenTurns : rcv[q].obj = m}

\* A new turn r is the one that its session remembers, and the open ones of
\* the session are overlapped with it.
Opened(c, r) ==
    /\ cl[c].op # "events" => ms'[cl[c].obj].turnDone = r
    /\ \A m \in Objs : m # cl[c].obj \/ cl[c].op = "events" => ms'[m].turnDone = ms[m].turnDone
    /\ overlapped' = IF cl[c].op = "events" \/ Rivals(cl[c].obj) = {} THEN overlapped
                     ELSE overlapped \cup Rivals(cl[c].obj) \cup {r}

\* The free receiver r is made for client c's session; a turn is counted.
Made(c, r) ==
    /\ cl[c].pc \in {"track", "events"} /\ rcv[r].kind = "free"
    /\ Moved(c, "stream", cl[c].op, cl[c].obj, r)
    /\ ms' \in [Objs -> Managed] /\ rcv' \in [Receivers -> Receiver] /\ wg' \in Int
    /\ \A q \in Receivers : q # r => rcv'[q] = rcv[q]
    /\ rcv'[r].kind = IF cl[c].op = "events" THEN "events" ELSE "turn"
    /\ rcv'[r].obj = cl[c].obj /\ rcv'[r].hooks = rcv[r].hooks
    /\ rcv'[r].closed <=> rcv[r].closed
    /\ rcv'[r].done <=> rcv[r].done
    /\ rcv'[r].returned <=> rcv[r].returned
    /\ \A m \in Objs :
         /\ ms'[m].streams = ms[m].streams
         /\ ms'[m].destroyed <=> ms[m].destroyed
         /\ ms'[m].exited <=> ms[m].exited
         /\ \A h \in ms'[m].subs :
              \/ h \in ms[m].subs
              \/ m = cl[c].obj /\ cl[c].op # "events" /\ h = <<r, "tracker">>
         /\ \/ ms'[m].turnDone = ms[m].turnDone
            \/ cl[c].op # "events" /\ ms'[m].turnDone = r
    /\ wg' = IF cl[c].op = "events" THEN wg ELSE wg + 1
    /\ pub' = pub
    /\ Opened(c, r)

LEMMA EventsMove ==
    ASSUME TypeOK, ClientInv, NEW c \in Clients, NewEventsReceiver(c)
    PROVE  BufsFit /\ \E r \in Receivers : Made(c, r)
<1>1. PICK r \in Receivers :
        /\ rcv[r].kind = "free"
        /\ rcv' = [rcv EXCEPT ![r].kind = "events", ![r].obj = cl[c].obj, ![r].buf = <<"info">>]
        /\ cl' = [cl EXCEPT ![c].pc = "stream", ![c].rcv = r]
    BY DEF NewEventsReceiver
<1>2. /\ cl[c].pc = "events" /\ cl[c].op = "events" /\ cl[c].obj \in Objs /\ "stream" \in ClientPC
      /\ cl[c] \in Client /\ rcv[r] \in Receiver
    BY DEF NewEventsReceiver, ClientInv, ClientOK, TypeOK, ClientPC
<1> DEFINE x == [cl[c] EXCEPT !.pc = "stream", !.rcv = r]
           y == [rcv[r] EXCEPT !.kind = "events", !.obj = cl[c].obj, !.buf = <<"info">>]
<1>3. x \in Client /\ x.pc = "stream" /\ x.rcv = r /\ x.op = cl[c].op /\ x.obj = cl[c].obj
    BY <1>2 DEF Client
<1>4. <<"info">> \in Seq(Event) /\ Len(<<"info">>) <= BufCap
    BY ServiceAssumption DEF Event
<1>5. /\ y \in Receiver /\ y.kind = "events" /\ y.obj = cl[c].obj /\ y.buf = <<"info">>
      /\ y.hooks = rcv[r].hooks /\ y.closed = rcv[r].closed /\ y.done = rcv[r].done
      /\ y.returned = rcv[r].returned
    BY <1>2, <1>4 DEF Receiver
<1>6. cl' = [cl EXCEPT ![c] = x] /\ rcv' = [rcv EXCEPT ![r] = y]
    BY <1>1 DEF TypeOK
<1> HIDE DEF x, y
<1>7. Moved(c, "stream", cl[c].op, cl[c].obj, r)
    BY <1>3, <1>6 DEF Moved, TypeOK
<1>8. rcv' \in [Receivers -> Receiver] /\ \A q \in Receivers : rcv'[q] = IF q = r THEN y ELSE rcv[q]
    BY <1>5, <1>6 DEF TypeOK
<1>9. ms' = ms /\ wg' = wg /\ pub' = pub /\ ms \in [Objs -> Managed] /\ wg \in Int
    BY DEF NewEventsReceiver, TypeOK
<1>10. BufsFit
    BY <1>4, <1>5, <1>8 DEF BufsFit, TypeOK
<1>12. Opened(c, r)
    BY <1>2, <1>9 DEF Opened, NewEventsReceiver
<1>11. Made(c, r)
    BY <1>1, <1>2, <1>5, <1>7, <1>8, <1>9, <1>12 DEF Made
<1> QED BY <1>10, <1>11

\* An entry is added to the bus of session m, unless the bus is closed.
Joined(h, g, m, e) ==
    /\ g \in HeapType /\ g.rcv = h.rcv /\ g.wg = h.wg
    /\ \A n \in Objs :
         /\ g.ms[n].streams = h.ms[n].streams /\ g.ms[n].turnDone = h.ms[n].turnDone
         /\ g.ms[n].destroyed <=> h.ms[n].destroyed
         /\ g.ms[n].exited <=> h.ms[n].exited
         /\ \A k \in g.ms[n].subs : k \in h.ms[n].subs \/ (n = m /\ k = e)

LEMMA JoinIs ==
    ASSUME NEW h \in HeapType, NEW m \in Objs, NEW e \in Handler
    PROVE  Joined(h, subscribe(h, m, e), m, e)
<1>1. h.ms \in [Objs -> Managed] /\ h.rcv \in [Receivers -> Receiver] /\ h.wg \in Int
    BY DEF HeapType
<1>2. CASE h.ms[m].busClosed
    BY <1>1, <1>2 DEF subscribe, Joined
<1>3. CASE ~h.ms[m].busClosed
  <2> DEFINE S == h.ms[m].subs \cup {e}
             y == [h.ms[m] EXCEPT !.subs = S]
             g == subscribe(h, m, e)
  <2>1. h.ms[m] \in Managed /\ S \in SUBSET Handler
    BY <1>1 DEF Managed
  <2>2. g = [h EXCEPT !.ms[m].subs = S]
    BY <1>3 DEF subscribe
  <2> HIDE DEF S, g
  <2>3. /\ y \in Managed /\ y.subs = S /\ y.streams = h.ms[m].streams /\ y.turnDone = h.ms[m].turnDone
        /\ y.destroyed = h.ms[m].destroyed /\ y.exited = h.ms[m].exited
    BY <2>1 DEF Managed
  <2>4. g.ms = [h.ms EXCEPT ![m] = y] /\ g.rcv = h.rcv /\ g.wg = h.wg /\ g = [ms |-> g.ms, rcv |-> g.rcv, wg |-> g.wg]
    BY <1>1, <2>2 DEF HeapType
  <2> HIDE DEF y
  <2>5. g \in HeapType
    BY <1>1, <2>3, <2>4 DEF HeapType
  <2>6. \A n \in Objs : g.ms[n] = IF n = m THEN y ELSE h.ms[n]
    BY <1>1, <2>4
  <2> QED BY <2>3, <2>4, <2>5, <2>6 DEF Joined, S, g
<1> QED BY <1>2, <1>3

LEMMA TurnMove ==
    ASSUME TypeOK, ClientInv, NEW c \in Clients, NewTurnScopedReceiver(c)
    PROVE  BufsFit /\ \E r \in Receivers : Made(c, r)
<1> DEFINE m == cl[c].obj
<1>1. PICK r \in Receivers :
        /\ rcv[r].kind = "free"
        /\ Becomes(subscribe([Heap EXCEPT !.wg = @ + 1, !.ms[m].turnDone = r,
                                 !.rcv[r].kind = "turn", !.rcv[r].obj = m], m, <<r, "tracker">>))
        /\ overlapped' = IF Rivals(m) = {} THEN overlapped ELSE overlapped \cup Rivals(m) \cup {r}
        /\ cl' = [cl EXCEPT ![c].pc = "stream", ![c].rcv = r]
    BY Zenon DEF NewTurnScopedReceiver, Rivals
<1>2. /\ cl[c].pc = "track" /\ cl[c].op # "events" /\ m \in Objs /\ "stream" \in ClientPC
      /\ cl[c] \in Client /\ rcv[r] \in Receiver /\ ms[m] \in Managed
    BY DEF NewTurnScopedReceiver, ClientInv, ClientOK, TypeOK, ClientPC
<1> DEFINE x == [cl[c] EXCEPT !.pc = "stream", !.rcv = r]
           y == [rcv[r] EXCEPT !.kind = "turn", !.obj = m]
           z == [ms[m] EXCEPT !.turnDone = r]
           h == [Heap EXCEPT !.wg = @ + 1, !.ms[m].turnDone = r, !.rcv[r].kind = "turn", !.rcv[r].obj = m]
           g == subscribe(h, m, <<r, "tracker">>)
<1>3. x \in Client /\ x.pc = "stream" /\ x.rcv = r /\ x.op = cl[c].op /\ x.obj = cl[c].obj
    BY <1>2 DEF Client
<1>4. /\ y \in Receiver /\ y.kind = "turn" /\ y.obj = cl[c].obj /\ y.buf = rcv[r].buf
      /\ y.hooks = rcv[r].hooks /\ y.closed = rcv[r].closed /\ y.done = rcv[r].done
      /\ y.returned = rcv[r].returned
    BY <1>2 DEF Receiver
<1>5. /\ z \in Managed /\ z.turnDone = r /\ z.subs = ms[m].subs /\ z.streams = ms[m].streams
      /\ z.destroyed = ms[m].destroyed /\ z.exited = ms[m].exited
    BY <1>2 DEF Managed
<1>7. cl' = [cl EXCEPT ![c] = x]
    BY <1>1 DEF TypeOK
<1>8. ms' = g.ms /\ rcv' = g.rcv /\ wg' = g.wg
    BY <1>1 DEF Becomes
<1>19. /\ h = [Heap EXCEPT !.wg = @ + 1, !.ms[m].turnDone = r, !.rcv[r].kind = "turn", !.rcv[r].obj = m]
       /\ y = [rcv[r] EXCEPT !.kind = "turn", !.obj = m] /\ z = [ms[m] EXCEPT !.turnDone = r]
    OBVIOUS
<1> HIDE DEF x, y, z, h
<1>6. h \in HeapType /\ h.wg = wg + 1 /\ h.ms = [ms EXCEPT ![m] = z] /\ h.rcv = [rcv EXCEPT ![r] = y]
  <2>1. h.wg = wg + 1
    BY <1>19 DEF Heap
  <2>2. h.ms = [ms EXCEPT ![m] = z]
    <3>1. h.ms = [ms EXCEPT ![m].turnDone = r]
      BY <1>19 DEF Heap
    <3> QED BY <1>2, <1>19, <3>1 DEF TypeOK
  <2>3. h.rcv = [rcv EXCEPT ![r] = y]
    <3>1. h.rcv = [rcv EXCEPT ![r].kind = "turn", ![r].obj = m]
      BY <1>19 DEF Heap
    <3> QED BY <1>2, <1>19, <3>1 DEF TypeOK, Receiver
  <2>4. h = [Heap EXCEPT !.wg = Heap.wg + 1, !.ms = [Heap.ms EXCEPT ![m].turnDone = r],
                         !.rcv = [Heap.rcv EXCEPT ![r].kind = "turn", ![r].obj = m]]
    BY <1>2, <1>19, HeapIs DEF HeapType
  <2> DEFINE u == Heap.wg + 1
             v == [Heap.ms EXCEPT ![m].turnDone = r]
             w == [Heap.rcv EXCEPT ![r].kind = "turn", ![r].obj = m]
  <2>5. u \in Int /\ v = [ms EXCEPT ![m] = z] /\ w = [rcv EXCEPT ![r] = y]
    <3>1. u \in Int
      BY HeapIs DEF HeapType
    <3>2. v = [ms EXCEPT ![m].turnDone = r] /\ w = [rcv EXCEPT ![r].kind = "turn", ![r].obj = m]
      BY HeapIs
    <3> HIDE DEF u, v, w
    <3> QED BY <1>2, <1>19, <3>1, <3>2 DEF TypeOK, Receiver
  <2>6. v \in [Objs -> Managed] /\ w \in [Receivers -> Receiver]
    BY <1>2, <1>4, <1>5, <2>5, ZenonT(30) DEF TypeOK
  <2>7. h = [Heap EXCEPT !.wg = u, !.ms = v, !.rcv = w]
    BY <2>4
  <2> HIDE DEF u, v, w
  <2>8. h \in HeapType
    BY <2>5, <2>6, <2>7, HeapIs DEF HeapType
  <2> QED BY <2>1, <2>2, <2>3, <2>8
<1>9. h \in HeapType /\ h.wg = wg + 1
    BY <1>6
<1>10. (\A q \in Receivers : h.rcv[q] = IF q = r THEN y ELSE rcv[q]) /\ (\A n \in Objs : h.ms[n] = IF n = m THEN z ELSE ms[n])
    BY <1>6 DEF TypeOK
<1>11. <<r, "tracker">> \in Handler
    BY DEF Handler
<1>12. Joined(h, g, m, <<r, "tracker">>)
    BY <1>2, <1>9, <1>11, JoinIs
<1> HIDE DEF g
<1>13. Moved(c, "stream", cl[c].op, cl[c].obj, r)
    BY <1>3, <1>7 DEF Moved, TypeOK
<1>14. /\ rcv' \in [Receivers -> Receiver] /\ ms' \in [Objs -> Managed] /\ wg' = wg + 1 /\ wg' \in Int
       /\ \A q \in Receivers : rcv'[q] = IF q = r THEN y ELSE rcv[q]
    BY <1>8, <1>9, <1>10, <1>12 DEF Joined, HeapType
<1>15. \A n \in Objs :
         /\ ms'[n].streams = ms[n].streams /\ ms'[n].turnDone \in {ms[n].turnDone, r}
         /\ ms'[n].destroyed <=> ms[n].destroyed
         /\ ms'[n].exited <=> ms[n].exited
         /\ \A k \in ms'[n].subs : k \in ms[n].subs \/ (n = m /\ k = <<r, "tracker">>)
    BY <1>5, <1>8, <1>10, <1>12 DEF Joined
<1>16. pub' = pub
    BY DEF NewTurnScopedReceiver
<1>20. Opened(c, r)
  <2>1. \A n \in Objs : ms'[n].turnDone = IF n = m THEN r ELSE ms[n].turnDone
    BY <1>5, <1>8, <1>10, <1>12 DEF Joined
  <2> QED BY <1>1, <1>2, <2>1 DEF Opened
<1>17. BufsFit
    BY <1>4, <1>14 DEF BufsFit, TypeOK
<1>18. Made(c, r)
    BY <1>1, <1>2, <1>4, <1>13, <1>14, <1>15, <1>16, <1>20 DEF Made
<1> QED BY <1>17, <1>18

\* The stream handler of client c's receiver is on the bus.
Subscribed(c) ==
    /\ cl[c].pc = "stream" /\ Went(c, "hook")
    /\ ms' \in [Objs -> Managed] /\ rcv' = rcv /\ wg' = wg /\ pub' = pub
    /\ \A m \in Objs :
         /\ ms'[m].streams = ms[m].streams /\ ms'[m].turnDone = ms[m].turnDone
         /\ ms'[m].destroyed <=> ms[m].destroyed
         /\ ms'[m].exited <=> ms[m].exited
         /\ \A h \in ms'[m].subs : h \in ms[m].subs \/ (m = cl[c].obj /\ h = <<cl[c].rcv, "stream">>)

LEMMA SubscribeMove ==
    ASSUME TypeOK, ClientInv, NEW c \in Clients, SubscribeStream(c)
    PROVE  Subscribed(c)
<1>1. /\ cl[c].pc = "stream" /\ cl[c].obj \in Objs /\ "hook" \in ClientPC /\ cl[c].rcv \in Receivers
      /\ pub' = pub /\ Goto(c, "hook")
    BY DEF SubscribeStream, ClientInv, ClientOK, Holding, SettingUp, TypeOK, Client, ClientPC
<1> DEFINE g == subscribe(Heap, cl[c].obj, <<cl[c].rcv, "stream">>)
<1>2. <<cl[c].rcv, "stream">> \in Handler
    BY <1>1 DEF Handler
<1>3. Joined(Heap, g, cl[c].obj, <<cl[c].rcv, "stream">>)
    BY <1>1, <1>2, HeapIs, JoinIs
<1>4. ms' = g.ms /\ rcv' = g.rcv /\ wg' = g.wg
    BY DEF SubscribeStream, Becomes
<1> HIDE DEF g
<1>5. Went(c, "hook")
    BY <1>1, WentIs
<1> QED BY <1>1, <1>3, <1>4, <1>5, HeapIs DEF Joined, HeapType, Subscribed

\* The hook of client c's receiver is set, or run if the receiver is closed.
Hooked(c) ==
    LET r == cl[c].rcv IN
    /\ cl[c].pc = "hook" /\ Went(c, "add")
    /\ ms' \in [Objs -> Managed] /\ rcv' \in [Receivers -> Receiver] /\ wg' = wg /\ pub' = pub
    /\ \A q \in Receivers :
         /\ rcv'[q].kind = rcv[q].kind /\ rcv'[q].obj = rcv[q].obj /\ rcv'[q].buf = rcv[q].buf
         /\ rcv'[q].closed <=> rcv[q].closed
         /\ rcv'[q].done <=> rcv[q].done
         /\ rcv'[q].returned <=> rcv[q].returned
         /\ q # r => rcv'[q].hooks = rcv[q].hooks
    /\ ~rcv[r].closed => "unsub" \in rcv'[r].hooks
    /\ \A m \in Objs :
         /\ ms'[m].streams = ms[m].streams /\ ms'[m].turnDone = ms[m].turnDone
         /\ ms'[m].destroyed <=> ms[m].destroyed
         /\ ms'[m].exited <=> ms[m].exited
         /\ ms'[m].subs \subseteq ms[m].subs
         /\ rcv[r].closed /\ m = rcv[r].obj => ms'[m].subs \cap HandlersOf(r) = {}

LEMMA WithHooks ==
    ASSUME TypeOK, NEW r \in Receivers, NEW k \in SUBSET {"unsub", "remove"},
           rcv' = [rcv EXCEPT ![r].hooks = k]
    PROVE  /\ rcv' \in [Receivers -> Receiver] /\ rcv'[r].hooks = k
           /\ \A q \in Receivers :
               /\ rcv'[q].kind = rcv[q].kind /\ rcv'[q].obj = rcv[q].obj /\ rcv'[q].buf = rcv[q].buf
               /\ rcv'[q].closed <=> rcv[q].closed
               /\ rcv'[q].done <=> rcv[q].done
               /\ rcv'[q].returned <=> rcv[q].returned
               /\ q # r => rcv'[q].hooks = rcv[q].hooks
<1> DEFINE y == [rcv[r] EXCEPT !.hooks = k]
<1>1. rcv[r] \in Receiver
    BY DEF TypeOK
<1>2. /\ y \in Receiver /\ y.hooks = k /\ y.kind = rcv[r].kind /\ y.obj = rcv[r].obj
      /\ y.buf = rcv[r].buf /\ y.closed = rcv[r].closed /\ y.done = rcv[r].done
      /\ y.returned = rcv[r].returned
    BY <1>1 DEF Receiver
<1>3. rcv' = [rcv EXCEPT ![r] = y]
    BY DEF TypeOK
<1> HIDE DEF y
<1>4. rcv' \in [Receivers -> Receiver] /\ \A q \in Receivers : rcv'[q] = IF q = r THEN y ELSE rcv[q]
    BY <1>2, <1>3 DEF TypeOK
<1> QED BY <1>2, <1>4

LEMMA HookMove ==
    ASSUME TypeOK, ClientInv, NEW c \in Clients, HookUnsubscribe(c)
    PROVE  Hooked(c)
<1> DEFINE r == cl[c].rcv
<1>1. /\ cl[c].pc = "hook" /\ cl[c].obj \in Objs /\ "add" \in ClientPC /\ r \in Receivers
      /\ rcv[r].obj \in Objs /\ pub' = pub /\ Goto(c, "add")
    BY DEF HookUnsubscribe, ClientInv, ClientOK, Holding, SettingUp, TypeOK, Client, ClientPC
<1>2. Went(c, "add")
    BY <1>1, WentIs
<1>3. Becomes(setCloseHook(Heap, r, "unsub"))
    BY DEF HookUnsubscribe
<1>4. CASE rcv[r].closed
  <2> DEFINE g == RunHooks(Heap, r, {"unsub"})
  <2>1. ms' = g.ms /\ rcv' = g.rcv /\ wg' = g.wg
    BY <1>3, <1>4, HeapIs DEF setCloseHook, Becomes
  <2>2. g \in HeapType /\ Ran(Heap, g, r, {"unsub"})
    BY <1>1, HeapIs, RanIs
  <2> HIDE DEF g
  <2>3. rcv' = rcv /\ wg' = wg /\ ms' \in [Objs -> Managed]
    BY <2>1, <2>2, HeapIs DEF Ran, HeapType
  <2>4. \A m \in Objs :
         /\ ms'[m].streams = ms[m].streams /\ ms'[m].turnDone = ms[m].turnDone
         /\ ms'[m].destroyed <=> ms[m].destroyed
         /\ ms'[m].exited <=> ms[m].exited
         /\ ms'[m].subs = IF m = rcv[r].obj THEN ms[m].subs \ HandlersOf(r) ELSE ms[m].subs
    BY <2>1, <2>2, HeapIs DEF Ran
  <2> QED BY <1>1, <1>2, <1>4, <2>3, <2>4 DEF Hooked, TypeOK
<1>5. CASE ~rcv[r].closed
  <2> DEFINE k == rcv[r].hooks \cup {"unsub"}
  <2>1. setCloseHook(Heap, r, "unsub") = [Heap EXCEPT !.rcv[r].hooks = k]
    BY <1>1, <1>5, HeapIs DEF setCloseHook
  <2>2. k \in SUBSET {"unsub", "remove"} /\ "unsub" \in k
    BY <1>1 DEF TypeOK, Receiver
  <2> HIDE DEF k
  <2>3. ms' = ms /\ wg' = wg /\ rcv' = [rcv EXCEPT ![r].hooks = k]
    BY <1>3, <2>1 DEF Becomes, Heap
  <2>4. /\ rcv' \in [Receivers -> Receiver] /\ rcv'[r].hooks = k
        /\ \A q \in Receivers :
               /\ rcv'[q].kind = rcv[q].kind /\ rcv'[q].obj = rcv[q].obj /\ rcv'[q].buf = rcv[q].buf
               /\ rcv'[q].closed <=> rcv[q].closed
               /\ rcv'[q].done <=> rcv[q].done
               /\ rcv'[q].returned <=> rcv[q].returned
               /\ q # r => rcv'[q].hooks = rcv[q].hooks
    BY <1>1, <2>2, <2>3, WithHooks
  <2> QED BY <1>1, <1>2, <1>5, <2>2, <2>3, <2>4 DEF Hooked, TypeOK
<1> QED BY <1>4, <1>5

\* Client c's receiver joins its session's stream set, unless it is closed;
\* SubscribeEvents returns it.
Added(c) ==
    LET r == cl[c].rcv IN
    /\ cl[c].pc = "add" /\ ((Back(c) /\ cl[c].op = "events") \/ (Went(c, "start") /\ cl[c].op # "events"))
    /\ ms' \in [Objs -> Managed] /\ rcv' \in [Receivers -> Receiver] /\ wg' = wg /\ pub' = pub
    /\ \A q \in Receivers :
         /\ rcv'[q].kind = rcv[q].kind /\ rcv'[q].obj = rcv[q].obj /\ rcv'[q].buf = rcv[q].buf
         /\ rcv'[q].closed <=> rcv[q].closed
         /\ rcv'[q].done <=> rcv[q].done
         /\ rcv'[q].returned <=> (rcv[q].returned \/ (q = r /\ cl[c].op = "events"))
         /\ rcv[q].hooks \subseteq rcv'[q].hooks /\ (q # r => rcv'[q].hooks = rcv[q].hooks)
    /\ \A m \in Objs :
         /\ ms'[m].subs = ms[m].subs /\ ms'[m].turnDone = ms[m].turnDone
         /\ ms'[m].destroyed <=> ms[m].destroyed
         /\ ms'[m].exited <=> ms[m].exited
         /\ m # cl[c].obj => ms'[m].streams = ms[m].streams
    /\ rcv[r].closed => ms'[cl[c].obj].streams = ms[cl[c].obj].streams
    /\ ~rcv[r].closed => /\ ms'[cl[c].obj].streams = ms[cl[c].obj].streams \cup {r}
                         /\ "remove" \in rcv'[r].hooks

\* The heap after addStream, before the stream is returned.
Entered(g, c) ==
    LET r == cl[c].rcv IN
    /\ g \in HeapType /\ g.wg = wg
    /\ \A q \in Receivers :
         /\ g.rcv[q].kind = rcv[q].kind /\ g.rcv[q].obj = rcv[q].obj /\ g.rcv[q].buf = rcv[q].buf
         /\ g.rcv[q].closed <=> rcv[q].closed
         /\ g.rcv[q].done <=> rcv[q].done
         /\ g.rcv[q].returned <=> rcv[q].returned
         /\ rcv[q].hooks \subseteq g.rcv[q].hooks /\ (q # r => g.rcv[q].hooks = rcv[q].hooks)
    /\ \A m \in Objs :
         /\ g.ms[m].subs = ms[m].subs /\ g.ms[m].turnDone = ms[m].turnDone
         /\ g.ms[m].destroyed <=> ms[m].destroyed
         /\ g.ms[m].exited <=> ms[m].exited
         /\ m # cl[c].obj => g.ms[m].streams = ms[m].streams
    /\ rcv[r].closed => g.ms[cl[c].obj].streams = ms[cl[c].obj].streams
    /\ ~rcv[r].closed => /\ g.ms[cl[c].obj].streams = ms[cl[c].obj].streams \cup {r}
                         /\ "remove" \in g.rcv[r].hooks

\* The stream set of session m is replaced.
StreamsSet(h, g, m, S) ==
    /\ g \in HeapType /\ g.rcv = h.rcv /\ g.wg = h.wg
    /\ \A n \in Objs :
         /\ g.ms[n].streams = IF n = m THEN S ELSE h.ms[n].streams
         /\ g.ms[n].subs = h.ms[n].subs /\ g.ms[n].turnDone = h.ms[n].turnDone
         /\ g.ms[n].destroyed <=> h.ms[n].destroyed
         /\ g.ms[n].exited <=> h.ms[n].exited

LEMMA HeapStreams ==
    ASSUME NEW h \in HeapType, NEW m \in Objs, NEW S \in SUBSET Receivers
    PROVE  StreamsSet(h, [h EXCEPT !.ms[m].streams = S], m, S)
<1> DEFINE y == [h.ms[m] EXCEPT !.streams = S]
           g == [h EXCEPT !.ms[m].streams = S]
<1>1. h.ms \in [Objs -> Managed] /\ h.rcv \in [Receivers -> Receiver] /\ h.wg \in Int /\ h.ms[m] \in Managed
    BY DEF HeapType
<1>2. /\ y \in Managed /\ y.streams = S /\ y.subs = h.ms[m].subs /\ y.turnDone = h.ms[m].turnDone
      /\ y.destroyed = h.ms[m].destroyed /\ y.exited = h.ms[m].exited
    BY <1>1 DEF Managed
<1>3. g.ms = [h.ms EXCEPT ![m] = y] /\ g.rcv = h.rcv /\ g.wg = h.wg /\ g = [ms |-> g.ms, rcv |-> g.rcv, wg |-> g.wg]
    BY <1>1 DEF HeapType
<1> HIDE DEF y, g
<1>4. g \in HeapType
    BY <1>1, <1>2, <1>3 DEF HeapType
<1>5. \A n \in Objs : g.ms[n] = IF n = m THEN y ELSE h.ms[n]
    BY <1>1, <1>3
<1>6. \A n \in Objs :
        /\ g.ms[n].streams = IF n = m THEN S ELSE h.ms[n].streams
        /\ g.ms[n].subs = h.ms[n].subs /\ g.ms[n].turnDone = h.ms[n].turnDone
        /\ g.ms[n].destroyed <=> h.ms[n].destroyed
        /\ g.ms[n].exited <=> h.ms[n].exited
    BY <1>2, <1>5
<1>7. StreamsSet(h, g, m, S)
    BY <1>3, <1>4, <1>6 DEF StreamsSet
<1> QED BY <1>7 DEF g

\* The hooks of receiver r are replaced.
HooksSet(h, g, r, k) ==
    /\ g \in HeapType /\ g.ms = h.ms /\ g.wg = h.wg /\ g.rcv[r].hooks = k
    /\ \A q \in Receivers :
         /\ g.rcv[q].kind = h.rcv[q].kind /\ g.rcv[q].obj = h.rcv[q].obj
         /\ g.rcv[q].buf = h.rcv[q].buf
         /\ g.rcv[q].closed <=> h.rcv[q].closed
         /\ g.rcv[q].done <=> h.rcv[q].done
         /\ g.rcv[q].returned <=> h.rcv[q].returned
         /\ q # r => g.rcv[q].hooks = h.rcv[q].hooks

LEMMA HeapHooks ==
    ASSUME NEW h \in HeapType, NEW r \in Receivers, NEW k \in SUBSET {"unsub", "remove"}
    PROVE  HooksSet(h, [h EXCEPT !.rcv[r].hooks = k], r, k)
<1> DEFINE y == [h.rcv[r] EXCEPT !.hooks = k]
           g == [h EXCEPT !.rcv[r].hooks = k]
<1>1. h.ms \in [Objs -> Managed] /\ h.rcv \in [Receivers -> Receiver] /\ h.wg \in Int /\ h.rcv[r] \in Receiver
    BY DEF HeapType
<1>2. /\ y \in Receiver /\ y.hooks = k /\ y.kind = h.rcv[r].kind /\ y.obj = h.rcv[r].obj
      /\ y.buf = h.rcv[r].buf /\ y.closed = h.rcv[r].closed /\ y.done = h.rcv[r].done
      /\ y.returned = h.rcv[r].returned
    BY <1>1 DEF Receiver
<1>3. g.rcv = [h.rcv EXCEPT ![r] = y] /\ g.ms = h.ms /\ g.wg = h.wg /\ g = [ms |-> g.ms, rcv |-> g.rcv, wg |-> g.wg]
    BY <1>1 DEF HeapType
<1> HIDE DEF y, g
<1>4. g \in HeapType
    BY <1>1, <1>2, <1>3 DEF HeapType
<1>5. \A q \in Receivers : g.rcv[q] = IF q = r THEN y ELSE h.rcv[q]
    BY <1>1, <1>3
<1>6. g.rcv[r].hooks = k /\ \A q \in Receivers :
        /\ g.rcv[q].kind = h.rcv[q].kind /\ g.rcv[q].obj = h.rcv[q].obj
        /\ g.rcv[q].buf = h.rcv[q].buf
        /\ g.rcv[q].closed <=> h.rcv[q].closed
        /\ g.rcv[q].done <=> h.rcv[q].done
        /\ g.rcv[q].returned <=> h.rcv[q].returned
        /\ q # r => g.rcv[q].hooks = h.rcv[q].hooks
    BY <1>2, <1>5
<1>7. HooksSet(h, g, r, k)
    BY <1>3, <1>4, <1>6 DEF HooksSet
<1> QED BY <1>7 DEF g

LEMMA EnteredIs ==
    ASSUME TypeOK, ClientInv, SetUpInv, NEW c \in Clients, cl[c].pc = "add"
    PROVE  Entered(setCloseHook([Heap EXCEPT !.ms[cl[c].obj].streams = @ \cup {cl[c].rcv}],
                                cl[c].rcv, "remove"), c)
<1> DEFINE r == cl[c].rcv
           m == cl[c].obj
           S == ms[m].streams \cup {r}
           h == [Heap EXCEPT !.ms[m].streams = S]
           g == setCloseHook(h, r, "remove")
<1>1. m \in Objs /\ r \in Receivers /\ rcv[r].obj = m /\ r \notin ms[m].streams
    BY DEF ClientInv, ClientOK, Holding, SettingUp, TypeOK, Client, SetUpInv
<1>2. S \in SUBSET Receivers
    BY <1>1 DEF TypeOK, Managed
<1>3. [Heap EXCEPT !.ms[m].streams = @ \cup {r}] = h
    BY HeapIs
<1> HIDE DEF S
<1>4. /\ h \in HeapType /\ h.rcv = rcv /\ h.wg = wg
      /\ \A n \in Objs :
           /\ h.ms[n].streams = IF n = m THEN S ELSE ms[n].streams
           /\ h.ms[n].subs = ms[n].subs /\ h.ms[n].turnDone = ms[n].turnDone
           /\ h.ms[n].destroyed <=> ms[n].destroyed
           /\ h.ms[n].exited <=> ms[n].exited
  <2>1. StreamsSet(Heap, h, m, S)
    BY <1>1, <1>2, HeapIs, HeapStreams
  <2> HIDE DEF h
  <2> QED BY <2>1, HeapIs DEF StreamsSet
<1> HIDE DEF h
<1>5. CASE rcv[r].closed
  <2>1. g = RunHooks(h, r, {"remove"})
    BY <1>4, <1>5 DEF setCloseHook
  <2>2. g \in HeapType /\ Ran(h, g, r, {"remove"})
    BY <1>1, <1>4, <2>1, RanIs
  <2> HIDE DEF g
  <2>3. /\ g.rcv = rcv /\ g.wg = wg
        /\ \A n \in Objs :
           /\ g.ms[n].streams = IF n = m THEN S \ {r} ELSE ms[n].streams
           /\ g.ms[n].subs = ms[n].subs /\ g.ms[n].turnDone = ms[n].turnDone
           /\ g.ms[n].destroyed <=> ms[n].destroyed
           /\ g.ms[n].exited <=> ms[n].exited
    <3>1. \A n \in Objs :
           /\ g.ms[n].streams = IF n = h.rcv[r].obj THEN h.ms[n].streams \ {r} ELSE h.ms[n].streams
           /\ g.ms[n].subs = h.ms[n].subs /\ g.ms[n].turnDone = h.ms[n].turnDone
           /\ g.ms[n].destroyed <=> h.ms[n].destroyed
           /\ g.ms[n].exited <=> h.ms[n].exited
      BY <2>2 DEF Ran
    <3>2. g.rcv = rcv /\ g.wg = wg /\ h.rcv[r].obj = m
      BY <1>1, <1>4, <2>2 DEF Ran
    <3>3. ASSUME NEW n \in Objs
          PROVE  /\ g.ms[n].streams = IF n = m THEN S \ {r} ELSE ms[n].streams
                 /\ g.ms[n].subs = ms[n].subs /\ g.ms[n].turnDone = ms[n].turnDone
                 /\ g.ms[n].destroyed <=> ms[n].destroyed
                 /\ g.ms[n].exited <=> ms[n].exited
      <4> HIDE DEF m, r
      <4>1. g.ms[n].streams = IF n = m THEN S \ {r} ELSE ms[n].streams
        BY <1>4, <3>1, <3>2, Zenon
      <4> QED BY <1>4, <3>1, <4>1
    <3> QED BY <3>2, <3>3
  <2>4. S \ {r} = ms[m].streams
    BY <1>1 DEF S
  <2>5. Entered(g, c)
    BY <1>1, <1>5, <2>2, <2>3, <2>4 DEF Entered
  <2> QED BY <1>3, <2>5 DEF g
<1>6. CASE ~rcv[r].closed
  <2> DEFINE k == rcv[r].hooks \cup {"remove"}
  <2>1. k \in SUBSET {"unsub", "remove"} /\ "remove" \in k /\ rcv[r].hooks \subseteq k
    BY <1>1 DEF TypeOK, Receiver
  <2>2. g = [h EXCEPT !.rcv[r].hooks = k]
    BY <1>4, <1>6 DEF setCloseHook
  <2> HIDE DEF k, g
  <2>3. /\ g \in HeapType /\ g.ms = h.ms /\ g.wg = h.wg /\ g.rcv[r].hooks = k
        /\ \A q \in Receivers :
             /\ g.rcv[q].kind = h.rcv[q].kind /\ g.rcv[q].obj = h.rcv[q].obj
             /\ g.rcv[q].buf = h.rcv[q].buf
             /\ g.rcv[q].closed <=> h.rcv[q].closed
             /\ g.rcv[q].done <=> h.rcv[q].done
             /\ g.rcv[q].returned <=> h.rcv[q].returned
             /\ q # r => g.rcv[q].hooks = h.rcv[q].hooks
    <3>1. HooksSet(h, [h EXCEPT !.rcv[r].hooks = k], r, k)
      BY <1>1, <1>4, <2>1, HeapHooks
    <3>2. HooksSet(h, g, r, k)
      BY <2>2, <3>1
    <3> QED BY <3>2 DEF HooksSet
  <2>4. Entered(g, c)
    <3>1. \A q \in Receivers : rcv[q].hooks \subseteq g.rcv[q].hooks
      BY <1>4, <2>1, <2>3
    <3> QED BY <1>1, <1>4, <1>6, <2>1, <2>3, <3>1 DEF Entered, S
  <2> QED BY <1>3, <2>4 DEF g
<1> QED BY <1>5, <1>6

LEMMA AddMove ==
    ASSUME TypeOK, ClientInv, SetUpInv, NEW c \in Clients, AddStream(c)
    PROVE  Added(c)
<1> DEFINE r == cl[c].rcv
           h == setCloseHook([Heap EXCEPT !.ms[cl[c].obj].streams = @ \cup {r}], r, "remove")
<1>1. cl[c].pc = "add" /\ cl[c].obj \in Objs /\ "start" \in ClientPC /\ r \in Receivers /\ pub' = pub
    BY DEF AddStream, ClientInv, ClientOK, Holding, SettingUp, TypeOK, Client, ClientPC
<1>2. Entered(h, c)
    BY <1>1, EnteredIs
<1>3. \/ cl[c].op = "events" /\ Becomes([h EXCEPT !.rcv[r].returned = TRUE]) /\ Return(c)
      \/ cl[c].op # "events" /\ Becomes(h) /\ Goto(c, "start")
    BY DEF AddStream
<1> HIDE DEF h
<1>4. CASE cl[c].op = "events"
  <2>1. Back(c)
    BY <1>3, <1>4, BackIs
  <2>2. h \in HeapType /\ h.rcv \in [Receivers -> Receiver] /\ h.ms \in [Objs -> Managed]
    BY <1>2 DEF Entered, HeapType
  <2>3. ms' = h.ms /\ wg' = h.wg /\ rcv' = [h.rcv EXCEPT ![r].returned = TRUE]
    BY <1>3, <1>4, <2>2 DEF Becomes, HeapType
  <2>4. rcv' \in [Receivers -> Receiver]
    <3>1. [h.rcv EXCEPT ![r].returned = TRUE] \in [Receivers -> Receiver]
      BY <1>1, <2>2, WithDone
    <3> QED BY <2>3, <3>1, Zenon
  <2>5. \A q \in Receivers :
          /\ rcv'[q].kind = h.rcv[q].kind /\ rcv'[q].obj = h.rcv[q].obj
          /\ rcv'[q].hooks = h.rcv[q].hooks /\ rcv'[q].buf = h.rcv[q].buf
          /\ rcv'[q].closed <=> h.rcv[q].closed
          /\ rcv'[q].done <=> h.rcv[q].done
          /\ rcv'[q].returned <=> (h.rcv[q].returned \/ q = r)
    BY <1>1, <2>2, <2>3 DEF Receiver
  <2>6. \A q \in Receivers :
          /\ rcv'[q].kind = rcv[q].kind /\ rcv'[q].obj = rcv[q].obj /\ rcv'[q].buf = rcv[q].buf
          /\ rcv'[q].closed <=> rcv[q].closed
          /\ rcv'[q].done <=> rcv[q].done
          /\ rcv'[q].returned <=> (rcv[q].returned \/ (q = r /\ cl[c].op = "events"))
          /\ rcv[q].hooks \subseteq rcv'[q].hooks /\ (q # r => rcv'[q].hooks = rcv[q].hooks)
    BY <1>2, <1>4, <2>5 DEF Entered
  <2>7. \A m \in Objs :
          /\ ms'[m].subs = ms[m].subs /\ ms'[m].turnDone = ms[m].turnDone
          /\ ms'[m].destroyed <=> ms[m].destroyed
          /\ ms'[m].exited <=> ms[m].exited
          /\ m # cl[c].obj => ms'[m].streams = ms[m].streams
    BY <1>2, <2>3 DEF Entered
  <2>8. /\ rcv[r].closed => ms'[cl[c].obj].streams = ms[cl[c].obj].streams
        /\ ~rcv[r].closed => /\ ms'[cl[c].obj].streams = ms[cl[c].obj].streams \cup {r}
                             /\ "remove" \in rcv'[r].hooks
    BY <1>1, <1>2, <2>3, <2>5 DEF Entered
  <2>9. wg' = wg
    BY <1>2, <2>3 DEF Entered
  <2>10. ms' \in [Objs -> Managed]
    BY <2>2, <2>3
  <2> QED BY <1>1, <1>4, <2>1, <2>4, <2>6, <2>7, <2>8, <2>9, <2>10 DEF Added
<1>5. CASE cl[c].op # "events"
  <2>1. Went(c, "start")
    BY <1>1, <1>3, <1>5, WentIs
  <2>2. ms' = h.ms /\ wg' = h.wg /\ rcv' = h.rcv
    BY <1>3, <1>5 DEF Becomes
  <2> QED BY <1>1, <1>2, <1>5, <2>1, <2>2 DEF Entered, Added, HeapType
<1> QED BY <1>4, <1>5

-----------------------------------------------------------------------------
(* What a step does *)

\* Turns are completed and receivers closed that others may complete or close.
Legit(D, S) ==
    /\ \A r \in D : rcv[r].kind = "turn"
    /\ \A r \in S : rcv[r].kind # "free" /\ \A c \in Clients : cl[c].rcv = r => cl[c].pc # "stream"

Settling == \E D \in SUBSET Receivers, S \in SUBSET Receivers : Settled(D, S) /\ Legit(D, S)

SetUpKept ==
    \A c \in Clients : cl[c].pc \in SettingUp \/ cl'[c].pc \in SettingUp => cl'[c] = cl[c]

HeldKept == cl' \in [Clients -> Client] /\ \A c \in Clients : cl'[c].rcv \in {cl[c].rcv, None}

\* A stream is returned by the call that made it, which launches the loop.
Handed ==
    \A r \in Receivers : rcv'[r].returned =>
      \/ rcv[r].returned
      \/ /\ rcv[r].kind # "free" /\ \A c \in Clients : cl'[c].rcv # r
         /\ \E c \in Clients : cl[c].rcv = r /\ cl[c].pc = "launch"

Other == Settling /\ SetUpKept /\ HeldKept /\ Handed /\ Published /\ BufsFit

LEMMA MoveKeeps ==
    ASSUME TypeOK, NEW c \in Clients, NEW pc, NEW op, NEW m, NEW r, Moved(c, pc, op, m, r),
           cl[c].pc \notin SettingUp, pc \notin SettingUp, r \in {cl[c].rcv, None}
    PROVE  SetUpKept /\ HeldKept
BY DEF Moved, SetUpKept, HeldKept

LEMMA SameKeeps ==
    ASSUME TypeOK, cl' = cl
    PROVE  SetUpKept /\ HeldKept
BY DEF SetUpKept, HeldKept, TypeOK

LEMMA MarksHanded ==
    ASSUME MarksKept
    PROVE  Handed
BY DEF MarksKept, Handed

LEMMA ReturnsHanded ==
    ASSUME ReturnsKept
    PROVE  Handed
BY DEF ReturnsKept, Handed

LEMMA BufsKept ==
    ASSUME TypeOK, BufKept
    PROVE  BufsFit
BY DEF TypeOK, BufKept, BufsFit

LEMMA NothingSettles ==
    ASSUME Settled({}, {})
    PROVE  Settling
BY DEF Settling, Legit

LEMMA OneDone ==
    ASSUME NEW r \in Receivers, rcv[r].kind = "turn", Settled({r}, {})
    PROVE  Settling
BY DEF Settling, Legit

LEMMA OneFailed ==
    ASSUME TypeOK, ClientInv, SoleInv, NEW c \in Clients, cl[c].pc \in {"start", "failed"},
           Settled({cl[c].rcv}, {cl[c].rcv})
    PROVE  Settling
<1>1. /\ cl[c].rcv # None /\ cl[c].op # "events" /\ cl[c].rcv \in Receivers
      /\ rcv[cl[c].rcv].kind = "turn"
    BY DEF ClientInv, ClientOK, Holding, TypeOK, Client
<1>2. \A d \in Clients : cl[d].rcv = cl[c].rcv => cl[d].pc # "stream"
    BY <1>1 DEF SoleInv
<1>3. Legit({cl[c].rcv}, {cl[c].rcv})
    BY <1>1, <1>2 DEF Legit
<1>4. {cl[c].rcv} \in SUBSET Receivers
    BY <1>1
<1> QED BY <1>3, <1>4 DEF Settling

\* What a session's stream set holds is past its set-up.
LEMMA StreamsPast ==
    ASSUME TypeOK, ReceiverInv, ClientInv, PlaceInv, SetUpInv, NEW m \in Objs, NEW r \in ms[m].streams
    PROVE  /\ r \in Receivers /\ rcv[r].kind # "free" /\ ~BeingSetUp(r)
           /\ \A c \in Clients : cl[c].rcv = r => cl[c].pc # "stream"
<1>1. r \in Receivers
    BY DEF TypeOK, Managed
<1>2. rcv[r].kind # "free"
    BY <1>1, NoneIs DEF PlaceInv, ReceiverInv
<1>3. ASSUME NEW c \in Clients, cl[c].rcv = r, cl[c].pc \in SettingUp PROVE FALSE
    BY <1>3 DEF SetUpInv
<1>4. ~BeingSetUp(r) /\ \A c \in Clients : cl[c].rcv = r => cl[c].pc # "stream"
    BY <1>3 DEF BeingSetUp, SettingUp
<1> QED BY <1>1, <1>2, <1>4

LEMMA StreamsSettle ==
    ASSUME TypeOK, ReceiverInv, ClientInv, PlaceInv, SetUpInv, NEW m \in Objs, Settled({}, ms[m].streams)
    PROVE  Settling
<1>1. Legit({}, ms[m].streams)
    BY StreamsPast DEF Legit
<1>2. ms[m].streams \in SUBSET Receivers
    BY DEF TypeOK, Managed
<1> QED BY <1>1, <1>2 DEF Settling

LEMMA PushSettles ==
    ASSUME TypeOK, ClientInv, SetUpInv, NEW p \in Publishers, pub[p].cur \in Receivers,
           rcv[pub[p].cur].kind = "turn", Settled({pub[p].cur}, {pub[p].cur})
    PROVE  Settling
<1>1. \A c \in Clients : cl[c].rcv = pub[p].cur => cl[c].pc # "stream"
    BY DEF SetUpInv, SettingUp
<1>2. Legit({pub[p].cur}, {pub[p].cur})
    BY <1>1 DEF Legit
<1> QED BY <1>2 DEF Settling

LEMMA CloseSettles ==
    ASSUME SoleInv, TypeOK, NEW r \in Receivers, rcv[r].returned, rcv[r].kind # "free", Settled({}, {r})
    PROVE  Settling
<1>1. \A c \in Clients : cl[c].rcv # r
    BY NoneIs DEF SoleInv
<1>2. Legit({}, {r})
    BY <1>1 DEF Legit
<1> QED BY <1>2 DEF Settling

SetUps(c) ==
    /\ BufsFit
    /\ \/ \E r \in Receivers : Made(c, r)
       \/ Subscribed(c) \/ Hooked(c) \/ Added(c)

LEMMA CallsOther ==
    ASSUME ServiceInv, NEW c \in Clients, ClientCalls(c)
    PROVE  Other
<1> USE DEF ServiceInv
<1>1. CASE CreateSession(c)
    BY <1>1, CreateMove, NothingSettles, SameKeeps, MarksHanded, BufsKept DEF Other, Calm
<1>2. CASE Gets(c)
  <2>1. cl[c].pc \notin SettingUp /\ {"track", "events", "control"} \cap SettingUp = {}
    BY <1>2, GetMove DEF SettingUp
  <2>2. SetUpKept /\ HeldKept
    BY <1>2, <2>1, GetMove, MoveKeeps
  <2> QED BY <1>2, <2>2, GetMove, NothingSettles, MarksHanded, BufsKept DEF Other, Calm
<1>3. CASE DestroySession(c)
  <2>1. PICK m \in Objs : Moved(c, "stop", "destroy", m, None) /\ Destroyed(m)
    BY <1>3, DestroyMove
  <2>2. SetUpKept /\ HeldKept
    BY <1>3, <2>1, DestroyMove, MoveKeeps DEF SettingUp
  <2> QED BY <1>3, <2>1, <2>2, DestroyMove, NothingSettles, ReturnsHanded, BufsKept DEF Other, Destroyed
<1>4. CASE Close(c)
  <2>1. SetUpKept /\ HeldKept
    BY <1>4, CloseMove, MoveKeeps DEF SettingUp, Back, Went
  <2> QED BY <1>4, <2>1, CloseMove, NothingSettles, MarksHanded, BufsKept DEF Other, Calm
<1> QED BY <1>1, <1>2, <1>3, <1>4 DEF ClientCalls, Gets

LEMMA ClientsOther ==
    ASSUME ServiceInv, NEW c \in Clients, ClientStep(c)
    PROVE  Other \/ SetUps(c)
<1> USE DEF ServiceInv
<1>1. CASE NewTurnScopedReceiver(c) \/ NewEventsReceiver(c)
    BY <1>1, TurnMove, EventsMove DEF SetUps
<1>2. CASE SubscribeStream(c) \/ HookUnsubscribe(c) \/ AddStream(c)
  <2>1. Subscribed(c) \/ Hooked(c) \/ Added(c)
    BY <1>2, SubscribeMove, HookMove, AddMove
  <2>2. BufsFit
    BY <2>1 DEF Subscribed, Hooked, Added, BufsFit, TypeOK
  <2> QED BY <2>1, <2>2 DEF SetUps
<1>3. CASE StartTurn(c)
  <2>1. SetUpKept /\ HeldKept
    BY <1>3, StartMove, MoveKeeps DEF SettingUp, Back, Went
  <2>2. Settling
    BY <1>3, StartMove, OneFailed, NothingSettles
  <2> QED BY <1>3, <2>1, <2>2, StartMove, MarksHanded, BufsKept DEF Other
<1>4. CASE LaunchLoop(c)
  <2>1. SetUpKept /\ HeldKept
    BY <1>4, LaunchMove, MoveKeeps DEF SettingUp, Back, Went
  <2>2. Handed
    <3>1. CASE ReturnsKept
      BY <3>1, ReturnsHanded
    <3>2. CASE /\ Back(c)
               /\ \A r \in Receivers : rcv'[r].returned <=> (rcv[r].returned \/ r = cl[c].rcv)
      <4>1. cl[c].pc = "launch"
        BY <1>4, LaunchMove
      <4>2. cl[c].rcv \in Receivers /\ rcv[cl[c].rcv].kind # "free"
        BY <4>1 DEF ClientInv, ClientOK, Holding, TypeOK, Client
      <4>3. \A d \in Clients : cl'[d].rcv # cl[c].rcv
        BY <3>2, <4>2, NoneIs DEF Back, Moved, SoleInv
      <4> QED BY <3>2, <4>1, <4>2, <4>3 DEF Handed
    <3> QED BY <1>4, <3>1, <3>2, LaunchMove
  <2> QED BY <1>4, <2>1, <2>2, LaunchMove, NothingSettles, BufsKept DEF Other
<1>5. CASE LaunchFailed(c)
  <2>1. SetUpKept /\ HeldKept
    BY <1>5, FailedMove, MoveKeeps DEF SettingUp, Back, Went
  <2> QED BY <1>5, <2>1, FailedMove, OneFailed, MarksHanded, BufsKept DEF Other
<1>6. CASE Control(c) \/ ControlReturns(c)
  <2>1. SetUpKept /\ HeldKept
    BY <1>6, ControlMove, MoveKeeps DEF SettingUp, Back, Went
  <2> QED BY <1>6, <2>1, ControlMove, NothingSettles, MarksHanded, BufsKept DEF Other, Calm
<1>7. CASE CloseNext(c)
  <2>1. cl[c].pc = "next" /\ Published
    BY <1>7, CloseNextMove
  <2>2. CASE Calm /\ Went(c, "wait")
    <3>1. SetUpKept /\ HeldKept
      BY <2>1, <2>2, MoveKeeps DEF SettingUp, Went
    <3> QED BY <2>1, <2>2, <3>1, NothingSettles, MarksHanded, BufsKept DEF Other, Calm
  <2>3. CASE \E m \in Objs : Moved(c, "stop", cl[c].op, m, cl[c].rcv) /\ Destroyed(m)
    <3>1. PICK m \in Objs : Moved(c, "stop", cl[c].op, m, cl[c].rcv) /\ Destroyed(m)
      BY <2>3
    <3>2. SetUpKept /\ HeldKept
      BY <2>1, <3>1, MoveKeeps DEF SettingUp
    <3> QED BY <2>1, <3>1, <3>2, NothingSettles, ReturnsHanded, BufsKept DEF Other, Destroyed
  <2> QED BY <1>7, <2>2, <2>3, CloseNextMove
<1>8. CASE AgentStop(c) \/ AgentStopDriver(c)
  <2>1. SetUpKept /\ HeldKept
    BY <1>8, StopMove, MoveKeeps DEF SettingUp, Went
  <2> QED BY <1>8, <2>1, StopMove, NothingSettles, MarksHanded, BufsKept DEF Other, Calm
<1>9. CASE AgentExit(c)
  <2>1. SetUpKept /\ HeldKept
    BY <1>9, ExitMove, MoveKeeps DEF SettingUp, Went
  <2> QED BY <1>9, <2>1, ExitMove, NothingSettles, MarksHanded, ReturnsHanded, BufsKept DEF Other, Calm
<1>10. CASE AgentBusClose(c)
  <2>1. SetUpKept /\ HeldKept
    BY <1>10, BusCloseMove, MoveKeeps DEF SettingUp, Went
  <2> QED BY <1>10, <2>1, BusCloseMove, NothingSettles, MarksHanded, BufsKept DEF Other, Calm
<1>11. CASE CompleteActiveTurn(c)
  <2>1. SetUpKept /\ HeldKept
    BY <1>11, CompleteMove, MoveKeeps DEF SettingUp, Went
  <2> QED BY <1>11, <2>1, CompleteMove, NothingSettles, OneDone, MarksHanded, BufsKept DEF Other
<1>12. CASE CloseAllStreams(c)
  <2>1. SetUpKept /\ HeldKept
    BY <1>12, CloseStreamsMove, MoveKeeps DEF SettingUp, Went
  <2>2. cl[c].obj \in Objs
    BY <1>12, CloseStreamsMove DEF ClientInv, ClientOK, TearingPC
  <2> QED BY <1>12, <2>1, <2>2, CloseStreamsMove, StreamsSettle, MarksHanded, BufsKept DEF Other
<1>13. CASE DeleteSession(c)
  <2>1. SetUpKept /\ HeldKept
    BY <1>13, DeleteMove, MoveKeeps DEF SettingUp, Back
  <2> QED BY <1>13, <2>1, DeleteMove, NothingSettles, MarksHanded, BufsKept DEF Other, Calm
<1>14. CASE CloseDrained(c) \/ CloseTimeout(c) \/ CloseGivesUp(c)
  <2>1. SetUpKept /\ HeldKept
    BY <1>14, CloseMove, MoveKeeps DEF SettingUp, Back, Went
  <2> QED BY <1>14, <2>1, CloseMove, NothingSettles, MarksHanded, BufsKept DEF Other, Calm
<1>15. CASE CloseAgain(c)
  <2>1. SetUpKept /\ HeldKept
    BY <1>15, AgainMove, MoveKeeps DEF SettingUp, Went
  <2> QED BY <1>15, <2>1, AgainMove, NothingSettles, OneDone, MarksHanded, BufsKept DEF Other
<1> QED BY <1>1, <1>2, <1>3, <1>4, <1>5, <1>6, <1>7, <1>8, <1>9, <1>10, <1>11, <1>12, <1>13, <1>14, <1>15
        DEF ClientStep

\* A step of the model is one of the set-up of a receiver, or one of the others.
LEMMA Steps ==
    ASSUME ServiceInv, Next
    PROVE  Other \/ \E c \in Clients : SetUps(c)
<1> USE DEF ServiceInv
<1>1. ASSUME NEW c \in Clients, ClientCalls(c) \/ ClientStep(c) PROVE Other \/ SetUps(c)
    BY <1>1, CallsOther, ClientsOther
<1>2. ASSUME NEW l \in Loops, LoopStep(l) PROVE Other
    BY <1>2, LoopMove, NothingSettles, SameKeeps, MarksHanded, BufsKept DEF Other, Calm
<1>3. ASSUME NEW p \in Publishers, PublisherStep(p) PROVE Other
  <2>1. CASE CallHandler(p)
    BY <2>1, CallMove, NothingSettles, OneDone, SameKeeps, MarksHanded, BufsKept DEF Other
  <2>2. CASE PushSends(p)
    BY <2>2, PushMove, NothingSettles, PushSettles, SameKeeps, MarksHanded DEF Other
  <2>3. CASE PushGivesUp(p)
    BY <2>3, GiveUpMove, NothingSettles, SameKeeps, MarksHanded, BufsKept DEF Other, Calm
  <2> QED BY <1>3, <2>1, <2>2, <2>3 DEF PublisherStep
<1>4. ASSUME NEW r \in Receivers, Recv(r) PROVE Other
    BY <1>4, RecvMove, NothingSettles, SameKeeps, MarksHanded DEF Other
<1>5. ASSUME NEW r \in Receivers, CloseReceiver(r) PROVE Other
    BY <1>5, CloseReceiverMove, CloseSettles, SameKeeps, MarksHanded, BufsKept DEF Other
<1> QED BY <1>1, <1>2, <1>3, <1>4, <1>5 DEF Next

-----------------------------------------------------------------------------
(* Receivers, turns and their count *)

LEMMA ReceiverStep ==
    ASSUME ServiceInv, Next
    PROVE  ReceiverInv'
<1> USE DEF ServiceInv
<1>1. CASE Other
  <2>1. PICK D \in SUBSET Receivers, S \in SUBSET Receivers : Settled(D, S) /\ Legit(D, S)
    BY <1>1 DEF Other, Settling
  <2>2. Handed
    BY <1>1 DEF Other
  <2> QED BY <2>1, <2>2 DEF Settled, Legit, Handed, ReceiverInv
<1>2. ASSUME NEW c \in Clients, SetUps(c) PROVE ReceiverInv'
  <2>1. ASSUME NEW r \in Receivers, Made(c, r) PROVE ReceiverInv'
    <3>1. cl[c].obj \in Objs
      BY <2>1 DEF Made, ClientInv, ClientOK
    <3> QED BY <2>1, <3>1 DEF Made, ReceiverInv
  <2>2. CASE Subscribed(c)
    BY <2>2 DEF Subscribed, ReceiverInv
  <2>3. ASSUME cl[c].pc \in SettingUp
        PROVE  cl[c].rcv \in Receivers /\ rcv[cl[c].rcv].kind # "free"
    BY <2>3 DEF ClientInv, ClientOK, Holding, TypeOK, Client
  <2>4. CASE Hooked(c)
    BY <2>3, <2>4 DEF Hooked, ReceiverInv, SettingUp
  <2>5. CASE Added(c)
    BY <2>3, <2>5 DEF Added, ReceiverInv, SettingUp
  <2> QED BY <1>2, <2>1, <2>2, <2>4, <2>5 DEF SetUps
<1> QED BY <1>1, <1>2, Steps

LEMMA TurnStep ==
    ASSUME ServiceInv, Next
    PROVE  TurnInv'
<1> USE DEF ServiceInv
<1>1. CASE Other
  <2>1. PICK D \in SUBSET Receivers, S \in SUBSET Receivers : Settled(D, S) /\ Legit(D, S)
    BY <1>1 DEF Other, Settling
  <2>2. Published
    BY <1>1 DEF Other
  <2>3. ASSUME NEW m \in Objs, ms'[m].turnDone # None PROVE rcv'[ms'[m].turnDone].kind = "turn"
    <3>1. ms[m].turnDone \in Receivers \cup {None}
      BY DEF TypeOK, Managed
    <3>2. ms'[m].turnDone = ms[m].turnDone
      BY <2>1, <2>3 DEF Settled
    <3>3. \A r \in Receivers : rcv'[r].kind = rcv[r].kind
      BY <2>1 DEF Settled
    <3> QED BY <2>3, <3>1, <3>2, <3>3 DEF TurnInv
  <2>4. ASSUME NEW r \in Receivers, NEW x \in {"tracker", "stream"},
               \/ \E m \in Objs : <<r, x>> \in ms'[m].subs
               \/ \E p \in Publishers : <<r, x>> \in pub'[p].pend
        PROVE  rcv'[r].kind # "free" /\ (x = "tracker" => rcv'[r].kind = "turn")
    <3>1. \/ \E m \in Objs : <<r, x>> \in ms[m].subs
          \/ \E p \in Publishers : <<r, x>> \in pub[p].pend
      BY <2>1, <2>2, <2>4 DEF Settled, Published
    <3> QED BY <2>1, <3>1 DEF TurnInv, Settled
  <2>5. ASSUME NEW p \in Publishers, pub'[p].cur # None PROVE rcv'[pub'[p].cur].kind # "free"
    <3>1. pub'[p].cur \in Receivers
      BY <2>2, <2>5 DEF Published, PubType
    <3>2. rcv[pub'[p].cur].kind # "free"
      BY <2>2, <2>5, <3>1 DEF Published, TurnInv
    <3> QED BY <2>1, <3>1, <3>2 DEF Settled
  <2> QED BY <2>3, <2>4, <2>5 DEF TurnInv
<1>2. ASSUME NEW c \in Clients, SetUps(c) PROVE TurnInv'
  <2>0. \A m \in Objs : ms[m].turnDone \in Receivers \cup {None}
    BY DEF TypeOK, Managed
  <2>8. \A p \in Publishers : pub[p].cur \in Receivers \cup {None}
    BY DEF TypeOK
  <2>1. ASSUME NEW r \in Receivers, Made(c, r) PROVE TurnInv'
    <3>1. rcv[r].kind = "free" /\ (\A q \in Receivers : q # r => rcv'[q] = rcv[q]) /\ pub' = pub
      BY <2>1 DEF Made
    <3>2. (cl[c].op # "events" => rcv'[r].kind = "turn") /\ rcv'[r].kind # "free"
      BY <2>1 DEF Made
    <3>3. ASSUME NEW m \in Objs, ms'[m].turnDone # None PROVE rcv'[ms'[m].turnDone].kind = "turn"
      BY <2>0, <2>1, <3>1, <3>2, <3>3 DEF Made, TurnInv
    <3>4. ASSUME NEW q \in Receivers, NEW x \in {"tracker", "stream"},
                 \/ \E m \in Objs : <<q, x>> \in ms'[m].subs
                 \/ \E p \in Publishers : <<q, x>> \in pub'[p].pend
          PROVE  rcv'[q].kind # "free" /\ (x = "tracker" => rcv'[q].kind = "turn")
      <4>1. \/ \E m \in Objs : <<q, x>> \in ms[m].subs
            \/ \E p \in Publishers : <<q, x>> \in pub[p].pend
            \/ q = r /\ cl[c].op # "events"
        BY <2>1, <3>1, <3>4 DEF Made
      <4> QED BY <3>1, <3>2, <4>1 DEF TurnInv
    <3>5. ASSUME NEW p \in Publishers, pub'[p].cur # None PROVE rcv'[pub'[p].cur].kind # "free"
      BY <2>8, <3>1, <3>2, <3>5 DEF TurnInv
    <3> QED BY <3>3, <3>4, <3>5 DEF TurnInv
  <2>2. cl[c].pc \in SettingUp => cl[c].rcv \in Receivers /\ rcv[cl[c].rcv].kind # "free"
    BY DEF ClientInv, ClientOK, Holding, TypeOK, Client
  <2>3. CASE Subscribed(c)
    <3>1. ASSUME NEW q \in Receivers, NEW x \in {"tracker", "stream"},
                 \/ \E m \in Objs : <<q, x>> \in ms'[m].subs
                 \/ \E p \in Publishers : <<q, x>> \in pub'[p].pend
          PROVE  rcv'[q].kind # "free" /\ (x = "tracker" => rcv'[q].kind = "turn")
      <4>1. \/ \E m \in Objs : <<q, x>> \in ms[m].subs
            \/ \E p \in Publishers : <<q, x>> \in pub[p].pend
            \/ q = cl[c].rcv /\ x = "stream"
        BY <2>3, <3>1 DEF Subscribed
      <4> QED BY <2>2, <2>3, <4>1 DEF TurnInv, Subscribed, SettingUp
    <3>2. /\ \A m \in Objs : ms'[m].turnDone # None => rcv'[ms'[m].turnDone].kind = "turn"
          /\ \A p \in Publishers : pub'[p].cur # None => rcv'[pub'[p].cur].kind # "free"
      BY <2>3 DEF Subscribed, TurnInv
    <3> QED BY <3>1, <3>2 DEF TurnInv
  <2>4. CASE Hooked(c) \/ Added(c)
    <3>1. /\ pub' = pub /\ \A q \in Receivers : rcv'[q].kind = rcv[q].kind
          /\ \A m \in Objs : ms'[m].subs \subseteq ms[m].subs /\ ms'[m].turnDone = ms[m].turnDone
      BY <2>4 DEF Hooked, Added
    <3>2. /\ \A m \in Objs : ms'[m].turnDone # None => rcv'[ms'[m].turnDone].kind = "turn"
          /\ \A p \in Publishers : pub'[p].cur # None => rcv'[pub'[p].cur].kind # "free"
      BY <2>0, <2>8, <3>1 DEF TurnInv
    <3>3. ASSUME NEW q \in Receivers, NEW x \in {"tracker", "stream"},
                 \/ \E m \in Objs : <<q, x>> \in ms'[m].subs
                 \/ \E p \in Publishers : <<q, x>> \in pub'[p].pend
          PROVE  rcv'[q].kind # "free" /\ (x = "tracker" => rcv'[q].kind = "turn")
      <4>1. \/ \E m \in Objs : <<q, x>> \in ms[m].subs
            \/ \E p \in Publishers : <<q, x>> \in pub[p].pend
        BY <3>1, <3>3
      <4> QED BY <3>1, <4>1 DEF TurnInv
    <3> QED BY <3>2, <3>3 DEF TurnInv
  <2> QED BY <1>2, <2>1, <2>3, <2>4 DEF SetUps
<1> QED BY <1>1, <1>2, Steps

\* Adding or completing one turn.
LEMMA TurnsFinite == IsFiniteSet(OpenTurns) /\ Cardinality(OpenTurns) \in Nat
<1>1. IsFiniteSet(OpenTurns)
    BY ServiceAssumption, FS_Subset DEF OpenTurns
<1> QED BY <1>1, FS_CardinalityType

LEMMA CountStep ==
    ASSUME ServiceInv, Next
    PROVE  CountInv'
<1> USE DEF ServiceInv
<1> DEFINE T == OpenTurns
           U == OpenTurns'
<1>0. IsFiniteSet(T) /\ Cardinality(T) \in Nat /\ wg = Cardinality(T)
    BY TurnsFinite DEF CountInv
<1>9. wg' = Cardinality(U) => CountInv'
    BY DEF CountInv
<1>1. CASE Other
  <2>1. PICK D \in SUBSET Receivers, S \in SUBSET Receivers : Settled(D, S) /\ Legit(D, S)
    BY <1>1 DEF Other, Settling
  <2>2. U = T \ D
    BY <2>1 DEF Settled, OpenTurns
  <2>3. CASE wg' = wg /\ \A r \in D : rcv[r].done
    <3>1. U = T
      BY <2>2, <2>3 DEF OpenTurns
    <3> QED BY <1>0, <1>9, <2>3, <3>1
  <2>4. CASE \E r \in D : ~rcv[r].done /\ D = {r} /\ wg' = wg - 1
    <3>1. PICK r \in D : ~rcv[r].done /\ D = {r} /\ wg' = wg - 1
      BY <2>4
    <3>2. r \in T /\ U = T \ {r}
      BY <2>1, <2>2, <3>1 DEF Legit, OpenTurns
    <3> HIDE DEF T, U
    <3>3. Cardinality(T \ {r}) = Cardinality(T) - 1
      BY <1>0, <3>2, FS_RemoveElement
    <3>4. wg' = Cardinality(U)
      BY <1>0, <3>1, <3>2, <3>3
    <3> QED BY <1>9, <3>4
  <2> QED BY <2>1, <2>3, <2>4 DEF Settled
<1>2. ASSUME NEW c \in Clients, SetUps(c) PROVE CountInv'
  <2>1. ASSUME NEW r \in Receivers, Made(c, r) PROVE CountInv'
    <3>1. rcv[r].kind = "free" /\ ~rcv[r].done /\ ~rcv'[r].done /\ \A q \in Receivers : q # r => rcv'[q] = rcv[q]
      BY <2>1 DEF Made, ReceiverInv
    <3>2. CASE cl[c].op = "events"
      <4>1. U = T
        BY <2>1, <3>1, <3>2 DEF Made, OpenTurns
      <4>2. wg' = wg
        BY <2>1, <3>2 DEF Made
      <4> QED BY <1>0, <1>9, <4>1, <4>2
    <3>3. CASE cl[c].op # "events"
      <4>1. U = T \cup {r} /\ r \notin T
        BY <2>1, <3>1, <3>3 DEF Made, OpenTurns
      <4>2. wg' = wg + 1
        BY <2>1, <3>3 DEF Made
      <4> HIDE DEF T, U
      <4>3. Cardinality(T \cup {r}) = Cardinality(T) + 1
        BY <1>0, <4>1, FS_AddElement
      <4>4. wg' = Cardinality(U)
        BY <1>0, <4>1, <4>2, <4>3
      <4> QED BY <1>9, <4>4
    <3> QED BY <3>2, <3>3
  <2>2. CASE Subscribed(c) \/ Hooked(c) \/ Added(c)
    <3>1. wg' = wg /\ \A q \in Receivers : rcv'[q].kind = rcv[q].kind /\ (rcv'[q].done <=> rcv[q].done)
      BY <2>2 DEF Subscribed, Hooked, Added
    <3>2. U = T
      BY <3>1 DEF OpenTurns
    <3> QED BY <1>0, <1>9, <3>1, <3>2
  <2> QED BY <1>2, <2>1, <2>2 DEF SetUps
<1> QED BY <1>1, <1>2, Steps

-----------------------------------------------------------------------------
(* Stream sets, the bus and the set-up *)

\* Receivers that are being set up do not change when nobody sets one up.
LEMMA SetUpSame ==
    ASSUME SetUpKept, NEW r \in Receivers
    PROVE  BeingSetUp(r)' <=> BeingSetUp(r)
<1>1. \A c \in Clients : (cl'[c].rcv = r /\ cl'[c].pc \in SettingUp) <=> (cl[c].rcv = r /\ cl[c].pc \in SettingUp)
    BY DEF SetUpKept
<1>2. BeingSetUp(r) <=> \E c \in Clients : cl[c].rcv = r /\ cl[c].pc \in SettingUp
    BY DEF BeingSetUp, SettingUp
<1>3. BeingSetUp(r)' <=> \E c \in Clients : cl'[c].rcv = r /\ cl'[c].pc \in SettingUp
    BY DEF BeingSetUp, SettingUp
<1> QED BY <1>1, <1>2, <1>3

\* A receiver that is closed after its set-up is off the bus and out of its set.
LEMMA Detaches ==
    ASSUME TypeOK, ReceiverInv, PlaceInv, OpenInv, ClosedIsDetached,
           NEW D, NEW S \in SUBSET Receivers, Settled(D, S), Legit(D, S),
           NEW r \in Receivers, ~BeingSetUp(r), rcv[r].closed \/ r \in S, NEW m \in Objs
    PROVE  r \notin ms'[m].streams /\ ms'[m].subs \cap HandlersOf(r) = {}
<1>1. ms'[m].subs \subseteq ms[m].subs /\ ms'[m].streams \subseteq ms[m].streams
    BY DEF Settled
<1>2. CASE rcv[r].closed
    BY <1>1, <1>2 DEF ClosedIsDetached
<1>3. CASE r \in S /\ ~rcv[r].closed
  <2>1. /\ "unsub" \in rcv[r].hooks /\ "remove" \in rcv[r].hooks /\ rcv[r].obj \in Objs
    BY <1>3 DEF OpenInv, Legit, ReceiverInv
  <2>2. CASE m = rcv[r].obj
    BY <1>3, <2>1, <2>2 DEF Settled
  <2>3. CASE m # rcv[r].obj
    <3>1. <<r, "tracker">> \notin ms'[m].subs /\ <<r, "stream">> \notin ms'[m].subs /\ r \notin ms'[m].streams
      BY <1>1, <2>3 DEF PlaceInv
    <3>2. ms'[m].subs \in SUBSET Handler
      BY DEF Settled, Managed
    <3> QED BY <3>1, <3>2, HandlersIs
  <2> QED BY <2>2, <2>3
<1> QED BY <1>2, <1>3

LEMMA PlaceStep ==
    ASSUME ServiceInv, Next
    PROVE  PlaceInv'
<1> USE DEF ServiceInv
<1>1. CASE Other
  <2>1. PICK D \in SUBSET Receivers, S \in SUBSET Receivers : Settled(D, S) /\ Legit(D, S)
    BY <1>1 DEF Other, Settling
  <2>2. ASSUME NEW r \in Receivers, NEW m \in Objs, r \in ms'[m].streams
        PROVE  rcv'[r].obj = m /\ ~rcv'[r].closed
    <3>1. r \in ms[m].streams
      BY <2>1, <2>2 DEF Settled
    <3>2. ~BeingSetUp(r) /\ rcv[r].obj = m /\ ~rcv[r].closed
      BY <3>1, StreamsPast DEF PlaceInv
    <3>3. r \notin S
      BY <2>1, <2>2, <3>2, Detaches
    <3> QED BY <2>1, <3>2, <3>3 DEF Settled
  <2>3. ASSUME NEW r \in Receivers, NEW m \in Objs, NEW x \in {"tracker", "stream"}, <<r, x>> \in ms'[m].subs
        PROVE  rcv'[r].obj = m
    <3>1. <<r, x>> \in ms[m].subs /\ rcv'[r].obj = rcv[r].obj
      BY <2>1, <2>3 DEF Settled
    <3> QED BY <3>1 DEF PlaceInv
  <2> QED BY <2>2, <2>3 DEF PlaceInv
<1>2. ASSUME NEW c \in Clients, SetUps(c) PROVE PlaceInv'
  <2>1. ASSUME NEW r \in Receivers, Made(c, r) PROVE PlaceInv'
    <3>1. rcv[r].obj = None
      BY <2>1 DEF Made, ReceiverInv
    <3>2. ASSUME NEW q \in Receivers, NEW m \in Objs, q \in ms'[m].streams
          PROVE  rcv'[q].obj = m /\ ~rcv'[q].closed
      <4>1. q \in ms[m].streams
        BY <2>1, <3>2 DEF Made
      <4>2. rcv[q].obj = m /\ ~rcv[q].closed /\ q # r
        BY <3>1, <4>1, NoneIs DEF PlaceInv
      <4> QED BY <2>1, <4>2 DEF Made
    <3>3. ASSUME NEW q \in Receivers, NEW m \in Objs, NEW x \in {"tracker", "stream"}, <<q, x>> \in ms'[m].subs
          PROVE  rcv'[q].obj = m
      <4>1. <<q, x>> \in ms[m].subs \/ (m = cl[c].obj /\ <<q, x>> = <<r, "tracker">>)
        BY <2>1, <3>3 DEF Made
      <4>2. CASE <<q, x>> \in ms[m].subs
        <5>1. rcv[q].obj = m /\ q # r
          BY <3>1, <4>2, NoneIs DEF PlaceInv
        <5> QED BY <2>1, <5>1 DEF Made
      <4>3. CASE m = cl[c].obj /\ q = r
        BY <2>1, <4>3 DEF Made
      <4> QED BY <4>1, <4>2, <4>3
    <3> QED BY <3>2, <3>3 DEF PlaceInv
  <2>2. cl[c].pc \in SettingUp => cl[c].rcv \in Receivers /\ rcv[cl[c].rcv].obj = cl[c].obj
    BY DEF ClientInv, ClientOK, Holding, TypeOK, Client
  <2>3. CASE Subscribed(c)
    BY <2>2, <2>3 DEF Subscribed, PlaceInv, SettingUp
  <2>4. CASE Hooked(c)
    <3>1. /\ \A q \in Receivers : rcv'[q].obj = rcv[q].obj /\ (rcv'[q].closed <=> rcv[q].closed)
          /\ \A m \in Objs : ms'[m].streams = ms[m].streams /\ ms'[m].subs \subseteq ms[m].subs
      BY <2>4 DEF Hooked
    <3> QED BY <3>1 DEF PlaceInv
  <2>5. CASE Added(c)
    <3>1. /\ \A q \in Receivers : rcv'[q].obj = rcv[q].obj /\ (rcv'[q].closed <=> rcv[q].closed)
          /\ \A m \in Objs : ms'[m].subs = ms[m].subs
      BY <2>5 DEF Added
    <3>2. ASSUME NEW q \in Receivers, NEW m \in Objs, q \in ms'[m].streams
          PROVE  rcv'[q].obj = m /\ ~rcv'[q].closed
      <4>1. q \in ms[m].streams \/ (q = cl[c].rcv /\ m = cl[c].obj /\ ~rcv[q].closed)
        BY <2>5, <3>2 DEF Added
      <4>2. cl[c].rcv \in Receivers /\ rcv[cl[c].rcv].obj = cl[c].obj
        BY <2>2, <2>5 DEF Added, SettingUp
      <4>3. rcv[q].obj = m /\ ~rcv[q].closed
        BY <4>1, <4>2 DEF PlaceInv
      <4> QED BY <3>1, <4>3
    <3>3. \A q \in Receivers, m \in Objs, x \in {"tracker", "stream"} :
            <<q, x>> \in ms'[m].subs => rcv'[q].obj = m
      BY <3>1 DEF PlaceInv
    <3> QED BY <3>2, <3>3 DEF PlaceInv
  <2> QED BY <1>2, <2>1, <2>3, <2>4, <2>5 DEF SetUps
<1> QED BY <1>1, <1>2, Steps

LEMMA SetUpOther ==
    ASSUME ServiceInv, Other
    PROVE  SetUpInv'
<1> USE DEF ServiceInv
<1>1. PICK D \in SUBSET Receivers, S \in SUBSET Receivers : Settled(D, S) /\ Legit(D, S)
    BY DEF Other, Settling
<1> SUFFICES ASSUME NEW c \in Clients, cl'[c].pc \in SettingUp
             PROVE  LET r == cl'[c].rcv IN
                    /\ \A m \in Objs : r \notin ms'[m].streams
                    /\ cl'[c].pc = "stream" =>
                         /\ ~rcv'[r].closed
                         /\ \A m \in Objs : <<r, "stream">> \notin ms'[m].subs
                         /\ \A p \in Publishers : pub'[p].cur # r /\ <<r, "stream">> \notin pub'[p].pend
                    /\ cl'[c].pc = "add" /\ ~rcv'[r].closed => "unsub" \in rcv'[r].hooks
                    /\ cl'[c].pc = "add" /\ rcv'[r].closed => \A m \in Objs : ms'[m].subs \cap HandlersOf(r) = {}
    BY DEF SetUpInv
<1> DEFINE r == cl[c].rcv
<1>2. cl'[c] = cl[c] /\ cl[c].pc \in SettingUp
    BY DEF Other, SetUpKept
<1>3. r \in Receivers /\ rcv[r].obj \in Objs /\ rcv[r].kind # "free"
    BY <1>2 DEF ClientInv, ClientOK, Holding, TypeOK, Client
<1>4. \A m \in Objs : r \notin ms'[m].streams
    BY <1>1, <1>2 DEF Settled, SetUpInv
<1>5. ASSUME cl[c].pc = "stream"
      PROVE  /\ ~rcv'[r].closed
             /\ \A m \in Objs : <<r, "stream">> \notin ms'[m].subs
             /\ \A p \in Publishers : pub'[p].cur # r /\ <<r, "stream">> \notin pub'[p].pend
  <2>1. ~rcv[r].closed /\ \A m \in Objs : <<r, "stream">> \notin ms[m].subs
    BY <1>5 DEF SetUpInv, SettingUp
  <2>2. \A p \in Publishers : pub[p].cur # r /\ <<r, "stream">> \notin pub[p].pend
    BY <1>5 DEF SetUpInv, SettingUp
  <2>3. r \notin S
    BY <1>1, <1>5 DEF Legit
  <2>4. ~rcv'[r].closed /\ \A m \in Objs : <<r, "stream">> \notin ms'[m].subs
    BY <1>1, <1>3, <2>1, <2>3 DEF Settled
  <2>5. Published
    BY DEF Other
  <2>6. \A p \in Publishers : <<r, "stream">> \notin pub'[p].pend
    BY <2>1, <2>2, <2>5 DEF Published
  <2>7. \A p \in Publishers : pub'[p].cur # r
    BY <1>3, <2>2, <2>5, NoneIs DEF Published
  <2> QED BY <2>4, <2>6, <2>7
<1>6. ASSUME cl[c].pc = "add", ~rcv'[r].closed PROVE "unsub" \in rcv'[r].hooks
  <2>1. r \notin S /\ ~rcv[r].closed
    BY <1>1, <1>3, <1>6 DEF Settled
  <2>2. "unsub" \in rcv[r].hooks
    BY <1>6, <2>1 DEF SetUpInv, SettingUp
  <2> QED BY <1>1, <1>3, <2>1, <2>2 DEF Settled
<1>7. ASSUME cl[c].pc = "add", rcv'[r].closed, NEW m \in Objs PROVE ms'[m].subs \cap HandlersOf(r) = {}
  <2>1. CASE rcv[r].closed
    <3>1. ms[m].subs \cap HandlersOf(r) = {}
      BY <1>7, <2>1 DEF SetUpInv, SettingUp
    <3> QED BY <1>1, <3>1 DEF Settled
  <2>2. CASE ~rcv[r].closed
    <3>1. r \in S /\ "unsub" \in rcv[r].hooks
      BY <1>1, <1>3, <1>7, <2>2 DEF Settled, SetUpInv, SettingUp
    <3>2. CASE m = rcv[r].obj
      BY <1>1, <2>2, <3>1, <3>2 DEF Settled
    <3>3. CASE m # rcv[r].obj
      <4>1. <<r, "tracker">> \notin ms'[m].subs /\ <<r, "stream">> \notin ms'[m].subs
        BY <1>1, <1>3, <3>3 DEF PlaceInv, Settled
      <4>2. ms'[m].subs \in SUBSET Handler
        BY <1>1 DEF Settled, Managed
      <4> QED BY <1>3, <4>1, <4>2, HandlersIs
    <3> QED BY <3>2, <3>3
  <2> QED BY <2>1, <2>2
<1> QED BY <1>2, <1>4, <1>5, <1>6, <1>7

\* The clauses of SetUpInv for one client.
SetUpOK(c) ==
    cl[c].pc \in SettingUp =>
      LET r == cl[c].rcv IN
      /\ \A m \in Objs : r \notin ms[m].streams
      /\ cl[c].pc = "stream" =>
           /\ ~rcv[r].closed
           /\ \A m \in Objs : <<r, "stream">> \notin ms[m].subs
           /\ \A p \in Publishers : pub[p].cur # r /\ <<r, "stream">> \notin pub[p].pend
      /\ cl[c].pc = "add" /\ ~rcv[r].closed => "unsub" \in rcv[r].hooks
      /\ cl[c].pc = "add" /\ rcv[r].closed => \A m \in Objs : ms[m].subs \cap HandlersOf(r) = {}

\* A set-up of another receiver leaves client d's alone.
LEMMA SetUpApart ==
    ASSUME ServiceInv, NEW d \in Clients, cl'[d] = cl[d], NEW q, cl[d].rcv # q,
           \A r \in Receivers : r # q =>
               rcv'[r].hooks = rcv[r].hooks /\ (rcv'[r].closed <=> rcv[r].closed),
           ms' \in [Objs -> Managed],
           \A m \in Objs : \A r \in ms'[m].streams : r \in ms[m].streams \/ r = q,
           \A m \in Objs : \A h \in ms'[m].subs : h \in ms[m].subs \/ h[1] = q,
           pub' = pub
    PROVE  SetUpOK(d)'
<1> USE DEF ServiceInv
<1> SUFFICES ASSUME cl[d].pc \in SettingUp
             PROVE  LET r == cl[d].rcv IN
                    /\ \A m \in Objs : r \notin ms'[m].streams
                    /\ cl[d].pc = "stream" =>
                         /\ ~rcv'[r].closed
                         /\ \A m \in Objs : <<r, "stream">> \notin ms'[m].subs
                         /\ \A p \in Publishers : pub[p].cur # r /\ <<r, "stream">> \notin pub[p].pend
                    /\ cl[d].pc = "add" /\ ~rcv'[r].closed => "unsub" \in rcv'[r].hooks
                    /\ cl[d].pc = "add" /\ rcv'[r].closed => \A m \in Objs : ms'[m].subs \cap HandlersOf(r) = {}
    BY DEF SetUpOK
<1> DEFINE r == cl[d].rcv
<1>1. r \in Receivers /\ SetUpOK(d)
    BY DEF ClientInv, ClientOK, Holding, TypeOK, Client, SetUpInv, SetUpOK
<1>2. rcv'[r].hooks = rcv[r].hooks /\ (rcv'[r].closed <=> rcv[r].closed)
    BY <1>1
<1>3. \A m \in Objs : r \notin ms'[m].streams
    BY <1>1 DEF SetUpOK
<1>4. \A m \in Objs, x \in {"tracker", "stream"} : <<r, x>> \in ms'[m].subs => <<r, x>> \in ms[m].subs
    BY <1>1
<1>5. ASSUME NEW m \in Objs, ms[m].subs \cap HandlersOf(r) = {} PROVE ms'[m].subs \cap HandlersOf(r) = {}
  <2>1. ms[m].subs \in SUBSET Handler /\ ms'[m].subs \in SUBSET Handler
    BY DEF TypeOK, Managed
  <2> QED BY <1>1, <1>4, <1>5, <2>1, HandlersIs
<1> QED BY <1>1, <1>2, <1>3, <1>4, <1>5 DEF SetUpOK

LEMMA SetUpStep ==
    ASSUME ServiceInv, Next
    PROVE  SetUpInv'
<1> USE DEF ServiceInv
<1>0. (\A d \in Clients : SetUpOK(d)') => SetUpInv'
    BY DEF SetUpOK, SetUpInv
<1>2. ASSUME NEW c \in Clients, SetUps(c) PROVE SetUpInv'
  <2>1. ASSUME NEW r \in Receivers, Made(c, r) PROVE SetUpInv'
    <3>1. rcv[r].kind = "free" /\ rcv[r].obj = None /\ ~rcv[r].closed
      BY <2>1 DEF Made, ReceiverInv
    <3>2. ASSUME NEW d \in Clients, d # c PROVE SetUpOK(d)'
      <4>1. cl[d].rcv # r /\ cl'[d] = cl[d]
        <5>1. cl'[d] = cl[d]
          BY <2>1, <3>2 DEF Made, Moved
        <5>2. cl[d].rcv # r
          BY <3>1, NoneIs DEF ClientInv, ClientOK
        <5> QED BY <5>1, <5>2
      <4>2. /\ \A q \in Receivers : q # r =>
                 rcv'[q].hooks = rcv[q].hooks /\ (rcv'[q].closed <=> rcv[q].closed)
            /\ ms' \in [Objs -> Managed] /\ pub' = pub
            /\ \A m \in Objs : \A q \in ms'[m].streams : q \in ms[m].streams \/ q = r
            /\ \A m \in Objs : \A h \in ms'[m].subs : h \in ms[m].subs \/ h[1] = r
        BY <2>1 DEF Made
      <4> QED BY <4>1, <4>2, SetUpApart
    <3>3. SetUpOK(c)'
      <4>1. cl'[c].pc = "stream" /\ cl'[c].rcv = r /\ ~rcv'[r].closed /\ pub' = pub
        BY <2>1, <3>1 DEF Made, Moved
      <4>2. \A m \in Objs : r \notin ms'[m].streams
        BY <2>1, <3>1, NoneIs DEF Made, PlaceInv
      <4>3. \A m \in Objs : <<r, "stream">> \notin ms'[m].subs
        BY <2>1, <3>1, NoneIs, ZenonT(30) DEF Made, PlaceInv
      <4>4. \A p \in Publishers : pub[p].cur # r /\ <<r, "stream">> \notin pub[p].pend
        BY <3>1, NoneIs DEF TurnInv
      <4> QED BY <4>1, <4>2, <4>3, <4>4 DEF SetUpOK
    <3> QED BY <1>0, <3>2, <3>3
  <2> DEFINE r == cl[c].rcv
  <2>2. cl[c].pc \in SettingUp =>
          /\ r \in Receivers /\ rcv[r].obj = cl[c].obj /\ rcv[r].obj \in Objs
          /\ \A d \in Clients : d # c => cl[d].rcv # r
    BY NoneIs DEF ClientInv, ClientOK, Holding, TypeOK, Client, SoleInv
  <2>3. CASE Subscribed(c)
    <3>1. ASSUME NEW d \in Clients, d # c PROVE SetUpOK(d)'
      <4>1. cl[d].rcv # r /\ cl'[d] = cl[d]
        BY <2>2, <2>3, <3>1 DEF Subscribed, Went, Moved, SettingUp
      <4>2. /\ \A q \in Receivers : q # r =>
                 rcv'[q].hooks = rcv[q].hooks /\ (rcv'[q].closed <=> rcv[q].closed)
            /\ ms' \in [Objs -> Managed] /\ pub' = pub
            /\ \A m \in Objs : \A q \in ms'[m].streams : q \in ms[m].streams \/ q = r
            /\ \A m \in Objs : \A h \in ms'[m].subs : h \in ms[m].subs \/ h[1] = r
        BY <2>3 DEF Subscribed
      <4> QED BY <4>1, <4>2, SetUpApart
    <3>2. SetUpOK(c)'
      BY <2>3 DEF Subscribed, Went, Moved, SetUpOK, SetUpInv, SettingUp
    <3> QED BY <1>0, <3>1, <3>2
  <2>4. CASE Hooked(c)
    <3>1. ASSUME NEW d \in Clients, d # c PROVE SetUpOK(d)'
      <4>1. cl[d].rcv # r /\ cl'[d] = cl[d]
        BY <2>2, <2>4, <3>1 DEF Hooked, Went, Moved, SettingUp
      <4>2. /\ \A q \in Receivers : q # r =>
                 rcv'[q].hooks = rcv[q].hooks /\ (rcv'[q].closed <=> rcv[q].closed)
            /\ ms' \in [Objs -> Managed] /\ pub' = pub
            /\ \A m \in Objs : \A q \in ms'[m].streams : q \in ms[m].streams \/ q = r
            /\ \A m \in Objs : \A h \in ms'[m].subs : h \in ms[m].subs \/ h[1] = r
        BY <2>4 DEF Hooked
      <4> QED BY <4>1, <4>2, SetUpApart
    <3>2. SetUpOK(c)'
      <4>1. cl'[c].pc = "add" /\ cl'[c].rcv = r /\ r \in Receivers /\ (rcv'[r].closed <=> rcv[r].closed)
        BY <2>2, <2>4 DEF Hooked, Went, Moved, SettingUp
      <4>2. \A m \in Objs : r \notin ms'[m].streams
        BY <2>4 DEF Hooked, SetUpInv, SettingUp
      <4>3. ~rcv[r].closed => "unsub" \in rcv'[r].hooks
        BY <2>4 DEF Hooked
      <4>4. ASSUME rcv[r].closed, NEW m \in Objs PROVE ms'[m].subs \cap HandlersOf(r) = {}
        <5>1. CASE m = rcv[r].obj
          BY <2>4, <4>4, <5>1 DEF Hooked
        <5>2. CASE m # rcv[r].obj
          <6>1. <<r, "tracker">> \notin ms'[m].subs /\ <<r, "stream">> \notin ms'[m].subs
            BY <2>4, <4>1, <5>2 DEF PlaceInv, Hooked
          <6>2. ms'[m].subs \in SUBSET Handler
            BY <2>4 DEF Hooked, Managed
          <6> QED BY <4>1, <6>1, <6>2, HandlersIs
        <5> QED BY <5>1, <5>2
      <4> QED BY <4>1, <4>2, <4>3, <4>4 DEF SetUpOK
    <3> QED BY <1>0, <3>1, <3>2
  <2>5. CASE Added(c)
    <3>1. ASSUME NEW d \in Clients, d # c PROVE SetUpOK(d)'
      <4>1. cl[d].rcv # r /\ cl'[d] = cl[d]
        BY <2>2, <2>5, <3>1 DEF Added, Went, Back, Moved, SettingUp
      <4>2. /\ \A q \in Receivers : q # r =>
                 rcv'[q].hooks = rcv[q].hooks /\ (rcv'[q].closed <=> rcv[q].closed)
            /\ ms' \in [Objs -> Managed] /\ pub' = pub
            /\ \A m \in Objs : \A q \in ms'[m].streams : q \in ms[m].streams \/ q = r
            /\ \A m \in Objs : \A h \in ms'[m].subs : h \in ms[m].subs \/ h[1] = r
        BY <2>5 DEF Added
      <4> QED BY <4>1, <4>2, SetUpApart
    <3>2. SetUpOK(c)'
      BY <2>5 DEF Added, Went, Back, Moved, SetUpOK, SettingUp
    <3> QED BY <1>0, <3>1, <3>2
  <2> QED BY <1>2, <2>1, <2>3, <2>4, <2>5 DEF SetUps
<1> QED BY <1>2, Steps, SetUpOther

LEMMA OpenStep ==
    ASSUME ServiceInv, Next
    PROVE  OpenInv'
<1> USE DEF ServiceInv
<1>1. CASE Other
  <2>1. PICK D \in SUBSET Receivers, S \in SUBSET Receivers : Settled(D, S) /\ Legit(D, S)
    BY <1>1 DEF Other, Settling
  <2>2. ASSUME NEW r \in Receivers, rcv'[r].kind # "free", ~rcv'[r].closed, ~BeingSetUp(r)'
        PROVE  r \in ms'[rcv'[r].obj].streams /\ "unsub" \in rcv'[r].hooks /\ "remove" \in rcv'[r].hooks
    <3>1. ~BeingSetUp(r)
      BY <1>1, <2>2, SetUpSame DEF Other
    <3>2. /\ rcv[r].kind # "free" /\ ~rcv[r].closed /\ r \notin S /\ rcv'[r].obj = rcv[r].obj
          /\ rcv'[r].hooks = rcv[r].hooks
      BY <2>1, <2>2 DEF Settled
    <3>3. /\ r \in ms[rcv[r].obj].streams /\ "unsub" \in rcv[r].hooks /\ "remove" \in rcv[r].hooks
          /\ rcv[r].obj \in Objs
      BY <3>1, <3>2 DEF OpenInv, ReceiverInv
    <3>4. r \in ms'[rcv[r].obj].streams
      BY <2>1, <3>2, <3>3 DEF Settled
    <3> QED BY <3>2, <3>3, <3>4
  <2> QED BY <2>2 DEF OpenInv
<1>2. ASSUME NEW c \in Clients, SetUps(c),
             NEW r \in Receivers, rcv'[r].kind # "free", ~rcv'[r].closed, ~BeingSetUp(r)'
      PROVE  r \in ms'[rcv'[r].obj].streams /\ "unsub" \in rcv'[r].hooks /\ "remove" \in rcv'[r].hooks
  <2>0. \A d \in Clients : cl'[d].rcv = r => cl'[d].pc \notin SettingUp
    BY <1>2 DEF BeingSetUp, SettingUp
  <2>1. ASSUME ~BeingSetUp(r), rcv[r].kind # "free", ~rcv[r].closed
        PROVE  /\ r \in ms[rcv[r].obj].streams /\ "unsub" \in rcv[r].hooks /\ "remove" \in rcv[r].hooks
               /\ rcv[r].obj \in Objs
    BY <2>1 DEF OpenInv, ReceiverInv
  <2>2. (\A d \in Clients : cl[d].rcv = r => cl[d].pc \notin SettingUp) => ~BeingSetUp(r)
    BY DEF BeingSetUp, SettingUp
  <2>3. ASSUME NEW q \in Receivers, Made(c, q)
        PROVE  r \in ms'[rcv'[r].obj].streams /\ "unsub" \in rcv'[r].hooks /\ "remove" \in rcv'[r].hooks
    <3>1. r # q /\ rcv'[r] = rcv[r] /\ cl[c].pc \notin SettingUp
      BY <2>0, <2>3 DEF Made, Moved, SettingUp
    <3>2. ~BeingSetUp(r)
      BY <2>0, <2>2, <2>3, <3>1 DEF Made, Moved
    <3> QED BY <1>2, <2>1, <2>3, <3>1, <3>2 DEF Made
  <2>4. CASE Subscribed(c)
    <3>1. cl[c].rcv # r
      BY <2>0, <2>4 DEF Subscribed, Went, Moved, SettingUp
    <3>2. ~BeingSetUp(r)
      BY <2>0, <2>2, <2>4, <3>1 DEF Subscribed, Went, Moved
    <3> QED BY <1>2, <2>1, <2>4, <3>2 DEF Subscribed
  <2>5. CASE Hooked(c)
    <3>1. cl[c].rcv # r
      BY <2>0, <2>5 DEF Hooked, Went, Moved, SettingUp
    <3>2. ~BeingSetUp(r)
      BY <2>0, <2>2, <2>5, <3>1 DEF Hooked, Went, Moved
    <3>3. rcv'[r].kind = rcv[r].kind /\ rcv'[r].obj = rcv[r].obj /\ (rcv'[r].closed <=> rcv[r].closed) /\ rcv'[r].hooks = rcv[r].hooks
      BY <2>5, <3>1 DEF Hooked
    <3> QED BY <1>2, <2>1, <2>5, <3>2, <3>3 DEF Hooked
  <2>6. CASE Added(c)
    <3>1. rcv'[r].kind = rcv[r].kind /\ rcv'[r].obj = rcv[r].obj /\ (rcv'[r].closed <=> rcv[r].closed) /\ rcv[r].hooks \subseteq rcv'[r].hooks
      BY <2>6 DEF Added
    <3>2. CASE cl[c].rcv # r
      <4>1. ~BeingSetUp(r)
        BY <2>0, <2>2, <2>6, <3>2 DEF Added, Went, Back, Moved
      <4>2. \A m \in Objs : ms[m].streams \subseteq ms'[m].streams
        BY <2>6 DEF Added
      <4> QED BY <1>2, <2>1, <3>1, <4>1, <4>2
    <3>3. CASE cl[c].rcv = r
      <4>1. "unsub" \in rcv[r].hooks /\ rcv[r].obj = cl[c].obj
        BY <1>2, <2>6, <3>1, <3>3, NoneIs DEF Added, SetUpInv, SettingUp, ClientInv, ClientOK
      <4> QED BY <1>2, <2>6, <3>1, <3>3, <4>1 DEF Added
    <3> QED BY <3>2, <3>3
  <2> QED BY <1>2, <2>3, <2>4, <2>5, <2>6 DEF SetUps
<1>3. ASSUME NEW c \in Clients, SetUps(c) PROVE OpenInv'
    BY <1>2, <1>3 DEF OpenInv
<1> QED BY <1>1, <1>3, Steps

LEMMA DetachedStep ==
    ASSUME ServiceInv, Next
    PROVE  ClosedIsDetached'
<1> USE DEF ServiceInv
<1>1. CASE Other
  <2>1. PICK D \in SUBSET Receivers, S \in SUBSET Receivers : Settled(D, S) /\ Legit(D, S)
    BY <1>1 DEF Other, Settling
  <2>2. ASSUME NEW r \in Receivers, rcv'[r].closed, ~BeingSetUp(r)', NEW m \in Objs
        PROVE  r \notin ms'[m].streams /\ ms'[m].subs \cap HandlersOf(r) = {}
    <3>1. ~BeingSetUp(r)
      BY <1>1, <2>2, SetUpSame DEF Other
    <3>2. rcv[r].closed \/ r \in S
      BY <2>1, <2>2 DEF Settled
    <3> QED BY <2>1, <3>1, <3>2, Detaches
  <2> QED BY <2>2 DEF ClosedIsDetached
<1>2. ASSUME NEW c \in Clients, SetUps(c), NEW r \in Receivers, rcv'[r].closed, ~BeingSetUp(r)', NEW m \in Objs
      PROVE  r \notin ms'[m].streams /\ ms'[m].subs \cap HandlersOf(r) = {}
  <2>0. \A d \in Clients : cl'[d].rcv = r => cl'[d].pc \notin SettingUp
    BY <1>2 DEF BeingSetUp, SettingUp
  <2>2. (\A d \in Clients : cl[d].rcv = r => cl[d].pc \notin SettingUp) => ~BeingSetUp(r)
    BY DEF BeingSetUp, SettingUp
  <2>1. ASSUME ~BeingSetUp(r), rcv[r].closed
        PROVE  /\ r \notin ms[m].streams
               /\ <<r, "tracker">> \notin ms[m].subs /\ <<r, "stream">> \notin ms[m].subs
    <3>1. ms[m].subs \in SUBSET Handler
      BY DEF TypeOK, Managed
    <3>2. r \notin ms[m].streams /\ ms[m].subs \cap HandlersOf(r) = {}
      BY <2>1 DEF ClosedIsDetached
    <3> QED BY <3>1, <3>2, HandlersIs
  <2>7. ASSUME r \notin ms'[m].streams, <<r, "tracker">> \notin ms'[m].subs, <<r, "stream">> \notin ms'[m].subs,
               ms' \in [Objs -> Managed]
        PROVE  r \notin ms'[m].streams /\ ms'[m].subs \cap HandlersOf(r) = {}
    <3>1. ms'[m].subs \in SUBSET Handler
      BY <2>7 DEF Managed
    <3> QED BY <2>7, <3>1, HandlersIs
  <2>3. ASSUME NEW q \in Receivers, Made(c, q)
        PROVE  r \notin ms'[m].streams /\ ms'[m].subs \cap HandlersOf(r) = {}
    <3>1. r # q /\ rcv'[r] = rcv[r] /\ cl[c].pc \notin SettingUp
      BY <2>0, <2>3 DEF Made, Moved, SettingUp
    <3>2. ~BeingSetUp(r)
      BY <2>0, <2>2, <2>3, <3>1 DEF Made, Moved
    <3>3. /\ r \notin ms'[m].streams /\ <<r, "tracker">> \notin ms'[m].subs
          /\ <<r, "stream">> \notin ms'[m].subs /\ ms' \in [Objs -> Managed]
      BY <1>2, <2>1, <2>3, <3>1, <3>2 DEF Made
    <3> QED BY <2>7, <3>3
  <2>4. CASE Subscribed(c)
    <3>1. cl[c].rcv # r
      BY <2>0, <2>4 DEF Subscribed, Went, Moved, SettingUp
    <3>2. ~BeingSetUp(r)
      BY <2>0, <2>2, <2>4, <3>1 DEF Subscribed, Went, Moved
    <3>3. /\ r \notin ms'[m].streams /\ <<r, "tracker">> \notin ms'[m].subs
          /\ <<r, "stream">> \notin ms'[m].subs /\ ms' \in [Objs -> Managed]
      BY <1>2, <2>1, <2>4, <3>1, <3>2 DEF Subscribed
    <3> QED BY <2>7, <3>3
  <2>5. CASE Hooked(c)
    <3>1. cl[c].rcv # r
      BY <2>0, <2>5 DEF Hooked, Went, Moved, SettingUp
    <3>2. ~BeingSetUp(r)
      BY <2>0, <2>2, <2>5, <3>1 DEF Hooked, Went, Moved
    <3>3. rcv[r].closed /\ ms'[m].subs \subseteq ms[m].subs /\ ms'[m].streams = ms[m].streams /\ ms' \in [Objs -> Managed]
      BY <1>2, <2>5 DEF Hooked
    <3> QED BY <2>1, <2>7, <3>2, <3>3
  <2>6. CASE Added(c)
    <3>1. rcv[r].closed /\ ms'[m].subs = ms[m].subs /\ ms' \in [Objs -> Managed]
      BY <1>2, <2>6 DEF Added
    <3>2. CASE cl[c].rcv # r
      <4>1. ~BeingSetUp(r)
        BY <2>0, <2>2, <2>6, <3>2 DEF Added, Went, Back, Moved
      <4>2. r \in ms'[m].streams => r \in ms[m].streams
        BY <2>6, <3>2 DEF Added
      <4> QED BY <2>1, <2>7, <3>1, <4>1, <4>2
    <3>3. CASE cl[c].rcv = r
      <4>1. ms[m].subs \cap HandlersOf(r) = {} /\ r \notin ms[m].streams
        BY <2>6, <3>1, <3>3 DEF Added, SetUpInv, SettingUp
      <4>2. ms'[m].streams = ms[m].streams
        BY <2>6, <3>1, <3>3 DEF Added
      <4> QED BY <3>1, <4>1, <4>2
    <3> QED BY <3>2, <3>3
  <2> QED BY <1>2, <2>3, <2>4, <2>5, <2>6 DEF SetUps
<1>3. ASSUME NEW c \in Clients, SetUps(c) PROVE ClosedIsDetached'
    BY <1>2, <1>3 DEF ClosedIsDetached
<1> QED BY <1>1, <1>3, Steps

LEMMA SoleStep ==
    ASSUME ServiceInv, Next
    PROVE  SoleInv'
<1> USE DEF ServiceInv
<1>0. \A c \in Clients : cl[c].rcv \in Receivers \cup {None}
    BY DEF TypeOK, Client
<1>1. CASE Other
  <2>1. HeldKept /\ Handed
    BY <1>1 DEF Other
  <2>2. ASSUME NEW c \in Clients, cl'[c].rcv # None
        PROVE  (\A d \in Clients : cl'[d].rcv = cl'[c].rcv => d = c) /\ ~rcv'[cl'[c].rcv].returned
    <3>1. cl'[c].rcv = cl[c].rcv /\ cl[c].rcv \in Receivers
      BY <1>0, <2>1, <2>2 DEF HeldKept
    <3>2. \A d \in Clients : cl'[d].rcv = cl'[c].rcv => d = c
      BY <2>1, <2>2, <3>1 DEF HeldKept, SoleInv
    <3>3. ~rcv'[cl[c].rcv].returned
      BY <2>1, <2>2, <3>1 DEF Handed, SoleInv
    <3> QED BY <3>1, <3>2, <3>3
  <2> QED BY <2>2 DEF SoleInv
<1>2. ASSUME NEW c \in Clients, SetUps(c) PROVE SoleInv'
  <2>1. ASSUME NEW r \in Receivers, Made(c, r) PROVE SoleInv'
    <3>1. rcv[r].kind = "free" /\ ~rcv'[r].returned /\ cl'[c].rcv = r
      BY <2>1 DEF Made, Moved, ReceiverInv
    <3>2. \A d \in Clients : cl[d].rcv # r
      BY <3>1, NoneIs DEF ClientInv, ClientOK
    <3>3. \A d \in Clients : d # c => cl'[d] = cl[d]
      BY <2>1 DEF Made, Moved
    <3>4. \A q \in Receivers : q # r => rcv'[q] = rcv[q]
      BY <2>1 DEF Made
    <3> QED BY <1>0, <3>1, <3>2, <3>3, <3>4 DEF SoleInv
  <2>2. CASE Subscribed(c) \/ Hooked(c)
    <3>1. /\ \A d \in Clients : cl'[d].rcv = cl[d].rcv
          /\ \A q \in Receivers : rcv'[q].returned <=> rcv[q].returned
      BY <2>2 DEF Subscribed, Hooked, Went, Moved
    <3> QED BY <1>0, <3>1 DEF SoleInv
  <2>3. CASE Added(c)
    <3>0. cl[c].rcv # None
      BY <2>3 DEF Added, ClientInv, ClientOK, Holding, SettingUp
    <3>1. CASE cl[c].op = "events"
      <4>1. /\ \A d \in Clients : cl'[d].rcv = IF d = c THEN None ELSE cl[d].rcv
            /\ \A q \in Receivers : rcv'[q].returned <=> (rcv[q].returned \/ q = cl[c].rcv)
        BY <2>3, <3>1 DEF Added, Back, Moved
      <4> QED BY <1>0, <3>0, <4>1 DEF SoleInv
    <3>2. CASE cl[c].op # "events"
      <4>1. /\ \A d \in Clients : cl'[d].rcv = cl[d].rcv
            /\ \A q \in Receivers : rcv'[q].returned <=> rcv[q].returned
        BY <2>3, <3>2 DEF Added, Went, Moved
      <4> QED BY <1>0, <4>1 DEF SoleInv
    <3> QED BY <3>1, <3>2
  <2> QED BY <1>2, <2>1, <2>2, <2>3 DEF SetUps
<1> QED BY <1>1, <1>2, Steps

-----------------------------------------------------------------------------
(* The calls *)

KindKept ==
    \A r \in Receivers : rcv[r].kind # "free" => rcv'[r].kind = rcv[r].kind /\ rcv'[r].obj = rcv[r].obj

LEMMA KindStep ==
    ASSUME ServiceInv, Next
    PROVE  KindKept
<1>1. CASE Other
    BY <1>1 DEF Other, Settling, Settled, KindKept
<1>2. ASSUME NEW c \in Clients, SetUps(c) PROVE KindKept
    BY <1>2 DEF SetUps, Made, Subscribed, Hooked, Added, KindKept
<1> QED BY <1>1, <1>2, Steps

LEMMA HeldIs ==
    ASSUME TypeOK, ClientInv, NEW c \in Clients, cl[c].rcv # None
    PROVE  cl[c].rcv \in Receivers /\ rcv[cl[c].rcv].kind # "free"
BY DEF TypeOK, Client, ClientInv, ClientOK

LEMMA ClientApart ==
    ASSUME TypeOK, ClientInv, KindKept, NEW d \in Clients, cl'[d] = cl[d]
    PROVE  ClientOK(d)'
<1>1. cl[d].rcv # None => /\ rcv'[cl[d].rcv].obj = rcv[cl[d].rcv].obj
                          /\ rcv'[cl[d].rcv].kind = rcv[cl[d].rcv].kind
    BY HeldIs DEF KindKept
<1>2. ClientOK(d)
    BY DEF ClientInv
<1> QED BY <1>1, <1>2 DEF ClientOK

LEMMA BackOK ==
    ASSUME NEW c \in Clients, Back(c)
    PROVE  ClientOK(c)'
BY DEF Back, Moved, ClientOK, Holding, SettingUp, TearingPC

\* A call that holds no receiver goes on.
LEMMA FreeOK ==
    ASSUME NEW c \in Clients, NEW pc, NEW op, NEW m, Moved(c, pc, op, m, None), pc \notin Holding,
           pc \in TearingPC \cup {"track", "events", "control", "emit", "delete"} => m \in Objs,
           pc = "track" => op \in {"send", "continue"}, pc = "events" => op = "events",
           pc = "control" => op \in Event
    PROVE  ClientOK(c)'
BY DEF Moved, ClientOK, Holding

LEMMA WentFree ==
    ASSUME ClientInv, NEW c \in Clients, NEW pc, Went(c, pc), cl[c].pc \notin Holding, pc \notin Holding,
           pc \notin {"track", "events", "control"},
           pc \in TearingPC \cup {"emit", "delete"} => cl[c].obj \in Objs
    PROVE  ClientOK(c)'
<1>1. cl[c].rcv = None
    BY DEF ClientInv, ClientOK
<1>2. Moved(c, pc, cl[c].op, cl[c].obj, None)
    BY <1>1 DEF Went
<1> QED BY <1>2, FreeOK

\* A call that holds a receiver keeps it.
LEMMA WentHeld ==
    ASSUME TypeOK, ClientInv, KindKept, NEW c \in Clients, NEW pc \in Holding, Went(c, pc),
           cl[c].pc \in Holding, pc \in SettingUp => cl[c].pc \in SettingUp,
           pc \notin SettingUp => cl[c].op \in {"send", "continue"}
    PROVE  ClientOK(c)'
<1>1. cl[c].rcv # None /\ cl[c].obj \in Objs /\ ClientOK(c)
    BY DEF ClientInv, ClientOK
<1>2. /\ rcv'[cl[c].rcv].obj = rcv[cl[c].rcv].obj /\ rcv'[cl[c].rcv].kind = rcv[cl[c].rcv].kind
    BY <1>1, HeldIs DEF KindKept
<1>3. cl'[c].pc = pc /\ cl'[c].op = cl[c].op /\ cl'[c].obj = cl[c].obj /\ cl'[c].rcv = cl[c].rcv
    BY DEF Went, Moved
<1>4. pc # "events" /\ pc # "control" /\ pc # "track"
    BY DEF Holding, SettingUp
<1>5. pc \in {"start", "launch", "failed"} => cl[c].op \in {"send", "continue"}
    BY DEF SettingUp
<1> QED BY <1>1, <1>2, <1>3, <1>4, <1>5 DEF ClientOK

LEMMA CallsClient ==
    ASSUME ServiceInv, Next, NEW c \in Clients, ClientCalls(c)
    PROVE  ClientInv'
<1> USE DEF ServiceInv
<1>0. KindKept
    BY KindStep
<1>1. CASE CreateSession(c)
    BY <1>0, <1>1, CreateMove, ClientApart DEF ClientInv
<1>2. CASE Gets(c)
  <2>1. \A d \in Clients : d # c => cl'[d] = cl[d]
    BY <1>2, GetMove DEF Moved
  <2>2. ClientOK(c)'
    <3>1. PICK m \in Objs : \/ Moved(c, "track", "send", m, None)
                            \/ Moved(c, "track", "continue", m, None)
                            \/ Moved(c, "events", "events", m, None)
                            \/ \E op \in Event : Moved(c, "control", op, m, None)
      BY <1>2, GetMove
    <3>2. {"track", "events", "control"} \cap Holding = {}
      BY DEF Holding, SettingUp
    <3> QED BY <3>1, <3>2, FreeOK
  <2> QED BY <1>0, <2>1, <2>2, ClientApart DEF ClientInv
<1>3. CASE DestroySession(c)
  <2>1. PICK m \in Objs : Moved(c, "stop", "destroy", m, None)
    BY <1>3, DestroyMove
  <2>2. ClientOK(c)'
    BY <2>1, FreeOK DEF Holding, SettingUp
  <2> QED BY <1>0, <2>1, <2>2, ClientApart DEF ClientInv, Moved
<1>4. CASE Close(c)
  <2>1. ClientOK(c)' /\ \A d \in Clients : d # c => cl'[d] = cl[d]
    <3>1. CASE Moved(c, "next", "close", None, None)
      BY <3>1, FreeOK DEF Holding, SettingUp, TearingPC, Moved
    <3>2. CASE Back(c)
      BY <3>2, BackOK DEF Back, Moved
    <3>3. CASE Went(c, "again")
      <4>1. cl[c].pc \notin Holding
        BY <1>4, CloseMove DEF Holding, SettingUp
      <4> QED BY <3>3, <4>1, WentFree DEF Holding, SettingUp, TearingPC, Went, Moved
    <3> QED BY <1>4, <3>1, <3>2, <3>3, CloseMove
  <2> QED BY <1>0, <2>1, ClientApart DEF ClientInv
<1> QED BY <1>1, <1>2, <1>3, <1>4 DEF ClientCalls, Gets

LEMMA StepsClient ==
    ASSUME ServiceInv, Next, NEW c \in Clients, ClientStep(c)
    PROVE  ClientInv'
<1> USE DEF ServiceInv
<1>0. KindKept /\ ClientOK(c)
    BY KindStep DEF ClientInv
<1>20. (\A d \in Clients : d # c => cl'[d] = cl[d]) /\ ClientOK(c)' => ClientInv'
    BY <1>0, ClientApart DEF ClientInv
<1>21. CASE Back(c)
    BY <1>20, <1>21, BackOK DEF Back, Moved
<1>22. ASSUME NEW pc, Went(c, pc), cl[c].pc \notin Holding, pc \notin Holding, pc \notin {"track", "events", "control"},
              pc \in TearingPC \cup {"emit", "delete"} => cl[c].obj \in Objs
       PROVE  ClientInv'
    BY <1>20, <1>22, WentFree DEF Went, Moved
<1>1. CASE NewTurnScopedReceiver(c) \/ NewEventsReceiver(c)
  <2>1. PICK r \in Receivers : Made(c, r)
    BY <1>1, TurnMove, EventsMove
  <2>2. /\ cl'[c].pc = "stream" /\ cl'[c].op = cl[c].op /\ cl'[c].obj = cl[c].obj /\ cl'[c].rcv = r
        /\ \A d \in Clients : d # c => cl'[d] = cl[d]
    BY <2>1 DEF Made, Moved
  <2>3. /\ rcv'[r].obj = cl[c].obj /\ rcv'[r].kind = IF cl[c].op = "events" THEN "events" ELSE "turn"
        /\ cl[c].pc \in {"track", "events"}
    BY <2>1 DEF Made
  <2>4. cl[c].obj \in Objs /\ cl[c].op \in {"send", "continue", "events"}
    BY <1>0, <2>3 DEF ClientOK
  <2>5. ClientOK(c)'
    BY <2>2, <2>3, <2>4, NoneIs DEF ClientOK, Holding, SettingUp
  <2> QED BY <1>20, <2>2, <2>5
<1>2. CASE SubscribeStream(c)
  <2>1. cl[c].pc = "stream" /\ Went(c, "hook")
    BY <1>2, SubscribeMove DEF Subscribed
  <2>2. ClientOK(c)'
    BY <1>0, <2>1, WentHeld DEF Holding, SettingUp
  <2> QED BY <1>20, <2>1, <2>2 DEF Went, Moved
<1>3. CASE HookUnsubscribe(c)
  <2>1. cl[c].pc = "hook" /\ Went(c, "add")
    BY <1>3, HookMove DEF Hooked
  <2>2. ClientOK(c)'
    BY <1>0, <2>1, WentHeld DEF Holding, SettingUp
  <2> QED BY <1>20, <2>1, <2>2 DEF Went, Moved
<1>4. CASE AddStream(c)
  <2>1. cl[c].pc = "add" /\ (Back(c) \/ (Went(c, "start") /\ cl[c].op # "events"))
    BY <1>4, AddMove DEF Added
  <2>2. CASE Went(c, "start") /\ cl[c].op # "events"
    <3>1. cl[c].op \in {"send", "continue"}
      BY <1>0, <2>1, <2>2 DEF ClientOK, SettingUp
    <3>2. ClientOK(c)'
      BY <1>0, <2>1, <2>2, <3>1, WentHeld DEF Holding, SettingUp
    <3> QED BY <1>20, <2>2, <3>2 DEF Went, Moved
  <2> QED BY <1>21, <2>1, <2>2
<1>5. CASE StartTurn(c) \/ LaunchLoop(c) \/ LaunchFailed(c)
  <2>1. \/ Back(c)
        \/ cl[c].pc = "start" /\ Went(c, "launch")
        \/ cl[c].pc = "launch" /\ Went(c, "failed")
    BY <1>5, StartMove, LaunchMove, FailedMove
  <2>2. CASE \/ cl[c].pc = "start" /\ Went(c, "launch")
             \/ cl[c].pc = "launch" /\ Went(c, "failed")
    <3>1. cl[c].op \in {"send", "continue"}
      BY <1>0, <2>2 DEF ClientOK
    <3>2. ClientOK(c)'
      BY <1>0, <2>2, <3>1, WentHeld DEF Holding, SettingUp
    <3> QED BY <1>20, <2>2, <3>2 DEF Went, Moved
  <2> QED BY <1>21, <2>1, <2>2
<1>6. CASE Control(c) \/ ControlReturns(c)
  <2>1. cl[c].pc \in {"control", "emit"} /\ (Back(c) \/ Went(c, "emit"))
    BY <1>6, ControlMove
  <2>2. cl[c].obj \in Objs /\ cl[c].pc \notin Holding
    BY <1>0, <2>1 DEF ClientOK, Holding, SettingUp
  <2> QED BY <1>21, <1>22, <2>1, <2>2 DEF Holding, SettingUp
<1>7. CASE CloseNext(c)
  <2>1. cl[c].pc = "next" /\ cl[c].rcv = None
    BY <1>0, <1>7, CloseNextMove DEF ClientOK, Holding, SettingUp
  <2>2. CASE Went(c, "wait")
    BY <1>22, <2>1, <2>2 DEF Holding, SettingUp, TearingPC
  <2>3. CASE \E m \in Objs : Moved(c, "stop", cl[c].op, m, cl[c].rcv)
    <3>1. PICK m \in Objs : Moved(c, "stop", cl[c].op, m, None)
      BY <2>1, <2>3
    <3>2. ClientOK(c)'
      BY <3>1, FreeOK DEF Holding, SettingUp
    <3> QED BY <1>20, <3>1, <3>2 DEF Moved
  <2> QED BY <1>7, <2>2, <2>3, CloseNextMove
<1>8. CASE AgentStop(c) \/ AgentStopDriver(c) \/ AgentExit(c) \/ AgentBusClose(c) \/ CompleteActiveTurn(c)
           \/ CloseAllStreams(c)
  <2>1. /\ cl[c].pc \in TearingPC
        /\ \E pc \in {"complete", "stopDriver", "exit", "busClose", "closeStreams", "delete", "next"} : Went(c, pc)
    BY <1>8, StopMove, ExitMove, BusCloseMove, CompleteMove, CloseStreamsMove DEF TearingPC
  <2>2. cl[c].obj \in Objs /\ cl[c].pc \notin Holding
    BY <1>0, <2>1 DEF ClientOK, Holding, SettingUp, TearingPC
  <2> QED BY <1>22, <2>1, <2>2 DEF Holding, SettingUp
<1>9. CASE DeleteSession(c)
    BY <1>9, <1>21, DeleteMove
<1>10. CASE CloseDrained(c) \/ CloseTimeout(c) \/ CloseGivesUp(c)
  <2>1. cl[c].pc \notin Holding
    BY <1>10, CloseMove DEF Holding, SettingUp
  <2>2. CASE Moved(c, "next", "close", None, None)
    <3>1. ClientOK(c)'
      BY <2>2, FreeOK DEF Holding, SettingUp, TearingPC
    <3> QED BY <1>20, <2>2, <3>1 DEF Moved
  <2>3. CASE Went(c, "again")
    BY <1>22, <2>1, <2>3 DEF Holding, SettingUp, TearingPC
  <2> QED BY <1>10, <1>21, <2>2, <2>3, CloseMove
<1>11. CASE CloseAgain(c)
  <2>1. cl[c].pc \notin Holding /\ (Went(c, "again") \/ Went(c, "wait2"))
    BY <1>11, AgainMove DEF Holding, SettingUp
  <2> QED BY <1>22, <2>1 DEF Holding, SettingUp, TearingPC
<1> QED BY <1>1, <1>2, <1>3, <1>4, <1>5, <1>6, <1>7, <1>8, <1>9, <1>10, <1>11 DEF ClientStep

\* Publishers, drivers and consumers move no call.
LEMMA NoCall ==
    ASSUME ServiceInv, Next
    PROVE  (\E c \in Clients : ClientCalls(c) \/ ClientStep(c)) \/ cl' = cl
<1> USE DEF ServiceInv
<1>1. ASSUME NEW l \in Loops, LoopStep(l) PROVE cl' = cl
    BY <1>1, LoopMove
<1>2. ASSUME NEW p \in Publishers, PublisherStep(p) PROVE cl' = cl
    BY <1>2 DEF PublisherStep, CallHandler, PushSends, PushGivesUp
<1>3. ASSUME NEW r \in Receivers, Recv(r) \/ CloseReceiver(r) PROVE cl' = cl
    BY <1>3 DEF Recv, CloseReceiver
<1> QED BY <1>1, <1>2, <1>3 DEF Next

LEMMA ClientsStep ==
    ASSUME ServiceInv, Next
    PROVE  ClientInv'
<1>1. CASE cl' = cl
    BY <1>1, KindStep, ClientApart DEF ClientInv, ServiceInv
<1> QED BY <1>1, NoCall, CallsClient, StepsClient

-----------------------------------------------------------------------------
(* The rest of the state *)

LoopType == [pc : LoopPC, obj : Objs \cup {None}]

LEMMA SessionsStep ==
    ASSUME TypeOK, Next
    PROVE  sessions' \in [Ids -> Objs \cup {None}] /\ closed' \in BOOLEAN
<1>1. ASSUME NEW c \in Clients, ClientCalls(c)
      PROVE  sessions' \in [Ids -> Objs \cup {None}] /\ closed' \in BOOLEAN
  <2>1. CASE CreateSession(c)
    BY <2>1 DEF CreateSession, TypeOK
  <2>2. CASE Close(c)
    BY <2>2 DEF Close, TypeOK
  <2>3. CASE sessions' = sessions /\ closed' = closed
    BY <2>3 DEF TypeOK
  <2> QED BY <1>1, <2>1, <2>2, <2>3 DEF ClientCalls, getSession, DestroySession
<1>2. ASSUME NEW c \in Clients, ClientStep(c)
      PROVE  sessions' \in [Ids -> Objs \cup {None}] /\ closed' \in BOOLEAN
  <2>1. CASE CloseNext(c)
    <3>1. sessions' = sessions \/ sessions' = [i \in Ids |-> IF \E m \in cl[c].all : ms[m].id = i THEN None ELSE sessions[i]]
      BY <2>1 DEF CloseNext
    <3> QED BY <2>1, <3>1 DEF CloseNext, TypeOK
  <2>2. CASE DeleteSession(c)
    BY <2>2 DEF DeleteSession, TypeOK
  <2>3. CASE sessions' = sessions /\ closed' = closed
    BY <2>3 DEF TypeOK
  <2> QED BY <1>2, <2>1, <2>2, <2>3
          DEF ClientStep, NewTurnScopedReceiver, NewEventsReceiver, SubscribeStream, HookUnsubscribe, AddStream,
              StartTurn, LaunchLoop, LaunchFailed, Control, ControlReturns, AgentStop, AgentStopDriver,
              AgentExit, AgentBusClose, CompleteActiveTurn, CloseAllStreams, CloseDrained, CloseTimeout,
              CloseAgain, CloseGivesUp
<1>3. ASSUME NEW l \in Loops, LoopStep(l) PROVE sessions' = sessions /\ closed' = closed
    BY <1>3 DEF LoopStep, LoopEvents, LoopTerminal, LoopDriverError, LoopNextTurn, LoopIdle, LoopDone
<1>4. ASSUME NEW p \in Publishers, PublisherStep(p) PROVE sessions' = sessions /\ closed' = closed
    BY <1>4 DEF PublisherStep, CallHandler, PushSends, PushGivesUp
<1>5. ASSUME NEW r \in Receivers, Recv(r) \/ CloseReceiver(r) PROVE sessions' = sessions /\ closed' = closed
    BY <1>5 DEF Recv, CloseReceiver
<1>6. sessions \in [Ids -> Objs \cup {None}] /\ closed \in BOOLEAN
    BY DEF TypeOK
<1> QED BY <1>1, <1>2, <1>3, <1>4, <1>5, <1>6 DEF Next

LEMMA PlanStep ==
    ASSUME TypeOK, Next
    PROVE  calls' \in PlanOf
<1>1. ASSUME NEW c \in Clients, ClientCalls(c) PROVE calls' \in PlanOf
    BY <1>1, NewCallIs DEF ClientCalls, CreateSession, getSession, DestroySession, Close
<1>2. ASSUME NEW c \in Clients, ClientStep(c) PROVE calls' = calls
    BY <1>2
          DEF ClientStep, NewTurnScopedReceiver, NewEventsReceiver, SubscribeStream, HookUnsubscribe, AddStream,
              StartTurn, LaunchLoop, LaunchFailed, Control, ControlReturns, AgentStop, AgentStopDriver,
              AgentExit, AgentBusClose, CompleteActiveTurn, CloseAllStreams, CloseDrained, CloseTimeout,
              CloseAgain, CloseGivesUp, CloseNext, DeleteSession
<1>3. ASSUME NEW l \in Loops, LoopStep(l) PROVE calls' = calls
    BY <1>3 DEF LoopStep, LoopEvents, LoopTerminal, LoopDriverError, LoopNextTurn, LoopIdle, LoopDone
<1>4. ASSUME NEW p \in Publishers, PublisherStep(p) PROVE calls' = calls
    BY <1>4 DEF PublisherStep, CallHandler, PushSends, PushGivesUp
<1>5. ASSUME NEW r \in Receivers, Recv(r) \/ CloseReceiver(r) PROVE calls' = calls
    BY <1>5 DEF Recv, CloseReceiver
<1>6. calls \in PlanOf
    BY DEF TypeOK
<1> QED BY <1>1, <1>2, <1>3, <1>4, <1>5, <1>6 DEF Next

\* Only a new turn makes turns overlapped.
LEMMA OverlapStep ==
    ASSUME ServiceInv, Next
    PROVE  \/ overlapped' = overlapped
           \/ \E c \in Clients, r \in Receivers : Made(c, r)
<1> USE DEF ServiceInv
<1>1. ASSUME NEW c \in Clients, ClientCalls(c) PROVE overlapped' = overlapped
    BY <1>1 DEF ClientCalls, CreateSession, getSession, DestroySession, Close
<1>2. ASSUME NEW c \in Clients, ClientStep(c), ~NewTurnScopedReceiver(c) PROVE overlapped' = overlapped
    BY <1>2
          DEF ClientStep, NewEventsReceiver, SubscribeStream, HookUnsubscribe, AddStream,
              StartTurn, LaunchLoop, LaunchFailed, Control, ControlReturns, AgentStop, AgentStopDriver,
              AgentExit, AgentBusClose, CompleteActiveTurn, CloseAllStreams, CloseDrained, CloseTimeout,
              CloseAgain, CloseGivesUp, CloseNext, DeleteSession
<1>3. ASSUME NEW l \in Loops, LoopStep(l) PROVE overlapped' = overlapped
    BY <1>3 DEF LoopStep, LoopEvents, LoopTerminal, LoopDriverError, LoopNextTurn, LoopIdle, LoopDone
<1>4. ASSUME NEW p \in Publishers, PublisherStep(p) PROVE overlapped' = overlapped
    BY <1>4 DEF PublisherStep, CallHandler, PushSends, PushGivesUp
<1>5. ASSUME NEW r \in Receivers, Recv(r) \/ CloseReceiver(r) PROVE overlapped' = overlapped
    BY <1>5 DEF Recv, CloseReceiver
<1> QED BY <1>1, <1>2, <1>3, <1>4, <1>5, TurnMove DEF Next

LEMMA LoopsStep ==
    ASSUME ServiceInv, Next
    PROVE  lp' \in [Loops -> LoopType] /\ LoopInv'
<1> USE DEF ServiceInv
<1>0. lp \in [Loops -> LoopType]
    BY DEF TypeOK, LoopType
<1>1. ASSUME lp' = lp PROVE lp' \in [Loops -> LoopType] /\ LoopInv'
    BY <1>0, <1>1 DEF LoopInv
<1>2. ASSUME NEW c \in Clients, ClientCalls(c) PROVE lp' = lp
    BY <1>2 DEF ClientCalls, CreateSession, getSession, DestroySession, Close
<1>3. ASSUME NEW c \in Clients, ClientStep(c) PROVE lp' \in [Loops -> LoopType] /\ LoopInv'
  <2>1. CASE LaunchLoop(c)
    <3>1. cl[c].obj \in Objs
      BY <2>1 DEF LaunchLoop, ClientInv, ClientOK, Holding
    <3>2. CASE \E l \in Loops : lp' = [lp EXCEPT ![l] = [pc |-> "run", obj |-> cl[c].obj]]
      <4>1. PICK l \in Loops : lp' = [lp EXCEPT ![l] = [pc |-> "run", obj |-> cl[c].obj]]
        BY <3>2
      <4> QED BY <1>0, <3>1, <4>1 DEF LoopType, LoopPC, LoopInv
    <3> QED BY <1>1, <2>1, <3>2 DEF LaunchLoop
  <2>2. CASE lp' = lp
    BY <1>1, <2>2
  <2> QED BY <1>3, <2>1, <2>2
          DEF ClientStep, NewTurnScopedReceiver, NewEventsReceiver, SubscribeStream, HookUnsubscribe, AddStream,
              StartTurn, LaunchFailed, Control, ControlReturns, AgentStop, AgentStopDriver,
              AgentExit, AgentBusClose, CompleteActiveTurn, CloseAllStreams, CloseDrained, CloseTimeout,
              CloseAgain, CloseGivesUp, CloseNext, DeleteSession
<1>4. ASSUME NEW l \in Loops, LoopStep(l) PROVE lp' \in [Loops -> LoopType] /\ LoopInv'
  <2>1. lp[l].pc # "none"
    BY <1>4 DEF LoopStep, LoopEvents, LoopTerminal, LoopDriverError, LoopNextTurn, LoopIdle, LoopDone
  <2>2. CASE \E pc \in LoopPC : LoopGoto(l, pc)
    BY <1>0, <2>1, <2>2 DEF LoopGoto, LoopType, LoopInv
  <2>3. CASE LoopDone(l)
    BY <1>0, <2>3 DEF LoopDone, LoopType, LoopPC, LoopInv
  <2> QED BY <1>4, <2>2, <2>3
          DEF LoopStep, LoopEvents, LoopTerminal, LoopDriverError, LoopNextTurn, LoopIdle, LoopPC
<1>5. ASSUME NEW p \in Publishers, PublisherStep(p) PROVE lp' = lp
    BY <1>5 DEF PublisherStep, CallHandler, PushSends, PushGivesUp
<1>6. ASSUME NEW r \in Receivers, Recv(r) \/ CloseReceiver(r) PROVE lp' = lp
    BY <1>6 DEF Recv, CloseReceiver
<1> QED BY <1>1, <1>2, <1>3, <1>4, <1>5, <1>6 DEF Next

LEMMA TypeStep ==
    ASSUME ServiceInv, Next
    PROVE  TypeOK'
<1> USE DEF ServiceInv
<1>1. ms' \in [Objs -> Managed] /\ rcv' \in [Receivers -> Receiver] /\ wg' \in Int /\ BufsFit
  <2>1. CASE Other
    BY <2>1 DEF Other, Settling, Settled
  <2>2. ASSUME NEW c \in Clients, SetUps(c)
        PROVE  ms' \in [Objs -> Managed] /\ rcv' \in [Receivers -> Receiver] /\ wg' \in Int /\ BufsFit
    BY <2>2 DEF SetUps, Made, Subscribed, Hooked, Added, TypeOK
  <2> QED BY <2>1, <2>2, Steps
<1>2. pub' \in [Publishers -> PubType] /\ cl' \in [Clients -> Client]
  <2>1. CASE Other
    BY <2>1 DEF Other, Published, HeldKept
  <2>2. ASSUME NEW c \in Clients, SetUps(c)
        PROVE  pub' \in [Publishers -> PubType] /\ cl' \in [Clients -> Client]
    <3>1. pub' = pub /\ cl' \in [Clients -> Client]
      BY <2>2 DEF SetUps, Made, Subscribed, Hooked, Added, Went, Back, Moved
    <3> QED BY <3>1 DEF TypeOK, PubType
  <2> QED BY <2>1, <2>2, Steps
<1>3. overlapped' \in SUBSET Receivers
  <2>1. overlapped \in SUBSET Receivers
    BY DEF TypeOK
  <2>2. ASSUME NEW c \in Clients, NEW r \in Receivers, Made(c, r) PROVE overlapped' \in SUBSET Receivers
    BY <2>1, <2>2 DEF Made, Opened, Rivals, OpenTurns
  <2> QED BY <2>1, <2>2, OverlapStep
<1> QED BY <1>1, <1>2, <1>3, SessionsStep, PlanStep, LoopsStep DEF TypeOK, BufsFit, PubType, LoopType

-----------------------------------------------------------------------------
(* Teardown *)

\* How a step changes the marks of sessions and the teardowns: exited stays; a
\* session is marked as destroyed by a call that tears it down next; and a
\* teardown ends with an exited session whose streams are all closed.
TearStep ==
    /\ \A m \in Objs : ms[m].exited => ms'[m].exited
    /\ \A m \in Objs : ms'[m].destroyed => ms[m].destroyed \/ \E c \in Clients : cl'[c].obj = m /\ cl'[c].pc = "stop"
    /\ \A c \in Clients : cl'[c].pc \in {"busClose", "complete", "closeStreams"} => ms'[cl'[c].obj].exited
    /\ \A c \in Clients, m \in Objs : cl[c].obj = m /\ cl[c].pc \in TearingPC =>
         \/ cl'[c].obj = m /\ cl'[c].pc \in TearingPC
         \/ ms'[m].exited /\ \A r \in ms[m].streams : rcv'[r].closed

LEMMA TearSame ==
    ASSUME TypeOK, ClientInv, ExitInv, cl' = cl, MarksKept
    PROVE  TearStep
<1>1. \A c \in Clients : cl[c].pc \in {"busClose", "complete", "closeStreams"} => cl[c].obj \in Objs /\ ms[cl[c].obj].exited
    BY DEF ExitInv, ClientInv, ClientOK, TearingPC
<1> QED BY <1>1 DEF TearStep, MarksKept

\* A call outside a teardown moves.
LEMMA TearCall ==
    ASSUME TypeOK, ClientInv, ExitInv, NEW c \in Clients, \A d \in Clients : d # c => cl'[d] = cl[d],
           cl[c].pc \notin TearingPC, cl'[c].pc \notin {"busClose", "complete", "closeStreams"},
           \A m \in Objs : /\ ms'[m].exited <=> ms[m].exited
                           /\ ms'[m].destroyed => ms[m].destroyed \/ (cl'[c].obj = m /\ cl'[c].pc = "stop")
    PROVE  TearStep
<1>1. \A d \in Clients : cl[d].pc \in {"busClose", "complete", "closeStreams"} => cl[d].obj \in Objs /\ ms[cl[d].obj].exited
    BY DEF ExitInv, ClientInv, ClientOK, TearingPC
<1>2. \A d \in Clients, m \in Objs : cl[d].obj = m /\ cl[d].pc \in TearingPC => cl'[d] = cl[d]
    OBVIOUS
<1>3. \A d \in Clients : cl'[d].pc \in {"busClose", "complete", "closeStreams"} => ms'[cl'[d].obj].exited
    BY <1>1
<1> QED BY <1>2, <1>3 DEF TearStep

\* A teardown moves on.
LEMMA TearMove ==
    ASSUME TypeOK, ClientInv, ExitInv, NEW c \in Clients, NEW pc, Went(c, pc), cl[c].pc \in TearingPC,
           \A m \in Objs : (ms[m].exited => ms'[m].exited) /\ (ms'[m].destroyed => ms[m].destroyed),
           pc \in {"busClose", "complete", "closeStreams"} => ms'[cl[c].obj].exited,
           pc \in TearingPC \/ (ms'[cl[c].obj].exited /\ \A r \in ms[cl[c].obj].streams : rcv'[r].closed)
    PROVE  TearStep
<1>1. \A d \in Clients : cl[d].pc \in {"busClose", "complete", "closeStreams"} => cl[d].obj \in Objs /\ ms[cl[d].obj].exited
    BY DEF ExitInv, ClientInv, ClientOK, TearingPC
<1>2. cl'[c].pc = pc /\ cl'[c].obj = cl[c].obj /\ \A d \in Clients : d # c => cl'[d] = cl[d]
    BY DEF Went, Moved
<1>3. \A d \in Clients : cl'[d].pc \in {"busClose", "complete", "closeStreams"} => ms'[cl'[d].obj].exited
    BY <1>1, <1>2
<1>4. \A d \in Clients, m \in Objs : cl[d].obj = m /\ cl[d].pc \in TearingPC =>
         \/ cl'[d].obj = m /\ cl'[d].pc \in TearingPC
         \/ ms'[m].exited /\ \A r \in ms[m].streams : rcv'[r].closed
    BY <1>2
<1> QED BY <1>3, <1>4 DEF TearStep

LEMMA TearCalls ==
    ASSUME ServiceInv, NEW c \in Clients, ClientCalls(c)
    PROVE  TearStep
<1> USE DEF ServiceInv
<1>1. CASE CreateSession(c)
    BY <1>1, CreateMove, TearSame DEF Calm
<1>2. CASE Gets(c)
  <2>1. /\ cl[c].pc \notin TearingPC /\ cl'[c].pc \notin {"busClose", "complete", "closeStreams"}
        /\ \A d \in Clients : d # c => cl'[d] = cl[d]
    BY <1>2, GetMove DEF Moved, TearingPC
  <2> QED BY <1>2, <2>1, GetMove, TearCall DEF Calm, MarksKept
<1>3. CASE DestroySession(c)
  <2>1. PICK m \in Objs : Moved(c, "stop", "destroy", m, None) /\ Destroyed(m)
    BY <1>3, DestroyMove
  <2>2. /\ cl[c].pc \notin TearingPC /\ cl'[c].pc = "stop" /\ cl'[c].obj = m
        /\ \A d \in Clients : d # c => cl'[d] = cl[d]
    BY <1>3, <2>1, DestroyMove DEF Moved, TearingPC
  <2>3. \A n \in Objs : /\ ms'[n].exited <=> ms[n].exited
                        /\ ms'[n].destroyed => ms[n].destroyed \/ (cl'[c].obj = n /\ cl'[c].pc = "stop")
    BY <2>1, <2>2 DEF Destroyed, TearingPC
  <2> QED BY <2>2, <2>3, TearCall DEF TearingPC
<1>4. CASE Close(c)
  <2>1. /\ cl[c].pc \notin TearingPC /\ cl'[c].pc \notin {"busClose", "complete", "closeStreams"}
        /\ \A d \in Clients : d # c => cl'[d] = cl[d]
    BY <1>4, CloseMove DEF Moved, Back, Went, TearingPC
  <2> QED BY <1>4, <2>1, CloseMove, TearCall DEF Calm, MarksKept
<1> QED BY <1>1, <1>2, <1>3, <1>4 DEF ClientCalls, Gets

LEMMA TearClients ==
    ASSUME ServiceInv, NEW c \in Clients, ClientStep(c)
    PROVE  TearStep
<1> USE DEF ServiceInv
<1>1. CASE NewTurnScopedReceiver(c) \/ NewEventsReceiver(c) \/ SubscribeStream(c) \/ HookUnsubscribe(c) \/ AddStream(c)
  <2>1. (\E r \in Receivers : Made(c, r)) \/ Subscribed(c) \/ Hooked(c) \/ Added(c)
    BY <1>1, TurnMove, EventsMove, SubscribeMove, HookMove, AddMove
  <2>2. /\ cl[c].pc \notin TearingPC /\ cl'[c].pc \notin {"busClose", "complete", "closeStreams"}
        /\ \A d \in Clients : d # c => cl'[d] = cl[d]
    BY <2>1 DEF Made, Subscribed, Hooked, Added, Moved, Went, Back, TearingPC
  <2>3. \A m \in Objs : (ms'[m].exited <=> ms[m].exited) /\ (ms'[m].destroyed <=> ms[m].destroyed)
    BY <2>1 DEF Made, Subscribed, Hooked, Added
  <2> QED BY <2>2, <2>3, TearCall
<1>2. CASE StartTurn(c) \/ LaunchLoop(c) \/ LaunchFailed(c) \/ Control(c) \/ ControlReturns(c)
           \/ DeleteSession(c) \/ CloseDrained(c) \/ CloseTimeout(c) \/ CloseGivesUp(c) \/ CloseAgain(c)
  <2>0. /\ cl[c].pc \in {"start", "launch", "failed", "control", "emit", "delete", "ready", "wait", "wait2", "again"}
        /\ \/ Back(c) \/ Moved(c, "next", "close", None, None)
           \/ Went(c, "launch") \/ Went(c, "failed") \/ Went(c, "emit") \/ Went(c, "again") \/ Went(c, "wait2")
    <3>1. CASE StartTurn(c) \/ LaunchLoop(c) \/ LaunchFailed(c)
      BY <3>1, StartMove, LaunchMove, FailedMove
    <3>2. CASE Control(c) \/ ControlReturns(c)
      BY <3>2, ControlMove
    <3>3. CASE DeleteSession(c) \/ CloseAgain(c)
      BY <3>3, DeleteMove, AgainMove
    <3>4. CASE CloseDrained(c) \/ CloseTimeout(c) \/ CloseGivesUp(c)
      BY <3>4, CloseMove
    <3> QED BY <1>2, <3>1, <3>2, <3>3, <3>4
  <2>1. /\ cl[c].pc \notin TearingPC /\ cl'[c].pc \notin {"busClose", "complete", "closeStreams"}
        /\ \A d \in Clients : d # c => cl'[d] = cl[d]
    BY <2>0 DEF Moved, Went, Back, TearingPC
  <2>2. \A m \in Objs : (ms'[m].exited <=> ms[m].exited) /\ (ms'[m].destroyed <=> ms[m].destroyed)
    BY <1>2, StartMove, LaunchMove, FailedMove, ControlMove, DeleteMove, CloseMove, AgainMove
       DEF Calm, MarksKept, TearKept
  <2> QED BY <2>1, <2>2, TearCall
<1>3. CASE CloseNext(c)
  <2>1. cl[c].pc \notin TearingPC
    BY <1>3, CloseNextMove DEF TearingPC
  <2>2. CASE Calm /\ Went(c, "wait")
    BY <2>1, <2>2, TearCall DEF Calm, MarksKept, Went, Moved
  <2>3. CASE \E m \in Objs : Moved(c, "stop", cl[c].op, m, cl[c].rcv) /\ Destroyed(m)
    <3>1. PICK m \in Objs : Moved(c, "stop", cl[c].op, m, cl[c].rcv) /\ Destroyed(m)
      BY <2>3
    <3>2. cl'[c].pc = "stop" /\ cl'[c].obj = m /\ \A d \in Clients : d # c => cl'[d] = cl[d]
      BY <3>1 DEF Moved
    <3>3. \A n \in Objs : /\ ms'[n].exited <=> ms[n].exited
                          /\ ms'[n].destroyed => ms[n].destroyed \/ (cl'[c].obj = n /\ cl'[c].pc = "stop")
      BY <3>1, <3>2 DEF Destroyed, TearingPC
    <3> QED BY <2>1, <3>2, <3>3, TearCall DEF TearingPC
  <2> QED BY <1>3, <2>2, <2>3, CloseNextMove
<1>4. CASE AgentStop(c) \/ AgentStopDriver(c)
  <2>1. Calm /\ cl[c].pc \in TearingPC /\ cl[c].obj \in Objs
    BY <1>4, StopMove DEF TearingPC, ClientInv, ClientOK
  <2>2. CASE ms[cl[c].obj].exited /\ Went(c, "complete")
    BY <2>1, <2>2, TearMove DEF Calm, MarksKept, TearingPC
  <2>3. CASE Went(c, "stopDriver") \/ Went(c, "exit")
    BY <2>1, <2>3, TearMove DEF Calm, MarksKept, TearingPC
  <2> QED BY <1>4, <2>2, <2>3, StopMove
<1>5. CASE AgentExit(c)
  <2>1. cl[c].pc \in TearingPC /\ cl[c].obj \in Objs
    BY <1>5, ExitMove DEF TearingPC, ClientInv, ClientOK
  <2>2. CASE Calm /\ ms[cl[c].obj].exited /\ Went(c, "complete")
    BY <2>1, <2>2, TearMove DEF Calm, MarksKept, TearingPC
  <2>3. CASE /\ Went(c, "busClose")
             /\ \A n \in Objs : /\ ms'[n].destroyed <=> ms[n].destroyed
                                /\ ms'[n].exited <=> (ms[n].exited \/ n = cl[c].obj)
    BY <2>1, <2>3, TearMove DEF TearingPC
  <2> QED BY <1>5, <2>2, <2>3, ExitMove
<1>6. CASE AgentBusClose(c) \/ CompleteActiveTurn(c)
  <2>1. /\ MarksKept /\ cl[c].pc \in {"busClose", "complete"}
        /\ Went(c, "complete") \/ Went(c, "closeStreams")
    BY <1>6, BusCloseMove, CompleteMove DEF Calm
  <2>2. cl[c].pc \in TearingPC /\ cl[c].obj \in Objs /\ ms[cl[c].obj].exited
    BY <2>1 DEF TearingPC, ClientInv, ClientOK, ExitInv
  <2> QED BY <2>1, <2>2, TearMove DEF MarksKept, TearingPC
<1>7. CASE CloseAllStreams(c)
  <2>1. /\ MarksKept /\ cl[c].pc = "closeStreams" /\ (Went(c, "delete") \/ Went(c, "next"))
        /\ Settled({}, ms[cl[c].obj].streams)
    BY <1>7, CloseStreamsMove
  <2>2. cl[c].pc \in TearingPC /\ cl[c].obj \in Objs /\ ms[cl[c].obj].exited
    BY <2>1 DEF TearingPC, ClientInv, ClientOK, ExitInv
  <2>3. \A r \in ms[cl[c].obj].streams : rcv'[r].closed
    BY <2>1, <2>2 DEF Settled, TypeOK, Managed
  <2> QED BY <2>1, <2>2, <2>3, TearMove DEF MarksKept
<1> QED BY <1>1, <1>2, <1>3, <1>4, <1>5, <1>6, <1>7 DEF ClientStep

LEMMA TearSteps ==
    ASSUME ServiceInv, Next
    PROVE  TearStep
<1> USE DEF ServiceInv
<1>1. ASSUME NEW l \in Loops, LoopStep(l) PROVE TearStep
    BY <1>1, LoopMove, TearSame DEF Calm
<1>2. ASSUME NEW p \in Publishers, PublisherStep(p) PROVE TearStep
    BY <1>2, CallMove, PushMove, GiveUpMove, TearSame DEF PublisherStep, Calm
<1>3. ASSUME NEW r \in Receivers, Recv(r) \/ CloseReceiver(r) PROVE TearStep
    BY <1>3, RecvMove, CloseReceiverMove, TearSame
<1> QED BY <1>1, <1>2, <1>3, TearCalls, TearClients DEF Next

\* A call gets to its launch through a start that found the agent running.
LEMMA LaunchFrom ==
    ASSUME ServiceInv, Next, NEW c \in Clients, cl'[c].pc = "launch"
    PROVE  \/ cl'[c] = cl[c]
           \/ /\ cl'[c].obj = cl[c].obj /\ ~ms[cl[c].obj].exited /\ MarksKept /\ cl[c].pc = "start"
              /\ \A d \in Clients : d # c => cl'[d] = cl[d]
<1> USE DEF ServiceInv
<1>1. ASSUME NEW d \in Clients, ClientCalls(d) PROVE cl'[c] = cl[c]
  <2>1. CASE CreateSession(d)
    BY <2>1, CreateMove
  <2>2. CASE Gets(d)
    BY <2>2, GetMove DEF Moved
  <2>3. CASE DestroySession(d)
    BY <2>3, DestroyMove DEF Moved
  <2>4. CASE Close(d)
    BY <2>4, CloseMove DEF Moved, Back, Went
  <2> QED BY <1>1, <2>1, <2>2, <2>3, <2>4 DEF ClientCalls, Gets
<1>2. ASSUME NEW d \in Clients, ClientStep(d)
      PROVE  \/ cl'[c] = cl[c]
             \/ /\ cl'[c].obj = cl[c].obj /\ ~ms[cl[c].obj].exited /\ MarksKept /\ cl[c].pc = "start"
                /\ \A e \in Clients : e # c => cl'[e] = cl[e]
  <2>1. CASE NewTurnScopedReceiver(d) \/ NewEventsReceiver(d) \/ SubscribeStream(d) \/ HookUnsubscribe(d) \/ AddStream(d)
    <3>1. (\E r \in Receivers : Made(d, r)) \/ Subscribed(d) \/ Hooked(d) \/ Added(d)
      BY <2>1, TurnMove, EventsMove, SubscribeMove, HookMove, AddMove
    <3> QED BY <3>1 DEF Made, Subscribed, Hooked, Added, Moved, Went, Back
  <2>2. CASE StartTurn(d)
    BY <2>2, StartMove DEF Moved, Went, Back
  <2>3. CASE LaunchLoop(d) \/ LaunchFailed(d) \/ Control(d) \/ ControlReturns(d)
             \/ DeleteSession(d) \/ CloseDrained(d) \/ CloseTimeout(d) \/ CloseGivesUp(d) \/ CloseAgain(d)
    BY <2>3, LaunchMove, FailedMove, ControlMove, DeleteMove, CloseMove, AgainMove DEF Moved, Went, Back
  <2>4. CASE CloseNext(d)
    BY <2>4, CloseNextMove DEF Moved, Went
  <2>5. CASE AgentStop(d) \/ AgentStopDriver(d) \/ AgentExit(d) \/ AgentBusClose(d) \/ CompleteActiveTurn(d)
             \/ CloseAllStreams(d)
    BY <2>5, StopMove, ExitMove, BusCloseMove, CompleteMove, CloseStreamsMove DEF Moved, Went
  <2> QED BY <1>2, <2>1, <2>2, <2>3, <2>4, <2>5 DEF ClientStep
<1> QED BY <1>1, <1>2, NoCall

\* The teardown of a session is over after the step.
TornNow(m) ==
    ms'[m].destroyed /\ \A c \in Clients : ~(cl'[c].obj = m /\ cl'[c].pc \in TearingPC)

\* A session whose teardown ends has its streams closed.
LEMMA TornIs ==
    ASSUME TearStep, NEW m \in Objs, TornNow(m)
    PROVE  TornDown(m) \/ \A r \in ms[m].streams : rcv'[r].closed
<1>1. ms'[m].destroyed /\ \A c \in Clients : ~(cl'[c].obj = m /\ cl'[c].pc \in TearingPC)
    BY DEF TornNow
<1>2. ms[m].destroyed
    BY <1>1 DEF TearStep, TearingPC
<1>3. CASE TearingDown(m)
  <2>1. PICK c \in Clients : cl[c].obj = m /\ cl[c].pc \in TearingPC
    BY <1>3 DEF TearingDown, TearingPC
  <2> QED BY <1>1, <2>1 DEF TearStep
<1>4. CASE ~TearingDown(m)
    BY <1>2, <1>4 DEF TornDown
<1> QED BY <1>3, <1>4

LEMMA ClosedStays ==
    ASSUME ServiceInv, Next, NEW r \in Receivers, rcv[r].closed
    PROVE  rcv'[r].closed
<1>1. CASE Other
    BY <1>1 DEF Other, Settling, Settled
<1>2. ASSUME NEW c \in Clients, SetUps(c) PROVE rcv'[r].closed
    BY <1>2 DEF SetUps, Made, Subscribed, Hooked, Added
<1> QED BY <1>1, <1>2, Steps

\* A receiver past its set-up is closed when the teardown of its session ends.
LEMMA SweptIs ==
    ASSUME ServiceInv, Next, NEW r \in Receivers, rcv[r].kind # "free", ~BeingSetUp(r),
           \A q \in ms[rcv[r].obj].streams : rcv'[q].closed
    PROVE  rcv'[r].closed
<1>1. CASE rcv[r].closed
    BY <1>1, ClosedStays
<1>2. CASE ~rcv[r].closed
    BY <1>2 DEF OpenInv, ServiceInv
<1> QED BY <1>1, <1>2

LEMMA ExitStep ==
    ASSUME ServiceInv, Next
    PROVE  ExitInv'
<1> USE DEF ServiceInv
<1>0. TearStep
    BY TearSteps
<1>1. \A c \in Clients : cl'[c].pc \in {"busClose", "complete", "closeStreams"} => ms'[cl'[c].obj].exited
    BY <1>0 DEF TearStep
<1>2. ASSUME NEW m \in Objs, ms'[m].destroyed PROVE ms'[m].exited \/ TearingDown(m)'
  <2>1. (\E c \in Clients : cl'[c].obj = m /\ cl'[c].pc \in TearingPC) => TearingDown(m)'
    BY DEF TearingDown, TearingPC
  <2>2. CASE ms[m].destroyed
    <3>1. CASE ms[m].exited
      BY <1>0, <3>1 DEF TearStep
    <3>2. CASE TearingDown(m)
      <4>1. PICK c \in Clients : cl[c].obj = m /\ cl[c].pc \in TearingPC
        BY <3>2 DEF TearingDown, TearingPC
      <4> QED BY <1>0, <2>1, <4>1 DEF TearStep
    <3> QED BY <2>2, <3>1, <3>2 DEF ExitInv
  <2> QED BY <1>0, <1>2, <2>1, <2>2 DEF TearStep, TearingPC
<1>3. ASSUME NEW c \in Clients, cl'[c].pc = "launch", TornNow(cl'[c].obj) PROVE rcv'[cl'[c].rcv].closed
  <2>1. CASE cl'[c] = cl[c]
    <3> DEFINE r == cl[c].rcv
               m == cl[c].obj
    <3>1. /\ cl[c].pc = "launch" /\ m \in Objs /\ r \in Receivers /\ rcv[r].kind # "free" /\ rcv[r].obj = m
      BY <1>3, <2>1 DEF ClientInv, ClientOK, Holding, TypeOK, Client
    <3>2. ~BeingSetUp(r)
      BY <3>1, NoneIs DEF SoleInv, BeingSetUp
    <3>3. TornNow(m)
      BY <1>3, <2>1
    <3>4. TornDown(m) \/ \A q \in ms[m].streams : rcv'[q].closed
      BY <1>0, <3>1, <3>3, TornIs
    <3>5. CASE TornDown(m)
      <4>1. rcv[r].closed
        BY <3>1, <3>5 DEF ExitInv
      <4> QED BY <2>1, <3>1, <4>1, ClosedStays
    <3>6. CASE \A q \in ms[m].streams : rcv'[q].closed
      BY <2>1, <3>1, <3>2, <3>6, SweptIs
    <3> QED BY <3>4, <3>5, <3>6
  <2>2. CASE cl'[c] # cl[c]
    <3> DEFINE m == cl[c].obj
    <3>1. /\ cl'[c].obj = m /\ ~ms[m].exited /\ MarksKept /\ cl[c].pc = "start"
          /\ \A d \in Clients : d # c => cl'[d] = cl[d]
      BY <1>3, <2>2, LaunchFrom
    <3>2. m \in Objs
      BY <3>1 DEF ClientInv, ClientOK, Holding
    <3>3. TornNow(m)
      BY <1>3, <3>1
    <3>4. ms'[m].destroyed /\ \A d \in Clients : ~(cl'[d].obj = m /\ cl'[d].pc \in TearingPC)
      BY <3>3 DEF TornNow
    <3>5. ms[m].destroyed
      BY <3>1, <3>2, <3>4 DEF MarksKept
    <3>6. TearingDown(m)
      BY <3>1, <3>2, <3>5 DEF ExitInv
    <3>7. PICK d \in Clients : cl[d].obj = m /\ cl[d].pc \in TearingPC
      BY <3>6 DEF TearingDown, TearingPC
    <3>8. d # c
      BY <3>1, <3>7 DEF TearingPC
    <3> QED BY <3>1, <3>4, <3>7, <3>8
  <2> QED BY <2>1, <2>2
<1> QED BY <1>1, <1>2, <1>3 DEF ExitInv, TornDown, TearingDown, TornNow, TearingPC

LEMMA TornStep ==
    ASSUME ServiceInv, Next
    PROVE  TornDownTurnsClosed'
<1> USE DEF ServiceInv
<1> SUFFICES ASSUME NEW r \in Receivers, rcv'[r].kind = "turn", rcv'[r].returned, TornNow(rcv'[r].obj)
             PROVE  rcv'[r].closed
    BY DEF TornDownTurnsClosed, TornDown, TearingDown, TornNow, TearingPC
<1> DEFINE m == rcv[r].obj
\* The stream was returned before, or its call is at its launch.
<1>1. /\ rcv[r].kind = "turn" /\ rcv'[r].obj = m
      /\ rcv[r].returned \/ \E c \in Clients : cl[c].rcv = r /\ cl[c].pc = "launch"
  <2>1. CASE Other
    BY <2>1 DEF Other, Settling, Settled, Handed
  <2>2. ASSUME NEW c \in Clients, SetUps(c)
        PROVE  rcv[r].kind = "turn" /\ rcv'[r].obj = m /\ rcv[r].returned
    <3>1. ASSUME NEW q \in Receivers, Made(c, q) PROVE rcv[r].kind = "turn" /\ rcv'[r].obj = m /\ rcv[r].returned
      <4>1. ~rcv'[q].returned
        BY <3>1 DEF Made, ReceiverInv
      <4> QED BY <3>1, <4>1 DEF Made
    <3>2. CASE Subscribed(c) \/ Hooked(c)
      BY <3>2 DEF Subscribed, Hooked
    <3>3. CASE Added(c)
      <4>1. rcv[cl[c].rcv].kind = "events" \/ cl[c].op # "events"
        BY <3>3 DEF Added, ClientInv, ClientOK, Holding, SettingUp
      <4> QED BY <3>3, <4>1 DEF Added
    <3> QED BY <2>2, <3>1, <3>2, <3>3 DEF SetUps
  <2> QED BY <2>1, <2>2, Steps
<1>2. m \in Objs /\ ~BeingSetUp(r)
    BY <1>1, NoneIs DEF ReceiverInv, SoleInv, BeingSetUp
<1>3. TornNow(m)
    BY <1>1
<1>4. TornDown(m) \/ \A q \in ms[m].streams : rcv'[q].closed
    BY <1>2, <1>3, TearSteps, TornIs
<1>5. CASE TornDown(m)
  <2>1. CASE rcv[r].returned
    BY <1>1, <1>5, <2>1, ClosedStays DEF TornDownTurnsClosed
  <2>2. CASE \E c \in Clients : cl[c].rcv = r /\ cl[c].pc = "launch"
    <3>1. PICK c \in Clients : cl[c].rcv = r /\ cl[c].pc = "launch"
      BY <2>2
    <3>2. cl[c].obj = m
      BY <3>1, NoneIs DEF ClientInv, ClientOK
    <3>3. rcv[r].closed
      BY <1>5, <3>1, <3>2 DEF ExitInv
    <3> QED BY <3>3, ClosedStays
  <2> QED BY <1>1, <2>1, <2>2
<1>6. CASE \A q \in ms[m].streams : rcv'[q].closed
    BY <1>1, <1>2, <1>6, SweptIs
<1> QED BY <1>4, <1>5, <1>6

-----------------------------------------------------------------------------
(* Turns and the one that their session remembers *)

\* A step opens turn q, or completes turns and forgets no other's.
LEMMA OpenStepIs ==
    ASSUME ServiceInv, Next
    PROVE  \/ \E c \in Clients, q \in Receivers : Made(c, q)
           \/ /\ overlapped' = overlapped /\ OpenTurns' \subseteq OpenTurns
              /\ \A r \in Receivers : rcv'[r].obj = rcv[r].obj
              /\ \A m \in Objs : ms'[m].turnDone # ms[m].turnDone =>
                   \E q \in OpenTurns : q \notin OpenTurns' /\ rcv[q].obj = m
<1> USE DEF ServiceInv
<1>1. CASE \E c \in Clients, q \in Receivers : Made(c, q)
    BY <1>1
<1>2. CASE ~ \E c \in Clients, q \in Receivers : Made(c, q)
  <2>1. overlapped' = overlapped
    BY <1>2, OverlapStep
  <2>2. CASE Other
    <3>1. PICK D \in SUBSET Receivers, S \in SUBSET Receivers : Settled(D, S) /\ Legit(D, S)
      BY <2>2 DEF Other, Settling
    <3>2. /\ \A r \in Receivers : /\ rcv'[r].obj = rcv[r].obj /\ rcv'[r].kind = rcv[r].kind
                                  /\ rcv'[r].done <=> (rcv[r].done \/ r \in D)
          /\ Cleared(D)
      BY <3>1 DEF Settled
    <3>3. OpenTurns' \subseteq OpenTurns
      BY <3>2 DEF OpenTurns
    <3>4. ASSUME NEW m \in Objs, ms'[m].turnDone # ms[m].turnDone
          PROVE  \E q \in OpenTurns : q \notin OpenTurns' /\ rcv[q].obj = m
      <4>1. PICK q \in D : ~rcv[q].done /\ rcv[q].obj = m
        BY <3>2, <3>4 DEF Cleared
      <4>2. q \in Receivers /\ rcv[q].kind = "turn" /\ rcv'[q].done
        BY <3>1, <3>2, <4>1 DEF Legit
      <4> QED BY <4>1, <4>2 DEF OpenTurns
    <3> QED BY <2>1, <3>2, <3>3, <3>4
  <2>3. ASSUME NEW c \in Clients, Subscribed(c) \/ Hooked(c) \/ Added(c)
        PROVE  /\ OpenTurns' \subseteq OpenTurns
               /\ \A r \in Receivers : rcv'[r].obj = rcv[r].obj
               /\ \A m \in Objs : ms'[m].turnDone = ms[m].turnDone
    <3>1. /\ \A q \in Receivers : /\ rcv'[q].kind = rcv[q].kind /\ rcv'[q].obj = rcv[q].obj
                                  /\ rcv'[q].done <=> rcv[q].done
          /\ \A m \in Objs : ms'[m].turnDone = ms[m].turnDone
      BY <2>3 DEF Subscribed, Hooked, Added
    <3> QED BY <3>1 DEF OpenTurns
  <2> QED BY <1>2, <2>1, <2>2, <2>3, Steps DEF SetUps
<1> QED BY <1>1, <1>2

\* What a new turn leaves of the others.
LEMMA MadeTurn ==
    ASSUME ServiceInv, NEW c \in Clients, NEW q \in Receivers, Made(c, q)
    PROVE  /\ q \notin OpenTurns /\ cl[c].obj \in Objs /\ cl'[c].rcv = q /\ cl'[c].pc = "stream"
           /\ rcv'[q].obj = cl[c].obj
           /\ OpenTurns' \subseteq OpenTurns \cup {q} /\ (q \in OpenTurns' => cl[c].op # "events")
           /\ \A r \in Receivers : r # q => rcv'[r].obj = rcv[r].obj
           /\ \A r \in OpenTurns' : r # q => r \in OpenTurns
           /\ overlapped \subseteq overlapped'
           /\ cl[c].op # "events" => \A r \in OpenTurns : rcv[r].obj = cl[c].obj => r \in overlapped' /\ q \in overlapped'
<1> USE DEF ServiceInv
<1>1. rcv[q].kind = "free" /\ cl[c].pc \in {"track", "events"} /\ cl'[c].rcv = q /\ cl'[c].pc = "stream"
    BY DEF Made, Moved
<1>2. cl[c].obj \in Objs
    BY <1>1 DEF ClientInv, ClientOK
<1>3. \A r \in Receivers : r # q => rcv'[r] = rcv[r]
    BY DEF Made
<1>4. rcv'[q].obj = cl[c].obj /\ (cl[c].op = "events" => rcv'[q].kind # "turn")
    BY DEF Made
<1>5. q \notin OpenTurns /\ OpenTurns' \subseteq OpenTurns \cup {q} /\ (q \in OpenTurns' => cl[c].op # "events")
    BY <1>1, <1>3, <1>4 DEF OpenTurns
<1>6. overlapped' = IF cl[c].op = "events" \/ Rivals(cl[c].obj) = {} THEN overlapped
                    ELSE overlapped \cup Rivals(cl[c].obj) \cup {q}
    BY DEF Made, Opened
<1>7. overlapped \subseteq overlapped'
    BY <1>6
<1>8. ASSUME cl[c].op # "events", NEW r \in OpenTurns, rcv[r].obj = cl[c].obj
      PROVE  r \in overlapped' /\ q \in overlapped'
  <2>1. r \in Rivals(cl[c].obj)
    BY <1>8 DEF Rivals
  <2> QED BY <1>6, <1>8, <2>1
<1> QED BY <1>1, <1>2, <1>3, <1>4, <1>5, <1>7, <1>8

LEMMA OwnStep ==
    ASSUME ServiceInv, Next
    PROVE  OwnInv'
<1> USE DEF ServiceInv
<1> DEFINE T == OpenTurns
           U == OpenTurns'
<1>0. T \subseteq Receivers /\ U \subseteq Receivers
    BY DEF OpenTurns
<1>9. \A r \in T : rcv[r].obj \in Objs
    BY DEF OpenTurns, ReceiverInv
<1>1. ASSUME NEW c \in Clients, NEW q \in Receivers, Made(c, q) PROVE OwnInv'
  <2> HIDE DEF T, U
  <2>1. /\ q \notin T /\ cl[c].obj \in Objs /\ rcv'[q].obj = cl[c].obj
        /\ q \in U => cl[c].op # "events"
        /\ \A r \in Receivers : r # q => rcv'[r].obj = rcv[r].obj
        /\ \A r \in U : r # q => r \in T
        /\ overlapped \subseteq overlapped'
        /\ cl[c].op # "events" => \A r \in T : rcv[r].obj = cl[c].obj => r \in overlapped' /\ q \in overlapped'
    BY <1>1, MadeTurn DEF T, U
  <2>2. ASSUME NEW r \in U, NEW t \in U, r # t, rcv'[r].obj = rcv'[t].obj PROVE r \in overlapped'
    <3>1. CASE r # q /\ t # q
      <4>1. r \in T /\ t \in T /\ rcv[r].obj = rcv[t].obj
        BY <1>0, <2>1, <2>2, <3>1
      <4>2. r \in overlapped
        BY <2>2, <4>1 DEF OwnInv, T
      <4> QED BY <2>1, <4>2
    <3>2. CASE r = q
      BY <1>0, <2>1, <2>2, <3>2
    <3>3. CASE t = q
      BY <1>0, <2>1, <2>2, <3>3
    <3> QED BY <3>1, <3>2, <3>3
  <2>3. ASSUME NEW r \in U, r \notin overlapped' PROVE ms'[rcv'[r].obj].turnDone = r
    <3>1. /\ cl[c].op # "events" => ms'[cl[c].obj].turnDone = q
          /\ \A m \in Objs : m # cl[c].obj \/ cl[c].op = "events" => ms'[m].turnDone = ms[m].turnDone
      BY <1>1 DEF Made, Opened
    <3>2. CASE r = q
      BY <2>1, <2>3, <3>1, <3>2
    <3>3. CASE r # q
      <4>1. r \in T /\ rcv'[r].obj = rcv[r].obj /\ r \notin overlapped /\ rcv[r].obj \in Objs
        BY <1>0, <1>9, <2>1, <2>3, <3>3
      <4>2. ms[rcv[r].obj].turnDone = r
        BY <4>1 DEF OwnInv, T
      <4>3. rcv[r].obj # cl[c].obj \/ cl[c].op = "events"
        BY <2>1, <2>3, <4>1
      <4> QED BY <3>1, <4>1, <4>2, <4>3
    <3> QED BY <3>2, <3>3
  <2> QED BY <2>2, <2>3 DEF OwnInv, U
<1>2. CASE /\ overlapped' = overlapped /\ U \subseteq T
           /\ \A r \in Receivers : rcv'[r].obj = rcv[r].obj
           /\ \A m \in Objs : ms'[m].turnDone # ms[m].turnDone => \E q \in T : q \notin U /\ rcv[q].obj = m
  <2> HIDE DEF T, U
  <2>1. ASSUME NEW r \in U, NEW t \in U, r # t, rcv'[r].obj = rcv'[t].obj PROVE r \in overlapped'
    <3>1. r \in T /\ t \in T /\ rcv[r].obj = rcv[t].obj
      BY <1>0, <1>2, <2>1
    <3>2. r \in overlapped
      BY <2>1, <3>1 DEF OwnInv, T
    <3> QED BY <1>2, <3>2
  <2>2. ASSUME NEW r \in U, r \notin overlapped' PROVE ms'[rcv'[r].obj].turnDone = r
    <3>1. r \in T /\ rcv'[r].obj = rcv[r].obj /\ r \notin overlapped /\ rcv[r].obj \in Objs
      BY <1>0, <1>2, <1>9, <2>2
    <3>2. ms[rcv[r].obj].turnDone = r
      BY <3>1 DEF OwnInv, T
    <3>3. ASSUME NEW q \in T, q \notin U, rcv[q].obj = rcv[r].obj PROVE FALSE
      BY <2>2, <3>1, <3>3 DEF OwnInv, T
    <3> QED BY <1>2, <3>1, <3>2, <3>3
  <2> QED BY <2>1, <2>2 DEF OwnInv, U
<1> QED BY <1>1, <1>2, OpenStepIs

\* A teardown stays ahead of completeActiveTurn, or has completed the turn.
LEMMA EarlyStep ==
    ASSUME ServiceInv, Next, NEW c \in Clients, NEW m \in Objs, cl[c].obj = m, cl[c].pc \in EarlyPC
    PROVE  \/ cl'[c].obj = m /\ cl'[c].pc \in EarlyPC
           \/ ms[m].turnDone # None => rcv'[ms[m].turnDone].done
<1> USE DEF ServiceInv
<1> DEFINE P == \/ cl'[c].obj = m /\ cl'[c].pc \in EarlyPC
                \/ ms[m].turnDone # None => rcv'[ms[m].turnDone].done
<1>0. cl'[c] = cl[c] => P
    OBVIOUS
<1>1. ASSUME NEW d \in Clients, ClientCalls(d) PROVE cl'[c] = cl[c]
  <2>1. CASE CreateSession(d)
    BY <2>1, CreateMove
  <2>2. CASE Gets(d)
    BY <2>2, GetMove DEF Moved, EarlyPC
  <2>3. CASE DestroySession(d)
    BY <2>3, DestroyMove DEF Moved, EarlyPC
  <2>4. CASE Close(d)
    <3>1. cl[d].pc = "ready"
      BY <2>4 DEF Close, NewCall
    <3> QED BY <2>4, <3>1, CloseMove DEF Moved, Back, Went, EarlyPC
  <2> QED BY <1>1, <2>1, <2>2, <2>3, <2>4 DEF ClientCalls, Gets
<1>2. ASSUME NEW d \in Clients, ClientStep(d) PROVE P
  <2>1. CASE NewTurnScopedReceiver(d) \/ NewEventsReceiver(d) \/ SubscribeStream(d) \/ HookUnsubscribe(d) \/ AddStream(d)
    <3>1. (\E r \in Receivers : Made(d, r)) \/ Subscribed(d) \/ Hooked(d) \/ Added(d)
      BY <2>1, TurnMove, EventsMove, SubscribeMove, HookMove, AddMove
    <3>2. cl'[c] = cl[c]
      BY <3>1 DEF Made, Subscribed, Hooked, Added, Moved, Went, Back, EarlyPC
    <3> QED BY <1>0, <3>2
  <2>2. CASE StartTurn(d) \/ LaunchLoop(d) \/ LaunchFailed(d) \/ Control(d) \/ ControlReturns(d)
    <3>1. cl'[c] = cl[c]
      BY <2>2, StartMove, LaunchMove, FailedMove, ControlMove DEF Moved, Went, Back, EarlyPC
    <3> QED BY <1>0, <3>1
  <2>3. CASE DeleteSession(d) \/ CloseDrained(d) \/ CloseTimeout(d) \/ CloseGivesUp(d) \/ CloseAgain(d)
    <3>1. cl'[c] = cl[c]
      BY <2>3, DeleteMove, CloseMove, AgainMove DEF Moved, Went, Back, EarlyPC
    <3> QED BY <1>0, <3>1
  <2>4. CASE CloseNext(d) \/ CloseAllStreams(d)
    <3>1. cl'[c] = cl[c]
      BY <2>4, CloseNextMove, CloseStreamsMove DEF Moved, Went, EarlyPC
    <3> QED BY <1>0, <3>1
  <2>5. CASE AgentStop(d) \/ AgentStopDriver(d) \/ AgentExit(d) \/ AgentBusClose(d)
    <3>1. cl'[c].obj = m /\ cl'[c].pc \in EarlyPC
      BY <2>5, StopMove, ExitMove, BusCloseMove DEF Moved, Went, EarlyPC
    <3> QED BY <3>1
  <2>6. CASE CompleteActiveTurn(d)
    <3>1. CASE d = c
      BY <2>6, <3>1, CompleteMove
    <3>2. CASE d # c
      <4>1. cl'[c] = cl[c]
        BY <2>6, <3>2, CompleteMove DEF Moved, Went
      <4> QED BY <1>0, <4>1
    <3> QED BY <3>1, <3>2
  <2> QED BY <1>2, <2>1, <2>2, <2>3, <2>4, <2>5, <2>6 DEF ClientStep
<1> QED BY <1>0, <1>1, <1>2, NoCall

\* The call of an open turn keeps it and does not get to its launch once the
\* agent has exited.
LEMMA RefusedHolds ==
    ASSUME ServiceInv, Next, NEW c \in Clients, NEW r \in OpenTurns, cl[c].rcv = r, cl[c].pc # "launch",
           ms[rcv[r].obj].exited, ~rcv'[r].done
    PROVE  cl'[c].rcv = r /\ cl'[c].pc # "launch"
<1> USE DEF ServiceInv
<1> DEFINE P == cl'[c].rcv = r /\ cl'[c].pc # "launch"
<1>0. cl'[c] = cl[c] => P
    OBVIOUS
<1>1. /\ r \in Receivers /\ rcv[r].kind = "turn" /\ cl[c].rcv # None /\ cl[c].pc \in Holding
      /\ rcv[r].obj = cl[c].obj /\ cl[c].op # "events"
    BY NoneIs DEF OpenTurns, ClientInv, ClientOK
<1>2. ASSUME NEW d \in Clients, ClientCalls(d) PROVE cl'[c] = cl[c]
  <2>1. CASE CreateSession(d)
    BY <2>1, CreateMove
  <2>2. CASE Gets(d)
    BY <1>1, <2>2, GetMove DEF Moved, Holding, SettingUp
  <2>3. CASE DestroySession(d)
    BY <1>1, <2>3, DestroyMove DEF Moved, Holding, SettingUp
  <2>4. CASE Close(d)
    BY <1>1, <2>4, CloseMove DEF Moved, Back, Went, Holding, SettingUp
  <2> QED BY <1>2, <2>1, <2>2, <2>3, <2>4 DEF ClientCalls, Gets
<1>3. ASSUME NEW d \in Clients, ClientStep(d) PROVE P
  <2>1. CASE NewTurnScopedReceiver(d) \/ NewEventsReceiver(d)
    <3>1. PICK q \in Receivers : Made(d, q)
      BY <2>1, TurnMove, EventsMove
    <3>2. cl'[c] = cl[c]
      BY <1>1, <3>1 DEF Made, Moved, Holding, SettingUp
    <3> QED BY <1>0, <3>2
  <2>2. CASE SubscribeStream(d) \/ HookUnsubscribe(d) \/ AddStream(d)
    <3>1. Subscribed(d) \/ Hooked(d) \/ Added(d)
      BY <2>2, SubscribeMove, HookMove, AddMove
    <3> QED BY <1>1, <3>1 DEF Subscribed, Hooked, Added, Moved, Went, Back
  <2>3. CASE StartTurn(d)
    <3>1. CASE d = c
      <4>1. CASE Settled({cl[c].rcv}, {cl[c].rcv})
        BY <1>1, <4>1 DEF Settled
      <4>2. CASE ~ms[cl[c].obj].exited
        BY <1>1, <4>2
      <4> QED BY <2>3, <3>1, <4>1, <4>2, StartMove
    <3>2. CASE d # c
      <4>1. cl'[c] = cl[c]
        BY <2>3, <3>2, StartMove DEF Moved, Went, Back
      <4> QED BY <1>0, <4>1
    <3> QED BY <3>1, <3>2
  <2>4. CASE LaunchLoop(d)
    <3>1. cl'[c] = cl[c]
      BY <2>4, LaunchMove DEF Moved, Went, Back
    <3> QED BY <1>0, <3>1
  <2>5. CASE LaunchFailed(d)
    <3>1. CASE d = c
      <4>1. Settled({cl[c].rcv}, {cl[c].rcv})
        BY <2>5, <3>1, FailedMove
      <4> QED BY <1>1, <4>1 DEF Settled
    <3>2. CASE d # c
      <4>1. cl'[c] = cl[c]
        BY <2>5, <3>2, FailedMove DEF Moved, Back
      <4> QED BY <1>0, <4>1
    <3> QED BY <3>1, <3>2
  <2>6. CASE Control(d) \/ ControlReturns(d) \/ DeleteSession(d) \/ CloseDrained(d) \/ CloseTimeout(d)
             \/ CloseGivesUp(d) \/ CloseAgain(d)
    <3>1. cl'[c] = cl[c]
      BY <1>1, <2>6, ControlMove, DeleteMove, CloseMove, AgainMove DEF Moved, Went, Back, Holding, SettingUp
    <3> QED BY <1>0, <3>1
  <2>7. CASE CloseNext(d) \/ CloseAllStreams(d) \/ CompleteActiveTurn(d)
    <3>1. cl'[c] = cl[c]
      BY <1>1, <2>7, CloseNextMove, CloseStreamsMove, CompleteMove DEF Moved, Went, Holding, SettingUp
    <3> QED BY <1>0, <3>1
  <2>8. CASE AgentStop(d) \/ AgentStopDriver(d) \/ AgentExit(d) \/ AgentBusClose(d)
    <3>1. cl'[c] = cl[c]
      BY <1>1, <2>8, StopMove, ExitMove, BusCloseMove DEF Moved, Went, Holding, SettingUp
    <3> QED BY <1>0, <3>1
  <2> QED BY <1>3, <2>1, <2>2, <2>3, <2>4, <2>5, <2>6, <2>7, <2>8 DEF ClientStep
<1> QED BY <1>0, <1>2, <1>3, NoCall

LEMMA RefusedStep ==
    ASSUME ServiceInv, Next
    PROVE  RefusedInv'
<1> USE DEF ServiceInv
<1> SUFFICES ASSUME NEW r \in OpenTurns', r \notin overlapped', ms'[rcv'[r].obj].destroyed,
                    \A c \in Clients : ~(cl'[c].obj = rcv'[r].obj /\ cl'[c].pc \in EarlyPC)
             PROVE  \E c \in Clients : cl'[c].rcv = r /\ cl'[c].pc # "launch"
    BY DEF RefusedInv, PastComplete
<1>1. CASE r \notin OpenTurns
  <2>1. PICK c \in Clients, q \in Receivers : Made(c, q)
    BY <1>1, OpenStepIs
  <2>2. r = q /\ cl'[c].rcv = q /\ cl'[c].pc = "stream"
    BY <1>1, <2>1, MadeTurn
  <2> QED BY <2>2
<1>2. CASE r \in OpenTurns
  <2> DEFINE m == rcv[r].obj
  <2>1. rcv'[r].obj = m /\ r \notin overlapped /\ r \in Receivers
    <3>1. ASSUME NEW c \in Clients, NEW q \in Receivers, Made(c, q) PROVE rcv'[r].obj = m /\ r \notin overlapped
      BY <1>2, <3>1, MadeTurn DEF OpenTurns
    <3> QED BY <1>2, <3>1, OpenStepIs DEF OpenTurns
  <2>2. m \in Objs /\ ~rcv'[r].done /\ r # None
    BY <1>2, NoneIs DEF OpenTurns, ReceiverInv
  <2>3. ms[m].turnDone = r
    BY <1>2, <2>1 DEF OwnInv
  <2>4. \A c \in Clients : ~(cl[c].obj = m /\ cl[c].pc \in EarlyPC)
    BY <2>1, <2>2, <2>3, EarlyStep
  <2>5. ms[m].destroyed
    <3>1. TearStep
      BY TearSteps
    <3> QED BY <2>1, <2>2, <3>1 DEF TearStep, EarlyPC
  <2>6. PICK c \in Clients : cl[c].rcv = r /\ cl[c].pc # "launch"
    BY <1>2, <2>1, <2>4, <2>5 DEF RefusedInv, PastComplete
  <2>7. ms[m].exited
    <3>1. CASE TearingDown(m)
      <4>1. PICK d \in Clients : cl[d].obj = m /\ cl[d].pc \in TearingPC
        BY <3>1 DEF TearingDown, TearingPC
      <4>2. cl[d].pc = "closeStreams"
        BY <2>4, <4>1 DEF TearingPC, EarlyPC
      <4> QED BY <4>1, <4>2 DEF ExitInv
    <3> QED BY <2>2, <2>5, <3>1 DEF ExitInv
  <2> QED BY <1>2, <2>2, <2>6, <2>7, RefusedHolds
<1> QED BY <1>1, <1>2

-----------------------------------------------------------------------------
(* The theorems *)

LEMMA Initially ==
    ASSUME Init
    PROVE  ServiceInv
<1> USE ServiceAssumption
<1>1. /\ NoSession \in Managed /\ FreeReceiver \in Receiver /\ Ready \in Client /\ Quiet \in PubType
      /\ [pc |-> "none", obj |-> None] \in LoopType
    BY ReadyIs, QuietIs DEF NoSession, Managed, FreeReceiver, Receiver, LoopType, LoopPC
<1>2. \A r \in Receivers : rcv[r] = FreeReceiver
    BY DEF Init
<1>3. \A m \in Objs : ms[m] = NoSession
    BY DEF Init
<1>4. \A c \in Clients : cl[c] = Ready
    BY DEF Init
<1>5. \A p \in Publishers : pub[p] = Quiet
    BY DEF Init
<1>6. TypeOK
  <2>1. sessions \in [Ids -> Objs \cup {None}] /\ wg \in Int
    BY DEF Init
  <2>6. closed \in BOOLEAN
    BY Zenon DEF Init
  <2>5. calls \in PlanOf
    BY DEF Init, PlanOf
  <2>2. ms \in [Objs -> Managed] /\ rcv \in [Receivers -> Receiver] /\ cl \in [Clients -> Client]
    BY <1>1 DEF Init
  <2>3. lp \in [Loops -> LoopType] /\ pub \in [Publishers -> PubType]
    BY <1>1 DEF Init
  <2>4. \A r \in Receivers : Len(rcv[r].buf) <= BufCap
    BY <1>2 DEF FreeReceiver
  <2>7. overlapped \subseteq Receivers
    BY DEF Init
  <2> QED BY <2>1, <2>2, <2>3, <2>4, <2>5, <2>6, <2>7 DEF TypeOK, LoopType, PubType
<1>7. ClientInv /\ SoleInv /\ SetUpInv /\ ExitInv
    BY <1>3, <1>4, ReadyIs DEF ClientInv, ClientOK, SoleInv, SetUpInv, ExitInv, Holding, SettingUp, TearingPC, NoSession
<1>8. LoopInv
    BY DEF LoopInv, Init
<1>9. ReceiverInv /\ OpenInv /\ ClosedIsDetached /\ TornDownTurnsClosed
    BY <1>2 DEF ReceiverInv, OpenInv, ClosedIsDetached, TornDownTurnsClosed, FreeReceiver
<1>10. TurnInv /\ PlaceInv
    BY <1>3, <1>5, QuietIs DEF TurnInv, PlaceInv, NoSession
<1>11. CountInv
  <2>1. OpenTurns = {}
    BY <1>2 DEF OpenTurns, FreeReceiver
  <2> QED BY <2>1, FS_EmptySet DEF CountInv, Init
<1>12. OwnInv /\ RefusedInv
  <2>1. OpenTurns = {}
    BY <1>2 DEF OpenTurns, FreeReceiver
  <2> QED BY <2>1 DEF OwnInv, RefusedInv
<1> QED BY <1>6, <1>7, <1>8, <1>9, <1>10, <1>11, <1>12 DEF ServiceInv

LEMMA Stutters ==
    ASSUME ServiceInv, UNCHANGED vars
    PROVE  ServiceInv'
<1> USE DEF vars, ServiceInv
<1>1. TypeOK' /\ ClientInv' /\ LoopInv' /\ ReceiverInv'
    BY SMTT(20) DEF TypeOK, ClientInv, ClientOK, LoopInv, ReceiverInv
<1>2. TurnInv' /\ CountInv' /\ SoleInv' /\ PlaceInv' /\ SetUpInv'
    BY SMTT(20) DEF TurnInv, CountInv, OpenTurns, SoleInv, PlaceInv, SetUpInv
<1>3. OpenInv' /\ ClosedIsDetached' /\ ExitInv' /\ TornDownTurnsClosed'
    BY SMTT(20) DEF OpenInv, BeingSetUp, ClosedIsDetached, ExitInv, TornDown, TearingDown, TornDownTurnsClosed
<1>4. OwnInv' /\ RefusedInv'
    BY SMTT(20) DEF OpenTurns, OwnInv, RefusedInv, PastComplete
<1> QED BY <1>1, <1>2, <1>3, <1>4

LEMMA Invariance == Spec => []ServiceInv
<1>1. Init => ServiceInv
    BY Initially
<1>2. ServiceInv /\ [Next]_vars => ServiceInv'
  <2>1. CASE ServiceInv /\ Next
    BY <2>1, TypeStep, ClientsStep, LoopsStep, ReceiverStep, TurnStep, CountStep, SoleStep, PlaceStep,
       SetUpStep, OpenStep, DetachedStep, ExitStep, TornStep, OwnStep, RefusedStep DEF ServiceInv
  <2>2. CASE ServiceInv /\ UNCHANGED vars
    BY <2>2, Stutters
  <2> QED BY <2>1, <2>2
<1> QED BY <1>1, <1>2, PTL DEF Spec

\* Every value the service keeps has its type, and no stream buffer of
\* serviceEventReceiver holds more than its channel's capacity, whatever the
\* number of clients and publishers.
THEOREM TypeCorrect == Spec => []TypeOK
<1>1. ServiceInv => TypeOK
    BY DEF ServiceInv
<1> QED BY <1>1, Invariance, PTL

\* No slot of the WaitGroup of AgentLoopService is left over: a turn that is
\* counted has its call still at work or a session that was not torn down,
\* unless it was open together with another turn of its session.
THEOREM SlotsReleased == Spec => []SlotsAreReleased
<1>1. ServiceInv => SlotsAreReleased
  <2> SUFFICES ASSUME ServiceInv PROVE SlotsAreReleased
    OBVIOUS
  <2>1. ASSUME NEW r \in OpenTurns, r \notin overlapped, TornDown(rcv[r].obj)
        PROVE  \E c \in Clients : cl[c].rcv = r
    BY <2>1 DEF ServiceInv, RefusedInv, PastComplete, TornDown, TearingDown, EarlyPC
  <2>2. {r \in OpenTurns : StillCompleted(r) \/ r \in overlapped} = OpenTurns
    BY <2>1 DEF StillCompleted
  <2> QED BY <2>2 DEF ServiceInv, CountInv, SlotsAreReleased
<1> QED BY <1>1, Invariance, PTL

\* A closed stream is off the agent's bus and out of its session's set once
\* its set-up is over, and no returned turn stream outlives the teardown of
\* its session by DestroySession or Close.
THEOREM NothingLeft == Spec => []NothingLeftBehind
<1>1. ServiceInv => NothingLeftBehind
    BY DEF ServiceInv, NothingLeftBehind
<1> QED BY <1>1, Invariance, PTL
=============================================================================
