--------------------------- MODULE AgentLoopService ---------------------------
(***************************************************************************)
(* AgentLoopService of internal/agent: the session table, the turn-scoped  *)
(* and session-scoped event streams, the WaitGroup that counts turns, and  *)
(* the teardown by DestroySession and Close.                               *)
(*                                                                         *)
(* Clients are goroutines inside an API call, Loops are driver goroutines. *)
(* Both publish events: the agent's bus copies its handlers under the lock *)
(* and calls them one after the other without it, so a publisher may still *)
(* be on its way to a handler that has been unsubscribed, and a handler    *)
(* whose receiver has a full buffer holds its publisher up.                *)
(*                                                                         *)
(* Of the agent (module AgentLoop) only what streams depend on is kept:    *)
(* its busy flag, its driver's, exited, and the bus.  Events are "info" or *)
(* "terminal"; events a goroutine emits back to back are one event.        *)
(***************************************************************************)
EXTENDS Integers, Sequences, FiniteSets

CONSTANTS
    Clients,    \* goroutines inside an API call
    Loops,      \* driver goroutines
    Ids,        \* session IDs
    Objs,       \* managedSession objects (an ID may be used again)
    Receivers,  \* serviceEventReceiver objects
    MaxSess,    \* AgentLoopService.maxSess, 0 for no limit
    BufCap,     \* stream buffer (turnStreamBufferSize, sessionStreamBufferSize)
    Plans,      \* bound: what the clients call, see PlanOf
    None

Publishers == Clients \cup Loops

Ops == {"create", "send", "continue", "events", "info", "terminal", "destroy", "close"}

\* A plan gives each client the calls it makes, as one set of possible calls for
\* the first one, one for the second and so on.
PlanOf == [Clients -> Seq(SUBSET Ops)]

ASSUME ServiceAssumption ==
    /\ Clients \cap Loops = {}
    /\ None \notin Publishers \cup Ids \cup Objs \cup Receivers
    /\ MaxSess \in Nat /\ BufCap \in Nat \ {0}
    /\ IsFiniteSet(Receivers)
    /\ Plans \subseteq PlanOf

VARIABLES
    sessions,   \* AgentLoopService.sessions: the object under each ID
    closed,     \* AgentLoopService.closed
    wg,         \* AgentLoopService.wg
    ms,         \* the managedSession objects with their agents
    rcv,        \* the serviceEventReceiver objects
    cl,         \* the clients: where they are, with their local variables
    lp,         \* the driver goroutines
    pub,        \* publishers: the event and the handlers still to be called
    calls,      \* what is left of the plan
    overlapped  \* history: turns that were open together with another one of
                \* their session

vars == <<sessions, closed, wg, ms, rcv, cl, lp, pub, calls, overlapped>>

Event == {"info", "terminal"}

\* An entry of the agent's bus: a receiver's doneTurn tracker or its stream.
Handler == Receivers \X {"tracker", "stream"}

HandlersOf(r) == {r} \X {"tracker", "stream"}

Managed ==
    [id : Ids \cup {None}, destroyed : BOOLEAN, streams : SUBSET Receivers,
     turnDone : Receivers \cup {None}, running : BOOLEAN, dRunning : BOOLEAN,
     exited : BOOLEAN, busClosed : BOOLEAN, subs : SUBSET Handler, queued : Nat]

Receiver ==
    [kind : {"free", "turn", "events"}, obj : Objs \cup {None}, closed : BOOLEAN,
     hooks : SUBSET {"unsub", "remove"}, buf : Seq(Event), done : BOOLEAN,
     returned : BOOLEAN]

ClientPC == {"ready", "track", "events", "stream", "hook", "add", "start", "launch",
             "failed", "control", "emit", "stop", "stopDriver", "exit", "busClose",
             "complete", "closeStreams", "delete", "next", "wait", "again", "wait2"}

Client == [pc : ClientPC, op : {"none", "send", "continue", "events", "info", "terminal",
                                "destroy", "close"},
           obj : Objs \cup {None}, rcv : Receivers \cup {None}, todo : SUBSET Objs,
           all : SUBSET Objs]

LoopPC == {"none", "run", "turn", "after", "failed", "idle", "done"}

NoSession == [id |-> None, destroyed |-> FALSE, streams |-> {}, turnDone |-> None,
              running |-> FALSE, dRunning |-> FALSE, exited |-> FALSE,
              busClosed |-> FALSE, subs |-> {}, queued |-> 0]

FreeReceiver == [kind |-> "free", obj |-> None, closed |-> FALSE, hooks |-> {},
                 buf |-> <<>>, done |-> FALSE, returned |-> FALSE]

Ready == [pc |-> "ready", op |-> "none", obj |-> None, rcv |-> None, todo |-> {}, all |-> {}]

Quiet == [event |-> "info", pend |-> {}, cur |-> None]

-----------------------------------------------------------------------------
(* The objects the handlers share, as one value that the small methods     *)
(* below transform.                                                        *)

Heap == [ms |-> ms, rcv |-> rcv, wg |-> wg]

Becomes(h) == ms' = h.ms /\ rcv' = h.rcv /\ wg' = h.wg

\* doneTurn: once only, release the WaitGroup slot and clear the session's
\* turnDone, even when it belongs to another turn by now.
doneTurn(h, r) ==
    IF h.rcv[r].done THEN h
    ELSE [h EXCEPT !.wg = @ - 1, !.rcv[r].done = TRUE, !.ms[h.rcv[r].obj].turnDone = None]

completeActiveTurn(h, m) ==
    IF h.ms[m].turnDone = None THEN h ELSE doneTurn(h, h.ms[m].turnDone)

RunHooks(h, r, hooks) ==
    [h EXCEPT !.ms[h.rcv[r].obj].subs = IF "unsub" \in hooks THEN @ \ HandlersOf(r) ELSE @,
              !.ms[h.rcv[r].obj].streams = IF "remove" \in hooks THEN @ \ {r} ELSE @]

closeWithError(h, r) ==
    IF h.rcv[r].closed THEN h
    ELSE RunHooks([h EXCEPT !.rcv[r].closed = TRUE, !.rcv[r].hooks = {}],
                  r, h.rcv[r].hooks)

\* Mutant: a hook registered on a closed receiver is never run.
setCloseHookForgets(h, r, hook) == [h EXCEPT !.rcv[r].hooks = @ \cup {hook}]

\* A hook registered after the close runs at once.
setCloseHook(h, r, hook) ==
    IF h.rcv[r].closed THEN RunHooks(h, r, {hook})
    ELSE [h EXCEPT !.rcv[r].hooks = @ \cup {hook}]

\* closeAllStreams takes the set, empties it and closes every receiver in it.
closeAllStreams(h, m) ==
    LET open == {r \in h.ms[m].streams : ~h.rcv[r].closed}
        unsub == UNION {HandlersOf(r) : r \in {q \in open : "unsub" \in h.rcv[q].hooks}}
    IN  [h EXCEPT !.ms[m].streams = {},
                  !.ms[m].subs = @ \ unsub,
                  !.rcv = [r \in Receivers |->
                              IF r \in open THEN [h.rcv[r] EXCEPT !.closed = TRUE, !.hooks = {}]
                              ELSE h.rcv[r]]]

\* subscribe is a no-op on a closed bus.
subscribe(h, m, hd) ==
    IF h.ms[m].busClosed THEN h ELSE [h EXCEPT !.ms[m].subs = @ \cup {hd}]

-----------------------------------------------------------------------------
(* Publishing.                                                             *)

Publishing(p) == pub[p].pend # {} \/ pub[p].cur # None

\* publish: copy the handlers (a tracker ignores what is not terminal), or
\* drop the event when the bus is closed.
publish(p, m, e) ==
    LET heard == {h \in ms[m].subs : e = "terminal" \/ h[2] = "stream"}
    IN  pub' = [pub EXCEPT ![p] = IF heard = {} THEN Quiet
                                  ELSE [event |-> e, pend |-> heard, cur |-> None]]

\* What is left of p's round over the handlers.
Remaining(p, pend, cur) ==
    IF pend = {} /\ cur = None THEN Quiet
    ELSE [pub[p] EXCEPT !.pend = pend, !.cur = cur]

\* The next handler of the copy, in no particular order.  The tracker calls
\* doneTurn; a stream handler enters push, which gives up on a receiver it
\* finds closed.
CallHandler(p) ==
    /\ pub[p].cur = None
    /\ \E h \in pub[p].pend :
        LET r == h[1] IN
        \/ /\ h[2] = "tracker"
           /\ pub' = [pub EXCEPT ![p] = Remaining(p, @.pend \ {h}, None)]
           /\ Becomes(doneTurn(Heap, r))
        \/ /\ h[2] = "stream"
           /\ pub' = [pub EXCEPT ![p] = Remaining(p, @.pend \ {h},
                                                  IF rcv[r].closed THEN None ELSE r)]
           /\ Becomes(Heap)
    /\ UNCHANGED <<sessions, closed, overlapped, cl, lp, calls>>

\* Mutant: push does not wait for room in the buffer.
PushSendsAlways(p) ==
    /\ pub[p].cur # None
    /\ rcv' = [rcv EXCEPT ![pub[p].cur].buf = Append(@, pub[p].event)]
    /\ pub' = [pub EXCEPT ![p] = Remaining(p, @.pend, None)]
    /\ UNCHANGED <<sessions, closed, overlapped, wg, ms, cl, lp, calls>>

\* push's select: the send may win even against a close.  A turn stream that
\* was handed its terminal event closes itself and completes the turn.
PushSends(p) ==
    /\ pub[p].cur # None
    /\ LET r == pub[p].cur
           h == [Heap EXCEPT !.rcv[r].buf = Append(@, pub[p].event)]
       IN  /\ Len(rcv[r].buf) < BufCap
           /\ IF rcv[r].kind = "turn" /\ pub[p].event = "terminal"
              THEN Becomes(doneTurn(closeWithError(h, r), r))
              ELSE Becomes(h)
    /\ pub' = [pub EXCEPT ![p] = Remaining(p, @.pend, None)]
    /\ UNCHANGED <<sessions, closed, overlapped, cl, lp, calls>>

PushGivesUp(p) ==
    /\ pub[p].cur # None
    /\ rcv[pub[p].cur].closed
    /\ pub' = [pub EXCEPT ![p] = Remaining(p, @.pend, None)]
    /\ UNCHANGED <<sessions, closed, overlapped, wg, ms, rcv, cl, lp, calls>>

\* The consumer of a stream: Recv takes the oldest event ...
Recv(r) ==
    /\ rcv[r].returned /\ rcv[r].buf # <<>>
    /\ rcv' = [rcv EXCEPT ![r].buf = Tail(@)]
    /\ UNCHANGED <<sessions, closed, overlapped, wg, ms, cl, lp, pub, calls>>

\* ... and the consumer may close the stream early.
CloseReceiver(r) ==
    /\ rcv[r].returned /\ ~rcv[r].closed
    /\ Becomes(closeWithError(Heap, r))
    /\ UNCHANGED <<sessions, closed, overlapped, cl, lp, pub, calls>>

-----------------------------------------------------------------------------
(* API calls that open a stream: SendMessage, Continue, SubscribeEvents.   *)

NewCall(c, op) ==
    /\ cl[c].pc = "ready" /\ calls[c] # <<>> /\ op \in Head(calls[c])
    /\ calls' = [calls EXCEPT ![c] = Tail(@)]

Goto(c, pc) == cl' = [cl EXCEPT ![c].pc = pc]

Return(c) == cl' = [cl EXCEPT ![c] = Ready]

\* CreateSession and ResumeSession, under the service lock.
CreateSession(c) ==
    /\ NewCall(c, "create")
    /\ ~closed
    /\ MaxSess > 0 => Cardinality({i \in Ids : sessions[i] # None}) < MaxSess
    /\ \E i \in Ids, m \in Objs :
        /\ sessions[i] = None /\ ms[m].id = None
        /\ sessions' = [sessions EXCEPT ![i] = m]
        /\ ms' = [ms EXCEPT ![m].id = i]
    /\ UNCHANGED <<closed, overlapped, wg, rcv, cl, lp, pub>>

\* getSession, at the head of every call on one session.
getSession(c, op, pc) ==
    /\ NewCall(c, op)
    /\ \E i \in Ids :
        /\ sessions[i] # None /\ ~ms[sessions[i]].destroyed
        /\ cl' = [cl EXCEPT ![c] = [Ready EXCEPT !.pc = pc, !.op = op, !.obj = sessions[i]]]
    /\ UNCHANGED <<sessions, closed, overlapped, wg, ms, rcv, lp, pub>>

OpenTurns == {r \in Receivers : rcv[r].kind = "turn" /\ ~rcv[r].done}

\* newTurnScopedReceiver: count the turn, install turnDone (over another
\* turn's, if there is one), subscribe the tracker ...
NewTurnScopedReceiver(c) ==
    /\ cl[c].pc = "track"
    /\ \E r \in Receivers :
        /\ rcv[r].kind = "free"
        /\ LET m == cl[c].obj
               h == [Heap EXCEPT !.wg = @ + 1, !.ms[m].turnDone = r,
                                 !.rcv[r].kind = "turn", !.rcv[r].obj = m]
               others == {q \in OpenTurns : rcv[q].obj = m}
           IN  /\ Becomes(subscribe(h, m, <<r, "tracker">>))
               /\ overlapped' = IF others = {} THEN overlapped ELSE overlapped \cup others \cup {r}
        /\ cl' = [cl EXCEPT ![c].pc = "stream", ![c].rcv = r]
    /\ UNCHANGED <<sessions, closed, lp, pub, calls>>

\* SubscribeEvents: the receiver starts with a state event in its buffer.
NewEventsReceiver(c) ==
    /\ cl[c].pc = "events"
    /\ \E r \in Receivers :
        /\ rcv[r].kind = "free"
        /\ rcv' = [rcv EXCEPT ![r].kind = "events", ![r].obj = cl[c].obj,
                              ![r].buf = <<"info">>]
        /\ cl' = [cl EXCEPT ![c].pc = "stream", ![c].rcv = r]
    /\ UNCHANGED <<sessions, closed, overlapped, wg, ms, lp, pub, calls>>

\* ... then the stream handler, ...
SubscribeStream(c) ==
    /\ cl[c].pc = "stream"
    /\ Becomes(subscribe(Heap, cl[c].obj, <<cl[c].rcv, "stream">>))
    /\ Goto(c, "hook")
    /\ UNCHANGED <<sessions, closed, overlapped, lp, pub, calls>>

\* ... the hook that undoes the subscriptions, ...
HookUnsubscribe(c) ==
    /\ cl[c].pc = "hook"
    /\ Becomes(setCloseHook(Heap, cl[c].rcv, "unsub"))
    /\ Goto(c, "add")
    /\ UNCHANGED <<sessions, closed, overlapped, lp, pub, calls>>

\* ... and the session's stream set.  SubscribeEvents is done then.
AddStream(c) ==
    /\ cl[c].pc = "add"
    /\ LET r == cl[c].rcv
           h == setCloseHook([Heap EXCEPT !.ms[cl[c].obj].streams = @ \cup {r}], r, "remove")
       IN  IF cl[c].op = "events"
           THEN Becomes([h EXCEPT !.rcv[r].returned = TRUE]) /\ Return(c)
           ELSE Becomes(h) /\ Goto(c, "start")
    /\ UNCHANGED <<sessions, closed, overlapped, lp, pub, calls>>

\* Mutant: the call that failed keeps its slot.
FailTurnKeepsSlot(h, r) == closeWithError(h, r)

\* The call failed: doneTurn and receiver.Close.
FailTurn(h, r) == closeWithError(doneTurn(h, r), r)

\* Agent.Start / Prompt / Continue: stopped or busy, else take the busy flag.
\* Start and Prompt announce themselves on the bus.
StartTurn(c) ==
    /\ cl[c].pc = "start"
    /\ LET m == cl[c].obj IN
       IF ms[m].exited \/ ms[m].running
       THEN Becomes(FailTurn(Heap, cl[c].rcv)) /\ Return(c) /\ UNCHANGED pub
       ELSE /\ Becomes([Heap EXCEPT !.ms[m].running = TRUE])
            /\ Goto(c, "launch")
            /\ IF cl[c].op = "send" THEN publish(c, m, "info") ELSE UNCHANGED pub
    /\ UNCHANGED <<sessions, closed, overlapped, lp, calls>>

\* driver.Start / Resume: a busy driver refuses, else the loop is launched and
\* the stream is handed to the client.
LaunchLoop(c) ==
    /\ cl[c].pc = "launch" /\ ~Publishing(c)
    /\ LET m == cl[c].obj IN
       \/ /\ ms[m].dRunning
          /\ Becomes([Heap EXCEPT !.ms[m].running = FALSE])
          /\ Goto(c, "failed")
          /\ IF cl[c].op = "send" /\ ~ms[m].exited THEN publish(c, m, "info") ELSE UNCHANGED pub
          /\ UNCHANGED lp
       \/ /\ ~ms[m].dRunning
          /\ Becomes([Heap EXCEPT !.ms[m].dRunning = TRUE, !.rcv[cl[c].rcv].returned = TRUE])
          /\ \E l \in Loops : /\ lp[l].pc = "none"
                              /\ lp' = [lp EXCEPT ![l] = [pc |-> "run", obj |-> m]]
          /\ Return(c)
          /\ UNCHANGED pub
    /\ UNCHANGED <<sessions, closed, overlapped, calls>>

LaunchFailed(c) ==
    /\ cl[c].pc = "failed" /\ ~Publishing(c)
    /\ Becomes(FailTurn(Heap, cl[c].rcv))
    /\ Return(c)
    /\ UNCHANGED <<sessions, closed, overlapped, lp, pub, calls>>

-----------------------------------------------------------------------------
(* Steer and FollowUp (an info event) and Abort (a terminal one): the      *)
(* command queue is closed with the bus. Steer is refused while the agent  *)
(* is idle and otherwise does what FollowUp does.                          *)

Control(c) ==
    /\ cl[c].pc = "control"
    /\ IF ms[cl[c].obj].busClosed
       THEN Return(c) /\ UNCHANGED <<ms, pub>>
       ELSE /\ publish(c, cl[c].obj, cl[c].op)
            /\ ms' = [ms EXCEPT ![cl[c].obj].queued = IF cl[c].op = "info" THEN @ + 1 ELSE @]
            /\ Goto(c, "emit")
    /\ UNCHANGED <<sessions, closed, overlapped, wg, rcv, lp, calls>>

ControlReturns(c) ==
    /\ cl[c].pc = "emit" /\ ~Publishing(c)
    /\ Return(c)
    /\ UNCHANGED <<sessions, closed, overlapped, wg, ms, rcv, lp, pub, calls>>

-----------------------------------------------------------------------------
(* DestroySession and Close.                                               *)

\* DestroySession does not look at destroyed: two calls may tear down the
\* same session at once.
DestroySession(c) ==
    /\ NewCall(c, "destroy")
    /\ \E i \in Ids :
        LET m == sessions[i] IN
        /\ m # None
        /\ ms' = [ms EXCEPT ![m].destroyed = TRUE]
        /\ cl' = [cl EXCEPT ![c] = [Ready EXCEPT !.pc = "stop", !.op = "destroy", !.obj = m]]
    /\ UNCHANGED <<sessions, closed, overlapped, wg, rcv, lp, pub>>

Close(c) ==
    /\ NewCall(c, "close")
    /\ ~closed
    /\ closed' = TRUE
    /\ LET all == {sessions[i] : i \in Ids} \ {None}
       IN  cl' = [cl EXCEPT ![c] = [Ready EXCEPT !.pc = "next", !.op = "close",
                                                 !.todo = all, !.all = all]]
    /\ UNCHANGED <<sessions, overlapped, wg, ms, rcv, lp, pub>>

\* Mutant: Close's first pass never gets past its first session.
CloseNextRepeats(c) ==
    /\ cl[c].pc = "next"
    /\ \E m \in cl[c].todo :
        /\ ms' = [ms EXCEPT ![m].destroyed = TRUE]
        /\ cl' = [cl EXCEPT ![c].pc = "stop", ![c].obj = m]
    /\ UNCHANGED <<sessions, closed, overlapped, wg, rcv, lp, pub, calls>>

\* The next session of Close's first pass; after the last, delete them all.
CloseNext(c) ==
    /\ cl[c].pc = "next"
    /\ IF cl[c].todo = {}
       THEN /\ sessions' = [i \in Ids |->
                   IF \E m \in cl[c].all : ms[m].id = i THEN None ELSE sessions[i]]
            /\ Goto(c, "wait")
            /\ UNCHANGED ms
       ELSE \E m \in cl[c].todo :
            /\ ms' = [ms EXCEPT ![m].destroyed = TRUE]
            /\ cl' = [cl EXCEPT ![c].pc = "stop", ![c].obj = m, ![c].todo = @ \ {m}]
            /\ UNCHANGED sessions
    /\ UNCHANGED <<closed, overlapped, wg, rcv, lp, pub, calls>>

\* Agent.Stop, as in AgentLoop.
AgentStop(c) ==
    /\ cl[c].pc = "stop"
    /\ IF ms[cl[c].obj].exited
       THEN Goto(c, "complete") /\ UNCHANGED ms
       ELSE ms' = [ms EXCEPT ![cl[c].obj].running = FALSE] /\ Goto(c, "stopDriver")
    /\ UNCHANGED <<sessions, closed, overlapped, wg, rcv, lp, pub, calls>>

AgentStopDriver(c) ==
    /\ cl[c].pc = "stopDriver"
    /\ ms' = [ms EXCEPT ![cl[c].obj].dRunning = FALSE]
    /\ Goto(c, "exit")
    /\ UNCHANGED <<sessions, closed, overlapped, wg, rcv, lp, pub, calls>>

AgentExit(c) ==
    /\ cl[c].pc = "exit"
    /\ LET m == cl[c].obj IN
       IF ms[m].exited
       THEN Goto(c, "complete") /\ UNCHANGED <<ms, pub>>
       ELSE /\ ms' = [ms EXCEPT ![m].exited = TRUE]
            /\ publish(c, m, "info")
            /\ Goto(c, "busClose")
    /\ UNCHANGED <<sessions, closed, overlapped, wg, rcv, lp, calls>>

AgentBusClose(c) ==
    /\ cl[c].pc = "busClose" /\ ~Publishing(c)
    /\ ms' = [ms EXCEPT ![cl[c].obj].busClosed = TRUE, ![cl[c].obj].subs = {}]
    /\ Goto(c, "complete")
    /\ UNCHANGED <<sessions, closed, overlapped, wg, rcv, lp, pub, calls>>

CompleteActiveTurn(c) ==
    /\ cl[c].pc = "complete"
    /\ Becomes(completeActiveTurn(Heap, cl[c].obj))
    /\ Goto(c, "closeStreams")
    /\ UNCHANGED <<sessions, closed, overlapped, lp, pub, calls>>

CloseAllStreams(c) ==
    /\ cl[c].pc = "closeStreams"
    /\ Becomes(closeAllStreams(Heap, cl[c].obj))
    /\ Goto(c, IF cl[c].op = "destroy" THEN "delete" ELSE "next")
    /\ UNCHANGED <<sessions, closed, overlapped, lp, pub, calls>>

\* delete goes by ID, whatever object is under it by now.
DeleteSession(c) ==
    /\ cl[c].pc = "delete"
    /\ sessions' = [sessions EXCEPT ![ms[cl[c].obj].id] = None]
    /\ Return(c)
    /\ UNCHANGED <<closed, overlapped, wg, ms, rcv, lp, pub, calls>>

\* Close waits for the turns it knows nothing of, ...
CloseDrained(c) ==
    /\ cl[c].pc \in {"wait", "wait2"}
    /\ wg = 0
    /\ Return(c)
    /\ UNCHANGED <<sessions, closed, overlapped, wg, ms, rcv, lp, pub, calls>>

\* ... after closeDrainTimeout completes the active turns once more, ...
CloseTimeout(c) ==
    /\ cl[c].pc = "wait"
    /\ cl' = [cl EXCEPT ![c].pc = "again", ![c].todo = cl[c].all]
    /\ UNCHANGED <<sessions, closed, overlapped, wg, ms, rcv, lp, pub, calls>>

CloseAgain(c) ==
    /\ cl[c].pc = "again"
    /\ IF cl[c].todo = {}
       THEN Goto(c, "wait2") /\ Becomes(Heap)
       ELSE \E m \in cl[c].todo :
            /\ cl' = [cl EXCEPT ![c].todo = @ \ {m}]
            /\ Becomes(completeActiveTurn(Heap, m))
    /\ UNCHANGED <<sessions, closed, overlapped, lp, pub, calls>>

\* ... and gives up after five more seconds.
CloseGivesUp(c) ==
    /\ cl[c].pc = "wait2"
    /\ Return(c)
    /\ UNCHANGED <<sessions, closed, overlapped, wg, ms, rcv, lp, pub, calls>>

-----------------------------------------------------------------------------
(* Driver goroutines.                                                      *)

LoopGoto(l, pc) == lp' = [lp EXCEPT ![l].pc = pc]

\* turn_started, deltas, tool events.
LoopEvents(l) ==
    /\ lp[l].pc = "run"
    /\ publish(l, lp[l].obj, "info")
    /\ LoopGoto(l, "turn")
    /\ UNCHANGED <<sessions, closed, overlapped, wg, ms, rcv, cl, calls>>

\* turn_completed, or provider_error with driver_error behind it, or the one
\* terminal event (driver_error, aborted) of a cancelled or panicking turn.
LoopTerminal(l) ==
    /\ lp[l].pc = "turn" /\ ~Publishing(l)
    /\ publish(l, lp[l].obj, "terminal")
    /\ \E pc \in {"after", "failed", "idle"} : LoopGoto(l, pc)
    /\ UNCHANGED <<sessions, closed, overlapped, wg, ms, rcv, cl, calls>>

LoopDriverError(l) ==
    /\ lp[l].pc = "failed" /\ ~Publishing(l)
    /\ publish(l, lp[l].obj, "terminal")
    /\ LoopGoto(l, "idle")
    /\ UNCHANGED <<sessions, closed, overlapped, wg, ms, rcv, cl, calls>>

\* A queued steer or follow-up: another turn of the same goroutine, which no
\* call opened and the WaitGroup does not count.
LoopNextTurn(l) ==
    /\ lp[l].pc = "after" /\ ~Publishing(l)
    /\ ms[lp[l].obj].queued > 0
    /\ ms' = [ms EXCEPT ![lp[l].obj].queued = @ - 1]
    /\ LoopGoto(l, "run")
    /\ UNCHANGED <<sessions, closed, overlapped, wg, rcv, cl, pub, calls>>

LoopIdle(l) ==
    /\ lp[l].pc \in {"after", "idle"} /\ ~Publishing(l)
    /\ IF ms[lp[l].obj].exited THEN UNCHANGED pub ELSE publish(l, lp[l].obj, "info")
    /\ LoopGoto(l, "done")
    /\ UNCHANGED <<sessions, closed, overlapped, wg, ms, rcv, cl, calls>>

LoopDone(l) ==
    /\ lp[l].pc = "done" /\ ~Publishing(l)
    /\ ms' = [ms EXCEPT ![lp[l].obj].running = FALSE, ![lp[l].obj].dRunning = FALSE]
    /\ lp' = [lp EXCEPT ![l] = [pc |-> "none", obj |-> None]]
    /\ UNCHANGED <<sessions, closed, overlapped, wg, rcv, cl, pub, calls>>

-----------------------------------------------------------------------------
Init ==
    /\ sessions = [i \in Ids |-> None]
    /\ closed = FALSE /\ wg = 0
    /\ ms = [m \in Objs |-> NoSession]
    /\ rcv = [r \in Receivers |-> FreeReceiver]
    /\ cl = [c \in Clients |-> Ready]
    /\ lp = [l \in Loops |-> [pc |-> "none", obj |-> None]]
    /\ pub = [p \in Publishers |-> Quiet]
    /\ calls \in Plans
    /\ overlapped = {}

ClientCalls(c) ==
    \/ CreateSession(c)
    \/ \E op \in {"send", "continue"} : getSession(c, op, "track")
    \/ getSession(c, "events", "events")
    \/ \E op \in Event : getSession(c, op, "control")
    \/ DestroySession(c) \/ Close(c)

ClientStep(c) ==
    \/ NewTurnScopedReceiver(c) \/ NewEventsReceiver(c) \/ SubscribeStream(c)
    \/ HookUnsubscribe(c) \/ AddStream(c) \/ StartTurn(c) \/ LaunchLoop(c) \/ LaunchFailed(c)
    \/ Control(c) \/ ControlReturns(c)
    \/ CloseNext(c) \/ AgentStop(c) \/ AgentStopDriver(c) \/ AgentExit(c) \/ AgentBusClose(c)
    \/ CompleteActiveTurn(c) \/ CloseAllStreams(c) \/ DeleteSession(c)
    \/ CloseDrained(c) \/ CloseTimeout(c) \/ CloseAgain(c) \/ CloseGivesUp(c)

LoopStep(l) ==
    \/ LoopEvents(l) \/ LoopTerminal(l) \/ LoopDriverError(l) \/ LoopNextTurn(l)
    \/ LoopIdle(l) \/ LoopDone(l)

PublisherStep(p) == CallHandler(p) \/ PushSends(p) \/ PushGivesUp(p)

Next ==
    \/ \E c \in Clients : ClientCalls(c) \/ ClientStep(c)
    \/ \E l \in Loops : LoopStep(l)
    \/ \E p \in Publishers : PublisherStep(p)
    \/ \E r \in Receivers : Recv(r) \/ CloseReceiver(r)

Spec == Init /\ [][Next]_vars

\* Calls proceed, timers fire, driver goroutines come to the end of their turn
\* (provider and tools take the session context).
RuntimeFairness ==
    /\ \A c \in Clients : WF_vars(ClientStep(c))
    /\ \A l \in Loops : WF_vars(LoopStep(l))
    /\ \A p \in Publishers : WF_vars(PublisherStep(p))

\* Consumers keep reading: the RPC handlers loop on Recv.
ConsumerFairness == \A r \in Receivers : WF_vars(Recv(r))

FairSpec == Spec /\ RuntimeFairness /\ ConsumerFairness

-----------------------------------------------------------------------------
(* Properties.                                                             *)

TypeOK ==
    /\ sessions \in [Ids -> Objs \cup {None}]
    /\ closed \in BOOLEAN
    /\ wg \in Int
    /\ ms \in [Objs -> Managed]
    /\ rcv \in [Receivers -> Receiver]
    /\ \A r \in Receivers : Len(rcv[r].buf) <= BufCap
    /\ cl \in [Clients -> Client]
    /\ lp \in [Loops -> [pc : LoopPC, obj : Objs \cup {None}]]
    /\ pub \in [Publishers -> [event : Event, pend : SUBSET Handler,
                               cur : Receivers \cup {None}]]
    /\ calls \in PlanOf
    /\ overlapped \subseteq Receivers

\* r is still being set up by newTurnScopedReceiver or SubscribeEvents.
BeingSetUp(r) == \E c \in Clients : cl[c].rcv = r /\ cl[c].pc \in {"stream", "hook", "add"}

\* A closed stream leaves nothing behind: once its set-up is over it is off
\* the bus and out of the session's stream set, even when a terminal event of
\* the turn before closed it in the middle of the set-up.
ClosedIsDetached ==
    \A r \in Receivers :
        rcv[r].closed /\ ~BeingSetUp(r) =>
            \A m \in Objs : r \notin ms[m].streams /\ ms[m].subs \cap HandlersOf(r) = {}

TearingDown(m) ==
    \E c \in Clients : /\ cl[c].obj = m
                       /\ cl[c].pc \in {"stop", "stopDriver", "exit", "busClose",
                                        "complete", "closeStreams"}

TornDown(m) == ms[m].destroyed /\ ~TearingDown(m)

\* Somebody will still complete turn r: the call that opened it, which has not
\* returned, or whatever ends the turn of a session that has not been torn down.
StillCompleted(r) == (\E c \in Clients : cl[c].rcv = r) \/ ~TornDown(rcv[r].obj)

\* No slot of the WaitGroup is left over: it counts turns that somebody will
\* still complete, though the tracker, the stream handler, a failed call,
\* DestroySession and both passes of Close may all complete a turn, one of the
\* previous turn's events may, and a teardown may come between any two of them.
\* Excepted are turns that were open together with another one of their
\* session, for a session remembers one turnDone only.
SlotsAreReleased ==
    wg = Cardinality({r \in OpenTurns : StillCompleted(r) \/ r \in overlapped})

\* No turn stream outlives its session: a SendMessage or Continue that got the
\* session before DestroySession or Close took it is either refused by the
\* exited agent, or its stream is there for closeAllStreams to close.
TornDownTurnsClosed ==
    \A r \in Receivers :
        /\ rcv[r].kind = "turn" /\ rcv[r].returned
        /\ TornDown(rcv[r].obj)
        => rcv[r].closed

\* Nothing of a closed stream or of a session torn down is left behind.
NothingLeftBehind == ClosedIsDetached /\ TornDownTurnsClosed

\* A turn was started and its stream has not ended, or a teardown is under way.
Waiting ==
    \/ \E r \in Receivers : rcv[r].kind = "turn" /\ rcv[r].returned /\ ~rcv[r].closed
    \/ \E c \in Clients : cl[c].op \in {"destroy", "close"}

\* What a client waits for comes: the stream of every started turn ends, and
\* DestroySession and Close return, for the two drain timeouts bound the wait
\* for turns whose slot nobody will release.
CallsReturn == []<>~Waiting
=============================================================================
