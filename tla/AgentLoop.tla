------------------------------ MODULE AgentLoop ------------------------------
(***************************************************************************)
(* One runtime session of internal/agent: the Agent (state machine, busy   *)
(* flag, session), its NativeDriver (the LLM -> tools -> LLM loop, one     *)
(* goroutine per started turn chain) and the ControlQueue between them.    *)
(*                                                                         *)
(* Callers are goroutines inside Prompt/Continue/Stop/Steer/FollowUp/Abort;*)
(* Loops are goroutines inside NativeDriver.run.  A step is one critical   *)
(* section of Agent.mu, NativeDriver.mu or ControlQueue.mu, one channel    *)
(* operation, or one return of a provider call or of a tool.  Event        *)
(* delivery is the subject of AgentLoopService.                            *)
(***************************************************************************)
EXTENDS Integers, Sequences, FiniteSets, SequencesExt

CONSTANTS
    Callers,     \* goroutines that call the Agent's methods
    Loops,       \* identities for goroutines running NativeDriver.run
    Replies,     \* tool-call lists a provider may answer with
    QueueCap,    \* buffer of the control channel (64 in agent.New)
    MaxOps,      \* bound: method calls that get past their first check
    MaxLog,      \* bound: no further tool calls once the log is this long
    None         \* no message, no loop

CallKinds == {"tool", "terminal", "unknown"}

\* Prompt, steer, follow-up and abort texts, numbered by the call they came with.
Msgs == 1..MaxOps

ASSUME ConstantsAssumption ==
    /\ None \notin Nat \cup Loops
    /\ Replies \subseteq Seq(CallKinds)
    /\ <<>> \in Replies
    /\ QueueCap \in Nat \ {0}
    /\ MaxOps \in Nat
    /\ MaxLog \in Nat

VARIABLES
    state,         \* Agent.state
    running,       \* Agent.running
    session,       \* Agent.session: the conversation log and the turn metrics
    dRunning,      \* NativeDriver.running
    cancel,        \* NativeDriver.cancel: the loop it cancels, or None
    pendingSteer,  \* NativeDriver.pendingSteer
    followUps,     \* NativeDriver.followUps
    queue,         \* buffered commands of ControlQueue.ch
    qClosed,       \* ControlQueue.closed
    ctxDone,       \* the session context given to Start is cancelled
    cpc,           \* where each caller is
    snap,          \* the session copy Prompt took before calling Start
    want,          \* the command or prompt a caller carries
    target,        \* the CancelFunc NativeDriver.Stop picked up
    lpc,           \* where each loop goroutine is
    lctx,          \* the loop's own context was cancelled by Stop
    lprompt,       \* nextPrompt of the loop
    todo,          \* tool calls of the current reply not executed yet
    cmds,          \* drained commands not applied yet
    ops,           \* number of method calls so far
    accepted,      \* history: follow-ups accepted, in order
    delivered,     \* history: follow-ups that became a prompt, in order
    dropped        \* history: follow-ups an abort discarded

agentVars   == <<state, running, session, ctxDone>>
driverVars  == <<dRunning, cancel, pendingSteer, followUps>>
queueVars   == <<queue, qClosed>>
callerVars  == <<cpc, snap, want, target>>
loopVars    == <<lpc, lctx, lprompt, todo, cmds>>
historyVars == <<ops, accepted, delivered, dropped>>
vars == <<agentVars, driverVars, queueVars, callerVars, loopVars, historyVars>>

-----------------------------------------------------------------------------
(* Types.                                                                  *)

AgentStates == {"idle", "streaming", "tool_execution", "waiting_followup", "exited"}

Entry == [role : {"user"}]
    \cup [role : {"assistant"}, calls : Seq(CallKinds)]
    \cup [role : {"tool"}, kind : CallKinds]

Session == [log : Seq(Entry), turnsCompleted : Nat]

EmptySession == [log |-> <<>>, turnsCompleted |-> 0]

Command == [type : {"steer", "followup", "abort", "prompt"}, msg : Msgs]

NoCommand == [type |-> "prompt", msg |-> None]

CallerPC == {"ready", "start", "startTrans", "startUndo", "startDriver",
             "startFail", "startIdle", "contDriver", "stopDriver", "stopCancel",
             "stopExit", "stopClose", "send", "panicked"}

LoopPC == {"none", "top", "stream", "call", "toolState", "tools",
           "complete", "drain", "choose", "idle", "defer1", "defer2"}

-----------------------------------------------------------------------------
(* The state machine.                                                      *)

validTransitions ==
    [ s \in AgentStates |->
        CASE s = "idle"             -> {"streaming", "exited"}
          [] s = "streaming"        -> {"tool_execution", "waiting_followup", "idle", "exited"}
          [] s = "tool_execution"   -> {"streaming", "idle", "exited"}
          [] s = "waiting_followup" -> {"streaming", "idle", "exited"}
          [] s = "exited"           -> {} ]

\* Transition(to) returns nil: a no-op when already there, refused once exited.
Allowed(to) == state # "exited" /\ (state = to \/ to \in validTransitions[state])

Transition(to) == state' = IF Allowed(to) THEN to ELSE state

AppendConversation(e) == session' = [session EXCEPT !.log = Append(@, e)]

-----------------------------------------------------------------------------
(* Caller steps.                                                           *)

NewOp == ops < MaxOps /\ ops' = ops + 1

\* The call returns; its local variables die.
Return(c) ==
    /\ cpc'    = [cpc EXCEPT ![c] = "ready"]
    /\ snap'   = [snap EXCEPT ![c] = EmptySession]
    /\ want'   = [want EXCEPT ![c] = NoCommand]
    /\ target' = [target EXCEPT ![c] = None]

Goto(c, pc) ==
    /\ cpc' = [cpc EXCEPT ![c] = pc]
    /\ UNCHANGED <<snap, want, target>>

\* Prompt evaluates a.Session() before it calls Start: the copy may be stale
\* by the time Start takes the lock.
Prompt(c) ==
    /\ cpc[c] = "ready"
    /\ NewOp
    /\ cpc' = [cpc EXCEPT ![c] = "start"]
    /\ snap' = [snap EXCEPT ![c] = session]
    /\ want' = [want EXCEPT ![c] = [type |-> "prompt", msg |-> ops + 1]]
    /\ UNCHANGED <<agentVars, driverVars, queueVars, loopVars, target,
                   accepted, delivered, dropped>>

\* Mutant: forgets to look at the busy flag.
StartLockNoBusyCheck(c) ==
    /\ cpc[c] = "start"
    /\ IF state = "exited"
       THEN Return(c) /\ UNCHANGED <<running, session>>
       ELSE running' = TRUE /\ session' = snap[c] /\ Goto(c, "startTrans")
    /\ UNCHANGED <<state, ctxDone, driverVars, queueVars, loopVars, historyVars>>

\* Start, first critical section: stopped, busy, or take the busy flag and
\* install the session copy.
StartLock(c) ==
    /\ cpc[c] = "start"
    /\ IF state = "exited" \/ running
       THEN Return(c) /\ UNCHANGED <<running, session>>
       ELSE /\ running' = TRUE
            /\ session' = snap[c]
            /\ Goto(c, "startTrans")
    /\ UNCHANGED <<state, ctxDone, driverVars, queueVars, loopVars, historyVars>>

StartTransition(c) ==
    /\ cpc[c] = "startTrans"
    /\ Transition("streaming")
    /\ Goto(c, IF Allowed("streaming") THEN "startDriver" ELSE "startUndo")
    /\ UNCHANGED <<running, session, ctxDone, driverVars, queueVars, loopVars, historyVars>>

\* Transition refused: give the busy flag back.
StartUndo(c) ==
    /\ cpc[c] = "startUndo"
    /\ running' = FALSE
    /\ Return(c)
    /\ UNCHANGED <<state, session, ctxDone, driverVars, queueVars, loopVars, historyVars>>

\* startLoop launches a goroutine running the prompt p.
Launch(l, p) ==
    /\ lpc[l] = "none"
    /\ cancel'   = l
    /\ dRunning' = TRUE
    /\ lpc'      = [lpc EXCEPT ![l] = "top"]
    /\ lctx'     = [lctx EXCEPT ![l] = FALSE]
    /\ lprompt'  = [lprompt EXCEPT ![l] = p]
    /\ UNCHANGED <<pendingSteer, followUps, todo, cmds>>

StartDriver(c) ==
    /\ cpc[c] = "startDriver"
    /\ IF dRunning
       THEN Goto(c, "startFail") /\ UNCHANGED <<driverVars, loopVars>>
       ELSE Return(c) /\ \E l \in Loops : Launch(l, want[c].msg)
    /\ UNCHANGED <<agentVars, queueVars, historyVars>>

\* driver.Start failed: clear the flag, then transition back to idle.
StartFail(c) ==
    /\ cpc[c] = "startFail"
    /\ running' = FALSE
    /\ Goto(c, "startIdle")
    /\ UNCHANGED <<state, session, ctxDone, driverVars, queueVars, loopVars, historyVars>>

StartIdle(c) ==
    /\ cpc[c] = "startIdle"
    /\ Transition("idle")
    /\ Return(c)
    /\ UNCHANGED <<running, session, ctxDone, driverVars, queueVars, loopVars, historyVars>>

Continue(c) ==
    /\ cpc[c] = "ready"
    /\ NewOp
    /\ state # "exited" /\ ~running
    /\ running' = TRUE
    /\ Goto(c, "contDriver")
    /\ UNCHANGED <<state, session, ctxDone, driverVars, queueVars, loopVars,
                   accepted, delivered, dropped>>

ContinueDriver(c) ==
    /\ cpc[c] = "contDriver"
    /\ Return(c)
    /\ IF dRunning
       THEN running' = FALSE /\ UNCHANGED <<driverVars, loopVars>>
       ELSE UNCHANGED running /\ \E l \in Loops : Launch(l, None)
    /\ UNCHANGED <<state, session, ctxDone, queueVars, historyVars>>

\* Stop, first critical section: clears the busy flag before anything stops.
Stop(c) ==
    /\ cpc[c] = "ready"
    /\ NewOp
    /\ state # "exited"
    /\ running' = FALSE
    /\ Goto(c, "stopDriver")
    /\ UNCHANGED <<state, session, ctxDone, driverVars, queueVars, loopVars,
                   accepted, delivered, dropped>>

\* NativeDriver.Stop: takes the CancelFunc out, clears the flag, does not wait.
StopDriver(c) ==
    /\ cpc[c] = "stopDriver"
    /\ target' = [target EXCEPT ![c] = cancel]
    /\ cancel' = None
    /\ dRunning' = FALSE
    /\ cpc' = [cpc EXCEPT ![c] = "stopCancel"]
    /\ UNCHANGED <<agentVars, pendingSteer, followUps, queueVars, snap, want,
                   loopVars, historyVars>>

StopCancel(c) ==
    /\ cpc[c] = "stopCancel"
    /\ lctx' = [l \in Loops |-> lctx[l] \/ (l = target[c] /\ lpc[l] # "none")]
    /\ target' = [target EXCEPT ![c] = None]
    /\ cpc' = [cpc EXCEPT ![c] = "stopExit"]
    /\ UNCHANGED <<agentVars, driverVars, queueVars, snap, want, lpc, lprompt,
                   todo, cmds, historyVars>>

\* A second Stop gets StoppedError from Transition and returns early.
StopExit(c) ==
    /\ cpc[c] = "stopExit"
    /\ Transition("exited")
    /\ Goto(c, IF state = "exited" THEN "ready" ELSE "stopClose")
    /\ UNCHANGED <<running, session, ctxDone, driverVars, queueVars, loopVars, historyVars>>

StopClose(c) ==
    /\ cpc[c] = "stopClose"
    /\ qClosed' = TRUE
    /\ Goto(c, "ready")
    /\ UNCHANGED <<agentVars, driverVars, queue, loopVars, historyVars>>

\* The service cancels the session context after agent.Stop.
CancelContext ==
    /\ state = "exited" /\ ~ctxDone
    /\ ctxDone' = TRUE
    /\ UNCHANGED <<state, running, session, driverVars, queueVars, callerVars,
                   loopVars, historyVars>>

\* Steer, FollowUp and Abort: Enqueue reads closed under the read lock ...
Enqueue(c, t) ==
    /\ cpc[c] = "ready"
    /\ NewOp
    /\ ~qClosed
    /\ want' = [want EXCEPT ![c] = [type |-> t, msg |-> ops + 1]]
    /\ cpc' = [cpc EXCEPT ![c] = "send"]
    /\ UNCHANGED <<agentVars, driverVars, queueVars, snap, target, loopVars,
                   accepted, delivered, dropped>>

\* Mutant: off by one in the capacity.
SendOverCapacity(c) ==
    /\ cpc[c] = "send" /\ ~qClosed
    /\ IF Len(queue) <= QueueCap
       THEN queue' = Append(queue, want[c]) ELSE UNCHANGED queue
    /\ Return(c)
    /\ UNCHANGED <<agentVars, driverVars, qClosed, loopVars, historyVars>>

\* ... and sends after releasing it: a full buffer refuses the command, a
\* channel closed in the meantime panics.
Send(c) ==
    /\ cpc[c] = "send"
    /\ \/ /\ qClosed
          /\ Goto(c, "panicked")
          /\ UNCHANGED <<queue, accepted>>
       \/ /\ ~qClosed /\ Len(queue) >= QueueCap
          /\ Return(c)
          /\ UNCHANGED <<queue, accepted>>
       \/ /\ ~qClosed /\ Len(queue) < QueueCap
          /\ queue' = Append(queue, want[c])
          /\ accepted' = IF want[c].type = "followup"
                         THEN Append(accepted, want[c].msg) ELSE accepted
          /\ Return(c)
    /\ UNCHANGED <<agentVars, driverVars, qClosed, loopVars, ops,
                   delivered, dropped>>

-----------------------------------------------------------------------------
(* Loop steps: NativeDriver.run.                                           *)

Jump(l, pc) == lpc' = [lpc EXCEPT ![l] = pc]

CtxErr(l) == lctx[l] \/ ctxDone

\* Head of the for loop: give up on a cancelled context, else append the
\* user message.
LoopTop(l) ==
    /\ lpc[l] = "top"
    /\ IF CtxErr(l)
       THEN Jump(l, "idle") /\ UNCHANGED session
       ELSE /\ Jump(l, "stream")
            /\ IF lprompt[l] = None
               THEN UNCHANGED session
               ELSE AppendConversation([role |-> "user"])
    /\ lprompt' = [lprompt EXCEPT ![l] = None]
    /\ UNCHANGED <<state, running, ctxDone, driverVars, queueVars, callerVars,
                   lctx, todo, cmds, historyVars>>

\* executeSingleTurn's for loop, the head.
EnterStreaming(l) ==
    /\ lpc[l] = "stream"
    /\ IF CtxErr(l) \/ ~Allowed("streaming")
       THEN Jump(l, "idle") /\ UNCHANGED state
       ELSE Jump(l, "call") /\ Transition("streaming")
    /\ UNCHANGED <<running, session, ctxDone, driverVars, queueVars, callerVars,
                   lctx, lprompt, todo, cmds, historyVars>>

\* callProvider answers with a list of tool calls, possibly empty ...
ProviderReplies(l, reply) ==
    /\ lpc[l] = "call"
    /\ reply # <<>> => Len(session.log) < MaxLog
    /\ AppendConversation([role |-> "assistant", calls |-> reply])
    /\ todo' = [todo EXCEPT ![l] = reply]
    /\ Jump(l, IF reply = <<>> THEN "complete" ELSE "toolState")
    /\ UNCHANGED <<state, running, ctxDone, driverVars, queueVars, callerVars,
                   lctx, lprompt, cmds, historyVars>>

\* Mutant: an error path that skips the transition to idle.
ProviderFailsNoIdle(l) ==
    /\ lpc[l] = "call"
    /\ Jump(l, "defer1")
    /\ UNCHANGED <<agentVars, driverVars, queueVars, callerVars, lctx, lprompt,
                   todo, cmds, historyVars>>

\* ... or fails, or panics: provider_error, driver_error, then idle.
ProviderFails(l) ==
    /\ lpc[l] = "call"
    /\ Jump(l, "idle")
    /\ UNCHANGED <<agentVars, driverVars, queueVars, callerVars, lctx, lprompt,
                   todo, cmds, historyVars>>

EnterToolExecution(l) ==
    /\ lpc[l] = "toolState"
    /\ Transition("tool_execution")
    /\ Jump(l, IF Allowed("tool_execution") THEN "tools" ELSE "idle")
    /\ todo' = [todo EXCEPT ![l] = IF Allowed("tool_execution") THEN @ ELSE <<>>]
    /\ UNCHANGED <<running, session, ctxDone, driverVars, queueVars, callerVars,
                   lctx, lprompt, cmds, historyVars>>

\* Mutant: an unknown tool is skipped without a result.
ExecuteToolSkipsUnknown(l) ==
    /\ lpc[l] = "tools"
    /\ IF Head(todo[l]) = "unknown"
       THEN UNCHANGED session
       ELSE AppendConversation([role |-> "tool", kind |-> Head(todo[l])])
    /\ todo' = [todo EXCEPT ![l] = Tail(@)]
    /\ Jump(l, IF Len(todo[l]) = 1 THEN "stream" ELSE "tools")
    /\ UNCHANGED <<state, running, ctxDone, driverVars, queueVars, callerVars,
                   lctx, lprompt, cmds, historyVars>>

\* executeTool for the next call: every outcome, an unknown tool included,
\* appends one result.  A terminal tool abandons the calls after it.
ExecuteTool(l) ==
    /\ lpc[l] = "tools"
    /\ LET call == Head(todo[l])
           rest == IF call = "terminal" THEN <<>> ELSE Tail(todo[l])
       IN  /\ AppendConversation([role |-> "tool", kind |-> call])
           /\ todo' = [todo EXCEPT ![l] = rest]
           /\ Jump(l, IF call = "terminal" THEN "complete"
                      ELSE IF rest = <<>> THEN "stream" ELSE "tools")
    /\ UNCHANGED <<state, running, ctxDone, driverVars, queueVars, callerVars,
                   lctx, lprompt, cmds, historyVars>>

\* A tool panics: run's deferred recover.
ToolPanics(l) ==
    /\ lpc[l] = "tools" /\ Head(todo[l]) # "unknown"
    /\ todo' = [todo EXCEPT ![l] = <<>>]
    /\ Jump(l, "idle")
    /\ UNCHANGED <<agentVars, driverVars, queueVars, callerVars, lctx, lprompt,
                   cmds, historyVars>>

MarkTurnCompleted(l) ==
    /\ lpc[l] = "complete"
    /\ session' = [session EXCEPT !.turnsCompleted = @ + 1]
    /\ Jump(l, "drain")
    /\ UNCHANGED <<state, running, ctxDone, driverVars, queueVars, callerVars,
                   lctx, lprompt, todo, cmds, historyVars>>

\* ControlQueue.Drain receives until the buffer is empty.
DrainOne(l) ==
    /\ lpc[l] = "drain" /\ queue # <<>>
    /\ cmds' = [cmds EXCEPT ![l] = Append(@, Head(queue))]
    /\ queue' = Tail(queue)
    /\ UNCHANGED <<agentVars, driverVars, qClosed, callerVars, lpc, lctx,
                   lprompt, todo, historyVars>>

DrainEnd(l) ==
    /\ lpc[l] = "drain" /\ queue = <<>>
    /\ Jump(l, "choose")
    /\ UNCHANGED <<agentVars, driverVars, queueVars, callerVars, lctx, lprompt,
                   todo, cmds, historyVars>>

\* pendingSteer and followUps have no lock: when two loops are at it (which
\* takes a Stop, see OneExecutorUntilStop) a write may be lost.
Racing(l) == \E k \in Loops \ {l} : lpc[k] = "choose"

SetPendingSteer(l, v) ==
    \/ pendingSteer' = v
    \/ Racing(l) /\ UNCHANGED pendingSteer

SetFollowUps(l, v) ==
    \/ followUps' = v
    \/ Racing(l) /\ UNCHANGED followUps

FollowUpsIn(s) == {s[i].msg : i \in {j \in 1..Len(s) : s[j].type = "followup"}}

\* Mutant: the newest follow-up goes to the front.
ApplyCommandLIFO(l) ==
    /\ lpc[l] = "choose" /\ cmds[l] # <<>>
    /\ cmds' = [cmds EXCEPT ![l] = Tail(@)]
    /\ Head(cmds[l]).type = "followup"
    /\ followUps' = <<Head(cmds[l]).msg>> \o followUps
    /\ UNCHANGED <<agentVars, dRunning, cancel, pendingSteer, queueVars, callerVars,
                   lpc, lctx, lprompt, todo, historyVars>>

\* nextPromptFromControlQueue, one command: the latest steer replaces the one
\* before it, follow-ups queue up, an abort discards the rest of the batch.
ApplyCommand(l) ==
    /\ lpc[l] = "choose" /\ cmds[l] # <<>>
    /\ LET cmd == Head(cmds[l])
       IN  \/ /\ cmd.type = "abort"
              /\ cmds' = [cmds EXCEPT ![l] = <<>>]
              /\ dropped' = dropped \cup FollowUpsIn(cmds[l])
              /\ Jump(l, "idle")
              /\ UNCHANGED <<pendingSteer, followUps>>
           \/ /\ cmd.type = "steer"
              /\ cmds' = [cmds EXCEPT ![l] = Tail(@)]
              /\ SetPendingSteer(l, cmd.msg)
              /\ UNCHANGED <<followUps, dropped, lpc>>
           \/ /\ cmd.type = "followup"
              /\ cmds' = [cmds EXCEPT ![l] = Tail(@)]
              /\ SetFollowUps(l, Append(followUps, cmd.msg))
              /\ UNCHANGED <<pendingSteer, dropped, lpc>>
    /\ UNCHANGED <<agentVars, dRunning, cancel, queueVars, callerVars, lctx,
                   lprompt, todo, ops, accepted, delivered>>

\* All commands applied: the steer first, else the oldest follow-up, else done.
NextPrompt(l) ==
    /\ lpc[l] = "choose" /\ cmds[l] = <<>>
    /\ \/ /\ pendingSteer # None
          /\ lprompt' = [lprompt EXCEPT ![l] = pendingSteer]
          /\ SetPendingSteer(l, None)
          /\ Jump(l, "top")
          /\ UNCHANGED <<followUps, delivered>>
       \/ /\ pendingSteer = None /\ followUps # <<>>
          /\ lprompt' = [lprompt EXCEPT ![l] = Head(followUps)]
          /\ delivered' = Append(delivered, Head(followUps))
          /\ SetFollowUps(l, Tail(followUps))
          /\ Jump(l, "top")
          /\ UNCHANGED pendingSteer
       \/ /\ pendingSteer = None /\ followUps = <<>>
          /\ Jump(l, "idle")
          /\ UNCHANGED <<lprompt, pendingSteer, followUps, delivered>>
    /\ UNCHANGED <<agentVars, dRunning, cancel, queueVars, callerVars, lctx,
                   todo, cmds, ops, accepted, dropped>>

\* Every way out of run transitions to idle ...
ReturnToIdle(l) ==
    /\ lpc[l] = "idle"
    /\ Transition("idle")
    /\ Jump(l, "defer1")
    /\ UNCHANGED <<running, session, ctxDone, driverVars, queueVars, callerVars,
                   lctx, lprompt, todo, cmds, historyVars>>

\* ... and only then clears the driver's flag and the agent's flag, whoever
\* owns them by now.  The CancelFunc of a finished loop cancels nothing, so
\* references to it are forgotten with the loop.
DeferDriver(l) ==
    /\ lpc[l] = "defer1"
    /\ dRunning' = FALSE
    /\ Jump(l, "defer2")
    /\ UNCHANGED <<agentVars, cancel, pendingSteer, followUps, queueVars,
                   callerVars, lctx, lprompt, todo, cmds, historyVars>>

\* Mutant: the busy flag is left set.
OnDriverIdleForgets(l) ==
    /\ lpc[l] = "defer2"
    /\ Jump(l, "none")
    /\ UNCHANGED <<agentVars, driverVars, queueVars, callerVars, lctx, lprompt,
                   todo, cmds, historyVars>>

OnDriverIdle(l) ==
    /\ lpc[l] = "defer2"
    /\ running' = FALSE
    /\ Jump(l, "none")
    /\ lctx' = [lctx EXCEPT ![l] = FALSE]
    /\ cancel' = IF cancel = l THEN None ELSE cancel
    /\ target' = [c \in Callers |-> IF target[c] = l THEN None ELSE target[c]]
    /\ UNCHANGED <<state, session, ctxDone, dRunning, pendingSteer, followUps,
                   queueVars, cpc, snap, want, lprompt, todo, cmds, historyVars>>

-----------------------------------------------------------------------------
Init ==
    /\ state = "idle" /\ running = FALSE /\ session = EmptySession /\ ctxDone = FALSE
    /\ dRunning = FALSE /\ cancel = None /\ pendingSteer = None /\ followUps = <<>>
    /\ queue = <<>> /\ qClosed = FALSE
    /\ cpc = [c \in Callers |-> "ready"]
    /\ snap = [c \in Callers |-> EmptySession]
    /\ want = [c \in Callers |-> NoCommand]
    /\ target = [c \in Callers |-> None]
    /\ lpc = [l \in Loops |-> "none"]
    /\ lctx = [l \in Loops |-> FALSE]
    /\ lprompt = [l \in Loops |-> None]
    /\ todo = [l \in Loops |-> <<>>]
    /\ cmds = [l \in Loops |-> <<>>]
    /\ ops = 0 /\ accepted = <<>> /\ delivered = <<>> /\ dropped = {}

\* A call already made runs to its end.
CallerStep(c) ==
    \/ StartLock(c) \/ StartTransition(c) \/ StartUndo(c) \/ StartDriver(c)
    \/ StartFail(c) \/ StartIdle(c) \/ ContinueDriver(c)
    \/ StopDriver(c) \/ StopCancel(c) \/ StopExit(c) \/ StopClose(c)
    \/ Send(c)

CallerCalls(c) ==
    \/ Prompt(c)
    \/ Continue(c)
    \/ Stop(c)
    \/ \E t \in {"steer", "followup", "abort"} : Enqueue(c, t)

LoopStep(l) ==
    \/ LoopTop(l) \/ EnterStreaming(l)
    \/ \E reply \in Replies : ProviderReplies(l, reply)
    \/ ProviderFails(l) \/ EnterToolExecution(l) \/ ExecuteTool(l) \/ ToolPanics(l)
    \/ MarkTurnCompleted(l) \/ DrainOne(l) \/ DrainEnd(l) \/ ApplyCommand(l)
    \/ NextPrompt(l)
    \/ ReturnToIdle(l) \/ DeferDriver(l) \/ OnDriverIdle(l)

Next ==
    \/ \E c \in Callers : CallerStep(c) \/ CallerCalls(c)
    \/ \E l \in Loops : LoopStep(l)
    \/ CancelContext

Spec == Init /\ [][Next]_vars

\* Method calls return, and so do provider calls and tools: Go schedules every
\* runnable goroutine, and both take the loop's context.
Fairness ==
    /\ \A c \in Callers : WF_vars(CallerStep(c))
    /\ \A l \in Loops : WF_vars(LoopStep(l))

FairSpec == Spec /\ Fairness

-----------------------------------------------------------------------------
(* Properties.                                                             *)

TypeOK ==
    /\ state \in AgentStates
    /\ running \in BOOLEAN
    /\ session \in Session
    /\ ctxDone \in BOOLEAN
    /\ dRunning \in BOOLEAN
    /\ cancel \in Loops \cup {None}
    /\ pendingSteer \in Msgs \cup {None}
    /\ followUps \in Seq(Msgs)
    /\ queue \in Seq(Command) /\ Len(queue) <= QueueCap
    /\ qClosed \in BOOLEAN
    /\ cpc \in [Callers -> CallerPC]
    /\ snap \in [Callers -> Session]
    /\ want \in [Callers -> Command \cup {NoCommand}]
    /\ target \in [Callers -> Loops \cup {None}]
    /\ lpc \in [Loops -> LoopPC]
    /\ lctx \in [Loops -> BOOLEAN]
    /\ lprompt \in [Loops -> Msgs \cup {None}]
    /\ todo \in [Loops -> Seq(CallKinds)]
    /\ cmds \in [Loops -> Seq(Command)]
    /\ ops \in 0..MaxOps
    /\ accepted \in Seq(Msgs)
    /\ delivered \in Seq(Msgs)
    /\ dropped \subseteq Msgs

ActiveLoops == {l \in Loops : lpc[l] # "none"}

\* Callers that hold the busy flag: past running = true, loop not launched.
StartingCallers == {c \in Callers : cpc[c] \in {"startTrans", "startDriver", "contDriver"}}

\* Some Stop has cleared the busy flag; from here on the agent is doomed.
StopBegun ==
    \/ state = "exited"
    \/ \E c \in Callers : cpc[c] \in {"stopDriver", "stopCancel", "stopExit"}

\* Until a Stop begins, at most one goroutine owns the turn, be it a caller on
\* its way to launching the loop or the loop itself, and Agent.running is set
\* exactly while it does: Prompt and Continue are refused for precisely that
\* long, and no loop clears a flag that belongs to another.
OneExecutorUntilStop ==
    ~StopBegun =>
        /\ \A l, k \in ActiveLoops : l = k
        /\ \A c, d \in StartingCallers : c = d
        /\ ActiveLoops = {} \/ StartingCallers = {}
        /\ running <=> (ActiveLoops # {} \/ StartingCallers # {})

\* Callers and loops that still owe the agent a transition to idle.
Restorers ==
    {c \in Callers : cpc[c] \in {"startDriver", "startFail", "startIdle"}}
    \cup {l \in Loops : lpc[l] \notin {"none", "defer1", "defer2"}}

\* An agent nobody is driving is idle or exited, whatever errors, panics,
\* cancellations and overlapping Stops ended its turns: every way out of
\* Start and run passes through Transition(StateIdle).
QuiescentIsIdle == Restorers = {} => state \in {"idle", "exited"}

\* Length of the run of tool results that ends the log.
TrailingResults(log) ==
    Len(log) - Max({0} \cup {i \in 1..Len(log) : log[i].role # "tool"})

\* While a turn executes its tools (and until a Stop begins) the log ends with
\* the assistant message that asked for them followed by one result for each
\* call executed so far and nothing else: the next provider call never sees a
\* call without its result or a result out of place.
ToolResultsMatchCalls ==
    ~StopBegun => \A l \in Loops :
        lpc[l] \in {"toolState", "tools"} =>
            LET log == session.log
                n   == TrailingResults(log)
            IN  /\ n < Len(log)
                /\ log[Len(log) - n].role = "assistant"
                /\ LET calls == log[Len(log) - n].calls
                   IN  /\ todo[l] = SubSeq(calls, n + 1, Len(calls))
                       /\ \A i \in 1..n : log[Len(log) - n + i].kind = calls[i]

\* The order of acceptance.
AcceptedBefore(m, n) ==
    \E i, j \in 1..Len(accepted) : i < j /\ accepted[i] = m /\ accepted[j] = n

PendingIn(stage, s) ==
    {<<stage, i, s[i].msg>> : i \in {j \in 1..Len(s) : s[j].type = "followup"}}

\* Where the follow-ups are, from those delivered as a prompt and those waiting in
\* the driver's list to those drained and those still in the channel.
Places ==
    {<<1, i, delivered[i]>> : i \in 1..Len(delivered)}
    \cup {<<2, i, followUps[i]>> : i \in 1..Len(followUps)}
    \cup (UNION {PendingIn(3, cmds[l]) : l \in Loops})
    \cup PendingIn(4, queue)

\* Until a Stop begins, every accepted follow-up but those an abort took out is in
\* exactly one place, and no place is ahead of that of one accepted earlier.
FollowUpOrder ==
    ~StopBegun =>
        /\ {p[3] : p \in Places} = {accepted[i] : i \in 1..Len(accepted)} \ dropped
        /\ \A p, q \in Places : p[3] = q[3] => p = q
        /\ \A p, q \in Places :
              p[1] < q[1] \/ (p[1] = q[1] /\ p[2] < q[2]) => AcceptedBefore(p[3], q[3])

\* The busy flag always clears: a session is never wedged in Busy.
RunningClears == running ~> ~running

\* Once the agent has exited, every loop goroutine comes to its end, those
\* launched while the Stop was under way included.
ExitedLoopsEnd == (state = "exited") ~> (ActiveLoops = {})

\* Turns come to their end: the busy flag clears, so that no session is wedged
\* in Busy, and no loop goroutine outlives an agent that has exited.
TurnsEnd == RunningClears /\ ExitedLoopsEnd
=============================================================================
