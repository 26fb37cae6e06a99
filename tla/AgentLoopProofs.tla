-------------------------- MODULE AgentLoopProofs --------------------------
(***************************************************************************)
(* Proofs about AgentLoop for any callers, loops, replies and bounds.      *)
(***************************************************************************)
EXTENDS AgentLoop, TLAPS

\* What the local variables of goroutines carry, needed for the types: a
\* sender holds a command, a loop executing tools has a call to execute.
Carried ==
    /\ \A c \in Callers : cpc[c] = "send" => want[c] \in Command
    /\ \A l \in Loops : lpc[l] \in {"toolState", "tools"} => todo[l] # <<>>

TypeInv == TypeOK /\ Carried

LEMMA EmptySessionIsSession == EmptySession \in Session
BY DEF EmptySession, Session

LEMMA EmptyIsSeq == ASSUME NEW S PROVE <<>> \in Seq(S)
OBVIOUS

LEMMA AppendCommand ==
    ASSUME NEW q \in Seq(Command), NEW k \in Command
    PROVE  Append(q, k) \in Seq(Command)
OBVIOUS

LEMMA AppendMsg ==
    ASSUME NEW q \in Seq(Msgs), NEW m \in Msgs
    PROVE  Append(q, m) \in Seq(Msgs)
OBVIOUS

LEMMA TypeInit == Init => TypeInv
<1> SUFFICES ASSUME Init PROVE TypeInv
    OBVIOUS
<1>1. TypeOK
  <2>1. state \in AgentStates /\ running \in BOOLEAN /\ session \in Session /\ ctxDone \in BOOLEAN
    BY EmptySessionIsSession DEF Init, AgentStates
  <2>2. dRunning \in BOOLEAN /\ cancel \in Loops \cup {None} /\ pendingSteer \in Msgs \cup {None}
    BY DEF Init
  <2>3. followUps \in Seq(Msgs) /\ queue \in Seq(Command) /\ Len(queue) <= QueueCap
    BY EmptyIsSeq, ConstantsAssumption DEF Init
  <2>8. qClosed \in BOOLEAN
    BY DEF Init
  <2>4. /\ cpc \in [Callers -> CallerPC] /\ snap \in [Callers -> Session]
        /\ want \in [Callers -> Command \cup {NoCommand}]
        /\ target \in [Callers -> Loops \cup {None}]
    BY EmptySessionIsSession DEF Init, CallerPC
  <2>5. /\ lpc \in [Loops -> LoopPC] /\ lctx \in [Loops -> BOOLEAN]
        /\ lprompt \in [Loops -> Msgs \cup {None}]
    BY DEF Init, LoopPC
  <2>6. todo \in [Loops -> Seq(CallKinds)] /\ cmds \in [Loops -> Seq(Command)]
    BY DEF Init
  <2>7. ops \in 0..MaxOps /\ accepted \in Seq(Msgs) /\ delivered \in Seq(Msgs)
        /\ dropped \subseteq Msgs
    BY ConstantsAssumption DEF Init
  <2> QED BY <2>1, <2>2, <2>3, <2>4, <2>5, <2>6, <2>7, <2>8 DEF TypeOK
<1>2. Carried
    BY DEF Init, Carried
<1> QED BY <1>1, <1>2 DEF TypeInv

LEMMA AppendIsSession ==
    ASSUME NEW s \in Session, NEW e \in Entry
    PROVE  [s EXCEPT !.log = Append(@, e)] \in Session
BY DEF Session

LEMMA MarkIsSession ==
    ASSUME NEW s \in Session
    PROVE  [s EXCEPT !.turnsCompleted = @ + 1] \in Session
BY DEF Session

LEMMA EntryKinds ==
    /\ [role |-> "user"] \in Entry
    /\ \A r \in Replies : [role |-> "assistant", calls |-> r] \in Entry
    /\ \A k \in CallKinds : [role |-> "tool", kind |-> k] \in Entry
BY ConstantsAssumption DEF Entry

\* A call that gets past the bound has a message of its own.
LEMMA NewMessage ==
    ASSUME ops \in 0..MaxOps, NewOp
    PROVE  /\ ops' \in 0..MaxOps
           /\ \A t \in {"steer", "followup", "abort", "prompt"} :
                 [type |-> t, msg |-> ops + 1] \in Command
BY ConstantsAssumption DEF NewOp, Msgs, Command

LEMMA TypeStep == TypeInv /\ [Next]_vars => TypeInv'
<1> SUFFICES ASSUME TypeInv, [Next]_vars PROVE TypeInv'
    OBVIOUS
<1> USE ConstantsAssumption, EmptySessionIsSession, EmptyIsSeq
    DEF TypeInv, TypeOK, Carried, agentVars, driverVars, queueVars, callerVars,
        loopVars, historyVars, AgentStates, CallerPC, LoopPC
<1>1. ASSUME NEW c \in Callers, StartLock(c) PROVE TypeInv'
  <2>1. CASE state = "exited" \/ running
    <3>1. Return(c) /\ UNCHANGED <<running, session>>
      BY <1>1, <2>1 DEF StartLock
    <3>2. TypeOK'
      BY <1>1, <3>1 DEF StartLock, Return
    <3>3. Carried'
      BY <1>1, <3>1 DEF StartLock, Return
    <3> QED BY <3>2, <3>3
  <2>2. CASE ~(state = "exited" \/ running)
    <3>1. /\ running' = TRUE /\ session' = snap[c]
          /\ cpc' = [cpc EXCEPT ![c] = "startTrans"] /\ UNCHANGED <<snap, want, target>>
      BY <1>1, <2>2 DEF StartLock, Goto
    <3>2. TypeOK'
      BY <1>1, <3>1 DEF StartLock
    <3>3. Carried'
      BY <1>1, <3>1 DEF StartLock
    <3> QED BY <3>2, <3>3
  <2> QED BY <2>1, <2>2
<1>2. ASSUME NEW c \in Callers, StartTransition(c) PROVE TypeInv'
    BY <1>2 DEF StartTransition, Goto, Transition, Allowed
<1>3. ASSUME NEW c \in Callers, StartUndo(c) PROVE TypeInv'
    BY <1>3 DEF StartUndo, Return
<1>4. ASSUME NEW c \in Callers, StartDriver(c) PROVE TypeInv'
  <2>1. CASE dRunning
    BY <1>4, <2>1 DEF StartDriver, Goto
  <2>2. CASE ~dRunning
    <3>1. want[c].msg \in Msgs \cup {None}
      BY DEF Command, NoCommand
    <3>2. PICK k \in Loops : Launch(k, want[c].msg) /\ Return(c)
      BY <1>4, <2>2 DEF StartDriver
    <3>3. TypeOK'
      BY <1>4, <3>1, <3>2 DEF StartDriver, Return, Launch
    <3>4. Carried'
      BY <1>4, <3>1, <3>2 DEF StartDriver, Return, Launch
    <3> QED BY <3>3, <3>4
  <2> QED BY <2>1, <2>2
<1>5. ASSUME NEW c \in Callers, StartFail(c) PROVE TypeInv'
    BY <1>5 DEF StartFail, Goto
<1>6. ASSUME NEW c \in Callers, StartIdle(c) PROVE TypeInv'
    BY <1>6 DEF StartIdle, Return, Transition, Allowed
<1>7. ASSUME NEW c \in Callers, ContinueDriver(c) PROVE TypeInv'
  <2>1. CASE dRunning
    BY <1>7, <2>1 DEF ContinueDriver, Return
  <2>2. CASE ~dRunning
    <3>1. PICK k \in Loops : Launch(k, None) /\ Return(c) /\ UNCHANGED running
      BY <1>7, <2>2 DEF ContinueDriver
    <3>2. TypeOK'
      BY <1>7, <3>1 DEF ContinueDriver, Return, Launch
    <3>3. Carried'
      BY <1>7, <3>1 DEF ContinueDriver, Return, Launch
    <3> QED BY <3>2, <3>3
  <2> QED BY <2>1, <2>2
<1>8. ASSUME NEW c \in Callers, StopDriver(c) PROVE TypeInv'
    BY <1>8 DEF StopDriver
<1>9. ASSUME NEW c \in Callers, StopCancel(c) PROVE TypeInv'
    BY <1>9 DEF StopCancel
<1>10. ASSUME NEW c \in Callers, StopExit(c) PROVE TypeInv'
    BY <1>10 DEF StopExit, Goto, Transition, Allowed
<1>11. ASSUME NEW c \in Callers, StopClose(c) PROVE TypeInv'
    BY <1>11 DEF StopClose, Goto
<1>12. ASSUME NEW c \in Callers, Send(c) PROVE TypeInv'
  <2>1. want[c] \in Command /\ want[c].msg \in Msgs
    BY <1>12 DEF Send, Command
  <2>2. CASE qClosed
    BY <1>12, <2>2 DEF Send, Goto
  <2>3. CASE ~qClosed /\ Len(queue) >= QueueCap
    <3>1. Return(c) /\ UNCHANGED <<queue, accepted>>
      BY <1>12, <2>3 DEF Send
    <3>2. TypeOK'
      BY <1>12, <3>1 DEF Send, Return
    <3>3. Carried'
      BY <1>12, <3>1 DEF Send, Return
    <3> QED BY <3>2, <3>3
  <2>4. CASE ~qClosed /\ Len(queue) < QueueCap
    <3>1. /\ Return(c) /\ queue' = Append(queue, want[c])
          /\ accepted' \in {accepted, Append(accepted, want[c].msg)}
      BY <1>12, <2>4 DEF Send
    <3>2. queue' \in Seq(Command) /\ accepted' \in Seq(Msgs)
      <4>1. Append(queue, want[c]) \in Seq(Command)
        BY <2>1, AppendCommand
      <4>2. Append(accepted, want[c].msg) \in Seq(Msgs)
        BY <2>1, AppendMsg
      <4> QED BY <3>1, <4>1, <4>2
    <3>3. Len(queue') <= QueueCap
      BY <2>4, <3>1
    <3>4. TypeOK'
      BY <1>12, <3>1, <3>2, <3>3 DEF Send, Return
    <3>5. Carried'
      BY <1>12, <3>1 DEF Send, Return
    <3> QED BY <3>4, <3>5
  <2> QED BY <1>12, <2>2, <2>3, <2>4 DEF Send
<1>13. ASSUME NEW c \in Callers, Prompt(c) PROVE TypeInv'
    BY <1>13, NewMessage DEF Prompt
<1>14. ASSUME NEW c \in Callers, Continue(c) PROVE TypeInv'
    BY <1>14 DEF Continue, Goto, NewOp
<1>15. ASSUME NEW c \in Callers, Stop(c) PROVE TypeInv'
    BY <1>15, NewMessage DEF Stop, Goto
<1>16. ASSUME NEW c \in Callers, NEW t \in {"steer", "followup", "abort"}, Enqueue(c, t)
      PROVE TypeInv'
    BY <1>16, NewMessage DEF Enqueue
<1>17. ASSUME NEW l \in Loops, LoopTop(l) PROVE TypeInv'
  <2>1. session' \in Session
    <3>1. \/ session' = session
          \/ session' = [session EXCEPT !.log = Append(@, [role |-> "user"])]
      BY <1>17 DEF LoopTop, AppendConversation
    <3>2. [session EXCEPT !.log = Append(@, [role |-> "user"])] \in Session
      BY AppendIsSession, EntryKinds
    <3> QED BY <3>1, <3>2
  <2>2. lpc' \in {[lpc EXCEPT ![l] = "idle"], [lpc EXCEPT ![l] = "stream"]}
    BY <1>17 DEF LoopTop, Jump
  <2>3. TypeOK'
    BY <1>17, <2>1, <2>2, Zenon DEF LoopTop
  <2>4. Carried'
    BY <1>17, <2>2 DEF LoopTop
  <2> QED BY <2>3, <2>4
<1>18. ASSUME NEW l \in Loops, EnterStreaming(l) PROVE TypeInv'
    BY <1>18, Zenon DEF EnterStreaming, Jump, Transition, Allowed
<1>19. ASSUME NEW l \in Loops, ProviderFails(l) PROVE TypeInv'
    BY <1>19 DEF ProviderFails, Jump
<1>20. ASSUME NEW l \in Loops, EnterToolExecution(l) PROVE TypeInv'
    BY <1>20 DEF EnterToolExecution, Jump, Transition, Allowed
<1>21. ASSUME NEW l \in Loops, ExecuteTool(l) PROVE TypeInv'
  <2>1. /\ todo[l] # <<>> /\ todo[l] \in Seq(CallKinds)
        /\ Head(todo[l]) \in CallKinds /\ Tail(todo[l]) \in Seq(CallKinds)
    BY <1>21 DEF ExecuteTool
  <2> QED BY <1>21, <2>1, AppendIsSession, EntryKinds DEF ExecuteTool, Jump, AppendConversation
<1>22. ASSUME NEW l \in Loops, ToolPanics(l) PROVE TypeInv'
    BY <1>22 DEF ToolPanics, Jump
<1>23. ASSUME NEW l \in Loops, MarkTurnCompleted(l) PROVE TypeInv'
    BY <1>23, MarkIsSession DEF MarkTurnCompleted, Jump
<1>24. ASSUME NEW l \in Loops, DrainOne(l) PROVE TypeInv'
  <2>1. /\ Head(queue) \in Command /\ Tail(queue) \in Seq(Command)
        /\ Len(Tail(queue)) <= QueueCap
    BY <1>24 DEF DrainOne
  <2>2. Append(cmds[l], Head(queue)) \in Seq(Command)
    BY <2>1, AppendCommand
  <2>3. TypeOK'
    BY <1>24, <2>1, <2>2 DEF DrainOne
  <2>4. Carried'
    BY <1>24 DEF DrainOne
  <2> QED BY <2>3, <2>4
<1>25. ASSUME NEW l \in Loops, DrainEnd(l) PROVE TypeInv'
    BY <1>25 DEF DrainEnd, Jump
<1>26. ASSUME NEW l \in Loops, ApplyCommand(l) PROVE TypeInv'
  <2>1. /\ cmds[l] # <<>> /\ cmds[l] \in Seq(Command)
        /\ Head(cmds[l]) \in Command /\ Tail(cmds[l]) \in Seq(Command)
    BY <1>26 DEF ApplyCommand
  <2>2. Head(cmds[l]).msg \in Msgs
    BY <2>1 DEF Command
  <2>3. FollowUpsIn(cmds[l]) \subseteq Msgs
    <3> SUFFICES ASSUME NEW i \in 1..Len(cmds[l]) PROVE cmds[l][i].msg \in Msgs
      BY DEF FollowUpsIn
    <3>1. cmds[l][i] \in Command
      BY <2>1
    <3> QED BY <3>1 DEF Command
  <2>4. CASE Head(cmds[l]).type = "abort"
    <3>1. /\ cmds' = [cmds EXCEPT ![l] = <<>>]
          /\ dropped' = dropped \cup FollowUpsIn(cmds[l])
          /\ lpc' = [lpc EXCEPT ![l] = "idle"]
          /\ UNCHANGED <<pendingSteer, followUps>>
      BY <1>26, <2>4 DEF ApplyCommand, Jump
    <3>2. TypeOK'
      BY <1>26, <2>3, <3>1 DEF ApplyCommand
    <3>3. Carried'
      BY <1>26, <3>1 DEF ApplyCommand
    <3> QED BY <3>2, <3>3
  <2>5. CASE Head(cmds[l]).type = "steer"
    BY <1>26, <2>1, <2>2, <2>5, ZenonT(30) DEF ApplyCommand, SetPendingSteer
  <2>6. CASE Head(cmds[l]).type = "followup"
    <3>1. /\ cmds' = [cmds EXCEPT ![l] = Tail(@)]
          /\ followUps' \in {followUps, Append(followUps, Head(cmds[l]).msg)}
          /\ UNCHANGED <<pendingSteer, dropped, lpc>>
      BY <1>26, <2>6 DEF ApplyCommand, SetFollowUps
    <3>2. followUps' \in Seq(Msgs)
      <4>1. Append(followUps, Head(cmds[l]).msg) \in Seq(Msgs)
        BY <2>2, AppendMsg
      <4> QED BY <3>1, <4>1
    <3>3. TypeOK'
      BY <1>26, <2>1, <3>1, <3>2 DEF ApplyCommand
    <3>4. Carried'
      BY <1>26, <3>1 DEF ApplyCommand
    <3> QED BY <3>3, <3>4
  <2> QED BY <1>26, <2>4, <2>5, <2>6 DEF ApplyCommand
<1>27. ASSUME NEW l \in Loops, NextPrompt(l) PROVE TypeInv'
  <2>1. CASE pendingSteer # None
    <3>1. /\ lprompt' = [lprompt EXCEPT ![l] = pendingSteer]
          /\ pendingSteer' \in {None, pendingSteer}
          /\ lpc' = [lpc EXCEPT ![l] = "top"]
          /\ UNCHANGED <<followUps, delivered>>
      BY <1>27, <2>1 DEF NextPrompt, Jump, SetPendingSteer
    <3>2. TypeOK'
      BY <1>27, <3>1 DEF NextPrompt
    <3>3. Carried'
      BY <1>27, <3>1 DEF NextPrompt
    <3> QED BY <3>2, <3>3
  <2>2. CASE pendingSteer = None /\ followUps # <<>>
    <3>1. Head(followUps) \in Msgs /\ Tail(followUps) \in Seq(Msgs)
      BY <2>2
    <3>2. /\ lprompt' = [lprompt EXCEPT ![l] = Head(followUps)]
          /\ delivered' = Append(delivered, Head(followUps))
          /\ followUps' \in {Tail(followUps), followUps}
          /\ lpc' = [lpc EXCEPT ![l] = "top"]
          /\ UNCHANGED pendingSteer
      BY <1>27, <2>2 DEF NextPrompt, Jump, SetFollowUps
    <3>3. delivered' \in Seq(Msgs) /\ followUps' \in Seq(Msgs)
      BY <3>1, <3>2, AppendMsg
    <3>4. TypeOK'
      BY <1>27, <3>1, <3>2, <3>3 DEF NextPrompt
    <3>5. Carried'
      BY <1>27, <3>2 DEF NextPrompt
    <3> QED BY <3>4, <3>5
  <2>3. CASE pendingSteer = None /\ followUps = <<>>
    BY <1>27, <2>3 DEF NextPrompt, Jump
  <2> QED BY <2>1, <2>2, <2>3
<1>28. ASSUME NEW l \in Loops, ReturnToIdle(l) PROVE TypeInv'
    BY <1>28 DEF ReturnToIdle, Jump, Transition, Allowed
<1>29. ASSUME NEW l \in Loops, DeferDriver(l) PROVE TypeInv'
    BY <1>29 DEF DeferDriver, Jump
<1>30. ASSUME NEW l \in Loops, OnDriverIdle(l) PROVE TypeInv'
    BY <1>30 DEF OnDriverIdle, Jump
<1>31. ASSUME NEW l \in Loops, NEW reply \in Replies, ProviderReplies(l, reply)
      PROVE TypeInv'
    BY <1>31, AppendIsSession, EntryKinds DEF ProviderReplies, Jump, AppendConversation
<1>32. CASE CancelContext
    BY <1>32 DEF CancelContext
<1>33. CASE UNCHANGED vars
    BY <1>33 DEF vars
<1> QED
    BY <1>1, <1>2, <1>3, <1>4, <1>5, <1>6, <1>7, <1>8, <1>9, <1>10, <1>11, <1>12, <1>13, <1>14, <1>15, <1>16, <1>17, <1>18, <1>19, <1>20, <1>21, <1>22, <1>23, <1>24, <1>25, <1>26, <1>27, <1>28, <1>29, <1>30, <1>31, <1>32, <1>33
       DEF Next, CallerStep, CallerCalls, LoopStep

\* The value the types have in every reachable state of AgentLoop.
THEOREM TypeCorrect == Spec => []TypeOK
<1>1. Spec => []TypeInv
  BY TypeInit, TypeStep, PTL DEF Spec
<1>2. TypeInv => TypeOK
  BY DEF TypeInv
<1> QED BY <1>1, <1>2, PTL

-----------------------------------------------------------------------------
(* Ownership of the turn.                                                  *)

\* What the transition table gives: streaming, idle and exited can be entered
\* from every state but exited.
LEMMA TransitionTable ==
    ASSUME state \in AgentStates, NEW to \in {"streaming", "idle", "exited"}
    PROVE  Allowed(to) <=> state # "exited"
BY DEF Allowed, validTransitions, AgentStates

\* OneExecutorUntilStop made inductive: while no Stop has begun the driver's
\* own flag is set exactly until its loop's deferred function clears it (so
\* driver.Start never answers busy) and no Start is undoing itself.
Ownership ==
    ~StopBegun =>
        /\ \A l, k \in Loops : lpc[l] # "none" /\ lpc[k] # "none" => l = k
        /\ \A c, d \in Callers :
              /\ cpc[c] \in {"startTrans", "startDriver", "contDriver"}
              /\ cpc[d] \in {"startTrans", "startDriver", "contDriver"}
              => c = d
        /\ \A c \in Callers, l \in Loops :
              cpc[c] \in {"startTrans", "startDriver", "contDriver"} => lpc[l] = "none"
        /\ running <=> \/ \E l \in Loops : lpc[l] # "none"
                       \/ \E c \in Callers :
                            cpc[c] \in {"startTrans", "startDriver", "contDriver"}
        /\ dRunning <=> \E l \in Loops : lpc[l] \notin {"none", "defer2"}
        /\ \A c \in Callers : cpc[c] \notin {"startUndo", "startFail", "startIdle"}

\* The types the control of the system lives on.
LEMMA ControlTypes ==
    ASSUME TypeInv
    PROVE  /\ state \in AgentStates /\ running \in BOOLEAN /\ dRunning \in BOOLEAN
           /\ cpc \in [Callers -> CallerPC] /\ lpc \in [Loops -> LoopPC]
           /\ \A l \in Loops : lctx[l] \in BOOLEAN
BY DEF TypeInv, TypeOK

\* A loop moves inside its turn and touches neither flag: ownership is as before.
LEMMA LoopMoves ==
    ASSUME TypeInv, Ownership, NEW l \in Loops,
           NEW pc \in LoopPC \ {"none", "defer2"},
           lpc[l] \notin {"none", "defer2"},
           lpc' = [lpc EXCEPT ![l] = pc],
           UNCHANGED <<running, dRunning, cpc>>,
           state = "exited" => state' = "exited"
    PROVE  Ownership'
BY ControlTypes DEF Ownership, StopBegun, LoopPC

LEMMA OwnershipStep == TypeInv /\ Ownership /\ [Next]_vars => Ownership'
<1> SUFFICES ASSUME TypeInv, Ownership, [Next]_vars PROVE Ownership'
    OBVIOUS
<1> USE ControlTypes DEF Ownership, StopBegun, agentVars, driverVars, queueVars, callerVars, loopVars, historyVars,
        AgentStates, CallerPC, LoopPC
<1>1. ASSUME NEW c \in Callers, StartLock(c) PROVE Ownership'
  <2>1. CASE state = "exited" \/ running
    BY <1>1, <2>1 DEF StartLock, Return
  <2>2. CASE ~(state = "exited" \/ running)
    BY <1>1, <2>2 DEF StartLock, Goto
  <2> QED BY <2>1, <2>2
<1>2. ASSUME NEW c \in Callers, StartTransition(c) PROVE Ownership'
  <2>1. CASE state = "exited"
    <3>1. state' = "exited"
      BY <1>2, <2>1, TransitionTable DEF StartTransition, Transition
    <3> QED BY <3>1
  <2>2. CASE state # "exited"
    <3>1. state' = "streaming" /\ cpc' = [cpc EXCEPT ![c] = "startDriver"]
      BY <1>2, <2>2, TransitionTable DEF StartTransition, Transition, Goto
    <3> QED BY <1>2, <2>2, <3>1 DEF StartTransition
  <2> QED BY <2>1, <2>2
<1>3. ASSUME NEW c \in Callers, StartUndo(c) PROVE Ownership'
    BY <1>3 DEF StartUndo, Return
<1>4. ASSUME NEW c \in Callers, StartDriver(c) PROVE Ownership'
  <2>1. CASE dRunning
    BY <1>4, <2>1 DEF StartDriver, Goto
  <2>2. CASE ~dRunning
    <3>1. PICK k \in Loops : Launch(k, want[c].msg) /\ Return(c)
      BY <1>4, <2>2 DEF StartDriver
    <3> QED BY <1>4, <3>1 DEF StartDriver, Return, Launch
  <2> QED BY <2>1, <2>2
<1>5. ASSUME NEW c \in Callers, StartFail(c) PROVE Ownership'
    BY <1>5 DEF StartFail, Goto
<1>6. ASSUME NEW c \in Callers, StartIdle(c) PROVE Ownership'
    BY <1>6 DEF StartIdle, Return, Transition, Allowed
<1>7. ASSUME NEW c \in Callers, ContinueDriver(c) PROVE Ownership'
    BY <1>7 DEF ContinueDriver, Return, Launch
<1>8. ASSUME NEW c \in Callers, StopDriver(c) PROVE Ownership'
    BY <1>8 DEF StopDriver
<1>9. ASSUME NEW c \in Callers, StopCancel(c) PROVE Ownership'
    BY <1>9 DEF StopCancel
<1>10. ASSUME NEW c \in Callers, StopExit(c) PROVE Ownership'
  <2>1. state' = "exited"
    BY <1>10, TransitionTable DEF StopExit, Transition
  <2> QED BY <2>1
<1>11. ASSUME NEW c \in Callers, StopClose(c) PROVE Ownership'
    BY <1>11 DEF StopClose, Goto
<1>12. ASSUME NEW c \in Callers, Send(c) PROVE Ownership'
    BY <1>12 DEF Send, Return, Goto
<1>13. ASSUME NEW c \in Callers, Prompt(c) PROVE Ownership'
    BY <1>13 DEF Prompt
<1>14. ASSUME NEW c \in Callers, Continue(c) PROVE Ownership'
    BY <1>14 DEF Continue, Goto
<1>15. ASSUME NEW c \in Callers, Stop(c) PROVE Ownership'
    BY <1>15 DEF Stop, Goto
<1>16. ASSUME NEW c \in Callers, NEW t \in {"steer", "followup", "abort"}, Enqueue(c, t)
      PROVE Ownership'
    BY <1>16 DEF Enqueue
<1>17. ASSUME NEW l \in Loops, LoopTop(l) PROVE Ownership'
  <2>1. lpc' \in {[lpc EXCEPT ![l] = "idle"], [lpc EXCEPT ![l] = "stream"]}
    BY <1>17 DEF LoopTop, Jump
  <2>2. PICK pc \in LoopPC \ {"none", "defer2"} : lpc' = [lpc EXCEPT ![l] = pc]
    BY <1>17, <2>1 DEF LoopTop
  <2> QED BY <1>17, <2>1, <2>2, LoopMoves DEF LoopTop
<1>18. ASSUME NEW l \in Loops, EnterStreaming(l) PROVE Ownership'
  <2>1. /\ lpc' \in {[lpc EXCEPT ![l] = "idle"], [lpc EXCEPT ![l] = "call"]}
        /\ state = "exited" => state' = "exited"
    BY <1>18, TransitionTable DEF EnterStreaming, Jump, Transition
  <2>2. PICK pc \in LoopPC \ {"none", "defer2"} : lpc' = [lpc EXCEPT ![l] = pc]
    BY <1>18, <2>1 DEF EnterStreaming
  <2> QED BY <1>18, <2>1, <2>2, LoopMoves DEF EnterStreaming
<1>19. ASSUME NEW l \in Loops, ProviderFails(l) PROVE Ownership'
    BY <1>19 DEF ProviderFails, Jump
<1>20. ASSUME NEW l \in Loops, EnterToolExecution(l) PROVE Ownership'
    BY <1>20 DEF EnterToolExecution, Jump, Transition, Allowed
<1>21. ASSUME NEW l \in Loops, ExecuteTool(l) PROVE Ownership'
    BY <1>21 DEF ExecuteTool, Jump
<1>22. ASSUME NEW l \in Loops, ToolPanics(l) PROVE Ownership'
    BY <1>22 DEF ToolPanics, Jump
<1>23. ASSUME NEW l \in Loops, MarkTurnCompleted(l) PROVE Ownership'
    BY <1>23 DEF MarkTurnCompleted, Jump
<1>24. ASSUME NEW l \in Loops, DrainOne(l) PROVE Ownership'
    BY <1>24 DEF DrainOne
<1>25. ASSUME NEW l \in Loops, DrainEnd(l) PROVE Ownership'
    BY <1>25 DEF DrainEnd, Jump
<1>26. ASSUME NEW l \in Loops, ApplyCommand(l) PROVE Ownership'
  <2>1. lpc' \in {lpc, [lpc EXCEPT ![l] = "idle"]}
    BY <1>26 DEF ApplyCommand, Jump
  <2>2. CASE lpc' = lpc
    BY <1>26, <2>2 DEF ApplyCommand
  <2>3. CASE lpc' = [lpc EXCEPT ![l] = "idle"]
    BY <1>26, <2>3, LoopMoves DEF ApplyCommand
  <2> QED BY <2>1, <2>2, <2>3
<1>27. ASSUME NEW l \in Loops, NextPrompt(l) PROVE Ownership'
  <2>1. lpc' \in {[lpc EXCEPT ![l] = "top"], [lpc EXCEPT ![l] = "idle"]}
    BY <1>27 DEF NextPrompt, Jump
  <2>2. PICK pc \in LoopPC \ {"none", "defer2"} : lpc' = [lpc EXCEPT ![l] = pc]
    BY <1>27, <2>1 DEF NextPrompt
  <2> QED BY <1>27, <2>1, <2>2, LoopMoves DEF NextPrompt
<1>28. ASSUME NEW l \in Loops, ReturnToIdle(l) PROVE Ownership'
    BY <1>28 DEF ReturnToIdle, Jump, Transition, Allowed
<1>29. ASSUME NEW l \in Loops, DeferDriver(l) PROVE Ownership'
    BY <1>29 DEF DeferDriver, Jump
<1>30. ASSUME NEW l \in Loops, OnDriverIdle(l) PROVE Ownership'
    BY <1>30 DEF OnDriverIdle, Jump
<1>31. ASSUME NEW l \in Loops, NEW reply \in Replies, ProviderReplies(l, reply)
      PROVE Ownership'
    BY <1>31 DEF ProviderReplies, Jump
<1>32. CASE CancelContext
    BY <1>32 DEF CancelContext
<1>33. CASE UNCHANGED vars
    BY <1>33 DEF vars
<1> QED
    BY <1>1, <1>2, <1>3, <1>4, <1>5, <1>6, <1>7, <1>8, <1>9, <1>10, <1>11, <1>12, <1>13, <1>14, <1>15, <1>16, <1>17, <1>18, <1>19, <1>20, <1>21, <1>22, <1>23, <1>24, <1>25, <1>26, <1>27, <1>28, <1>29, <1>30, <1>31, <1>32, <1>33
       DEF Next, CallerStep, CallerCalls, LoopStep

\* Until a Stop begins the turn has one owner and Agent.running says so,
\* for every number of callers and loops.
THEOREM OneExecutor == Spec => []OneExecutorUntilStop
<1>1. Init => Ownership
  BY DEF Init, Ownership
<1>2. Spec => []TypeInv
  BY TypeInit, TypeStep, PTL DEF Spec
<1>3. Spec => []Ownership
  BY <1>1, <1>2, OwnershipStep, PTL DEF Spec
<1>4. Ownership => OneExecutorUntilStop
  BY DEF Ownership, OneExecutorUntilStop, ActiveLoops, StartingCallers
<1> QED BY <1>3, <1>4, PTL

-----------------------------------------------------------------------------
(* Quiescence.                                                             *)

LEMMA QuietStep == TypeInv /\ QuiescentIsIdle /\ [Next]_vars => QuiescentIsIdle'
<1> SUFFICES ASSUME TypeInv, QuiescentIsIdle, [Next]_vars PROVE QuiescentIsIdle'
    OBVIOUS
<1> USE ControlTypes DEF QuiescentIsIdle, Restorers, agentVars, driverVars, queueVars, callerVars, loopVars, historyVars,
        AgentStates, CallerPC, LoopPC
<1>1. ASSUME NEW c \in Callers, StartLock(c) PROVE QuiescentIsIdle'
    BY <1>1 DEF StartLock, Return, Goto
<1>2. ASSUME NEW c \in Callers, StartTransition(c) PROVE QuiescentIsIdle'
    BY <1>2 DEF StartTransition, Goto, Transition, Allowed
<1>3. ASSUME NEW c \in Callers, StartUndo(c) PROVE QuiescentIsIdle'
    BY <1>3 DEF StartUndo, Return
<1>4. ASSUME NEW c \in Callers, StartDriver(c) PROVE QuiescentIsIdle'
    BY <1>4 DEF StartDriver, Return, Goto, Launch
<1>5. ASSUME NEW c \in Callers, StartFail(c) PROVE QuiescentIsIdle'
    BY <1>5 DEF StartFail, Goto
<1>6. ASSUME NEW c \in Callers, StartIdle(c) PROVE QuiescentIsIdle'
  <2>1. state' \in {"idle", "exited"}
    BY <1>6, TransitionTable DEF StartIdle, Transition
  <2> QED BY <2>1
<1>7. ASSUME NEW c \in Callers, ContinueDriver(c) PROVE QuiescentIsIdle'
    BY <1>7 DEF ContinueDriver, Return, Launch
<1>8. ASSUME NEW c \in Callers, StopDriver(c) PROVE QuiescentIsIdle'
    BY <1>8 DEF StopDriver
<1>9. ASSUME NEW c \in Callers, StopCancel(c) PROVE QuiescentIsIdle'
    BY <1>9 DEF StopCancel
<1>10. ASSUME NEW c \in Callers, StopExit(c) PROVE QuiescentIsIdle'
    BY <1>10 DEF StopExit, Goto, Transition, Allowed
<1>11. ASSUME NEW c \in Callers, StopClose(c) PROVE QuiescentIsIdle'
    BY <1>11 DEF StopClose, Goto
<1>12. ASSUME NEW c \in Callers, Send(c) PROVE QuiescentIsIdle'
    BY <1>12 DEF Send, Return, Goto
<1>13. ASSUME NEW c \in Callers, Prompt(c) PROVE QuiescentIsIdle'
    BY <1>13 DEF Prompt
<1>14. ASSUME NEW c \in Callers, Continue(c) PROVE QuiescentIsIdle'
    BY <1>14 DEF Continue, Goto
<1>15. ASSUME NEW c \in Callers, Stop(c) PROVE QuiescentIsIdle'
    BY <1>15 DEF Stop, Goto
<1>16. ASSUME NEW c \in Callers, NEW t \in {"steer", "followup", "abort"}, Enqueue(c, t)
      PROVE QuiescentIsIdle'
    BY <1>16 DEF Enqueue
<1>17. ASSUME NEW l \in Loops, LoopTop(l) PROVE QuiescentIsIdle'
    BY <1>17 DEF LoopTop, Jump
<1>18. ASSUME NEW l \in Loops, EnterStreaming(l) PROVE QuiescentIsIdle'
    BY <1>18 DEF EnterStreaming, Jump, Transition, Allowed
<1>19. ASSUME NEW l \in Loops, ProviderFails(l) PROVE QuiescentIsIdle'
    BY <1>19 DEF ProviderFails, Jump
<1>20. ASSUME NEW l \in Loops, EnterToolExecution(l) PROVE QuiescentIsIdle'
    BY <1>20 DEF EnterToolExecution, Jump, Transition, Allowed
<1>21. ASSUME NEW l \in Loops, ExecuteTool(l) PROVE QuiescentIsIdle'
    BY <1>21 DEF ExecuteTool, Jump
<1>22. ASSUME NEW l \in Loops, ToolPanics(l) PROVE QuiescentIsIdle'
    BY <1>22 DEF ToolPanics, Jump
<1>23. ASSUME NEW l \in Loops, MarkTurnCompleted(l) PROVE QuiescentIsIdle'
    BY <1>23 DEF MarkTurnCompleted, Jump
<1>24. ASSUME NEW l \in Loops, DrainOne(l) PROVE QuiescentIsIdle'
    BY <1>24 DEF DrainOne
<1>25. ASSUME NEW l \in Loops, DrainEnd(l) PROVE QuiescentIsIdle'
    BY <1>25 DEF DrainEnd, Jump
<1>26. ASSUME NEW l \in Loops, ApplyCommand(l) PROVE QuiescentIsIdle'
    BY <1>26 DEF ApplyCommand, Jump
<1>27. ASSUME NEW l \in Loops, NextPrompt(l) PROVE QuiescentIsIdle'
    BY <1>27 DEF NextPrompt, Jump
<1>28. ASSUME NEW l \in Loops, ReturnToIdle(l) PROVE QuiescentIsIdle'
  <2>1. state' \in {"idle", "exited"}
    BY <1>28, TransitionTable DEF ReturnToIdle, Transition
  <2> QED BY <2>1
<1>29. ASSUME NEW l \in Loops, DeferDriver(l) PROVE QuiescentIsIdle'
    BY <1>29 DEF DeferDriver, Jump
<1>30. ASSUME NEW l \in Loops, OnDriverIdle(l) PROVE QuiescentIsIdle'
    BY <1>30 DEF OnDriverIdle, Jump
<1>31. ASSUME NEW l \in Loops, NEW reply \in Replies, ProviderReplies(l, reply)
      PROVE QuiescentIsIdle'
    BY <1>31 DEF ProviderReplies, Jump
<1>32. CASE CancelContext
    BY <1>32 DEF CancelContext
<1>33. CASE UNCHANGED vars
    BY <1>33 DEF vars
<1> QED
    BY <1>1, <1>2, <1>3, <1>4, <1>5, <1>6, <1>7, <1>8, <1>9, <1>10, <1>11, <1>12, <1>13, <1>14, <1>15, <1>16, <1>17, <1>18, <1>19, <1>20, <1>21, <1>22, <1>23, <1>24, <1>25, <1>26, <1>27, <1>28, <1>29, <1>30, <1>31, <1>32, <1>33
       DEF Next, CallerStep, CallerCalls, LoopStep

\* An agent nobody is driving is idle or exited.
THEOREM Quiescence == Spec => []QuiescentIsIdle
<1>1. Init => QuiescentIsIdle
  BY DEF Init, QuiescentIsIdle
<1>2. Spec => []TypeInv
  BY TypeInit, TypeStep, PTL DEF Spec
<1> QED BY <1>1, <1>2, QuietStep, PTL DEF Spec
-----------------------------------------------------------------------------
(* The tool results of a turn.                                             *)

\* The log ends with the message that asked for the calls and n results, the
\* answers to its first n calls in order; rest are the calls left.
Answered(log, rest, n) ==
    /\ n \in 0..(Len(log) - 1)
    /\ log[Len(log) - n].role = "assistant"
    /\ LET calls == log[Len(log) - n].calls
       IN  /\ Len(calls) = n + Len(rest)
           /\ \A i \in 1..Len(rest) : rest[i] = calls[n + i]
           /\ \A i \in 1..n : log[Len(log) - n + i] = [role |-> "tool", kind |-> calls[i]]

\* ToolResultsMatchCalls with the number of results named: TrailingResults is
\* computed from the whole log, and it is not needed for the step.
AnswerInv ==
    ~StopBegun => \A l \in Loops :
        lpc[l] \in {"toolState", "tools"} => \E n \in Nat : Answered(session.log, todo[l], n)

\* A reply starts a block of its own ...
LEMMA ReplyAnswers ==
    ASSUME NEW log \in Seq(Entry), NEW reply \in Seq(CallKinds)
    PROVE  Answered(Append(log, [role |-> "assistant", calls |-> reply]), reply, 0)
<1> DEFINE new == Append(log, [role |-> "assistant", calls |-> reply])
<1>1. Len(new) = Len(log) + 1 /\ new[Len(new)] = [role |-> "assistant", calls |-> reply]
    OBVIOUS
<1> HIDE DEF new
<1>2. Answered(new, reply, 0)
    BY <1>1 DEF Answered
<1> QED BY <1>2 DEF new

\* ... and a result makes it longer by one.
LEMMA ResultAnswers ==
    ASSUME NEW log \in Seq(Entry), NEW rest \in Seq(CallKinds), rest # <<>>,
           NEW n \in Nat, Answered(log, rest, n)
    PROVE  Answered(Append(log, [role |-> "tool", kind |-> Head(rest)]), Tail(rest), n + 1)
<1> DEFINE e     == [role |-> "tool", kind |-> Head(rest)]
           new   == Append(log, e)
           tail  == Tail(rest)
           calls == log[Len(log) - n].calls
<1>1. /\ Len(new) = Len(log) + 1 /\ new[Len(log) + 1] = e
      /\ \A i \in 1..Len(log) : new[i] = log[i]
    OBVIOUS
<1>2. /\ Len(rest) \in Nat \ {0} /\ Len(tail) = Len(rest) - 1
      /\ \A i \in 1..Len(tail) : tail[i] = rest[i + 1]
      /\ e = [role |-> "tool", kind |-> rest[1]]
    OBVIOUS
<1>3. /\ Len(log) \in Nat /\ n \in 0..(Len(log) - 1) /\ log[Len(log) - n].role = "assistant"
      /\ Len(calls) = n + Len(rest)
      /\ \A i \in 1..Len(rest) : rest[i] = calls[n + i]
      /\ \A i \in 1..n : log[Len(log) - n + i] = [role |-> "tool", kind |-> calls[i]]
    BY DEF Answered
<1> HIDE DEF e, new, tail
<1>4. Len(new) - (n + 1) = Len(log) - n /\ new[Len(log) - n] = log[Len(log) - n]
    BY <1>1, <1>3
<1>5. n + 1 \in 0..(Len(new) - 1)
    BY <1>1, <1>3
<1>6. \A i \in 1..Len(tail) : tail[i] = calls[(n + 1) + i]
  <2> SUFFICES ASSUME NEW i \in 1..Len(tail) PROVE tail[i] = calls[(n + 1) + i]
    OBVIOUS
  <2>1. i + 1 \in 1..Len(rest) /\ tail[i] = rest[i + 1] /\ n + (i + 1) = (n + 1) + i
    BY <1>2
  <2> QED BY <1>3, <2>1
<1>7. \A i \in 1..(n + 1) : new[Len(log) - n + i] = [role |-> "tool", kind |-> calls[i]]
  <2> SUFFICES ASSUME NEW i \in 1..(n + 1)
               PROVE  new[Len(log) - n + i] = [role |-> "tool", kind |-> calls[i]]
    OBVIOUS
  <2>1. CASE i = n + 1
    <3>1. 1 \in 1..Len(rest) /\ rest[1] = calls[i] /\ Len(log) - n + i = Len(log) + 1
      BY <1>2, <1>3, <2>1
    <3> QED BY <1>1, <1>2, <3>1
  <2>2. CASE i \in 1..n
    <3>1. Len(log) - n + i \in 1..Len(log)
      BY <1>3, <2>2
    <3> QED BY <1>1, <1>3, <2>2, <3>1
  <2> QED BY <2>1, <2>2
<1>8. Len(calls) = (n + 1) + Len(tail)
    BY <1>2, <1>3
<1> HIDE DEF calls
<1>9. new[Len(new) - (n + 1)].role = "assistant" /\ new[Len(new) - (n + 1)].calls = calls
    BY <1>3, <1>4 DEF calls
<1>10. Answered(new, tail, n + 1)
    BY <1>4, <1>5, <1>6, <1>7, <1>8, <1>9 DEF Answered
<1> QED BY <1>10 DEF new, e, tail

\* A step that leaves the log and the loops in their tool phase alone.
LEMMA AnswersKept ==
    ASSUME AnswerInv, ~StopBegun' => ~StopBegun,
           \A l \in Loops : lpc'[l] \in {"toolState", "tools"} =>
             lpc[l] \in {"toolState", "tools"} /\ session'.log = session.log /\ todo'[l] = todo[l]
    PROVE  AnswerInv'
BY DEF AnswerInv

\* Before a Stop, nobody else writes the log while a loop is in its tool phase.
LEMMA AloneWrites ==
    ASSUME TypeInv, Ownership, ~StopBegun, NEW l \in Loops, lpc[l] # "none"
    PROVE  running /\ \A k \in Loops : k # l => lpc[k] = "none"
BY DEF Ownership

LEMMA AnswerStep == TypeInv /\ Ownership /\ AnswerInv /\ [Next]_vars => AnswerInv'
<1> SUFFICES ASSUME TypeInv, Ownership, AnswerInv, [Next]_vars PROVE AnswerInv'
    OBVIOUS
<1> USE ControlTypes DEF StopBegun, agentVars, driverVars, queueVars, callerVars, loopVars, historyVars,
        AgentStates, CallerPC, LoopPC
<1>1. ASSUME NEW c \in Callers, StartLock(c) PROVE AnswerInv'
  <2>1. CASE state = "exited" \/ running
    BY <1>1, <2>1, AnswersKept DEF StartLock, Return
  <2>2. CASE ~(state = "exited" \/ running)
    <3>1. ~StopBegun => \A l \in Loops : lpc[l] = "none"
      BY <2>2 DEF Ownership
    <3>2. (StopBegun => StopBegun') /\ lpc' = lpc
      BY <1>1, <2>2 DEF StartLock, Goto
    <3> QED BY <3>1, <3>2 DEF AnswerInv
  <2> QED BY <2>1, <2>2
<1>2. ASSUME NEW c \in Callers, StartTransition(c) PROVE AnswerInv'
    BY <1>2, AnswersKept DEF StartTransition, Goto, Transition, Allowed
<1>3. ASSUME NEW c \in Callers, StartUndo(c) PROVE AnswerInv'
    BY <1>3, AnswersKept DEF StartUndo, Return
<1>4. ASSUME NEW c \in Callers, StartDriver(c) PROVE AnswerInv'
  <2>1. CASE dRunning
    BY <1>4, <2>1, AnswersKept DEF StartDriver, Goto
  <2>2. CASE ~dRunning
    <3>1. PICK k \in Loops : Launch(k, want[c].msg) /\ Return(c)
      BY <1>4, <2>2 DEF StartDriver
    <3> QED BY <1>4, <3>1, AnswersKept DEF StartDriver, Return, Launch
  <2> QED BY <2>1, <2>2
<1>5. ASSUME NEW c \in Callers, StartFail(c) PROVE AnswerInv'
    BY <1>5, AnswersKept DEF StartFail, Goto
<1>6. ASSUME NEW c \in Callers, StartIdle(c) PROVE AnswerInv'
    BY <1>6, AnswersKept DEF StartIdle, Return, Transition, Allowed
<1>7. ASSUME NEW c \in Callers, ContinueDriver(c) PROVE AnswerInv'
  <2>1. CASE dRunning
    BY <1>7, <2>1, AnswersKept DEF ContinueDriver, Return
  <2>2. CASE ~dRunning
    <3>1. PICK k \in Loops : Launch(k, None) /\ Return(c)
      BY <1>7, <2>2 DEF ContinueDriver
    <3> QED BY <1>7, <3>1, AnswersKept DEF ContinueDriver, Return, Launch
  <2> QED BY <2>1, <2>2
<1>8. ASSUME NEW c \in Callers, StopDriver(c) PROVE AnswerInv'
    BY <1>8, AnswersKept DEF StopDriver
<1>9. ASSUME NEW c \in Callers, StopCancel(c) PROVE AnswerInv'
    BY <1>9, AnswersKept DEF StopCancel
<1>10. ASSUME NEW c \in Callers, StopExit(c) PROVE AnswerInv'
  <2>1. state' = "exited"
    BY <1>10, TransitionTable DEF StopExit, Transition
  <2> QED BY <2>1 DEF AnswerInv
<1>11. ASSUME NEW c \in Callers, StopClose(c) PROVE AnswerInv'
    BY <1>11, AnswersKept DEF StopClose, Goto
<1>12. ASSUME NEW c \in Callers, Send(c) PROVE AnswerInv'
    BY <1>12, AnswersKept DEF Send, Return, Goto
<1>13. ASSUME NEW c \in Callers, Prompt(c) PROVE AnswerInv'
    BY <1>13, AnswersKept DEF Prompt
<1>14. ASSUME NEW c \in Callers, Continue(c) PROVE AnswerInv'
    BY <1>14, AnswersKept DEF Continue, Goto
<1>15. ASSUME NEW c \in Callers, Stop(c) PROVE AnswerInv'
    BY <1>15, AnswersKept DEF Stop, Goto
<1>16. ASSUME NEW c \in Callers, NEW t \in {"steer", "followup", "abort"}, Enqueue(c, t)
      PROVE AnswerInv'
    BY <1>16, AnswersKept DEF Enqueue
<1>17. ASSUME NEW l \in Loops, LoopTop(l) PROVE AnswerInv'
  <2>1. /\ lpc[l] = "top" /\ lpc' \in {[lpc EXCEPT ![l] = "idle"], [lpc EXCEPT ![l] = "stream"]}
        /\ state' = state /\ cpc' = cpc /\ todo' = todo
    BY <1>17 DEF LoopTop, Jump
  <2>2. ~StopBegun => \A k \in Loops : lpc'[k] \notin {"toolState", "tools"}
    BY <2>1, AloneWrites
  <2> QED BY <2>1, <2>2 DEF AnswerInv
<1>18. ASSUME NEW l \in Loops, EnterStreaming(l) PROVE AnswerInv'
    BY <1>18, AnswersKept DEF EnterStreaming, Jump, Transition, Allowed
<1>19. ASSUME NEW l \in Loops, ProviderFails(l) PROVE AnswerInv'
    BY <1>19, AnswersKept DEF ProviderFails, Jump
<1>20. ASSUME NEW l \in Loops, EnterToolExecution(l) PROVE AnswerInv'
  <2>1. /\ lpc[l] = "toolState" /\ session' = session /\ cpc' = cpc /\ (state = "exited" => state' = "exited")
        /\ \/ lpc' = [lpc EXCEPT ![l] = "tools"] /\ todo' = [todo EXCEPT ![l] = todo[l]]
           \/ lpc' = [lpc EXCEPT ![l] = "idle"] /\ todo' = [todo EXCEPT ![l] = <<>>]
    BY <1>20 DEF EnterToolExecution, Jump, Transition, Allowed
  <2>2. todo \in [Loops -> Seq(CallKinds)]
    BY DEF TypeInv, TypeOK
  <2> QED BY <2>1, <2>2, AnswersKept
<1>21. ASSUME NEW l \in Loops, ExecuteTool(l) PROVE AnswerInv'
  <2> DEFINE e == [role |-> "tool", kind |-> Head(todo[l])]
  <2>1. /\ lpc[l] = "tools" /\ state' = state /\ cpc' = cpc
        /\ session' = [session EXCEPT !.log = Append(@, e)]
        /\ \/ lpc' \in {[lpc EXCEPT ![l] = "complete"], [lpc EXCEPT ![l] = "stream"]}
           \/ lpc' = [lpc EXCEPT ![l] = "tools"] /\ todo' = [todo EXCEPT ![l] = Tail(todo[l])]
    BY <1>21 DEF ExecuteTool, Jump, AppendConversation
  <2>2. /\ todo \in [Loops -> Seq(CallKinds)] /\ todo[l] # <<>>
        /\ session \in Session /\ session.log \in Seq(Entry)
    BY <2>1 DEF TypeInv, TypeOK, Carried, Session
  <2>3. session'.log = Append(session.log, e)
    BY <2>1, <2>2 DEF Session
  <2> HIDE DEF e
  <2>4. CASE StopBegun
    BY <2>1, <2>4 DEF AnswerInv
  <2>5. CASE ~StopBegun
    <3>1. \A k \in Loops : k # l => lpc[k] = "none"
      BY <2>1, <2>5, AloneWrites
    <3>2. PICK n \in Nat : Answered(session.log, todo[l], n)
      BY <2>1, <2>5 DEF AnswerInv
    <3>3. Answered(session'.log, Tail(todo[l]), n + 1) /\ n + 1 \in Nat
      BY <2>2, <2>3, <3>2, ResultAnswers DEF e
    <3>4. ASSUME NEW k \in Loops, lpc'[k] \in {"toolState", "tools"}
          PROVE  \E i \in Nat : Answered(session'.log, todo'[k], i)
      <4>1. k = l /\ todo'[k] = Tail(todo[l])
        BY <2>1, <2>2, <3>1, <3>4
      <4> QED BY <3>3, <4>1
    <3> QED BY <3>4 DEF AnswerInv
  <2> QED BY <2>4, <2>5
<1>22. ASSUME NEW l \in Loops, ToolPanics(l) PROVE AnswerInv'
    BY <1>22, AnswersKept DEF ToolPanics, Jump
<1>23. ASSUME NEW l \in Loops, MarkTurnCompleted(l) PROVE AnswerInv'
    BY <1>23, AnswersKept DEF MarkTurnCompleted, Jump
<1>24. ASSUME NEW l \in Loops, DrainOne(l) PROVE AnswerInv'
    BY <1>24, AnswersKept DEF DrainOne
<1>25. ASSUME NEW l \in Loops, DrainEnd(l) PROVE AnswerInv'
    BY <1>25, AnswersKept DEF DrainEnd, Jump
<1>26. ASSUME NEW l \in Loops, ApplyCommand(l) PROVE AnswerInv'
    BY <1>26, AnswersKept DEF ApplyCommand, Jump
<1>27. ASSUME NEW l \in Loops, NextPrompt(l) PROVE AnswerInv'
    BY <1>27, AnswersKept DEF NextPrompt, Jump
<1>28. ASSUME NEW l \in Loops, ReturnToIdle(l) PROVE AnswerInv'
    BY <1>28, AnswersKept DEF ReturnToIdle, Jump, Transition, Allowed
<1>29. ASSUME NEW l \in Loops, DeferDriver(l) PROVE AnswerInv'
    BY <1>29, AnswersKept DEF DeferDriver, Jump
<1>30. ASSUME NEW l \in Loops, OnDriverIdle(l) PROVE AnswerInv'
    BY <1>30, AnswersKept DEF OnDriverIdle, Jump
<1>31. ASSUME NEW l \in Loops, NEW reply \in Replies, ProviderReplies(l, reply)
      PROVE AnswerInv'
  <2> DEFINE e == [role |-> "assistant", calls |-> reply]
  <2>1. /\ lpc[l] = "call" /\ state' = state /\ cpc' = cpc
        /\ session' = [session EXCEPT !.log = Append(@, e)]
        /\ lpc' \in {[lpc EXCEPT ![l] = "complete"], [lpc EXCEPT ![l] = "toolState"]}
        /\ todo' = [todo EXCEPT ![l] = reply]
    BY <1>31 DEF ProviderReplies, Jump, AppendConversation
  <2>2. /\ todo \in [Loops -> Seq(CallKinds)] /\ reply \in Seq(CallKinds)
        /\ session \in Session /\ session.log \in Seq(Entry)
    BY ConstantsAssumption DEF TypeInv, TypeOK, Session
  <2>3. session'.log = Append(session.log, e)
    BY <2>1, <2>2 DEF Session
  <2>4. Answered(Append(session.log, e), reply, 0)
    BY <2>2, ReplyAnswers
  <2> HIDE DEF e
  <2>5. Answered(session'.log, reply, 0)
    BY <2>3, <2>4
  <2>6. CASE StopBegun
    BY <2>1, <2>6 DEF AnswerInv
  <2>7. CASE ~StopBegun
    <3>1. \A k \in Loops : k # l => lpc[k] = "none"
      BY <2>1, <2>7, AloneWrites
    <3>2. ASSUME NEW k \in Loops, lpc'[k] \in {"toolState", "tools"}
          PROVE  \E i \in Nat : Answered(session'.log, todo'[k], i)
      <4>1. k = l /\ todo'[k] = reply
        BY <2>1, <2>2, <3>1, <3>2
      <4> QED BY <2>5, <4>1
    <3> QED BY <3>2 DEF AnswerInv
  <2> QED BY <2>6, <2>7
<1>32. CASE CancelContext
    BY <1>32, AnswersKept DEF CancelContext
<1>33. CASE UNCHANGED vars
    BY <1>33, AnswersKept DEF vars
<1> QED
    BY <1>1, <1>2, <1>3, <1>4, <1>5, <1>6, <1>7, <1>8, <1>9, <1>10, <1>11, <1>12, <1>13, <1>14, <1>15, <1>16, <1>17, <1>18, <1>19, <1>20, <1>21, <1>22, <1>23, <1>24, <1>25, <1>26, <1>27, <1>28, <1>29, <1>30, <1>31, <1>32, <1>33
       DEF Next, CallerStep, CallerCalls, LoopStep

\* The number of results is the one the log tells.
LEMMA TrailingIs ==
    ASSUME NEW log \in Seq(Entry), NEW rest, NEW n \in Nat, Answered(log, rest, n)
    PROVE  TrailingResults(log) = n
<1> DEFINE T == {0} \cup {i \in 1..Len(log) : log[i].role # "tool"}
           p == Len(log) - n
<1>1. Len(log) \in Nat /\ p \in 1..Len(log) /\ p \in T
    BY DEF Answered
<1>2. ASSUME NEW i \in T PROVE i <= p
  <2>1. CASE i \in 1..Len(log) /\ i > p
    <3>1. i - p \in 1..n /\ p + (i - p) = i
      BY <1>1, <2>1
    <3>2. log[p + (i - p)] = [role |-> "tool", kind |-> log[p].calls[i - p]]
      BY <3>1 DEF Answered
    <3>3. log[i].role = "tool"
      BY <3>1, <3>2
    <3> QED BY <2>1, <3>3
  <2> QED BY <1>1, <1>2, <2>1
<1>3. T \subseteq Nat
    BY <1>1
<1>4. \A x \in T : (\A y \in T : x >= y) => x = p
    BY <1>1, <1>2, <1>3
<1>5. \A y \in T : p >= y
    BY <1>1, <1>2, <1>3
<1> HIDE DEF T
<1>6. Max(T) = p
    BY <1>1, <1>4, <1>5 DEF Max
<1> QED BY <1>1, <1>6 DEF TrailingResults, T

\* While a turn executes its tools, and until a Stop begins, the log ends with
\* the message that asked for them and the results of the calls executed so
\* far, in order: executeSingleTurn appends one result per call, whatever the
\* outcome, and nobody else writes the session meanwhile.
THEOREM ResultsMatch == Spec => []ToolResultsMatchCalls
<1>1. Init => Ownership /\ AnswerInv
  BY DEF Init, Ownership, AnswerInv
<1>2. Spec => []TypeInv
  BY TypeInit, TypeStep, PTL DEF Spec
<1>3. Spec => []Ownership
  BY <1>1, <1>2, OwnershipStep, PTL DEF Spec
<1>4. Spec => []AnswerInv
  BY <1>1, <1>2, <1>3, AnswerStep, PTL DEF Spec
<1>5. TypeInv /\ AnswerInv => ToolResultsMatchCalls
  <2> SUFFICES ASSUME TypeInv, AnswerInv, ~StopBegun, NEW l \in Loops, lpc[l] \in {"toolState", "tools"}
               PROVE  LET log == session.log
                          n   == TrailingResults(log)
                      IN  /\ n < Len(log)
                          /\ log[Len(log) - n].role = "assistant"
                          /\ LET calls == log[Len(log) - n].calls
                             IN  /\ todo[l] = SubSeq(calls, n + 1, Len(calls))
                                 /\ \A i \in 1..n : log[Len(log) - n + i].kind = calls[i]
    BY DEF ToolResultsMatchCalls
  <2>1. session.log \in Seq(Entry) /\ todo[l] \in Seq(CallKinds)
    BY DEF TypeInv, TypeOK, Session
  <2>2. PICK n \in Nat : Answered(session.log, todo[l], n)
    BY DEF AnswerInv
  <2>3. TrailingResults(session.log) = n
    BY <2>1, <2>2, TrailingIs
  <2> DEFINE log == session.log
             calls == log[Len(log) - n].calls
  <2>4. /\ Len(log) \in Nat /\ n \in 0..(Len(log) - 1) /\ log[Len(log) - n].role = "assistant"
        /\ Len(calls) = n + Len(todo[l])
        /\ \A i \in 1..Len(todo[l]) : todo[l][i] = calls[n + i]
        /\ \A i \in 1..n : log[Len(log) - n + i] = [role |-> "tool", kind |-> calls[i]]
    BY <2>1, <2>2 DEF Answered
  <2>5. calls \in Seq(CallKinds)
    <3>1. log[Len(log) - n] \in Entry
      BY <2>1, <2>4
    <3> QED BY <2>4, <3>1 DEF Entry
  <2> HIDE DEF calls
  <2>6. todo[l] = SubSeq(calls, n + 1, Len(calls))
    <3>1. /\ SubSeq(calls, n + 1, Len(calls)) \in Seq(CallKinds)
          /\ Len(SubSeq(calls, n + 1, Len(calls))) = Len(todo[l])
          /\ \A i \in 1..Len(todo[l]) : SubSeq(calls, n + 1, Len(calls))[i] = calls[n + i]
      BY <2>1, <2>4, <2>5
    <3> QED BY <2>1, <2>4, <3>1
  <2>7. ASSUME NEW i \in 1..n PROVE log[Len(log) - n + i].kind = calls[i]
    <3>1. log[Len(log) - n + i] = [role |-> "tool", kind |-> calls[i]]
      BY <2>4
    <3> HIDE DEF log
    <3> QED BY <3>1
  <2> QED BY <2>3, <2>4, <2>6, <2>7 DEF calls
<1> QED BY <1>2, <1>4, <1>5, PTL

-----------------------------------------------------------------------------
(* The order of follow-ups.                                                *)

\* Stopping is final.
LEMMA StopStays == ASSUME TypeInv, [Next]_vars, StopBegun PROVE StopBegun'
<1> USE ControlTypes DEF StopBegun, agentVars, driverVars, queueVars, callerVars, loopVars,
        historyVars, AgentStates, CallerPC
<1>1. state = "exited" => state' = "exited"
  BY DEF vars, Next, CallerStep, CallerCalls, LoopStep, StartLock, StartTransition, StartUndo,
         StartDriver, StartFail, StartIdle, ContinueDriver, StopDriver, StopCancel, StopExit,
         StopClose, Send, Prompt, Continue, Stop, Enqueue, LoopTop, EnterStreaming,
         ProviderReplies, ProviderFails, EnterToolExecution, ExecuteTool, ToolPanics,
         MarkTurnCompleted, DrainOne, DrainEnd, ApplyCommand, NextPrompt, ReturnToIdle,
         DeferDriver, OnDriverIdle, CancelContext, Transition, Allowed
<1>2. ASSUME NEW d \in Callers, cpc[d] \in {"stopDriver", "stopCancel", "stopExit"},
             state # "exited"
      PROVE  StopBegun'
  <2>1. CASE UNCHANGED cpc
    BY <1>2, <2>1
  <2>2. CASE cpc' # cpc
    <3>1. PICK c \in Callers : CallerStep(c) \/ CallerCalls(c)
      BY <2>2 DEF Next, vars, LoopStep, LoopTop, EnterStreaming,
         ProviderReplies, ProviderFails, EnterToolExecution, ExecuteTool, ToolPanics,
         MarkTurnCompleted, DrainOne, DrainEnd, ApplyCommand, NextPrompt, ReturnToIdle,
         DeferDriver, OnDriverIdle, CancelContext
    <3>2. CASE StopExit(c)
      BY <3>2, TransitionTable DEF StopExit, Transition
    <3>3. CASE ~StopExit(c)
      <4>1. PICK pc : cpc' = [cpc EXCEPT ![c] = pc]
                      /\ (cpc[c] \in {"stopDriver", "stopCancel"} => pc \in {"stopCancel", "stopExit"})
                      /\ cpc[c] # "stopExit"
        BY <3>1, <3>3 DEF CallerStep, CallerCalls, StartLock, StartTransition, StartUndo,
           StartDriver, StartFail, StartIdle, ContinueDriver, StopDriver, StopCancel,
           StopClose, Send, Prompt, Continue, Stop, Enqueue, Return, Goto
      <4> QED
        BY <1>2, <4>1
    <3> QED
      BY <3>2, <3>3
  <2> QED
    BY <2>1, <2>2
<1> QED
  BY <1>1, <1>2

\* Messages are numbered by their calls, so none is accepted twice; and only a
\* loop that drains or applies commands has some.
Fresh ==
    /\ \A i \in 1..Len(accepted) : accepted[i] <= ops
    /\ \A i, j \in 1..Len(accepted) : accepted[i] = accepted[j] => i = j
    /\ \A c \in Callers : cpc[c] = "send" =>
          /\ want[c].msg <= ops
          /\ \A i \in 1..Len(accepted) : accepted[i] # want[c].msg
    /\ \A c, d \in Callers :
          cpc[c] = "send" /\ cpc[d] = "send" /\ want[c].msg = want[d].msg => c = d

Gathered == \A l \in Loops : cmds[l] # <<>> => lpc[l] \in {"drain", "choose"}

\* The follow-up m is the i-th in the k-th place of its way.
At(k, i, m) ==
    \/ k = 1 /\ i \in 1..Len(delivered) /\ delivered[i] = m
    \/ k = 2 /\ i \in 1..Len(followUps) /\ followUps[i] = m
    \/ k = 3 /\ \E l \in Loops : /\ i \in 1..Len(cmds[l]) /\ cmds[l][i].type = "followup"
                                 /\ cmds[l][i].msg = m
    \/ k = 4 /\ i \in 1..Len(queue) /\ queue[i].type = "followup" /\ queue[i].msg = m

Ahead(k, i, h, j) == k < h \/ (k = h /\ i < j)

\* Every place has a follow-up that was accepted and not dropped ...
Known ==
    /\ \A k \in 1..4, i \in Nat, m \in Msgs : At(k, i, m) =>
          m \notin dropped /\ \E a \in 1..Len(accepted) : accepted[a] = m
    /\ \A m \in dropped : \E a \in 1..Len(accepted) : accepted[a] = m

\* ... all of these have a place ...
Placed ==
    \A a \in 1..Len(accepted) :
        accepted[a] \in dropped \/ \E k \in 1..4, i \in Nat : At(k, i, accepted[a])

\* ... and places keep the order of acceptance.
InLine ==
    \A k, h \in 1..4, i, j \in Nat, m, n \in Msgs :
        At(k, i, m) /\ At(h, j, n) /\ Ahead(k, i, h, j) => AcceptedBefore(m, n)

FollowInv == ~StopBegun => Known /\ Placed /\ InLine

LEMMA HistoryTypes ==
    ASSUME TypeInv
    PROVE  /\ accepted \in Seq(Msgs) /\ delivered \in Seq(Msgs) /\ followUps \in Seq(Msgs)
           /\ queue \in Seq(Command) /\ cmds \in [Loops -> Seq(Command)] /\ dropped \subseteq Msgs
           /\ ops \in Nat /\ Msgs \subseteq Nat
           /\ \A c \in Callers : cpc[c] = "send" => want[c] \in Command
           /\ cpc \in [Callers -> CallerPC] /\ want \in [Callers -> Command \cup {NoCommand}]
BY DEF TypeInv, TypeOK, Carried, Msgs

LEMMA FrameFresh ==
    ASSUME Fresh, TypeInv, UNCHANGED <<accepted, ops>>, NEW c \in Callers,
           \A d \in Callers : d # c => cpc'[d] = cpc[d] /\ want'[d] = want[d],
           cpc'[c] # "send"
    PROVE  Fresh'
BY DEF Fresh

LEMMA NextFresh == TypeInv /\ Fresh /\ [Next]_vars => Fresh'
<1> SUFFICES ASSUME TypeInv, Fresh, [Next]_vars PROVE Fresh'
  OBVIOUS
<1> USE DEF agentVars, driverVars, queueVars, callerVars, loopVars, historyVars
<1>1. CASE UNCHANGED <<accepted, ops, cpc, want>>
  BY <1>1 DEF Fresh
<1>2. ASSUME NEW c \in Callers, Send(c) PROVE Fresh'
  <2>1. /\ \A d \in Callers : d # c => cpc'[d] = cpc[d] /\ want'[d] = want[d]
        /\ cpc'[c] # "send" /\ ops' = ops /\ cpc[c] = "send"
        /\ accepted' = accepted \/ accepted' = Append(accepted, want[c].msg)
    BY <1>2, HistoryTypes DEF Send, Return, Goto
  <2>2. CASE accepted' = accepted
    BY <2>1, <2>2, FrameFresh
  <2>3. CASE accepted' = Append(accepted, want[c].msg)
    <3> DEFINE w == want[c].msg
    <3>1. /\ Len(accepted') = Len(accepted) + 1 /\ Len(accepted) \in Nat
          /\ \A i \in 1..Len(accepted) : accepted'[i] = accepted[i]
          /\ accepted'[Len(accepted) + 1] = w
      BY <2>3, HistoryTypes
    <3>2. ASSUME NEW i \in 1..Len(accepted')
          PROVE  \/ i \in 1..Len(accepted) /\ accepted'[i] = accepted[i]
                 \/ i = Len(accepted) + 1 /\ accepted'[i] = w
      BY <3>1
    <3>3. w <= ops /\ \A i \in 1..Len(accepted) : accepted[i] # w /\ accepted[i] <= ops
      BY <2>1 DEF Fresh
    <3>4. ASSUME NEW d \in Callers, cpc'[d] = "send"
          PROVE  d # c /\ cpc[d] = "send" /\ want'[d] = want[d] /\ want[d].msg # w
      BY <2>1, <3>4 DEF Fresh
    <3> HIDE DEF w
    <3>5. \A i \in 1..Len(accepted') : accepted'[i] <= ops'
      BY <2>1, <3>2, <3>3
    <3>6. \A i, j \in 1..Len(accepted') : accepted'[i] = accepted'[j] => i = j
      BY <3>2, <3>3 DEF Fresh
    <3>7. ASSUME NEW d \in Callers, cpc'[d] = "send"
          PROVE  /\ want'[d].msg <= ops'
                 /\ \A i \in 1..Len(accepted') : accepted'[i] # want'[d].msg
      BY <2>1, <3>2, <3>4, <3>7 DEF Fresh
    <3>8. ASSUME NEW d \in Callers, NEW e \in Callers, cpc'[d] = "send", cpc'[e] = "send",
                 want'[d].msg = want'[e].msg
          PROVE  d = e
      BY <3>4, <3>8 DEF Fresh
    <3> QED
      BY <3>5, <3>6, <3>7, <3>8 DEF Fresh
  <2> QED
    BY <2>1, <2>2, <2>3
<1>3. ASSUME NEW c \in Callers, NEW t \in {"steer", "followup", "abort"}, Enqueue(c, t) PROVE Fresh'
  <2>1. /\ \A d \in Callers : d # c => cpc'[d] = cpc[d] /\ want'[d] = want[d]
        /\ want'[c].msg = ops + 1 /\ ops' = ops + 1 /\ UNCHANGED accepted /\ ops \in Nat
        /\ \A i \in 1..Len(accepted) : accepted[i] \in Nat
        /\ \A d \in Callers : cpc[d] = "send" => want[d].msg \in Nat
    BY <1>3, HistoryTypes DEF Enqueue, NewOp, Command
  <2> QED
    BY <2>1 DEF Fresh
<1>4. ASSUME NEW c \in Callers, Prompt(c) \/ Continue(c) \/ Stop(c) PROVE Fresh'
  <2>1. /\ \A d \in Callers : d # c => cpc'[d] = cpc[d] /\ want'[d] = want[d]
        /\ cpc'[c] # "send" /\ ops' = ops + 1 /\ UNCHANGED accepted /\ ops \in Nat
        /\ \A i \in 1..Len(accepted) : accepted[i] \in Nat
        /\ \A d \in Callers : cpc[d] = "send" => want[d].msg \in Nat
    BY <1>4, HistoryTypes DEF Prompt, Continue, Stop, NewOp, Goto, Command
  <2> QED
    BY <2>1 DEF Fresh
<1>5. ASSUME NEW c \in Callers, CallerStep(c), ~Send(c) PROVE Fresh'
  <2>1. /\ \A d \in Callers : d # c => cpc'[d] = cpc[d] /\ want'[d] = want[d]
        /\ cpc'[c] # "send" /\ UNCHANGED <<accepted, ops>>
    BY <1>5, HistoryTypes DEF CallerStep, StartLock, StartTransition, StartUndo, StartDriver,
       StartFail, StartIdle, ContinueDriver, StopDriver, StopCancel, StopExit, StopClose,
       Return, Goto
  <2> QED
    BY <2>1, FrameFresh
<1>6. ASSUME NEW l \in Loops, LoopStep(l) PROVE UNCHANGED <<accepted, ops, cpc, want>>
  BY <1>6 DEF LoopStep, LoopTop, EnterStreaming,
     ProviderReplies, ProviderFails, EnterToolExecution, ExecuteTool, ToolPanics,
     MarkTurnCompleted, DrainOne, DrainEnd, ApplyCommand, NextPrompt, ReturnToIdle,
     DeferDriver, OnDriverIdle
<1>7. CancelContext \/ UNCHANGED vars => UNCHANGED <<accepted, ops, cpc, want>>
  BY DEF CancelContext, vars
<1> QED
  BY <1>1, <1>2, <1>3, <1>4, <1>5, <1>6, <1>7 DEF Next, CallerCalls

LEMMA NextGathered == TypeInv /\ Gathered /\ [Next]_vars => Gathered'
<1> SUFFICES ASSUME TypeInv, Gathered, [Next]_vars PROVE Gathered'
  OBVIOUS
<1> USE ControlTypes, HistoryTypes
    DEF Gathered, agentVars, driverVars, queueVars, callerVars, loopVars, historyVars, LoopPC
<1>1. CASE UNCHANGED <<lpc, cmds>>
  BY <1>1
<1>2. ASSUME NEW c \in Callers, CallerStep(c) \/ CallerCalls(c) PROVE Gathered'
  <2>1. \/ UNCHANGED <<lpc, cmds>>
        \/ \E l \in Loops : lpc[l] = "none" /\ lpc' = [lpc EXCEPT ![l] = "top"] /\ cmds' = cmds
    BY <1>2 DEF CallerStep, CallerCalls, StartLock, StartTransition, StartUndo, StartDriver,
       StartFail, StartIdle, ContinueDriver, StopDriver, StopCancel, StopExit, StopClose,
       Send, Prompt, Continue, Stop, Enqueue, Launch
  <2> QED
    BY <2>1, <1>1
<1>3. ASSUME NEW l \in Loops, DrainOne(l) PROVE Gathered'
  BY <1>3 DEF DrainOne
<1>4. ASSUME NEW l \in Loops, ApplyCommand(l) PROVE Gathered'
  <2>1. \/ lpc' = lpc /\ lpc[l] = "choose" /\ cmds' = [cmds EXCEPT ![l] = Tail(@)]
        \/ lpc' = [lpc EXCEPT ![l] = "idle"] /\ cmds' = [cmds EXCEPT ![l] = <<>>]
    BY <1>4 DEF ApplyCommand, Jump
  <2> QED
    BY <2>1
<1>5. ASSUME NEW l \in Loops, LoopStep(l), ~DrainOne(l), ~ApplyCommand(l) PROVE Gathered'
  <2>1. PICK pc : /\ cmds' = cmds /\ lpc' = [lpc EXCEPT ![l] = pc]
                  /\ cmds[l] = <<>> \/ pc = "choose"
    BY <1>5 DEF LoopStep, LoopTop, EnterStreaming,
       ProviderReplies, ProviderFails, EnterToolExecution, ExecuteTool, ToolPanics,
       MarkTurnCompleted, DrainEnd, NextPrompt, ReturnToIdle, DeferDriver, OnDriverIdle, Jump
  <2> QED
    BY <2>1
<1>6. CancelContext \/ UNCHANGED vars => UNCHANGED <<lpc, cmds>>
  BY DEF CancelContext, vars
<1> QED
  BY <1>1, <1>2, <1>3, <1>4, <1>5, <1>6 DEF Next

LEMMA BeforeOnce == ASSUME Fresh, NEW m PROVE ~AcceptedBefore(m, m)
BY DEF Fresh, AcceptedBefore

\* Of all follow-ups one moves on, from the head of place K to the end of the
\* place before, which has e; or what moves on is no follow-up.
LEMMA Moved ==
    ASSUME Known, Placed, InLine, UNCHANGED <<accepted, dropped>>,
           NEW J \in 1..3, NEW K \in 2..4, K = J + 1, NEW e \in Nat,
           \A i \in Nat, m \in Msgs : At(J, i, m) => i <= e,
           \A k \in 1..4, i \in Nat, m \in Msgs : At(k, i, m)' =>
              \/ k = J /\ i = e + 1 /\ At(K, 1, m)
              \/ k = K /\ At(K, i + 1, m)
              \/ k # K /\ At(k, i, m),
           \A k \in 1..4, i \in Nat, m \in Msgs : At(k, i, m) =>
              \E h \in 1..4, j \in Nat : At(h, j, m)',
           \A a \in 1..Len(accepted) : accepted[a] \in Msgs
    PROVE  Known' /\ Placed' /\ InLine'
<1>1. ASSUME NEW k \in 1..4, NEW i \in Nat, NEW m \in Msgs, At(k, i, m)'
      PROVE  \E h \in 1..4, j \in Nat : At(h, j, m)
  BY <1>1
<1>2. Known'
  <2>1. ASSUME NEW k \in 1..4, NEW i \in Nat, NEW m \in Msgs, At(k, i, m)'
        PROVE  m \notin dropped /\ \E a \in 1..Len(accepted) : accepted[a] = m
    BY <1>1, <2>1 DEF Known
  <2> QED
    BY <2>1 DEF Known
<1>3. Placed'
  BY DEF Placed
<1>4. ASSUME NEW k \in 1..4, NEW h \in 1..4, NEW i \in Nat, NEW j \in Nat,
             NEW m \in Msgs, NEW n \in Msgs, At(k, i, m)', At(h, j, n)', Ahead(k, i, h, j)
      PROVE  AcceptedBefore(m, n)
  <2>1. \/ k = J /\ i = e + 1 /\ At(K, 1, m)
        \/ k = K /\ At(K, i + 1, m)
        \/ k # K /\ At(k, i, m)
    BY <1>4
  <2>2. \/ h = J /\ j = e + 1 /\ At(K, 1, n)
        \/ h = K /\ At(K, j + 1, n)
        \/ h # K /\ At(h, j, n)
    BY <1>4
  <2>3. PICK k1 \in 1..4, i1 \in Nat :
           At(k1, i1, m) /\ \/ k = J /\ i = e + 1 /\ k1 = K /\ i1 = 1
                            \/ k = K /\ k1 = K /\ i1 = i + 1
                            \/ k # K /\ k1 = k /\ i1 = i
    BY <2>1
  <2>4. PICK h1 \in 1..4, j1 \in Nat :
           At(h1, j1, n) /\ \/ h = J /\ j = e + 1 /\ h1 = K /\ j1 = 1
                            \/ h = K /\ h1 = K /\ j1 = j + 1
                            \/ h # K /\ h1 = h /\ j1 = j
    BY <2>2
  <2>5. (h1 = J => j1 <= e) /\ (k1 = J => i1 <= e)
    BY <2>3, <2>4
  <2>7. j >= 1
    BY <1>4 DEF At
  <2>6. Ahead(k1, i1, h1, j1)
    BY <1>4, <2>3, <2>4, <2>5, <2>7 DEF Ahead
  <2> QED
    BY <2>3, <2>4, <2>6 DEF InLine
<1>5. InLine'
  BY <1>4 DEF InLine, AcceptedBefore
<1> QED
  BY <1>2, <1>3, <1>5

\* Until a Stop begins the loop that has commands is the only one.
LEMMA OnlyLoop ==
    ASSUME TypeInv, Ownership, Gathered, ~StopBegun, NEW l \in Loops, lpc[l] # "none"
    PROVE  \A k \in Loops : k # l => cmds[k] = <<>>
BY ControlTypes DEF Ownership, Gathered

LEMMA DrainOneFollow ==
    ASSUME TypeInv, Ownership, Gathered, ~StopBegun, Known, Placed, InLine,
           NEW l \in Loops, DrainOne(l)
    PROVE  Known' /\ Placed' /\ InLine'
<1> PICK e \in Nat : e = Len(cmds[l])
  BY HistoryTypes
<1>1. /\ lpc[l] # "none" /\ UNCHANGED <<accepted, dropped, delivered, followUps>>
      /\ queue # <<>> /\ queue' = Tail(queue)
      /\ cmds' = [cmds EXCEPT ![l] = Append(@, Head(queue))]
  BY DEF DrainOne, agentVars, driverVars, historyVars
<1>2. \A k \in Loops : k # l => cmds[k] = <<>> /\ cmds'[k] = <<>>
  BY <1>1, OnlyLoop, HistoryTypes
<1>3. /\ Len(cmds'[l]) = e + 1 /\ e \in Nat /\ cmds'[l][e + 1] = queue[1]
      /\ \A i \in 1..e : cmds'[l][i] = cmds[l][i]
      /\ Len(queue) >= 1 /\ Len(queue') = Len(queue) - 1 /\ Len(queue) \in Nat
      /\ \A i \in 1..Len(queue') : queue'[i] = queue[i + 1]
  BY <1>1, HistoryTypes
<1>4. \A i \in Nat, m \in Msgs : At(3, i, m) <=>
         i \in 1..e /\ cmds[l][i].type = "followup" /\ cmds[l][i].msg = m
  BY <1>2 DEF At
<1>5. \A i \in Nat, m \in Msgs : At(3, i, m)' <=>
         i \in 1..(e + 1) /\ cmds'[l][i].type = "followup" /\ cmds'[l][i].msg = m
  BY <1>2, <1>3 DEF At
<1>6. ASSUME NEW i \in Nat, NEW m \in Msgs, At(4, i, m)' PROVE At(4, i + 1, m)
  BY <1>3, <1>6 DEF At
<1>7. ASSUME NEW i \in Nat, NEW m \in Msgs, At(3, i, m)'
      PROVE  (i = e + 1 /\ At(4, 1, m)) \/ At(3, i, m)
  <2>1. CASE i = e + 1
    <3>1. cmds'[l][i].type = "followup" /\ cmds'[l][i].msg = m
      BY <1>5, <1>7, Zenon
    <3>2. queue[1].type = "followup" /\ queue[1].msg = m
      BY <1>3, <2>1, <3>1, Zenon
    <3>3. 1 \in 1..Len(queue)
      BY <1>3
    <3> QED
      BY <2>1, <3>2, <3>3 DEF At
  <2>2. CASE i # e + 1
    <3>0. i \in 1..(e + 1)
      BY <1>5, <1>7
    <3>1. i \in 1..e
      BY <1>3, <2>2, <3>0
    <3>2. cmds'[l][i].type = "followup" /\ cmds'[l][i].msg = m
      BY <1>5, <1>7, Zenon
    <3>3. cmds'[l][i] = cmds[l][i]
      BY <1>3, <3>1, Zenon
    <3> QED
      BY <1>4, <3>1, <3>2, <3>3, Zenon
  <2> QED
    BY <2>1, <2>2
<1>8. ASSUME NEW k \in {1, 2}, NEW i \in Nat, NEW m \in Msgs PROVE At(k, i, m)' <=> At(k, i, m)
  BY <1>1 DEF At
<1>9. ASSUME NEW k \in 1..4, NEW i \in Nat, NEW m \in Msgs, At(k, i, m)
      PROVE  \E h \in 1..4, j \in Nat : At(h, j, m)'
  <2>1. CASE k \in {1, 2}
    BY <1>8, <1>9, <2>1
  <2>2. CASE k = 3
    <3>0. At(3, i, m)
      BY <1>9, <2>2, Zenon
    <3>a. i \in 1..e /\ cmds[l][i].type = "followup" /\ cmds[l][i].msg = m
      BY <1>4, <3>0, Zenon
    <3>b. i \in 1..(e + 1) /\ cmds'[l][i] = cmds[l][i]
      BY <1>3, <3>a
    <3>1. At(3, i, m)'
      BY <1>5, <3>a, <3>b, Zenon
    <3> QED
      BY <3>1
  <2>3. CASE k = 4 /\ i = 1
    <3>1. At(3, e + 1, m)'
      BY <1>3, <1>5, <1>9, <2>3 DEF At
    <3> QED
      BY <3>1, <1>3
  <2>4. CASE k = 4 /\ i # 1
    <3>1. i - 1 \in 1..Len(queue') /\ queue'[i - 1] = queue[i]
      BY <1>3, <1>9, <2>4 DEF At
    <3>2. At(4, i - 1, m)'
      BY <1>9, <2>4, <3>1 DEF At
    <3> QED
      BY <3>1, <3>2
  <2> QED
    BY <2>1, <2>2, <2>3, <2>4
<1>10. ASSUME NEW k \in 1..4, NEW i \in Nat, NEW m \in Msgs, At(k, i, m)'
       PROVE  \/ k = 3 /\ i = e + 1 /\ At(4, 1, m)
              \/ k = 4 /\ At(4, i + 1, m)
              \/ k # 4 /\ At(k, i, m)
  BY <1>6, <1>7, <1>8, <1>10
<1>11. \A i \in Nat, m \in Msgs : At(3, i, m) => i <= e
  <2>1. ASSUME NEW i \in Nat, NEW m \in Msgs, At(3, i, m) PROVE i <= e
    <3>1. i \in 1..e
      BY <1>4, <2>1, Zenon
    <3> QED
      BY <3>1
  <2> QED
    BY <2>1, Zenon
<1>12. \A a \in 1..Len(accepted) : accepted[a] \in Msgs
  BY HistoryTypes
<1> QED
  <2>1. \A k \in 1..4, i \in Nat, m \in Msgs : At(k, i, m)' =>
           \/ k = 3 /\ i = e + 1 /\ At(4, 1, m)
           \/ k = 4 /\ At(4, i + 1, m)
           \/ k # 4 /\ At(k, i, m)
    BY <1>10
  <2>2. \A k \in 1..4, i \in Nat, m \in Msgs : At(k, i, m) =>
           \E h \in 1..4, j \in Nat : At(h, j, m)'
    BY <1>9
  <2>3. UNCHANGED <<accepted, dropped>>
    BY <1>1
  <2>4. 3 \in 1..3 /\ 4 \in 2..4 /\ 4 = 3 + 1
    OBVIOUS
  <2> QED
    BY <2>1, <2>2, <2>3, <2>4, <1>11, <1>12, Moved

\* A command is applied: a follow-up goes to the end of the list, a steer is none.
LEMMA ApplyFollow ==
    ASSUME TypeInv, Ownership, Gathered, ~StopBegun, Known, Placed, InLine,
           NEW l \in Loops, lpc[l] # "none", cmds[l] # <<>>,
           UNCHANGED <<accepted, dropped, delivered, queue>>,
           cmds' = [cmds EXCEPT ![l] = Tail(@)],
           \/ Head(cmds[l]).type = "followup" /\ followUps' = Append(followUps, Head(cmds[l]).msg)
           \/ Head(cmds[l]).type # "followup" /\ followUps' = followUps
    PROVE  Known' /\ Placed' /\ InLine'
<1> PICK e \in Nat : e = Len(followUps)
  BY HistoryTypes
<1>2. \A k \in Loops : k # l => cmds[k] = <<>> /\ cmds'[k] = <<>>
  BY OnlyLoop, HistoryTypes
<1>3. /\ Len(cmds[l]) >= 1 /\ Len(cmds[l]) \in Nat /\ Len(cmds'[l]) = Len(cmds[l]) - 1
      /\ \A i \in 1..Len(cmds'[l]) : cmds'[l][i] = cmds[l][i + 1]
      /\ Head(cmds[l]) = cmds[l][1]
  BY HistoryTypes
<1>4. \A i \in Nat, m \in Msgs : At(3, i, m) <=>
         i \in 1..Len(cmds[l]) /\ cmds[l][i].type = "followup" /\ cmds[l][i].msg = m
  BY <1>2 DEF At
<1>5. \A i \in Nat, m \in Msgs : At(3, i, m)' <=>
         i \in 1..Len(cmds'[l]) /\ cmds'[l][i].type = "followup" /\ cmds'[l][i].msg = m
  BY <1>2 DEF At
<1>6. \A i \in 1..e : followUps'[i] = followUps[i]
  <2>1. CASE followUps' = followUps
    BY <2>1
  <2>2. CASE followUps' = Append(followUps, Head(cmds[l]).msg)
    <3> DEFINE w == Head(cmds[l]).msg
    <3>1. followUps' = Append(followUps, w) /\ followUps \in Seq(Msgs)
      BY <2>2, HistoryTypes
    <3> HIDE DEF w
    <3>2. followUps' = Append(followUps, w) /\ followUps \in Seq(Nat \cup {w})
      BY <3>1, HistoryTypes
    <3> QED
      BY <3>2
  <2> QED
    BY <2>1, <2>2
<1>7. \/ /\ Head(cmds[l]).type = "followup" /\ Len(followUps') = e + 1
         /\ followUps'[e + 1] = cmds[l][1].msg
      \/ Head(cmds[l]).type # "followup" /\ Len(followUps') = e
  BY <1>3, HistoryTypes
<1>8. ASSUME NEW i \in Nat, NEW m \in Msgs, At(3, i, m)' PROVE At(3, i + 1, m)
  <2>1. i \in 1..Len(cmds'[l]) /\ cmds'[l][i].type = "followup" /\ cmds'[l][i].msg = m
    BY <1>5, <1>8
  <2>2. i + 1 \in 1..Len(cmds[l]) /\ cmds'[l][i] = cmds[l][i + 1]
    BY <1>3, <2>1
  <2> QED
    BY <1>4, <2>1, <2>2
<1>9. ASSUME NEW i \in Nat, NEW m \in Msgs, At(2, i, m)'
      PROVE  (i = e + 1 /\ At(3, 1, m)) \/ At(2, i, m)
  <2>1. i \in 1..Len(followUps') /\ followUps'[i] = m
    BY <1>9 DEF At
  <2>2. CASE i = e + 1
    <3>1. Head(cmds[l]).type = "followup" /\ cmds[l][1].msg = m
      BY <1>7, <2>1, <2>2
    <3>2. 1 \in 1..Len(cmds[l]) /\ cmds[l][1].type = "followup"
      BY <1>3, <3>1
    <3> QED
      BY <1>4, <2>2, <3>1, <3>2
  <2>3. CASE i # e + 1
    <3>1. i \in 1..e
      BY <1>7, <2>1, <2>3
    <3> QED
      BY <1>6, <2>1, <3>1 DEF At
  <2> QED
    BY <2>2, <2>3
<1>10. ASSUME NEW k \in {1, 4}, NEW i \in Nat, NEW m \in Msgs PROVE At(k, i, m)' <=> At(k, i, m)
  BY DEF At
<1>11. ASSUME NEW k \in 1..4, NEW i \in Nat, NEW m \in Msgs, At(k, i, m)
       PROVE  \E h \in 1..4, j \in Nat : At(h, j, m)'
  <2>1. CASE k \in {1, 4}
    BY <1>10, <1>11, <2>1
  <2>2. CASE k = 2
    <3>1. At(2, i, m)'
      BY <1>6, <1>7, <1>11, <2>2 DEF At
    <3> QED
      BY <3>1
  <2>3. CASE k = 3 /\ i = 1
    <3>1. cmds[l][1].type = "followup" /\ cmds[l][1].msg = m
      BY <1>4, <1>11, <2>3
    <3>2. Len(followUps') = e + 1 /\ followUps'[e + 1] = m
      BY <1>3, <1>7, <3>1
    <3>3. At(2, e + 1, m)'
      BY <3>2 DEF At
    <3> QED
      BY <3>3
  <2>4. CASE k = 3 /\ i # 1
    <3>0. i \in 1..Len(cmds[l]) /\ cmds[l][i].type = "followup" /\ cmds[l][i].msg = m
      BY <1>4, <1>11, <2>4
    <3>1. i - 1 \in 1..Len(cmds'[l]) /\ cmds'[l][i - 1] = cmds[l][i] /\ i - 1 \in Nat
      BY <1>3, <2>4, <3>0
    <3>2. At(3, i - 1, m)'
      BY <1>5, <3>0, <3>1
    <3> QED
      BY <3>1, <3>2
  <2> QED
    BY <2>1, <2>2, <2>3, <2>4
<1>12. ASSUME NEW k \in 1..4, NEW i \in Nat, NEW m \in Msgs, At(k, i, m)'
       PROVE  \/ k = 2 /\ i = e + 1 /\ At(3, 1, m)
              \/ k = 3 /\ At(3, i + 1, m)
              \/ k # 3 /\ At(k, i, m)
  BY <1>8, <1>9, <1>10, <1>12
<1>13. \A i \in Nat, m \in Msgs : At(2, i, m) => i <= e
  BY DEF At
<1>14. \A a \in 1..Len(accepted) : accepted[a] \in Msgs
  BY HistoryTypes
<1>15. 2 \in 1..3 /\ 3 \in 2..4 /\ 3 = 2 + 1
  OBVIOUS
<1> QED
  BY <1>11, <1>12, <1>13, <1>14, <1>15, Moved

\* An abort drops what is left of the batch, and nothing that is elsewhere.
LEMMA AbortFollow ==
    ASSUME TypeInv, Ownership, Gathered, Fresh, ~StopBegun, Known, Placed, InLine,
           NEW l \in Loops, lpc[l] # "none",
           UNCHANGED <<accepted, delivered, followUps, queue>>,
           cmds' = [cmds EXCEPT ![l] = <<>>],
           dropped' = dropped \cup FollowUpsIn(cmds[l])
    PROVE  Known' /\ Placed' /\ InLine'
<1>1. \A k \in Loops : (k # l => cmds[k] = <<>>) /\ cmds'[k] = <<>>
  BY OnlyLoop, HistoryTypes
<1>2. \A i \in Nat, m \in Msgs : ~At(3, i, m)'
  BY <1>1 DEF At
<1>3. ASSUME NEW m \in Msgs PROVE m \in FollowUpsIn(cmds[l]) <=> \E i \in Nat : At(3, i, m)
  <2>1. \A i \in Nat : At(3, i, m) <=>
           i \in 1..Len(cmds[l]) /\ cmds[l][i].type = "followup" /\ cmds[l][i].msg = m
    BY <1>1 DEF At
  <2>2. m \in FollowUpsIn(cmds[l]) <=>
           \E i \in 1..Len(cmds[l]) : cmds[l][i].type = "followup" /\ cmds[l][i].msg = m
    BY DEF FollowUpsIn
  <2>3. \A i \in 1..Len(cmds[l]) : i \in Nat
    BY HistoryTypes
  <2> QED
    BY <2>1, <2>2, <2>3
<1>4. ASSUME NEW k \in 1..4, k # 3, NEW i \in Nat, NEW m \in Msgs PROVE At(k, i, m)' <=> At(k, i, m)
  BY <1>4 DEF At
<1>5. FollowUpsIn(cmds[l]) \subseteq Msgs
  <2>1. \A i \in 1..Len(cmds[l]) : cmds[l][i] \in Command
    BY HistoryTypes
  <2>2. \A i \in 1..Len(cmds[l]) : cmds[l][i].msg \in Msgs
    BY <2>1 DEF Command
  <2> QED
    BY <2>2 DEF FollowUpsIn
<1>6. Known'
  <2>1. ASSUME NEW k \in 1..4, NEW i \in Nat, NEW m \in Msgs, At(k, i, m)'
        PROVE  m \notin dropped' /\ \E a \in 1..Len(accepted) : accepted[a] = m
    <3>1. k # 3 /\ At(k, i, m)
      BY <1>2, <1>4, <2>1
    <3>2. ASSUME NEW j \in Nat, At(3, j, m) PROVE FALSE
      <4>1. Ahead(k, i, 3, j) \/ Ahead(3, j, k, i)
        BY <3>1 DEF Ahead
      <4>2. AcceptedBefore(m, m)
        BY <3>1, <3>2, <4>1 DEF InLine
      <4> QED
        BY <4>2, BeforeOnce
    <3> QED
      BY <1>3, <3>1, <3>2 DEF Known
  <2>2. ASSUME NEW m \in dropped' PROVE \E a \in 1..Len(accepted) : accepted[a] = m
    BY <1>3, <1>5, <2>2 DEF Known
  <2> QED
    BY <2>1, <2>2 DEF Known
<1>7. Placed'
  <2>1. ASSUME NEW a \in 1..Len(accepted), accepted[a] \notin dropped'
        PROVE  \E k \in 1..4, i \in Nat : At(k, i, accepted[a])'
    <3> PICK m \in Msgs : m = accepted[a]
      BY HistoryTypes
    <3>1. PICK k \in 1..4, i \in Nat : At(k, i, m)
      BY <2>1 DEF Placed
    <3>2. k # 3
      BY <1>3, <2>1, <3>1
    <3>3. At(k, i, m)'
      BY <1>4, <3>1, <3>2
    <3> QED
      BY <3>3
  <2> QED
    BY <2>1 DEF Placed
<1>8. ASSUME NEW k \in 1..4, NEW h \in 1..4, NEW i \in Nat, NEW j \in Nat,
             NEW m \in Msgs, NEW n \in Msgs, At(k, i, m)', At(h, j, n)', Ahead(k, i, h, j)
      PROVE  AcceptedBefore(m, n)
  BY <1>2, <1>4, <1>8 DEF InLine
<1>9. InLine'
  BY <1>8 DEF InLine, AcceptedBefore
<1> QED
  BY <1>6, <1>7, <1>9

LEMMA NextPromptFollow ==
    ASSUME TypeInv, Known, Placed, InLine, followUps # <<>>,
           UNCHANGED <<accepted, dropped, cmds, queue>>,
           delivered' = Append(delivered, Head(followUps)), followUps' = Tail(followUps)
    PROVE  Known' /\ Placed' /\ InLine'
<1> PICK e \in Nat : e = Len(delivered)
  BY HistoryTypes
<1>1. /\ Len(delivered') = e + 1 /\ delivered'[e + 1] = followUps[1]
      /\ \A i \in 1..e : delivered'[i] = delivered[i]
      /\ Len(followUps) >= 1 /\ Len(followUps) \in Nat /\ Len(followUps') = Len(followUps) - 1
      /\ \A i \in 1..Len(followUps') : followUps'[i] = followUps[i + 1]
  BY HistoryTypes
<1>2. ASSUME NEW i \in Nat, NEW m \in Msgs, At(2, i, m)' PROVE At(2, i + 1, m)
  BY <1>1, <1>2 DEF At
<1>3. ASSUME NEW i \in Nat, NEW m \in Msgs, At(1, i, m)'
      PROVE  (i = e + 1 /\ At(2, 1, m)) \/ At(1, i, m)
  <2>1. i \in 1..(e + 1) /\ delivered'[i] = m
    BY <1>1, <1>3 DEF At
  <2>2. CASE i = e + 1
    BY <1>1, <2>1, <2>2 DEF At
  <2>3. CASE i # e + 1
    <3>1. i \in 1..e
      BY <2>1, <2>3
    <3> QED
      BY <1>1, <2>1, <3>1 DEF At
  <2> QED
    BY <2>2, <2>3
<1>4. ASSUME NEW k \in {3, 4}, NEW i \in Nat, NEW m \in Msgs PROVE At(k, i, m)' <=> At(k, i, m)
  BY DEF At
<1>5. ASSUME NEW k \in 1..4, NEW i \in Nat, NEW m \in Msgs, At(k, i, m)
      PROVE  \E h \in 1..4, j \in Nat : At(h, j, m)'
  <2>1. CASE k \in {3, 4}
    BY <1>4, <1>5, <2>1
  <2>2. CASE k = 1
    <3>1. At(1, i, m)'
      BY <1>1, <1>5, <2>2 DEF At
    <3> QED
      BY <3>1
  <2>3. CASE k = 2 /\ i = 1
    <3>1. At(1, e + 1, m)'
      BY <1>1, <1>5, <2>3 DEF At
    <3> QED
      BY <3>1
  <2>4. CASE k = 2 /\ i # 1
    <3>1. i - 1 \in 1..Len(followUps') /\ followUps'[i - 1] = m /\ i - 1 \in Nat
      BY <1>1, <1>5, <2>4 DEF At
    <3>2. At(2, i - 1, m)'
      BY <3>1 DEF At
    <3> QED
      BY <3>1, <3>2
  <2> QED
    BY <2>1, <2>2, <2>3, <2>4
<1>6. ASSUME NEW k \in 1..4, NEW i \in Nat, NEW m \in Msgs, At(k, i, m)'
      PROVE  \/ k = 1 /\ i = e + 1 /\ At(2, 1, m)
             \/ k = 2 /\ At(2, i + 1, m)
             \/ k # 2 /\ At(k, i, m)
  BY <1>2, <1>3, <1>4, <1>6
<1>7. \A i \in Nat, m \in Msgs : At(1, i, m) => i <= e
  BY DEF At
<1>8. \A a \in 1..Len(accepted) : accepted[a] \in Msgs
  BY HistoryTypes
<1>9. 1 \in 1..3 /\ 2 \in 2..4 /\ 2 = 1 + 1
  OBVIOUS
<1> QED
  BY <1>5, <1>6, <1>7, <1>8, <1>9, Moved

\* A follow-up is accepted: it is the newest and comes last.
LEMMA SendFollow ==
    ASSUME TypeInv, Fresh, Known, Placed, InLine,
           NEW c \in Callers, cpc[c] = "send", want[c].type = "followup",
           UNCHANGED <<delivered, followUps, cmds, dropped>>,
           queue' = Append(queue, want[c]), accepted' = Append(accepted, want[c].msg)
    PROVE  Known' /\ Placed' /\ InLine'
<1> PICK w \in Msgs : w = want[c].msg
  BY HistoryTypes DEF Command
<1> PICK e \in Nat : e = Len(queue)
  BY HistoryTypes
<1>1. /\ Len(queue') = e + 1 /\ queue'[e + 1] = want[c]
      /\ \A i \in 1..e : queue'[i] = queue[i]
  BY HistoryTypes
<1>2. /\ Len(accepted') = Len(accepted) + 1 /\ Len(accepted) \in Nat
      /\ accepted'[Len(accepted) + 1] = w
      /\ \A i \in 1..Len(accepted) : accepted'[i] = accepted[i]
  BY HistoryTypes
<1>3. \A a \in 1..Len(accepted) : accepted[a] # w
  BY DEF Fresh
<1>4. w \notin dropped
  BY <1>3 DEF Known
<1>5. ASSUME NEW k \in 1..4, NEW i \in Nat, NEW m \in Msgs
      PROVE  At(k, i, m)' <=> (k = 4 /\ i = e + 1 /\ m = w) \/ At(k, i, m)
  <2>1. CASE k # 4
    BY <2>1 DEF At
  <2>2. CASE k = 4
    <3>1. CASE i = e + 1
      BY <1>1, <2>2, <3>1 DEF At
    <3>2. CASE i # e + 1
      <4>1. i \in 1..(e + 1) <=> i \in 1..e
        BY <3>2
      <4> QED
        BY <1>1, <2>2, <3>2, <4>1 DEF At
    <3> QED
      BY <3>1, <3>2
  <2> QED
    BY <2>1, <2>2
<1>6. Known'
  <2>1. ASSUME NEW k \in 1..4, NEW i \in Nat, NEW m \in Msgs, At(k, i, m)'
        PROVE  m \notin dropped /\ \E a \in 1..Len(accepted') : accepted'[a] = m
    <3>1. CASE m = w
      BY <1>2, <1>4, <3>1
    <3>2. CASE m # w
      <4>1. At(k, i, m)
        BY <1>5, <2>1, <3>2
      <4>2. PICK a \in 1..Len(accepted) : accepted[a] = m
        BY <4>1 DEF Known
      <4>3. a \in 1..Len(accepted') /\ accepted'[a] = m
        BY <1>2, <4>2
      <4> QED
        BY <4>1, <4>3 DEF Known
    <3> QED
      BY <3>1, <3>2
  <2>2. ASSUME NEW m \in dropped PROVE \E a \in 1..Len(accepted') : accepted'[a] = m
    <3>1. PICK a \in 1..Len(accepted) : accepted[a] = m
      BY DEF Known
    <3>2. a \in 1..Len(accepted') /\ accepted'[a] = m
      BY <1>2, <3>1
    <3> QED
      BY <3>2
  <2> QED
    BY <2>1, <2>2 DEF Known
<1>7. Placed'
  <2>1. ASSUME NEW a \in 1..Len(accepted'), accepted'[a] \notin dropped
        PROVE  \E k \in 1..4, i \in Nat : At(k, i, accepted[a])'
    <3>1. CASE a = Len(accepted) + 1
      <4>1. At(4, e + 1, w)' /\ accepted'[a] = w
        BY <1>2, <1>5, <3>1
      <4> QED
        BY <4>1
    <3>2. CASE a # Len(accepted) + 1
      <4>1. a \in 1..Len(accepted) /\ accepted'[a] = accepted[a]
        BY <1>2, <3>2
      <4> PICK m \in Msgs : m = accepted[a]
        BY <4>1, HistoryTypes
      <4>2. PICK k \in 1..4, i \in Nat : At(k, i, m)
        BY <2>1, <4>1 DEF Placed
      <4>3. At(k, i, m)'
        BY <1>5, <4>2
      <4> QED
        BY <4>1, <4>3
    <3> QED
      BY <3>1, <3>2
  <2> QED
    BY <2>1 DEF Placed
<1>8. ASSUME NEW m, NEW n, AcceptedBefore(m, n) PROVE AcceptedBefore(m, n)'
  <2>1. PICK i \in 1..Len(accepted), j \in 1..Len(accepted) :
           i < j /\ accepted[i] = m /\ accepted[j] = n
    BY <1>8 DEF AcceptedBefore
  <2>2. i \in 1..Len(accepted') /\ j \in 1..Len(accepted')
    BY <1>2
  <2> QED
    BY <1>2, <2>1, <2>2 DEF AcceptedBefore
<1>9. ASSUME NEW k \in 1..4, NEW h \in 1..4, NEW i \in Nat, NEW j \in Nat,
             NEW m \in Msgs, NEW n \in Msgs, At(k, i, m)', At(h, j, n)', Ahead(k, i, h, j)
      PROVE  AcceptedBefore(m, n)'
  <2>1. h = 4 => j <= e + 1
    BY <1>1, <1>9 DEF At
  <2>2. ~(k = 4 /\ i = e + 1)
    BY <1>9, <2>1 DEF Ahead
  <2>3. At(k, i, m)
    BY <1>5, <1>9, <2>2
  <2>4. CASE At(h, j, n)
    BY <1>8, <1>9, <2>3, <2>4 DEF InLine
  <2>5. CASE n = w
    <3>1. PICK a \in 1..Len(accepted) : accepted[a] = m
      BY <2>3 DEF Known
    <3>2. /\ a \in 1..Len(accepted') /\ Len(accepted) + 1 \in 1..Len(accepted')
          /\ a < Len(accepted) + 1 /\ accepted'[a] = m
      BY <1>2, <3>1
    <3> QED
      BY <1>2, <2>5, <3>2 DEF AcceptedBefore
  <2> QED
    BY <1>5, <1>9, <2>4, <2>5
<1>10. InLine'
  BY <1>9 DEF InLine
<1> QED
  BY <1>6, <1>7, <1>10

\* Whatever does not touch the places leaves the follow-ups in line.
LEMMA FrameFollow ==
    ASSUME Known, Placed, InLine, UNCHANGED <<accepted, dropped, delivered, followUps, cmds>>,
           \A i \in Nat, m \in Msgs : At(4, i, m)' <=> At(4, i, m),
           \A a \in 1..Len(accepted) : accepted[a] \in Msgs
    PROVE  Known' /\ Placed' /\ InLine'
<1>1. ASSUME NEW k \in 1..4, NEW i \in Nat, NEW m \in Msgs PROVE At(k, i, m)' <=> At(k, i, m)
  <2>1. CASE k = 4
    BY <2>1
  <2>2. CASE k # 4
    BY <2>2 DEF At
  <2> QED
    BY <2>1, <2>2
<1>2. Known'
  <2>1. ASSUME NEW k \in 1..4, NEW i \in Nat, NEW m \in Msgs, At(k, i, m)'
        PROVE  m \notin dropped /\ \E a \in 1..Len(accepted) : accepted[a] = m
    BY <1>1, <2>1 DEF Known
  <2> QED
    BY <2>1 DEF Known
<1>3. Placed'
  BY <1>1 DEF Placed
<1>4. ASSUME NEW k \in 1..4, NEW h \in 1..4, NEW i \in Nat, NEW j \in Nat,
             NEW m \in Msgs, NEW n \in Msgs, At(k, i, m)', At(h, j, n)', Ahead(k, i, h, j)
      PROVE  AcceptedBefore(m, n)
  BY <1>1, <1>4 DEF InLine
<1>5. InLine'
  BY <1>4 DEF InLine, AcceptedBefore
<1> QED
  BY <1>2, <1>3, <1>5

\* Until a Stop begins no two loops are choosing, so no write is lost.
LEMMA NoRace ==
    ASSUME TypeInv, Ownership, ~StopBegun, NEW l \in Loops, lpc[l] = "choose"
    PROVE  ~Racing(l)
BY ControlTypes DEF Ownership, Racing

LEMMA NextFollow ==
    TypeInv /\ Ownership /\ Gathered /\ Fresh /\ FollowInv /\ [Next]_vars => FollowInv'
<1> SUFFICES ASSUME TypeInv, Ownership, Gathered, Fresh, FollowInv, [Next]_vars, ~StopBegun'
             PROVE  Known' /\ Placed' /\ InLine'
  BY DEF FollowInv
<1>1. ~StopBegun
  BY StopStays
<1>2. Known /\ Placed /\ InLine
  BY <1>1 DEF FollowInv
<1>3. \A a \in 1..Len(accepted) : accepted[a] \in Msgs
  BY HistoryTypes
<1>4. CASE UNCHANGED <<accepted, dropped, delivered, followUps, cmds, queue>>
  <2>1. \A i \in Nat, m \in Msgs : At(4, i, m)' <=> At(4, i, m)
    BY <1>4 DEF At
  <2>2. UNCHANGED <<accepted, dropped, delivered, followUps, cmds>>
    BY <1>4
  <2> QED
    BY <1>2, <1>3, <2>1, <2>2, FrameFollow
<1>5. ASSUME NEW c \in Callers, Send(c)
      PROVE  Known' /\ Placed' /\ InLine'
  <2>1. UNCHANGED <<delivered, followUps, cmds, dropped>> /\ cpc[c] = "send"
    BY <1>5 DEF Send, driverVars, loopVars
  <2>2. CASE UNCHANGED <<queue, accepted>>
    BY <1>4, <2>1, <2>2
  <2>3. CASE queue' = Append(queue, want[c]) /\ accepted' = Append(accepted, want[c].msg)
             /\ want[c].type = "followup"
    BY <1>2, <2>1, <2>3, SendFollow
  <2>4. CASE queue' = Append(queue, want[c]) /\ accepted' = accepted /\ want[c].type # "followup"
    <3>1. /\ Len(queue') = Len(queue) + 1 /\ queue'[Len(queue) + 1] = want[c]
          /\ \A i \in 1..Len(queue) : queue'[i] = queue[i]
          /\ Len(queue) \in Nat
      BY <2>1, <2>4, HistoryTypes
    <3>2. ASSUME NEW i \in Nat, NEW m \in Msgs PROVE At(4, i, m)' <=> At(4, i, m)
      <4>1. CASE i = Len(queue) + 1
        BY <2>4, <3>1, <4>1 DEF At
      <4>2. CASE i # Len(queue) + 1
        <5>1. i \in 1..Len(queue') <=> i \in 1..Len(queue)
          BY <3>1, <4>2
        <5> QED
          BY <3>1, <5>1 DEF At
      <4> QED
        BY <4>1, <4>2
    <3>3. UNCHANGED <<accepted, dropped, delivered, followUps, cmds>>
      BY <2>1, <2>4
    <3> QED
      BY <1>2, <1>3, <3>2, <3>3, FrameFollow
  <2> QED
    BY <1>5, <2>2, <2>3, <2>4 DEF Send
<1>6. ASSUME NEW l \in Loops, ApplyCommand(l)
      PROVE  Known' /\ Placed' /\ InLine'
  <2>1. /\ lpc[l] = "choose" /\ cmds[l] # <<>> /\ lpc[l] # "none"
        /\ UNCHANGED <<accepted, delivered, queue>>
    BY <1>6 DEF ApplyCommand, queueVars
  <2>2. ~Racing(l)
    BY <1>1, <2>1, NoRace
  <2>3. CASE Head(cmds[l]).type = "abort"
    <3>1. /\ UNCHANGED <<accepted, delivered, followUps, queue>>
          /\ cmds' = [cmds EXCEPT ![l] = <<>>]
          /\ dropped' = dropped \cup FollowUpsIn(cmds[l])
      BY <1>6, <2>1, <2>3 DEF ApplyCommand
    <3> QED
      BY <1>1, <1>2, <2>1, <3>1, AbortFollow
  <2>4. CASE Head(cmds[l]).type = "steer"
    <3>1. /\ UNCHANGED <<accepted, dropped, delivered, queue, followUps>>
          /\ cmds' = [cmds EXCEPT ![l] = Tail(@)]
      BY <1>6, <2>1, <2>4 DEF ApplyCommand
    <3> QED
      BY <1>1, <1>2, <2>1, <2>4, <3>1, ApplyFollow
  <2>5. CASE Head(cmds[l]).type = "followup"
    <3>1. /\ UNCHANGED <<accepted, dropped, delivered, queue>>
          /\ cmds' = [cmds EXCEPT ![l] = Tail(@)]
          /\ followUps' = Append(followUps, Head(cmds[l]).msg)
      BY <1>6, <2>1, <2>2, <2>5 DEF ApplyCommand, SetFollowUps
    <3> QED
      BY <1>1, <1>2, <2>1, <2>5, <3>1, ApplyFollow
  <2> QED
    BY <1>6, <2>3, <2>4, <2>5 DEF ApplyCommand
<1>7. ASSUME NEW l \in Loops, NextPrompt(l)
      PROVE  Known' /\ Placed' /\ InLine'
  <2>1. lpc[l] = "choose" /\ UNCHANGED <<accepted, dropped, cmds, queue>>
    BY <1>7 DEF NextPrompt, queueVars
  <2>2. ~Racing(l)
    BY <1>1, <2>1, NoRace
  <2>3. CASE UNCHANGED <<followUps, delivered>>
    BY <1>4, <2>1, <2>3
  <2>4. CASE ~UNCHANGED <<followUps, delivered>>
    <3>1. /\ followUps # <<>> /\ delivered' = Append(delivered, Head(followUps))
          /\ followUps' = Tail(followUps)
      BY <1>7, <2>2, <2>4 DEF NextPrompt, SetFollowUps
    <3> QED
      BY <1>2, <2>1, <3>1, NextPromptFollow
  <2> QED
    BY <2>3, <2>4
<1>8. ASSUME NEW l \in Loops, DrainOne(l)
      PROVE  Known' /\ Placed' /\ InLine'
  BY <1>1, <1>2, <1>8, DrainOneFollow
<1>9. ASSUME NEW c \in Callers, CallerStep(c) \/ CallerCalls(c), ~Send(c)
      PROVE  UNCHANGED <<accepted, dropped, delivered, followUps, cmds, queue>>
  BY <1>9 DEF CallerStep, CallerCalls, StartLock, StartTransition, StartUndo, StartDriver,
     StartFail, StartIdle, ContinueDriver, StopDriver, StopCancel, StopExit, StopClose,
     Prompt, Continue, Stop, Enqueue, Launch, driverVars, queueVars, loopVars, historyVars
<1>10. ASSUME NEW l \in Loops, LoopStep(l), ~ApplyCommand(l), ~NextPrompt(l), ~DrainOne(l)
       PROVE  UNCHANGED <<accepted, dropped, delivered, followUps, cmds, queue>>
  BY <1>10 DEF LoopStep, LoopTop, EnterStreaming, ProviderReplies, ProviderFails,
     EnterToolExecution, ExecuteTool, ToolPanics, MarkTurnCompleted, DrainEnd, ReturnToIdle,
     DeferDriver, OnDriverIdle, driverVars, queueVars, loopVars, historyVars
<1>11. CancelContext \/ UNCHANGED vars =>
          UNCHANGED <<accepted, dropped, delivered, followUps, cmds, queue>>
  BY DEF CancelContext, vars, driverVars, queueVars, loopVars, historyVars
<1> QED
  BY <1>4, <1>5, <1>6, <1>7, <1>8, <1>9, <1>10, <1>11 DEF Next

LEMMA InitFollow == Init => Fresh /\ Gathered /\ FollowInv
<1> SUFFICES ASSUME Init PROVE Fresh /\ Gathered /\ FollowInv
  OBVIOUS
<1>1. /\ accepted = <<>> /\ delivered = <<>> /\ followUps = <<>> /\ queue = <<>> /\ dropped = {}
      /\ cmds = [l \in Loops |-> <<>>] /\ cpc = [c \in Callers |-> "ready"]
  BY DEF Init
<1>2. Fresh
  BY <1>1 DEF Fresh
<1>3. Gathered
  BY <1>1 DEF Gathered
<1>4. \A k, i, m : ~At(k, i, m)
  BY <1>1 DEF At
<1>5. Known
  BY <1>1, <1>4 DEF Known
<1>6. Placed
  BY <1>1 DEF Placed
<1>7. InLine
  BY <1>4 DEF InLine
<1> QED
  BY <1>2, <1>3, <1>5, <1>6, <1>7 DEF FollowInv

LEMMA PendingIs ==
    ASSUME NEW stage, NEW s, NEW p
    PROVE  p \in PendingIn(stage, s) <=>
              \E i \in 1..Len(s) : s[i].type = "followup" /\ p = <<stage, i, s[i].msg>>
BY Zenon DEF PendingIn

\* The places of the property are those of the invariant.
LEMMA PlacesAre ==
    ASSUME TypeInv, NEW p
    PROVE  p \in Places <=> \E k \in 1..4, i \in Nat, m \in Msgs : At(k, i, m) /\ p = <<k, i, m>>
<1> DEFINE D == {<<1, i, delivered[i]>> : i \in 1..Len(delivered)}
           F == {<<2, i, followUps[i]>> : i \in 1..Len(followUps)}
           C == UNION {PendingIn(3, cmds[l]) : l \in Loops}
           Q == PendingIn(4, queue)
<1>0. Places = D \cup F \cup C \cup Q
  BY DEF Places
<1>1. p \in Places =>
         \/ \E i \in 1..Len(delivered) : p = <<1, i, delivered[i]>>
         \/ \E i \in 1..Len(followUps) : p = <<2, i, followUps[i]>>
         \/ \E l \in Loops : \E i \in 1..Len(cmds[l]) :
               cmds[l][i].type = "followup" /\ p = <<3, i, cmds[l][i].msg>>
         \/ \E i \in 1..Len(queue) : queue[i].type = "followup" /\ p = <<4, i, queue[i].msg>>
  <2>1. CASE p \in D \/ p \in F
    BY <2>1
  <2>2. CASE p \in C
    <3>1. PICK l \in Loops : p \in PendingIn(3, cmds[l])
      BY <2>2, Zenon
    <3> QED
      BY <3>1, PendingIs
  <2>3. CASE p \in Q
    BY <2>3, PendingIs
  <2> HIDE DEF D, F, C, Q
  <2>4. p \in Places => p \in D \/ p \in F \/ p \in C \/ p \in Q
    BY <1>0
  <2> QED
    BY <2>1, <2>2, <2>3, <2>4
<1>2. /\ \A i \in 1..Len(delivered) : <<1, i, delivered[i]>> \in Places
      /\ \A i \in 1..Len(followUps) : <<2, i, followUps[i]>> \in Places
      /\ \A l \in Loops : \A i \in 1..Len(cmds[l]) :
            cmds[l][i].type = "followup" => <<3, i, cmds[l][i].msg>> \in Places
      /\ \A i \in 1..Len(queue) :
            queue[i].type = "followup" => <<4, i, queue[i].msg>> \in Places
  <2>0. ASSUME NEW x, x \in C \/ x \in Q PROVE x \in Places
    <3> HIDE DEF D, F, C, Q
    <3> QED
      BY <1>0, <2>0
  <2>1. ASSUME NEW l \in Loops, NEW x \in PendingIn(3, cmds[l]) PROVE x \in Places
    BY <2>0, <2>1, Zenon
  <2>2. ASSUME NEW x \in PendingIn(4, queue) PROVE x \in Places
    BY <2>0, <2>2, Zenon
  <2>3. /\ \A i \in 1..Len(delivered) : <<1, i, delivered[i]>> \in Places
        /\ \A i \in 1..Len(followUps) : <<2, i, followUps[i]>> \in Places
    BY Zenon DEF Places
  <2> QED
    BY <2>1, <2>2, <2>3, PendingIs
<1>3. /\ \A i \in 1..Len(delivered) : i \in Nat /\ delivered[i] \in Msgs
      /\ \A i \in 1..Len(followUps) : i \in Nat /\ followUps[i] \in Msgs
      /\ \A l \in Loops : \A i \in 1..Len(cmds[l]) : i \in Nat /\ cmds[l][i] \in Command
      /\ \A i \in 1..Len(queue) : i \in Nat /\ queue[i] \in Command
  BY HistoryTypes
<1>4. \A x \in Command : x.msg \in Msgs
  BY DEF Command
<1>5. ASSUME NEW k \in 1..4, NEW i \in Nat, NEW m \in Msgs, At(k, i, m) PROVE <<k, i, m>> \in Places
  BY <1>2, <1>5 DEF At
<1>6. ASSUME p \in Places
      PROVE  \E k \in 1..4, i \in Nat, m \in Msgs : At(k, i, m) /\ p = <<k, i, m>>
  <2>1. ASSUME NEW i \in 1..Len(delivered) PROVE At(1, i, delivered[i])
    BY DEF At
  <2>2. ASSUME NEW i \in 1..Len(followUps) PROVE At(2, i, followUps[i])
    BY DEF At
  <2>3. ASSUME NEW l \in Loops, NEW i \in 1..Len(cmds[l]), cmds[l][i].type = "followup"
        PROVE  At(3, i, cmds[l][i].msg)
    BY <2>3 DEF At
  <2>4. ASSUME NEW i \in 1..Len(queue), queue[i].type = "followup" PROVE At(4, i, queue[i].msg)
    BY <2>4 DEF At
  <2>5. 1 \in 1..4 /\ 2 \in 1..4 /\ 3 \in 1..4 /\ 4 \in 1..4
    OBVIOUS
  <2> QED
    BY <1>1, <1>3, <1>4, <1>6, <2>1, <2>2, <2>3, <2>4, <2>5
<1> QED
  BY <1>5, <1>6

LEMMA FollowIsOrder ==
    ASSUME TypeInv, Fresh, FollowInv
    PROVE  FollowUpOrder
<1> SUFFICES ASSUME Known, Placed, InLine
             PROVE  /\ {p[3] : p \in Places} = {accepted[i] : i \in 1..Len(accepted)} \ dropped
                    /\ \A p, q \in Places : p[3] = q[3] => p = q
                    /\ \A p, q \in Places :
                          p[1] < q[1] \/ (p[1] = q[1] /\ p[2] < q[2]) => AcceptedBefore(p[3], q[3])
  BY DEF FollowInv, FollowUpOrder
<1>1. ASSUME NEW p \in Places
      PROVE  /\ p[1] \in 1..4 /\ p[2] \in Nat /\ p[3] \in Msgs /\ At(p[1], p[2], p[3])
             /\ p = <<p[1], p[2], p[3]>>
  <2>1. PICK k \in 1..4, i \in Nat, m \in Msgs : At(k, i, m) /\ p = <<k, i, m>>
    BY PlacesAre
  <2>2. p[1] = k /\ p[2] = i /\ p[3] = m
    BY <2>1
  <2> QED
    BY <2>1, <2>2
<1>2. ASSUME NEW p \in Places, NEW q \in Places, p[1] < q[1] \/ (p[1] = q[1] /\ p[2] < q[2])
      PROVE  AcceptedBefore(p[3], q[3])
  BY <1>1, <1>2 DEF InLine, Ahead
<1>3. ASSUME NEW p \in Places, NEW q \in Places, p[3] = q[3]
      PROVE  p = q
  <2>1. ~AcceptedBefore(p[3], q[3]) /\ ~AcceptedBefore(q[3], p[3])
    BY <1>3, BeforeOnce
  <2>2. p[1] \in 1..4 /\ p[2] \in Nat /\ q[1] \in 1..4 /\ q[2] \in Nat
    BY <1>1
  <2>3. p[1] = q[1] /\ p[2] = q[2]
    BY <1>2, <2>1, <2>2
  <2> QED
    BY <1>1, <1>3, <2>3
<1>4. ASSUME NEW p \in Places
      PROVE  p[3] \in {accepted[i] : i \in 1..Len(accepted)} \ dropped
  BY <1>1 DEF Known
<1>5. ASSUME NEW a \in 1..Len(accepted), accepted[a] \notin dropped
      PROVE  \E p \in Places : p[3] = accepted[a]
  <2> PICK m \in Msgs : m = accepted[a]
    BY HistoryTypes
  <2>1. PICK k \in 1..4, i \in Nat : At(k, i, m)
    BY <1>5 DEF Placed
  <2>2. <<k, i, m>> \in Places
    BY <2>1, PlacesAre
  <2>3. <<k, i, m>>[3] = accepted[a]
    OBVIOUS
  <2> QED
    BY <2>2, <2>3
<1>6. {p[3] : p \in Places} = {accepted[i] : i \in 1..Len(accepted)} \ dropped
  <2>1. ASSUME NEW x PROVE x \in {p[3] : p \in Places} <=>
                              x \in {accepted[i] : i \in 1..Len(accepted)} \ dropped
    BY <1>4, <1>5
  <2> QED
    BY <2>1
<1> QED
  BY <1>2, <1>3, <1>6

\* Until a Stop begins, the follow-ups that FollowUp has accepted are delivered in
\* the order of acceptance, none twice and none lost but by an abort, through the
\* channel, the drained batch and the driver's list (nextPromptFromControlQueue).
THEOREM FollowUpsInOrder == Spec => []FollowUpOrder
<1>1. Init => TypeInv /\ Ownership /\ Gathered /\ Fresh /\ FollowInv
  BY TypeInit, InitFollow DEF Init, Ownership
<1>2. /\ TypeInv /\ Ownership /\ Gathered /\ Fresh /\ FollowInv /\ [Next]_vars
      => (TypeInv /\ Ownership /\ Gathered /\ Fresh /\ FollowInv)'
  BY TypeStep, OwnershipStep, NextGathered, NextFresh, NextFollow
<1>3. TypeInv /\ Ownership /\ Gathered /\ Fresh /\ FollowInv => FollowUpOrder
  BY FollowIsOrder
<1> QED
  BY <1>1, <1>2, <1>3, PTL DEF Spec
=============================================================================
