------------------------------ MODULE Termmux -------------------------------
(***************************************************************************)
(* One session of internal/termmux under internal/agent's termmux adapter: *)
(* the child in its PTY, the goroutine that pipes its output to scrollback *)
(* and subscribers, the terminal streams of the RPC server, the agent      *)
(* monitor with its idle timer, the drivers that turn a CLI's hooks and    *)
(* telemetry into monitor events, and the session log tailer.              *)
(*                                                                         *)
(* A step is one critical section or one channel operation.  Output is     *)
(* bytes, numbered in the order the child writes them.                     *)
(***************************************************************************)
EXTENDS Integers, Sequences, FiniteSets, SequencesExt

CONSTANTS
    Streams,      \* TerminalServer.StreamTerminal calls, each with an ID of its own
    RingCap,      \* maxScrollbackBytes
    SnapMax,      \* MaxScrollbackSnapshotBytes
    SubCap,       \* SubscriptionBufferSize
    ChunkSizes,   \* the sizes of a read from the PTY
    EventCap,     \* defaultEventBufferSize, and the adapter's channel
    Workloads,    \* what happens in one behaviour: subsets of
                  \* {"output", "agent", "idle", "stop", "log"}
    LineMax,      \* the longest line of the log the scanner takes, with its newline
    MaxBytes,     \* bound: bytes of output, bytes of the log
    MaxLines,     \* bound: lines of the log handed on before the last poll
    MaxEvents     \* bound: hooks and telemetry records of the CLI

ASSUME TermmuxAssumption ==
    /\ {RingCap, SnapMax, SubCap, EventCap} \subseteq Nat \ {0}
    /\ SnapMax <= RingCap
    /\ ChunkSizes \subseteq Nat \ {0}
    /\ {LineMax, MaxBytes, MaxLines, MaxEvents} \subseteq Nat

VARIABLES
    ad,       \* TermmuxDriverAdapter: lifecycle, forwarder, whether its subscribers saw the end
    ses,      \* Session
    child,    \* external: the child process
    vt,       \* VirtualTerminal: the PTY, the exit as noticed
    ring,     \* scrollbackBuffer
    out,      \* external: bytes written so far
    pipe,     \* the output goroutine
    stop,     \* the calls of Session.Stop: by the adapter, by the context watcher
    stream,   \* the terminal streams with their subscriptions
    mon,      \* AgentMonitor
    idle,     \* the idle timer's callback: not running, started, to fan out
    cli,      \* external: events so far; and the driver's EventHandler
    log,      \* the log file and the tailer: what Start keeps, the lines handed on,
              \* the locals of a poll; history: truncated, and again (see PollEnd)
    early,    \* history: Session.Stop ran before the child had been started
    workload

vars == <<ad, ses, child, vt, ring, out, pipe, stop, stream, mon, idle, cli, log, early, workload>>

session == <<ad, ses, child, vt, stop, early>>

terminal == <<ring, out, pipe, stream>>

events == <<mon, idle, cli>>

Stoppers == {"adapter", "watcher"}

\* NewSession, NewAgentMonitor, NewTermmuxDriverAdapter, sessionlog.New.
Init ==
    /\ ad = [pc |-> "new", stopped |-> FALSE, subbed |-> FALSE, fwd |-> "none", ctx |-> FALSE,
             q |-> <<>>, ended |-> FALSE, lost |-> FALSE]
    /\ ses = [started |-> FALSE, stopped |-> FALSE, ctx |-> FALSE, exit |-> FALSE,
              cleaned |-> FALSE]
    /\ child = "none"
    /\ vt = [ptm |-> "none", exited |-> FALSE]
    /\ ring = [buf |-> [i \in 0..(RingCap - 1) |-> 0], head |-> 0, size |-> 0, written |-> 0]
    /\ out = 0
    /\ pipe = [pc |-> "none", chunk |-> <<>>]
    /\ stop = [w \in Stoppers |-> "none"]
    /\ stream = [u \in Streams |-> [pc |-> "none", scroll |-> <<>>, q |-> <<>>, got |-> <<>>,
                                    done |-> FALSE, last |-> 0]]
    /\ mon = [q |-> <<>>, state |-> "initialized", sub |-> "", timer |-> FALSE,
              loop |-> "run", closed |-> FALSE, todo |-> <<>>]
    /\ idle = "none"
    /\ cli = [n |-> 0, turn |-> 0]
    /\ log = [file |-> <<>>, offset |-> 0, partial |-> <<>>, lines |-> <<>>,
              pc |-> "idle", size |-> 0, pos |-> 0, rest |-> <<>>,
              truncated |-> FALSE, again |-> FALSE]
    /\ early = FALSE
    /\ workload \in Workloads

----------------------------------------------------------------------------
(* AgentMonitor *)

\* Submit drops the event when the buffer is full.
Submitted(m, e) == IF Len(m.q) < EventCap THEN [m EXCEPT !.q = Append(@, e)] ELSE m

\* transition: the state and sub-state after an event, or the same ones.
Transition(state, sub, e) ==
    CASE e = "session_started" /\ state = "initialized" -> <<"active", "thinking">>
      [] e = "tool_started" /\ state = "active" /\ sub \in {"thinking", ""} -> <<"active", "tool_use">>
      [] e = "tool_completed" /\ state = "active" /\ sub = "tool_use" -> <<"active", "thinking">>
      [] e = "approval_requested" /\ state = "active" /\ sub = "thinking" -> <<"active", "waiting">>
      [] e = "permission_granted" /\ state = "active" /\ sub = "waiting" -> <<"active", "tool_use">>
      [] e = "permission_denied" /\ state = "active" /\ sub = "waiting" -> <<"active", "thinking">>
      [] e = "compaction_started" /\ state = "active" /\ sub = "thinking" -> <<"active", "compacting">>
      [] e = "compaction_completed" /\ state = "active" /\ sub = "compacting" -> <<"active", "thinking">>
      [] e = "idle_timeout" /\ state = "active" -> <<"idle", "">>
      [] e = "activity" /\ state = "idle" -> <<"active", "thinking">>
      [] e = "session_ended" /\ state \in {"active", "idle"} -> <<"exited", "">>
      [] OTHER -> <<state, sub>>

Transitions == {"session_started", "session_ended", "tool_started", "tool_completed",
                "approval_requested", "permission_granted", "permission_denied",
                "compaction_started", "compaction_completed"}

\* updateState: an event without a transition of its own restarts the timer of
\* an active monitor and wakes an idle one.
updateState(m, e) ==
    LET te == IF e \in Transitions THEN e ELSE "activity"
        to == Transition(m.state, m.sub, te)
        changed == to # <<m.state, m.sub>> IN
    [m EXCEPT !.state = to[1], !.sub = to[2],
              !.timer = CASE changed /\ to[1] = "active" -> TRUE
                          [] changed /\ to[1] # "active" -> FALSE
                          [] te = "activity" /\ m.state = "active" -> TRUE
                          [] OTHER -> @,
              !.todo = IF changed THEN <<to[1], e>> ELSE <<e>>]

\* processLoop takes an event: the state first, then the fan-out, before which
\* the callback of the timer may run.
ProcessEvent ==
    /\ mon.loop = "run" /\ mon.q # <<>> /\ mon.todo = <<>>
    /\ mon' = updateState([mon EXCEPT !.q = Tail(@)], Head(mon.q))
    /\ UNCHANGED <<session, terminal, idle, cli, log, workload>>

\* fanOut: the adapter's channel takes the event or, full, loses it.
FannedOut(e) ==
    ad' = CASE ~ad.subbed -> ad
            [] ad.subbed /\ Len(ad.q) < EventCap -> [ad EXCEPT !.q = Append(@, e)]
            [] OTHER -> [ad EXCEPT !.lost = TRUE]

FanOutEvent ==
    /\ mon.todo # <<>>
    /\ FannedOut(Head(mon.todo))
    /\ mon' = [mon EXCEPT !.todo = Tail(@)]
    /\ UNCHANGED <<ses, child, vt, stop, early, terminal, idle, cli, log, workload>>

\* Mutant: the loop ends with done, whatever is left in the channel.
ProcessLoopEndsUndrained ==
    /\ mon.loop = "run" /\ mon.closed /\ mon.todo = <<>>
    /\ mon' = [mon EXCEPT !.loop = "ended", !.timer = FALSE]
    /\ UNCHANGED <<session, terminal, idle, cli, log, workload>>

\* done is closed: the loop drains the events that are left, and ends.
ProcessLoopEnds ==
    /\ mon.loop = "run" /\ mon.closed /\ mon.q = <<>> /\ mon.todo = <<>>
    /\ mon' = [mon EXCEPT !.loop = "ended", !.timer = FALSE]
    /\ UNCHANGED <<session, terminal, idle, cli, log, workload>>

\* The timer fires: from here on Stop cannot prevent its callback.
IdleTimerFires ==
    /\ "idle" \in workload /\ mon.timer /\ idle = "none"
    /\ mon' = [mon EXCEPT !.timer = FALSE]
    /\ idle' = "started"
    /\ UNCHANGED <<session, terminal, cli, log, workload>>

IdleTimeout ==
    LET to == Transition(mon.state, mon.sub, "idle_timeout") IN
    /\ idle = "started"
    /\ mon' = [mon EXCEPT !.state = to[1], !.sub = to[2]]
    /\ idle' = IF mon.state = "active" THEN "fan" ELSE "none"
    /\ UNCHANGED <<session, terminal, cli, log, workload>>

IdleFanOut ==
    /\ idle = "fan"
    /\ FannedOut("idle")
    /\ idle' = "none"
    /\ UNCHANGED <<ses, child, vt, stop, early, terminal, mon, cli, log, workload>>

----------------------------------------------------------------------------
(* The drivers: hooks and telemetry of the CLI *)

\* claudecode HandleHookEvent.
HookEvents(hook) ==
    CASE hook = "PreToolUse" -> <<"tool_started">>
      [] hook = "PostToolUse" -> <<"tool_completed">>
      [] hook = "PermissionRequest" -> <<"approval_requested">>
      [] hook = "granted" -> <<"permission_granted">>
      [] hook = "denied" -> <<"permission_denied">>
      [] hook = "PreCompact" -> <<"compaction_started">>
      [] hook = "SessionStart" -> <<"session_started">>
      [] hook = "SessionEnd" -> <<"session_ended">>
      [] OTHER -> <<>>

Hooks == {"PreToolUse", "PostToolUse", "PermissionRequest", "granted", "denied", "PreCompact"}

CliEvent(es) ==
    /\ "agent" \in workload /\ child = "alive" /\ cli.n < MaxEvents
    /\ mon' = FoldLeft(Submitted, mon, es)
    /\ UNCHANGED <<session, terminal, idle, log, workload>>

HandleHookEvent(hook) ==
    /\ CliEvent(HookEvents(hook))
    /\ cli' = [cli EXCEPT !.n = @ + 1]

\* claudecode handleAPIRequest: a turn is reported once, however often its
\* record comes in a row.  codex handleTurnComplete reports every one.
HandleAPIRequest(turn) ==
    /\ CliEvent(IF turn = cli.turn THEN <<>> ELSE <<"turn_completed">>)
    /\ cli' = [cli EXCEPT !.n = @ + 1, !.turn = turn]

\* handleToolResult, and codex's tool_complete and tool_execution records, report
\* a completion whether or not a hook already did.
HandleToolResult ==
    /\ CliEvent(<<"tool_completed">>)
    /\ cli' = [cli EXCEPT !.n = @ + 1]

\* HandleSessionLogLine; and codex's idle callback, whose event of no type the
\* monitor takes for activity too.
HandleMessage ==
    /\ CliEvent(<<"agent_message">>)
    /\ cli' = [cli EXCEPT !.n = @ + 1]

----------------------------------------------------------------------------
(* TermmuxDriverAdapter and Session: start *)

\* In a behaviour about the log file alone the session is not used.
Started == workload # {"log"}

\* A session starts once, and not after it was stopped.
SessionStart ==
    /\ ~ses.stopped /\ ~ses.started
    /\ ses' = [ses EXCEPT !.started = TRUE]

\* The PTY runs: the session reports its start and starts its output goroutine.
StartGoroutines ==
    /\ mon' = Submitted(mon, "session_started")
    /\ pipe' = [pipe EXCEPT !.pc = "read"]

\* Start: the adapter is marked started, then the session, unless it was stopped.
AdapterStart ==
    /\ ad.pc = "new" /\ Started
    /\ \/ SessionStart /\ ad' = [ad EXCEPT !.pc = "pty"]
       \/ (ses.stopped \/ ses.started) /\ ad' = [ad EXCEPT !.pc = "failed"] /\ ses' = ses
    /\ UNCHANGED <<child, vt, stop, early, terminal, events, log, workload>>

\* StartPTY; on success the session reports its start and starts its goroutines.
StartPTY ==
    /\ ad.pc = "pty"
    /\ \/ /\ ad' = [ad EXCEPT !.pc = "subscribe"]
          /\ child' = "alive"
          /\ vt' = [ptm |-> "open", exited |-> FALSE]
          /\ StartGoroutines
       \/ /\ ad' = [ad EXCEPT !.pc = "failed"]
          /\ UNCHANGED <<child, vt, mon, pipe>>
    /\ UNCHANGED <<ses, stop, early, ring, out, stream, idle, cli, log, workload>>

\* The adapter subscribes to the monitor, starts the forwarder and reports the start.
SubscribeMonitor ==
    /\ ad.pc = "subscribe"
    /\ ad' = [ad EXCEPT !.pc = "started", !.subbed = TRUE, !.fwd = "run"]
    /\ UNCHANGED <<ses, child, vt, stop, early, terminal, events, log, workload>>

\* The forwarder hands on an event, or returns when the adapter's context ended.
Forward ==
    /\ ad.fwd = "run"
    /\ \/ /\ ad.q # <<>>
          /\ ad' = [ad EXCEPT !.q = Tail(@), !.ended = @ \/ Head(ad.q) = "session_ended"]
       \/ /\ ad.ctx
          /\ ad' = [ad EXCEPT !.fwd = "done", !.subbed = FALSE]
    /\ UNCHANGED <<ses, child, vt, stop, early, terminal, events, log, workload>>

----------------------------------------------------------------------------
(* Session: stop *)

\* Adapter.Stop, also reached through SessionManager.Kill and Shutdown.
AdapterStop ==
    /\ "stop" \in workload /\ ~ad.stopped
    /\ ad' = [ad EXCEPT !.stopped = TRUE]
    /\ stop' = [stop EXCEPT !["adapter"] = "stop"]
    /\ UNCHANGED <<ses, child, vt, early, terminal, events, log, workload>>

\* The caller of Start cancels the context it gave: the adapter's and the
\* session's contexts are derived from it.
ContextCancelled ==
    /\ "stop" \in workload /\ ad.pc # "new" /\ ~ad.ctx
    /\ ad' = [ad EXCEPT !.ctx = TRUE]
    /\ ses' = [ses EXCEPT !.ctx = TRUE]
    /\ UNCHANGED <<child, vt, stop, early, terminal, events, log, workload>>

\* The watcher Session.Start leaves behind: its context ended, or the child.
Watch ==
    /\ stop["watcher"] = "none" /\ pipe.pc # "none"
    /\ \/ ses.ctx /\ stop' = [stop EXCEPT !["watcher"] = "stop"]
       \/ ses.exit /\ stop' = [stop EXCEPT !["watcher"] = "clean"]
    /\ UNCHANGED <<ad, ses, child, vt, early, terminal, events, log, workload>>

\* Session.Stop: once, and with an interrupt if there is a child by now.  A second
\* Stop only cleans up: it returns while the first one may still wait for the child.
SessionStop(w) ==
    /\ stop[w] = "stop"
    /\ stop' = [stop EXCEPT ![w] = CASE ses.stopped -> "clean"
                                     [] ~ses.stopped /\ child # "none" -> "interrupt"
                                     [] OTHER -> "kill"]
    /\ ses' = [ses EXCEPT !.stopped = TRUE]
    /\ child' \in IF ~ses.stopped /\ child = "alive" THEN {"alive", "dead"} ELSE {child}
    /\ early' = (early \/ (~ses.stopped /\ child = "none" /\ ses.started))
    /\ UNCHANGED <<ad, vt, terminal, events, log, workload>>

\* Mutant: after the interrupt the call waits, and kills nothing.
KillChildNever(w) ==
    /\ stop[w] = "kill"
    /\ stop' = [stop EXCEPT ![w] = "wait"]
    /\ UNCHANGED <<ad, ses, child, vt, early, terminal, events, log, workload>>

\* The child exits within 3 s, or is killed.
WaitInterrupted(w) ==
    /\ stop[w] = "interrupt"
    /\ stop' = [stop EXCEPT ![w] = IF ses.exit THEN "clean" ELSE "kill"]
    /\ UNCHANGED <<ad, ses, child, vt, early, terminal, events, log, workload>>

KillChild(w) ==
    /\ stop[w] = "kill"
    /\ child' = IF child = "alive" /\ ~vt.exited THEN "dead" ELSE child
    /\ stop' = [stop EXCEPT ![w] = "wait"]
    /\ UNCHANGED <<ad, ses, vt, early, terminal, events, log, workload>>

\* The exit is noticed, or 5 s pass.
WaitKilled(w) ==
    /\ stop[w] = "wait"
    /\ stop' = [stop EXCEPT ![w] = "clean"]
    /\ UNCHANGED <<ad, ses, child, vt, early, terminal, events, log, workload>>

\* cleanup, once: the PTY, the subscribers, the monitor, the context.  Then the
\* adapter's own context.
Cleanup(w) ==
    /\ stop[w] = "clean"
    /\ IF ses.cleaned THEN UNCHANGED <<ses, vt, stream, mon>>
       ELSE /\ ses' = [ses EXCEPT !.cleaned = TRUE, !.ctx = TRUE]
            /\ vt' = [vt EXCEPT !.ptm = IF @ = "open" THEN "closed" ELSE @]
            /\ stream' = [u \in Streams |->
                             IF stream[u].pc = "live" THEN [stream[u] EXCEPT !.done = TRUE]
                                                      ELSE stream[u]]
            /\ mon' = [mon EXCEPT !.closed = TRUE]
    /\ stop' = [stop EXCEPT ![w] = "done"]
    /\ ad' = IF w = "adapter" THEN [ad EXCEPT !.ctx = TRUE] ELSE ad
    /\ UNCHANGED <<child, early, ring, out, pipe, idle, cli, log, workload>>

\* external: the child ends.  A write to its PTY that times out kills it too.
ChildExits ==
    /\ child = "alive"
    /\ child' = "dead"
    /\ UNCHANGED <<ad, ses, vt, stop, early, terminal, events, log, workload>>

----------------------------------------------------------------------------
(* PipeOutput *)

\* scrollbackBuffer.Write: data is copied in from head, wrapping around.
RingWrite(r, data) ==
    LET n == Len(data)
        last == data[n] IN
    IF n >= RingCap
    THEN [buf |-> [i \in 0..(RingCap - 1) |-> data[n - RingCap + i + 1]], head |-> 0,
          size |-> RingCap, written |-> last]
    ELSE [buf |-> [i \in 0..(RingCap - 1) |->
                      LET k == (i - r.head + RingCap) % RingCap IN
                      IF k < n THEN data[k + 1] ELSE r.buf[i]],
          head |-> (r.head + n) % RingCap,
          size |-> IF r.size + n > RingCap THEN RingCap ELSE r.size + n,
          written |-> last]

\* scrollbackBuffer.Snapshot: the last bytes, at most SnapMax.
Snapshot(r) ==
    LET take == IF r.size > SnapMax THEN SnapMax ELSE r.size
        start == (r.head - take + RingCap) % RingCap IN
    [i \in 1..take |-> r.buf[(start + i - 1) % RingCap]]

ReadOutput(n) ==
    /\ "output" \in workload
    /\ pipe.pc = "read" /\ child = "alive" /\ vt.ptm = "open" /\ out + n <= MaxBytes
    /\ out' = out + n
    /\ pipe' = [pc |-> "scrollback", chunk |-> [i \in 1..n |-> out + i]]
    /\ UNCHANGED <<session, ring, stream, events, log, workload>>

AppendScrollback ==
    /\ pipe.pc = "scrollback"
    /\ ring' = RingWrite(ring, pipe.chunk)
    /\ pipe' = [pipe EXCEPT !.pc = "fan"]
    /\ UNCHANGED <<session, out, stream, events, log, workload>>

\* terminalSubscribers.FanOut: a full subscription loses its oldest chunk.
Pushed(s, chunk) ==
    [s EXCEPT !.q = IF Len(@) < SubCap THEN Append(@, chunk) ELSE Append(Tail(@), chunk),
              !.last = chunk[Len(chunk)]]

FanOut ==
    /\ pipe.pc = "fan"
    /\ stream' = [u \in Streams |-> IF stream[u].pc = "live" /\ ~stream[u].done
                                    THEN Pushed(stream[u], pipe.chunk) ELSE stream[u]]
    /\ pipe' = [pc |-> "read", chunk |-> <<>>]
    /\ UNCHANGED <<session, ring, out, events, log, workload>>

\* The read fails, the child having exited or the PTY being closed, and Wait
\* returned: the session is stopped, reports its end, and closes exitNotify.
PipeEnds ==
    /\ pipe.pc = "read" /\ child = "dead"
    /\ vt' = [vt EXCEPT !.exited = TRUE]
    /\ ses' = [ses EXCEPT !.stopped = TRUE]
    /\ pipe' = [pipe EXCEPT !.pc = "ended"]
    /\ UNCHANGED <<ad, child, stop, early, ring, out, stream, events, log, workload>>

SubmitEnded ==
    /\ pipe.pc = "ended"
    /\ mon' = Submitted(mon, "session_ended")
    /\ pipe' = [pipe EXCEPT !.pc = "notify"]
    /\ UNCHANGED <<session, ring, out, stream, idle, cli, log, workload>>

ExitNotify ==
    /\ pipe.pc = "notify"
    /\ ses' = [ses EXCEPT !.exit = TRUE]
    /\ pipe' = [pipe EXCEPT !.pc = "done"]
    /\ UNCHANGED <<ad, child, vt, stop, early, ring, out, stream, events, log, workload>>

----------------------------------------------------------------------------
(* TerminalServer.StreamTerminal *)

\* SubscribeTerminal takes the scrollback under the terminal's lock ...
SnapshotScrollback(u) ==
    /\ "output" \in workload /\ stream[u].pc = "none"
    /\ stream' = [stream EXCEPT ![u].pc = "snapped", ![u].scroll = Snapshot(ring)]
    /\ UNCHANGED <<session, ring, out, pipe, events, log, workload>>

\* ... and registers under another.
Register(u) ==
    /\ stream[u].pc = "snapped"
    /\ stream' = [stream EXCEPT ![u].pc = "live"]
    /\ UNCHANGED <<session, ring, out, pipe, events, log, workload>>

\* outputPump: a chunk goes to the client, or the subscription is over, whatever
\* is still queued; then it unsubscribes.
OutputPump(u) ==
    /\ stream[u].pc = "live"
    /\ \/ /\ stream[u].q # <<>>
          /\ stream' = [stream EXCEPT ![u].q = Tail(@), ![u].got = @ \o Head(stream[u].q)]
       \/ /\ stream[u].done
          /\ stream' = [stream EXCEPT ![u].pc = "over"]
    /\ UNCHANGED <<session, ring, out, pipe, events, log, workload>>

\* The client's context ended.
StreamCancelled(u) ==
    /\ stream[u].pc = "live"
    /\ stream' = [stream EXCEPT ![u].pc = "over"]
    /\ UNCHANGED <<session, ring, out, pipe, events, log, workload>>

----------------------------------------------------------------------------
(* sessionlog.Tailer.  The file is newlines, 0, and numbered other bytes; its *)
(* writers end lines with a newline alone (the scanner would strip a carriage *)
(* return before it without counting it).                                     *)

WriteLog(b) ==
    /\ "log" \in workload /\ Len(log.file) < MaxBytes
    /\ log' = [log EXCEPT !.file = Append(@, b)]
    /\ UNCHANGED <<session, terminal, events, workload>>

TruncateLog ==
    /\ "log" \in workload /\ log.file # <<>> /\ ~log.truncated
    /\ log' = [log EXCEPT !.file = <<>>, !.truncated = TRUE]
    /\ UNCHANGED <<session, terminal, events, workload>>

\* A poll: the size is taken first; a smaller one than before means truncated, the
\* same one that there is nothing to read.  Bound: no poll after MaxLines lines.
Poll ==
    LET size == Len(log.file)
        cut == size < log.offset
        from == IF cut THEN 0 ELSE log.offset
        rest == IF cut THEN <<>> ELSE log.partial IN
    /\ "log" \in workload /\ log.pc = "idle" /\ Len(log.lines) < MaxLines
    /\ IF size = from
       THEN cut /\ log' = [log EXCEPT !.offset = from, !.partial = rest]
       ELSE log' = [log EXCEPT !.pc = "scan", !.size = size, !.pos = from, !.rest = rest]
    /\ UNCHANGED <<session, terminal, events, workload>>

\* The line that starts after pos ends with a newline at e or, at the end of the
\* file as it is by now, is the last the scanner has, complete or not.
LineEnds ==
    {e \in (log.pos + 1)..(Len(log.file) + 1) :
        /\ e <= Len(log.file) => log.file[e] = 0
        /\ \A i \in (log.pos + 1)..(e - 1) : log.file[i] # 0}

\* Mutant: what follows the last newline is not handed on, but skipped.
ScanLineDropsRest ==
    /\ log.pc = "scan" /\ log.pos < Len(log.file)
    /\ \E e \in LineEnds :
        log' = IF e <= Len(log.file)
               THEN [log EXCEPT !.lines = Append(@, SubSeq(log.file, log.pos + 1, e - 1)), !.pos = e]
               ELSE [log EXCEPT !.pos = e, !.pc = "eof"]
    /\ UNCHANGED <<session, terminal, events, workload>>

\* scanner.Scan hands on a line after what the last poll left over, or finds it too
\* long: the poll fails and Start keeps its offset.
ScanLine ==
    /\ log.pc = "scan" /\ log.pos < Len(log.file)
    /\ \E e \in LineEnds :
        log' = IF e - log.pos <= LineMax
               THEN [log EXCEPT !.lines = Append(@, log.rest \o SubSeq(log.file, log.pos + 1, e - 1)),
                                !.rest = <<>>, !.pos = e,
                                !.pc = IF e > Len(log.file) THEN "eof" ELSE "scan"]
               ELSE [log EXCEPT !.pc = "idle", !.again = @ \/ log.pos # log.offset]
    /\ UNCHANGED <<session, terminal, events, workload>>

\* The scanner is through.  The offset is what it read, one too many after a line
\* without newline, but not beyond the size seen first: what was appended since and
\* handed on already is to be read again.  Only a file cut meanwhile leaves a rest.
PollEnd ==
    LET read == IF log.pos > log.size THEN log.size ELSE log.pos
        there == IF Len(log.file) < log.size THEN Len(log.file) ELSE log.size
        over == SubSeq(log.file, read + 1, there) IN
    /\ log.pc = "eof" \/ (log.pc = "scan" /\ log.pos >= Len(log.file))
    /\ log' = [log EXCEPT !.pc = "idle", !.rest = <<>>,
                          !.offset = read + Len(over),
                          !.partial = IF over = <<>> THEN log.rest ELSE over,
                          !.again = @ \/ log.pos > log.size + 1]
    /\ UNCHANGED <<session, terminal, events, workload>>

----------------------------------------------------------------------------
Lifecycle ==
    \/ AdapterStart \/ StartPTY \/ SubscribeMonitor \/ Forward \/ AdapterStop \/ ContextCancelled
    \/ Watch
    \/ \E w \in Stoppers : SessionStop(w) \/ WaitInterrupted(w) \/ KillChild(w)
                           \/ WaitKilled(w) \/ Cleanup(w)
    \/ ChildExits

Output ==
    \/ \E n \in ChunkSizes : ReadOutput(n)
    \/ AppendScrollback \/ FanOut \/ PipeEnds \/ SubmitEnded \/ ExitNotify
    \/ \E u \in Streams : SnapshotScrollback(u) \/ Register(u) \/ OutputPump(u)
                          \/ StreamCancelled(u)

Monitoring ==
    \/ ProcessEvent \/ FanOutEvent \/ ProcessLoopEnds
    \/ IdleTimerFires \/ IdleTimeout \/ IdleFanOut
    \/ \E h \in Hooks : HandleHookEvent(h)
    \/ \E t \in {1, 2} : HandleAPIRequest(t)
    \/ HandleToolResult \/ HandleMessage

Tailing == (\E b \in {0, Len(log.file) + 1} : WriteLog(b)) \/ TruncateLog
           \/ Poll \/ ScanLine \/ PollEnd

Next == Lifecycle \/ Output \/ Monitoring \/ Tailing

Spec == Init /\ [][Next]_vars

\* The goroutines run: the monitor's loop and its timer, the forwarder, the
\* pipe and the calls of Stop.  Nobody is obliged to start, stop or write.
FairSpec ==
    /\ Spec
    /\ WF_vars(ProcessEvent) /\ WF_vars(FanOutEvent) /\ WF_vars(IdleTimerFires)
    /\ WF_vars(IdleTimeout) /\ WF_vars(IdleFanOut)
    /\ WF_vars(AdapterStart \/ StartPTY \/ SubscribeMonitor) /\ WF_vars(Forward)
    /\ WF_vars(Watch)
    /\ WF_vars(AppendScrollback \/ FanOut) /\ WF_vars(PipeEnds \/ SubmitEnded \/ ExitNotify)
    /\ \A w \in Stoppers : WF_vars(SessionStop(w) \/ WaitInterrupted(w) \/ KillChild(w)
                                   \/ WaitKilled(w) \/ Cleanup(w))

----------------------------------------------------------------------------
(* Properties *)

\* The snapshot a new stream starts with is the end of the output written to the
\* buffer so far, in order and nothing missing in it, however the reads wrapped
\* around (terminal_subscription.go:52, 78).
ScrollbackIsTail ==
    LET s == Snapshot(ring) IN
    /\ \A i \in 1..Len(s) : s[i] = ring.written - Len(s) + i
    /\ Len(s) = IF ring.written > SnapMax THEN SnapMax ELSE ring.written

\* A stream that fell behind loses old output, never the newest: what its client
\* has read and the chunks it will read are in order, and end with the last byte
\* fanned out while it was subscribed (terminal_subscription.go:157).
StreamKeepsNewest ==
    \A u \in Streams : stream[u].pc = "live" =>
        LET all == <<stream[u].got>> \o stream[u].q IN
        /\ \A c, d \in 1..Len(all) : \A i \in 1..Len(all[c]), j \in 1..Len(all[d]) :
              c < d \/ (c = d /\ i < j) => all[c][i] < all[d][j]
        /\ stream[u].last # 0 => Last(Last(all)) = stream[u].last

\* When a Stop has returned and none is left that waits for the child's end or
\* is about to kill it, the child is dead, whichever of the adapter's Stop, a
\* cancelled context and the child's own end came first; unless the Stop came while
\* Start was still starting the child (session.go:165, 177).  A Stop that finds
\* another at work returns before that one has killed the child (session.go:167).
StopLeavesNoChild ==
    /\ \E w \in Stoppers : stop[w] = "done"
    /\ \A w \in Stoppers : stop[w] \notin {"interrupt", "kill"}
    /\ ~early
    => child # "alive"

\* While its file is only appended to, the tailer skips nothing: every byte before
\* its offset but newlines was handed on, in lines that are pieces of the file.
\* It hands them on once and in order, unless a poll read what was appended after it
\* had taken the size, or failed after some lines (tailer.go:93, 101, 121, 153).
TailerLosesNothing ==
    ~log.truncated =>
        LET Bytes(n) == 1..Len(log.lines[n])
            N == 1..Len(log.lines) IN
        /\ \A b \in 1..log.offset :
              log.file[b] # 0 => \E n \in N : \E i \in Bytes(n) : log.lines[n][i] = b
        /\ \A n \in N : \A i \in Bytes(n) : /\ log.lines[n][i] \in 1..Len(log.file)
                                            /\ log.lines[n][i] = log.lines[n][1] + i - 1
                                            /\ log.file[log.lines[n][i]] # 0
        /\ ~log.again => \A m, n \in N : \A i \in Bytes(m), j \in Bytes(n) :
              m < n \/ (m = n /\ i < j) => log.lines[m][i] < log.lines[n][j]

\* The end of a child is reported: once the pipe saw it, the adapter's
\* subscribers see session_ended, unless the session was stopped, its context
\* cancelled, a buffer full, or the adapter had not subscribed yet
\* (session.go:135, monitor.go:187).
EndIsReported ==
    (pipe.pc = "ended" /\ ad.subbed /\ Len(mon.q) < EventCap) ~>
        (ad.stopped \/ ad.ctx \/ ad.lost \/ ad.ended)

\* An active monitor that hears nothing more goes idle or exits: no race of its
\* timer with activity leaves it active without one (monitor.go:271, 339).
SilenceIsIdle ==
    (mon.state = "active" /\ "idle" \in workload) ~> (mon.state # "active" \/ mon.q # <<>> \/ mon.closed)

\* Output gets through: a snapshot has the newest of it, a slow stream loses the
\* oldest only, and the log is tailed byte by byte.
OutputIsKept == ScrollbackIsTail /\ StreamKeepsNewest /\ TailerLosesNothing

\* A silent monitor goes idle and a dead child is reported.
EndsAreNoticed == EndIsReported /\ SilenceIsIdle
=============================================================================
