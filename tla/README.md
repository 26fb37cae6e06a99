# Formal models of flex-agent-runtime

TLA+ models of the concurrent core of flex-agent-runtime, written from the Go
code under `src/`: model-checked by TLC on small instances, and in part proved
with TLAPS for every value of the constants. `PROJECT.json` maps every
definition to the lines it models and lists runs, mutants, findings, hazards
and theorems.

The repository has models of its own (`src/specs/*.tla`), written from its
plans before the code. This project is independent of them: where both speak
of the same thing (does `Close` return, with what in the wait group), this one
says what the Go code does.

## 1. The system

A client talks RPC to an *agent service* that runs LLM sessions. A session's
*agent* alternates between calls to an LLM provider and tool calls; tools run
locally, in a *tool environment*, or in a *sandbox* on a host, obtained through
a *sandbox control* (direct, one node, or a *fleet* of cloud instances). An
*orchestrator* puts the two together; a *terminal multiplexer* runs interactive
programs, and other vendors' agents, in a PTY.

| component | state | operations | talks to | what is hard |
|---|---|---|---|---|
| **agent loop** `internal/agent/{agent,loop,control_queue,types}.go` | agent state, busy flag, session log; driver flag, cancel function, pending steer, follow-ups; bounded command channel | Start, Prompt, Continue, Stop, Steer, FollowUp, Abort; the run loop | provider, tools, event bus | three locks taken one after another; stale session copy; Stop against a start; five ways out of the loop |
| **agent service** `internal/agent/{service,event_bus}.go` | session map, streams and turnDone per session, wait group, receiver buffers | CreateSession, SendMessage, Continue, SubscribeEvents, control calls, DestroySession, Close, ResumeSession | agent loop, RPC clients | one turn completed from five places; synchronous delivery into bounded buffers; teardown against calls that hold the session |
| **fleet control** `internal/sandbox/control/fleet` | instance map, per instance state, session count, health counters, clocks; pending launches | CreateSandbox, DestroySandbox, Close, RecoverInstances, control loop of six phases | cloud API, hosts | routing on snapshots, reconciliation with old answers, restarts |
| **orchestrator** `internal/orchestrator` | session table, operations in flight, per entry state and lock | create with compensation, proxied calls, destroy, pause, resume, health loop, Close | sandbox control, agents | multi-step creation and its undoing; pause and health answers against destroy and Close |
| **direct control** `internal/sandbox/control/direct` | instances and tracked processes | create, destroy, pause, resume, process launch, kill, status, recovery, Close | EC2, SSM | replies lost after the effect; recycled PIDs; restart in the middle of a create |
| **sandbox host** `internal/sandbox/*.go` | sessions, tools in flight, snapshots, processes, gVisor slots | create, execute, snapshot, rollback, pause, processes, destroy, Shutdown | ZFS, gVisor | rollback flags, snapshot names and pruning, launch against destroy |
| **tool environments** `internal/sandbox/environment` | lifecycle state, provider resource | Create, ExecuteTool, edit_file, Pause, Resume, Destroy | fly, e2b, daytona, sandbox host | lost replies, best-effort clean-up, read-modify-write over SSH |
| **terminal multiplexer** `internal/termmux`, `agent/driver_termmux.go` | session, PTY, scrollback ring, subscriptions, monitor with idle timer, log tailer | start, stop, output, subscribe, hook and telemetry events | PTY, agent CLIs | slow subscribers, Stop while starting, idle timer against events |
| **LLM client** `internal/ai` | accumulator of a stream, event channel, result | stream, transform, build request | providers | cut streams, interleaved tool calls, consumers that leave, logs replayed on another model |
| **RPC layer** `internal/rpc` | idempotency cache, subscriber map, relay queues, input limiter | tool calls and streams, event streams, terminal streams | all services | duplicate calls, slow subscribers, handlers that outlive their client |
| EC2 provisioner, node control, built-in tools, commands | – | translation, forwarding, files, flags | – | see section 8 |

Correctness, per component:

* the **agent** has one turn executor, returns to idle whatever ends a turn,
  answers every tool call in order, delivers accepted follow-ups once and in
  order, and ends after Stop;
* the **service** gives every turn's slot back, ends every turn stream,
  leaves nothing behind on a closed stream, and returns from teardown;
* the **fleet** stays within its launch limit, never forgets an instance that
  runs, never takes sessions on one it is giving up, and keeps counters and
  instance states consistent;
* the **orchestrator** and the **direct control** leak no sandbox and no
  process, never revive what was destroyed, and their Close returns;
* the **host** keeps datasets, snapshots and processes exactly as long as their
  session and lets no tool write during a rollback;
* an **environment** shows its callers one lifecycle whatever stands behind it;
* a **terminal** loses only what it may, and notices ends and silence;
* the **LLM client** reports a message that is the server's, and sends requests
  in which every call is answered and nothing that was said is missing;
* the **RPC layer** answers with the outcome of a run of the request it was
  asked for, keeps streams in order, and gives up what a vanished client held.

## 2. Modules

| module | models | composes |
|---|---|---|
| `AgentLoop` | `Agent`, `NativeDriver`, `ControlQueue` | three objects and the goroutines that use them |
| `AgentLoopService` | `AgentLoopService`, receivers, event bus | service, bus, and a driver reduced to its events |
| `FleetControl` | `FleetSandboxControl`, `ManagedInstance`, `CapacityRouter`, control loop | fleet, with cloud and hosts as external state |
| `Orchestrator` | `Orchestrator`, its proxies, health loop | orchestrator, with sandbox control and agents as external state |
| `DirectControl` | `DirectSandboxControl` | adapter, with EC2, SSM and the instances' processes as external state |
| `SandboxHost` | `SandboxHostService`, gVisor `Manager` | host and manager, with ZFS and the processes as external state |
| `Termmux` | a `Session` with `VirtualTerminal`, `AgentMonitor`, drivers, tailer, `TermmuxDriverAdapter`, terminal streams | all of them |
| `ExecutionEnvironment` | the interface's contract, an abstract specification | |
| `RemoteEnvironment` | its five implementations and the provider | refines `ExecutionEnvironment` |
| `ProviderStream` | `EventStream` and the anthropic, openai and google stream parsers | parser, stream, consumer, server |
| `Conversation` | the log, its records, `ResumeSession`'s validation, `TransformMessages`, the request encoders | driver, codec, transformation, encoders |
| `LlmClient` | the two halves of an LLM call | `ProviderStream`, `Conversation` |
| `RpcTools` | unary calls, `ExecuteTool`, `ExecuteToolStream`, idempotency cache | client, transport, server |
| `RpcStreams` | event hub, turn streams, terminal streams over RPC and over the WebSocket relay | client, relay, server |
| `RpcServer` | the registered services of one server | `RpcTools`, `RpcStreams` |
| `MC…` | constants, workloads and symmetry for TLC | |
| `AgentLoopProofs`, `AgentLoopServiceProofs`, `FleetControlProofs`, `OrchestratorProofs`, `DirectControlProofs`, `SandboxHostProofs`, `TermmuxProofs`, `RemoteEnvironmentProofs` | inductive invariants, lemmas and theorems about the module each is named after | |

Definitions keep the names of the Go functions. An operator whose comment
starts with "Mutant:" is a deliberately wrong variant of the definition that
follows it; it occurs in no specification and is used to see that a property
notices the bug.

A step is, in every module, one critical section, one channel operation or one
remote call. A remote call that fails may have taken effect. Timers are not
numbers: one that was started may have expired whenever the code looks.
Variables marked *history* only record what happened, so that a property can
except a case the code does not handle; each such case is named in section 7 or
in the note of its hazard.

### AgentLoop

Callers (`cpc`) are goroutines inside an Agent method, loops (`lpc`) are
goroutines inside `NativeDriver.run`.

* `Prompt` copies the session; `StartLock`, `StartTransition`, `StartDriver`
  (with `StartUndo`, `StartFail`, `StartIdle`) are `Agent.Start` and
  `startLoop`; `Continue`/`ContinueDriver` likewise.
* `Stop`, `StopDriver`, `StopCancel`, `StopExit`, `StopClose` are `Agent.Stop`
  with `NativeDriver.Stop`: five sections, and the code holds no lock from one
  to the next.
* `Enqueue` checks `closed` under the lock, `Send` is the non-blocking channel
  send after it: full is refused, closed panics.
* `LoopTop` .. `OnDriverIdle` are the run loop, one action per step of it, with
  provider failure, tool panic, refused transitions and cancellation.
* `pendingSteer` and `followUps` are unlocked fields. While two loops are at
  them (`Racing`) a write may or may not be the one that survives.

A log entry keeps its role and its tool calls; a message is the number of the
call that brought it. Left out: metrics other than `TurnsCompleted`, state
history, time stamps, empty messages, and event delivery (the next module).

### AgentLoopService

Clients are goroutines in a service method; receivers are the streams handed
out; every publisher (a loop, or the client inside `agent.Stop`) walks over a
snapshot of the bus's handlers, one handler per step, and `push` blocks on a
full buffer until there is room or the stream is closed. The agent is reduced
to what the service sees: busy, exited, and a loop goroutine that emits
informational events, then a terminal one, and may go on to a next turn.
Hooks on a receiver (`RunHooks`, `doneTurn`, `closeWithError`) run where the
code runs them, once.

Informational events between two interesting steps are one event (the tracker
ignores them). Not modelled: the external event publisher, a panic inside
`Continue`, the idle test of `Steer`, and read-only calls. What `ResumeSession`
does with a log is in `Conversation`; to this module it is a `CreateSession`.

### FleetControl

Callers are goroutines in `CreateSandbox`, `DestroySandbox` or `Close`; the
control loop is one more, its `pc` the phase it is in. A launch that fails after
taking effect is the case of a launched instance that gets no client. Health
counters stop at their thresholds, since only reaching them is observed.
`HeadroomSessions` is the number of sessions up to which `CapacityHeadroom`
admits one more. Routing and scale-up compute on a snapshot taken in one step.
Not modelled: metrics, `TerminateRetries` (only logged), phase 5b of the drain
phase (its state is never left in the map). In this commit
`serve_orchestrator.go` creates a fleet, but only tests call `StartControlLoop`
and `RecoverInstances`; the model has both, as their comments intend them.

### Orchestrator

`table` is the session map, `ent` the entries, `lock` the entry lock where it is
held over a remote call (pause, resume, destroy), `wg` the operations between
`beginOperation` and `endOperation`. A create of each placement is a chain of
remote steps (`CreateSandbox`, process launch, agent session) whose failures run
the compensation of `proxy.go`; `Forward` is every proxied call. The health loop
takes a list of entries and applies each answer when it arrives. `sandbox`,
`procs` and `remote` are the outside world; `unsure` and `unsureProc` remember
what a failed call was about. IDs are fresh for every create.

### DirectControl

An instance's state at the adapter (`inst`, `tracked`) is one thing and the
cloud's (`cloud`, `os`, `pidFile`) another; actions are the adapter's sections
and the EC2 and SSM calls between them. `Crash` forgets the first and `Recover`
rebuilds it from tags and PID files. PIDs are recycled (`reused`): a kill checks
the start time and then signals, and what dies in between is `raced`. A resume
looks at no state, as in the code: one that is repeated for a sandbox that runs
replaces the map of its processes. `lost` are the processes that the adapter
cannot know of: their launch failed, their instance did not answer `Recover`, or
they were alive at such a resume. The callers are as the orchestrator makes them,
one lifecycle call per sandbox at a time, with status queries and Close at any
time.

### SandboxHost

A `Session` is an object in `obj`; `table` maps an ID to one, and a call keeps
the object it looked up. Every call is split at its locks and its ZFS or gVisor
calls. `job` is `gvisor.Manager.Run` per container: enter, slot of the semaphore
with the second look at `closed`, start, exit. Several pairs of calls are not
ordered by the code and do harm when they overlap (`Conflicts`: a create or a
destroy with another call that changes the session, two rollbacks, a snapshot
with a rollback or another snapshot); the model lets them happen and records
them in `overlap`, which the properties except. A behaviour uses one of
the mixes of `Workloads`, for all operations together are more than TLC can
enumerate.

### Termmux

Output is numbered bytes. `ring` is the scrollback buffer with its wrap-around,
`stream` a terminal stream with its dropping subscription, `pipe` the output
goroutine, `stop` the two possible callers of `Session.Stop`: the adapter, and the
goroutine that waits for the end of the context `Start` was given
(`ContextCancelled`), which may overlap; `mon` and `idle` are
the monitor and its timer callback, `cli` the agent CLI with the event handlers
of the claude code and codex drivers, `log` the file and the tailer, `ad` the
adapter with its forwarder. A poll of the tailer is several steps, for the CLI
appends meanwhile: `Poll` takes the file's size, `ScanLine` reads and hands on one
line or fails the poll because it is too long, `PollEnd` computes the new offset
from the size seen first. Left out: the screen emulator, resizing, input,
`SessionManager`'s map, and the HTTP receivers of hooks and telemetry.

### ExecutionEnvironment and RemoteEnvironment

The abstract module has the six states of `types.go`, the set of admitted tool
calls, and the difference that matters to a caller: an implementation keeps its
state, or it asks a server (`asks`), which may fail to answer and moves by itself
(`ServerMoves`). A Create is possible in every state, as no implementation looks
(`Recreate`). The detailed module has the implementations' locks, local
variables, provider requests with lost answers, and the five `Kinds`. `replaced`
are the resources whose ID a later Create or AttachSession overwrote, `reach`
says whether native's query is answered. The refinement mapping is
`state <- StateOf`, what a `State()` query would answer (native asks the host,
local has only a flag, the others their field), `running <- Running`, the callers
between admission and return, `asks` for native, and `renewed` once something was
replaced. `seen` and `file` (one per machine) are edit_file's read and write back
over SSH; a write that fails leaves the old text, the new one or a truncated file,
for the shell's redirect truncates before it writes (`torn`).

### ProviderStream, Conversation and LlmClient

`ProviderStream`: the server sends blocks in the wire order of its API, one
fragment per step, and may break off, be cut cleanly, refuse, or report a finish
reason with an incomplete call. It also sends what the parsers do not know or do
not look at: anthropic blocks of another type, google parts with a signature and a
text, openai's error chunk in the middle of the stream. The parser's accumulator
is `acc`; each event it sends goes through the bounded `EventStream` (`Send`,
`Publish`, `Close`, `Result`, `Drain`) to a consumer that may stop reading.
`Conversation`: turns append messages; a crash turns the log into records and back
(`AgentMessageToRecord`, `RecordToAgentMessage`, which lose signatures and turn
thoughts into text); each request is `TransformMessages` with the synthetic
results, then the encoder of its provider. These are pure algorithms, checked
against what the log says at every reachable log. An acknowledgement that the
openai encoder puts after a result has the role assistant, as on the wire.
`LlmClient` puts both in one specification: the halves share no state, so a
behaviour exercises one.

### RpcTools, RpcStreams and RpcServer

A call is one attempt; a retry is a call with the same request. A run of the tool
may succeed or fail, a handler's context may end at any time, and the cache entry
of a request may expire. Streamed tool calls have a producer goroutine, a bounded
channel and an error channel. The event hub has several publishers at once, each
walking over the subscribers under a read lock; it drops what does not fit in a
subscriber's channel. Streams of turns and of `SubscribeEvents` go through the
service's receivers. A terminal stream runs over RPC directly or over the relay
(reader, writer and the two pumps) with the input limiter; its session's `FanOut`
drops the oldest chunk of a full queue and tries once more, in two steps, for the
reader may take a chunk in between. In `RpcServer` a behaviour uses one registered
service, since they share no state.

## 3. Runs

Distinct states in millions. "fair" runs check a liveness property.

| run | checks | instance |
|---|---|---|
| `agent_safety` | `TypeOK`, `OneExecutorUntilStop`, `QuiescentIsIdle`, `ToolResultsMatchCalls`, `FollowUpOrder` | 2 callers, 2 loops, 3 calls, queue of 1; 0.4 |
| `agent_live` | `TurnsEnd` | the same with shorter replies, fair; 0.67 |
| `service` | `TypeOK`, `SlotsAreReleased`, `NothingLeftBehind`, `CallsReturn` | 2 clients, 2 receivers, plans of 3 and 4 calls, buffers of 2, fair; 0.77 |
| `fleet` | `TypeOK`, `LaunchSlots`, `StatesFitSessions`, `GracefulDrainIsEmpty`, `DrainsAreFinal` | 2 instances, 2 sandboxes, 2 calls, 1 restart; 2.6 |
| `orchestrator` | `TypeOK`, `NothingLeaks`, `ServedSessionsRun`, `DestroyedIsFinal`, `CloseEnds` | 2 callers, 2 sessions of which 1 is admitted, agent-direct and tools-sandbox, 4 calls, 1 health round, fair; 0.44 |
| `direct_control` | `NothingUnknown`, `KillSparesOthers`, `CloseReturns` | 2 callers, 2 instances, 2 processes, 5 calls, 1 restart, fair; 0.76 |
| `sandbox_host` | `NothingLeaks`, `SnapshotsAreSound`, `DestroyingIsFinal` | 2 callers, 1 ID, 2 processes, 4 mixes of calls under both runtimes, 5 calls, 1 fault; 0.71 |
| `termmux` | `OutputIsKept`, `StopLeavesNoChild`, `EndsAreNoticed` | 1 stream, ring of 3, snapshot of 2, channels of 2, 5 bytes, 3 lines of at most 2 bytes, 2 events, 4 workloads, fair; 0.83 |
| `llm_client` | `MessageIsWhole`, `OutcomeIsHonest`, `CallsAreAnswered`, `TextsAreKept`, `CancelEnds` | 3 providers, 4 models, messages of 4 pieces, logs of 5, 2 turns, 1 resume, fair; 1.22 |
| `environments` | `SandboxIsAccounted`, `EditsSurvive`, `ImplementsEnvironment` | 2 callers, 5 kinds, 4 provider resources; 0.75 |
| `rpc` | `ToolAnswers`, `StreamsAreOrdered`, `HandlersReturn` | 2 calls, 2 requests, 2 subscribers, 2 publishers, channels of 1, 3 events, 3 chunks, 1 tick, fair; 1.44 |
| `conversation_resume` | `LogCanBeResumed`, violated | as `llm_client` with 2 resumes |

The last run shows the code doing something other than the plans say. A resumed
session gets a new driver whose turn counter starts at 0, so the messages after
a resume are numbered from 1 although the log went further; `ResumeSession`
refuses a log whose turns decrease (`service.go:667`), so a session can be
resumed after its first crash and not after its second one.

What the passing runs show, in words:

* **agent**: until a Stop begins there is one executor (section 7 on why the
  premise is needed); whatever goroutines are left, an agent nobody will restore
  is idle or exited; tool results are the answers to the calls of the last
  reply, in order; accepted follow-ups are delivered in order, once. Every turn
  ends, and after Stop every loop does.
* **service**: no slot of the wait group is left over: it counts the turns that
  somebody will still complete, and those that were open together with another
  one of their session (section 7); a closed stream has no subscription and a
  torn-down session no open turn stream; streams end and teardown returns, for
  clients that read.
* **fleet**: launches stay within `MaxConcurrentProvisions` and their slots are
  given back on every path; an active instance has sessions and a ready one an
  idle clock, and nothing but the recovery from a health drain makes a ready
  instance with sessions; a graceful termination hits no tracked session; an
  instance leaves the map terminated, and scale-down is not revoked.
* **orchestrator**: every sandbox and every process belongs to a session of the
  table or to a call at work on it, except what a failed remote call left in
  doubt; a session that takes calls has its sandbox running; destroyed is final
  although pause, resume and health answers were under way; Close returns and
  leaves nothing.
* **direct control**: after a restart with recovery, too, the adapter knows the
  instances and processes that run, except instances that were in transition,
  processes whose instance did not answer, and those a repeated resume made it
  forget; a kill hits no process other than ours but for the window between check and
  signal; Close returns although creates are polling.
* **sandbox host**: datasets and processes live as long as their session, the
  snapshot list is the one ZFS has, no tool works during a rollback, a session
  under destruction is never served again.
* **termmux**: a scrollback snapshot is the tail of the output, a slow stream
  loses its oldest chunks only, the tailer skips no byte of the log, and repeats
  lines only after a poll that read beyond the size it took or failed; once a Stop
  has returned and no other one is still waiting for the child, no child is left;
  a dead child is reported and a silent agent becomes idle.
* **LLM client**: a message reported done is what the server sent, fragment by
  fragment, from any interleaving of its blocks, less what the parsers pass over
  (section 7); errors are reported only for faults; a cancelled call ends. Every
  request has one result for every call, before the next assistant message of the
  log (for models that want them, with acknowledgements between the results), and
  every text of the log, for all four kinds of model, after a crash as well.
* **environments**: the provider has no resource the environment does not know
  of but what a failed or a later Create left behind, nothing it knows runs after
  a destroy, the state agrees with the provider's, edits reported done are in the
  file unless another one overlapped or a later write failed; and each of the five
  implements the contract.
* **rpc**: an answer is the outcome of the call's own run or of an earlier one
  of the same session and tool call within its TTL; subscribers see the events of
  each publisher in order, once, and miss only what a full channel made the hub
  drop; terminal input and output arrive in order, input within the limiter's
  budget, and what is missing was dropped by a full queue or by the limiter; the
  handlers and goroutines of a client that left end, but for a response nobody
  reads and a subscription to a silent session (section 7).

### Why the bounds are enough

* Agent: two callers and two loops are the smallest instance with overlapping
  calls and overlapping loops; three calls allow prompt, stop and a third one in
  between. A queue of 1 is full after one command. The replies are no call, an
  unknown tool before an ordinary one, and a terminal tool before a call that is
  abandoned, so a reply is seen half executed. `MaxLog` is the assumption that a
  provider at some point stops asking for tools; without it no liveness holds.
* Service: one session object, since sessions share only the map, the closed
  flag and the wait group; two receivers are a running turn and a refused or
  subsequent one. The buffer of 2 holds the events published before a call
  returns its stream to a client that can read it (256 in the code) and is full
  right after. What the clients call is the constant `Plans`: a session is
  made and any two calls follow, of one client or of two at once; and a session
  is destroyed while its turn runs and another turn is started, which is what
  makes a driver refuse a start that the agent let pass (`LaunchFailed`).
* Fleet: thresholds and sessions per instance of 1 put every operation at its
  limit; two instances give routing and scaling a choice; one restart is enough
  since recovery forgets everything.
* Orchestrator: one admitted session of two makes the limit bite; four calls are
  a create, two calls that race on it, and Close. The agent-sandbox placement
  differs from agent-direct in its resume, which relaunches nothing; it was
  explored apart with the same bounds, without error (0.18 M states).
* Direct control: five calls are create, launch, kill and two more; two
  instances and processes let a PID be recycled by another process of ours.
* Sandbox host: the mixes of `MCSandboxHost` are the calls that touch the same
  fields: lifecycle, tools with pause, snapshots with rollback, processes with
  shutdown. One ID is used again after its destroy, so two objects of it exist.
  One container slot and two snapshots are the limits, reached at once.
* Termmux: a ring of 3 with reads of 1, 2 and 4 bytes wraps around and is
  overrun by one read; a snapshot of 2 is smaller than the ring. A log of
  five bytes has lines that end, that do not yet and that are too long for `LineMax`,
  appended before, during and after a poll; no poll begins after `MaxLines` lines.
* LLM client: four pieces are two blocks of two fragments or one call cut in the
  middle of its arguments while another is open; a buffer of 1 blocks at the
  second event. The models are one of each provider and one with every
  compatibility flag; the contents are a thought and a text, two calls around a
  text, and a block only its own model understands.
* Environments: two callers are a create or a destroy against a tool, an edit or
  a pause, or two edits; four resources let a create be repeated after a lost
  answer and a fly sandbox, which has two, be replaced by another.
* RPC: the two requests are two sessions whose agents number their tool calls
  alike; capacities of 1 are full after one message. Two publishers overlap; three
  chunks in a queue of one are dropped while the reader is at work.
* `CHECK_DEADLOCK FALSE` everywhere: once the bounded calls are used up the
  system legitimately stops.

## 4. Fairness

Nothing makes a client call, a provider answer well, or a fault happen: those
actions are never fair. What is:

* `AgentLoop`, `AgentLoopService`: weak fairness of each caller inside a method,
  each loop, each publisher. Go schedules every runnable goroutine, mutexes are
  not held over blocking calls, provider and tools take the loop's context. The
  drain timers of `Close` are steps of the client. `ConsumerFairness`: clients
  read their streams, as the RPC handlers do.
* `Orchestrator`: strong fairness of callers inside a call and of the health
  loop. They wait for an entry's mutex, which others take and release again and
  again; Go's mutex hands over to a waiter that starves. Remote calls have
  deadlines.
* `DirectControl`: weak fairness of callers inside a call: polls have deadlines.
* `Termmux`: weak fairness of each goroutine of the session, the monitor, the
  adapter and the stoppers, and of the idle timer; not of the child.
* `ProviderStream`: weak fairness of the client's goroutine and of a consumer
  that has not left; the server owes nothing.
* `RpcServer`: weak fairness of handlers and goroutines; tools return, clients
  and time are free. A behaviour has few handlers and each of them is bounded,
  so that fairness of their disjunction suffices.
* `FleetControl`, `SandboxHost`, `RemoteEnvironment`: safety only.

## 5. Proofs

Each `…Proofs` module extends its component's module and proves theorems of its
`Spec` for any sets of callers, sessions, instances or receivers and any bounds
that satisfy the component's `…Assumption`. The assumptions are what the code
has: `None` is none of the identities, capacities and thresholds are natural
numbers (positive where the code's default is), replies and plans are of their
type, and the goroutines, receivers or instances that are counted are finitely
many. TLC evaluates them on every run.

| module | theorem | states |
|---|---|---|
| `AgentLoopProofs` | `TypeCorrect` | `TypeOK` |
| | `OneExecutor` | `OneExecutorUntilStop` |
| | `Quiescence` | `QuiescentIsIdle` |
| | `ResultsMatch` | `ToolResultsMatchCalls` |
| | `FollowUpsInOrder` | `FollowUpOrder` |
| `AgentLoopServiceProofs` | `TypeCorrect` | `TypeOK` |
| | `SlotsReleased` | `SlotsAreReleased` |
| | `NothingLeft` | `NothingLeftBehind` |
| `FleetControlProofs` | `TypeCorrect` | `TypeOK` |
| | `SlotsAreCounted` | `LaunchSlots` |
| | `StatesFit` | `StatesFitSessions` (an invariant and an action property) |
| | `DrainIsGraceful` | `GracefulDrainIsEmpty` |
| | `DrainFinal` | `DrainsAreFinal` (action property) |
| `OrchestratorProofs` | `TypeCorrect` | `TypeOK` |
| | `NoLeak` | `NothingLeaks` |
| | `ServedRun` | `ServedSessionsRun` |
| | `DestroyedFinal` | `DestroyedIsFinal` (action property) |
| `DirectControlProofs` | `AdapterKnows` | `NothingUnknown` |
| | `OthersSpared` | `KillSparesOthers` |
| `SandboxHostProofs` | `DestroyFinal` | `DestroyingIsFinal` (action property) |
| | `RollbackAlone` | `RollbackExcludesTools`, half of `SnapshotsAreSound` |
| | `ToolsCounted` | `Counted`, of the proof module |
| | `NoLeak` | `NothingLeaks` |
| | `SnapshotsSound` | `SnapshotsAreSound` |
| `TermmuxProofs` | `StopNoChild` | `StopLeavesNoChild` |
| | `OutputKept` | `OutputIsKept` |
| | `ScrollbackTail` | `ScrollbackIsTail`, a part of `OutputIsKept` |
| | `StreamsKeepNewest` | `StreamKeepsNewest`, a part of `OutputIsKept` |
| `RemoteEnvironmentProofs` | `Accounted` | `SandboxIsAccounted` |
| | `EditsStay` | `EditsSurvive` |
| | `Refinement` | `ImplementsEnvironment` (the contract `Env!Spec`) |

The argument is the same everywhere: an inductive invariant that holds initially
and is preserved by every action, from which the property follows. The invariants
of the service, the fleet, the orchestrator, the direct control and the sandbox
host were also model-checked in full on the instances of section 3; in several
cases TLC or a failed proof step showed what was missing.

**Agent.** `TypeOK` is not inductive: a sender's command and the tool calls of a
loop are taken from local variables that may be empty elsewhere; `Carried` adds
that a caller at the send holds a command and a loop in its tool phase has a
call left. `OneExecutorUntilStop` speaks of the agent's busy flag; a second
start is however also kept out by the driver's flag, and a loop on its way out
has cleared one and not the other. `Ownership` says, until a Stop begins, that
loops and starting callers exclude each other, when each flag is set, and that
no caller is on a failure path of Start (those need the flags to disagree).
`QuiescentIsIdle` is inductive given the types. `ToolResultsMatchCalls` computes
the number of trailing results from the log; `AnswerInv` names that number
instead, `Answered(log, rest, n)`, and a step extends the block of results by
one (`ResultAnswers`) or starts a new one (`ReplyAnswers`). `Ownership` is what
keeps everybody else from the log meanwhile. `FollowUpOrder` speaks of *places*:
a follow-up is delivered, in the driver's list, in a loop's drained commands or in
the channel, at some position there. `FollowInv` says which accepted command is at
which place (`Placed`), that all of them are somewhere (`Known`) and that places
and acceptance agree in order (`InLine`); a step moves a block of follow-ups from
the head of one place to the end of the place before it (`Moved`), which keeps all
three. It needs that only one loop has drained commands, again `Ownership`, that
messages are not used twice (`Fresh`) and that a loop looks at the channel only with
its earlier commands applied (`Gathered`).

**Service.** The counting argument rests on `doneTurn`: one predicate,
`Settled(D, S)`, describes what all the places that complete turns (`D`) or close
streams (`S`) may do to the sessions, the receivers and the wait group together,
and each of the service's actions is shown to be one of those, or a step of a
set-up (`Made`, `Subscribed`, `Hooked`, `Added`). `ServiceInv` then says how far
a set-up is (`SetUpInv`: no event reaches a receiver before its handler is on
the bus, and what was closed in the middle is detached when the hook is set),
that a stream open after its set-up is in its session's set with both hooks
(`OpenInv`), that one call sets a receiver up (`SoleInv`), and that a destroyed
session is being torn down or has exited, after which no turn of it passes its
start (`ExitInv`). Without `ExitInv` a call at its
launch could return an open stream of a session that is gone. The wait group is
the number of open turns (`CountInv`); that no such turn is forgotten is
`OwnInv`: an open turn that did not overlap another is the one its session's
`turnDone` names, which every teardown completes (`RefusedInv` covers the calls
that come after it).

**Fleet.** `LaunchSlots` and `StatesFitSessions` need to know that an instance
under registration is its launcher's own and still provisioning
(`RegisterInv`), which in turn needs that Close lists only instances that have
joined (`TodoInv`; found by the failed proof), that the control loop's targets
stay in the map while it runs (`TargetInv`, because `CloserInv`: Close waits for
the loop), and that what it removes it has terminated (`RemoveInv`). The action
property in `StatesFitSessions` is shown for each operation on an instance
(`Steady`); it needs that a provisioning instance has no sessions and that an
instance whose checks failed has no successes (`HealthInv`), or a drain and a
recovery could happen in one phase.

**Orchestrator.** `LockInv` ties an entry's lock to the one call past taking it,
so that what a call saw under it stays true (`HeldInv`); `CreateInv` and
`ResumeInv` say what each step of a create or a resume has left outside;
`ServeInv` and `OwnedInv` are the properties with the intermediate places of
pauses and destroys; `CloseInv` says that after Close has waited for the
operations none begins. `wg` is the number of operations (`WgInv`).

**Direct control.** `ExclusiveInv` is the order in which the orchestrator makes
lifecycle calls, inherited by the sandbox in a call's hands (`WorkInv`);
`HomeInv`, `StoppedInv` and `KillInv` say where a live process can be when its
instance halts, restarts or is recovered, `FileInv` that a live process has its
PID file, which `Recover` reads, or is `lost`; `TrackedInv` follows the processes
through resumes in any state; `CountInv` and `CloseInv` carry Close.

**Sandbox host.** `Grows` says what a step may do to the session objects: they
are only added, keep their ID, and once destroying stay so or fail.
`RollbackExcludesTools` needs that `activeTools` is exactly the number of tools
at work (`Counted`), or a tool that returns could make it 0 twice; that a tool
or a rollback works on an object of the ID it was called with, whatever the
table maps the ID to by then (`CallsOK`); and that a rollback alone on its ID has
`rollingBack` set (`Excluded`). `QuietStep` covers the actions that leave all
three alone; only the four that count a tool or set the flag are argued for
themselves. The failed first proof of `FinishRollback` showed a `CASE` with two
arms that could both apply, which TLC reads in order and TLA+ does not; the arms
now exclude each other.

`NothingLeaks` adds four layers. `PlaceInv` says, of an ID without conflicting calls,
that a create or a destroy is alone on it (`Lone`) and which object the table has at
each of its steps (`Holds`); `DatasetInv` says what each step has left of the
dataset, `RunInv` how far a container's run is when its process is alive, and
`ProcessInv` with `Named` who knows of a process at each step of its launch, its
kill and its session's end. That callers and processes are different things
(`HostAssumption`) is needed because both are the containers of `job`.

`SnapshotsMatch`, the other half of `SnapshotsAreSound`, compares the session's list of
snapshots with ZFS's, which differ in the middle of every call that writes them.
`WriterInv` says who may write: two calls of an ID whose snapshots interfere are noted
in `overlap` (`Paired`, `RollNoted`), and a tool, a snapshot or a rollback in flight
works on the session of the table, never while the session is made or taken down
(`SnapPlace`), so that at most one call writes the lists of an ID without overlap.
`ListInv` says how the lists differ while it does (`Between`): ZFS is one snapshot
ahead before the append, the session's list is the end of ZFS's and `todo` exactly the
rest during a pruning (`Ahead`), and ZFS has the list up to the target after a
rollback. It needs that no list names a snapshot twice (`Names`), or destroying one
by its name could take another. ZFS's list is then followed through each step with
lemmas on `Append`, `SubSeq` and `RemoveAt`. For this the model takes a snapshot out of
a list by its position, found with `SelectInSeq`, in place of the library's `Remove`,
a fold.

**Terminal multiplexer.** `StopLeavesNoChild` follows from `SessionInv`: the steps
of Stop before its last one either still have a child to kill or know that none is
left (`Gone`: dead, or never made and `stopped` seen by Start, or the case the
property excepts), and while a Stop that came second has returned the first one is
still at work (`StopInv`, `Waiting`). `RingInv` describes the ring by the number
of bytes written, before and after it wrapped; a write is split there
(`RingWrite`) and the snapshot is read off it. It needs that a snapshot is not
longer than the ring, as the code's constants have it
(`terminal_subscription.go:12`). `StreamInv` orders what a stream has read, what
waits in its channel and what the pipe is about to fan out. `TailInv` has one part
per phase of a poll: what was read so far has been handed on (`Tailed`, `Read`),
in order as long as nothing was read twice (`Once`), and positions, sizes and
offset fit together (`Polling`). The first model of the tailer read a whole poll
in one step and its proof went through; the step by step model shows the
repetitions that section 7 names.

**Environments.** `MutexInv` is the ownership of `e.mu`, `PlaceInv` what a caller
knows inside; `TrueStateInv` is the agreement of state and provider up to the step
between a machine's removal and its volume's, through creates in any state
(`CreateInv`, `NamedInv`: what a create has made runs and is nobody else's, and a
resource that somebody names exists or existed). `EditInv` says which edits a
reader has seen, per machine, with the failed writes that took some away. The
refinement maps every step to one of the contract or to a stutter: a step of the
provider protocol changes what a `State()` query would answer only where the
contract does.

Only model-checked:

* liveness under fairness (`TurnsEnd`, `CallsReturn`, `CloseEnds`,
  `CloseReturns`, `EndsAreNoticed`, `CancelEnds`, `HandlersReturn`), which is
  outside the prover's reach;
* the properties of `ProviderStream` and `LlmClient` (`MessageIsWhole`, `OutcomeIsHonest`,
  `CallsAreAnswered`, `TextsAreKept`), which are about recursive transformations of
  logs and messages: what those compute needs an induction over data;
* `ToolAnswers` and `StreamsAreOrdered` of the RPC modules.

## 6. Mutants

Every property of a passing run has a mutant, a small plausible bug in the code it
speaks about (a dropped busy check, a missing return to idle, a slot not given
back, a wait that forgets its instance, a rollback that keeps the wrong snapshots,
a signal without the start time check, synthetic results in the wrong place, a
limiter without its cap), under which TLC finds the property violated. They are
listed in `PROJECT.json`.

## 7. Where the code and the documents disagree

Besides what the run `conversation_resume` shows, the models reach the following,
which a document, a comment or a test of the repository excludes, or which a
reader of the code may not expect. The properties are stated so as to say what
does hold, and name the exceptions.

* Stop clears both flags, a Start passes both checks, then Stop sets exited: two
  loops on one session (`agent.go:225`; `docs/plans/05-agent.md:260`). Hence the
  premise "until a Stop begins".
* Prompt's session copy may predate a turn that completes before Start's lock;
  that turn's log is overwritten (`agent.go:183`; `harness_test.go:524`).
* A SendMessage refused as busy replaces and clears the running turn's turnDone;
  nobody releases that turn's slot, Close returns by its drain timeout and the wait
  group is not zero after it (`service.go:605-637`;
  `docs/plans/21-agent-tlaplus-spec.md:191`). `SlotsAreReleased` excepts turns that
  were open together (`overlapped`).
* Close hangs when nobody reads a full stream: `agent.Stop` publishes before the
  streams are closed and before a timeout is armed (`service.go:473`; same plan,
  line 209). Hence `ConsumerFairness`.
* A SubscribeEvents that found its session may add its stream after
  DestroySession closed all streams (`service.go:226`; same plan, line 187).
* A fleet instance's count may fall below its sandboxes: the slot is released
  before the remote destroy, an old health answer overwrites a newer count, and an
  instance recovered after a restart starts at 0 (`control_loop.go:105, 476`;
  `docs/plans/20-fleet-management.md:432`, "it never undercounts").
* An instance that recovers from a health drain is ready whatever its sessions
  (`control_loop.go:146-151`; `instance_state.go:17` and
  `docs/plans/20-fleet-management.md:991` have "0 sessions").
* ResumeSandbox of the direct control looks at no state: called for a sandbox that
  runs, after an earlier attempt failed behind it, it replaces the map of tracked
  processes (`pause.go:49-88`; `orchestrator/proxy.go:301-333`).
* Destroying one tools-sandbox session closes the agent service all of them
  share (`proxy.go:599`; `docs/plans/21-serve-orchestrator-r1-review-2.md:161`).
* A tool that starts after PauseSession's last look at `activeTools` runs in a
  paused session (`sandbox/service.go:305-319`;
  `docs/plans/00-implementation-guide.md:528`).
* A Stop that finds another one at work returns at once, while that one waits up
  to 3 s and the child lives (`termmux/session.go:167-171`).
* The tailer takes the file's size first and reads to the file's end: a line that
  is appended in between is handed on, and again by the next poll. A line without
  its newline yet is handed on as it is, its rest as another line, and one beyond
  1 MB fails every poll, with the lines before it handed on each time
  (`tailer.go:101, 126, 153`; `docs/plans/09-h2-termmux-port.md:411` has "Handles
  partial lines across polls").
* The text of a google part that has a thought signature is not in the message
  (`google/sse_parser.go:163`), nor is an anthropic block of another type
  (`anthropic/sse_parser.go:151`). An error chunk in the middle of an openai stream
  is not looked at and the call is reported done (`openai/sse_parser.go:66-90`;
  `docs/plans/03-provider-openai.md:781`, "all failures become terminal `error`
  events").
* No Create looks at what the environment has. A live sandbox whose ID it
  overwrites runs on unknown. A native environment that was destroyed and created
  again still says destroyed, and its Destroy does nothing (`native.go:67`; line 165
  says "the session is deleted server-side").
* A failed edit_file over SSH may leave the file truncated, with the edits that
  were reported done before (`fly.go:506`).
* Two calls of one request in flight at once both run the tool
  (`sandbox_server.go:125`; `docs/plans/13-rpc-layer.md:317`). The key is the
  session and the tool call's ID: IDs that the google parser makes up repeat from
  message to message (`google/sse_parser.go:232`), and a later call with one gets
  the earlier one's cached answer.
* Two Publish calls at once may reach a subscriber in either order
  (`event_server.go:67`). A full terminal queue loses chunks, and the relay's
  limiter input, without a word to the client (`terminal_subscription.go:171`,
  `terminal_server.go:156`).
* The handler of SubscribeEvents notices that its client has left at the session's
  next event only (`agent/service.go:328` ignores the context;
  `docs/plans/18-agent-loop-rpc-review-r2-a.md:242`, "disconnection ends the
  subscription").
* The goroutine of a streamed tool call sends its response without looking at the
  context: when the client has left and progress messages fill the channel, it
  never ends (`sandbox_server.go:183`; `docs/plans/13-rpc-layer-test-harness.md:133`,
  "no goroutine leaks").

## 8. Not modelled

* Pure translation, without state a protocol depends on: fleet sandbox IDs and
  metrics, the driver registry, `sandbox_map.go`, RPC client constructors and
  message codecs, command flags, request headers, token budgets, JSON schema
  validation, the SSE line scanner, the embeddings client.
* Sequential code behind one step of a model: the built-in tools and the code
  interpreter (`AgentLoop!ExecuteTool`), the EC2 SDK calls, ZFS and runsc command
  lines.
* Small stateful parts left out: node control (it forwards to one host),
  `SessionManager`'s map, the OTEL and hook HTTP receivers, the port proxy, ZFS
  holds, send/receive and pool checks, the local-disk backend, `retry.go`, the
  external event publisher of the service, the input of a terminal inside
  `Termmux`, carriage returns in a tailed log (the scanner strips them and the
  offset does not count them, `tailer.go:128`; the agents write none).
* The repository's own earlier TLA+ models.

## 9. Plan

Done: `AgentLoop`, `AgentLoopService`, `FleetControl`, `Orchestrator`,
`DirectControl`, `SandboxHost`, `Termmux`, the environments with their
refinement, the LLM client, the RPC layer; proofs about the first seven
and the environments.

Theorems left: `ToolAnswers` and `StreamsAreOrdered` of the RPC modules.
