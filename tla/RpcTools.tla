------------------------------ MODULE RpcTools ------------------------------
(***************************************************************************)
(* The sandbox and agent calls of internal/rpc, from the client through    *)
(* the connect transport to the server and back: unary calls that are      *)
(* forwarded to a service, and ExecuteTool and ExecuteToolStream with the  *)
(* idempotency cache of SandboxServer.                                     *)
(*                                                                         *)
(* A call is one attempt of a client; a retry is another call with the     *)
(* same request.  A request is a pair <<session, tool call ID>>.  An       *)
(* outcome is [code, run]: "ok" or an error code, and the call whose run   *)
(* of the service produced it.  Time is only whether a cache entry's TTL   *)
(* has run out.                                                            *)
(***************************************************************************)
EXTENDS Naturals, Sequences

CONSTANTS
    MaxCalls,     \* bound: attempts of all clients
    Requests,     \* pairs <<session, tool call ID>>
    HostErrors,   \* the errors the services of this instance return
    Rejections,   \* the codes with which requests are turned away
    StreamCap,    \* capacity of the stream's channel, 32 in the code
    MaxProgress   \* bound: progress messages of one run

ASSUME ToolsConstants ==
    /\ MaxCalls \in Nat
    /\ StreamCap \in Nat \ {0}
    /\ MaxProgress \in Nat

VARIABLES
    call,        \* per call: kind and request
    client,      \* per call: "idle", "waiting", "done"
    answer,      \* per call: the outcome the client returned with
    ctxDone,     \* per call: the server's context of the request is over
    handler,     \* per call: where its handler is
    held,        \* per call: the outcome or message the handler works on
    wire,        \* per call: what the client will return with
    producer,    \* per stream: the goroutine that runs the tool
    outcome,     \* per call: what its own run of the service returned
    ch,          \* per stream: the channel of messages
    errCh,       \* per stream: the error channel, empty or one outcome
    progress,    \* per stream: progress messages so far
    idempotency, \* per request: no entry, or [out, fresh]
    window,      \* history: per request, the outcome stored within the TTL
    late         \* history: per call, window of its request when it arrived

handling == <<handler, held, wire>>
running == <<producer, outcome, ch, errCh, progress>>
cache == <<idempotency, window, late>>
toolVars == <<call, client, answer, ctxDone, handling, running, cache>>

(* Calls are numbered in the order in which they begin. *)
Calls == 1 .. MaxCalls
NoCall == 0

None == [code |-> "none", run |-> NoCall]
Outcome(code, c) == [code |-> code, run |-> c]
Progress == Outcome("progress", NoCall)
ClosedMark == Outcome("closed", NoCall)     \* on ch: close(ch)
EOF == Outcome("eof", NoCall)               \* on wire: the stream ended cleanly
-----------------------------------------------------------------------------
(* Error codes *)

Codes == {"invalid_argument", "not_found", "already_exists", "failed_precondition",
          "permission_denied", "resource_exhausted", "unavailable",
          "deadline_exceeded", "canceled", "internal"}

ErrorTable ==
    [ErrQueueFull |-> "resource_exhausted", ErrBusy |-> "failed_precondition",
     ErrStopped |-> "failed_precondition", ErrInvalidState |-> "failed_precondition",
     ErrSessionNotFound |-> "not_found", ErrProcessNotFound |-> "not_found",
     ErrSessionExists |-> "already_exists", ErrSessionPaused |-> "failed_precondition",
     ErrSessionDestroying |-> "failed_precondition",
     ErrRollbackInProgress |-> "failed_precondition",
     ErrToolsInFlight |-> "failed_precondition",
     ErrMaxSessionsReached |-> "failed_precondition",
     ErrPoolFull |-> "resource_exhausted", Canceled |-> "canceled",
     DeadlineExceeded |-> "deadline_exceeded"]

(* The codes of agent.ServiceError: permission_denied is not one of them. *)
mapServiceCode(code) ==
    IF code \in Codes \ {"permission_denied"} THEN code ELSE "internal"

(* A ServiceError is named by its code; an error of neither kind is internal. *)
MapError(e) == IF e \in DOMAIN ErrorTable THEN ErrorTable[e] ELSE mapServiceCode(e)

mapCode(code) == IF code \in Codes THEN code ELSE "internal"

connectCodeToRPCCode(code) == IF code \in Codes THEN code ELSE "internal"

toConnectError(out) ==
    IF out.code = "ok" THEN out ELSE [out EXCEPT !.code = mapCode(@)]

fromConnectError(out) ==
    IF out.code = "ok" THEN out ELSE [out EXCEPT !.code = connectCodeToRPCCode(@)]
-----------------------------------------------------------------------------
ToolsInit ==
    /\ call = [c \in Calls |-> [kind |-> "none", req |-> <<>>]]
    /\ client = [c \in Calls |-> "idle"]
    /\ answer = [c \in Calls |-> None]
    /\ ctxDone = [c \in Calls |-> FALSE]
    /\ handler = [c \in Calls |-> "none"]
    /\ held = [c \in Calls |-> None]
    /\ wire = [c \in Calls |-> None]
    /\ producer = [c \in Calls |-> "none"]
    /\ outcome = [c \in Calls |-> None]
    /\ ch = [c \in Calls |-> <<>>]
    /\ errCh = [c \in Calls |-> None]
    /\ progress = [c \in Calls |-> 0]
    /\ idempotency = [r \in Requests |-> [out |-> None, fresh |-> FALSE]]
    /\ window = [r \in Requests |-> None]
    /\ late = [c \in Calls |-> None]

(* The shapes of a call: a unary method that is forwarded to the sandbox   *)
(* host ("forward") or the agent service ("agent"), the unary ExecuteTool, *)
(* and ExecuteTool of SandboxClient, which streams.                        *)
(* Requests are alike: the first call takes a fixed one.                   *)
Call(c, kind, r) ==
    /\ client[c] = "idle"
    /\ \A d \in 1 .. c - 1 : client[d] # "idle"
    /\ c = 1 /\ kind \in {"unary", "stream"} => r = CHOOSE q \in Requests : TRUE
    /\ call' = [call EXCEPT ![c] = [kind |-> kind, req |-> r]]
    /\ client' = [client EXCEPT ![c] = "waiting"]
    /\ handler' = [handler EXCEPT ![c] = "arrive"]
    /\ UNCHANGED <<answer, ctxDone, held, wire, running, cache>>

(* What the server writes reaches a client that still waits.  The client   *)
(* passes progress on and returns with the first message that is none, so  *)
(* that one is all there is to keep.                                       *)
Deliver(c, m) ==
    IF client[c] = "waiting" /\ wire[c] = None /\ m # Progress
    THEN [wire EXCEPT ![c] = m] ELSE wire

(* A request without credentials, of an old API version, or without a tool *)
(* call ID does not get past the interceptor or the first checks.          *)
validate(c) ==
    /\ handler[c] = "arrive"
    /\ \E code \in Rejections : wire' = Deliver(c, Outcome(code, NoCall))
    /\ handler' = [handler EXCEPT ![c] = "over"]
    /\ UNCHANGED <<call, client, answer, ctxDone, held, running, cache>>

(* The client's context ends or its connection breaks: it returns, and the *)
(* server's context of the request ends.  Had the server learnt of it only *)
(* later, that would be the same as a client that leaves later.            *)
ClientLeaves(c) ==
    /\ client[c] = "waiting"
    /\ client' = [client EXCEPT ![c] = "done"]
    /\ answer' = [answer EXCEPT ![c] = Outcome("canceled", NoCall)]
    /\ ctxDone' = [ctxDone EXCEPT ![c] = TRUE]
    /\ wire' = [wire EXCEPT ![c] = None]
    /\ UNCHANGED <<call, handler, held, running, cache>>
-----------------------------------------------------------------------------
(* The idempotency cache *)

(* The key is the session ID, a colon and the tool call ID; session IDs    *)
(* have no colon, so it stands for the pair.  The tool and its parameters  *)
(* are not part of it.                                                     *)
KeyOf(r) == r

getCached(k) == IF idempotency[k].fresh THEN idempotency[k].out ELSE None

(* An expired entry that is looked up is deleted. *)
AfterLookup(k) ==
    IF idempotency[k].fresh THEN idempotency
    ELSE [idempotency EXCEPT ![k] = [out |-> None, fresh |-> FALSE]]

setCached(k, out) ==
    /\ idempotency' = [idempotency EXCEPT ![k] = [out |-> out, fresh |-> TRUE]]
    /\ window' = [window EXCEPT ![k] = out]

Expire(r) ==
    /\ idempotency[r].fresh
    /\ idempotency' = [idempotency EXCEPT ![r].fresh = FALSE]
    /\ window' = [window EXCEPT ![r] = None]
    /\ UNCHANGED <<call, client, answer, ctxDone, handling, running, late>>

(* sweepLoop, every minute *)
evictExpired ==
    /\ \E r \in Requests : idempotency[r].out # None /\ ~idempotency[r].fresh
    /\ idempotency' = [r \in Requests |->
          IF idempotency[r].fresh THEN idempotency[r]
          ELSE [out |-> None, fresh |-> FALSE]]
    /\ UNCHANGED <<call, client, answer, ctxDone, handling, running, window, late>>
-----------------------------------------------------------------------------
(* Unary calls *)

Forward(c) ==
    /\ handler[c] = "arrive"
    /\ call[c].kind = "forward"
    /\ handler' = [handler EXCEPT ![c] = "exec"]
    /\ UNCHANGED <<call, client, answer, ctxDone, held, wire, running, cache>>

(* AgentRPCServer first requires a service. *)
AgentForward(c) ==
    /\ handler[c] = "arrive"
    /\ call[c].kind = "agent"
    /\ \/ handler' = [handler EXCEPT ![c] = "exec"] /\ UNCHANGED held
       \/ /\ handler' = [handler EXCEPT ![c] = "reply"]
          /\ held' = [held EXCEPT ![c] = Outcome("unavailable", NoCall)]
    /\ UNCHANGED <<call, client, answer, ctxDone, wire, running, cache>>

ExecuteTool(c) ==
    LET k == KeyOf(call[c].req) IN
    /\ handler[c] = "arrive"
    /\ call[c].kind = "unary"
    /\ late' = [late EXCEPT ![c] = window[call[c].req]]
    /\ idempotency' = AfterLookup(k)
    /\ held' = [held EXCEPT ![c] = getCached(k)]
    /\ handler' = [handler EXCEPT ![c] = IF getCached(k) = None THEN "exec" ELSE "reply"]
    /\ UNCHANGED <<call, client, answer, ctxDone, wire, running, window>>

(* What a run of the service may return: a cancelled one may still succeed. *)
Returns(c) ==
    {"ok"} \cup {MapError(e) : e \in HostErrors}
           \cup (IF ctxDone[c] THEN {MapError("Canceled")} ELSE {})

(* The outcome of a tool is cached when the run returns. *)
HostReturns(c, code) ==
    /\ handler[c] = "exec"
    /\ held' = [held EXCEPT ![c] = Outcome(code, c)]
    /\ outcome' = [outcome EXCEPT ![c] = Outcome(code, c)]
    /\ IF call[c].kind = "unary" THEN setCached(KeyOf(call[c].req), Outcome(code, c))
       ELSE UNCHANGED <<idempotency, window>>
    /\ handler' = [handler EXCEPT ![c] = "reply"]
    /\ UNCHANGED <<call, client, answer, ctxDone, wire, producer, ch, errCh, progress, late>>

(* A response beyond MaxMessageBytes is replaced by an error. *)
Reply(c) ==
    /\ handler[c] = "reply"
    /\ \/ wire' = Deliver(c, toConnectError(held[c]))
       \/ /\ held[c].code = "ok"
          /\ wire' = Deliver(c, Outcome("resource_exhausted", NoCall))
    /\ handler' = [handler EXCEPT ![c] = "over"]
    /\ UNCHANGED <<call, client, answer, ctxDone, held, running, cache>>
-----------------------------------------------------------------------------
(* ExecuteToolStream: the goroutine that runs the tool *)

(* A cached error is the answer; a cached response is a stream of one      *)
(* message; otherwise the goroutine is started.                            *)
ExecuteToolStream(c) ==
    LET k == KeyOf(call[c].req)
        hit == getCached(k) IN
    /\ handler[c] = "arrive"
    /\ call[c].kind = "stream"
    /\ late' = [late EXCEPT ![c] = window[call[c].req]]
    /\ idempotency' = AfterLookup(k)
    /\ \/ /\ hit = None
          /\ producer' = [producer EXCEPT ![c] = "run"]
          /\ handler' = [handler EXCEPT ![c] = "recv"]
          /\ UNCHANGED <<held, ch>>
       \/ /\ hit.code = "ok"
          /\ ch' = [ch EXCEPT ![c] = <<hit, ClosedMark>>]
          /\ handler' = [handler EXCEPT ![c] = "recv"]
          /\ UNCHANGED <<held, producer>>
       \/ /\ hit.code \in Codes
          /\ held' = [held EXCEPT ![c] = hit]
          /\ handler' = [handler EXCEPT ![c] = "reply"]
          /\ UNCHANGED <<producer, ch>>
    /\ UNCHANGED <<call, client, answer, ctxDone, wire, outcome, errCh, progress, window>>

(* The tool reports progress: it waits for room in the channel, or gives   *)
(* the message up once the context is over.                                *)
ReportProgress(c) ==
    /\ producer[c] = "run"
    /\ progress[c] < MaxProgress
    /\ progress' = [progress EXCEPT ![c] = @ + 1]
    /\ producer' = [producer EXCEPT ![c] = "progress"]
    /\ UNCHANGED <<call, client, answer, ctxDone, handling, outcome, ch, errCh, cache>>

OnProgress(c) ==
    /\ producer[c] = "progress"
    /\ producer' = [producer EXCEPT ![c] = "run"]
    /\ \/ /\ Len(ch[c]) < StreamCap
          /\ ch' = [ch EXCEPT ![c] = Append(@, Progress)]
       \/ /\ ctxDone[c]
          /\ UNCHANGED ch
    /\ UNCHANGED <<call, client, answer, ctxDone, handling, outcome, errCh, progress, cache>>

StreamReturns(c) ==
    /\ producer[c] = "run"
    /\ setCached(KeyOf(call[c].req), Outcome("ok", c))
    /\ outcome' = [outcome EXCEPT ![c] = Outcome("ok", c)]
    /\ producer' = [producer EXCEPT ![c] = "push"]
    /\ UNCHANGED <<call, client, answer, ctxDone, handling, ch, errCh, progress, late>>

(* Mutant: the error does not get into the channel. *)
StreamFailsSilently(c, code) ==
    /\ producer[c] = "run"
    /\ code # "ok"
    /\ setCached(KeyOf(call[c].req), Outcome(code, c))
    /\ outcome' = [outcome EXCEPT ![c] = Outcome(code, c)]
    /\ producer' = [producer EXCEPT ![c] = "close"]
    /\ UNCHANGED <<call, client, answer, ctxDone, handling, ch, errCh, progress, late>>

(* The error channel has room for the one error: it is filled before the   *)
(* channel of messages is closed.                                          *)
StreamFails(c, code) ==
    /\ producer[c] = "run"
    /\ code # "ok"
    /\ setCached(KeyOf(call[c].req), Outcome(code, c))
    /\ outcome' = [outcome EXCEPT ![c] = Outcome(code, c)]
    /\ errCh' = [errCh EXCEPT ![c] = Outcome(code, c)]
    /\ producer' = [producer EXCEPT ![c] = "close"]
    /\ UNCHANGED <<call, client, answer, ctxDone, handling, ch, progress, late>>

(* The response waits for room and does not look at the context. *)
PushResponse(c) ==
    /\ producer[c] = "push"
    /\ Len(ch[c]) < StreamCap
    /\ ch' = [ch EXCEPT ![c] = Append(@, outcome[c])]
    /\ producer' = [producer EXCEPT ![c] = "close"]
    /\ UNCHANGED <<call, client, answer, ctxDone, handling, outcome, errCh, progress, cache>>

(* The deferred closes: done, errCh, ch. *)
CloseChannels(c) ==
    /\ producer[c] = "close"
    /\ ch' = [ch EXCEPT ![c] = Append(@, ClosedMark)]
    /\ producer' = [producer EXCEPT ![c] = "over"]
    /\ progress' = [progress EXCEPT ![c] = 0]
    /\ UNCHANGED <<call, client, answer, ctxDone, handling, outcome, errCh, cache>>
-----------------------------------------------------------------------------
(* ExecuteToolStream: the handler and the client *)

(* A closed channel is drained first, then the error channel is looked at. *)
(* Send fails once the connection is gone, and for a message beyond        *)
(* MaxMessageBytes: the handler returns that error.                        *)
Recv(c) ==
    LET m == Head(ch[c]) IN
    /\ handler[c] = "recv"
    /\ ch[c] # <<>>
    /\ \/ /\ m # ClosedMark
          /\ ~ctxDone[c]
          /\ wire' = Deliver(c, m)
          /\ ch' = [ch EXCEPT ![c] = Tail(@)]
          /\ UNCHANGED <<handler, held>>
       \/ /\ m # ClosedMark
          /\ held' = [held EXCEPT ![c] =
                Outcome(IF ctxDone[c] THEN "canceled" ELSE "resource_exhausted", NoCall)]
          /\ handler' = [handler EXCEPT ![c] = "closing"]
          /\ ch' = [ch EXCEPT ![c] = Tail(@)]
          /\ UNCHANGED wire
       \/ /\ m = ClosedMark
          /\ held' = [held EXCEPT ![c] = IF errCh[c] # None THEN errCh[c] ELSE EOF]
          /\ handler' = [handler EXCEPT ![c] = "closing"]
          /\ UNCHANGED <<wire, ch>>
    /\ UNCHANGED <<call, client, answer, ctxDone, producer, outcome, errCh, progress, cache>>

(* Mutant: Close waits for the goroutine only. *)
StreamCloseWaits(c) ==
    /\ handler[c] = "closing"
    /\ producer[c] \in {"none", "over"}
    /\ wire' = Deliver(c, held[c])
    /\ handler' = [handler EXCEPT ![c] = "over"]
    /\ UNCHANGED <<call, client, answer, ctxDone, held, running, cache>>

(* The deferred recv.Close waits for the goroutine or the context. *)
StreamClose(c) ==
    /\ handler[c] = "closing"
    /\ producer[c] \in {"none", "over"} \/ ctxDone[c]
    /\ wire' = Deliver(c, held[c])
    /\ handler' = [handler EXCEPT ![c] = "over"]
    /\ UNCHANGED <<call, client, answer, ctxDone, held, running, cache>>

(* The first response or error is the call's; a stream that ends without   *)
(* either is an internal error.  The client closes the response then.      *)
ClientRecv(c) ==
    /\ client[c] = "waiting"
    /\ wire[c] # None
    /\ wire' = [wire EXCEPT ![c] = None]
    /\ client' = [client EXCEPT ![c] = "done"]
    /\ answer' = [answer EXCEPT ![c] = fromConnectError(wire[c])]
    /\ ctxDone' = [ctxDone EXCEPT ![c] = TRUE]
    /\ UNCHANGED <<call, handler, held, running, cache>>
-----------------------------------------------------------------------------
Client(c) ==
    \/ Call(c, "forward", <<>>) \/ Call(c, "agent", <<>>)
    \/ \E kind \in {"unary", "stream"}, r \in Requests : Call(c, kind, r)
    \/ ClientLeaves(c)

Serve(c) ==
    \/ validate(c) \/ Forward(c) \/ AgentForward(c) \/ ExecuteTool(c) \/ Reply(c)
    \/ ExecuteToolStream(c) \/ Recv(c) \/ StreamClose(c)
    \/ ClientRecv(c)

Produce(c) ==
    \/ ReportProgress(c) \/ OnProgress(c) \/ StreamReturns(c)
    \/ PushResponse(c) \/ CloseChannels(c)
    \/ \E code \in Returns(c) : HostReturns(c, code) \/ StreamFails(c, code)

ToolsStep == \E c \in Calls : Serve(c) \/ Produce(c)

ToolsNext ==
    \/ \E c \in Calls : Client(c)
    \/ ToolsStep
    \/ \E r \in Requests : Expire(r)
    \/ evictExpired
-----------------------------------------------------------------------------
(* Properties *)

(* The outcome of the server reaches the client as it was: an answer that  *)
(* came from a run belongs to a run of the very same request and has the   *)
(* code that run ended with; and a stream that ends cleanly has carried    *)
(* its response, so that a failed tool never looks like a finished one.    *)
ToolAnswersAreHonest ==
    \A c \in Calls :
       /\ answer[c].run # NoCall =>
             /\ call[answer[c].run].req = call[c].req
             /\ answer[c] = outcome[answer[c].run]
       /\ held[c] = EOF /\ producer[c] # "none" => outcome[c].code = "ok"

(* A duplicate that arrives while the outcome of an earlier call is within *)
(* its TTL does not run the tool again: the server answers it with that    *)
(* outcome, whichever of the two methods either call used.                 *)
LateDuplicatesAreCached ==
    \A c \in Calls : late[c] # None =>
       /\ outcome[c] = None /\ producer[c] = "none"
       /\ answer[c].run # NoCall => answer[c] = late[c]

(* The response of a tool waits for room in a channel that nobody reads    *)
(* once the handler has gone (it does not look at the context).            *)
StuckResponse(c) == producer[c] = "push" /\ Len(ch[c]) >= StreamCap /\ handler[c] = "over"

(* A call whose client has gone and whose handler or goroutine goes on. *)
AbandonedCall ==
    \E c \in Calls :
       /\ ctxDone[c]
       /\ handler[c] # "over" \/ (producer[c] \notin {"none", "over"} /\ ~StuckResponse(c))
=============================================================================
