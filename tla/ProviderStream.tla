--------------------------- MODULE ProviderStream ---------------------------
(***************************************************************************)
(* One streaming LLM call of internal/ai: the goroutine of a provider      *)
(* client (anthropic, openai or google) reads server-sent events, adds     *)
(* them up to a message and sends its own events through an EventStream to *)
(* the consumer, ending with a done or an error event and a result.        *)
(*                                                                         *)
(* Content is counted in fragments.  Block k of a message is a record      *)
(* [kind, n, whole]: n fragments so far, and of a tool call whether its    *)
(* arguments are complete JSON.  A text or thinking block the server sent  *)
(* is not whole when parts of it, not counted in n, came with a thought    *)
(* signature (google), and a block of kind "other" is of a type the client *)
(* does not know (anthropic).  An anthropic message numbers its blocks   *)
(* as they come; openai and google have one thinking block (0), one text   *)
(* block (1) and tool calls after them, which is also the order of the     *)
(* final message.  The server is external: it follows its wire format, and *)
(* the stream may break off, be cut cleanly or carry an error anywhere.    *)
(***************************************************************************)
EXTENDS Naturals, Sequences, FiniteSets

CONSTANTS
    Providers,   \* the API clients of this instance
    MaxBlocks,   \* bound: blocks of a message
    MaxFrags,    \* bound: fragments of a block
    MaxSent,     \* bound: blocks and fragments of a message together
    BufferSize   \* defaultEventBufferSize

ASSUME StreamConstants ==
    /\ Providers \subseteq {"anthropic", "openai", "google"}
    /\ MaxBlocks \in Nat \ {0, 1, 2}
    /\ MaxFrags \in Nat \ {0}
    /\ MaxSent \in Nat
    /\ BufferSize \in Nat \ {0}

Keys == 0 .. MaxBlocks - 1
ToolKeys == 2 .. MaxBlocks - 1    \* openai and google
NoBlock == MaxBlocks
Absent == [kind |-> "none", n |-> 0, whole |-> FALSE]
NoMessage == [k \in Keys |-> Absent]

VARIABLES
    provider,
    (* the server *)
    sent,       \* the blocks it has sent
    open,       \* anthropic: the block that was started and not stopped
    phase,      \* "open", "reason" once the finish reason is out, "over"
    reason,     \* the finish reason it sent
    fault,      \* what went wrong on its side or on the wire, "none" so far
    (* the client goroutine *)
    pc,         \* "read", "send", "publish", "close", "closed"
    after,      \* where it goes when its events are sent
    out,        \* the events it has to send, in order
    started,    \* the start event is out
    acc,        \* streamAccumulator: the blocks received
    stopReason, \* streamAccumulator.stopReason
    blocked,    \* google: safetyBlocked
    done,       \* anthropic: sseProcessor.done
    cancelled,  \* the call's context
    (* the EventStream *)
    buf,        \* the events in the channel
    terminated, \* a result was published
    result,     \* the result channel, capacity 1
    (* the consumer *)
    got,        \* per block: started, the deltas received, ended
    ends,       \* the done and error events received, in order
    taken,      \* what Result() returned, in a sequence that is empty before
    abandoned   \* the consumer left without draining

server == <<sent, open, phase, reason, fault>>
parser == <<started, acc, stopReason, blocked, done>>
stream == <<buf, terminated, result>>
consumer == <<got, ends, taken, abandoned>>
vars == <<provider, server, pc, after, out, parser, cancelled, stream, consumer>>

Event(type, k) == [type |-> type, k |-> k, msg |-> NoMessage, reason |-> "none"]
DoneEvent(m, r) == [type |-> "done", k |-> 0, msg |-> m, reason |-> r]
ErrorEvent == Event("error", 0)
Terminal(e) == e.type \in {"done", "error"}

Init ==
    /\ provider \in Providers
    /\ sent = NoMessage
    /\ open = NoBlock
    /\ phase = "open"
    /\ reason = "none"
    /\ fault = "none"
    /\ pc = "read"
    /\ after = "read"
    /\ out = <<>>
    /\ started = FALSE
    /\ acc = NoMessage
    /\ stopReason = "stop"
    /\ blocked = FALSE
    /\ done = FALSE
    /\ cancelled = FALSE
    /\ buf = <<>>
    /\ terminated = FALSE
    /\ result = <<>>
    /\ got = [k \in Keys |-> [start |-> FALSE, n |-> 0, end |-> FALSE]]
    /\ ends = <<>>
    /\ taken = <<>>
    /\ abandoned = FALSE

----------------------------------------------------------------------------
(* EventStream *)

(* The goroutine hands the events over one at a time, then goes on at next. *)
Emit(events, next) ==
    /\ out' = events
    /\ after' = next
    /\ pc' = IF events = <<>> THEN next ELSE "send"

(* runStream's error becomes the error event; Close is deferred. *)
sendErrorEvent == Emit(<<ErrorEvent>>, "close")

SentOne ==
    /\ out' = Tail(out)
    /\ pc' = IF Len(out) = 1 THEN after ELSE "send"

(* Send blocks while the channel is full. *)
Send ==
    /\ pc = "send"
    /\ Len(buf) < BufferSize
    /\ buf' = Append(buf, Head(out))
    /\ IF Terminal(Head(out)) THEN pc' = "publish" /\ UNCHANGED out ELSE SentOne
    /\ UNCHANGED <<provider, server, after, parser, cancelled, terminated, result, consumer>>

(* Mutant: every terminal event publishes a result. *)
PublishEvery ==
    /\ pc = "publish"
    /\ result = <<>>
    /\ terminated' = TRUE
    /\ result' = <<Head(out)>>
    /\ SentOne
    /\ UNCHANGED <<provider, server, after, parser, cancelled, buf, consumer>>

(* The first terminal event publishes the result; the swap of terminated    *)
(* keeps a second one from blocking on the full result channel.             *)
Publish ==
    /\ pc = "publish"
    /\ IF terminated
       THEN UNCHANGED <<terminated, result>>
       ELSE terminated' = TRUE /\ result' = <<Head(out)>>
    /\ SentOne
    /\ UNCHANGED <<provider, server, after, parser, cancelled, buf, consumer>>

(* Close injects an error result when no terminal event was sent. *)
Close ==
    /\ pc = "close"
    /\ pc' = "closed"
    /\ IF terminated
       THEN UNCHANGED <<terminated, result>>
       ELSE terminated' = TRUE /\ result' = <<ErrorEvent>>
    /\ UNCHANGED <<provider, server, after, out, parser, cancelled, buf, consumer>>

(* The consumer ranges over the channel, *)
Drain ==
    /\ ~abandoned
    /\ buf # <<>>
    /\ buf' = Tail(buf)
    /\ LET e == Head(buf) IN
       /\ ends' = IF Terminal(e) THEN Append(ends, e) ELSE ends
       /\ got' = CASE e.type = "start" -> [got EXCEPT ![e.k].start = TRUE]
                   [] e.type = "delta" -> [got EXCEPT ![e.k].n = @ + 1]
                   [] e.type = "end"   -> [got EXCEPT ![e.k].end = TRUE]
                   [] OTHER            -> got
    /\ UNCHANGED <<provider, server, pc, after, out, parser, cancelled,
                   terminated, result, taken, abandoned>>

(* and asks for the result when it is closed. *)
Result ==
    /\ ~abandoned
    /\ pc = "closed"
    /\ buf = <<>>
    /\ result # <<>>
    /\ taken' = result
    /\ result' = <<>>
    /\ UNCHANGED <<provider, server, pc, after, out, parser, cancelled,
                   buf, terminated, got, ends, abandoned>>

Abandon ==
    /\ ~abandoned
    /\ taken = <<>>
    /\ abandoned' = TRUE
    /\ UNCHANGED <<provider, server, pc, after, out, parser, cancelled, stream,
                   got, ends, taken>>

Cancel ==
    /\ ~cancelled
    /\ pc # "closed"
    /\ cancelled' = TRUE
    /\ UNCHANGED <<provider, server, pc, after, out, parser, stream, consumer>>

----------------------------------------------------------------------------
(* Steps all clients share *)

(* The next event has arrived; the context is looked at first. *)
Reading(p) ==
    /\ provider = p
    /\ pc = "read"
    /\ ~cancelled

(* Room for more content within the bounds. *)
MoreContent ==
    /\ phase = "open"
    /\ Cardinality({<<k, i>> \in Keys \X (0 .. MaxFrags) : sent[k] # Absent /\ i <= sent[k].n})
         < MaxSent

idle == <<provider, cancelled, stream, consumer>>

(* runStream sees the end of the context before the next event, or the body *)
(* reader reports it.                                                       *)
RequestCanceled ==
    /\ pc = "read"
    /\ cancelled
    /\ sendErrorEvent
    /\ UNCHANGED <<idle, server, parser>>

(* The request cannot be built or sent, or the status is not 2xx. *)
RequestFails ==
    /\ Reading(provider)
    /\ ~started
    /\ phase = "open"
    /\ fault' = "http"
    /\ phase' = "over"
    /\ sendErrorEvent
    /\ UNCHANGED <<idle, parser, sent, open, reason>>

(* The connection breaks, the scanner's limits are hit, or an event cannot  *)
(* be decoded.  anthropic reads on after message_stop: this may come later. *)
ScanFails ==
    /\ pc = "read"
    /\ fault \in {"none", "length", "safety"}
    /\ fault' = "broken"
    /\ phase' = "over"
    /\ sendErrorEvent
    /\ UNCHANGED <<idle, parser, sent, open, reason>>

(* openai's error chunk has no choices: it decodes, and is passed over. *)
ErrorChunk ==
    /\ Reading("openai")
    /\ fault = "none" /\ phase = "open"
    /\ fault' = "refused"
    /\ phase' = "reason"
    /\ started' = TRUE
    /\ Emit(IF started THEN <<>> ELSE <<Event("message", 0)>>, "read")
    /\ UNCHANGED <<idle, sent, open, reason, acc, stopReason, blocked, done>>

(* anthropic's error event, google's blocked prompt. *)
ServerRefuses ==
    /\ provider \in {"anthropic", "google"}
    /\ Reading(provider)
    /\ fault = "none"
    /\ fault' = "refused"
    /\ phase' = "over"
    /\ sendErrorEvent
    /\ UNCHANGED <<idle, parser, sent, open, reason>>

(* The tool calls, in index order. *)
orderedTools ==
    SelectSeq([i \in 1 .. MaxBlocks |-> i - 1], LAMBDA k : acc[k].kind = "tool")

(* Tool arguments are parsed as a whole: nothing received stands for {},    *)
(* anything else must be complete.                                          *)
ParseFinal(k) == acc[k].n = 0 \/ sent[k].whole

(* A server that reaches its token limit leaves the last call incomplete. *)
Truncated(k) == sent[k].kind = "tool" /\ ~sent[k].whole

----------------------------------------------------------------------------
(* anthropic: blocks with explicit starts and stops *)

MessageStart ==
    /\ Reading("anthropic")
    /\ ~started
    /\ phase = "open"
    /\ started' = TRUE
    /\ Emit(<<Event("message", 0)>>, "read")
    /\ UNCHANGED <<idle, server, acc, stopReason, blocked, done>>

(* A block of another type is not kept and not announced. *)
onBlockStart(k, kind) ==
    /\ Reading("anthropic")
    /\ started
    /\ MoreContent
    /\ open = NoBlock
    /\ sent[k] = Absent
    /\ \A j \in 0 .. k - 1 : sent[j] # Absent
    /\ open' = k
    /\ \E whole \in {kind # "tool", TRUE} :     \* a call may have no arguments
         sent' = [sent EXCEPT ![k] = [kind |-> kind, n |-> 0, whole |-> whole]]
    /\ IF kind = "other" THEN UNCHANGED acc /\ Emit(<<>>, "read")
       ELSE /\ acc' = [acc EXCEPT ![k] = [kind |-> kind, n |-> 0, whole |-> kind # "tool"]]
            /\ Emit(<<Event("start", k)>>, "read")
    /\ UNCHANGED <<idle, phase, reason, fault, started, stopReason, blocked, done>>

(* A fragment of block k goes out: of a tool call it may be the last one. *)
Fragment(k) ==
    /\ sent[k].n < MaxFrags
    /\ \/ /\ sent[k].kind # "tool"
          /\ sent' = [sent EXCEPT ![k].n = @ + 1]
       \/ /\ Truncated(k)
          /\ \E last \in BOOLEAN :
               sent' = [sent EXCEPT ![k].n = @ + 1, ![k].whole = last]

onBlockDelta(k) ==
    /\ Reading("anthropic")
    /\ open = k
    /\ MoreContent
    /\ Fragment(k)
    /\ sent[k].kind # "other"
    /\ acc' = [acc EXCEPT ![k].n = @ + 1]
    /\ Emit(<<Event("delta", k)>>, "read")
    /\ UNCHANGED <<idle, open, phase, reason, fault, started, stopReason, blocked, done>>

(* Of a block that was not kept, a delta of another type is passed over, and *)
(* tool input is an error: there is no call it could belong to.              *)
UnknownBlockDelta(k) ==
    /\ Reading("anthropic")
    /\ open = k
    /\ MoreContent
    /\ sent[k].kind = "other"
    /\ Fragment(k)
    /\ \/ Emit(<<>>, "read") /\ UNCHANGED fault
       \/ sendErrorEvent /\ fault' = "unknown"
    /\ UNCHANGED <<idle, open, phase, reason, parser>>

(* The stop of a tool block replaces its empty arguments by the parsed ones. *)
onBlockStop(k) ==
    /\ Reading("anthropic")
    /\ open = k
    /\ phase = "open"
    /\ open' = NoBlock
    /\ fault' = IF Truncated(k) THEN "length" ELSE fault
    /\ IF sent[k].kind = "tool" /\ ~ParseFinal(k)
       THEN sendErrorEvent /\ UNCHANGED acc
       ELSE IF acc[k] = Absent THEN UNCHANGED acc /\ Emit(<<>>, "read")
       ELSE /\ acc' = [acc EXCEPT ![k].whole = sent[k].whole]
            /\ Emit(<<Event("end", k)>>, "read")
    /\ UNCHANGED <<idle, sent, phase, reason, started, stopReason, blocked, done>>

(* The wire's finish reasons and what they are mapped to; one of those that *)
(* share a result stands for all of them.                                   *)
mapStopReason ==
    [end_turn |-> "stop", max_tokens |-> "length", tool_use |-> "toolUse", refusal |-> "error"]

(* The message is complete but for its terminator. *)
FinishReason(r, mapped) ==
    /\ phase = "open"
    /\ fault = "length" => mapped = "length"
    /\ phase' = "reason"
    /\ reason' = r
    /\ stopReason' = mapped

MessageDelta(r) ==
    /\ Reading("anthropic")
    /\ started
    /\ open = NoBlock
    /\ FinishReason(r, mapStopReason[r])
    /\ UNCHANGED <<idle, pc, after, out, sent, open, fault, started, acc, blocked, done>>

(* The done event, once. *)
finish(next) ==
    /\ done' = TRUE
    /\ Emit(IF done THEN <<>> ELSE <<DoneEvent(acc, stopReason)>>, next)

MessageStop ==
    /\ Reading("anthropic")
    /\ phase = "reason"
    /\ phase' = "over"
    /\ finish("read")
    /\ UNCHANGED <<idle, sent, open, reason, fault, started, acc, stopReason, blocked>>

----------------------------------------------------------------------------
(* openai: chunks of deltas, the blocks are put together at the end *)

StartOnce == IF started THEN <<>> ELSE <<Event("message", 0)>>

Grow(blocks, k, kind, whole) ==
    [blocks EXCEPT ![k] = [kind |-> kind, n |-> @.n + 1, whole |-> whole]]

(* Thinking and text have no start and no end events. *)
processChoice(k) ==
    /\ Reading("openai")
    /\ MoreContent
    /\ k \in {0, 1}
    /\ sent[k].n < MaxFrags
    /\ LET kind == IF k = 0 THEN "thinking" ELSE "text" IN
       /\ sent' = Grow(sent, k, kind, TRUE)
       /\ acc' = Grow(acc, k, kind, TRUE)
    /\ started' = TRUE
    /\ Emit(Append(StartOnce, Event("delta", k)), "read")
    /\ UNCHANGED <<idle, open, phase, reason, fault, stopReason, blocked, done>>

(* The first chunk of an index starts the call, with or without arguments. *)
processToolCallDelta(k) ==
    /\ Reading("openai")
    /\ MoreContent
    /\ sent[k] = Absent \/ Truncated(k)
    /\ \A j \in 2 .. k - 1 : sent[j] # Absent
    /\ \E n \in {0, 1}, last \in BOOLEAN :
         /\ n = 0 => sent[k] = Absent
         /\ sent[k].n + n <= MaxFrags
         /\ sent' = [sent EXCEPT ![k] = [kind |-> "tool", n |-> @.n + n, whole |-> last]]
         /\ acc' = [acc EXCEPT ![k] = [kind |-> "tool", n |-> @.n + n, whole |-> FALSE]]
         /\ Emit(StartOnce \o (IF sent[k] = Absent THEN <<Event("start", k)>> ELSE <<>>)
                           \o (IF n = 0 THEN <<>> ELSE <<Event("delta", k)>>), "read")
    /\ started' = TRUE
    /\ UNCHANGED <<idle, open, phase, reason, fault, stopReason, blocked, done>>

mapChoiceReason ==
    [stop |-> "stop", length |-> "length", tool_calls |-> "toolUse", content_filter |-> "stop"]

ChoiceFinishReason(r) ==
    /\ Reading("openai")
    /\ \A k \in Keys : Truncated(k) => r = "length"
    /\ FinishReason(r, mapChoiceReason[r])
    /\ fault' = IF \E k \in Keys : Truncated(k) THEN "length" ELSE fault
    /\ started' = TRUE
    /\ Emit(StartOnce, "read")
    /\ UNCHANGED <<idle, sent, open, acc, blocked, done>>

(* Every call, in index order, gets its end event and its arguments. *)
finalizeToolCalls ==
    [k \in Keys |-> IF acc[k].kind = "tool" THEN [acc[k] EXCEPT !.whole = sent[k].whole]
                    ELSE acc[k]]

(* Mutant: a call whose arguments do not parse is passed over. *)
finishStreamSkips ==
    /\ Emit([i \in 1 .. Len(orderedTools) |-> Event("end", orderedTools[i])]
              \o <<DoneEvent(finalizeToolCalls, stopReason)>>, "close")
    /\ acc' = finalizeToolCalls

(* The first call that does not parse ends the stream with an error. *)
finishStream ==
    LET tools == orderedTools
        bad == {i \in DOMAIN tools : ~ParseFinal(tools[i])}
        good == {i \in DOMAIN tools : \A j \in bad : i < j}
    IN  /\ Emit([i \in good |-> Event("end", tools[i])]
                  \o (IF bad = {} THEN <<DoneEvent(finalizeToolCalls, stopReason)>>
                                  ELSE <<ErrorEvent>>), "close")
        /\ acc' = finalizeToolCalls

DoneMarker ==
    /\ Reading("openai")
    /\ phase = "reason"
    /\ phase' = "over"
    /\ finishStream
    /\ UNCHANGED <<idle, sent, open, reason, fault, started, stopReason, blocked, done>>

----------------------------------------------------------------------------
(* google: chunks of parts, function calls arrive complete *)

(* A thought or text part of candidate 0.  Of a part with a thought signature *)
(* only the signature is kept.                                                *)
CandidateText(k) ==
    /\ Reading("google")
    /\ MoreContent
    /\ k \in {0, 1}
    /\ LET kind == IF k = 0 THEN "thinking" ELSE "text" IN
       \/ /\ sent[k].n < MaxFrags
          /\ sent' = Grow(sent, k, kind, sent[k] = Absent \/ sent[k].whole)
          /\ acc' = Grow(acc, k, kind, TRUE)
          /\ Emit(Append(StartOnce, Event("delta", k)), "read")
       \/ /\ sent' = [sent EXCEPT ![k] = [kind |-> kind, n |-> @.n, whole |-> FALSE]]
          /\ Emit(StartOnce, "read")
          /\ UNCHANGED acc
    /\ started' = TRUE
    /\ UNCHANGED <<idle, open, phase, reason, fault, stopReason, blocked, done>>

CandidateFunctionCall(k) ==
    /\ Reading("google")
    /\ MoreContent
    /\ sent[k] = Absent
    /\ \A j \in 2 .. k - 1 : sent[j] # Absent
    /\ sent' = Grow(sent, k, "tool", TRUE)
    /\ acc' = Grow(acc, k, "tool", TRUE)
    /\ started' = TRUE
    /\ Emit(StartOnce \o <<Event("start", k), Event("end", k)>>, "read")
    /\ UNCHANGED <<idle, open, phase, reason, fault, stopReason, blocked, done>>

mapFinishReason ==
    [STOP |-> "stop", MAX_TOKENS |-> "length", MALFORMED_FUNCTION_CALL |-> "error"]

CandidateFinish(r) ==
    /\ Reading("google")
    /\ FinishReason(r, mapFinishReason[r])
    /\ started' = TRUE
    /\ Emit(StartOnce, "read")
    /\ UNCHANGED <<idle, sent, open, fault, acc, blocked, done>>

(* The finish reason is a safety block: the chunk's parts are not looked at, *)
(* the stream is read to its end, which is then an error.                    *)
SafetyBlock ==
    /\ Reading("google")
    /\ phase = "open"
    /\ phase' = "reason"
    /\ fault' = "safety"
    /\ blocked' = TRUE
    /\ started' = TRUE
    /\ Emit(StartOnce, "read")
    /\ UNCHANGED <<idle, sent, open, reason, acc, stopReason, done>>

emitDone == Emit(<<DoneEvent(acc, stopReason)>>, "close")

(* Mutant: the block is forgotten when the stream ends. *)
endStreamUnblocked == emitDone

(* A response that the safety filter blocked is an error. *)
endStream == IF blocked THEN sendErrorEvent ELSE emitDone

----------------------------------------------------------------------------
(* The body ends without an error: for google always, for the others also  *)
(* when a proxy or the server closes early.  What was received is the      *)
(* message.                                                                *)
EndOfBody ==
    /\ pc = "read"
    /\ phase' = "over"
    /\ fault' = IF \/ fault # "none"
                   \/ phase = "over"
                   \/ phase = "reason" /\ provider # "anthropic"
                THEN fault ELSE "cut"
    /\ \/ provider = "anthropic" /\ finish("close") /\ UNCHANGED acc
       \/ provider = "openai" /\ finishStream /\ UNCHANGED done
       \/ provider = "google" /\ endStream /\ UNCHANGED <<acc, done>>
    /\ UNCHANGED <<idle, sent, open, reason, started, stopReason, blocked>>

----------------------------------------------------------------------------
Wire ==
    \/ RequestFails \/ ScanFails \/ ErrorChunk \/ ServerRefuses \/ EndOfBody
    \/ MessageStart \/ MessageStop \/ DoneMarker \/ SafetyBlock
    \/ \E k \in Keys :
         \/ \E kind \in {"text", "thinking", "tool", "other"} : onBlockStart(k, kind)
         \/ onBlockDelta(k) \/ UnknownBlockDelta(k) \/ onBlockStop(k)
         \/ processChoice(k) \/ CandidateText(k)
    \/ \E k \in ToolKeys : processToolCallDelta(k) \/ CandidateFunctionCall(k)
    \/ \E r \in DOMAIN mapStopReason : MessageDelta(r)
    \/ \E r \in DOMAIN mapChoiceReason : ChoiceFinishReason(r)
    \/ \E r \in DOMAIN mapFinishReason : CandidateFinish(r)

Client == RequestCanceled \/ Send \/ Publish \/ Close
Consumer == Drain \/ Result

Next == Wire \/ Client \/ Consumer \/ Abandon \/ Cancel

Spec == Init /\ [][Next]_vars

(* Goroutines that can go on do, the consumer's included; the server owes   *)
(* nothing.                                                                 *)
FairSpec == Spec /\ WF_vars(Client) /\ WF_vars(Consumer)

----------------------------------------------------------------------------
(* Properties *)

FirstEnd == Head(ends)
Calls(m) == {k \in Keys : m[k].kind = "tool"}

(* What the clients read of the blocks the server sent. *)
Readable(m) ==
    [k \in Keys |->
        IF m[k].kind = "other" \/ (m[k].kind # "tool" /\ ~m[k].whole /\ m[k].n = 0) THEN Absent
        ELSE [m[k] EXCEPT !.whole = @ \/ m[k].kind # "tool"]]

(* A message reported done has every block and every fragment the server    *)
(* sent, with complete arguments and the limit if it was hit, whatever the  *)
(* interleaving of the tool calls' fragments, but for two things the        *)
(* parsers pass over in silence: anthropic's blocks of other types          *)
(* (sse_parser.go:151) and the text of google's parts with a thought        *)
(* signature (sse_parser.go:163).  Only a stream that was cut cleanly, or   *)
(* that openai's server ended with an error, may be reported done with      *)
(* less, and only a call that had no argument yet, or anthropic's unstopped *)
(* block, may then be incomplete.                                           *)
DoneIsWhole ==
    ends # <<>> /\ FirstEnd.type = "done" =>
        /\ fault = "none" => /\ FirstEnd.msg = Readable(sent)
                             /\ FirstEnd.reason = "length" <=>
                                  reason \in {"max_tokens", "length", "MAX_TOKENS"}
        /\ \A k \in Calls(FirstEnd.msg) :
             FirstEnd.msg[k].whole \/ sent[k].n = 0 \/ (provider = "anthropic" /\ open = k)

(* The consumer's result is the first terminal event it saw, an error only  *)
(* when something failed, and done only when nothing did but the end of the *)
(* stream, something after anthropic's message_stop, or openai's server     *)
(* with an error chunk, which the client does not look at                   *)
(* (openai/sse_parser.go:66).                                               *)
OutcomeIsHonest ==
    taken # <<>> =>
        /\ ends # <<>> => taken[1] = FirstEnd
        /\ taken[1].type = "error" => fault # "none" \/ cancelled
        /\ taken[1].type = "done" =>
             fault \in {"none", "cut", "length"} \/ done \/ (provider = "openai" /\ fault = "refused")

(* The deltas a consumer has seen when the done event arrives add up to the *)
(* message, and every complete tool call was announced and ended.           *)
DeltasMakeMessage ==
    ends # <<>> /\ FirstEnd.type = "done" =>
        \A k \in Keys : LET b == FirstEnd.msg[k] IN
            /\ b.kind # "tool" => got[k].n = b.n
            /\ b.kind = "tool" => got[k].start /\ (b.whole => got[k].end)

(* A cancelled call ends and gives its result, unless the consumer left:    *)
(* also when an error follows the done event or the buffer is full.         *)
CancelEnds == cancelled ~> (taken # <<>> \/ abandoned)

(* The message reported done is what the parsers read of the server's, in   *)
(* the done event and in the deltas before it.                              *)
MessageIsWhole == DoneIsWhole /\ DeltasMakeMessage
=============================================================================
