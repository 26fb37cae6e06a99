----------------------------- MODULE Conversation -----------------------------
(***************************************************************************)
(* The conversation log of a session and what becomes of it: the native    *)
(* driver appends the messages of a turn (agent/loop.go), a client keeps   *)
(* the log as records and resumes it after a crash, perhaps on another     *)
(* model (agent/api/codec.go, ResumeSession of agent/service.go), and      *)
(* every provider call replays it: TransformMessages (ai/transform.go),    *)
(* then the request of the provider (provider/*/request.go).               *)
(*                                                                         *)
(* A text is a number, 10 * (its message's index) + its place in Contents. *)
(* IDs of tool calls are numbers too and repeat from one message to the    *)
(* next, as the ones made up for Gemini do.  A thinking block stands for   *)
(* the thought and its signature.                                          *)
(***************************************************************************)
EXTENDS Integers, Sequences, FiniteSets, SequencesExt

CONSTANTS
    Models,        \* records: provider, id, and the compat flags of OpenAI models
    Contents,      \* the contents of assistant messages: sequences of blocks
    StopReasons,   \* a provider reports any of them with its done event
    MaxLog,        \* bound on the length of the log
    MaxTurns,      \* bound on the turns of a driver
    MaxResumes     \* bound on crashes

VARIABLES
    log,           \* Session.ConversationLog
    turn,          \* NativeDriver.turn
    stage,         \* where the driver is: "idle", "stream", "tools"
    todo,          \* IDs of the tool calls left to execute
    model,         \* cfg.Model
    resumes        \* crashes so far

-----------------------------------------------------------------------------
(* Messages *)

Text(n) == [type |-> "text", text |-> n]
Call(id) == [type |-> "call", id |-> id]
Thinking(n) == [type |-> "thinking", text |-> n]
Redacted == [type |-> "redacted"]

UserMessage(t, n) == [role |-> "user", turn |-> t, content |-> <<Text(n)>>]
AssistantMessage(t, from, stop, content) ==
    [role |-> "assistant", turn |-> t, from |-> from, stop |-> stop, content |-> content]
ToolResultMessage(t, id) == [role |-> "result", turn |-> t, id |-> id]

Numbered(content, base) ==
    [i \in DOMAIN content |->
        IF content[i].type \in {"text", "thinking"}
        THEN [content[i] EXCEPT !.text = base + @] ELSE content[i]]

CallIds(content) ==
    LET calls == SelectSeq(content, LAMBDA b : b.type = "call")
    IN  [i \in DOMAIN calls |-> calls[i].id]

(* What identifies a model: its provider (with the API) and its ID. *)
Origin(m) == [provider |-> m.provider, id |-> m.id]
-----------------------------------------------------------------------------
(* The turns of the driver *)

Init ==
    /\ log = <<>> /\ turn = 0 /\ stage = "idle" /\ todo = <<>>
    /\ model \in Models
    /\ resumes = 0

HasRoom == Len(log) < MaxLog

(* The prompt is appended with the number of the turn that begins then. *)
appendUserMessage ==
    /\ stage = "idle" /\ HasRoom /\ turn < MaxTurns
    /\ log' = Append(log, UserMessage(turn + 1, 10 * Len(log)))
    /\ turn' = turn + 1
    /\ stage' = "stream"
    /\ UNCHANGED <<todo, model, resumes>>

(* Agent.Continue needs a conversation. *)
Continue ==
    /\ stage = "idle" /\ turn < MaxTurns /\ log # <<>>
    /\ turn' = turn + 1
    /\ stage' = "stream"
    /\ UNCHANGED <<log, todo, model, resumes>>

(* The tool calls of the answer are executed whatever the stop reason is. *)
ProviderAnswers(content, stop) ==
    /\ stage = "stream" /\ HasRoom
    /\ log' = Append(log, AssistantMessage(turn, Origin(model), stop,
                                           Numbered(content, 10 * Len(log))))
    /\ todo' = CallIds(content)
    /\ stage' = IF todo' = <<>> THEN "idle" ELSE "tools"
    /\ UNCHANGED <<turn, model, resumes>>

(* A provider error or a cancelled context ends the turn. *)
TurnFails ==
    /\ stage = "stream"
    /\ stage' = "idle"
    /\ UNCHANGED <<log, turn, todo, model, resumes>>

(* A tool that fails has a result too.  A terminal tool ends the turn and  *)
(* leaves the calls behind it without a result; after the last tool the    *)
(* provider is called again.                                               *)
executeTool ==
    /\ stage = "tools" /\ HasRoom
    /\ \E terminal \in BOOLEAN :
          /\ log' = Append(log, ToolResultMessage(turn, Head(todo)))
          /\ \/ /\ terminal
                /\ todo' = <<>> /\ stage' = "idle"
             \/ /\ ~terminal
                /\ todo' = Tail(todo)
                /\ stage' = IF todo' = <<>> THEN "stream" ELSE "tools"
    /\ UNCHANGED <<turn, model, resumes>>
-----------------------------------------------------------------------------
(* Records and resume *)

(* A block keeps its fields; the record calls a tool call "tool_use". *)
toRecordBlock(b) == IF b.type = "call" THEN [b EXCEPT !.type = "tool_use"] ELSE b
fromRecordBlock(b) == IF b.type = "tool_use" THEN [b EXCEPT !.type = "call"] ELSE b

(* The provider and the API of an assistant message are not recorded. *)
AgentMessageToRecord(m) ==
    IF m.role = "assistant"
    THEN [m EXCEPT !.from = [id |-> m.from.id],
                   !.content = [i \in DOMAIN m.content |-> toRecordBlock(m.content[i])]]
    ELSE m

RecordToAgentMessage(r) ==
    IF r.role = "assistant"
    THEN [r EXCEPT !.from = [provider |-> "", id |-> r.from.id],
                   !.content = [i \in DOMAIN r.content |-> fromRecordBlock(r.content[i])]]
    ELSE r

Records == [i \in DOMAIN log |-> AgentMessageToRecord(log[i])]

(* A turn that decreases is refused; gaps, repeated roles and unknown tools *)
(* are warnings.                                                            *)
validateResumeLog(records) ==
    \A i \in 2 .. Len(records) : records[i].turn >= records[i - 1].turn

(* The process dies at any point; the client resumes the log in another    *)
(* one, whose driver counts turns anew.                                    *)
ResumeSession(m) ==
    /\ resumes < MaxResumes
    /\ log # <<>>
    /\ validateResumeLog(Records)
    /\ log' = [i \in DOMAIN Records |-> RecordToAgentMessage(Records[i])]
    /\ turn' = 0 /\ stage' = "idle" /\ todo' = <<>>
    /\ model' = m
    /\ resumes' = resumes + 1
-----------------------------------------------------------------------------
(* TransformMessages, as callProvider calls it: without a normalizer of IDs *)

Dropped(m) == m.role = "assistant" /\ m.stop \in {"error", "aborted"}

(* Mutant: thoughts are replayed as they are on any model. *)
transformBlockForeign(b, sameModel) ==
    IF ~sameModel /\ b.type = "redacted" THEN <<>> ELSE <<b>>

(* Thinking of another model is replayed as text, redacted thinking is not. *)
transformBlock(b, sameModel) ==
    CASE sameModel \/ b.type \in {"text", "call"} -> <<b>>
      [] ~sameModel /\ b.type = "thinking" -> <<Text(b.text)>>
      [] ~sameModel /\ b.type = "redacted" -> <<>>

transformAssistantMessage(m, target) ==
    [m EXCEPT !.content = FlattenSeq(
        [i \in DOMAIN m.content |-> transformBlock(m.content[i], m.from = Origin(target))])]

(* The synthetic results, in the order of their IDs. *)
Synthetic(ids, t) ==
    LET s == SetToSortSeq(ids, <) IN [i \in DOMAIN s |-> ToolResultMessage(t, s[i])]

(* Mutant: no flush before an assistant message, only at the end. *)
insertSyntheticAtEnd(messages) ==
    LET Add(acc, m) ==
          CASE m.role = "assistant" ->
                 [out |-> Append(acc.out, m),
                  pending |-> acc.pending \cup Range(CallIds(m.content))]
            [] m.role = "result" ->
                 [out |-> Append(acc.out, m), pending |-> acc.pending \ {m.id}]
            [] m.role = "user" -> [acc EXCEPT !.out = Append(@, m)]
        end == FoldLeft(Add, [out |-> <<>>, pending |-> {}], messages)
    IN  end.out \o Synthetic(end.pending, 0)

(* Pending calls are answered before the next assistant message and at the *)
(* end; a user message in between does not answer them.                    *)
insertSyntheticToolResults(messages) ==
    LET Add(acc, m) ==
          CASE m.role = "assistant" ->
                 [out |-> Append(acc.out \o Synthetic(acc.pending, m.turn), m),
                  pending |-> Range(CallIds(m.content))]
            [] m.role = "result" ->
                 [out |-> Append(acc.out, m), pending |-> acc.pending \ {m.id}]
            [] m.role = "user" -> [acc EXCEPT !.out = Append(@, m)]
        end == FoldLeft(Add, [out |-> <<>>, pending |-> {}], messages)
    IN  end.out \o Synthetic(end.pending, 0)

TransformMessages(messages, target) ==
    LET kept == SelectSeq(messages, LAMBDA m : ~Dropped(m))
    IN  insertSyntheticToolResults(
            [i \in DOMAIN kept |->
                IF kept[i].role = "assistant"
                THEN transformAssistantMessage(kept[i], target) ELSE kept[i]])
-----------------------------------------------------------------------------
(* The requests.  A message on the wire: its role, its texts, its thoughts *)
(* (sent as such, with their signatures), the IDs of its tool calls, and   *)
(* the ID of the call it is the result of (0: none).                       *)

WireMessage(role, texts, thoughts, calls) ==
    [role |-> role, texts |-> texts, thoughts |-> thoughts, calls |-> calls, result |-> 0]
WireResult(role, id) == [WireMessage(role, <<>>, <<>>, <<>>) EXCEPT !.result = id]

BlockTexts(content, types) ==
    LET bs == SelectSeq(content, LAMBDA b : b.type \in types)
    IN  [i \in DOMAIN bs |-> bs[i].text]

(* Anthropic: results are user messages; an empty message is left out. *)
toWireMessage(m) ==
    CASE m.role = "user" -> WireMessage("user", BlockTexts(m.content, {"text"}), <<>>, <<>>)
      [] m.role = "assistant" ->
           WireMessage("assistant", BlockTexts(m.content, {"text"}),
                       BlockTexts(m.content, {"thinking"}), CallIds(m.content))
      [] m.role = "result" -> WireResult("user", m.id)

AnthropicRequest(messages) ==
    LET kept == SelectSeq(messages, LAMBDA m : m.role = "result" \/ m.content # <<>>)
    IN  [k \in DOMAIN kept |-> toWireMessage(kept[k])]

(* OpenAI: the flags of the model decide whether thinking is sent as text, *)
(* whether IDs are replaced (Mistral wants its own format: fresh random    *)
(* IDs) and whether each result is followed by an assistant message.       *)
normalizeToolCallIDs(m, ids, used) ==
    IF m.mistral THEN [i \in DOMAIN ids |-> 100 + used + i] ELSE ids

convertAssistantMessage(m, msg, used) ==
    WireMessage("assistant",
        BlockTexts(msg.content, {"text"} \cup (IF m.thinkingAsText THEN {"thinking"} ELSE {})),
        <<>>, normalizeToolCallIDs(m, CallIds(msg.content), used))

(* An assistant message that says "Acknowledged.", a text of no log. *)
Ack == WireMessage("assistant", <<-1>>, <<>>, <<>>)

convertToolResult(m, id, idMap) ==
    LET mapped == IF id \in DOMAIN idMap THEN idMap[id] ELSE id
    IN  <<WireResult("tool", mapped)>> \o (IF m.ack THEN <<Ack>> ELSE <<>>)

(* The mapping outlives its message: an ID that repeats is mapped anew. *)
convertMessages(messages, m) ==
    LET Remap(idMap, ids, wire) ==
          [id \in DOMAIN idMap \cup Range(ids) |->
              IF id \in Range(ids)
              THEN wire[CHOOSE i \in DOMAIN ids :
                          ids[i] = id /\ \A j \in i + 1 .. Len(ids) : ids[j] # id]
              ELSE idMap[id]]
        Add(acc, msg) ==
          CASE msg.role = "user" ->
                 [acc EXCEPT !.out = Append(@,
                     WireMessage("user", BlockTexts(msg.content, {"text"}), <<>>, <<>>))]
            [] msg.role = "assistant" ->
                 LET w == convertAssistantMessage(m, msg, acc.used)
                 IN  [out |-> Append(acc.out, w), used |-> acc.used + Len(w.calls),
                      idMap |-> Remap(acc.idMap, CallIds(msg.content), w.calls)]
            [] msg.role = "result" ->
                 [acc EXCEPT !.out = @ \o convertToolResult(m, msg.id, acc.idMap)]
    IN  FoldLeft(Add, [out |-> <<>>, used |-> 0, idMap |-> << >>], messages).out

(* Google: an assistant message has the role "model"; empty messages stay. *)
convertContents(messages) ==
    [i \in DOMAIN messages |->
        LET m == messages[i] IN
        CASE m.role = "user" ->
               WireMessage("user", BlockTexts(m.content, {"text"}), <<>>, <<>>)
          [] m.role = "assistant" ->
               WireMessage("model", BlockTexts(m.content, {"text"}),
                           BlockTexts(m.content, {"thinking"}), CallIds(m.content))
          [] m.role = "result" -> WireResult("user", m.id)]

buildRequest(messages, m) ==
    CASE m.provider = "anthropic" -> AnthropicRequest(messages)
      [] m.provider = "openai" -> convertMessages(messages, m)
      [] m.provider = "google" -> convertContents(messages)

(* callProvider, for the model the session has now *)
Request == buildRequest(TransformMessages(log, model), model)
-----------------------------------------------------------------------------
Next ==
    \/ appendUserMessage \/ Continue \/ TurnFails \/ executeTool
    \/ \E content \in Contents, stop \in StopReasons : ProviderAnswers(content, stop)
    \/ \E m \in Models : ResumeSession(m)
-----------------------------------------------------------------------------
(* Properties *)

(* The assistant's messages of the log. *)
Spoken(w) == w.role \in {"assistant", "model"} /\ w # Ack

(* A failed message (stop reason error or aborted) whose calls were run all *)
(* the same: its results stay in the log without their calls.               *)
FailedCalls == \E i \in DOMAIN log : Dropped(log[i]) /\ CallIds(log[i].content) # <<>>

(* Every tool call of a request is answered exactly once, by a result that *)
(* carries the ID the call has on the wire, before the next assistant      *)
(* message of the log: whether the tool was never run (a terminal tool     *)
(* before it, a crash), whichever model the log is replayed on, and        *)
(* although IDs repeat and may be replaced.  For a model that wants an     *)
(* assistant message after each result, the results of one message are     *)
(* separated by acknowledgements (openai/request.go:190).                  *)
CallsAreAnswered ==
    stage = "stream" /\ ~FailedCalls =>
    LET w == Request IN
    \A i \in DOMAIN w : Spoken(w[i]) =>
        LET next == {j \in i + 1 .. Len(w) : Spoken(w[j])}
            end == IF next = {} THEN Len(w) ELSE (CHOOSE j \in next : \A k \in next : j <= k) - 1
        IN  \A c \in DOMAIN w[i].calls :
                Cardinality({j \in i + 1 .. end : w[j].result = w[i].calls[c]}) = 1

(* What was said reaches the provider: the texts of the user and of every  *)
(* assistant message that did not fail, in their order, also after crashes *)
(* and on another model.  What was thought is sent as a thought, with its  *)
(* signature, only to the model that thought it.                           *)
TextsAreKept ==
    stage = "stream" =>
    LET w == Request
        kept == SelectSeq(log, LAMBDA m : m.role # "result" /\ ~Dropped(m))
        said == FlattenSeq([i \in DOMAIN kept |-> BlockTexts(kept[i].content, {"text"})])
        sent == FlattenSeq([i \in DOMAIN w |-> w[i].texts])
        thoughts == FlattenSeq([i \in DOMAIN w |-> w[i].thoughts])
    IN  /\ SelectSeq(sent, LAMBDA n : n \in Range(said)) = said
        /\ \A i \in DOMAIN kept :
              kept[i].role = "assistant" /\ kept[i].from # Origin(model) =>
                  \A b \in Range(kept[i].content) :
                      b.type = "thinking" => b.text \notin Range(thoughts)

(* A log the service produced can be resumed after the next crash too.     *)
LogCanBeResumed == validateResumeLog(Records)
=============================================================================
