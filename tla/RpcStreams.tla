----------------------------- MODULE RpcStreams -----------------------------
(***************************************************************************)
(* The long-lived streams of internal/rpc: agent events, which Publish     *)
(* fans out to the subscribers of a session, and one terminal stream, over *)
(* the RPC transport (streamTerminal) or over the WebSocket relay and the  *)
(* handle of TerminalServer.                                               *)
(*                                                                         *)
(* Events, inputs and units of terminal output are numbered.  A unit is    *)
(* MaxTerminalChunkSize bytes, an input weighs one or two units of the     *)
(* limiter, which gains one unit a tick.  Of the terminal session (module  *)
(* Termmux) only the fan-out to the stream's subscription and its end are  *)
(* here.                                                                   *)
(***************************************************************************)
EXTENDS Naturals, Sequences, SequencesExt, FiniteSetsExt

CONSTANTS
    Subscribers,  \* streams of agent events
    Publishers,   \* goroutines that call Publish
    EventCap,     \* capacity of a subscriber's channel, 256 in the code
    MaxEvents,    \* bound: events published
    Burst,        \* InputBurstBytes
    QueueCap,     \* capacity of toClient and fromClient
    ChunkCap,     \* SubscriptionBufferSize, 64 in the code
    MaxInputs,    \* bound: inputs of the client
    MaxUnits,     \* bound: units of output
    MaxTicks      \* bound: ticks of the clock

ASSUME StreamsConstants ==
    /\ EventCap \in Nat \ {0} /\ QueueCap \in Nat \ {0}
    /\ ChunkCap \in Nat \ {0} /\ Burst \in Nat \ {0}
    /\ MaxEvents \in Nat /\ MaxInputs \in Nat /\ MaxUnits \in Nat /\ MaxTicks \in Nat

VARIABLES
    (* agent events *)
    source,       \* per stream: "none", "hub" (AgentEventServer), "turn", "session"
    emitted,      \* per stream of the agent service: events pushed so far
    streams,      \* the subscribers in the server's map
    evCh,         \* per subscriber: the channel
    evClosed,     \* per subscriber: the channel is closed
    evGone,       \* per subscriber: the context of its request is over
    evHandler,    \* per subscriber: "none", "recv", "close", "over"
    received,     \* per subscriber: the events its client has
    dropped,      \* history: per subscriber, the events Publish dropped
    first,        \* history: per subscriber, the first event after it came
    by,           \* history: the publishers of the events so far
    sending,      \* per publisher, under the read lock: its event, whom to serve yet
    panicked,     \* a send on a closed channel
    (* the terminal stream *)
    via,          \* "rpc" or "relay"
    ended,        \* the session has ended: sub.Done
    chunks,       \* sub.Chunks: sequences of units
    retry,        \* the chunk FanOut found no room for
    units,        \* units the session has written
    skipped,      \* history: the units FanOut dropped
    clientGone,   \* the client has disconnected
    inputs,       \* inputs the client has sent
    inbox,        \* client messages not yet received
    shown,        \* the units the client has
    told,         \* the client has a Detached message or the end of the stream
    subscribed,   \* the stream's subscription to the session
    main,         \* streamTerminal or handleConn: "none", "loop", "exit", "over"
    out,          \* the output goroutine: "run" or "over"
    piece,        \* relay: what outputPump has yet to send of its chunk
    done,         \* streamTerminal's done channel is filled
    cancelled,    \* streamCtx, the context of the handle
    toClient,     \* relay: the handle's channel, units and "detached"
    toClosed,     \* relay: toClient is closed
    fromClient,   \* relay: the handle's channel
    reader,       \* relay: client to server pump, "read", "send", "over"
    writer,       \* relay: server to client pump
    inPump,       \* relay: inputPump of TerminalServer
    failed,       \* relay: errCh has an error
    (* the limiter *)
    tokens, lastSeen, clock,
    pty,          \* the inputs written to the terminal, with their time
    limited       \* the inputs that were dropped

turn == <<source, emitted>>
eventVars == <<turn, streams, evCh, evClosed, evGone, evHandler, received, dropped, first,
               by, sending, panicked>>
session == <<ended, chunks, retry, units, skipped>>
termClient == <<clientGone, inputs, inbox, shown, told>>
relay == <<toClient, toClosed, fromClient, reader, writer, inPump, failed>>
limiter == <<tokens, lastSeen, clock, pty, limited>>
termVars == <<via, session, termClient, subscribed, main, out, piece, done, cancelled, relay,
              limiter>>
streamVars == <<eventVars, termVars>>

StreamsInit ==
    /\ source = [s \in Subscribers |-> "none"]
    /\ emitted = [s \in Subscribers |-> 0]
    /\ streams = {} /\ by = <<>> /\ panicked = FALSE
    /\ sending = [p \in Publishers |-> [event |-> 0, to |-> {}]]
    /\ evCh = [s \in Subscribers |-> <<>>]
    /\ evClosed = [s \in Subscribers |-> FALSE]
    /\ evGone = [s \in Subscribers |-> FALSE]
    /\ evHandler = [s \in Subscribers |-> "none"]
    /\ received = [s \in Subscribers |-> <<>>]
    /\ dropped = [s \in Subscribers |-> {}]
    /\ first = [s \in Subscribers |-> 0]
    /\ via \in {"rpc", "relay"}
    /\ ended = FALSE /\ chunks = <<>> /\ retry = <<>> /\ units = 0 /\ skipped = {}
    /\ clientGone = FALSE /\ inputs = 0 /\ inbox = <<>> /\ shown = <<>> /\ told = FALSE
    /\ subscribed = FALSE /\ main = "none" /\ out = "over" /\ piece = <<>>
    /\ done = FALSE
    /\ cancelled = FALSE
    /\ toClient = <<>> /\ toClosed = FALSE /\ fromClient = <<>> /\ failed = FALSE
    /\ reader = "over" /\ writer = "over" /\ inPump = "over"
    /\ tokens = Burst /\ lastSeen = 0 /\ clock = 0 /\ pty = <<>> /\ limited = {}
-----------------------------------------------------------------------------
(* Agent events *)

published == Len(by)

(* The write lock: no Publish holds the read lock. *)
Locked == \A p \in Publishers : sending[p].to = {}

StreamAgentEvents(s) ==
    /\ evHandler[s] = "none"
    /\ Locked
    /\ streams' = streams \cup {s}
    /\ source' = [source EXCEPT ![s] = "hub"]
    /\ first' = [first EXCEPT ![s] = published + 1]
    /\ evHandler' = [evHandler EXCEPT ![s] = "recv"]
    /\ UNCHANGED <<emitted, evCh, evClosed, evGone, received, dropped, by, sending,
                   panicked, termVars>>

(* SendMessage and Continue of the agent service return the receiver of a  *)
(* turn, SubscribeEvents that of a session, which starts with one event of *)
(* its own; their push waits for room.  The turn ends, the session need    *)
(* not, and SubscribeEvents ignores its context (AgentLoopService).        *)
SendMessage(s) ==
    /\ evHandler[s] = "none"
    /\ source' = [source EXCEPT ![s] = "turn"]
    /\ evHandler' = [evHandler EXCEPT ![s] = "recv"]
    /\ UNCHANGED <<emitted, streams, evCh, evClosed, evGone, received, dropped, first, by,
                   sending, panicked, termVars>>

SubscribeEvents(s) ==
    /\ evHandler[s] = "none"
    /\ source' = [source EXCEPT ![s] = "session"]
    /\ emitted' = [emitted EXCEPT ![s] = 1]
    /\ evCh' = [evCh EXCEPT ![s] = <<1>>]
    /\ evHandler' = [evHandler EXCEPT ![s] = "recv"]
    /\ UNCHANGED <<streams, evClosed, evGone, received, dropped, first, by, sending, panicked,
                   termVars>>

AgentEvent(s) ==
    /\ source[s] \in {"turn", "session"} /\ ~evClosed[s]
    /\ emitted[s] < MaxEvents /\ Len(evCh[s]) < EventCap
    /\ emitted' = [emitted EXCEPT ![s] = @ + 1]
    /\ evCh' = [evCh EXCEPT ![s] = Append(@, emitted[s] + 1)]
    /\ UNCHANGED <<source, streams, evClosed, evGone, evHandler, received, dropped, first,
                   by, sending, panicked, termVars>>

(* The agent service closes the stream. *)
ServiceCloses(s) ==
    /\ ~evClosed[s]
    /\ evClosed' = [evClosed EXCEPT ![s] = TRUE]
    /\ UNCHANGED <<turn, streams, evCh, evGone, evHandler, received, dropped, first, by,
                   sending, panicked, termVars>>

TurnEnds(s) == source[s] = "turn" /\ ServiceCloses(s)

DestroySession(s) == source[s] = "session" /\ ServiceCloses(s)

Publish(p) ==
    /\ sending[p].to = {} /\ streams # {}
    /\ published < MaxEvents
    /\ by' = Append(by, p)
    /\ sending' = [sending EXCEPT ![p] = [event |-> published + 1, to |-> streams]]
    /\ UNCHANGED <<streams, evCh, evClosed, evGone, evHandler, received, dropped, first,
                   panicked, turn, termVars>>

(* One send of Publish's loop: it never waits, a full channel loses the    *)
(* event; a closed one would panic.                                        *)
PublishTo(p, s) ==
    /\ s \in sending[p].to
    /\ sending' = [sending EXCEPT ![p].to = @ \ {s}]
    /\ panicked' = (panicked \/ evClosed[s])
    /\ IF Len(evCh[s]) < EventCap
       THEN evCh' = [evCh EXCEPT ![s] = Append(@, sending[p].event)] /\ UNCHANGED dropped
       ELSE dropped' = [dropped EXCEPT ![s] = @ \cup {sending[p].event}] /\ UNCHANGED evCh
    /\ UNCHANGED <<streams, evClosed, evGone, evHandler, received, first, by, turn,
                   termVars>>

EventClientLeaves(s) ==
    /\ evHandler[s] # "none" /\ ~evGone[s]
    /\ evGone' = [evGone EXCEPT ![s] = TRUE]
    /\ UNCHANGED <<streams, evCh, evClosed, evHandler, received, dropped, first, by,
                   sending, panicked, turn, termVars>>

(* closeFn, under the write lock and once: closes the channel and forgets it. *)
closeFn(s) ==
    /\ Locked
    /\ evClosed' = [evClosed EXCEPT ![s] = TRUE]
    /\ streams' = streams \ {s}

(* The goroutine that waits for the context. *)
CloseOnDone(s) ==
    /\ evGone[s] /\ s \in streams
    /\ closeFn(s)
    /\ UNCHANGED <<evCh, evGone, evHandler, received, dropped, first, by, sending,
                   panicked, turn, termVars>>

(* The handler is the same for all sources: it sends what it receives      *)
(* until the channel is closed and drained or the client is gone, then     *)
(* closes its receiver.                                                    *)
EventsHandler(s) ==
    /\ evHandler[s] = "recv"
    /\ \/ /\ evCh[s] # <<>> /\ ~evGone[s]
          /\ received' = [received EXCEPT ![s] = Append(@, Head(evCh[s]))]
          /\ evCh' = [evCh EXCEPT ![s] = Tail(@)]
          /\ UNCHANGED evHandler
       \/ /\ evCh[s] # <<>> /\ evGone[s]             \* Send fails
          /\ evCh' = [evCh EXCEPT ![s] = Tail(@)]
          /\ evHandler' = [evHandler EXCEPT ![s] = "close"]
          /\ UNCHANGED received
       \/ /\ evCh[s] = <<>> /\ evClosed[s]           \* io.EOF
          /\ evHandler' = [evHandler EXCEPT ![s] = "close"]
          /\ UNCHANGED <<evCh, received>>
    /\ UNCHANGED <<streams, evClosed, evGone, dropped, first, by, sending, panicked,
                   turn, termVars>>

CloseReceiver(s) ==
    /\ evHandler[s] = "close"
    /\ evHandler' = [evHandler EXCEPT ![s] = "over"]
    /\ IF source[s] # "hub"
       THEN evClosed' = [evClosed EXCEPT ![s] = TRUE] /\ UNCHANGED streams
       ELSE IF s \in streams THEN closeFn(s) ELSE UNCHANGED <<evClosed, streams>>
    /\ UNCHANGED <<evCh, evGone, received, dropped, first, by, sending, panicked,
                   turn, termVars>>

EventStep ==
    \E s \in Subscribers : \/ \E p \in Publishers : PublishTo(p, s)
                           \/ CloseOnDone(s)
                           \/ EventsHandler(s) \/ CloseReceiver(s) \/ TurnEnds(s)

EventsNext ==
    \/ EventStep
    \/ \E p \in Publishers : Publish(p)
    \/ \E s \in Subscribers : \/ StreamAgentEvents(s) \/ SendMessage(s)
                              \/ SubscribeEvents(s) \/ AgentEvent(s)
                              \/ DestroySession(s) \/ EventClientLeaves(s)
-----------------------------------------------------------------------------
(* The terminal session and the client *)

(* FanOut, under the read lock of the subscribers: a chunk is queued, and  *)
(* one that finds the queue full is tried again in the place of the oldest *)
(* (which the reader may have taken meanwhile).                            *)
FanOut ==
    /\ ~ended /\ subscribed /\ retry = <<>>
    /\ \E n \in 1 .. 2 :
          LET chunk == [i \in 1 .. n |-> units + i] IN
          /\ units + n <= MaxUnits
          /\ units' = units + n
          /\ IF Len(chunks) < ChunkCap
             THEN chunks' = Append(chunks, chunk) /\ UNCHANGED retry
             ELSE retry' = chunk /\ UNCHANGED chunks
    /\ UNCHANGED <<eventVars, via, ended, skipped, termClient, subscribed, main, out, piece,
                   done, cancelled, relay, limiter>>

FanOutRetry ==
    /\ retry # <<>>
    /\ retry' = <<>>
    /\ chunks' = IF chunks = <<>> THEN <<retry>> ELSE Append(Tail(chunks), retry)
    /\ skipped' = IF chunks = <<>> THEN skipped ELSE skipped \cup ToSet(Head(chunks))
    /\ UNCHANGED <<eventVars, via, ended, units, termClient, subscribed, main, out, piece,
                   done, cancelled, relay, limiter>>

(* Unsubscribe and CloseAll take the write lock. *)
SessionEnds ==
    /\ ~ended /\ retry = <<>>
    /\ ended' = TRUE
    /\ UNCHANGED <<eventVars, via, chunks, retry, units, skipped, termClient, subscribed, main,
                   out, piece, done, cancelled, relay, limiter>>

ClientInput ==
    /\ ~clientGone /\ main # "none" /\ inputs < MaxInputs
    /\ inputs' = inputs + 1
    /\ \E size \in 1 .. 2 : inbox' = Append(inbox, [n |-> inputs + 1, size |-> size])
    /\ UNCHANGED <<eventVars, via, session, clientGone, shown, told, subscribed, main, out,
                   piece, done, cancelled, relay, limiter>>

ClientGone ==
    /\ ~clientGone /\ main # "none"
    /\ clientGone' = TRUE
    /\ UNCHANGED <<eventVars, via, session, inputs, inbox, shown, told, subscribed, main,
                   out, piece, done, cancelled, relay, limiter>>

Tick ==
    /\ clock < MaxTicks
    /\ clock' = clock + 1
    /\ tokens' = IF via = "relay" /\ inPump = "run" THEN Min({tokens + 1, Burst}) ELSE tokens
    /\ UNCHANGED <<eventVars, via, session, termClient, subscribed, main, out, piece, done,
                   cancelled, relay, lastSeen, pty, limited>>

(* Mutant: the bucket grows beyond the burst. *)
RefilledUncapped ==
    IF via = "rpc" THEN tokens + (clock - lastSeen) ELSE tokens

(* The bucket a request finds: streamTerminal's limiter fills it lazily,   *)
(* inputPump's ticker has filled it already.                               *)
Refilled ==
    IF via = "rpc" THEN Min({tokens + (clock - lastSeen), Burst}) ELSE tokens

(* An input that is too large for the bucket is dropped whole. *)
Allow(m) ==
    /\ lastSeen' = clock
    /\ \/ /\ m.size <= Refilled
          /\ tokens' = Refilled - m.size
          /\ UNCHANGED limited
       \/ /\ m.size > Refilled
          /\ tokens' = Refilled
          /\ limited' = limited \cup {m.n}

Admitted(m) == m.size <= Refilled

WritePTY(m) ==
    IF Admitted(m) /\ ~ended
    THEN pty' = Append(pty, [n |-> m.n, size |-> m.size, at |-> clock])
    ELSE UNCHANGED pty
-----------------------------------------------------------------------------
(* streamTerminal *)

(* The first message attaches; the session may be unknown. *)
Attach ==
    /\ via = "rpc" /\ main = "none"
    /\ \/ /\ subscribed' = TRUE /\ main' = "loop" /\ out' = "run"
       \/ /\ main' = "over" /\ UNCHANGED <<subscribed, out>>
    /\ UNCHANGED <<eventVars, via, piece, session, termClient, done, cancelled, relay, limiter>>

(* The goroutine's select takes whichever case is ready. *)
TerminalOutput ==
    /\ via = "rpc" /\ out = "run"
    /\ \/ /\ cancelled
          /\ out' = "over" /\ done' = TRUE
          /\ UNCHANGED <<chunks, shown, told>>
       \/ /\ ended
          /\ out' = "over" /\ done' = TRUE
          /\ told' = (told \/ ~clientGone)
          /\ UNCHANGED <<chunks, shown>>
       \/ /\ chunks # <<>>
          /\ chunks' = Tail(chunks)
          /\ IF clientGone
             THEN out' = "over" /\ done' = TRUE /\ UNCHANGED shown
             ELSE shown' = shown \o Head(chunks) /\ UNCHANGED <<out, done>>
          /\ UNCHANGED told
    /\ UNCHANGED <<eventVars, via, piece, ended, retry, units, skipped, clientGone, inputs,
                   inbox, subscribed, main, cancelled, relay, limiter>>

(* The loop looks at done only after a client message. *)
TerminalInput ==
    LET m == Head(inbox) IN
    /\ via = "rpc" /\ main = "loop" /\ inbox # <<>>
    /\ inbox' = Tail(inbox)
    /\ Allow(m) /\ WritePTY(m)
    /\ main' = IF (Admitted(m) /\ (ended \/ done)) \/ (~Admitted(m) /\ clientGone)
               THEN "exit" ELSE "loop"
    /\ UNCHANGED <<eventVars, via, session, clientGone, inputs, shown, told, subscribed, out,
                   piece, done, cancelled, relay, clock>>

TerminalReceiveFails ==
    /\ via = "rpc" /\ main = "loop" /\ clientGone /\ inbox = <<>>
    /\ main' = "exit"
    /\ UNCHANGED <<eventVars, via, session, termClient, subscribed, out, piece, done,
                   cancelled, relay, limiter>>

(* The deferred calls: cancel, wait for the goroutine, unsubscribe. *)
TerminalReturns ==
    /\ via = "rpc" /\ main = "exit"
    /\ \/ /\ ~cancelled /\ cancelled' = TRUE
          /\ UNCHANGED <<main, subscribed, told>>
       \/ /\ cancelled /\ out = "over" /\ retry = <<>>
          /\ main' = "over" /\ subscribed' = FALSE /\ told' = TRUE
          /\ UNCHANGED cancelled
    /\ UNCHANGED <<eventVars, via, session, clientGone, inputs, inbox, shown, out, piece,
                   done, relay, limiter>>
-----------------------------------------------------------------------------
(* The relay *)

StreamTerminal ==
    /\ via = "relay" /\ main = "none"
    /\ \/ /\ subscribed' = TRUE /\ main' = "loop" /\ out' = "run"
          /\ reader' = "read" /\ writer' = "run" /\ inPump' = "run"
       \/ /\ main' = "over" /\ UNCHANGED <<subscribed, out, reader, writer, inPump>>
    /\ UNCHANGED <<eventVars, via, session, termClient, piece, done, cancelled, toClient,
                   toClosed, fromClient, failed, limiter>>

(* outputPump: a chunk goes out in pieces, each of which waits for room or *)
(* the context; Detached does not wait.  Whatever ends the pump cancels    *)
(* the handle, unsubscribes and closes the channel.                        *)
OutputPumpEnds ==
    /\ retry = <<>>
    /\ out' = "over" /\ piece' = <<>>
    /\ cancelled' = TRUE /\ subscribed' = FALSE /\ toClosed' = TRUE

OutputPump ==
    /\ via = "relay" /\ out = "run"
    /\ \/ /\ piece = <<>> /\ chunks # <<>>
          /\ piece' = Head(chunks) /\ chunks' = Tail(chunks)
          /\ UNCHANGED <<toClient, out, cancelled, subscribed, toClosed>>
       \/ /\ piece # <<>> /\ Len(toClient) < QueueCap
          /\ toClient' = Append(toClient, Head(piece)) /\ piece' = Tail(piece)
          /\ UNCHANGED <<chunks, out, cancelled, subscribed, toClosed>>
       \/ /\ piece = <<>> /\ ended
          /\ toClient' = IF Len(toClient) < QueueCap THEN Append(toClient, 0) ELSE toClient
          /\ OutputPumpEnds /\ UNCHANGED chunks
       \/ /\ cancelled
          /\ OutputPumpEnds /\ UNCHANGED <<toClient, chunks>>
    /\ UNCHANGED <<eventVars, via, ended, retry, units, skipped, termClient, main, done,
                   fromClient, reader, writer, inPump, failed, limiter>>

InputPump ==
    /\ via = "relay" /\ inPump = "run"
    /\ \/ /\ fromClient # <<>>
          /\ Allow(Head(fromClient)) /\ WritePTY(Head(fromClient))
          /\ fromClient' = Tail(fromClient)
          /\ IF Admitted(Head(fromClient)) /\ ended
             THEN inPump' = "over" /\ cancelled' = TRUE
             ELSE UNCHANGED <<inPump, cancelled>>
       \/ /\ cancelled
          /\ inPump' = "over"
          /\ UNCHANGED <<cancelled, fromClient, tokens, lastSeen, pty, limited>>
    /\ UNCHANGED <<eventVars, via, session, termClient, subscribed, main, out, piece, done,
                   toClient, toClosed, reader, writer, failed, clock>>

(* A pump ends with an error on errCh. *)
RelayWriter ==
    /\ writer = "run"
    /\ \/ /\ toClient # <<>>
          /\ toClient' = Tail(toClient)
          /\ IF clientGone \/ main # "loop"
             THEN writer' = "over" /\ failed' = TRUE /\ UNCHANGED <<shown, told>>
             ELSE /\ shown' = IF Head(toClient) = 0 THEN shown ELSE Append(shown, Head(toClient))
                  /\ told' = (told \/ Head(toClient) = 0)
                  /\ UNCHANGED <<writer, failed>>
       \/ /\ toClient = <<>> /\ toClosed
          /\ writer' = "over" /\ failed' = TRUE
          /\ UNCHANGED <<toClient, shown, told>>
    /\ UNCHANGED <<eventVars, via, session, clientGone, inputs, inbox, subscribed, main, out,
                   piece, done, cancelled, toClosed, fromClient, reader, inPump, limiter>>

RelayReader ==
    /\ \/ /\ reader = "read" /\ inbox # <<>> /\ main = "loop"
          /\ reader' = "send" /\ UNCHANGED <<inbox, fromClient, failed>>
       \/ /\ reader = "read" /\ ((clientGone /\ inbox = <<>>) \/ main # "loop")
          /\ reader' = "over" /\ failed' = TRUE /\ UNCHANGED <<inbox, fromClient>>
       \/ /\ reader = "send" /\ Len(fromClient) < QueueCap
          /\ fromClient' = Append(fromClient, Head(inbox))
          /\ inbox' = Tail(inbox)
          /\ reader' = "read" /\ UNCHANGED failed
       \/ /\ reader = "send" /\ cancelled
          /\ inbox' = Tail(inbox)
          /\ reader' = "over" /\ failed' = TRUE /\ UNCHANGED fromClient
    /\ UNCHANGED <<eventVars, via, session, clientGone, inputs, shown, told, subscribed, main,
                   out, piece, done, cancelled, toClient, toClosed, writer, inPump, limiter>>

(* The first error ends handleConn: cancel, handle.Close, conn.Close. *)
HandleConnReturns ==
    /\ via = "relay" /\ main = "loop" /\ failed
    /\ main' = "over" /\ cancelled' = TRUE /\ told' = TRUE
    /\ UNCHANGED <<eventVars, via, session, clientGone, inputs, inbox, shown, subscribed,
                   out, piece, done, relay, limiter>>

TermStep ==
    \/ TerminalOutput \/ TerminalInput \/ TerminalReceiveFails \/ TerminalReturns
    \/ FanOutRetry \/ OutputPump \/ InputPump \/ RelayWriter \/ RelayReader \/ HandleConnReturns

TermNext ==
    \/ TermStep \/ Attach \/ StreamTerminal
    \/ FanOut \/ SessionEnds \/ ClientInput \/ ClientGone \/ Tick
-----------------------------------------------------------------------------
(* Properties *)

(* A subscriber gets each event at most once and those of one publisher in *)
(* their order (the events of publishers that overlap may change places);  *)
(* every event published since it came is being sent, on its way,          *)
(* delivered, or was dropped because its channel was full; closing a       *)
(* subscription never races with Publish.  The client of a turn or session *)
(* whose stream the service has ended has every event that was pushed.     *)
EventsReachSubscribers ==
    /\ ~panicked
    /\ \A s \in {t \in streams : ~evGone[t]} :
          LET seen == received[s] \o evCh[s] IN
          /\ IsInjective(seen)
          /\ \A i, j \in 1 .. Len(seen) :
                i < j /\ by[seen[i]] = by[seen[j]] => seen[i] < seen[j]
          /\ \A n \in first[s] .. published :
                \/ n \in ToSet(seen) \cup dropped[s]
                \/ \E p \in Publishers : sending[p].event = n /\ s \in sending[p].to
    /\ \A s \in Subscribers :
          source[s] \in {"turn", "session"} /\ evHandler[s] = "over" /\ ~evGone[s]
          => received[s] = [i \in 1 .. emitted[s] |-> i]

SumSizes(s) == FoldSeq(LAMBDA m, sum : m.size + sum, 0, s)

(* The terminal stream keeps both directions in order: a unit the client   *)
(* has not got, though it has a later one, is one FanOut dropped from a    *)
(* full queue; the terminal has the inputs without the ones the limiter    *)
(* dropped, and in no span of time does more than the burst and the rate   *)
(* of that span get through.                                               *)
TerminalIsOrdered ==
    /\ \A i, j \in 1 .. Len(shown) : i < j => shown[i] < shown[j]
    /\ \A i \in 1 .. Len(shown) : 1 .. shown[i] \subseteq ToSet(shown) \cup skipped
    /\ \A i \in 1 .. Len(pty) :
          \A k \in 1 .. pty[i].n : k \in limited \/ \E j \in 1 .. i : pty[j].n = k
    /\ \A i, j \in 1 .. Len(pty) : i < j => pty[i].n < pty[j].n
    /\ \A i, j \in 1 .. Len(pty) : i <= j =>
          SumSizes(SubSeq(pty, i, j)) <= Burst + (pty[j].at - pty[i].at)

(* SubscribeEvents ignores the context of its request: its handler notices *)
(* that the client has left only when the session emits or is destroyed.   *)
Unnoticed(s) ==
    source[s] = "session" /\ evHandler[s] = "recv" /\ evCh[s] = <<>> /\ ~evClosed[s]

(* A stream whose client has left and that is not given up entirely: the   *)
(* handler returns, every goroutine of it ends, the subscription is gone.  *)
LeftEvents ==
    \E s \in Subscribers :
       evGone[s] /\ ~Unnoticed(s) /\ (evHandler[s] # "over" \/ s \in streams)

LeftTerminal ==
    /\ clientGone
    /\ \/ main # "over" \/ subscribed \/ out # "over"
       \/ {reader, writer, inPump} # {"over"}

(* A session that ended, of which the attached client does not know. *)
EndUntold == ended /\ subscribed /\ ~told /\ ~clientGone
=============================================================================
