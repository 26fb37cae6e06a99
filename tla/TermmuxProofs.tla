--------------------------- MODULE TermmuxProofs ----------------------------
(***************************************************************************)
(* What holds of a termmux session whatever the sizes of its buffers, of   *)
(* the reads from its PTY and of the CLI's events: the Stops that ran      *)
(* through leave no child, the scrollback a new stream starts with is the end of  *)
(* the output, a slow stream loses old output only, and the log's tailer   *)
(* skips nothing.                                                          *)
(***************************************************************************)
EXTENDS Termmux, TLAPS

----------------------------------------------------------------------------
(* Stop *)

\* Whatever happens next, no child runs: it is dead, or there was none and Start
\* cannot make one any more, or Stop overtook Start.
Gone ==
    \/ child = "dead"
    \/ early
    \/ child = "none" /\ ad.pc # "pty" /\ ses.stopped

\* Before StartPTY there is no child, and no second one comes after it.
StartInv ==
    /\ child \in {"none", "alive", "dead"}
    /\ DOMAIN ses = {"started", "stopped", "ctx", "exit", "cleaned"}
    /\ DOMAIN ad = {"pc", "stopped", "subbed", "fwd", "ctx", "q", "ended", "lost"}
    /\ DOMAIN vt = {"ptm", "exited"}
    /\ DOMAIN pipe = {"pc", "chunk"}
    /\ stop \in [Stoppers -> {"none", "stop", "interrupt", "kill", "wait", "clean", "done"}]
    /\ ad.pc = "new" => child = "none" /\ ~ses.started
    /\ ad.pc = "pty" => child = "none" /\ ses.started
    /\ pipe.pc # "none" => child # "none"
    /\ stop["adapter"] # "none" => ad.stopped

\* The exit is noticed of a dead child only.
ExitInv ==
    /\ pipe.pc \in {"ended", "notify", "done"} => child = "dead"
    /\ vt.exited => child = "dead"
    /\ ses.exit => child = "dead"

\* A Stop waits for the child's end or is about to kill it.
Waiting == \E w \in Stoppers : stop[w] \in {"interrupt", "kill"}

\* A Stop past its kill has no child to wait for.  One that found the session
\* stopped, by the child's end or by another Stop, cleans up at once: then the
\* child is gone or the other one still waits for it.
StopInv ==
    /\ \A w \in Stoppers : stop[w] = "wait" => Gone
    /\ \A w \in Stoppers : stop[w] \in {"clean", "done"} => Gone \/ Waiting
    /\ \A w \in Stoppers : stop[w] \in {"interrupt", "kill"} => Gone \/ child = "alive"
    /\ ses.stopped => Gone \/ Waiting

SessionInv == StartInv /\ ExitInv /\ StopInv

USE DEF Stoppers

LEMMA InitSession == Init => SessionInv
<1> SUFFICES ASSUME Init PROVE SessionInv
  OBVIOUS
<1>1. /\ ad = [pc |-> "new", stopped |-> FALSE, subbed |-> FALSE, fwd |-> "none", ctx |-> FALSE,
               q |-> <<>>, ended |-> FALSE, lost |-> FALSE]
      /\ ses = [started |-> FALSE, stopped |-> FALSE, ctx |-> FALSE, exit |-> FALSE,
                cleaned |-> FALSE]
      /\ child = "none"
      /\ vt = [ptm |-> "none", exited |-> FALSE]
      /\ pipe = [pc |-> "none", chunk |-> <<>>]
      /\ stop = [w \in Stoppers |-> "none"]
  BY Zenon DEF Init
<1> QED
  BY <1>1 DEF SessionInv, StartInv, ExitInv, StopInv, Waiting, Gone

\* A step that leaves the session alone, and the output goroutine where it is or
\* still reading, keeps the invariant; the adapter's queue is none of it.
LEMMA FrameSession ==
    ASSUME SessionInv, UNCHANGED <<ses, child, vt, stop, early>>,
           DOMAIN ad' = DOMAIN ad, ad'.pc = ad.pc, ad'.stopped = ad.stopped,
           DOMAIN pipe' = DOMAIN pipe, pipe'.pc = pipe.pc
    PROVE  SessionInv'
BY DEF SessionInv, StartInv, ExitInv, StopInv, Waiting, Gone

LEMMA AdapterStartSession == SessionInv /\ AdapterStart => SessionInv'
BY DEF SessionInv, StartInv, ExitInv, StopInv, Waiting, Gone, AdapterStart, SessionStart, terminal

LEMMA StartPTYSession == SessionInv /\ StartPTY => SessionInv'
BY DEF SessionInv, StartInv, ExitInv, StopInv, Waiting, Gone, StartPTY, StartGoroutines

LEMMA SubscribeMonitorSession == SessionInv /\ SubscribeMonitor => SessionInv'
BY DEF SessionInv, StartInv, ExitInv, StopInv, Waiting, Gone, SubscribeMonitor, terminal

LEMMA AdapterStopSession == SessionInv /\ AdapterStop => SessionInv'
BY DEF SessionInv, StartInv, ExitInv, StopInv, Waiting, Gone, AdapterStop, terminal

LEMMA ContextCancelledSession == SessionInv /\ ContextCancelled => SessionInv'
BY DEF SessionInv, StartInv, ExitInv, StopInv, Waiting, Gone, ContextCancelled, terminal

LEMMA WatchSession == SessionInv /\ Watch => SessionInv'
BY DEF SessionInv, StartInv, ExitInv, StopInv, Waiting, Gone, Watch, terminal

LEMMA ChildExitsSession == SessionInv /\ ChildExits => SessionInv'
BY DEF SessionInv, StartInv, ExitInv, StopInv, Waiting, Gone, ChildExits, terminal

LEMMA PipeEndsSession == SessionInv /\ PipeEnds => SessionInv'
BY DEF SessionInv, StartInv, ExitInv, StopInv, Waiting, Gone, PipeEnds

LEMMA SubmitEndedSession == SessionInv /\ SubmitEnded => SessionInv'
BY DEF SessionInv, StartInv, ExitInv, StopInv, Waiting, Gone, SubmitEnded, session

LEMMA ExitNotifySession == SessionInv /\ ExitNotify => SessionInv'
BY DEF SessionInv, StartInv, ExitInv, StopInv, Waiting, Gone, ExitNotify

LEMMA ForwardSession == SessionInv /\ Forward => SessionInv'
<1> SUFFICES ASSUME SessionInv, Forward PROVE SessionInv'
  OBVIOUS
<1>1. UNCHANGED <<ses, child, vt, stop, early, pipe>>
  BY DEF Forward, terminal
<1>2. DOMAIN ad' = DOMAIN ad /\ ad'.pc = ad.pc /\ ad'.stopped = ad.stopped
  BY DEF SessionInv, StartInv, Forward
<1> QED
  BY <1>1, <1>2, FrameSession

LEMMA FannedOutSession ==
    ASSUME SessionInv, NEW e, FannedOut(e), UNCHANGED <<ses, child, vt, stop, early, pipe>>
    PROVE  SessionInv'
<1>1. DOMAIN ad' = DOMAIN ad /\ ad'.pc = ad.pc /\ ad'.stopped = ad.stopped
  BY DEF SessionInv, StartInv, FannedOut
<1> QED
  BY <1>1, FrameSession

LEMMA SessionStopSession == ASSUME NEW w \in Stoppers, SessionInv, SessionStop(w) PROVE SessionInv'
BY DEF SessionInv, StartInv, ExitInv, StopInv, Waiting, Gone, SessionStop, terminal

LEMMA WaitInterruptedSession == ASSUME NEW w \in Stoppers, SessionInv, WaitInterrupted(w) PROVE SessionInv'
BY DEF SessionInv, StartInv, ExitInv, StopInv, Waiting, Gone, WaitInterrupted, terminal

LEMMA KillChildSession == ASSUME NEW w \in Stoppers, SessionInv, KillChild(w) PROVE SessionInv'
BY DEF SessionInv, StartInv, ExitInv, StopInv, Waiting, Gone, KillChild, terminal

LEMMA WaitKilledSession == ASSUME NEW w \in Stoppers, SessionInv, WaitKilled(w) PROVE SessionInv'
BY DEF SessionInv, StartInv, ExitInv, StopInv, Waiting, Gone, WaitKilled, terminal

LEMMA CleanupSession == ASSUME NEW w \in Stoppers, SessionInv, Cleanup(w) PROVE SessionInv'
BY DEF SessionInv, StartInv, ExitInv, StopInv, Waiting, Gone, Cleanup

LEMMA LifecycleSession == SessionInv /\ Lifecycle => SessionInv'
BY AdapterStartSession, StartPTYSession, SubscribeMonitorSession, ForwardSession,
   AdapterStopSession, ContextCancelledSession, WatchSession, SessionStopSession, WaitInterruptedSession,
   KillChildSession, WaitKilledSession, CleanupSession, ChildExitsSession
   DEF Lifecycle

LEMMA OutputSession == SessionInv /\ Output => SessionInv'
<1> SUFFICES ASSUME SessionInv, Output PROVE SessionInv'
  OBVIOUS
<1>1. CASE \E n \in ChunkSizes : ReadOutput(n)
  <2> PICK n \in ChunkSizes : ReadOutput(n)
    BY <1>1
  <2> QED
    BY DEF ReadOutput, session, SessionInv, StartInv, ExitInv, StopInv, Waiting, Gone
<1>2. CASE AppendScrollback
  BY <1>2 DEF AppendScrollback, session, SessionInv, StartInv, ExitInv, StopInv, Waiting, Gone
<1>3. CASE FanOut
  BY <1>3 DEF FanOut, session, SessionInv, StartInv, ExitInv, StopInv, Waiting, Gone
<1>4. CASE \E u \in Streams : SnapshotScrollback(u) \/ Register(u) \/ OutputPump(u)
                              \/ StreamCancelled(u)
  <2>1. UNCHANGED <<session, pipe>>
    BY <1>4 DEF SnapshotScrollback, Register, OutputPump, StreamCancelled
  <2> QED
    BY <2>1, FrameSession DEF session
<1> QED
  BY <1>1, <1>2, <1>3, <1>4, PipeEndsSession, SubmitEndedSession, ExitNotifySession DEF Output

LEMMA MonitoringSession == SessionInv /\ Monitoring => SessionInv'
<1> SUFFICES ASSUME SessionInv, Monitoring PROVE SessionInv'
  OBVIOUS
<1>1. CASE FanOutEvent
  BY <1>1, FannedOutSession DEF FanOutEvent, terminal
<1>2. CASE IdleFanOut
  BY <1>2, FannedOutSession DEF IdleFanOut, terminal
<1>3. CASE UNCHANGED <<session, terminal>>
  BY <1>3, FrameSession DEF session, terminal
<1>4. \/ FanOutEvent \/ IdleFanOut
      \/ UNCHANGED <<session, terminal>>
  BY DEF Monitoring, ProcessEvent, ProcessLoopEnds, IdleTimerFires, IdleTimeout,
         HandleHookEvent, HandleAPIRequest, HandleToolResult, HandleMessage, CliEvent
<1> QED
  BY <1>1, <1>2, <1>3, <1>4

LEMMA TailingFrame == Tailing => UNCHANGED <<session, terminal>>
BY DEF Tailing, WriteLog, TruncateLog, Poll, ScanLine, PollEnd

LEMMA NextSession == SessionInv /\ [Next]_vars => SessionInv'
<1> SUFFICES ASSUME SessionInv, [Next]_vars PROVE SessionInv'
  OBVIOUS
<1>1. CASE Tailing \/ UNCHANGED vars
  <2>1. UNCHANGED <<ses, child, vt, stop, early, ad, pipe>>
    BY <1>1, TailingFrame DEF vars, session, terminal
  <2> QED
    BY <2>1, FrameSession
<1> QED
  BY <1>1, LifecycleSession, OutputSession, MonitoringSession DEF Next

\* Once a call of Session.Stop has returned and no other one waits for the child
\* or is about to kill it, the child is not running, however the adapter's Stop,
\* the watcher's after a cancelled context and the child's own end overlap, unless
\* a Stop overtook the Start that was still making the child (session.go:165-177).
THEOREM StopNoChild == Spec => []StopLeavesNoChild
<1>1. SessionInv => StopLeavesNoChild
  BY DEF SessionInv, StartInv, StopInv, Waiting, Gone, StopLeavesNoChild
<1> QED
  BY <1>1, InitSession, NextSession, PTL DEF Spec

----------------------------------------------------------------------------
(* The scrollback *)

LEMMA ModLow == ASSUME NEW r \in Nat \ {0}, NEW a \in 0..(r - 1) PROVE a % r = a
OBVIOUS

LEMMA ModHigh == ASSUME NEW r \in Nat \ {0}, NEW a \in r..(2 * r - 1) PROVE a % r = a - r
OBVIOUS

LEMMA Caps ==
    /\ RingCap \in Nat \ {0} /\ SnapMax \in Nat \ {0} /\ SubCap \in Nat \ {0}
    /\ SnapMax <= RingCap
    /\ ChunkSizes \subseteq Nat \ {0}
BY TermmuxAssumption

\* Where the buffer has the k-th byte from the end.
Slot(head, k) == IF k <= head THEN head - k ELSE head - k + RingCap

\* The buffer holds the last bytes written, the newest just before head.
Holds(r) ==
    /\ r.written \in Nat
    /\ r.head \in 0..(RingCap - 1)
    /\ r.size = IF r.written < RingCap THEN r.written ELSE RingCap
    /\ \A k \in 1..r.size : r.buf[Slot(r.head, k)] = r.written - k + 1

\* The n bytes that end with the m-th.
Bytes(m, n) == [i \in 1..n |-> m - n + i]

LEMMA SlotMod ==
    ASSUME NEW head \in 0..(RingCap - 1), NEW k \in 1..RingCap
    PROVE  (head - k + RingCap) % RingCap = Slot(head, k)
<1>1. CASE k <= head
  <2>1. head - k + RingCap \in RingCap..(2 * RingCap - 1)
    BY <1>1, Caps
  <2> QED
    BY <1>1, <2>1, ModHigh, Caps DEF Slot
<1>2. CASE ~(k <= head)
  <2>1. head - k + RingCap \in 0..(RingCap - 1)
    BY <1>2, Caps
  <2> QED
    BY <1>2, <2>1, ModLow, Caps DEF Slot
<1> QED
  BY <1>1, <1>2

\* A snapshot of a buffer that holds the last bytes is the last SnapMax of them.
LEMMA SnapshotIsTail ==
    ASSUME NEW r, Holds(r)
    PROVE  LET n == IF r.written > SnapMax THEN SnapMax ELSE r.written IN
           Snapshot(r) = Bytes(r.written, n)
<1> DEFINE n == IF r.written > SnapMax THEN SnapMax ELSE r.written
           take == IF r.size > SnapMax THEN SnapMax ELSE r.size
           start == (r.head - take + RingCap) % RingCap
<1>1. take = n /\ n \in 0..RingCap /\ n <= r.size /\ n \in Nat /\ r.size \in Nat
  BY Caps DEF Holds
<1>2. ASSUME NEW i \in 1..n PROVE r.buf[(start + i - 1) % RingCap] = r.written - n + i
  <2>1. start = Slot(r.head, n)
    BY <1>1, <1>2, SlotMod DEF Holds
  <2>2. n - i + 1 \in 1..r.size /\ n - i + 1 \in 1..RingCap
    BY <1>1, <1>2, Caps
  <2>3. (start + i - 1) % RingCap = Slot(r.head, n - i + 1)
    <3> HIDE DEF start, n
    <3>1. CASE start + i - 1 \in 0..(RingCap - 1) /\ start + i - 1 = Slot(r.head, n - i + 1)
      BY <3>1, ModLow, Caps
    <3>2. CASE start + i - 1 \in RingCap..(2 * RingCap - 1)
               /\ start + i - 1 - RingCap = Slot(r.head, n - i + 1)
      <4> DEFINE a == start + i - 1
      <4>1. a \in RingCap..(2 * RingCap - 1) /\ a - RingCap = Slot(r.head, n - i + 1)
        BY <2>1, <3>2, <1>1, Caps DEF Slot, Holds
      <4> HIDE DEF a
      <4>2. a % RingCap = Slot(r.head, n - i + 1)
        BY <4>1, ModHigh, Caps
      <4> QED
        BY <4>2 DEF a
    <3> QED
      BY <1>1, <1>2, <2>1, <2>2, <3>1, <3>2, Caps DEF Holds, Slot
  <2>4. r.buf[Slot(r.head, n - i + 1)] = r.written - (n - i + 1) + 1
    BY <2>2 DEF Holds
  <2> HIDE DEF start, n
  <2> QED
    BY <1>1, <1>2, <2>3, <2>4 DEF Holds
<1>3. Snapshot(r) = [i \in 1..take |-> r.buf[(start + i - 1) % RingCap]]
  BY DEF Snapshot
<1> HIDE DEF n, take, start
<1>4. Snapshot(r) = Bytes(r.written, n)
  BY <1>1, <1>2, <1>3 DEF Bytes
<1> QED
  BY <1>4 DEF n

\* Write keeps the buffer so, for data that continue what was written, wherever
\* head is and however much of the buffer they overwrite.
LEMMA WriteHolds ==
    ASSUME NEW r, Holds(r), NEW n \in Nat \ {0}
    PROVE  /\ Holds(RingWrite(r, Bytes(r.written + n, n)))
           /\ RingWrite(r, Bytes(r.written + n, n)).written = r.written + n
<1> DEFINE m == r.written + n
           data == Bytes(m, n)
           w == RingWrite(r, data)
<1>1. Len(data) = n /\ m \in Nat /\ \A i \in 1..n : data[i] = m - n + i
  BY DEF Bytes, Holds
<1>2. data[n] = m
  BY <1>1
<1> HIDE DEF data
<1>3. CASE n >= RingCap
  <2>1. w = [buf |-> [i \in 0..(RingCap - 1) |-> data[n - RingCap + i + 1]], head |-> 0,
             size |-> RingCap, written |-> m]
    BY <1>1, <1>2, <1>3 DEF RingWrite
  <2> HIDE DEF w, m
  <2>2. ASSUME NEW k \in 1..RingCap PROVE w.buf[Slot(0, k)] = m - k + 1
    <3>1. Slot(0, k) = RingCap - k /\ RingCap - k \in 0..(RingCap - 1)
      BY Caps DEF Slot
    <3>2. w.buf[RingCap - k] = data[n - RingCap + (RingCap - k) + 1]
      BY <2>1, <3>1
    <3>3. n - RingCap + (RingCap - k) + 1 \in 1..n
      BY <1>3, Caps
    <3> QED
      BY <1>1, <3>1, <3>2, <3>3, Caps
  <2>3. m >= RingCap
    BY <1>3, <1>1, Caps DEF m, Holds
  <2>a. /\ w.written = m /\ w.head = 0 /\ w.size = RingCap
        /\ w.buf = [i \in 0..(RingCap - 1) |-> data[n - RingCap + i + 1]]
    BY <2>1
  <2>b. w.head \in 0..(RingCap - 1) /\ ~(m < RingCap) /\ m \in Nat
    BY <1>1, <2>a, <2>3, Caps
  <2>4. Holds(w) /\ w.written = m
    BY <2>2, <2>a, <2>b DEF Holds
  <2> QED
    BY <2>4 DEF w, m, data
<1>4. CASE ~(n >= RingCap)
  <2> DEFINE head == (r.head + n) % RingCap
             K(i) == (i - r.head + RingCap) % RingCap
  <2>1. w = [buf |-> [i \in 0..(RingCap - 1) |->
                         IF K(i) < n THEN data[K(i) + 1] ELSE r.buf[i]],
             head |-> head,
             size |-> IF r.size + n > RingCap THEN RingCap ELSE r.size + n,
             written |-> m]
    BY <1>1, <1>2, <1>4 DEF RingWrite
  <2>2. head = IF r.head + n < RingCap THEN r.head + n ELSE r.head + n - RingCap
    <3> DEFINE a == r.head + n
    <3>1. a \in 0..(RingCap - 1) \/ a \in RingCap..(2 * RingCap - 1)
      BY <1>4, Caps DEF Holds
    <3> HIDE DEF a
    <3>2. a % RingCap = IF a < RingCap THEN a ELSE a - RingCap
      BY <3>1, ModLow, ModHigh, Caps
    <3>3. head = a % RingCap
      BY DEF a
    <3> HIDE DEF head
    <3> QED
      BY <3>2, <3>3, Caps DEF a, Holds
  <2>3. ASSUME NEW i \in 0..(RingCap - 1)
        PROVE  K(i) = IF i < r.head THEN i - r.head + RingCap ELSE i - r.head
    <3> DEFINE a == i - r.head + RingCap
    <3>1. IF i < r.head THEN a \in 0..(RingCap - 1) ELSE a \in RingCap..(2 * RingCap - 1)
      BY Caps DEF Holds
    <3>2. a = i - r.head + RingCap /\ a - RingCap = i - r.head
      BY Caps DEF Holds
    <3> HIDE DEF a
    <3>3. a % RingCap = IF i < r.head THEN a ELSE a - RingCap
      BY <3>1, ModLow, ModHigh, Caps
    <3> QED
      BY <3>2, <3>3
  <2> HIDE DEF w, m, head, K
  <2>8. /\ w.size = IF r.size + n > RingCap THEN RingCap ELSE r.size + n
        /\ w.head = head /\ w.written = m
    BY <2>1
  <2>9. /\ m = r.written + n /\ r.written \in Nat
        /\ r.size = IF r.written < RingCap THEN r.written ELSE RingCap
    BY DEF m, Holds
  <2>4. w.size = IF m < RingCap THEN m ELSE RingCap
    BY <2>8, <2>9, <1>4, Caps
  <2>5. head \in 0..(RingCap - 1)
    BY <2>2, <1>4, Caps DEF Holds
  <2>6. ASSUME NEW k \in 1..w.size PROVE w.buf[Slot(head, k)] = m - k + 1
    <3>1. k \in 1..RingCap /\ k <= m /\ w.size \in Nat
      BY <2>4, <1>1, Caps
    <3> DEFINE i == Slot(head, k)
    <3>2. i \in 0..(RingCap - 1)
      BY <3>1, <2>5, Caps DEF Slot
    <3>3. w.buf[i] = IF K(i) < n THEN data[K(i) + 1] ELSE r.buf[i]
      BY <3>2, <2>1
    <3>4. K(i) = IF i < r.head THEN i - r.head + RingCap ELSE i - r.head
      BY <3>2, <2>3
    <3>5. CASE k <= n
      <4>1. K(i) = n - k
        BY <3>1, <3>4, <3>5, <2>2, <1>4, Caps DEF Slot, Holds
      <4> QED
        BY <4>1, <3>3, <3>5, <3>1, <1>1
    <3>6. CASE ~(k <= n)
      <4>1. k - n \in 1..r.size /\ i = Slot(r.head, k - n)
        <5>1. k - n \in 1..r.size
          BY <3>1, <3>6, <2>8, <2>9, <1>4, Caps
        <5>2. r.head \in 0..(RingCap - 1)
          BY DEF Holds
        <5> QED
          BY <5>1, <5>2, <3>1, <3>6, <2>2, <1>4, Caps DEF Slot
      <4>2. ~(K(i) < n) /\ K(i) \in Int
        BY <3>1, <3>4, <3>6, <2>2, <1>4, Caps DEF Slot, Holds
      <4>3. r.buf[Slot(r.head, k - n)] = r.written - (k - n) + 1
        BY <4>1 DEF Holds
      <4> HIDE DEF i
      <4> QED
        BY <4>1, <4>2, <4>3, <3>3, <3>1, <2>9 DEF i
    <3> QED
      BY <3>5, <3>6, <3>1
  <2>7. Holds(w) /\ w.written = m
    BY <1>1, <2>1, <2>4, <2>5, <2>6 DEF Holds
  <2> QED
    BY <2>7 DEF w, m, data
<1> QED
  BY <1>3, <1>4

\* The output goroutine hands on the bytes in the order they were read: what it
\* read last is either in the buffer or the chunk that comes next.
RingInv ==
    /\ Holds(ring)
    /\ \/ /\ pipe.pc = "scrollback"
          /\ \E n \in Nat \ {0} :
                out = ring.written + n /\ pipe.chunk = Bytes(out, n)
       \/ /\ pipe.pc = "fan"
          /\ out = ring.written
          /\ \E n \in (Nat \ {0}) : n <= out /\ pipe.chunk = Bytes(out, n)
       \/ pipe.pc \notin {"scrollback", "fan"} /\ out = ring.written

LEMMA InitRing == Init => RingInv
<1> SUFFICES ASSUME Init PROVE RingInv
  OBVIOUS
<1>1. /\ ring = [buf |-> [i \in 0..(RingCap - 1) |-> 0], head |-> 0, size |-> 0, written |-> 0]
      /\ out = 0
      /\ pipe = [pc |-> "none", chunk |-> <<>>]
  BY Zenon DEF Init
<1> QED
  BY <1>1, Caps DEF RingInv, Holds

LEMMA FrameRing == ASSUME RingInv, UNCHANGED <<ring, out, pipe>> PROVE RingInv'
BY DEF RingInv, Holds, Bytes

\* The goroutine's other steps: it holds no chunk before nor after.
LEMMA IdleRing ==
    ASSUME RingInv, UNCHANGED <<ring, out>>,
           pipe.pc \notin {"scrollback", "fan"}, pipe'.pc \notin {"scrollback", "fan"}
    PROVE  RingInv'
BY DEF RingInv, Holds, Bytes

LEMMA ReadOutputRing == ASSUME RingInv, NEW n \in ChunkSizes, ReadOutput(n) PROVE RingInv'
<1>1. n \in Nat \ {0} /\ ring.written \in Nat /\ out = ring.written
  BY Caps DEF RingInv, Holds, ReadOutput
<1>2. pipe' = [pc |-> "scrollback", chunk |-> [i \in 1..n |-> out + i]]
      /\ out' = out + n /\ ring' = ring
  BY DEF ReadOutput
<1>3. [i \in 1..n |-> out + i] = Bytes(out', n)
  BY <1>1, <1>2 DEF Bytes
<1>4. Holds(ring)'
  BY <1>2 DEF RingInv, Holds
<1>5. out' = ring'.written + n /\ pipe'.pc = "scrollback" /\ pipe'.chunk = Bytes(out', n)
  BY <1>1, <1>2, <1>3
<1> QED
  BY <1>1, <1>4, <1>5 DEF RingInv

LEMMA AppendScrollbackRing == ASSUME SessionInv, RingInv, AppendScrollback PROVE RingInv'
<1>1. PICK n \in Nat \ {0} : out = ring.written + n /\ pipe.chunk = Bytes(out, n)
  BY DEF RingInv, AppendScrollback
<1>2. pipe'.pc = "fan" /\ pipe'.chunk = pipe.chunk /\ out' = out
      /\ ring' = RingWrite(ring, pipe.chunk)
  BY DEF AppendScrollback, SessionInv, StartInv
<1>3. Holds(RingWrite(ring, pipe.chunk)) /\ RingWrite(ring, pipe.chunk).written = out
  BY <1>1, WriteHolds DEF RingInv
<1>4. Holds(ring)' /\ ring'.written = out'
  BY <1>2, <1>3 DEF Holds
<1>5. n <= out' /\ pipe'.chunk = Bytes(out', n)
  BY <1>1, <1>2 DEF RingInv, Holds
<1> QED
  BY <1>2, <1>4, <1>5 DEF RingInv

LEMMA NextRing == SessionInv /\ RingInv /\ [Next]_vars => RingInv'
<1> SUFFICES ASSUME SessionInv, RingInv, [Next]_vars PROVE RingInv'
  OBVIOUS
<1>1. CASE \E n \in ChunkSizes : ReadOutput(n)
  BY <1>1, ReadOutputRing
<1>2. CASE AppendScrollback
  BY <1>2, AppendScrollbackRing
<1>3. CASE FanOut
  <2>1. /\ pipe'.pc = "read" /\ UNCHANGED <<ring, out>>
        /\ Holds(ring) /\ out = ring.written
    BY <1>3 DEF FanOut, RingInv
  <2> QED
    BY <2>1 DEF RingInv, Holds
<1>4. CASE PipeEnds \/ SubmitEnded \/ ExitNotify \/ StartPTY
  <2>1. CASE UNCHANGED pipe
    BY <1>4, <2>1, FrameRing DEF PipeEnds, SubmitEnded, ExitNotify, StartPTY
  <2>2. CASE pipe' # pipe
    <3>1. pipe.pc \notin {"scrollback", "fan"} /\ pipe'.pc \notin {"scrollback", "fan"}
      BY <1>4, <2>2 DEF PipeEnds, SubmitEnded, ExitNotify, StartPTY, StartGoroutines,
                        SessionInv, StartInv
    <3>2. UNCHANGED <<ring, out>>
      BY <1>4 DEF PipeEnds, SubmitEnded, ExitNotify, StartPTY
    <3> QED
      BY <3>1, <3>2, IdleRing
  <2> QED
    BY <2>1, <2>2
<1>5. CASE UNCHANGED <<ring, out, pipe>>
  BY <1>5, FrameRing
<1>6. \/ \E n \in ChunkSizes : ReadOutput(n)
      \/ AppendScrollback \/ FanOut \/ PipeEnds \/ SubmitEnded \/ ExitNotify \/ StartPTY
      \/ UNCHANGED <<ring, out, pipe>>
  <2>1. Lifecycle => StartPTY \/ UNCHANGED <<ring, out, pipe>>
    BY DEF Lifecycle, AdapterStart, SubscribeMonitor, Forward, AdapterStop, ContextCancelled, Watch, SessionStop,
           WaitInterrupted, KillChild, WaitKilled, Cleanup, ChildExits, terminal
  <2>2. (\E u \in Streams : SnapshotScrollback(u) \/ Register(u) \/ OutputPump(u)
                            \/ StreamCancelled(u)) => UNCHANGED <<ring, out, pipe>>
    BY DEF SnapshotScrollback, Register, OutputPump, StreamCancelled
  <2>3. Monitoring => UNCHANGED <<ring, out, pipe>>
    BY DEF Monitoring, ProcessEvent, ProcessLoopEnds, IdleTimerFires, IdleTimeout,
           HandleHookEvent, HandleAPIRequest, HandleToolResult, HandleMessage, CliEvent,
           FanOutEvent, IdleFanOut, terminal
  <2>4. Tailing => UNCHANGED <<ring, out, pipe>>
    BY TailingFrame DEF terminal
  <2>5. UNCHANGED vars => UNCHANGED <<ring, out, pipe>>
    BY DEF vars
  <2> QED
    BY <2>1, <2>2, <2>3, <2>4, <2>5 DEF Next, Output
<1> QED
  BY <1>1, <1>2, <1>3, <1>4, <1>5, <1>6

\* The scrollback a new stream starts with is the newest output, in order and
\* without a gap, for any size of the ring, of the snapshot and of the reads,
\* those that wrap around the end and those larger than the ring included
\* (terminal_subscription.go:52, 78).
THEOREM ScrollbackTail == Spec => []ScrollbackIsTail
<1>1. RingInv => ScrollbackIsTail
  <2> SUFFICES ASSUME RingInv PROVE ScrollbackIsTail
    OBVIOUS
  <2> DEFINE n == IF ring.written > SnapMax THEN SnapMax ELSE ring.written
  <2>1. Snapshot(ring) = Bytes(ring.written, n)
    BY SnapshotIsTail DEF RingInv
  <2>2. n \in Nat /\ ring.written \in Nat
    BY Caps DEF RingInv, Holds
  <2> HIDE DEF n
  <2>3. Len(Bytes(ring.written, n)) = n
        /\ \A i \in 1..n : Bytes(ring.written, n)[i] = ring.written - n + i
    BY <2>2 DEF Bytes
  <2> QED
    BY <2>1, <2>2, <2>3 DEF ScrollbackIsTail, n
<1> QED
  BY <1>1, InitSession, NextSession, InitRing, NextRing, PTL DEF Spec

----------------------------------------------------------------------------
(* The terminal streams *)

\* What a client has read, and then the chunks of its queue, in order.
InOrder(got, q) ==
    /\ \A i, j \in 1..Len(got) : i < j => got[i] < got[j]
    /\ \A c \in 1..Len(q) : \A i, j \in 1..Len(q[c]) : i < j => q[c][i] < q[c][j]
    /\ \A c, d \in 1..Len(q) : c < d =>
          \A i \in 1..Len(q[c]), j \in 1..Len(q[d]) : q[c][i] < q[d][j]
    /\ \A i \in 1..Len(got), d \in 1..Len(q) : \A j \in 1..Len(q[d]) : got[i] < q[d][j]

\* Nothing in a stream is newer than its last byte ...
UpTo(got, q, last) ==
    /\ \A i \in 1..Len(got) : got[i] <= last
    /\ \A c \in 1..Len(q) : \A i \in 1..Len(q[c]) : q[c][i] <= last

\* ... which is at its end.
EndsWith(got, q, last) ==
    last # 0 => IF Len(q) = 0 THEN Len(got) > 0 /\ got[Len(got)] = last
                ELSE q[Len(q)][Len(q[Len(q)])] = last

Kept(s) ==
    /\ DOMAIN s = {"pc", "scroll", "q", "got", "done", "last"}
    /\ s.got \in Seq(Nat) /\ s.q \in Seq(Seq(Nat)) /\ s.last \in Nat
    /\ \A c \in 1..Len(s.q) : Len(s.q[c]) > 0
    /\ InOrder(s.got, s.q)
    /\ UpTo(s.got, s.q, s.last)
    /\ EndsWith(s.got, s.q, s.last)

LEMMA KeptSame ==
    ASSUME NEW s, Kept(s), NEW t, DOMAIN t = DOMAIN s,
           t.q = s.q, t.got = s.got, t.last = s.last
    PROVE  Kept(t)
BY DEF Kept

LEMMA AppendKept ==
    ASSUME NEW got \in Seq(Nat), NEW q \in Seq(Seq(Nat)), NEW last \in Nat,
           InOrder(got, q), UpTo(got, q, last), \A c \in 1..Len(q) : Len(q[c]) > 0,
           NEW chunk \in Seq(Nat), Len(chunk) > 0,
           \A i \in 1..Len(chunk) : last < chunk[i],
           \A i, j \in 1..Len(chunk) : i < j => chunk[i] < chunk[j]
    PROVE  /\ Append(q, chunk) \in Seq(Seq(Nat))
           /\ \A c \in 1..Len(Append(q, chunk)) : Len(Append(q, chunk)[c]) > 0
           /\ InOrder(got, Append(q, chunk))
           /\ UpTo(got, Append(q, chunk), chunk[Len(chunk)])
           /\ EndsWith(got, Append(q, chunk), chunk[Len(chunk)])
<1> DEFINE p == Append(q, chunk)
<1>1. /\ p \in Seq(Seq(Nat)) /\ Len(p) = Len(q) + 1 /\ Len(q) \in Nat
      /\ \A c \in 1..Len(q) : p[c] = q[c]
      /\ p[Len(q) + 1] = chunk
  OBVIOUS
<1>2. \A c \in 1..Len(q) : q[c] \in Seq(Nat)
  OBVIOUS
<1>3. chunk[Len(chunk)] \in Nat /\ last < chunk[Len(chunk)]
      /\ \A i \in 1..Len(chunk) : chunk[i] <= chunk[Len(chunk)] /\ chunk[i] \in Nat
  <2>1. Len(chunk) \in 1..Len(chunk)
    OBVIOUS
  <2>2. \A i \in 1..Len(chunk) : chunk[i] \in Nat
    OBVIOUS
  <2>3. ASSUME NEW i \in 1..Len(chunk) PROVE chunk[i] <= chunk[Len(chunk)]
    <3>1. CASE i = Len(chunk)
      BY <2>2, <3>1
    <3>2. CASE i < Len(chunk)
      <4>1. chunk[i] < chunk[Len(chunk)]
        BY <2>1, <3>2, Zenon
      <4>2. chunk[i] \in Nat /\ chunk[Len(chunk)] \in Nat
        BY <2>1, <2>2, Zenon
      <4> QED
        BY <4>1, <4>2
    <3> QED
      BY <3>1, <3>2
  <2> QED
    BY <2>1, <2>2, <2>3
<1>c. ASSUME NEW x \in Nat, NEW y \in Nat, x <= last, last < y PROVE x < y /\ x <= y
  BY <1>c
<1> HIDE DEF p
<1>a. ASSUME NEW c \in 1..Len(p)
      PROVE  \/ c \in 1..Len(q) /\ p[c] = q[c] /\ q[c] \in Seq(Nat)
             \/ c = Len(q) + 1 /\ p[c] = chunk
  <2>1. c \in 1..Len(q) \/ c = Len(q) + 1
    BY <1>1
  <2> QED
    BY <2>1, <1>1, <1>2
<1>b. ASSUME NEW s \in Seq(Nat), NEW i \in 1..Len(s) PROVE s[i] \in Nat
  OBVIOUS
<1>4. \A c \in 1..Len(p) : Len(p[c]) > 0
  BY <1>a
<1>5. InOrder(got, p)
  <2>1. ASSUME NEW c \in 1..Len(p), NEW i \in 1..Len(p[c]), NEW j \in 1..Len(p[c]), i < j
        PROVE  p[c][i] < p[c][j]
    BY <1>a, <2>1 DEF InOrder
  <2>2. ASSUME NEW c \in 1..Len(p), NEW d \in 1..Len(p), c < d,
               NEW i \in 1..Len(p[c]), NEW j \in 1..Len(p[d])
        PROVE  p[c][i] < p[d][j]
    <3>0. c # Len(q) + 1
      BY <1>1, <2>2
    <3>1. c \in 1..Len(q) /\ p[c] = q[c] /\ q[c] \in Seq(Nat)
      BY <1>a, <3>0
    <3>4. q[c][i] \in Nat
      BY <1>b, <3>1
    <3>2. CASE d \in 1..Len(q) /\ p[d] = q[d]
      BY <2>2, <3>1, <3>2 DEF InOrder
    <3>3. CASE p[d] = chunk
      <4>1. q[c][i] <= last
        BY <3>1 DEF UpTo
      <4>2. last < chunk[j] /\ chunk[j] \in Nat
        BY <3>3, <1>3
      <4>3. q[c][i] < chunk[j]
        BY <1>c, <3>4, <4>1, <4>2, Zenon
      <4> QED
        BY <3>1, <3>3, <4>3, Zenon
    <3> QED
      BY <1>a, <3>2, <3>3
  <2>3. ASSUME NEW i \in 1..Len(got), NEW d \in 1..Len(p), NEW j \in 1..Len(p[d])
        PROVE  got[i] < p[d][j]
    <3>1. CASE d \in 1..Len(q) /\ p[d] = q[d]
      BY <3>1 DEF InOrder
    <3>2. CASE p[d] = chunk
      <4>1. got[i] \in Nat /\ got[i] <= last
        BY <1>b DEF UpTo
      <4>2. last < chunk[j] /\ chunk[j] \in Nat
        BY <3>2, <1>3
      <4> QED
        BY <1>c, <3>2, <4>1, <4>2, Zenon
    <3> QED
      BY <1>a, <3>1, <3>2
  <2>4. \A i, j \in 1..Len(got) : i < j => got[i] < got[j]
    BY DEF InOrder
  <2> QED
    BY <2>1, <2>2, <2>3, <2>4 DEF InOrder
<1>6. UpTo(got, p, chunk[Len(chunk)])
  <2>1. \A i \in 1..Len(got) : got[i] <= chunk[Len(chunk)]
    BY <1>3 DEF UpTo
  <2>2. ASSUME NEW c \in 1..Len(p), NEW i \in 1..Len(p[c]) PROVE p[c][i] <= chunk[Len(chunk)]
    <3>1. CASE c \in 1..Len(q) /\ p[c] = q[c] /\ q[c] \in Seq(Nat)
      <4>1. q[c][i] \in Nat /\ q[c][i] <= last
        BY <1>b, <3>1 DEF UpTo
      <4> QED
        BY <1>3, <1>c, <3>1, <4>1, Zenon
    <3>2. CASE p[c] = chunk
      BY <1>3, <3>2
    <3> QED
      BY <1>a, <3>1, <3>2
  <2> QED
    BY <2>1, <2>2 DEF UpTo
<1>7. EndsWith(got, p, chunk[Len(chunk)])
  BY <1>1 DEF EndsWith
<1> QED
  BY <1>1, <1>4, <1>5, <1>6, <1>7 DEF p

\* The oldest chunk of a full queue is dropped.
LEMMA TailInOrder ==
    ASSUME NEW got \in Seq(Nat), NEW q \in Seq(Seq(Nat)), Len(q) > 0, NEW last \in Nat,
           InOrder(got, q), UpTo(got, q, last), \A c \in 1..Len(q) : Len(q[c]) > 0
    PROVE  /\ Tail(q) \in Seq(Seq(Nat))
           /\ \A c \in 1..Len(Tail(q)) : Len(Tail(q)[c]) > 0
           /\ InOrder(got, Tail(q))
           /\ UpTo(got, Tail(q), last)
<1> DEFINE p == Tail(q)
<1>1. /\ p \in Seq(Seq(Nat)) /\ Len(p) = Len(q) - 1 /\ Len(q) \in Nat
      /\ \A c \in 1..Len(p) : p[c] = q[c + 1] /\ c + 1 \in 1..Len(q)
  OBVIOUS
<1> HIDE DEF p
<1>2. InOrder(got, p)
  <2>1. ASSUME NEW c \in 1..Len(p), NEW i \in 1..Len(p[c]), NEW j \in 1..Len(p[c]), i < j
        PROVE  p[c][i] < p[c][j]
    BY <1>1, <2>1 DEF InOrder
  <2>2. ASSUME NEW c \in 1..Len(p), NEW d \in 1..Len(p), c < d,
               NEW i \in 1..Len(p[c]), NEW j \in 1..Len(p[d])
        PROVE  p[c][i] < p[d][j]
    <3>1. p[c] = q[c + 1] /\ c + 1 \in 1..Len(q)
      BY <1>1
    <3>2. p[d] = q[d + 1] /\ d + 1 \in 1..Len(q)
      BY <1>1
    <3>3. c + 1 < d + 1
      BY <1>1, <2>2
    <3> QED
      BY <3>1, <3>2, <3>3 DEF InOrder
  <2>3. ASSUME NEW i \in 1..Len(got), NEW d \in 1..Len(p), NEW j \in 1..Len(p[d])
        PROVE  got[i] < p[d][j]
    BY <1>1 DEF InOrder
  <2>4. \A i, j \in 1..Len(got) : i < j => got[i] < got[j]
    BY DEF InOrder
  <2> QED
    BY <2>1, <2>2, <2>3, <2>4 DEF InOrder
<1>3. \A c \in 1..Len(p) : Len(p[c]) > 0
  BY <1>1
<1>4. UpTo(got, p, last)
  BY <1>1 DEF UpTo
<1> QED
  BY <1>1, <1>2, <1>3, <1>4 DEF p

\* FanOut to one stream: bytes newer than its last.
LEMMA PushedKept ==
    ASSUME NEW s, Kept(s), NEW m \in Nat, NEW n \in Nat \ {0}, s.last + n <= m
    PROVE  Kept(Pushed(s, Bytes(m, n))) /\ Pushed(s, Bytes(m, n)).last = m
<1> DEFINE chunk == Bytes(m, n)
           t == Pushed(s, chunk)
           q == IF Len(s.q) < SubCap THEN s.q ELSE Tail(s.q)
<1>1. /\ s.got \in Seq(Nat) /\ s.q \in Seq(Seq(Nat)) /\ s.last \in Nat
      /\ \A c \in 1..Len(s.q) : Len(s.q[c]) > 0
      /\ InOrder(s.got, s.q) /\ UpTo(s.got, s.q, s.last)
      /\ DOMAIN s = {"pc", "scroll", "q", "got", "done", "last"}
  BY DEF Kept
<1>2. /\ Len(chunk) = n /\ chunk[n] = m
      /\ \A i \in 1..n : chunk[i] = m - n + i /\ m - n + i \in Nat
  BY <1>1 DEF Bytes
<1>3. chunk = [i \in 1..n |-> m - n + i]
  BY DEF Bytes
<1> HIDE DEF chunk
<1>4. chunk \in Seq(Nat)
  BY <1>2, <1>3
<1>5. /\ \A i \in 1..Len(chunk) : s.last < chunk[i]
      /\ \A i, j \in 1..Len(chunk) : i < j => chunk[i] < chunk[j]
  BY <1>1, <1>2
<1>6. /\ q \in Seq(Seq(Nat))
      /\ \A c \in 1..Len(q) : Len(q[c]) > 0
      /\ InOrder(s.got, q) /\ UpTo(s.got, q, s.last)
  <2>1. CASE Len(s.q) < SubCap
    BY <1>1, <2>1
  <2>2. CASE ~(Len(s.q) < SubCap)
    <3>1. Len(s.q) > 0
      BY <1>1, <2>2, Caps
    <3> QED
      BY <1>1, <2>2, <3>1, TailInOrder
  <2> QED
    BY <2>1, <2>2
<1>7. /\ DOMAIN t = DOMAIN s /\ t.got = s.got /\ t.q = Append(q, chunk)
      /\ t.last = chunk[Len(chunk)]
  BY <1>1 DEF Pushed
<1> HIDE DEF t, q
<1>8. /\ Append(q, chunk) \in Seq(Seq(Nat))
      /\ \A c \in 1..Len(Append(q, chunk)) : Len(Append(q, chunk)[c]) > 0
      /\ InOrder(s.got, Append(q, chunk))
      /\ UpTo(s.got, Append(q, chunk), chunk[Len(chunk)])
      /\ EndsWith(s.got, Append(q, chunk), chunk[Len(chunk)])
  <2> DEFINE got == s.got
             last == s.last
  <2>1. got \in Seq(Nat) /\ last \in Nat /\ InOrder(got, q) /\ UpTo(got, q, last)
        /\ (\A i \in 1..Len(chunk) : last < chunk[i]) /\ Len(chunk) > 0
    BY <1>1, <1>2, <1>5, <1>6
  <2> HIDE DEF got, last
  <2>2. /\ Append(q, chunk) \in Seq(Seq(Nat))
        /\ \A c \in 1..Len(Append(q, chunk)) : Len(Append(q, chunk)[c]) > 0
        /\ InOrder(got, Append(q, chunk))
        /\ UpTo(got, Append(q, chunk), chunk[Len(chunk)])
        /\ EndsWith(got, Append(q, chunk), chunk[Len(chunk)])
    BY <2>1, <1>4, <1>5, <1>6, AppendKept
  <2> QED
    BY <2>2 DEF got
<1>9. Kept(t) /\ t.last = m
  BY <1>1, <1>2, <1>7, <1>8 DEF Kept
<1> QED
  BY <1>9 DEF t, chunk

\* outputPump hands the oldest chunk to the client.
LEMMA PumpKept ==
    ASSUME NEW s, Kept(s), s.q # <<>>, NEW t, DOMAIN t = DOMAIN s, t.last = s.last,
           t.q = Tail(s.q), t.got = s.got \o Head(s.q)
    PROVE  Kept(t)
<1> DEFINE got == s.got
           q == s.q
           h == Head(q)
           g == got \o h
           p == Tail(q)
           last == s.last
<1>1. /\ got \in Seq(Nat) /\ q \in Seq(Seq(Nat)) /\ last \in Nat
      /\ \A c \in 1..Len(q) : Len(q[c]) > 0
      /\ InOrder(got, q) /\ UpTo(got, q, last) /\ EndsWith(got, q, last)
      /\ DOMAIN s = {"pc", "scroll", "q", "got", "done", "last"}
  BY DEF Kept
<1>2. q # <<>>
  OBVIOUS
<1>3. t.last = last /\ t.q = p /\ t.got = g
  OBVIOUS
<1> HIDE DEF got, q, last
<1>4. Len(q) > 0 /\ Len(q) \in Nat
  BY <1>1, <1>2
<1>5. /\ p \in Seq(Seq(Nat)) /\ \A c \in 1..Len(p) : Len(p[c]) > 0
      /\ InOrder(got, p) /\ UpTo(got, p, last)
  BY <1>1, <1>4, TailInOrder
<1>6. h \in Seq(Nat) /\ h = q[1] /\ 1 \in 1..Len(q) /\ Len(h) > 0 /\ Len(h) \in Nat
  BY <1>1, <1>4
<1>7. /\ Len(p) = Len(q) - 1
      /\ \A c \in 1..Len(p) : p[c] = q[c + 1] /\ c + 1 \in 1..Len(q) /\ 1 < c + 1
  BY <1>1, <1>4
<1> HIDE DEF h, p
<1>8. /\ g \in Seq(Nat) /\ Len(g) = Len(got) + Len(h) /\ Len(got) \in Nat
      /\ \A i \in 1..Len(got) : g[i] = got[i]
      /\ \A i \in (Len(got) + 1)..(Len(got) + Len(h)) : g[i] = h[i - Len(got)]
  BY <1>1, <1>6
<1> HIDE DEF g
<1>9. ASSUME NEW i \in 1..Len(g)
      PROVE  \/ i \in 1..Len(got) /\ g[i] = got[i]
             \/ i \notin 1..Len(got) /\ i - Len(got) \in 1..Len(h) /\ g[i] = h[i - Len(got)]
  BY <1>6, <1>8
<1>10. InOrder(g, p)
  <2>1. ASSUME NEW i \in 1..Len(g), NEW j \in 1..Len(g), i < j PROVE g[i] < g[j]
    <3>1. CASE i \in 1..Len(got) /\ j \in 1..Len(got)
      BY <1>1, <1>8, <2>1, <3>1 DEF InOrder
    <3>2. CASE i \in 1..Len(got) /\ j \notin 1..Len(got)
      <4>1. got[i] < h[j - Len(got)]
        BY <1>1, <1>6, <1>9, <3>2 DEF InOrder
      <4> QED
        BY <4>1, <1>9, <3>2
    <3>3. CASE i \notin 1..Len(got) /\ j \notin 1..Len(got)
      <4>1. i - Len(got) \in 1..Len(h) /\ j - Len(got) \in 1..Len(h)
            /\ i - Len(got) < j - Len(got)
        BY <1>8, <1>9, <2>1, <3>3
      <4>2. h[i - Len(got)] < h[j - Len(got)]
        BY <4>1, <1>1, <1>6 DEF InOrder
      <4> QED
        BY <4>2, <1>9, <3>3
    <3> QED
      BY <1>8, <2>1, <3>1, <3>2, <3>3
  <2>2. ASSUME NEW i \in 1..Len(g), NEW d \in 1..Len(p), NEW j \in 1..Len(p[d])
        PROVE  g[i] < p[d][j]
    <3>1. CASE i \in 1..Len(got) /\ g[i] = got[i]
      BY <1>5, <3>1 DEF InOrder
    <3>2. CASE i - Len(got) \in 1..Len(h) /\ g[i] = h[i - Len(got)]
      <4>1. p[d] = q[d + 1] /\ d + 1 \in 1..Len(q) /\ 1 < d + 1
        BY <1>7
      <4>2. q[1][i - Len(got)] < q[d + 1][j]
        BY <4>1, <1>1, <1>6, <3>2 DEF InOrder
      <4> QED
        BY <4>1, <4>2, <1>6, <3>2, Zenon
    <3> QED
      BY <1>9, <3>1, <3>2
  <2>3. /\ \A c \in 1..Len(p) : \A i, j \in 1..Len(p[c]) : i < j => p[c][i] < p[c][j]
        /\ \A c, d \in 1..Len(p) : c < d =>
              \A i \in 1..Len(p[c]), j \in 1..Len(p[d]) : p[c][i] < p[d][j]
    BY <1>5 DEF InOrder
  <2> QED
    BY <2>1, <2>2, <2>3 DEF InOrder
<1>11. UpTo(g, p, last)
  <2>1. ASSUME NEW i \in 1..Len(g) PROVE g[i] <= last
    <3>1. CASE i \in 1..Len(got) /\ g[i] = got[i]
      BY <1>5, <3>1 DEF UpTo
    <3>2. CASE i - Len(got) \in 1..Len(h) /\ g[i] = h[i - Len(got)]
      BY <1>1, <1>6, <3>2 DEF UpTo
    <3> QED
      BY <1>9, <3>1, <3>2
  <2> QED
    BY <2>1, <1>5 DEF UpTo
<1>12. EndsWith(g, p, last)
  <2>1. CASE Len(q) = 1
    <3>4. Len(g) \in (Len(got) + 1)..(Len(got) + Len(h)) /\ Len(g) - Len(got) = Len(h)
      BY <1>6, <1>8
    <3>1. g[Len(g)] = h[Len(h)]
      BY <3>4, <1>8
    <3>2. last # 0 => h[Len(h)] = last
      BY <1>1, <1>6, <2>1 DEF EndsWith
    <3> QED
      BY <3>1, <3>2, <1>6, <1>7, <1>8, <2>1 DEF EndsWith
  <2>2. CASE Len(q) # 1
    <3>1. Len(p) \in 1..Len(p) /\ p[Len(p)] = q[Len(q)] /\ Len(p) # 0
      <4>1. Len(p) \in 1..Len(p) /\ Len(p) + 1 = Len(q) /\ Len(p) # 0
        BY <1>4, <1>7, <2>2
      <4> QED
        BY <4>1, <1>7
    <3> QED
      BY <3>1, <1>1, <1>4 DEF EndsWith
  <2> QED
    BY <2>1, <2>2
<1> QED
  BY <1>1, <1>3, <1>5, <1>8, <1>10, <1>11, <1>12 DEF Kept, p

\* The newest byte a stream may have been given: all but the chunk on its way.
Fanned(m) ==
    \/ /\ pipe.pc \in {"scrollback", "fan"}
       /\ \E n \in Nat \ {0} : m + n <= out /\ pipe.chunk = Bytes(out, n)
    \/ pipe.pc \notin {"scrollback", "fan"} /\ m <= out

StreamInv ==
    /\ DOMAIN stream = Streams
    /\ \A u \in Streams : Kept(stream[u])
    /\ \A u \in Streams : Fanned(stream[u].last)

LEMMA InitStream == Init => StreamInv
<1> SUFFICES ASSUME Init PROVE StreamInv
  OBVIOUS
<1>1. /\ stream = [u \in Streams |-> [pc |-> "none", scroll |-> <<>>, q |-> <<>>, got |-> <<>>,
                                      done |-> FALSE, last |-> 0]]
      /\ out = 0
      /\ pipe = [pc |-> "none", chunk |-> <<>>]
  BY Zenon DEF Init
<1>2. ASSUME NEW u \in Streams PROVE Kept(stream[u]) /\ stream[u].last = 0
  <2>1. stream[u] = [pc |-> "none", scroll |-> <<>>, q |-> <<>>, got |-> <<>>,
                     done |-> FALSE, last |-> 0]
    BY <1>1
  <2> QED
    BY <2>1 DEF Kept, InOrder, UpTo, EndsWith
<1> QED
  BY <1>1, <1>2 DEF StreamInv, Fanned

\* The streams stay as they are, or one of them takes a step that is not FanOut's.
LEMMA FrameStream ==
    ASSUME StreamInv, DOMAIN stream' = Streams,
           \A u \in Streams : Kept(stream'[u]) /\ stream'[u].last = stream[u].last,
           \A m \in Nat : Fanned(m) => Fanned(m)'
    PROVE  StreamInv'
<1>1. \A u \in Streams : Fanned(stream[u].last) /\ stream[u].last \in Nat
  BY DEF StreamInv, Kept
<1>2. ASSUME NEW u \in Streams PROVE Fanned(stream[u].last)'
  <2> PICK m \in Nat : m = stream[u].last
    BY <1>1
  <2>1. Fanned(m)'
    BY <1>1
  <2> QED
    BY <2>1 DEF Fanned
<1>3. \A u \in Streams : Kept(stream[u])'
  BY DEF Kept
<1> QED
  BY <1>2, <1>3 DEF StreamInv

LEMMA SameStream ==
    ASSUME StreamInv, UNCHANGED stream, \A m \in Nat : Fanned(m) => Fanned(m)'
    PROVE  StreamInv'
<1>1. \A u \in Streams : Kept(stream'[u]) /\ stream'[u].last = stream[u].last
  BY DEF StreamInv
<1> QED
  BY <1>1, FrameStream DEF StreamInv

LEMMA FanOutStream == ASSUME SessionInv, RingInv, StreamInv, FanOut PROVE StreamInv'
<1>1. /\ pipe.pc = "fan" /\ pipe'.pc = "read" /\ out' = out /\ out \in Nat
      /\ stream' = [u \in Streams |-> IF stream[u].pc = "live" /\ ~stream[u].done
                                      THEN Pushed(stream[u], pipe.chunk) ELSE stream[u]]
  BY DEF FanOut, RingInv, Holds
<1>2. ASSUME NEW u \in Streams PROVE Kept(stream'[u]) /\ stream'[u].last <= out
  <2> PICK s : s = stream[u]
    OBVIOUS
  <2>1. Kept(s) /\ Fanned(s.last) /\ s.last \in Nat
    BY DEF StreamInv, Kept, Fanned
  <2>2. PICK n \in Nat \ {0} : s.last + n <= out /\ pipe.chunk = Bytes(out, n)
    BY <1>1, <2>1 DEF Fanned
  <2>3. Kept(Pushed(s, pipe.chunk)) /\ Pushed(s, pipe.chunk).last = out
    BY <1>1, <2>1, <2>2, PushedKept
  <2>4. stream'[u] = Pushed(s, pipe.chunk) \/ stream'[u] = s
    BY <1>1
  <2> QED
    BY <1>1, <2>1, <2>2, <2>3, <2>4
<1>3. DOMAIN stream' = Streams
  BY <1>1
<1>4. \A u \in Streams : Fanned(stream[u].last)'
  BY <1>1, <1>2 DEF Fanned
<1>5. \A u \in Streams : Kept(stream[u])'
  BY <1>2 DEF Kept
<1> QED
  BY <1>3, <1>4, <1>5 DEF StreamInv

\* A step of one stream that leaves its queue alone.
LEMMA QuietStream ==
    ASSUME StreamInv, UNCHANGED <<out, pipe>>, NEW u \in Streams, NEW t,
           stream' = [stream EXCEPT ![u] = t], DOMAIN t = DOMAIN stream[u],
           t.q = stream[u].q, t.got = stream[u].got, t.last = stream[u].last
    PROVE  StreamInv'
<1>1. \A v \in Streams : stream'[v] = IF v = u THEN t ELSE stream[v]
  BY DEF StreamInv
<1>2. ASSUME NEW v \in Streams PROVE Kept(stream'[v]) /\ stream'[v].last = stream[v].last
  <2>1. CASE v = u
    <3> PICK s : s = stream[u]
      OBVIOUS
    <3>1. Kept(s)
      BY DEF StreamInv
    <3>2. Kept(t)
      BY <3>1, KeptSame
    <3> QED
      BY <1>1, <2>1, <3>2
  <2>2. CASE v # u
    BY <1>1, <2>2 DEF StreamInv
  <2> QED
    BY <2>1, <2>2
<1>3. \A m \in Nat : Fanned(m) => Fanned(m)'
  BY DEF Fanned
<1>4. DOMAIN stream' = Streams
  BY DEF StreamInv
<1> QED
  BY <1>2, <1>3, <1>4, FrameStream

LEMMA SnapshotScrollbackStream ==
    ASSUME StreamInv, NEW u \in Streams, SnapshotScrollback(u) PROVE StreamInv'
<1> DEFINE t == [stream[u] EXCEPT !.pc = "snapped", !.scroll = Snapshot(ring)]
<1>1. stream' = [stream EXCEPT ![u] = t] /\ UNCHANGED <<out, pipe>>
  BY DEF SnapshotScrollback, StreamInv, Kept
<1>2. /\ DOMAIN t = DOMAIN stream[u] /\ t.q = stream[u].q /\ t.got = stream[u].got
      /\ t.last = stream[u].last
  BY DEF StreamInv, Kept
<1> HIDE DEF t
<1> QED
  BY <1>1, <1>2, QuietStream

LEMMA LeaveStream ==
    ASSUME StreamInv, NEW u \in Streams, NEW pc, UNCHANGED <<out, pipe>>,
           stream' = [stream EXCEPT ![u].pc = pc]
    PROVE  StreamInv'
<1> DEFINE t == [stream[u] EXCEPT !.pc = pc]
<1>1. stream' = [stream EXCEPT ![u] = t]
  OBVIOUS
<1>2. DOMAIN t = DOMAIN stream[u] /\ t.q = stream[u].q /\ t.got = stream[u].got
      /\ t.last = stream[u].last
  BY DEF StreamInv, Kept
<1> HIDE DEF t
<1> QED
  BY <1>1, <1>2, QuietStream

LEMMA OutputPumpStream ==
    ASSUME StreamInv, NEW u \in Streams, OutputPump(u) PROVE StreamInv'
<1>0. UNCHANGED <<out, pipe>>
  BY DEF OutputPump
<1>1. CASE stream' = [stream EXCEPT ![u].pc = "over"]
  BY <1>0, <1>1, LeaveStream
<1>2. CASE /\ stream[u].q # <<>>
           /\ stream' = [stream EXCEPT ![u].q = Tail(@), ![u].got = @ \o Head(stream[u].q)]
  <2> PICK s : s = stream[u]
    OBVIOUS
  <2> DEFINE t == [s EXCEPT !.q = Tail(@), !.got = @ \o Head(s.q)]
  <2>1. stream' = [stream EXCEPT ![u] = t]
    BY <1>2
  <2>2. Kept(s)
    BY DEF StreamInv
  <2>3. /\ DOMAIN t = DOMAIN s /\ t.q = Tail(s.q) /\ t.got = s.got \o Head(s.q)
        /\ t.last = s.last
    BY <2>2 DEF Kept
  <2> HIDE DEF t
  <2>4. Kept(t)
    BY <1>2, <2>2, <2>3, PumpKept
  <2>5. \A v \in Streams : stream'[v] = IF v = u THEN t ELSE stream[v]
    BY <2>1 DEF StreamInv
  <2>6. \A v \in Streams : Kept(stream'[v]) /\ stream'[v].last = stream[v].last
    BY <2>3, <2>4, <2>5 DEF StreamInv
  <2>7. \A m \in Nat : Fanned(m) => Fanned(m)'
    BY <1>0 DEF Fanned
  <2>8. DOMAIN stream' = Streams
    BY <2>1 DEF StreamInv
  <2> QED
    BY <2>6, <2>7, <2>8, FrameStream
<1> QED
  BY <1>1, <1>2 DEF OutputPump

LEMMA CleanupStream == ASSUME StreamInv, NEW w \in Stoppers, Cleanup(w) PROVE StreamInv'
<1>1. UNCHANGED <<out, pipe>>
  BY DEF Cleanup
<1>2. \A m \in Nat : Fanned(m) => Fanned(m)'
  BY <1>1 DEF Fanned
<1>3. CASE UNCHANGED stream
  BY <1>2, <1>3, SameStream
<1>4. CASE stream' = [u \in Streams |->
                         IF stream[u].pc = "live" THEN [stream[u] EXCEPT !.done = TRUE]
                                                  ELSE stream[u]]
  <2>1. ASSUME NEW u \in Streams PROVE Kept(stream'[u]) /\ stream'[u].last = stream[u].last
    <3> PICK s : s = stream[u]
      OBVIOUS
    <3>1. Kept(s)
      BY DEF StreamInv
    <3> DEFINE t == [s EXCEPT !.done = TRUE]
    <3>2. DOMAIN t = DOMAIN s /\ t.q = s.q /\ t.got = s.got /\ t.last = s.last
      BY <3>1 DEF Kept
    <3>3. stream'[u] = s \/ stream'[u] = t
      BY <1>4
    <3> HIDE DEF t
    <3>4. Kept(t)
      BY <3>1, <3>2, KeptSame
    <3> QED
      BY <3>1, <3>2, <3>3, <3>4
  <2>2. DOMAIN stream' = Streams
    BY <1>4
  <2> QED
    BY <1>2, <2>1, <2>2, FrameStream
<1> QED
  BY <1>3, <1>4 DEF Cleanup

LEMMA ReadOutputStream ==
    ASSUME RingInv, StreamInv, NEW n \in ChunkSizes, ReadOutput(n) PROVE StreamInv'
<1>1. n \in Nat \ {0} /\ out \in Nat /\ UNCHANGED stream
      /\ pipe.pc = "read" /\ pipe'.pc = "scrollback" /\ out' = out + n
      /\ pipe'.chunk = [i \in 1..n |-> out + i]
  BY Caps DEF RingInv, Holds, ReadOutput
<1>2. [i \in 1..n |-> out + i] = Bytes(out', n)
  BY <1>1 DEF Bytes
<1>3. ASSUME NEW m \in Nat, Fanned(m) PROVE Fanned(m)'
  <2>1. m + n <= out'
    BY <1>1, <1>3 DEF Fanned
  <2> QED
    BY <2>1, <1>1, <1>2 DEF Fanned
<1> QED
  BY <1>1, <1>3, SameStream

LEMMA NextStream == SessionInv /\ RingInv /\ StreamInv /\ [Next]_vars => StreamInv'
<1> SUFFICES ASSUME SessionInv, RingInv, StreamInv, [Next]_vars PROVE StreamInv'
  OBVIOUS
<1>1. CASE \E n \in ChunkSizes : ReadOutput(n)
  BY <1>1, ReadOutputStream
<1>2. CASE FanOut
  BY <1>2, FanOutStream
<1>3. CASE \E w \in Stoppers : Cleanup(w)
  BY <1>3, CleanupStream
<1>4. CASE \E u \in Streams : SnapshotScrollback(u) \/ Register(u) \/ OutputPump(u)
                              \/ StreamCancelled(u)
  <2> PICK u \in Streams : SnapshotScrollback(u) \/ Register(u) \/ OutputPump(u)
                           \/ StreamCancelled(u)
    BY <1>4
  <2>1. CASE Register(u) \/ StreamCancelled(u)
    <3>1. /\ UNCHANGED <<out, pipe>>
          /\ \/ stream' = [stream EXCEPT ![u].pc = "live"]
             \/ stream' = [stream EXCEPT ![u].pc = "over"]
      BY <2>1 DEF Register, StreamCancelled
    <3> QED
      BY <3>1, LeaveStream
  <2> QED
    BY <2>1, SnapshotScrollbackStream, OutputPumpStream
<1>5. CASE AppendScrollback
  <2>1. pipe.pc = "scrollback" /\ pipe'.pc = "fan" /\ pipe'.chunk = pipe.chunk
        /\ UNCHANGED <<out, stream>>
    BY <1>5 DEF AppendScrollback, SessionInv, StartInv
  <2>2. \A m \in Nat : Fanned(m) => Fanned(m)'
    BY <2>1 DEF Fanned
  <2> QED
    BY <2>1, <2>2, SameStream
<1>6. CASE PipeEnds \/ SubmitEnded \/ ExitNotify \/ StartPTY
  <2>1. UNCHANGED <<out, stream>>
    BY <1>6 DEF PipeEnds, SubmitEnded, ExitNotify, StartPTY
  <2>2. UNCHANGED pipe \/ (pipe.pc \notin {"scrollback", "fan"} /\ pipe'.pc \notin {"scrollback", "fan"})
    BY <1>6 DEF PipeEnds, SubmitEnded, ExitNotify, StartPTY, StartGoroutines, SessionInv, StartInv
  <2>3. \A m \in Nat : Fanned(m) => Fanned(m)'
    BY <2>1, <2>2 DEF Fanned
  <2> QED
    BY <2>1, <2>3, SameStream
<1>7. CASE UNCHANGED <<stream, out, pipe>>
  <2>1. \A m \in Nat : Fanned(m) => Fanned(m)'
    BY <1>7 DEF Fanned
  <2> QED
    BY <1>7, <2>1, SameStream
<1>8. \/ \E n \in ChunkSizes : ReadOutput(n)
      \/ \E w \in Stoppers : Cleanup(w)
      \/ \E u \in Streams : SnapshotScrollback(u) \/ Register(u) \/ OutputPump(u)
                            \/ StreamCancelled(u)
      \/ AppendScrollback \/ FanOut \/ PipeEnds \/ SubmitEnded \/ ExitNotify \/ StartPTY
      \/ UNCHANGED <<stream, out, pipe>>
  <2>1. Lifecycle => \/ StartPTY \/ \E w \in Stoppers : Cleanup(w)
                     \/ UNCHANGED <<stream, out, pipe>>
    BY DEF Lifecycle, AdapterStart, SubscribeMonitor, Forward, AdapterStop, ContextCancelled, Watch, SessionStop,
           WaitInterrupted, KillChild, WaitKilled, ChildExits, terminal
  <2>2. Monitoring => UNCHANGED <<stream, out, pipe>>
    BY DEF Monitoring, ProcessEvent, ProcessLoopEnds, IdleTimerFires, IdleTimeout,
           HandleHookEvent, HandleAPIRequest, HandleToolResult, HandleMessage, CliEvent,
           FanOutEvent, IdleFanOut, terminal
  <2>3. Tailing => UNCHANGED <<stream, out, pipe>>
    BY TailingFrame DEF terminal
  <2>4. UNCHANGED vars => UNCHANGED <<stream, out, pipe>>
    BY DEF vars
  <2> QED
    BY <2>1, <2>2, <2>3, <2>4 DEF Next, Output
<1> QED
  BY <1>1, <1>2, <1>3, <1>4, <1>5, <1>6, <1>7, <1>8

LEMMA KeptNewest == StreamInv => StreamKeepsNewest
<1> SUFFICES ASSUME StreamInv, NEW u \in Streams
             PROVE  LET all == <<stream[u].got>> \o stream[u].q IN
                    /\ \A c, d \in 1..Len(all) : \A i \in 1..Len(all[c]), j \in 1..Len(all[d]) :
                          c < d \/ (c = d /\ i < j) => all[c][i] < all[d][j]
                    /\ stream[u].last # 0 => Last(Last(all)) = stream[u].last
  BY DEF StreamKeepsNewest
<1> DEFINE got == stream[u].got
           q == stream[u].q
           last == stream[u].last
           all == <<got>> \o q
<1>1. /\ got \in Seq(Nat) /\ q \in Seq(Seq(Nat)) /\ last \in Nat
      /\ InOrder(got, q) /\ EndsWith(got, q, last)
  BY DEF StreamInv, Kept
<1> HIDE DEF got, q, last
<1>2. /\ Len(all) = Len(q) + 1 /\ Len(q) \in Nat /\ all[1] = got
      /\ \A c \in 2..(Len(q) + 1) : all[c] = q[c - 1] /\ c - 1 \in 1..Len(q)
  BY <1>1
<1> HIDE DEF all
<1>3. ASSUME NEW c \in 1..Len(all), NEW d \in 1..Len(all),
             NEW i \in 1..Len(all[c]), NEW j \in 1..Len(all[d]), c < d \/ (c = d /\ i < j)
      PROVE  all[c][i] < all[d][j]
  <2>1. CASE c = 1 /\ d = 1
    BY <1>1, <1>2, <1>3, <2>1 DEF InOrder
  <2>2. CASE c = 1 /\ d # 1
    <3>1. all[d] = q[d - 1] /\ d - 1 \in 1..Len(q)
      BY <1>2, <2>2
    <3> QED
      BY <1>1, <1>2, <2>2, <3>1 DEF InOrder
  <2>3. CASE c # 1
    <3>1. c \in 2..(Len(q) + 1) /\ d \in 2..(Len(q) + 1)
      BY <1>2, <1>3, <2>3
    <3>2. /\ all[c] = q[c - 1] /\ c - 1 \in 1..Len(q)
          /\ all[d] = q[d - 1] /\ d - 1 \in 1..Len(q)
      BY <1>2, <3>1
    <3>3. c - 1 < d - 1 \/ (c = d /\ i < j)
      BY <1>3, <3>1
    <3> QED
      BY <1>1, <3>2, <3>3 DEF InOrder
  <2> QED
    BY <2>1, <2>2, <2>3
<1>4. last # 0 => Last(Last(all)) = last
  <2>1. CASE Len(q) = 0
    BY <1>1, <1>2, <2>1 DEF EndsWith, Last
  <2>2. CASE Len(q) # 0
    <3>1. all[Len(q) + 1] = q[Len(q)]
      BY <1>2, <2>2
    <3> QED
      BY <1>1, <1>2, <2>2, <3>1 DEF EndsWith, Last
  <2> QED
    BY <2>1, <2>2
<1> QED
  BY <1>3, <1>4 DEF all, got, q, last

\* A slow client loses old output only: what a subscribed stream has sent and what
\* it has queued is in order, with the newest byte fanned out to it at its end,
\* for any number of streams, any queue and any reads (terminal_subscription.go:157).
THEOREM StreamsKeepNewest == Spec => []StreamKeepsNewest
<1> QED
  BY InitSession, NextSession, InitRing, NextRing, InitStream, NextStream, KeptNewest, PTL
     DEF Spec

----------------------------------------------------------------------------
(* The log *)

LogTypes ==
    /\ DOMAIN log = {"file", "offset", "partial", "lines", "pc", "size", "pos", "rest",
                     "truncated", "again"}
    /\ log.file \in Seq(Nat) /\ log.partial \in Seq(Nat) /\ log.rest \in Seq(Nat)
    /\ log.lines \in Seq(Seq(Nat)) /\ log.pc \in {"idle", "scan", "eof"}
    /\ log.offset \in Nat /\ log.size \in Nat /\ log.pos \in Nat

\* The byte b is in a line that was handed on.
Handed(lines, b) == \E n \in 1..Len(lines) : \E i \in 1..Len(lines[n]) : lines[n][i] = b

\* A line is a piece of the file without a newline.
Piece(file, line) ==
    \A i \in 1..Len(line) :
        line[i] \in 1..Len(file) /\ line[i] = line[1] + i - 1 /\ file[line[i]] # 0

Sorted(lines) ==
    \A m, n \in 1..Len(lines) : \A i \in 1..Len(lines[m]), j \in 1..Len(lines[n]) :
        m < n \/ (m = n /\ i < j) => lines[m][i] < lines[n][j]

\* What is before the offset, or before the scanner while there is one, was read.
Read(off, pc, pos, b) == b <= off \/ (pc # "idle" /\ b < pos)

\* A poll is somewhere between the offset and the end of the file, and the size it
\* saw is not beyond that; its scanner stopped after a newline, or at the end.
Polling(file, off, pc, size, pos) ==
    /\ size <= Len(file) /\ off <= size /\ off <= pos /\ pos <= Len(file) + 1
    /\ pc = "scan" => pos <= Len(file) /\ (pos = off \/ file[pos] = 0)
    /\ pc = "eof" => pos > size

\* What was read is what was handed on.
Tailed(file, off, lines, pc, size, pos) ==
    /\ \A b \in 1..Len(file) : file[b] \in {0, b}
    /\ off <= Len(file)
    /\ pc # "idle" => Polling(file, off, pc, size, pos)
    /\ \A b \in 1..Len(file) : file[b] # 0 /\ Read(off, pc, pos, b) => Handed(lines, b)
    /\ \A n \in 1..Len(lines) : Piece(file, lines[n])

Once(off, lines, pc, pos) ==
    /\ Sorted(lines)
    /\ \A n \in 1..Len(lines) : \A i \in 1..Len(lines[n]) : Read(off, pc, pos, lines[n][i])

TailInv ==
    ~log.truncated =>
        /\ log.partial = <<>> /\ (log.pc # "idle" => log.rest = <<>>)
        /\ Tailed(log.file, log.offset, log.lines, log.pc, log.size, log.pos)
        /\ ~log.again => Once(log.offset, log.lines, log.pc, log.pos)

LEMMA InitTail == Init => LogTypes /\ TailInv
<1> SUFFICES ASSUME Init PROVE LogTypes /\ TailInv
  OBVIOUS
<1>1. log = [file |-> <<>>, offset |-> 0, partial |-> <<>>, lines |-> <<>>,
             pc |-> "idle", size |-> 0, pos |-> 0, rest |-> <<>>,
             truncated |-> FALSE, again |-> FALSE]
  BY Zenon DEF Init
<1>2. LogTypes
  BY <1>1 DEF LogTypes
<1>3. /\ log.file = <<>> /\ log.offset = 0 /\ log.partial = <<>> /\ log.lines = <<>>
      /\ log.pc = "idle"
  BY <1>1
<1>4. Tailed(log.file, log.offset, log.lines, log.pc, log.size, log.pos)
  BY <1>3 DEF Tailed
<1>5. Once(log.offset, log.lines, log.pc, log.pos)
  BY <1>3 DEF Once, Sorted
<1> QED
  BY <1>2, <1>3, <1>4, <1>5 DEF TailInv

LEMMA SubFacts ==
    ASSUME NEW s \in Seq(Nat), NEW a \in Nat, NEW b \in Nat, a <= b, b <= Len(s)
    PROVE  /\ SubSeq(s, a + 1, b) \in Seq(Nat) /\ Len(SubSeq(s, a + 1, b)) = b - a
           /\ \A i \in 1..(b - a) : SubSeq(s, a + 1, b)[i] = s[a + i]
<1>1. SubSeq(s, a + 1, b) \in Seq(Nat)
  OBVIOUS
<1>2. Len(SubSeq(s, a + 1, b)) = b - a
  OBVIOUS
<1>3. ASSUME NEW i \in 1..(b - a) PROVE SubSeq(s, a + 1, b)[i] = s[a + i]
  OBVIOUS
<1> QED
  BY <1>1, <1>2, <1>3

LEMMA CutFacts ==
    ASSUME NEW s \in Seq(Nat), NEW a \in Nat, NEW b \in Nat, b <= Len(s)
    PROVE  /\ SubSeq(s, a + 1, b) \in Seq(Nat) /\ Len(SubSeq(s, a + 1, b)) \in Nat
           /\ b <= a => SubSeq(s, a + 1, b) = <<>>
OBVIOUS

LEMMA JoinFacts ==
    ASSUME NEW s \in Seq(Nat), NEW t \in Seq(Nat)
    PROVE  s \o t \in Seq(Nat) /\ (s = <<>> => s \o t = t)
<1>1. s \o t \in Seq(Nat)
  OBVIOUS
<1>2. ASSUME s = <<>> PROVE s \o t = t
  BY <1>2
<1> QED
  BY <1>1, <1>2

LEMMA AppendFacts ==
    ASSUME NEW S, NEW s \in Seq(S), NEW x \in S
    PROVE  /\ Append(s, x) \in Seq(S) /\ Len(s) \in Nat /\ Len(Append(s, x)) = Len(s) + 1
           /\ Append(s, x)[Len(s) + 1] = x
           /\ \A i \in 1..Len(s) : Append(s, x)[i] = s[i]
           /\ \A i \in 1..(Len(s) + 1) : i \in 1..Len(s) \/ i = Len(s) + 1
OBVIOUS

LEMMA LineTypes ==
    ASSUME NEW lines \in Seq(Seq(Nat))
    PROVE  \A n \in 1..Len(lines) : Len(lines[n]) \in Nat /\ \A i \in 1..Len(lines[n]) : lines[n][i] \in Nat
<1>1. ASSUME NEW n \in 1..Len(lines)
      PROVE  Len(lines[n]) \in Nat /\ \A i \in 1..Len(lines[n]) : lines[n][i] \in Nat
  <2>1. lines[n] \in Seq(Nat)
    OBVIOUS
  <2> QED
    BY <2>1
<1> QED
  BY <1>1

\* The file is appended to.
LEMMA WriteKeeps ==
    ASSUME NEW file \in Seq(Nat), NEW off \in Nat, NEW lines \in Seq(Seq(Nat)),
           NEW pc \in {"idle", "scan", "eof"}, NEW size \in Nat, NEW pos \in Nat,
           NEW b \in {0, Len(file) + 1}, Tailed(file, off, lines, pc, size, pos)
    PROVE  Tailed(Append(file, b), off, lines, pc, size, pos)
<1>0. Len(file) \in Nat /\ b \in Nat
  OBVIOUS
<1> PICK new \in Seq(Nat) : new = Append(file, b)
  BY <1>0, AppendFacts
<1>1. /\ Len(new) = Len(file) + 1 /\ new[Len(file) + 1] = b
      /\ \A i \in 1..Len(file) : new[i] = file[i]
      /\ \A i \in 1..Len(new) : i \in 1..Len(file) \/ i = Len(file) + 1
  BY <1>0, AppendFacts
<1>2. \A i \in 1..Len(new) : new[i] \in {0, i}
  BY <1>0, <1>1 DEF Tailed
<1>3. pc # "idle" => Polling(new, off, pc, size, pos)
  <2> SUFFICES ASSUME pc # "idle" PROVE Polling(new, off, pc, size, pos)
    OBVIOUS
  <2>1. Polling(file, off, pc, size, pos)
    BY DEF Tailed
  <2>2. pc = "scan" => pos = off \/ new[pos] = 0
    <3>1. CASE pc = "scan" /\ pos # off
      <4>1. pos \in 1..Len(file) /\ file[pos] = 0
        BY <1>0, <2>1, <3>1 DEF Polling
      <4> QED
        BY <1>1, <4>1
    <3> QED
      BY <3>1
  <2> QED
    BY <1>0, <1>1, <2>1, <2>2 DEF Polling
<1>4. ASSUME NEW i \in 1..Len(new), new[i] # 0, Read(off, pc, pos, i) PROVE Handed(lines, i)
  <2>1. i \in 1..Len(file)
    BY <1>0, <1>1, <1>4 DEF Read, Tailed, Polling
  <2> QED
    BY <1>1, <1>4, <2>1 DEF Tailed
<1>5. ASSUME NEW n \in 1..Len(lines) PROVE Piece(new, lines[n])
  <2>1. Piece(file, lines[n])
    BY DEF Tailed
  <2>2. \A x \in 1..Len(file) : x \in 1..Len(new) /\ new[x] = file[x]
    BY <1>0, <1>1
  <2> QED
    BY <2>1, <2>2 DEF Piece
<1>6. off <= Len(new)
  BY <1>0, <1>1 DEF Tailed
<1> QED
  BY <1>2, <1>3, <1>4, <1>5, <1>6 DEF Tailed

\* A poll begins at the offset.
LEMMA PollKeeps ==
    ASSUME NEW file \in Seq(Nat), NEW off \in Nat, NEW lines \in Seq(Seq(Nat)),
           NEW size \in Nat, NEW pos \in Nat, Tailed(file, off, lines, "idle", size, pos)
    PROVE  /\ Tailed(file, off, lines, "scan", Len(file), off)
           /\ Once(off, lines, "idle", pos) => Once(off, lines, "scan", off)
<1>1. Polling(file, off, "scan", Len(file), off)
  BY DEF Tailed, Polling
<1>2. \A b \in Nat : Read(off, "scan", off, b) <=> Read(off, "idle", pos, b)
  BY DEF Read
<1>3. ASSUME NEW b \in 1..Len(file), file[b] # 0, Read(off, "scan", off, b) PROVE Handed(lines, b)
  BY <1>2, <1>3 DEF Tailed
<1>4. Tailed(file, off, lines, "scan", Len(file), off)
  BY <1>1, <1>3 DEF Tailed
<1>5. Once(off, lines, "idle", pos) => Once(off, lines, "scan", off)
  BY <1>2, LineTypes DEF Once
<1> QED
  BY <1>4, <1>5

\* It ends with the size it saw first as the offset ...
LEMMA EndKeeps ==
    ASSUME NEW file \in Seq(Nat), NEW off \in Nat, NEW lines \in Seq(Seq(Nat)),
           NEW pc \in {"scan", "eof"}, NEW size \in Nat, NEW pos \in Nat,
           Tailed(file, off, lines, pc, size, pos), pc = "scan" => pos >= Len(file)
    PROVE  /\ size <= Len(file) /\ size <= pos
           /\ Tailed(file, size, lines, "idle", size, pos)
           /\ Once(off, lines, pc, pos) /\ pos <= size + 1 => Once(size, lines, "idle", pos)
<1>0. Len(file) \in Nat
  OBVIOUS
<1>1. Polling(file, off, pc, size, pos)
  BY DEF Tailed
<1>2. size <= Len(file) /\ size <= pos
  BY <1>0, <1>1 DEF Polling
<1>3. ASSUME NEW b \in 1..Len(file), file[b] # 0, Read(size, "idle", pos, b) PROVE Handed(lines, b)
  <2>1. b <= size
    BY <1>3 DEF Read
  <2>2. Read(off, pc, pos, b)
    BY <1>0, <1>1, <1>3, <2>1 DEF Polling, Read
  <2> QED
    BY <1>3, <2>2 DEF Tailed
<1>4. Tailed(file, size, lines, "idle", size, pos)
  BY <1>2, <1>3 DEF Tailed
<1>5. ASSUME Once(off, lines, pc, pos), pos <= size + 1 PROVE Once(size, lines, "idle", pos)
  <2>1. ASSUME NEW n \in 1..Len(lines), NEW i \in 1..Len(lines[n])
        PROVE  Read(size, "idle", pos, lines[n][i])
    <3> PICK x \in Nat : x = lines[n][i]
      BY LineTypes
    <3>1. Read(off, pc, pos, x)
      BY <1>5 DEF Once
    <3> QED
      BY <1>1, <1>5, <3>1 DEF Read, Polling
  <2> QED
    BY <1>5, <2>1 DEF Once
<1> QED
  BY <1>2, <1>4, <1>5

\* ... or, with a line too long, as if it had not been.
LEMMA FailKeeps ==
    ASSUME NEW file \in Seq(Nat), NEW off \in Nat, NEW lines \in Seq(Seq(Nat)),
           NEW size \in Nat, NEW pos \in Nat, Tailed(file, off, lines, "scan", size, pos)
    PROVE  /\ Tailed(file, off, lines, "idle", size, pos)
           /\ Once(off, lines, "scan", pos) /\ pos = off => Once(off, lines, "idle", pos)
<1>1. \A b \in Nat : /\ Read(off, "idle", pos, b) => Read(off, "scan", pos, b)
                     /\ pos = off => (Read(off, "scan", pos, b) => Read(off, "idle", pos, b))
  BY DEF Read
<1>2. ASSUME NEW b \in 1..Len(file), file[b] # 0, Read(off, "idle", pos, b) PROVE Handed(lines, b)
  BY <1>1, <1>2 DEF Tailed
<1>3. Tailed(file, off, lines, "idle", size, pos)
  BY <1>2 DEF Tailed
<1>4. Once(off, lines, "scan", pos) /\ pos = off => Once(off, lines, "idle", pos)
  BY <1>1, LineTypes DEF Once
<1> QED
  BY <1>3, <1>4

\* The line up to e is handed on.
LEMMA ScanKeeps ==
    ASSUME NEW file \in Seq(Nat), NEW off \in Nat, NEW lines \in Seq(Seq(Nat)),
           NEW size \in Nat, NEW pos \in Nat, Tailed(file, off, lines, "scan", size, pos),
           NEW e \in Nat, pos < e, e <= Len(file) + 1, e <= Len(file) => file[e] = 0,
           \A i \in (pos + 1)..(e - 1) : file[i] # 0,
           NEW line \in Seq(Nat), line = SubSeq(file, pos + 1, e - 1),
           NEW pc, pc = IF e > Len(file) THEN "eof" ELSE "scan"
    PROVE  /\ Tailed(file, off, Append(lines, line), pc, size, e)
           /\ Once(off, lines, "scan", pos) => Once(off, Append(lines, line), pc, e)
<1>0. Len(file) \in Nat /\ pc \in {"scan", "eof"}
  OBVIOUS
<1>1. Polling(file, off, "scan", size, pos)
  BY DEF Tailed
<1> PICK new \in Seq(Seq(Nat)) : new = Append(lines, line)
  BY AppendFacts
<1>2. /\ Len(new) = Len(lines) + 1 /\ new[Len(lines) + 1] = line /\ Len(lines) \in Nat
      /\ \A n \in 1..Len(lines) : new[n] = lines[n]
      /\ \A n \in 1..Len(new) : n \in 1..Len(lines) \/ n = Len(lines) + 1
  BY AppendFacts
<1>3. Len(line) = e - 1 - pos /\ \A i \in 1..Len(line) : line[i] = file[pos + i]
  <2>1. e - 1 \in Nat /\ pos <= e - 1 /\ e - 1 <= Len(file)
    BY <1>0
  <2> QED
    BY <2>1, SubFacts
<1>4. ASSUME NEW i \in 1..Len(line)
      PROVE  /\ line[i] = pos + i /\ pos + i \in 1..Len(file) /\ pos + i < e /\ i \in Nat
             /\ file[pos + i] # 0
  <2>1. i \in 1..(e - 1 - pos)
    BY <1>3
  <2>2. pos + i \in 1..Len(file) /\ pos + i \in (pos + 1)..(e - 1) /\ pos + i < e /\ i \in Nat
    BY <1>0, <2>1
  <2> QED
    BY <1>3, <2>2 DEF Tailed
<1>5. Polling(file, off, pc, size, e)
  BY <1>0, <1>1 DEF Polling
<1>6. ASSUME NEW b \in 1..Len(file), file[b] # 0, Read(off, pc, e, b) PROVE Handed(new, b)
  <2>1. CASE Read(off, "scan", pos, b)
    <3>1. Handed(lines, b)
      BY <1>6, <2>1 DEF Tailed
    <3>2. PICK n \in 1..Len(lines) : \E i \in 1..Len(lines[n]) : lines[n][i] = b
      BY <3>1 DEF Handed
    <3>3. n \in 1..Len(new) /\ new[n] = lines[n]
      BY <1>2
    <3> QED
      BY <3>2, <3>3 DEF Handed
  <2>2. CASE ~Read(off, "scan", pos, b)
    <3>1. b \in pos..(e - 1) /\ b # pos
      BY <1>0, <1>1, <1>6, <2>2 DEF Read, Polling
    <3>2. b - pos \in 1..Len(line) /\ pos + (b - pos) = b
      BY <1>3, <3>1
    <3>3. line[b - pos] = b
      BY <1>4, <3>2
    <3>4. Len(lines) + 1 \in 1..Len(new)
      BY <1>2
    <3> QED
      BY <1>2, <3>2, <3>3, <3>4 DEF Handed
  <2> QED
    BY <2>1, <2>2
<1>7. Piece(file, line)
  <2>1. ASSUME NEW i \in 1..Len(line)
        PROVE  line[i] \in 1..Len(file) /\ line[i] = line[1] + i - 1 /\ file[line[i]] # 0
    <3>1. 1 \in 1..Len(line)
      BY <1>3
    <3>2. line[1] = pos + 1
      BY <1>4, <3>1
    <3>3. line[i] = pos + i /\ i \in Nat /\ line[i] \in 1..Len(file) /\ file[line[i]] # 0
      BY <1>4
    <3>4. pos + i = (pos + 1) + i - 1
      BY <3>3
    <3> QED
      BY <3>2, <3>3, <3>4, Zenon
  <2> QED
    BY <2>1 DEF Piece
<1>8. \A n \in 1..Len(new) : Piece(file, new[n])
  BY <1>2, <1>7 DEF Tailed
<1>9. Tailed(file, off, new, pc, size, e)
  BY <1>5, <1>6, <1>8 DEF Tailed
<1>10. ASSUME Once(off, lines, "scan", pos) PROVE Once(off, new, pc, e)
  <2>0. ASSUME NEW x \in Nat, Read(off, "scan", pos, x) PROVE x <= pos /\ Read(off, pc, e, x)
    BY <1>0, <1>1, <2>0 DEF Read, Polling
  <2>1. ASSUME NEW n \in 1..Len(lines), NEW i \in 1..Len(lines[n])
        PROVE  lines[n][i] \in Nat /\ lines[n][i] <= pos /\ Read(off, pc, e, lines[n][i])
    <3>1. lines[n][i] \in Nat /\ Read(off, "scan", pos, lines[n][i])
      BY <1>10, LineTypes DEF Once
    <3> QED
      BY <2>0, <3>1
  <2>2. ASSUME NEW n \in 1..Len(new), NEW i \in 1..Len(new[n]) PROVE Read(off, pc, e, new[n][i])
    <3>1. CASE n \in 1..Len(lines)
      BY <1>2, <2>1, <2>2, <3>1
    <3>2. CASE n = Len(lines) + 1
      <4>1. i \in 1..Len(line) /\ new[n][i] = line[i]
        BY <1>2, <2>2, <3>2
      <4>2. new[n][i] < e
        BY <1>4, <4>1
      <4> QED
        BY <1>0, <4>2 DEF Read
    <3> QED
      BY <1>2, <2>2, <3>1, <3>2
  <2>3. ASSUME NEW m \in 1..Len(new), NEW n \in 1..Len(new),
               NEW i \in 1..Len(new[m]), NEW j \in 1..Len(new[n]),
               m < n \/ (m = n /\ i < j)
        PROVE  new[m][i] < new[n][j]
    <3>1. CASE n \in 1..Len(lines)
      <4>1. m \in 1..Len(lines)
        BY <1>2, <2>3, <3>1
      <4>2. new[m] = lines[m] /\ new[n] = lines[n] /\ Sorted(lines)
        BY <1>2, <1>10, <3>1, <4>1 DEF Once
      <4> QED
        BY <2>3, <3>1, <4>1, <4>2 DEF Sorted
    <3>2. CASE n = Len(lines) + 1 /\ m = n
      <4>0. new[m] = line /\ new[n] = line
        BY <1>2, <3>2, Zenon
      <4>a. m \in Nat /\ n \in Nat /\ i < j
        BY <2>3, <3>2
      <4>1. /\ i \in 1..Len(line) /\ j \in 1..Len(line) /\ i < j
            /\ new[m][i] = line[i] /\ new[n][j] = line[j]
        BY <2>3, <4>0, <4>a, Zenon
      <4>2. line[i] = pos + i /\ line[j] = pos + j /\ i \in Nat /\ j \in Nat
        BY <1>4, <4>1
      <4>3. pos + i < pos + j
        BY <4>1, <4>2
      <4> QED
        BY <4>1, <4>2, <4>3, Zenon
    <3>3. CASE n = Len(lines) + 1 /\ m # n
      <4>1. m \in 1..Len(lines) /\ new[m] = lines[m]
        BY <1>2, <2>3, <3>3
      <4>2. new[m][i] \in Nat /\ new[m][i] <= pos
        BY <2>1, <2>3, <4>1
      <4>3. j \in 1..Len(line) /\ new[n][j] = line[j]
        BY <1>2, <2>3, <3>3
      <4>4. new[n][j] = pos + j /\ j \in Nat
        BY <1>4, <4>3, Zenon
      <4>5. \A x \in Nat : x <= pos => x < pos + j
        BY <2>3, <4>4
      <4> QED
        BY <4>2, <4>4, <4>5, Zenon
    <3> QED
      BY <1>2, <2>3, <3>1, <3>2, <3>3
  <2> QED
    BY <2>2, <2>3 DEF Once, Sorted
<1> QED
  BY <1>9, <1>10

LEMMA WriteTail ==
    ASSUME LogTypes, TailInv, NEW b \in {0, Len(log.file) + 1}, WriteLog(b)
    PROVE  LogTypes' /\ TailInv'
<1>1. log' = [log EXCEPT !.file = Append(@, b)] /\ b \in Nat
  BY DEF WriteLog, LogTypes
<1>2. /\ DOMAIN log' = DOMAIN log
      /\ log'.file = Append(log.file, b) /\ log'.offset = log.offset /\ log'.partial = log.partial
      /\ log'.lines = log.lines /\ log'.pc = log.pc /\ log'.size = log.size /\ log'.pos = log.pos
      /\ log'.rest = log.rest /\ log'.truncated = log.truncated /\ log'.again = log.again
  BY <1>1 DEF LogTypes
<1>3. LogTypes'
  BY <1>1, <1>2 DEF LogTypes
<1>4. Tailed(log.file, log.offset, log.lines, log.pc, log.size, log.pos)
      => Tailed(Append(log.file, b), log.offset, log.lines, log.pc, log.size, log.pos)
  BY WriteKeeps DEF LogTypes
<1> QED
  BY <1>2, <1>3, <1>4 DEF TailInv

LEMMA PollTail ==
    ASSUME LogTypes, TailInv, Poll
    PROVE  LogTypes' /\ TailInv'
<1> DEFINE size == Len(log.file)
           from == IF size < log.offset THEN 0 ELSE log.offset
           rest == IF size < log.offset THEN <<>> ELSE log.partial
<1>0. /\ size \in Nat /\ from \in Nat /\ rest \in Seq(Nat)
      /\ log.offset <= Len(log.file) => from = log.offset /\ rest = log.partial
  BY DEF LogTypes
<1>1. /\ log.pc = "idle"
      /\ \/ size < log.offset /\ log' = [log EXCEPT !.offset = from, !.partial = rest]
         \/ log' = [log EXCEPT !.pc = "scan", !.size = size, !.pos = from, !.rest = rest]
  BY DEF Poll
<1> HIDE DEF size, from, rest
<1>2. log'.truncated = log.truncated /\ log'.again = log.again
  BY <1>1 DEF LogTypes
<1>3. LogTypes'
  <2>1. CASE log' = [log EXCEPT !.offset = from, !.partial = rest]
    BY <1>0, <2>1 DEF LogTypes
  <2>2. CASE log' = [log EXCEPT !.pc = "scan", !.size = size, !.pos = from, !.rest = rest]
    BY <1>0, <2>2 DEF LogTypes
  <2> QED
    BY <1>1, <2>1, <2>2
<1> SUFFICES ASSUME ~log.truncated PROVE TailInv'
  BY <1>2, <1>3 DEF TailInv
<1>4. log.offset <= Len(log.file) /\ log.partial = <<>>
  BY DEF TailInv, Tailed
<1>5. log' = [log EXCEPT !.pc = "scan", !.size = size, !.pos = from, !.rest = rest]
  BY <1>1, <1>4 DEF size, LogTypes
<1>6. /\ log'.file = log.file /\ log'.lines = log.lines /\ log'.pc = "scan"
      /\ log'.size = Len(log.file) /\ log'.pos = log.offset /\ log'.rest = <<>>
      /\ log'.offset = log.offset /\ log'.partial = <<>>
  BY <1>0, <1>1, <1>4, <1>5 DEF LogTypes, size
<1>7. Tailed(log.file, log.offset, log.lines, "idle", log.size, log.pos)
  BY <1>1 DEF TailInv
<1>8. /\ Tailed(log.file, log.offset, log.lines, "scan", Len(log.file), log.offset)
      /\ Once(log.offset, log.lines, "idle", log.pos) => Once(log.offset, log.lines, "scan", log.offset)
  BY <1>7, PollKeeps DEF LogTypes
<1> QED
  BY <1>1, <1>2, <1>6, <1>8 DEF TailInv

LEMMA EndTail ==
    ASSUME LogTypes, TailInv, PollEnd
    PROVE  LogTypes' /\ TailInv'
<1> DEFINE read == IF log.pos > log.size THEN log.size ELSE log.pos
           there == IF Len(log.file) < log.size THEN Len(log.file) ELSE log.size
           over == SubSeq(log.file, read + 1, there)
<1>0. read \in Nat /\ there \in Nat /\ there <= Len(log.file)
  BY DEF LogTypes
<1>1. log' = [log EXCEPT !.pc = "idle", !.rest = <<>>, !.offset = read + Len(over),
                         !.partial = IF over = <<>> THEN log.rest ELSE over,
                         !.again = @ \/ log.pos > log.size + 1]
  BY DEF PollEnd
<1>2. over \in Seq(Nat) /\ Len(over) \in Nat /\ (there <= read => over = <<>>)
  <2> HIDE DEF read, there
  <2>1. log.file \in Seq(Nat)
    BY DEF LogTypes
  <2> QED
    BY <1>0, <2>1, CutFacts
<1> HIDE DEF over, read, there
<1>3. LogTypes'
  BY <1>0, <1>1, <1>2 DEF LogTypes
<1>4. /\ log'.file = log.file /\ log'.lines = log.lines /\ log'.truncated = log.truncated
      /\ log'.pc = "idle" /\ log'.offset = read + Len(over) /\ log'.size = log.size
      /\ log'.pos = log.pos
      /\ log'.partial = IF over = <<>> THEN log.rest ELSE over
  BY <1>1 DEF LogTypes
<1>5. log'.again = (log.again \/ log.pos > log.size + 1)
  BY <1>1 DEF LogTypes
<1> SUFFICES ASSUME ~log.truncated PROVE TailInv'
  BY <1>3, <1>4 DEF TailInv
<1>6. /\ log.pc \in {"scan", "eof"} /\ (log.pc = "scan" => log.pos >= Len(log.file))
      /\ Tailed(log.file, log.offset, log.lines, log.pc, log.size, log.pos)
      /\ log.rest = <<>> /\ (~log.again => Once(log.offset, log.lines, log.pc, log.pos))
  BY DEF PollEnd, TailInv
<1>7. /\ log.size <= Len(log.file) /\ log.size <= log.pos
      /\ Tailed(log.file, log.size, log.lines, "idle", log.size, log.pos)
      /\ Once(log.offset, log.lines, log.pc, log.pos) /\ log.pos <= log.size + 1
         => Once(log.size, log.lines, "idle", log.pos)
  BY <1>6, EndKeeps DEF LogTypes
<1>8. read = log.size /\ there = log.size
  BY <1>7 DEF read, there, LogTypes
<1>9. log'.offset = log.size /\ log'.partial = <<>>
  BY <1>2, <1>4, <1>6, <1>8 DEF LogTypes
<1>10. ~log'.again => Once(log.size, log.lines, "idle", log.pos)
  <2>1. ~log'.again => ~log.again /\ ~(log.pos > log.size + 1)
    BY <1>5, Zenon
  <2>2. log.pos \in Nat /\ log.size \in Nat
    BY DEF LogTypes
  <2> QED
    BY <1>6, <1>7, <2>1, <2>2
<1> QED
  BY <1>4, <1>7, <1>9, <1>10 DEF TailInv

LEMMA ScanTail ==
    ASSUME LogTypes, TailInv, ScanLine
    PROVE  LogTypes' /\ TailInv'
<1>1. PICK e \in LineEnds :
        log' = IF e - log.pos <= LineMax
               THEN [log EXCEPT !.lines = Append(@, log.rest \o SubSeq(log.file, log.pos + 1, e - 1)),
                                !.rest = <<>>, !.pos = e,
                                !.pc = IF e > Len(log.file) THEN "eof" ELSE "scan"]
               ELSE [log EXCEPT !.pc = "idle", !.again = @ \/ log.pos # log.offset]
  BY DEF ScanLine
<1>2. /\ e \in Nat /\ log.pos < e /\ e <= Len(log.file) + 1
      /\ e <= Len(log.file) => log.file[e] = 0
      /\ \A i \in (log.pos + 1)..(e - 1) : log.file[i] # 0
  BY DEF LineEnds, LogTypes
<1> DEFINE piece == SubSeq(log.file, log.pos + 1, e - 1)
           line == log.rest \o piece
           pc == IF e > Len(log.file) THEN "eof" ELSE "scan"
<1>3. piece \in Seq(Nat)
  <2>1. e - 1 \in Nat /\ log.pos <= e - 1 /\ e - 1 <= Len(log.file)
    BY <1>2 DEF LogTypes
  <2> QED
    BY <2>1, SubFacts DEF LogTypes
<1>4. line \in Seq(Nat) /\ (log.rest = <<>> => line = piece)
  <2> HIDE DEF piece
  <2>1. log.rest \in Seq(Nat)
    BY DEF LogTypes
  <2> QED
    BY <1>3, <2>1, JoinFacts
<1>5. CASE e - log.pos <= LineMax
  <2>0. pc \in {"scan", "eof"}
    OBVIOUS
  <2> HIDE DEF piece, line, pc
  <2>1. log' = [log EXCEPT !.lines = Append(@, line), !.rest = <<>>, !.pos = e, !.pc = pc]
    BY <1>1, <1>5 DEF piece, line, pc
  <2>2. LogTypes'
    BY <1>2, <1>4, <2>0, <2>1 DEF LogTypes
  <2>3. /\ log'.file = log.file /\ log'.offset = log.offset /\ log'.partial = log.partial
        /\ log'.lines = Append(log.lines, line) /\ log'.size = log.size /\ log'.pos = e
        /\ log'.pc = pc /\ log'.rest = <<>> /\ log'.truncated = log.truncated
        /\ log'.again = log.again
    BY <2>1 DEF LogTypes
  <2> SUFFICES ASSUME ~log.truncated PROVE TailInv'
    BY <2>2, <2>3 DEF TailInv
  <2>4. /\ log.pc = "scan" /\ log.partial = <<>> /\ log.rest = <<>>
        /\ Tailed(log.file, log.offset, log.lines, "scan", log.size, log.pos)
        /\ ~log.again => Once(log.offset, log.lines, "scan", log.pos)
    BY DEF ScanLine, TailInv
  <2>5. line = SubSeq(log.file, log.pos + 1, e - 1)
    BY <1>4, <2>4 DEF piece
  <2>6. /\ Tailed(log.file, log.offset, Append(log.lines, line), pc, log.size, e)
        /\ Once(log.offset, log.lines, "scan", log.pos) => Once(log.offset, Append(log.lines, line), pc, e)
    <3>1. pc = IF e > Len(log.file) THEN "eof" ELSE "scan"
      BY DEF pc
    <3>2. log.file \in Seq(Nat) /\ log.offset \in Nat /\ log.lines \in Seq(Seq(Nat))
          /\ log.size \in Nat /\ log.pos \in Nat
      BY DEF LogTypes
    <3> QED
      BY <1>2, <1>4, <2>4, <2>5, <3>1, <3>2, ScanKeeps
  <2> QED
    BY <2>3, <2>4, <2>6 DEF TailInv
<1>6. CASE ~(e - log.pos <= LineMax)
  <2>1. log' = [log EXCEPT !.pc = "idle", !.again = @ \/ log.pos # log.offset]
    BY <1>1, <1>6
  <2>2. LogTypes'
    BY <2>1 DEF LogTypes
  <2>3. /\ log'.file = log.file /\ log'.offset = log.offset /\ log'.partial = log.partial
        /\ log'.lines = log.lines /\ log'.pc = "idle" /\ log'.truncated = log.truncated
        /\ log'.size = log.size /\ log'.pos = log.pos
    BY <2>1 DEF LogTypes
  <2>4. log'.again = (log.again \/ log.pos # log.offset)
    BY <2>1 DEF LogTypes
  <2> SUFFICES ASSUME ~log.truncated PROVE TailInv'
    BY <2>2, <2>3 DEF TailInv
  <2>5. /\ log.partial = <<>> /\ Tailed(log.file, log.offset, log.lines, "scan", log.size, log.pos)
        /\ ~log.again => Once(log.offset, log.lines, "scan", log.pos)
    BY DEF ScanLine, TailInv
  <2>6. /\ Tailed(log.file, log.offset, log.lines, "idle", log.size, log.pos)
        /\ Once(log.offset, log.lines, "scan", log.pos) /\ log.pos = log.offset
           => Once(log.offset, log.lines, "idle", log.pos)
    BY <2>5, FailKeeps DEF LogTypes
  <2> QED
    BY <2>3, <2>4, <2>5, <2>6 DEF TailInv
<1> QED
  BY <1>5, <1>6

LEMMA NextTail == LogTypes /\ TailInv /\ [Next]_vars => LogTypes' /\ TailInv'
<1> SUFFICES ASSUME LogTypes, TailInv, [Next]_vars PROVE LogTypes' /\ TailInv'
  OBVIOUS
<1>1. CASE UNCHANGED log
  BY <1>1 DEF LogTypes, TailInv
<1>2. CASE TruncateLog
  <2>1. log' = [log EXCEPT !.file = <<>>, !.truncated = TRUE]
    BY <1>2 DEF TruncateLog
  <2>2. LogTypes' /\ log'.truncated
    BY <2>1 DEF LogTypes
  <2> QED
    BY <2>2 DEF TailInv
<1>3. Lifecycle \/ Output \/ Monitoring => UNCHANGED log
  BY DEF Lifecycle, AdapterStart, StartPTY, SubscribeMonitor, Forward, AdapterStop,
         ContextCancelled, Watch,
         SessionStop, WaitInterrupted, KillChild, WaitKilled, Cleanup, ChildExits,
         Output, ReadOutput, AppendScrollback, FanOut, PipeEnds, SubmitEnded, ExitNotify,
         SnapshotScrollback, Register, OutputPump, StreamCancelled,
         Monitoring, ProcessEvent, FanOutEvent, ProcessLoopEnds, IdleTimerFires, IdleTimeout,
         IdleFanOut, HandleHookEvent, HandleAPIRequest, HandleToolResult, HandleMessage, CliEvent
<1>4. UNCHANGED vars => UNCHANGED log
  BY DEF vars
<1> QED
  BY <1>1, <1>2, <1>3, <1>4, WriteTail, PollTail, ScanTail, EndTail DEF Next, Tailing

LEMMA TailIs == LogTypes /\ TailInv => TailerLosesNothing
<1> SUFFICES ASSUME LogTypes, TailInv, ~log.truncated PROVE TailerLosesNothing
  BY DEF TailerLosesNothing
<1>1. Tailed(log.file, log.offset, log.lines, log.pc, log.size, log.pos)
  BY DEF TailInv
<1>2. ASSUME NEW b \in 1..log.offset, log.file[b] # 0 PROVE Handed(log.lines, b)
  <2>1. b \in 1..Len(log.file) /\ Read(log.offset, log.pc, log.pos, b)
    BY <1>1 DEF Tailed, Read, LogTypes
  <2> QED
    BY <1>1, <1>2, <2>1 DEF Tailed
<1>3. \A n \in 1..Len(log.lines) : Piece(log.file, log.lines[n])
  BY <1>1 DEF Tailed
<1>4. ~log.again => Sorted(log.lines)
  BY DEF TailInv, Once
<1> QED
  BY <1>2, <1>3, <1>4 DEF TailerLosesNothing, Handed, Piece, Sorted

\* Output gets through, for any sizes: a snapshot of the scrollback is its tail, a
\* slow stream loses old output only, and the tailer skips no byte of the log and
\* repeats one only after a poll that failed or that the file outgrew.
THEOREM OutputKept == Spec => []OutputIsKept
<1>1. Spec => []TailerLosesNothing
  BY InitTail, NextTail, TailIs, PTL DEF Spec
<1>2. ScrollbackIsTail /\ StreamKeepsNewest /\ TailerLosesNothing => OutputIsKept
  BY DEF OutputIsKept
<1> QED
  BY <1>1, <1>2, ScrollbackTail, StreamsKeepNewest, PTL
=============================================================================
