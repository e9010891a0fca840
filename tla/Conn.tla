-------------------------------- MODULE Conn --------------------------------
(***************************************************************************)
(* One connection of common/network (conn_impl.go): the goroutine that     *)
(* calls Run, the write, read and heartbeat loops it starts, and the code  *)
(* of other goroutines (or of callbacks) that calls Send, TrySend and      *)
(* Close.  A step is what happens between two points at which another      *)
(* goroutine can be observed: a channel operation, an atomic access, a     *)
(* call of the transport, of the codec or of a callback.                   *)
(*                                                                         *)
(* Every goroutine is at a label pc[p].  A message is <<p, n>>, the n-th   *)
(* one its sender tried to send.  context.Cause is the variable cause,     *)
(* sync.Once the variable once, and the WaitGroup the set of the loops     *)
(* that were added to it and are not done.                                 *)
(***************************************************************************)
EXTENDS Integers, Sequences, FiniteSets

CONSTANTS
  Runners,         \* goroutines that call Run
  Senders,         \* goroutines that call Send and TrySend
  Closers,         \* goroutines that call Close
  SendQueueSize,   \* ConnConfig.SendQueueSize after the default was applied
  HasHeartbeator,  \* ConnDependencies.Heartbeator # nil
  Probing,         \* ConnConfig.HeartbeatInterval > 0
  MaxSends,        \* bound: messages a goroutine tries to send
  MaxPings,        \* bound: pings the heartbeat loop tries to send
  MaxReads         \* bound: packets the peer sends

Writer == "writeLoop"
Reader == "readLoop"
Heart  == "heartbearLoop"
Loops == {Writer, Reader, Heart}
Procs == Runners \cup Senders \cup Closers \cup Loops

ASSUME ConnAssumption ==
  /\ SendQueueSize \in Nat \ {0}
  /\ HasHeartbeator \in BOOLEAN
  /\ Probing \in BOOLEAN
  /\ MaxSends \in Nat
  /\ MaxPings \in Nat
  /\ MaxReads \in Nat

ASSUME ProcsDisjoint ==
  /\ Runners \cap Senders = {}
  /\ Runners \cap Closers = {}
  /\ Senders \cap Closers = {}
  /\ Loops \cap (Runners \cup Senders \cup Closers) = {}

NoCause == "nil"
Causes == {"ErrClosed", "OnOpenErr", "WriteErr", "ReadErr", "DeliverErr",
           "ErrHeartbeatTimeout", "PingErr"}
Kinds == {"data", "ping", "pong", "invalid"}   \* what Heartbeator.Inspect says
Messages == (Senders \cup {Reader, Heart}) \X Nat

RunnerLabels == {"idle", "onOpen", "openFail", "opened", "waiting", "final",
                 "onClose", "finished", "returned"}
WriterLabels == {"off", "select", "check", "write", "fail", "exited"}
ReaderLabels == {"off", "top", "decode", "decoded", "deliver", "onMessage",
                 "pongWait", "fail", "exited"}
HeartLabels  == {"off", "tick", "load", "pingWait", "pinged", "fail", "exited"}
SenderLabels == {"idle", "sendWait", "tryWait"}
CloserLabels == {"idle", "fail", "closed"}

VARIABLES
  pc,          \* where each goroutine is
  want,        \* the cause each goroutine passes to closeWithCause
  started,     \* Conn.started
  once,        \* Conn.closeOnce: "fresh", "running" or "done"
  cause,       \* context.Cause(Conn.ctx)
  rwc,         \* the transport
  wg,          \* Conn.wg: the loops it waits for
  sendQueue,   \* Conn.sendQueue
  held,        \* the message the write loop took from the queue and has not
               \* written: a sequence of length at most one
  wire,        \* the messages the transport has written, in order
  accepted,    \* the messages that entered the queue, in order
  nsent,       \* how many messages each sender tried to send
  packet,      \* the kind of the packet the read loop holds
  late,        \* that packet was decoded after the connection was cancelled
  nread,       \* how many packets were decoded
  lateWrites   \* writes that succeeded after the connection was cancelled

closeVars == <<started, once, cause, rwc>>
sendVars  == <<sendQueue, held, wire, accepted, nsent, lateWrites>>
readVars  == <<packet, late, nread>>
vars == <<pc, want, wg, closeVars, sendVars, readVars>>

Goto(p, label) == pc' = [pc EXCEPT ![p] = label]

\* The goroutine p moves to a call site of closeWithCause(c), or away from it.
GotoClose(p, label, c) ==
  /\ Goto(p, label)
  /\ want' = [want EXCEPT ![p] = c]

\* A loop returns; its deferred wg.Done runs.
LoopExit(p) ==
  /\ Goto(p, "exited")
  /\ wg' = wg \ {p}

Cancelled == cause # NoCause

-----------------------------------------------------------------------------
(* newConn *)

Init ==
  /\ pc = [p \in Procs |-> IF p \in Loops THEN "off" ELSE "idle"]
  /\ want = [p \in Procs |-> NoCause]
  /\ started = FALSE
  /\ once = "fresh"
  /\ cause = NoCause
  /\ rwc = "open"
  /\ wg = {}
  /\ sendQueue = <<>>
  /\ held = <<>>
  /\ wire = <<>>
  /\ accepted = <<>>
  /\ nsent = [p \in Senders \cup {Reader, Heart} |-> 0]
  /\ packet = "data"
  /\ late = FALSE
  /\ nread = 0
  /\ lateWrites = 0

-----------------------------------------------------------------------------
(* closeWithCause.  closeOnce.Do lets one caller in, which cancels the     *)
(* context and then closes the transport; every other caller returns only  *)
(* when that one is done.                                                  *)

CloseSites == {"fail", "openFail", "final"}

\* Faulty variant: the body is not protected until it has ended.
CloseEnterAgain(p) ==
  /\ pc[p] \in CloseSites
  /\ once # "done"
  /\ once' = "running"
  /\ cause' = want[p]
  /\ UNCHANGED <<pc, want, wg, started, rwc, sendVars, readVars>>

CloseEnter(p) ==
  /\ pc[p] \in CloseSites
  /\ once = "fresh"
  /\ once' = "running"
  /\ cause' = want[p]
  /\ UNCHANGED <<pc, want, wg, started, rwc, sendVars, readVars>>

CloseTransport ==
  /\ once = "running"
  /\ once' = "done"
  /\ rwc' = "closed"
  /\ UNCHANGED <<pc, want, wg, started, cause, sendVars, readVars>>

\* Where each call site continues.  A loop returns after its closeWithCause.
AfterClose(p) ==
  IF p \in Loops THEN "exited"
  ELSE IF p \in Closers THEN "closed"
  ELSE IF pc[p] = "openFail" THEN "opened" ELSE "onClose"

\* Faulty variant: callers do not wait for the one that does the closing.
CloseReturnEarly(p) ==
  /\ pc[p] \in CloseSites
  /\ once # "fresh"
  /\ GotoClose(p, AfterClose(p), NoCause)
  /\ wg' = wg \ {p}
  /\ UNCHANGED <<closeVars, sendVars, readVars>>

CloseReturn(p) ==
  /\ pc[p] \in CloseSites
  /\ once = "done"
  /\ GotoClose(p, AfterClose(p), NoCause)
  /\ wg' = wg \ {p}
  /\ UNCHANGED <<closeVars, sendVars, readVars>>

\* The method Close.
Close(k) ==
  /\ pc[k] = "idle"
  /\ GotoClose(k, "fail", "ErrClosed")
  /\ UNCHANGED <<wg, closeVars, sendVars, readVars>>

-----------------------------------------------------------------------------
(* Run *)

\* Faulty variant: Run does not look at started.
RunEveryTime(r) ==
  /\ pc[r] = "idle"
  /\ started' = TRUE
  /\ pc' = [pc EXCEPT ![r] = "onOpen", ![Writer] = "select"]
  /\ wg' = wg \cup {Writer}
  /\ UNCHANGED <<want, once, cause, rwc, sendVars, readVars>>

\* The CompareAndSwap succeeds: the write loop starts, OnOpen is called.
RunFirst(r) ==
  /\ pc[r] = "idle"
  /\ ~started
  /\ started' = TRUE
  /\ pc' = [pc EXCEPT ![r] = "onOpen", ![Writer] = "select"]
  /\ wg' = wg \cup {Writer}
  /\ UNCHANGED <<want, once, cause, rwc, sendVars, readVars>>

\* It fails: a repeated call of Run returns at once.
RunAgain(r) ==
  /\ pc[r] = "idle"
  /\ started
  /\ Goto(r, "returned")
  /\ UNCHANGED <<want, wg, closeVars, sendVars, readVars>>

OnOpenReturns(r) ==
  /\ pc[r] = "onOpen"
  /\ Goto(r, "opened")
  /\ UNCHANGED <<want, wg, closeVars, sendVars, readVars>>

\* OnOpen returns an error or panics.
OnOpenFails(r) ==
  /\ pc[r] = "onOpen"
  /\ GotoClose(r, "openFail", "OnOpenErr")
  /\ UNCHANGED <<wg, closeVars, sendVars, readVars>>

HeartRuns == HasHeartbeator /\ Probing

\* The other loops start unless the connection has been closed by now.
StartLoops(r) ==
  /\ pc[r] = "opened"
  /\ ~Cancelled
  /\ pc' = [pc EXCEPT ![r] = "waiting",
                      ![Reader] = "top",
                      ![Heart] = IF HeartRuns THEN "tick" ELSE @]
  /\ wg' = wg \cup {Reader} \cup (IF HeartRuns THEN {Heart} ELSE {})
  /\ UNCHANGED <<want, closeVars, sendVars, readVars>>

SkipLoops(r) ==
  /\ pc[r] = "opened"
  /\ Cancelled
  /\ Goto(r, "waiting")
  /\ UNCHANGED <<want, wg, closeVars, sendVars, readVars>>

\* Faulty variant: Run waits for the write loop only.
WaitWriterOnly(r) ==
  /\ pc[r] = "waiting"
  /\ Writer \notin wg
  /\ GotoClose(r, "final", IF Cancelled THEN cause ELSE "ErrClosed")
  /\ UNCHANGED <<wg, closeVars, sendVars, readVars>>

\* wg.Wait returns; closeWithCause(c.Err()) follows.
WaitLoops(r) ==
  /\ pc[r] = "waiting"
  /\ wg = {}
  /\ GotoClose(r, "final", IF Cancelled THEN cause ELSE "ErrClosed")
  /\ UNCHANGED <<wg, closeVars, sendVars, readVars>>

\* callOnClose: OnClose returns or its panic is recovered.
OnCloseReturns(r) ==
  /\ pc[r] = "onClose"
  /\ Goto(r, "finished")
  /\ UNCHANGED <<want, wg, closeVars, sendVars, readVars>>

-----------------------------------------------------------------------------
(* Send and TrySend *)

\* A send passes the early checks and comes to its select.
SendBegin(s, label) ==
  /\ ~Cancelled
  /\ nsent[s] < MaxSends
  /\ nsent' = [nsent EXCEPT ![s] = @ + 1]
  /\ Goto(s, label)

\* Faulty variant: the capacity is checked off by one.
EnqueueOverfull(p) ==
  /\ Len(sendQueue) <= SendQueueSize
  /\ sendQueue' = Append(sendQueue, <<p, nsent[p]>>)
  /\ accepted' = Append(accepted, <<p, nsent[p]>>)

\* The select picks the queue, even when the context is cancelled by now.
Enqueue(p) ==
  /\ Len(sendQueue) < SendQueueSize
  /\ sendQueue' = Append(sendQueue, <<p, nsent[p]>>)
  /\ accepted' = Append(accepted, <<p, nsent[p]>>)

Send(s) ==
  /\ pc[s] = "idle"
  /\ SendBegin(s, "sendWait")
  /\ UNCHANGED <<want, wg, closeVars, sendQueue, held, wire, accepted,
                 lateWrites, readVars>>

TrySend(s) ==
  /\ pc[s] = "idle"
  /\ SendBegin(s, "tryWait")
  /\ UNCHANGED <<want, wg, closeVars, sendQueue, held, wire, accepted,
                 lateWrites, readVars>>

SendOK(s) ==
  /\ pc[s] \in {"sendWait", "tryWait"}
  /\ Enqueue(s)
  /\ Goto(s, "idle")
  /\ UNCHANGED <<want, wg, closeVars, held, wire, nsent, lateWrites, readVars>>

\* Faulty variant: Send does not listen to the connection's context.
TrySendAborted(s) ==
  /\ pc[s] = "tryWait"
  /\ Cancelled
  /\ Goto(s, "idle")
  /\ UNCHANGED <<want, wg, closeVars, sendVars, readVars>>

\* The select sees the connection cancelled.
SendAborted(s) ==
  /\ pc[s] \in {"sendWait", "tryWait"}
  /\ Cancelled
  /\ Goto(s, "idle")
  /\ UNCHANGED <<want, wg, closeVars, sendVars, readVars>>

\* The caller's own context ends the wait.
SendGivesUp(s) ==
  /\ pc[s] = "sendWait"
  /\ Goto(s, "idle")
  /\ UNCHANGED <<want, wg, closeVars, sendVars, readVars>>

\* The default branch, taken when no other is ready: ErrSendQueueFull.
TrySendFull(s) ==
  /\ pc[s] = "tryWait"
  /\ ~Cancelled
  /\ Len(sendQueue) = SendQueueSize
  /\ Goto(s, "idle")
  /\ UNCHANGED <<want, wg, closeVars, sendVars, readVars>>

-----------------------------------------------------------------------------
(* writeLoop *)

\* The select sees the cancellation ...
WriterDone ==
  /\ pc[Writer] = "select"
  /\ Cancelled
  /\ LoopExit(Writer)
  /\ UNCHANGED <<want, closeVars, sendVars, readVars>>

\* ... or takes a message, which it may do when both are possible.
WriterTake ==
  /\ pc[Writer] = "select"
  /\ sendQueue # <<>>
  /\ held' = <<Head(sendQueue)>>
  /\ sendQueue' = Tail(sendQueue)
  /\ Goto(Writer, "check")
  /\ UNCHANGED <<want, wg, closeVars, wire, accepted, nsent, lateWrites,
                 readVars>>

\* Faulty variant: the write loop does not look at Err() before it writes.
WriterNoCheck ==
  /\ pc[Writer] = "check"
  /\ Goto(Writer, "write")
  /\ UNCHANGED <<want, wg, closeVars, sendVars, readVars>>

WriterCheck ==
  /\ pc[Writer] = "check"
  /\ IF Cancelled
       THEN LoopExit(Writer)
       ELSE Goto(Writer, "write") /\ UNCHANGED wg
  /\ UNCHANGED <<want, closeVars, sendVars, readVars>>

\* The transport writes the whole message.
WriteOK ==
  /\ pc[Writer] = "write"
  /\ rwc = "open"
  /\ wire' = wire \o held
  /\ held' = <<>>
  /\ lateWrites' = IF Cancelled THEN lateWrites + 1 ELSE lateWrites
  /\ Goto(Writer, "select")
  /\ UNCHANGED <<want, wg, closeVars, sendQueue, accepted, nsent, readVars>>

\* Faulty variant: a failed message is dropped and the loop goes on.
WriteSkips ==
  /\ pc[Writer] = "write"
  /\ held' = <<>>
  /\ Goto(Writer, "select")
  /\ UNCHANGED <<want, wg, closeVars, sendQueue, wire, accepted, nsent,
                 lateWrites, readVars>>

\* A write error, a short write or a panic.
WriteFails ==
  /\ pc[Writer] = "write"
  /\ GotoClose(Writer, "fail", "WriteErr")
  /\ UNCHANGED <<wg, closeVars, sendVars, readVars>>

-----------------------------------------------------------------------------
(* readLoop and deliverPacket *)

ReaderTop ==
  /\ pc[Reader] = "top"
  /\ IF Cancelled
       THEN LoopExit(Reader)
       ELSE Goto(Reader, "decode") /\ UNCHANGED wg
  /\ UNCHANGED <<want, closeVars, sendVars, readVars>>

\* The codec returns a packet; a packet that is already in the read buffer
\* is decoded even when the transport is closed.
DecodeOK(kind) ==
  /\ pc[Reader] = "decode"
  /\ nread < MaxReads
  /\ nread' = nread + 1
  /\ packet' = kind
  /\ late' = Cancelled
  /\ Goto(Reader, "decoded")
  /\ UNCHANGED <<want, wg, closeVars, sendVars>>

\* The codec fails (end of stream, read error, malformed packet) or panics.
DecodeFails ==
  /\ pc[Reader] = "decode"
  /\ GotoClose(Reader, "fail", "ReadErr")
  /\ UNCHANGED <<wg, closeVars, sendVars, readVars>>

\* Faulty variant: a decoded packet is delivered without a second check.
ReaderAdmitAll ==
  /\ pc[Reader] = "decoded"
  /\ Goto(Reader, "deliver")
  /\ UNCHANGED <<want, wg, closeVars, sendVars, readVars>>

\* The second check, before the packet counts as activity and is delivered.
ReaderAdmit ==
  /\ pc[Reader] = "decoded"
  /\ IF Cancelled
       THEN LoopExit(Reader)
       ELSE Goto(Reader, "deliver") /\ UNCHANGED wg
  /\ UNCHANGED <<want, closeVars, sendVars, readVars>>

IsHeartbeat == HasHeartbeator /\ packet # "data"

CallOnMessage ==
  /\ pc[Reader] = "deliver"
  /\ ~IsHeartbeat
  /\ Goto(Reader, "onMessage")
  /\ UNCHANGED <<want, wg, closeVars, sendVars, readVars>>

OnMessageReturns ==
  /\ pc[Reader] = "onMessage"
  /\ Goto(Reader, "top")
  /\ UNCHANGED <<want, wg, closeVars, sendVars, readVars>>

OnMessagePanics ==
  /\ pc[Reader] = "onMessage"
  /\ GotoClose(Reader, "fail", "DeliverErr")
  /\ UNCHANGED <<wg, closeVars, sendVars, readVars>>

\* A ping is answered with Send(c.ctx, pong), which may have to wait for the
\* write loop.
PongBegin ==
  /\ pc[Reader] = "deliver"
  /\ IsHeartbeat /\ packet = "ping"
  /\ ~Cancelled
  /\ nsent' = [nsent EXCEPT ![Reader] = @ + 1]
  /\ Goto(Reader, "pongWait")
  /\ UNCHANGED <<want, wg, closeVars, sendQueue, held, wire, accepted,
                 lateWrites, readVars>>

PongSent ==
  /\ pc[Reader] = "pongWait"
  /\ Enqueue(Reader)
  /\ Goto(Reader, "top")
  /\ UNCHANGED <<want, wg, closeVars, held, wire, nsent, lateWrites, readVars>>

\* Send returns the error of a cancelled connection.
PongAborted ==
  /\ \/ pc[Reader] = "pongWait"
     \/ pc[Reader] = "deliver" /\ IsHeartbeat /\ packet = "ping"
  /\ Cancelled
  /\ GotoClose(Reader, "fail", "DeliverErr")
  /\ UNCHANGED <<wg, closeVars, sendVars, readVars>>

PongReceived ==
  /\ pc[Reader] = "deliver"
  /\ IsHeartbeat /\ packet = "pong"
  /\ Goto(Reader, "top")
  /\ UNCHANGED <<want, wg, closeVars, sendVars, readVars>>

\* An invalid heartbeat kind; a pong that cannot be encoded; a panic of the
\* heartbeat hooks.
DeliverFails ==
  /\ pc[Reader] = "deliver"
  /\ HasHeartbeator
  /\ GotoClose(Reader, "fail", "DeliverErr")
  /\ UNCHANGED <<wg, closeVars, sendVars, readVars>>

-----------------------------------------------------------------------------
(* heartbearLoop *)

HeartDone ==
  /\ pc[Heart] \in {"tick", "pinged"}
  /\ Cancelled
  /\ LoopExit(Heart)
  /\ UNCHANGED <<want, closeVars, sendVars, readVars>>

\* A tick arrives and finds the connection alive.
HeartTick ==
  /\ pc[Heart] = "tick"
  /\ ~Cancelled
  /\ nsent[Heart] < MaxPings
  /\ Goto(Heart, "load")
  /\ UNCHANGED <<want, wg, closeVars, sendVars, readVars>>

\* Nothing was received for HeartbeatTimeout.
HeartExpired ==
  /\ pc[Heart] = "load"
  /\ GotoClose(Heart, "fail", "ErrHeartbeatTimeout")
  /\ UNCHANGED <<wg, closeVars, sendVars, readVars>>

PingBegin ==
  /\ pc[Heart] = "load"
  /\ nsent' = [nsent EXCEPT ![Heart] = @ + 1]
  /\ Goto(Heart, IF Cancelled THEN "pinged" ELSE "pingWait")
  /\ UNCHANGED <<want, wg, closeVars, sendQueue, held, wire, accepted,
                 lateWrites, readVars>>

PingSent ==
  /\ pc[Heart] = "pingWait"
  /\ Enqueue(Heart)
  /\ Goto(Heart, "pinged")
  /\ UNCHANGED <<want, wg, closeVars, held, wire, nsent, lateWrites, readVars>>

\* The queue had no room for one interval, or the connection was cancelled.
PingNotSent ==
  /\ pc[Heart] = "pingWait"
  /\ Goto(Heart, "pinged")
  /\ UNCHANGED <<want, wg, closeVars, sendVars, readVars>>

\* The loop goes on after a ping that was queued or skipped.
HeartNext ==
  /\ pc[Heart] = "pinged"
  /\ ~Cancelled
  /\ Goto(Heart, "tick")
  /\ UNCHANGED <<want, wg, closeVars, sendVars, readVars>>

\* The ping cannot be encoded, or the heartbeat hooks panic.
PingFails ==
  /\ pc[Heart] = "load"
  /\ nsent' = [nsent EXCEPT ![Heart] = @ + 1]
  /\ GotoClose(Heart, "fail", "PingErr")
  /\ UNCHANGED <<wg, closeVars, sendQueue, held, wire, accepted, lateWrites,
                 readVars>>

-----------------------------------------------------------------------------
RunnerStep(r) ==
  \/ RunFirst(r) \/ RunAgain(r)
  \/ OnOpenReturns(r) \/ OnOpenFails(r)
  \/ StartLoops(r) \/ SkipLoops(r) \/ WaitLoops(r)
  \/ OnCloseReturns(r)

SenderStep(s) ==
  \/ Send(s) \/ TrySend(s)
  \/ SendOK(s) \/ SendAborted(s) \/ SendGivesUp(s) \/ TrySendFull(s)

WriterStep ==
  WriterDone \/ WriterTake \/ WriterCheck \/ WriteOK \/ WriteFails

ReaderStep ==
  \/ ReaderTop \/ (\E kind \in Kinds : DecodeOK(kind)) \/ DecodeFails
  \/ ReaderAdmit
  \/ CallOnMessage \/ OnMessageReturns \/ OnMessagePanics
  \/ PongBegin \/ PongSent \/ PongAborted \/ PongReceived \/ DeliverFails

HeartStep ==
  \/ HeartDone \/ HeartTick \/ HeartExpired
  \/ PingBegin \/ PingSent \/ PingNotSent \/ PingFails \/ HeartNext

CloseStep ==
  \/ \E p \in Procs : CloseEnter(p)
  \/ CloseTransport
  \/ \E p \in Procs : CloseReturn(p)
  \/ \E k \in Closers : Close(k)

Next ==
  \/ \E r \in Runners : RunnerStep(r)
  \/ \E s \in Senders : SenderStep(s)
  \/ WriterStep
  \/ ReaderStep
  \/ HeartStep
  \/ CloseStep

Spec == Init /\ [][Next]_vars

(***************************************************************************)
(* Fairness.  Go's scheduler runs every goroutine that can run.  Nothing   *)
(* obliges the peer to read or to send: a Write or a Decode is sure to end *)
(* only when the transport is closed.  OnOpen and OnMessage get the        *)
(* connection's context and are assumed to return once it is cancelled,    *)
(* OnClose is assumed to return.  Nobody has to call Run, Send or Close.   *)
(***************************************************************************)
Fairness ==
  /\ \A p \in Procs : WF_vars(CloseEnter(p) \/ CloseReturn(p))
  /\ WF_vars(CloseTransport)
  /\ \A r \in Runners :
       /\ WF_vars(StartLoops(r) \/ SkipLoops(r) \/ WaitLoops(r))
       /\ WF_vars(Cancelled /\ OnOpenReturns(r))
       /\ WF_vars(OnCloseReturns(r))
  /\ \A s \in Senders :
       WF_vars(SendAborted(s) \/ TrySendFull(s)
                 \/ (pc[s] = "tryWait" /\ SendOK(s)))
  /\ WF_vars(WriterDone \/ WriterTake \/ WriterCheck)
  /\ WF_vars(rwc = "closed" /\ WriteFails)
  /\ WF_vars(rwc = "closed" /\ DecodeFails)
  /\ WF_vars(Cancelled /\ OnMessageReturns)
  /\ WF_vars(\/ ReaderTop \/ ReaderAdmit \/ CallOnMessage \/ PongBegin
             \/ PongSent \/ PongAborted \/ PongReceived \/ DeliverFails)
  /\ WF_vars(\/ HeartDone \/ HeartExpired \/ PingBegin \/ PingSent
             \/ PingNotSent \/ PingFails \/ HeartNext)

FairSpec == Spec /\ Fairness

-----------------------------------------------------------------------------
(* Properties *)

\* Every goroutine is at a label of its own code.
PcOK ==
  /\ pc \in [Procs -> RunnerLabels \cup SenderLabels \cup CloserLabels
                         \cup WriterLabels \cup ReaderLabels \cup HeartLabels]
  /\ \A r \in Runners : pc[r] \in RunnerLabels
  /\ \A s \in Senders : pc[s] \in SenderLabels
  /\ \A k \in Closers : pc[k] \in CloserLabels
  /\ pc[Writer] \in WriterLabels
  /\ pc[Reader] \in ReaderLabels
  /\ pc[Heart] \in HeartLabels

CloseOK ==
  /\ want \in [Procs -> Causes \cup {NoCause}]
  /\ started \in BOOLEAN
  /\ once \in {"fresh", "running", "done"}
  /\ cause \in Causes \cup {NoCause}
  /\ rwc \in {"open", "closed"}
  /\ wg \subseteq Loops

DataOK ==
  /\ sendQueue \in Seq(Messages) /\ Len(sendQueue) <= SendQueueSize
  /\ held \in Seq(Messages) /\ Len(held) <= 1
  /\ wire \in Seq(Messages)
  /\ accepted \in Seq(Messages)
  /\ nsent \in [Senders \cup {Reader, Heart} -> Nat]
  /\ packet \in Kinds
  /\ late \in BOOLEAN
  /\ nread \in Nat
  /\ lateWrites \in Nat

\* Every variable has its type, every goroutine is at a label of its own
\* code, and the send queue respects its capacity.
TypeOK == PcOK /\ CloseOK /\ DataOK

LoopEnded(l) == pc[l] \in {"off", "exited"}

\* When OnClose is called, and ever after, no loop of the connection is
\* running, the connection has a cause and its transport has been closed
\* completely, whoever started the closing (the order Run documents for
\* OnClose: all loops have exited and the transport is closed).
OnCloseIsLast ==
  \A r \in Runners : pc[r] \in {"onClose", "finished"} =>
    /\ \A l \in Loops : LoopEnded(l)
    /\ Cancelled
    /\ once = "done"
    /\ rwc = "closed"

\* The callbacks of a connection never overlap: while the read loop can call
\* OnMessage, the goroutine of Run is past OnOpen and waits, and no second
\* call of Run is under way.
CallbacksSerial ==
  pc[Reader] \in {"deliver", "onMessage"} =>
    /\ \E r \in Runners : pc[r] = "waiting"
    /\ \A r \in Runners : pc[r] \notin {"onOpen", "openFail", "onClose"}

\* A packet the codec returned after the connection was cancelled (out of
\* the read buffer, for instance) is neither delivered nor answered.
NoLateDelivery ==
  pc[Reader] \in {"deliver", "onMessage", "pongWait"} => ~late

\* After the cancellation at most the one write that was in progress can
\* still reach the wire, however full the send queue is.
AtMostOneLateWrite == lateWrites <= 1

\* The wire carries the accepted messages in the order of acceptance, with
\* no gap: a message is lost only behind the point at which the connection
\* ended, never between two that were written.
SendOrder == accepted = wire \o held \o sendQueue

\* Close returns, to every caller, with the transport closed and the
\* connection cancelled, even when another goroutine is doing the closing.
CloseIsComplete ==
  \A k \in Closers : pc[k] = "closed" => rwc = "closed" /\ Cancelled

\* How far Run has come, as the owner of the connection sees it.
phase ==
  IF ~started THEN "new"
  ELSE IF \E r \in Runners : pc[r] = "finished" THEN "finished"
  ELSE IF \E r \in Runners : pc[r] = "onClose" THEN "onClose"
  ELSE "running"

C == INSTANCE Connection

\* The connection keeps the promises of module Connection: one effective
\* Run, a cause that is never replaced, OnClose once and last.
ImplementsConnection == C!Spec

\* ... and comes to its end once it runs and is cancelled.
EndsLikeConnection == C!FairSpec

\* A cancelled connection lets go of every goroutine inside Send, and
\* TrySend never waits at all.
SendersReleased ==
  \A s \in Senders : (Cancelled \/ pc[s] = "tryWait") ~> pc[s] = "idle"

=============================================================================
