----------------------------- MODULE ConnProofs -----------------------------
(***************************************************************************)
(* Proofs about module Conn, for any number of goroutines that call Run,   *)
(* Send, TrySend and Close, any queue capacity and any number of messages. *)
(*                                                                         *)
(* The inductive invariant is Inv, the type invariant with                 *)
(*   CoreInv   the protocol of started, closeOnce, the context and the     *)
(*             WaitGroup: who may be where, and what is closed by then;    *)
(*   LateInv   what the read and the write loop may still do after the     *)
(*             cancellation;                                               *)
(*   QueueInv  where every accepted message is.                            *)
(* Each is preserved by every step (TypeNext, CoreNext, LateNext,          *)
(* QueueNext); the safety properties of Conn follow from them.             *)
(***************************************************************************)
EXTENDS Conn, SequenceTheorems, TLAPS

USE DEF Procs, Loops, Writer, Reader, Heart, Goto, GotoClose, LoopExit,
        Cancelled, closeVars, sendVars, readVars, NoCause
USE ConnAssumption, ProcsDisjoint

\* closeOnce, the cause and the transport move together.
OnceInv ==
  /\ once = "fresh" <=> cause = NoCause
  /\ once = "done" <=> rwc = "closed"

\* Whoever is at a call of closeWithCause brings a cause.
WantInv == \A p \in Procs : pc[p] \in CloseSites => want[p] # NoCause

\* The goroutine r is inside the one effective call of Run.
InRun(r) == pc[r] \notin {"idle", "returned"}

\* There is one such goroutine at most, and no loop before there is one.
RunInv ==
  /\ \A r, q \in Runners : InRun(r) /\ InRun(q) => r = q
  /\ ~started => /\ \A r \in Runners : ~InRun(r)
                 /\ \A l \in Loops : pc[l] = "off"

\* What the WaitGroup counts, and what Run knows at each of its steps.
LoopInv ==
  /\ wg = {l \in Loops : ~LoopEnded(l)}
  /\ \A r \in Runners :
       /\ pc[r] \in {"onOpen", "openFail", "opened"} =>
            pc[Reader] = "off" /\ pc[Heart] = "off"
       /\ pc[r] \in {"final", "onClose", "finished"} =>
            \A l \in Loops : LoopEnded(l)
       /\ InRun(r) => pc[Writer] # "off"
  /\ ~LoopEnded(Reader) => \E r \in Runners : pc[r] = "waiting"
  /\ pc[Writer] = "exited" => Cancelled

\* Nobody is past a call of closeWithCause before the transport is closed.
EndInv ==
  /\ \A r \in Runners : pc[r] \in {"onClose", "finished"} => once = "done"
  /\ \A k \in Closers : pc[k] = "closed" => once = "done"

CoreInv == OnceInv /\ WantInv /\ RunInv /\ LoopInv /\ EndInv

\* What is left of the traffic after the cancellation.
LateInv ==
  /\ late => Cancelled
  /\ pc[Reader] \in {"deliver", "onMessage", "pongWait"} => ~late
  /\ lateWrites <= 1
  /\ lateWrites > 0 => Cancelled /\ pc[Writer] # "write"

\* Where the accepted messages are.
QueueInv ==
  /\ pc[Writer] \in {"off", "select"} => held = <<>>
  /\ SendOrder

Inv == TypeOK /\ CoreInv /\ LateInv /\ QueueInv

-----------------------------------------------------------------------------
(* Type correctness *)

\* newConn sets up a state of the right types.
LEMMA TypeInit == Init => TypeOK
  <1> SUFFICES ASSUME Init PROVE TypeOK
    OBVIOUS
  <1>1. PcOK
    BY DEF Init, PcOK, RunnerLabels, SenderLabels, CloserLabels, WriterLabels,
           ReaderLabels, HeartLabels
  <1>2. CloseOK
    BY DEF Init, CloseOK
  <1>3. DataOK
    <2>1. sendQueue \in Seq(Messages) /\ Len(sendQueue) <= SendQueueSize
      BY DEF Init
    <2>2. held \in Seq(Messages) /\ Len(held) <= 1
      BY DEF Init
    <2>3. wire \in Seq(Messages) /\ accepted \in Seq(Messages)
      BY DEF Init
    <2>4. nsent \in [Senders \cup {Reader, Heart} -> Nat]
      BY DEF Init
    <2> QED BY <2>1, <2>2, <2>3, <2>4 DEF Init, DataOK, Kinds
  <1> QED BY <1>1, <1>2, <1>3 DEF TypeOK

\* Every step keeps the types, the labels and the capacity of the queue.
LEMMA TypeNext == TypeOK /\ [Next]_vars => TypeOK'
  <1> SUFFICES ASSUME TypeOK, [Next]_vars PROVE TypeOK'
    OBVIOUS
  <1> USE DEF TypeOK, PcOK, CloseOK, DataOK, RunnerLabels, SenderLabels,
              CloserLabels,
              WriterLabels, ReaderLabels, HeartLabels, Causes, Messages, Kinds
  <1>1. ASSUME NEW r \in Runners, RunnerStep(r) PROVE TypeOK'
    <2>1. CASE RunFirst(r)
      <3>1. PcOK'
        <4> HIDE DEF CloseOK, DataOK
        <4> QED BY <2>1 DEF RunFirst
      <3>2. CloseOK'
        <4> HIDE DEF PcOK, DataOK
        <4> QED BY <2>1 DEF RunFirst
      <3>3. DataOK'
        <4> HIDE DEF PcOK, CloseOK
        <4> QED BY <2>1 DEF RunFirst
      <3> QED BY <3>1, <3>2, <3>3 DEF TypeOK
    <2>2. CASE RunAgain(r)
      BY <2>2 DEF RunAgain
    <2>3. CASE OnOpenReturns(r)
      BY <2>3 DEF OnOpenReturns
    <2>4. CASE OnOpenFails(r)
      BY <2>4 DEF OnOpenFails
    <2>5. CASE StartLoops(r)
      BY <2>5 DEF StartLoops, HeartRuns
    <2>6. CASE SkipLoops(r)
      BY <2>6 DEF SkipLoops
    <2>7. CASE WaitLoops(r)
      BY <2>7 DEF WaitLoops
    <2>8. CASE OnCloseReturns(r)
      BY <2>8 DEF OnCloseReturns
    <2> QED BY <1>1, <2>1, <2>2, <2>3, <2>4, <2>5, <2>6, <2>7,
               <2>8 DEF RunnerStep
  <1>2. ASSUME NEW s \in Senders, SenderStep(s) PROVE TypeOK'
    <2>1. CASE Send(s)
      BY <2>1 DEF Send, SendBegin
    <2>2. CASE TrySend(s)
      BY <2>2 DEF TrySend, SendBegin
    <2>3. CASE SendOK(s)
      BY <2>3 DEF SendOK, Enqueue
    <2>4. CASE SendAborted(s)
      BY <2>4 DEF SendAborted
    <2>5. CASE SendGivesUp(s)
      BY <2>5 DEF SendGivesUp
    <2>6. CASE TrySendFull(s)
      BY <2>6 DEF TrySendFull
    <2> QED BY <1>2, <2>1, <2>2, <2>3, <2>4, <2>5, <2>6 DEF SenderStep
  <1>3. CASE WriterStep
    <2>1. CASE WriterDone
      BY <2>1 DEF WriterDone
    <2>2. CASE WriterTake
      BY <2>2 DEF WriterTake
    <2>3. CASE WriterCheck
      <3>1. PcOK'
        <4> HIDE DEF CloseOK, DataOK
        <4> QED BY <2>3 DEF WriterCheck
      <3>2. CloseOK'
        <4> HIDE DEF PcOK, DataOK
        <4> QED BY <2>3 DEF WriterCheck
      <3>3. DataOK'
        <4> HIDE DEF PcOK, CloseOK
        <4> QED BY <2>3 DEF WriterCheck
      <3> QED BY <3>1, <3>2, <3>3 DEF TypeOK
    <2>4. CASE WriteOK
      BY <2>4 DEF WriteOK
    <2>5. CASE WriteFails
      BY <2>5 DEF WriteFails
    <2> QED BY <1>3, <2>1, <2>2, <2>3, <2>4, <2>5 DEF WriterStep
  <1>4. CASE ReaderStep
    <2>1. CASE ReaderTop
      <3>1. PcOK'
        <4> HIDE DEF CloseOK, DataOK
        <4> QED BY <2>1 DEF ReaderTop
      <3>2. CloseOK'
        <4> HIDE DEF PcOK, DataOK
        <4> QED BY <2>1 DEF ReaderTop
      <3>3. DataOK'
        <4> HIDE DEF PcOK, CloseOK
        <4> QED BY <2>1 DEF ReaderTop
      <3> QED BY <3>1, <3>2, <3>3 DEF TypeOK
    <2>2. ASSUME NEW kind \in Kinds, DecodeOK(kind) PROVE TypeOK'
      BY <2>2 DEF DecodeOK
    <2>3. CASE DecodeFails
      BY <2>3 DEF DecodeFails
    <2>4. CASE ReaderAdmit
      <3>1. PcOK'
        <4> HIDE DEF CloseOK, DataOK
        <4> QED BY <2>4 DEF ReaderAdmit
      <3>2. CloseOK'
        <4> HIDE DEF PcOK, DataOK
        <4> QED BY <2>4 DEF ReaderAdmit
      <3>3. DataOK'
        <4> HIDE DEF PcOK, CloseOK
        <4> QED BY <2>4 DEF ReaderAdmit
      <3> QED BY <3>1, <3>2, <3>3 DEF TypeOK
    <2>5. CASE CallOnMessage
      BY <2>5 DEF CallOnMessage
    <2>6. CASE OnMessageReturns
      BY <2>6 DEF OnMessageReturns
    <2>7. CASE OnMessagePanics
      BY <2>7 DEF OnMessagePanics
    <2>8. CASE PongBegin
      BY <2>8 DEF PongBegin
    <2>9. CASE PongSent
      BY <2>9 DEF PongSent, Enqueue
    <2>10. CASE PongAborted
      BY <2>10 DEF PongAborted
    <2>11. CASE PongReceived
      BY <2>11 DEF PongReceived
    <2>12. CASE DeliverFails
      BY <2>12 DEF DeliverFails
    <2> QED BY <1>4, <2>1, <2>2, <2>3, <2>4, <2>5, <2>6, <2>7, <2>8, <2>9,
               <2>10, <2>11, <2>12 DEF ReaderStep
  <1>5. CASE HeartStep
    <2>1. CASE HeartDone
      BY <2>1 DEF HeartDone
    <2>2. CASE HeartTick
      BY <2>2 DEF HeartTick
    <2>3. CASE HeartExpired
      BY <2>3 DEF HeartExpired
    <2>4. CASE PingBegin
      BY <2>4 DEF PingBegin
    <2>5. CASE PingSent
      BY <2>5 DEF PingSent, Enqueue
    <2>6. CASE PingNotSent
      BY <2>6 DEF PingNotSent
    <2>7. CASE PingFails
      BY <2>7 DEF PingFails
    <2>8. CASE HeartNext
      BY <2>8 DEF HeartNext
    <2> QED BY <1>5, <2>1, <2>2, <2>3, <2>4, <2>5, <2>6, <2>7,
               <2>8 DEF HeartStep
  <1>6. CASE CloseStep
    <2>1. ASSUME NEW p \in Procs, CloseEnter(p) PROVE TypeOK'
      BY <2>1 DEF CloseEnter, CloseSites
    <2>2. CASE CloseTransport
      BY <2>2 DEF CloseTransport
    <2>3. ASSUME NEW p \in Procs, CloseReturn(p) PROVE TypeOK'
      <3>1. PcOK'
        <4> HIDE DEF CloseOK, DataOK
        <4> QED BY <2>3 DEF CloseReturn, AfterClose, CloseSites
      <3>2. CloseOK'
        <4> HIDE DEF PcOK, DataOK
        <4> QED BY <2>3 DEF CloseReturn, AfterClose, CloseSites
      <3>3. DataOK'
        <4> HIDE DEF PcOK, CloseOK
        <4> QED BY <2>3 DEF CloseReturn, AfterClose, CloseSites
      <3> QED BY <3>1, <3>2, <3>3 DEF TypeOK
    <2>4. ASSUME NEW k \in Closers, Close(k) PROVE TypeOK'
      BY <2>4 DEF Close
    <2> QED BY <1>6, <2>1, <2>2, <2>3, <2>4 DEF CloseStep
  <1>7. CASE UNCHANGED vars
    BY <1>7 DEF vars
  <1> QED BY <1>1, <1>2, <1>3, <1>4, <1>5, <1>6, <1>7 DEF Next

-----------------------------------------------------------------------------
(* The protocol of Run, the loops and closeWithCause *)

\* A new connection has no loop, no runner and no cause.
LEMMA CoreInit == Init => CoreInv
  BY DEF Init, CoreInv, OnceInv, WantInv, RunInv, LoopInv, EndInv, InRun,
         LoopEnded, CloseSites

\* Every step keeps the protocol of started, closeOnce, context and WaitGroup.
LEMMA CoreNext == TypeOK /\ CoreInv /\ [Next]_vars => CoreInv'
  <1> SUFFICES ASSUME TypeOK, CoreInv, [Next]_vars PROVE CoreInv'
    OBVIOUS
  <1> USE DEF CoreInv, OnceInv, WantInv, RunInv, LoopInv, EndInv, InRun,
              LoopEnded,
              CloseSites, Causes, TypeOK, PcOK, CloseOK, RunnerLabels,
              SenderLabels, CloserLabels, WriterLabels, ReaderLabels,
              HeartLabels
  <1>1. ASSUME NEW r \in Runners, RunnerStep(r) PROVE CoreInv'
    <2>1. CASE RunFirst(r)
      BY <2>1 DEF RunFirst
    <2>2. CASE RunAgain(r)
      BY <2>2 DEF RunAgain
    <2>3. CASE OnOpenReturns(r)
      BY <2>3 DEF OnOpenReturns
    <2>4. CASE OnOpenFails(r)
      BY <2>4 DEF OnOpenFails
    <2>5. CASE StartLoops(r)
      BY <2>5 DEF StartLoops, HeartRuns
    <2>6. CASE SkipLoops(r)
      BY <2>6 DEF SkipLoops
    <2>7. CASE WaitLoops(r)
      BY <2>7 DEF WaitLoops
    <2>8. CASE OnCloseReturns(r)
      BY <2>8 DEF OnCloseReturns
    <2> QED BY <1>1, <2>1, <2>2, <2>3, <2>4, <2>5, <2>6, <2>7,
               <2>8 DEF RunnerStep
  <1>2. ASSUME NEW s \in Senders, SenderStep(s) PROVE CoreInv'
    <2>1. CASE Send(s)
      BY <2>1 DEF Send, SendBegin
    <2>2. CASE TrySend(s)
      BY <2>2 DEF TrySend, SendBegin
    <2>3. CASE SendOK(s)
      BY <2>3 DEF SendOK, Enqueue
    <2>4. CASE SendAborted(s)
      BY <2>4 DEF SendAborted
    <2>5. CASE SendGivesUp(s)
      BY <2>5 DEF SendGivesUp
    <2>6. CASE TrySendFull(s)
      BY <2>6 DEF TrySendFull
    <2> QED BY <1>2, <2>1, <2>2, <2>3, <2>4, <2>5, <2>6 DEF SenderStep
  <1>3. CASE WriterStep
    <2>1. CASE WriterDone
      BY <2>1 DEF WriterDone
    <2>2. CASE WriterTake
      BY <2>2 DEF WriterTake
    <2>3. CASE WriterCheck
      BY <2>3 DEF WriterCheck
    <2>4. CASE WriteOK
      BY <2>4 DEF WriteOK
    <2>5. CASE WriteFails
      BY <2>5 DEF WriteFails
    <2> QED BY <1>3, <2>1, <2>2, <2>3, <2>4, <2>5 DEF WriterStep
  <1>4. CASE ReaderStep
    <2>1. CASE ReaderTop
      BY <2>1 DEF ReaderTop
    <2>2. ASSUME NEW kind \in Kinds, DecodeOK(kind) PROVE CoreInv'
      BY <2>2 DEF DecodeOK
    <2>3. CASE DecodeFails
      BY <2>3 DEF DecodeFails
    <2>4. CASE ReaderAdmit
      BY <2>4 DEF ReaderAdmit
    <2>5. CASE CallOnMessage
      BY <2>5 DEF CallOnMessage
    <2>6. CASE OnMessageReturns
      BY <2>6 DEF OnMessageReturns
    <2>7. CASE OnMessagePanics
      BY <2>7 DEF OnMessagePanics
    <2>8. CASE PongBegin
      BY <2>8 DEF PongBegin
    <2>9. CASE PongSent
      BY <2>9 DEF PongSent, Enqueue
    <2>10. CASE PongAborted
      BY <2>10 DEF PongAborted
    <2>11. CASE PongReceived
      BY <2>11 DEF PongReceived
    <2>12. CASE DeliverFails
      BY <2>12 DEF DeliverFails
    <2> QED BY <1>4, <2>1, <2>2, <2>3, <2>4, <2>5, <2>6, <2>7, <2>8, <2>9,
               <2>10, <2>11, <2>12 DEF ReaderStep
  <1>5. CASE HeartStep
    <2>1. CASE HeartDone
      BY <2>1 DEF HeartDone
    <2>2. CASE HeartTick
      BY <2>2 DEF HeartTick
    <2>3. CASE HeartExpired
      BY <2>3 DEF HeartExpired
    <2>4. CASE PingBegin
      BY <2>4 DEF PingBegin
    <2>5. CASE PingSent
      BY <2>5 DEF PingSent, Enqueue
    <2>6. CASE PingNotSent
      BY <2>6 DEF PingNotSent
    <2>7. CASE PingFails
      BY <2>7 DEF PingFails
    <2>8. CASE HeartNext
      BY <2>8 DEF HeartNext
    <2> QED BY <1>5, <2>1, <2>2, <2>3, <2>4, <2>5, <2>6, <2>7,
               <2>8 DEF HeartStep
  <1>6. CASE CloseStep
    <2>1. ASSUME NEW p \in Procs, CloseEnter(p) PROVE CoreInv'
      BY <2>1 DEF CloseEnter, CloseSites
    <2>2. CASE CloseTransport
      BY <2>2 DEF CloseTransport
    <2>3. ASSUME NEW p \in Procs, CloseReturn(p) PROVE CoreInv'
      BY <2>3 DEF CloseReturn, AfterClose, CloseSites
    <2>4. ASSUME NEW k \in Closers, Close(k) PROVE CoreInv'
      BY <2>4 DEF Close
    <2> QED BY <1>6, <2>1, <2>2, <2>3, <2>4 DEF CloseStep
  <1>7. CASE UNCHANGED vars
    BY <1>7 DEF vars
  <1> QED BY <1>1, <1>2, <1>3, <1>4, <1>5, <1>6, <1>7 DEF Next

-----------------------------------------------------------------------------
(* After the cancellation *)

\* A new connection has read and written nothing.
LEMMA LateInit == Init => LateInv
  BY DEF Init, LateInv

\* Every step keeps the limits on reads and writes after the cancellation.
LEMMA LateNext == TypeOK /\ CoreInv /\ LateInv /\ [Next]_vars => LateInv'
  <1> SUFFICES ASSUME TypeOK, CoreInv, LateInv, [Next]_vars PROVE LateInv'
    OBVIOUS
  <1> USE DEF CoreInv, OnceInv, WantInv, LateInv, CloseSites, TypeOK, PcOK,
              DataOK
  <1>1. ASSUME NEW r \in Runners, RunnerStep(r) PROVE LateInv'
    <2>1. CASE RunFirst(r)
      BY <2>1 DEF RunFirst
    <2>2. CASE RunAgain(r)
      BY <2>2 DEF RunAgain
    <2>3. CASE OnOpenReturns(r)
      BY <2>3 DEF OnOpenReturns
    <2>4. CASE OnOpenFails(r)
      BY <2>4 DEF OnOpenFails
    <2>5. CASE StartLoops(r)
      BY <2>5 DEF StartLoops, HeartRuns
    <2>6. CASE SkipLoops(r)
      BY <2>6 DEF SkipLoops
    <2>7. CASE WaitLoops(r)
      BY <2>7 DEF WaitLoops
    <2>8. CASE OnCloseReturns(r)
      BY <2>8 DEF OnCloseReturns
    <2> QED BY <1>1, <2>1, <2>2, <2>3, <2>4, <2>5, <2>6, <2>7,
               <2>8 DEF RunnerStep
  <1>2. ASSUME NEW s \in Senders, SenderStep(s) PROVE LateInv'
    <2>1. CASE Send(s)
      BY <2>1 DEF Send, SendBegin
    <2>2. CASE TrySend(s)
      BY <2>2 DEF TrySend, SendBegin
    <2>3. CASE SendOK(s)
      BY <2>3 DEF SendOK, Enqueue
    <2>4. CASE SendAborted(s)
      BY <2>4 DEF SendAborted
    <2>5. CASE SendGivesUp(s)
      BY <2>5 DEF SendGivesUp
    <2>6. CASE TrySendFull(s)
      BY <2>6 DEF TrySendFull
    <2> QED BY <1>2, <2>1, <2>2, <2>3, <2>4, <2>5, <2>6 DEF SenderStep
  <1>3. CASE WriterStep
    <2>1. CASE WriterDone
      BY <2>1 DEF WriterDone
    <2>2. CASE WriterTake
      BY <2>2 DEF WriterTake
    <2>3. CASE WriterCheck
      BY <2>3 DEF WriterCheck
    <2>4. CASE WriteOK
      BY <2>4 DEF WriteOK
    <2>5. CASE WriteFails
      BY <2>5 DEF WriteFails
    <2> QED BY <1>3, <2>1, <2>2, <2>3, <2>4, <2>5 DEF WriterStep
  <1>4. CASE ReaderStep
    <2>1. CASE ReaderTop
      BY <2>1 DEF ReaderTop
    <2>2. ASSUME NEW kind \in Kinds, DecodeOK(kind) PROVE LateInv'
      BY <2>2 DEF DecodeOK
    <2>3. CASE DecodeFails
      BY <2>3 DEF DecodeFails
    <2>4. CASE ReaderAdmit
      BY <2>4 DEF ReaderAdmit
    <2>5. CASE CallOnMessage
      BY <2>5 DEF CallOnMessage
    <2>6. CASE OnMessageReturns
      BY <2>6 DEF OnMessageReturns
    <2>7. CASE OnMessagePanics
      BY <2>7 DEF OnMessagePanics
    <2>8. CASE PongBegin
      BY <2>8 DEF PongBegin
    <2>9. CASE PongSent
      BY <2>9 DEF PongSent, Enqueue
    <2>10. CASE PongAborted
      BY <2>10 DEF PongAborted
    <2>11. CASE PongReceived
      BY <2>11 DEF PongReceived
    <2>12. CASE DeliverFails
      BY <2>12 DEF DeliverFails
    <2> QED BY <1>4, <2>1, <2>2, <2>3, <2>4, <2>5, <2>6, <2>7, <2>8, <2>9,
               <2>10, <2>11, <2>12 DEF ReaderStep
  <1>5. CASE HeartStep
    <2>1. CASE HeartDone
      BY <2>1 DEF HeartDone
    <2>2. CASE HeartTick
      BY <2>2 DEF HeartTick
    <2>3. CASE HeartExpired
      BY <2>3 DEF HeartExpired
    <2>4. CASE PingBegin
      BY <2>4 DEF PingBegin
    <2>5. CASE PingSent
      BY <2>5 DEF PingSent, Enqueue
    <2>6. CASE PingNotSent
      BY <2>6 DEF PingNotSent
    <2>7. CASE PingFails
      BY <2>7 DEF PingFails
    <2>8. CASE HeartNext
      BY <2>8 DEF HeartNext
    <2> QED BY <1>5, <2>1, <2>2, <2>3, <2>4, <2>5, <2>6, <2>7,
               <2>8 DEF HeartStep
  <1>6. CASE CloseStep
    <2>1. ASSUME NEW p \in Procs, CloseEnter(p) PROVE LateInv'
      BY <2>1 DEF CloseEnter, CloseSites
    <2>2. CASE CloseTransport
      BY <2>2 DEF CloseTransport
    <2>3. ASSUME NEW p \in Procs, CloseReturn(p) PROVE LateInv'
      BY <2>3 DEF CloseReturn, AfterClose, CloseSites
    <2>4. ASSUME NEW k \in Closers, Close(k) PROVE LateInv'
      BY <2>4 DEF Close
    <2> QED BY <1>6, <2>1, <2>2, <2>3, <2>4 DEF CloseStep
  <1>7. CASE UNCHANGED vars
    BY <1>7 DEF vars
  <1> QED BY <1>1, <1>2, <1>3, <1>4, <1>5, <1>6, <1>7 DEF Next

-----------------------------------------------------------------------------
(* The send queue *)

\* Appending to the last of two sequences appends to their concatenation.
LEMMA AppendConcat ==
  \A a, b \in Seq(Messages) : \A m \in Messages :
    Append(a \o b, m) = a \o Append(b, m)
  BY SMTT(30)

\* A message that enters the queue keeps its place behind the accepted ones.
LEMMA EnqueueKeepsOrder ==
  ASSUME DataOK, SendOrder,
         NEW p \in Senders \cup {Reader, Heart}, Enqueue(p),
         UNCHANGED <<held, wire>>
  PROVE  SendOrder'
  <1> DEFINE front == wire \o held
             m == <<p, nsent[p]>>
  <1>1. front \in Seq(Messages) /\ sendQueue \in Seq(Messages)
    BY DEF DataOK
  <1>2. m \in Messages
    BY DEF DataOK, Messages
  <1>3. /\ accepted' = Append(front \o sendQueue, m)
        /\ sendQueue' = Append(sendQueue, m)
    BY DEF Enqueue, SendOrder
  <1>4. Append(front \o sendQueue, m) = front \o Append(sendQueue, m)
    BY <1>1, <1>2, AppendConcat, Zenon
  <1> QED BY <1>3, <1>4 DEF SendOrder

\* A new connection has accepted no message.
LEMMA QueueInit == Init => QueueInv
  BY DEF Init, QueueInv, SendOrder

\* Every step keeps track of all accepted messages.
LEMMA QueueNext == TypeOK /\ CoreInv /\ QueueInv /\ [Next]_vars => QueueInv'
  <1> SUFFICES ASSUME TypeOK, CoreInv, QueueInv, [Next]_vars PROVE QueueInv'
    OBVIOUS
  <1> USE DEF QueueInv, SendOrder, TypeOK, PcOK, DataOK
  <1>1. ASSUME NEW r \in Runners, RunnerStep(r) PROVE QueueInv'
    <2>1. CASE RunFirst(r)
      BY <2>1 DEF RunFirst, CoreInv, RunInv
    <2>2. CASE RunAgain(r)
      BY <2>2 DEF RunAgain
    <2>3. CASE OnOpenReturns(r)
      BY <2>3 DEF OnOpenReturns
    <2>4. CASE OnOpenFails(r)
      BY <2>4 DEF OnOpenFails
    <2>5. CASE StartLoops(r)
      BY <2>5 DEF StartLoops, HeartRuns
    <2>6. CASE SkipLoops(r)
      BY <2>6 DEF SkipLoops
    <2>7. CASE WaitLoops(r)
      BY <2>7 DEF WaitLoops
    <2>8. CASE OnCloseReturns(r)
      BY <2>8 DEF OnCloseReturns
    <2> QED BY <1>1, <2>1, <2>2, <2>3, <2>4, <2>5, <2>6, <2>7,
               <2>8 DEF RunnerStep
  <1>2. ASSUME NEW s \in Senders, SenderStep(s) PROVE QueueInv'
    <2>1. CASE Send(s)
      BY <2>1 DEF Send, SendBegin
    <2>2. CASE TrySend(s)
      BY <2>2 DEF TrySend, SendBegin
    <2>3. CASE SendOK(s)
      BY <2>3, EnqueueKeepsOrder DEF SendOK
    <2>4. CASE SendAborted(s)
      BY <2>4 DEF SendAborted
    <2>5. CASE SendGivesUp(s)
      BY <2>5 DEF SendGivesUp
    <2>6. CASE TrySendFull(s)
      BY <2>6 DEF TrySendFull
    <2> QED BY <1>2, <2>1, <2>2, <2>3, <2>4, <2>5, <2>6 DEF SenderStep
  <1>3. CASE WriterStep
    <2>1. CASE WriterDone
      BY <2>1 DEF WriterDone
    <2>2. CASE WriterTake
      BY <2>2 DEF WriterTake
    <2>3. CASE WriterCheck
      BY <2>3 DEF WriterCheck
    <2>4. CASE WriteOK
      BY <2>4 DEF WriteOK
    <2>5. CASE WriteFails
      BY <2>5 DEF WriteFails
    <2> QED BY <1>3, <2>1, <2>2, <2>3, <2>4, <2>5 DEF WriterStep
  <1>4. CASE ReaderStep
    <2>1. CASE ReaderTop
      BY <2>1 DEF ReaderTop
    <2>2. ASSUME NEW kind \in Kinds, DecodeOK(kind) PROVE QueueInv'
      BY <2>2 DEF DecodeOK
    <2>3. CASE DecodeFails
      BY <2>3 DEF DecodeFails
    <2>4. CASE ReaderAdmit
      BY <2>4 DEF ReaderAdmit
    <2>5. CASE CallOnMessage
      BY <2>5 DEF CallOnMessage
    <2>6. CASE OnMessageReturns
      BY <2>6 DEF OnMessageReturns
    <2>7. CASE OnMessagePanics
      BY <2>7 DEF OnMessagePanics
    <2>8. CASE PongBegin
      BY <2>8 DEF PongBegin
    <2>9. CASE PongSent
      BY <2>9, EnqueueKeepsOrder DEF PongSent
    <2>10. CASE PongAborted
      BY <2>10 DEF PongAborted
    <2>11. CASE PongReceived
      BY <2>11 DEF PongReceived
    <2>12. CASE DeliverFails
      BY <2>12 DEF DeliverFails
    <2> QED BY <1>4, <2>1, <2>2, <2>3, <2>4, <2>5, <2>6, <2>7, <2>8, <2>9,
               <2>10, <2>11, <2>12 DEF ReaderStep
  <1>5. CASE HeartStep
    <2>1. CASE HeartDone
      BY <2>1 DEF HeartDone
    <2>2. CASE HeartTick
      BY <2>2 DEF HeartTick
    <2>3. CASE HeartExpired
      BY <2>3 DEF HeartExpired
    <2>4. CASE PingBegin
      BY <2>4 DEF PingBegin
    <2>5. CASE PingSent
      BY <2>5, EnqueueKeepsOrder DEF PingSent
    <2>6. CASE PingNotSent
      BY <2>6 DEF PingNotSent
    <2>7. CASE PingFails
      BY <2>7 DEF PingFails
    <2>8. CASE HeartNext
      BY <2>8 DEF HeartNext
    <2> QED BY <1>5, <2>1, <2>2, <2>3, <2>4, <2>5, <2>6, <2>7,
               <2>8 DEF HeartStep
  <1>6. CASE CloseStep
    <2>1. ASSUME NEW p \in Procs, CloseEnter(p) PROVE QueueInv'
      BY <2>1 DEF CloseEnter, CloseSites
    <2>2. CASE CloseTransport
      BY <2>2 DEF CloseTransport
    <2>3. ASSUME NEW p \in Procs, CloseReturn(p) PROVE QueueInv'
      BY <2>3 DEF CloseReturn, AfterClose, CloseSites
    <2>4. ASSUME NEW k \in Closers, Close(k) PROVE QueueInv'
      BY <2>4 DEF Close
    <2> QED BY <1>6, <2>1, <2>2, <2>3, <2>4 DEF CloseStep
  <1>7. CASE UNCHANGED vars
    BY <1>7 DEF vars
  <1> QED BY <1>1, <1>2, <1>3, <1>4, <1>5, <1>6, <1>7 DEF Next

-----------------------------------------------------------------------------
(* The theorems *)

\* The inductive invariant holds in every reachable state of a connection.
THEOREM Invariance == Spec => []Inv
  <1>1. Init => Inv
    BY TypeInit, CoreInit, LateInit, QueueInit DEF Inv
  <1>2. Inv /\ [Next]_vars => Inv'
    BY TypeNext, CoreNext, LateNext, QueueNext DEF Inv
  <1> QED BY <1>1, <1>2, PTL DEF Spec

\* Every variable keeps its type, every goroutine stays at the labels of its
\* own code and the send queue never holds more than SendQueueSize messages.
THEOREM TypeCorrect == Spec => []TypeOK
  <1>1. Inv => TypeOK
    BY DEF Inv
  <1> QED BY <1>1, Invariance, PTL

\* Run calls OnClose only when every loop has ended and closeWithCause is
\* through: the context is cancelled and the transport closed.
THEOREM OnCloseLast == Spec => []OnCloseIsLast
  <1>1. Inv => OnCloseIsLast
    BY DEF Inv, CoreInv, OnceInv, LoopInv, EndInv, OnCloseIsLast
  <1> QED BY <1>1, Invariance, PTL

\* The read loop delivers only while the one effective Run waits: OnOpen,
\* OnMessage and OnClose of a connection never run at the same time.
THEOREM Serial == Spec => []CallbacksSerial
  <1>1. Inv => CallbacksSerial
    BY DEF Inv, CoreInv, RunInv, LoopInv, InRun, LoopEnded, CallbacksSerial
  <1> QED BY <1>1, Invariance, PTL

\* A packet that is decoded after the cancellation is never delivered.
THEOREM LateDelivery == Spec => []NoLateDelivery
  <1>1. Inv => NoLateDelivery
    BY DEF Inv, LateInv, NoLateDelivery
  <1> QED BY <1>1, Invariance, PTL

\* The write loop completes at most one write after the cancellation.
THEOREM LateWrite == Spec => []AtMostOneLateWrite
  <1>1. Inv => AtMostOneLateWrite
    BY DEF Inv, LateInv, AtMostOneLateWrite
  <1> QED BY <1>1, Invariance, PTL

\* The transport gets the accepted messages in their order and without a
\* gap, from any number of concurrent senders.
THEOREM Ordered == Spec => []SendOrder
  <1>1. Inv => SendOrder
    BY DEF Inv, QueueInv
  <1> QED BY <1>1, Invariance, PTL

\* Close returns to no caller before the transport is closed, whoever does
\* the closing.
THEOREM CloseComplete == Spec => []CloseIsComplete
  <1>1. Inv => CloseIsComplete
    BY DEF Inv, CoreInv, OnceInv, EndInv, CloseIsComplete
  <1> QED BY <1>1, Invariance, PTL

\* The owner sees no change of phase when no runner enters or leaves OnClose.
LEMMA PhaseStays ==
  ASSUME started' = started,
         \A r \in Runners : /\ pc'[r] = "onClose" <=> pc[r] = "onClose"
                            /\ pc'[r] = "finished" <=> pc[r] = "finished"
  PROVE  phase' = phase
  BY Zenon DEF phase

\* A step of Conn is a step of the connection its owner sees, or changes
\* nothing the owner can see.
LEMMA StepRefines == Inv /\ [Next]_vars => [C!Next]_(C!connectionVars)
  <1> SUFFICES ASSUME Inv, [Next]_vars
               PROVE  [C!Next]_(C!connectionVars)
    OBVIOUS
  <1> USE DEF Inv, TypeOK, PcOK
  <1>1. ASSUME NEW r \in Runners, RunnerStep(r)
        PROVE  [C!Next]_(C!connectionVars)
    <2>1. CASE RunFirst(r)
      <3>1. phase = "new"
        BY <2>1 DEF RunFirst, phase
      <3>2. \A q \in Runners : pc'[q] \notin {"onClose", "finished"}
        BY <2>1 DEF RunFirst, CoreInv, RunInv, InRun
      <3>3. phase' = "running"
        BY <2>1, <3>2 DEF RunFirst, phase
      <3> QED BY <2>1, <3>1, <3>3 DEF RunFirst, C!Next, C!Run
    <2>2. CASE RunAgain(r)
      BY <2>2, PhaseStays DEF RunAgain, C!connectionVars
    <2>3. CASE OnOpenReturns(r)
      BY <2>3, PhaseStays DEF OnOpenReturns, C!connectionVars
    <2>4. CASE OnOpenFails(r)
      BY <2>4, PhaseStays DEF OnOpenFails, C!connectionVars
    <2>5. CASE StartLoops(r)
      BY <2>5, PhaseStays DEF StartLoops, HeartRuns, C!connectionVars
    <2>6. CASE SkipLoops(r)
      BY <2>6, PhaseStays DEF SkipLoops, C!connectionVars
    <2>7. CASE WaitLoops(r)
      BY <2>7, PhaseStays DEF WaitLoops, C!connectionVars
    <2>8. CASE OnCloseReturns(r)
      <3>1. started /\ \A q \in Runners : pc[q] # "finished"
        BY <2>8 DEF OnCloseReturns, CoreInv, RunInv, InRun
      <3>2. phase = "onClose"
        BY <2>8, <3>1 DEF OnCloseReturns, phase
      <3>3. phase' = "finished"
        BY <2>8, <3>1 DEF OnCloseReturns, phase
      <3> QED BY <2>8, <3>2, <3>3 DEF OnCloseReturns, C!Next, C!Finish
    <2> QED BY <1>1, <2>1, <2>2, <2>3, <2>4, <2>5, <2>6, <2>7,
               <2>8 DEF RunnerStep
  <1>2. ASSUME NEW s \in Senders, SenderStep(s)
        PROVE  [C!Next]_(C!connectionVars)
    <2>1. CASE Send(s)
      BY <2>1, PhaseStays DEF Send, SendBegin, C!connectionVars
    <2>2. CASE TrySend(s)
      BY <2>2, PhaseStays DEF TrySend, SendBegin, C!connectionVars
    <2>3. CASE SendOK(s)
      BY <2>3, PhaseStays DEF SendOK, Enqueue, C!connectionVars
    <2>4. CASE SendAborted(s)
      BY <2>4, PhaseStays DEF SendAborted, C!connectionVars
    <2>5. CASE SendGivesUp(s)
      BY <2>5, PhaseStays DEF SendGivesUp, C!connectionVars
    <2>6. CASE TrySendFull(s)
      BY <2>6, PhaseStays DEF TrySendFull, C!connectionVars
    <2> QED BY <1>2, <2>1, <2>2, <2>3, <2>4, <2>5, <2>6 DEF SenderStep
  <1>3. CASE WriterStep
    <2>1. CASE WriterDone
      BY <2>1, PhaseStays DEF WriterDone, C!connectionVars
    <2>2. CASE WriterTake
      BY <2>2, PhaseStays DEF WriterTake, C!connectionVars
    <2>3. CASE WriterCheck
      BY <2>3, PhaseStays DEF WriterCheck, C!connectionVars
    <2>4. CASE WriteOK
      BY <2>4, PhaseStays DEF WriteOK, C!connectionVars
    <2>5. CASE WriteFails
      BY <2>5, PhaseStays DEF WriteFails, C!connectionVars
    <2> QED BY <1>3, <2>1, <2>2, <2>3, <2>4, <2>5 DEF WriterStep
  <1>4. CASE ReaderStep
    <2>1. CASE ReaderTop
      BY <2>1, PhaseStays DEF ReaderTop, C!connectionVars
    <2>2. ASSUME NEW kind \in Kinds, DecodeOK(kind)
          PROVE  [C!Next]_(C!connectionVars)
      BY <2>2, PhaseStays DEF DecodeOK, C!connectionVars
    <2>3. CASE DecodeFails
      BY <2>3, PhaseStays DEF DecodeFails, C!connectionVars
    <2>4. CASE ReaderAdmit
      BY <2>4, PhaseStays DEF ReaderAdmit, C!connectionVars
    <2>5. CASE CallOnMessage
      BY <2>5, PhaseStays DEF CallOnMessage, C!connectionVars
    <2>6. CASE OnMessageReturns
      BY <2>6, PhaseStays DEF OnMessageReturns, C!connectionVars
    <2>7. CASE OnMessagePanics
      BY <2>7, PhaseStays DEF OnMessagePanics, C!connectionVars
    <2>8. CASE PongBegin
      BY <2>8, PhaseStays DEF PongBegin, C!connectionVars
    <2>9. CASE PongSent
      BY <2>9, PhaseStays DEF PongSent, Enqueue, C!connectionVars
    <2>10. CASE PongAborted
      BY <2>10, PhaseStays DEF PongAborted, C!connectionVars
    <2>11. CASE PongReceived
      BY <2>11, PhaseStays DEF PongReceived, C!connectionVars
    <2>12. CASE DeliverFails
      BY <2>12, PhaseStays DEF DeliverFails, C!connectionVars
    <2> QED BY <1>4, <2>1, <2>2, <2>3, <2>4, <2>5, <2>6, <2>7, <2>8, <2>9,
               <2>10, <2>11, <2>12 DEF ReaderStep
  <1>5. CASE HeartStep
    <2>1. CASE HeartDone
      BY <2>1, PhaseStays DEF HeartDone, C!connectionVars
    <2>2. CASE HeartTick
      BY <2>2, PhaseStays DEF HeartTick, C!connectionVars
    <2>3. CASE HeartExpired
      BY <2>3, PhaseStays DEF HeartExpired, C!connectionVars
    <2>4. CASE PingBegin
      BY <2>4, PhaseStays DEF PingBegin, C!connectionVars
    <2>5. CASE PingSent
      BY <2>5, PhaseStays DEF PingSent, Enqueue, C!connectionVars
    <2>6. CASE PingNotSent
      BY <2>6, PhaseStays DEF PingNotSent, C!connectionVars
    <2>7. CASE PingFails
      BY <2>7, PhaseStays DEF PingFails, C!connectionVars
    <2>8. CASE HeartNext
      BY <2>8, PhaseStays DEF HeartNext, C!connectionVars
    <2> QED BY <1>5, <2>1, <2>2, <2>3, <2>4, <2>5, <2>6, <2>7,
               <2>8 DEF HeartStep
  <1>6. CASE CloseStep
    <2>1. ASSUME NEW p \in Procs, CloseEnter(p)
          PROVE  [C!Next]_(C!connectionVars)
      <3>1. phase' = phase
        BY <2>1, PhaseStays DEF CloseEnter
      <3>2. cause = NoCause /\ want[p] \in Causes
        BY <2>1 DEF CloseEnter, CoreInv, OnceInv, WantInv, CloseOK
      <3> QED BY <2>1, <3>1, <3>2 DEF CloseEnter, C!Next, C!Cancel, C!NoCause
    <2>2. CASE CloseTransport
      <3>1. phase' = phase
        BY <2>2, PhaseStays DEF CloseTransport
      <3>2. cause # NoCause /\ rwc = "open"
        BY <2>2 DEF CloseTransport, CoreInv, OnceInv, CloseOK
      <3> QED BY <2>2, <3>1, <3>2 DEF CloseTransport, C!Next, C!CloseTransport,
                                   C!NoCause
    <2>3. ASSUME NEW p \in Procs, CloseReturn(p)
          PROVE  [C!Next]_(C!connectionVars)
      <3>1. CASE p \in Runners /\ pc[p] = "final"
        <4>1. started /\ \A q \in Runners : pc[q] \notin {"onClose", "finished"}
          BY <3>1 DEF CoreInv, RunInv, InRun
        <4>2. /\ pc'[p] = "onClose"
              /\ \A q \in Runners : pc'[q] # "finished"
              /\ UNCHANGED closeVars
          BY <2>3, <3>1, <4>1 DEF CloseReturn, AfterClose
        <4>3. phase = "running" /\ phase' = "onClose"
          BY <3>1, <4>1, <4>2 DEF phase
        <4>4. cause # NoCause /\ rwc = "closed"
          BY <2>3 DEF CloseReturn, CoreInv, OnceInv
        <4> QED BY <4>2, <4>3, <4>4 DEF C!Next, C!BeginOnClose, C!NoCause
      <3>2. CASE ~(p \in Runners /\ pc[p] = "final")
        <4>1. /\ \A q \in Runners :
                  /\ pc'[q] = "onClose" <=> pc[q] = "onClose"
                  /\ pc'[q] = "finished" <=> pc[q] = "finished"
              /\ UNCHANGED closeVars
          BY <2>3, <3>2 DEF CloseReturn, AfterClose, CloseSites,
                           RunnerLabels, SenderLabels, CloserLabels
        <4> QED BY <4>1, PhaseStays DEF C!connectionVars
      <3> QED BY <3>1, <3>2
    <2>4. ASSUME NEW k \in Closers, Close(k)
          PROVE  [C!Next]_(C!connectionVars)
      BY <2>4, PhaseStays DEF Close, C!connectionVars
    <2> QED BY <1>6, <2>1, <2>2, <2>3, <2>4 DEF CloseStep
  <1>7. CASE UNCHANGED vars
    BY <1>7, PhaseStays DEF vars, C!connectionVars
  <1> QED BY <1>1, <1>2, <1>3, <1>4, <1>5, <1>6, <1>7 DEF Next

\* Conn implements Connection: one effective Run, a first cause that is never
\* replaced, a transport closed after the cancellation, and OnClose once and
\* last.
THEOREM Refinement == Spec => ImplementsConnection
  <1>1. Init => C!Init
    BY DEF Init, C!Init, C!NoCause, phase
  <1>2. Inv /\ [Next]_vars => [C!Next]_(C!connectionVars)
    BY StepRefines
  <1> QED BY <1>1, <1>2, Invariance, PTL DEF Spec, C!Spec, ImplementsConnection

=============================================================================
