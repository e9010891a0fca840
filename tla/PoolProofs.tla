------------------------------ MODULE PoolProofs ------------------------------
(***************************************************************************)
(* Proofs about module Pool, for any number of workers, of submitters and  *)
(* of callers of Close, any queue size and any number of jobs.             *)
(*                                                                         *)
(* The inductive invariant is Inv, the type invariant with                 *)
(*   CallInv    what a call of Submit holds while it sends;                *)
(*   WorkerInv  what a worker holds at each of its steps;                  *)
(*   FlowInv    what was sent to a worker was executed, is being executed  *)
(*              or is queued, in this order;                               *)
(*   OrderInv   the jobs sent to a worker belong there, and those of one   *)
(*              caller were sent in the order of their numbers;            *)
(*   CloseInv   nobody submits once the pool is closed.                    *)
(***************************************************************************)
EXTENDS Pool, SequenceTheorems, TLAPS

USE DEF Callers, Goto, submitVars, workerVars
USE PoolAssumption

\* The job a caller sends, and the worker it goes to.
JobOf(s) == sending[s][1]
TargetOf(s) == sending[s][2]

\* A caller that sends, sends the job it counted last to a worker of its choice.
CallInv ==
  /\ \A s \in Callers :
       /\ pc[s] \in {"idle", "send"}
       /\ pc[s] = "send" =>
            /\ JobOf(s) \in Jobs /\ TargetOf(s) \in Workers
            /\ JobOf(s).by = s /\ JobOf(s).n = count[s]
            /\ TargetOf(s) \in Route(JobOf(s).WorkerID)
  /\ \A k \in Closers : pc[k] \in {"idle", "stopping", "closed", "repeated"}

\* A worker has a job when it executes one, and leaves an empty queue.
WorkerInv ==
  \A w \in Workers :
    /\ job[w] = <<>> <=> wpc[w] \notin {"execute", "executeLast"}
    /\ wpc[w] = "exited" => jobChan[w] = <<>>
    /\ wpc[w] \in {"drain", "executeLast", "exited"} => status = "closed"

\* Nothing is lost, doubled or overtaken between Submit and the handler.
FlowInv == \A w \in Workers : sent[w] = (executed[w] \o job[w]) \o jobChan[w]

\* A job is sent where its WorkerID says, and after the earlier jobs of its
\* caller.
OrderInv ==
  \A w \in Workers : \A j \in 1..Len(sent[w]) :
    /\ w \in Route(sent[w][j].WorkerID)
    /\ \A s \in Callers : sent[w][j].by = s =>
         sent[w][j].n <= count[s] /\ (pc[s] = "send" => sent[w][j].n < count[s])
    /\ \A i \in 1..Len(sent[w]) :
         i < j /\ sent[w][i].by = sent[w][j].by => sent[w][i].n < sent[w][j].n

\* No call of Submit is under way in a closed pool, and Close returns when
\* every worker has.
CloseInv ==
  /\ status = "closed" => \A s \in Callers : pc[s] = "idle"
  /\ \A k \in Closers :
       /\ pc[k] \in {"stopping", "closed"} => status = "closed"
       /\ pc[k] = "closed" => \A w \in Workers : wpc[w] = "exited"

Inv == TypeOK /\ CallInv /\ WorkerInv /\ FlowInv /\ OrderInv /\ CloseInv

-----------------------------------------------------------------------------
(* Jobs and sequences of them *)

\* The fields of a job.
LEMMA JobFields ==
    ASSUME NEW j \in Jobs
    PROVE  j.by \in Callers /\ j.n \in Nat /\ j.n >= 1 /\ j.WorkerID \in Int
  <1>1. PICK s \in Callers : j \in [by : {s}, n : 1..MayCall(s), WorkerID : WorkerIDs]
    BY DEF Jobs
  <1>2. MayCall(s) \in Nat
    BY DEF MayCall
  <1>3. j.by = s /\ j.n \in 1..MayCall(s) /\ j.WorkerID \in WorkerIDs
    BY <1>1
  <1>4. j.n \in Nat /\ j.n >= 1
    BY <1>2, <1>3
  <1>5. j.WorkerID \in Int
    BY <1>3
  <1>6. QED
    BY <1>3, <1>4, <1>5

\* The bounds on the number of jobs.
LEMMA MayCallNat == \A s \in Callers : MayCall(s) \in Nat
  BY DEF MayCall

\* Whoever calls Submit has a number left for its job.
LEMMA MayCallMore ==
    ASSUME TypeOK, NEW s \in Callers, Calls(s)
    PROVE  count[s] + 1 \in 1..MayCall(s)
  <1>1. count[s] \in Nat /\ MayCall(s) \in Nat
    BY MayCallNat DEF TypeOK
  <1>2. count[s] < MayCall(s)
    BY Zenon DEF Calls
  <1>3. QED
    BY ONLY <1>1, <1>2

\* The job a call of Submit makes.
LEMMA NewJob ==
    ASSUME NEW s \in Callers, NEW n \in 1..MayCall(s), NEW i \in WorkerIDs
    PROVE  [by |-> s, n |-> n, WorkerID |-> i] \in Jobs
  BY DEF Jobs

\* A job put at the end of the queue is at the end of all that was sent.
LEMMA FlowAppend ==
    ASSUME NEW a \in Seq(Jobs), NEW b \in Seq(Jobs), NEW c \in Seq(Jobs),
           NEW x \in Jobs
    PROVE  Append((a \o b) \o c, x) = (a \o b) \o Append(c, x)
  <1> DEFINE ab == a \o b
  <1>1. ab \in Seq(Jobs)
    BY ConcatProperties
  <1> HIDE DEF ab
  <1>2. ab \o c \in Seq(Jobs) /\ <<x>> \in Seq(Jobs)
    BY <1>1, ConcatProperties
  <1>3. Append(ab \o c, x) = (ab \o c) \o <<x>>
    <2> DEFINE d == ab \o c
    <2>1. d \in Seq(Jobs)
      BY <1>2
    <2> HIDE DEF d
    <2>2. Append(d, x) = d \o <<x>>
      BY ONLY <2>1, x \in Jobs, AppendIsConcat
    <2>3. QED
      BY <2>2 DEF d
  <1>4. (ab \o c) \o <<x>> = ab \o (c \o <<x>>)
    BY <1>1, <1>2, ConcatAssociative, SMTT(60)
  <1>5. c \o <<x>> = Append(c, x)
    BY AppendIsConcat
  <1>6. QED
    BY <1>3, <1>4, <1>5, Zenon DEF ab

\* The head of the queue becomes the job of the worker.
LEMMA FlowReceive ==
    ASSUME NEW S, NEW a \in Seq(S), NEW c \in Seq(S), c # <<>>
    PROVE  (a \o <<>>) \o c = (a \o <<Head(c)>>) \o Tail(c)
  <1>1. a \o <<>> = a
    BY ConcatEmptySeq
  <1>2. Head(c) \in S /\ Tail(c) \in Seq(S) /\ <<Head(c)>> \in Seq(S)
    BY HeadTailProperties
  <1>3. c = <<Head(c)>> \o Tail(c)
    BY <1>2, SMTT(30)
  <1>4. (a \o <<Head(c)>>) \o Tail(c) = a \o (<<Head(c)>> \o Tail(c))
    BY <1>2, ConcatAssociative
  <1>5. QED
    BY <1>1, <1>3, <1>4

-----------------------------------------------------------------------------
(* Each part of the invariant is preserved *)

\* No step gives a variable a value of another type.
LEMMA TypeNext ==
    TypeOK /\ CallInv /\ [Next]_vars => TypeOK'
  <1> SUFFICES ASSUME TypeOK, CallInv, [Next]_vars
               PROVE  TypeOK'
    OBVIOUS
  <1> USE DEF TypeOK, CallInv, JobOf, TargetOf
  <1>1. ASSUME NEW s \in Callers, NEW i \in WorkerIDs, NEW w \in Workers, Submit(s, i, w)
         PROVE  TypeOK'
    <2>1. count[s] + 1 \in 1..MayCall(s)
      BY <1>1, MayCallMore DEF Submit
    <2>2. [by |-> s, n |-> count[s] + 1, WorkerID |-> i] \in Jobs
      BY <2>1, NewJob
    <2>3. sending' \in [Callers -> {<<>>} \cup (Jobs \X Workers)]
      BY <1>1, <2>2 DEF Submit
    <2>4. /\ count' \in [Callers -> Nat]
          /\ \A r \in Callers : count'[r] <= MayCall(r)
      <3>1. count' = [count EXCEPT ![s] = count[s] + 1]
        BY <1>1 DEF Submit
      <3>2. QED
        BY <2>1, <3>1, MayCallNat
    <2>5. QED
      BY <1>1, <2>3, <2>4 DEF Submit
  <1>2. ASSUME NEW s \in Callers, SubmitClosed(s) PROVE TypeOK'
    <2>1. count[s] + 1 \in 1..MayCall(s)
      BY <1>2, MayCallNat DEF SubmitClosed, Calls
    <2>2. /\ count' \in [Callers -> Nat]
          /\ \A r \in Callers : count'[r] <= MayCall(r)
      BY <1>2, <2>1, MayCallNat DEF SubmitClosed
    <2>3. QED
      BY <1>2, <2>2 DEF SubmitClosed
  <1>3. ASSUME NEW s \in Callers, NEW w \in Workers, SendBuffered(s, w)
         PROVE  TypeOK'
    <2>1. JobOf(s) \in Jobs /\ TargetOf(s) = w
      BY <1>3 DEF SendBuffered, Sent
    <2>2. sent' \in [Workers -> Seq(Jobs)]
      BY <1>3, <2>1, AppendProperties DEF SendBuffered, Sent
    <2>3. sending' \in [Callers -> {<<>>} \cup (Jobs \X Workers)]
      BY <1>3 DEF SendBuffered, Sent
    <2>4. job' \in [Workers -> Seq(Jobs)] /\ \A v \in Workers : Len(job'[v]) <= 1
      BY <1>3, <2>1 DEF SendBuffered
    <2>5. /\ jobChan' \in [Workers -> Seq(Jobs)]
          /\ \A v \in Workers : Len(jobChan'[v]) <= JobQueueSize
      BY <1>3, <2>1, AppendProperties DEF SendBuffered
    <2>6. QED
      BY <1>3, <2>2, <2>3, <2>4, <2>5 DEF SendBuffered, Sent
  <1>4. ASSUME NEW s \in Callers, NEW w \in Workers, SendDirect(s, w)
         PROVE  TypeOK'
    <2>1. JobOf(s) \in Jobs /\ TargetOf(s) = w
      BY <1>4 DEF SendDirect, Sent
    <2>2. sent' \in [Workers -> Seq(Jobs)]
      BY <1>4, <2>1, AppendProperties DEF SendDirect, Sent
    <2>3. sending' \in [Callers -> {<<>>} \cup (Jobs \X Workers)]
      BY <1>4 DEF SendDirect, Sent
    <2>4. job' \in [Workers -> Seq(Jobs)] /\ \A v \in Workers : Len(job'[v]) <= 1
      BY <1>4, <2>1 DEF SendDirect
    <2>5. /\ jobChan' \in [Workers -> Seq(Jobs)]
          /\ \A v \in Workers : Len(jobChan'[v]) <= JobQueueSize
      BY <1>4, <2>1, AppendProperties DEF SendDirect
    <2>6. QED
      BY <1>4, <2>2, <2>3, <2>4, <2>5 DEF SendDirect, Sent
  <1>5. ASSUME NEW w \in Workers, Receive(w) PROVE TypeOK'
    <2>1. Head(jobChan[w]) \in Jobs /\ Tail(jobChan[w]) \in Seq(Jobs)
          /\ Len(Tail(jobChan[w])) <= JobQueueSize
      BY <1>5, HeadTailProperties DEF Receive
    <2>2. /\ job' \in [Workers -> Seq(Jobs)] /\ \A v \in Workers : Len(job'[v]) <= 1
          /\ jobChan' \in [Workers -> Seq(Jobs)]
          /\ \A v \in Workers : Len(jobChan'[v]) <= JobQueueSize
      BY <1>5, <2>1 DEF Receive
    <2>3. QED
      BY <1>5, <2>2 DEF Receive
  <1>6. ASSUME NEW w \in Workers, Executed(w) PROVE TypeOK'
    BY <1>6 DEF Executed
  <1>7. ASSUME NEW w \in Workers, Drained(w) PROVE TypeOK'
    BY <1>7 DEF Drained
  <1>8. ASSUME NEW k \in Closers, CloseFirst(k) PROVE TypeOK'
    BY <1>8 DEF CloseFirst
  <1>9. ASSUME NEW k \in Closers, CloseAgain(k) PROVE TypeOK'
    BY <1>9 DEF CloseAgain
  <1>10. ASSUME NEW k \in Closers, Stop(k) PROVE TypeOK'
    <2>1. next' \in 0..Capacity
      BY <1>10 DEF Stop, Workers
    <2>2. QED
      BY <1>10, <2>1 DEF Stop
  <1>11. ASSUME NEW k \in Closers, CloseReturns(k) PROVE TypeOK'
    BY <1>11 DEF CloseReturns
  <1>12. CASE UNCHANGED vars
    BY <1>12 DEF vars
  <1>13. QED
    BY <1>1, <1>2, <1>3, <1>4, <1>5, <1>6, <1>7, <1>8, <1>9, <1>10, <1>11,
       <1>12
    DEF Next, SendStep, WorkerStep, CloseStep

\* A call of Submit holds its job until it is sent.
LEMMA CallNext ==
    TypeOK /\ CallInv /\ [Next]_vars => CallInv'
  <1> SUFFICES ASSUME TypeOK, CallInv, [Next]_vars
               PROVE  CallInv'
    OBVIOUS
  <1> USE DEF TypeOK, CallInv, JobOf, TargetOf
  <1>1. ASSUME NEW s \in Callers, NEW i \in WorkerIDs, NEW w \in Workers, Submit(s, i, w)
         PROVE  CallInv'
    <2>1. count[s] + 1 \in 1..MayCall(s)
      BY <1>1, MayCallMore DEF Submit
    <2> DEFINE new == [by |-> s, n |-> count[s] + 1, WorkerID |-> i]
    <2>2. new \in Jobs /\ new.by = s /\ new.n = count[s] + 1 /\ new.WorkerID = i
      BY <2>1, NewJob
    <2> HIDE DEF new
    <2>3. /\ sending' = [sending EXCEPT ![s] = <<new, w>>] /\ w \in Route(i)
          /\ count' = [count EXCEPT ![s] = @ + 1]
          /\ pc' = [pc EXCEPT ![s] = "send"]
      BY <1>1 DEF Submit, new
    <2>4. sending'[s][1] = new /\ sending'[s][2] = w
      BY <2>3
    <2>5. \A r \in Callers \ {s} :
            UNCHANGED <<sending[r], count[r], pc[r]>>
      BY <2>3
    <2>6. \A k \in Closers : pc'[k] = pc[k]
      BY <2>3
    <2>7. pc'[s] = "send" /\ count'[s] = count[s] + 1
      BY <2>3
    <2>8. \A r \in Callers : pc'[r] = "send" =>
            /\ JobOf(r)' \in Jobs /\ TargetOf(r)' \in Workers
            /\ JobOf(r)'.by = r /\ JobOf(r)'.n = count'[r]
            /\ TargetOf(r)' \in Route(JobOf(r)'.WorkerID)
      <3>1. ASSUME NEW r \in Callers \ {s}, pc'[r] = "send"
            PROVE  /\ JobOf(r)' \in Jobs /\ TargetOf(r)' \in Workers
                   /\ JobOf(r)'.by = r /\ JobOf(r)'.n = count'[r]
                   /\ TargetOf(r)' \in Route(JobOf(r)'.WorkerID)
        <4>1. /\ JobOf(r)' = JobOf(r) /\ TargetOf(r)' = TargetOf(r)
              /\ count'[r] = count[r] /\ pc[r] = "send"
          BY <2>5, <3>1
        <4>2. r \in Callers
          OBVIOUS
        <4> HIDE DEF JobOf, TargetOf
        <4>3. QED
          BY <4>1, <4>2
      <3>2. /\ JobOf(s)' \in Jobs /\ TargetOf(s)' \in Workers
            /\ JobOf(s)'.by = s /\ JobOf(s)'.n = count'[s]
            /\ TargetOf(s)' \in Route(JobOf(s)'.WorkerID)
        <4>1. JobOf(s)' = new /\ TargetOf(s)' = w
          BY <2>4
        <4> HIDE DEF JobOf, TargetOf
        <4>2. QED
          BY <2>2, <2>3, <2>7, <4>1
      <3>3. QED
        BY <3>1, <3>2
    <2>9. \A r \in Callers : pc'[r] \in {"idle", "send"}
      BY <2>5, <2>7
    <2>10. QED
      BY <2>6, <2>8, <2>9
  <1>2. ASSUME NEW s \in Callers, SubmitClosed(s) PROVE CallInv'
    BY <1>2 DEF SubmitClosed, Calls
  <1>3. ASSUME NEW s \in Callers, NEW w \in Workers, SendBuffered(s, w)
         PROVE  CallInv'
    BY <1>3 DEF SendBuffered, Sent
  <1>4. ASSUME NEW s \in Callers, NEW w \in Workers, SendDirect(s, w)
         PROVE  CallInv'
    BY <1>4 DEF SendDirect, Sent
  <1>5. ASSUME NEW w \in Workers, Receive(w) PROVE CallInv'
    BY <1>5 DEF Receive
  <1>6. ASSUME NEW w \in Workers, Executed(w) PROVE CallInv'
    BY <1>6 DEF Executed
  <1>7. ASSUME NEW w \in Workers, Drained(w) PROVE CallInv'
    BY <1>7 DEF Drained
  <1>8. ASSUME NEW k \in Closers, CloseFirst(k) PROVE CallInv'
    BY <1>8 DEF CloseFirst
  <1>9. ASSUME NEW k \in Closers, CloseAgain(k) PROVE CallInv'
    BY <1>9 DEF CloseAgain
  <1>10. ASSUME NEW k \in Closers, Stop(k) PROVE CallInv'
    BY <1>10 DEF Stop
  <1>11. ASSUME NEW k \in Closers, CloseReturns(k) PROVE CallInv'
    BY <1>11 DEF CloseReturns
  <1>12. CASE UNCHANGED vars
    BY <1>12 DEF vars
  <1>13. QED
    BY <1>1, <1>2, <1>3, <1>4, <1>5, <1>6, <1>7, <1>8, <1>9, <1>10, <1>11,
       <1>12
    DEF Next, SendStep, WorkerStep, CloseStep

\* A worker executes what it has received, and empties its queue last.
LEMMA WorkerNext ==
    TypeOK /\ CallInv /\ WorkerInv /\ CloseInv /\ [Next]_vars => WorkerInv'
  <1> SUFFICES ASSUME TypeOK, CallInv, WorkerInv, CloseInv, [Next]_vars
               PROVE  WorkerInv'
    OBVIOUS
  <1> USE DEF TypeOK, CallInv, WorkerInv, CloseInv
  <1>1. ASSUME NEW s \in Callers, NEW i \in WorkerIDs, NEW w \in Workers, Submit(s, i, w)
         PROVE  WorkerInv'
    BY <1>1 DEF Submit
  <1>2. ASSUME NEW s \in Callers, SubmitClosed(s) PROVE WorkerInv'
    BY <1>2 DEF SubmitClosed
  <1>3. ASSUME NEW s \in Callers, NEW w \in Workers, SendBuffered(s, w)
         PROVE  WorkerInv'
    BY <1>3 DEF SendBuffered, Sent
  <1>4. ASSUME NEW s \in Callers, NEW w \in Workers, SendDirect(s, w)
         PROVE  WorkerInv'
    BY <1>4 DEF SendDirect, Sent
  <1>5. ASSUME NEW w \in Workers, Receive(w) PROVE WorkerInv'
    BY <1>5 DEF Receive
  <1>6. ASSUME NEW w \in Workers, Executed(w) PROVE WorkerInv'
    BY <1>6 DEF Executed
  <1>7. ASSUME NEW w \in Workers, Drained(w) PROVE WorkerInv'
    BY <1>7 DEF Drained
  <1>8. ASSUME NEW k \in Closers, CloseFirst(k) PROVE WorkerInv'
    BY <1>8 DEF CloseFirst
  <1>9. ASSUME NEW k \in Closers, CloseAgain(k) PROVE WorkerInv'
    BY <1>9 DEF CloseAgain
  <1>10. ASSUME NEW k \in Closers, Stop(k) PROVE WorkerInv'
    BY <1>10 DEF Stop
  <1>11. ASSUME NEW k \in Closers, CloseReturns(k) PROVE WorkerInv'
    BY <1>11 DEF CloseReturns
  <1>12. CASE UNCHANGED vars
    BY <1>12 DEF vars
  <1>13. QED
    BY <1>1, <1>2, <1>3, <1>4, <1>5, <1>6, <1>7, <1>8, <1>9, <1>10, <1>11,
       <1>12
    DEF Next, SendStep, WorkerStep, CloseStep

\* Nobody submits to a closed pool.
LEMMA CloseNext ==
    TypeOK /\ CallInv /\ WorkerInv /\ CloseInv /\ [Next]_vars => CloseInv'
  <1> SUFFICES ASSUME TypeOK, CallInv, WorkerInv, CloseInv, [Next]_vars
               PROVE  CloseInv'
    OBVIOUS
  <1> USE DEF TypeOK, CallInv, WorkerInv, CloseInv
  <1>1. ASSUME NEW s \in Callers, NEW i \in WorkerIDs, NEW w \in Workers, Submit(s, i, w)
         PROVE  CloseInv'
    BY <1>1 DEF Submit
  <1>2. ASSUME NEW s \in Callers, SubmitClosed(s) PROVE CloseInv'
    BY <1>2 DEF SubmitClosed
  <1>3. ASSUME NEW s \in Callers, NEW w \in Workers, SendBuffered(s, w)
         PROVE  CloseInv'
    BY <1>3 DEF SendBuffered, Sent
  <1>4. ASSUME NEW s \in Callers, NEW w \in Workers, SendDirect(s, w)
         PROVE  CloseInv'
    BY <1>4 DEF SendDirect, Sent
  <1>5. ASSUME NEW w \in Workers, Receive(w) PROVE CloseInv'
    BY <1>5 DEF Receive
  <1>6. ASSUME NEW w \in Workers, Executed(w) PROVE CloseInv'
    BY <1>6 DEF Executed
  <1>7. ASSUME NEW w \in Workers, Drained(w) PROVE CloseInv'
    BY <1>7 DEF Drained
  <1>8. ASSUME NEW k \in Closers, CloseFirst(k) PROVE CloseInv'
    BY <1>8 DEF CloseFirst
  <1>9. ASSUME NEW k \in Closers, CloseAgain(k) PROVE CloseInv'
    BY <1>9 DEF CloseAgain
  <1>10. ASSUME NEW k \in Closers, Stop(k) PROVE CloseInv'
    BY <1>10 DEF Stop
  <1>11. ASSUME NEW k \in Closers, CloseReturns(k) PROVE CloseInv'
    BY <1>11 DEF CloseReturns
  <1>12. CASE UNCHANGED vars
    BY <1>12 DEF vars
  <1>13. QED
    BY <1>1, <1>2, <1>3, <1>4, <1>5, <1>6, <1>7, <1>8, <1>9, <1>10, <1>11,
       <1>12
    DEF Next, SendStep, WorkerStep, CloseStep

\* A job moves from the queue to the worker to what was executed.
LEMMA FlowNext ==
    TypeOK /\ CallInv /\ WorkerInv /\ FlowInv /\ [Next]_vars => FlowInv'
  <1> SUFFICES ASSUME TypeOK, CallInv, WorkerInv, FlowInv, [Next]_vars
               PROVE  FlowInv'
    OBVIOUS
  <1> USE DEF TypeOK, FlowInv
  <1>1. ASSUME NEW s \in Callers, NEW i \in WorkerIDs, NEW w \in Workers, Submit(s, i, w)
         PROVE  FlowInv'
    BY <1>1 DEF Submit
  <1>2. ASSUME NEW s \in Callers, SubmitClosed(s) PROVE FlowInv'
    BY <1>2 DEF SubmitClosed
  <1>3. ASSUME NEW s \in Callers, NEW w \in Workers, SendBuffered(s, w)
         PROVE  FlowInv'
    <2> DEFINE j == JobOf(s)
    <2>1. /\ sent' = [sent EXCEPT ![w] = Append(@, j)]
          /\ jobChan' = [jobChan EXCEPT ![w] = Append(@, j)]
          /\ executed' = executed /\ job' = job
      BY <1>3 DEF SendBuffered, Sent, JobOf
    <2>2. j \in Jobs
      BY <1>3 DEF SendBuffered, Sent, CallInv
    <2> HIDE DEF j
    <2>3. /\ executed[w] \in Seq(Jobs) /\ job[w] \in Seq(Jobs)
          /\ jobChan[w] \in Seq(Jobs)
      OBVIOUS
    <2>4. Append((executed[w] \o job[w]) \o jobChan[w], j)
            = (executed[w] \o job[w]) \o Append(jobChan[w], j)
      <3> DEFINE a == executed[w]
                 b == job[w]
                 c == jobChan[w]
      <3>1. a \in Seq(Jobs) /\ b \in Seq(Jobs) /\ c \in Seq(Jobs)
        BY <2>3
      <3> HIDE DEF a, b, c
      <3>2. Append((a \o b) \o c, j) = (a \o b) \o Append(c, j)
        BY ONLY <2>2, <3>1, FlowAppend, Zenon
      <3>3. QED
        BY <3>2 DEF a, b, c
    <2>5. QED
      BY <2>1, <2>4
  <1>4. ASSUME NEW s \in Callers, NEW w \in Workers, SendDirect(s, w)
         PROVE  FlowInv'
    <2> DEFINE j == JobOf(s)
    <2>1. /\ sent' = [sent EXCEPT ![w] = Append(@, j)]
          /\ job' = [job EXCEPT ![w] = <<j>>]
          /\ executed' = executed /\ jobChan' = jobChan /\ jobChan[w] = <<>>
      BY <1>4 DEF SendDirect, Sent, JobOf
    <2>2. j \in Jobs /\ job[w] = <<>>
      BY <1>4 DEF SendDirect, Sent, CallInv, WorkerInv
    <2> HIDE DEF j
    <2>3. sent[w] = executed[w]
      <3>1. sent[w] = (executed[w] \o <<>>) \o <<>> /\ executed[w] \in Seq(Jobs)
        BY <2>1, <2>2
      <3>2. QED
        BY ONLY <3>1, ConcatEmptySeq
    <2>4. Append(executed[w], j) = (executed[w] \o <<j>>) \o <<>>
      <3>1. Append(executed[w], j) = executed[w] \o <<j>>
        BY <2>2, AppendIsConcat
      <3>2. executed[w] \o <<j>> \in Seq(Jobs)
        BY <2>2, ConcatProperties
      <3>3. QED
        BY ONLY <3>1, <3>2, ConcatEmptySeq
    <2>5. QED
      BY <2>1, <2>3, <2>4
  <1>5. ASSUME NEW w \in Workers, Receive(w) PROVE FlowInv'
    <2>1. /\ job' = [job EXCEPT ![w] = <<Head(jobChan[w])>>]
          /\ jobChan' = [jobChan EXCEPT ![w] = Tail(@)]
          /\ executed' = executed /\ sent' = sent /\ jobChan[w] # <<>>
      BY <1>5 DEF Receive
    <2>2. job[w] = <<>>
      BY <1>5 DEF Receive, WorkerInv
    <2>3. executed[w] \in Seq(Jobs) /\ jobChan[w] \in Seq(Jobs)
      OBVIOUS
    <2>4. (executed[w] \o <<>>) \o jobChan[w]
            = (executed[w] \o <<Head(jobChan[w])>>) \o Tail(jobChan[w])
      BY ONLY <2>1, <2>3, FlowReceive
    <2>5. QED
      BY <2>1, <2>2, <2>4
  <1>6. ASSUME NEW w \in Workers, Executed(w) PROVE FlowInv'
    <2>1. /\ job' = [job EXCEPT ![w] = <<>>]
          /\ executed' = [executed EXCEPT ![w] = @ \o job[w]]
          /\ jobChan' = jobChan /\ sent' = sent
      BY <1>6 DEF Executed
    <2>2. executed[w] \o job[w] \in Seq(Jobs)
      BY ConcatProperties
    <2>3. (executed[w] \o job[w]) \o <<>> = executed[w] \o job[w]
      BY <2>2, ConcatEmptySeq
    <2>4. QED
      BY <2>1, <2>3
  <1>7. ASSUME NEW w \in Workers, Drained(w) PROVE FlowInv'
    BY <1>7 DEF Drained
  <1>8. ASSUME NEW k \in Closers, CloseFirst(k) PROVE FlowInv'
    BY <1>8 DEF CloseFirst
  <1>9. ASSUME NEW k \in Closers, CloseAgain(k) PROVE FlowInv'
    BY <1>9 DEF CloseAgain
  <1>10. ASSUME NEW k \in Closers, Stop(k) PROVE FlowInv'
    BY <1>10 DEF Stop
  <1>11. ASSUME NEW k \in Closers, CloseReturns(k) PROVE FlowInv'
    BY <1>11 DEF CloseReturns
  <1>12. CASE UNCHANGED vars
    BY <1>12 DEF vars
  <1>13. QED
    BY <1>1, <1>2, <1>3, <1>4, <1>5, <1>6, <1>7, <1>8, <1>9, <1>10, <1>11,
       <1>12
    DEF Next, SendStep, WorkerStep, CloseStep

\* What was sent are jobs, and their numbers can be compared.
LEMMA SentJobs ==
    ASSUME TypeOK, NEW w \in Workers, NEW j \in 1..Len(sent[w])
    PROVE  /\ sent[w][j] \in Jobs
           /\ sent[w][j].by \in Callers
           /\ sent[w][j].n \in Nat
  <1>1. sent[w] \in Seq(Jobs)
    BY DEF TypeOK
  <1>2. sent[w][j] \in Jobs
    BY <1>1, ElementOfSeq
  <1>3. QED
    BY <1>2, JobFields

\* A job that is sent is sent after the earlier ones of its caller.
LEMMA OrderSent ==
    ASSUME TypeOK, CallInv, OrderInv, NEW s \in Callers, NEW w \in Workers,
           Sent(s, w), UNCHANGED count
    PROVE  OrderInv'
  <1> DEFINE new == JobOf(s)
  <1>1. /\ new \in Jobs /\ new.by = s /\ new.n = count[s]
        /\ w \in Route(new.WorkerID) /\ pc[s] = "send"
    BY DEF Sent, CallInv, TargetOf
  <1>2. sent' = [sent EXCEPT ![w] = Append(@, new)] /\ sent[w] \in Seq(Jobs)
    BY DEF Sent, JobOf, TypeOK
  <1>3. pc' = [pc EXCEPT ![s] = "idle"]
    BY DEF Sent
  <1> HIDE DEF new
  <1> SUFFICES ASSUME NEW v \in Workers, NEW j \in 1..Len(sent'[v])
               PROVE  /\ v \in Route(sent'[v][j].WorkerID)
                      /\ \A r \in Callers : sent'[v][j].by = r =>
                           /\ sent'[v][j].n <= count[r]
                           /\ pc'[r] = "send" => sent'[v][j].n < count[r]
                      /\ \A i \in 1..Len(sent'[v]) :
                           i < j /\ sent'[v][i].by = sent'[v][j].by
                             => sent'[v][i].n < sent'[v][j].n
    BY DEF OrderInv
  <1>4. CASE v # w
    <2>1. sent'[v] = sent[v]
      BY <1>2, <1>4 DEF TypeOK
    <2>2. QED
      BY <1>3, <2>1 DEF OrderInv, TypeOK
  <1>5. CASE v = w
    <2>1. /\ Len(sent'[w]) = Len(sent[w]) + 1 /\ Len(sent[w]) \in Nat
          /\ \A i \in 1..Len(sent[w]) : sent'[w][i] = sent[w][i]
          /\ sent'[w][Len(sent[w]) + 1] = new
      <3>1. sent'[w] = Append(sent[w], new)
        BY <1>2 DEF TypeOK
      <3>2. QED
        BY <1>1, <1>2, <3>1, AppendProperties, LenProperties
    <2>2. CASE j \in 1..Len(sent[w])
      <3>1. \A i \in 1..Len(sent'[w]) : i < j => i \in 1..Len(sent[w])
        BY <2>1, <2>2
      <3>2. QED
        BY <1>3, <1>5, <2>1, <2>2, <3>1 DEF OrderInv, TypeOK
    <2>3. CASE j = Len(sent[w]) + 1
      <3>1. sent'[v][j] = new /\ \A i \in 1..Len(sent'[w]) : i < j =>
                                   i \in 1..Len(sent[w])
        BY <1>5, <2>1, <2>3
      <3>2. \A i \in 1..Len(sent[w]) :
              sent[w][i].by = s => sent[w][i].n < count[s]
        BY <1>1 DEF OrderInv
      <3>3. count[s] \in Nat /\ pc'[s] = "idle"
        BY <1>3 DEF TypeOK
      <3>4. v \in Route(sent'[v][j].WorkerID)
        BY <1>1, <1>5, <3>1
      <3>5. \A r \in Callers : sent'[v][j].by = r =>
              /\ sent'[v][j].n <= count[r]
              /\ pc'[r] = "send" => sent'[v][j].n < count[r]
        BY <1>1, <3>1, <3>3
      <3>6. ASSUME NEW i \in 1..Len(sent'[v]), i < j,
                   sent'[v][i].by = sent'[v][j].by
            PROVE  sent'[v][i].n < sent'[v][j].n
        <4>1. i \in 1..Len(sent[w]) /\ sent'[v][i] = sent[w][i]
          BY <1>5, <2>1, <3>1, <3>6
        <4>2. QED
          BY <1>1, <3>1, <3>2, <3>6, <4>1
      <3>7. QED
        BY <3>4, <3>5, <3>6
    <2>4. QED
      BY <1>5, <2>1, <2>2, <2>3
  <1>6. QED
    BY <1>4, <1>5

\* The numbers of the jobs of a caller grow along every queue.
LEMMA OrderNext ==
    TypeOK /\ CallInv /\ OrderInv /\ [Next]_vars => OrderInv'
  <1> SUFFICES ASSUME TypeOK, CallInv, OrderInv, [Next]_vars
               PROVE  OrderInv'
    OBVIOUS
  <1> USE DEF TypeOK, OrderInv
  <1>1. ASSUME NEW s \in Callers, NEW i \in WorkerIDs, NEW w \in Workers, Submit(s, i, w)
         PROVE  OrderInv'
    <2>1. \A r \in Callers : count[r] <= count'[r] /\ count'[r] \in Nat
      <3>1. count' = [count EXCEPT ![s] = @ + 1] /\ count \in [Callers -> Nat]
        BY <1>1 DEF Submit
      <3>2. QED
        BY ONLY <3>1
    <2>2. sent' = sent /\ count'[s] = count[s] + 1
      BY <1>1 DEF Submit
    <2>3. \A r \in Callers \ {s} : pc'[r] = pc[r] /\ count'[r] = count[r]
      BY <1>1 DEF Submit
    <2>4. ASSUME NEW v \in Workers, NEW j \in 1..Len(sent[v]), NEW r \in Callers,
                 sent[v][j].by = r
          PROVE  /\ sent[v][j].n <= count'[r]
                 /\ pc'[r] = "send" => sent[v][j].n < count'[r]
      <3>1. /\ sent[v][j].n \in Nat /\ sent[v][j].n <= count[r]
            /\ pc[r] = "send" => sent[v][j].n < count[r]
        BY <2>4, SentJobs
      <3>2. count[r] \in Nat /\ count'[r] \in Nat /\ count[r] <= count'[r]
        BY <2>1
      <3>3. sent[v][j].n <= count'[r]
        BY ONLY <3>1, <3>2
      <3>4. ASSUME pc'[r] = "send" PROVE sent[v][j].n < count'[r]
        <4>1. r # s => count'[r] = count[r] /\ pc[r] = "send"
          BY <2>2, <2>3, <3>4
        <4>2. r = s => count'[r] = count[r] + 1
          BY <2>2
        <4>3. QED
          BY ONLY <3>1, <3>2, <4>1, <4>2
      <3>5. QED
        BY <3>3, <3>4
    <2>5. QED
      BY <2>2, <2>4
  <1>2. ASSUME NEW s \in Callers, SubmitClosed(s) PROVE OrderInv'
    <2>1. \A r \in Callers : count[r] <= count'[r] /\ count'[r] \in Nat
      BY <1>2 DEF SubmitClosed
    <2>2. pc' = pc /\ sent' = sent /\ pc[s] = "idle"
      BY <1>2 DEF SubmitClosed, Calls
    <2>3. \A r \in Callers : pc[r] = "send" => count'[r] = count[r]
      BY <1>2, <2>2 DEF SubmitClosed
    <2>4. ASSUME NEW v \in Workers, NEW j \in 1..Len(sent[v]), NEW r \in Callers,
                 sent[v][j].by = r
          PROVE  /\ sent[v][j].n <= count'[r]
                 /\ pc'[r] = "send" => sent[v][j].n < count'[r]
      <3>1. /\ sent[v][j].n \in Nat /\ sent[v][j].n <= count[r]
            /\ pc[r] = "send" => sent[v][j].n < count[r]
        BY <2>4, SentJobs
      <3>2. count[r] \in Nat /\ count'[r] \in Nat /\ count[r] <= count'[r]
        BY <2>1
      <3>3. sent[v][j].n <= count'[r]
        BY ONLY <3>1, <3>2
      <3>4. QED
        BY <2>2, <2>3, <3>1, <3>2, <3>3
    <2>5. QED
      BY <2>2, <2>4
  <1>3. ASSUME NEW s \in Callers, NEW w \in Workers, SendBuffered(s, w)
         PROVE  OrderInv'
    BY <1>3, OrderSent DEF SendBuffered
  <1>4. ASSUME NEW s \in Callers, NEW w \in Workers, SendDirect(s, w)
         PROVE  OrderInv'
    BY <1>4, OrderSent DEF SendDirect
  <1>5. ASSUME NEW w \in Workers, Receive(w) PROVE OrderInv'
    BY <1>5 DEF Receive
  <1>6. ASSUME NEW w \in Workers, Executed(w) PROVE OrderInv'
    BY <1>6 DEF Executed
  <1>7. ASSUME NEW w \in Workers, Drained(w) PROVE OrderInv'
    BY <1>7 DEF Drained
  <1>8. ASSUME NEW k \in Closers, CloseFirst(k) PROVE OrderInv'
    BY <1>8 DEF CloseFirst
  <1>9. ASSUME NEW k \in Closers, CloseAgain(k) PROVE OrderInv'
    BY <1>9 DEF CloseAgain
  <1>10. ASSUME NEW k \in Closers, Stop(k) PROVE OrderInv'
    BY <1>10 DEF Stop
  <1>11. ASSUME NEW k \in Closers, CloseReturns(k) PROVE OrderInv'
    BY <1>11 DEF CloseReturns
  <1>12. CASE UNCHANGED vars
    BY <1>12 DEF vars
  <1>13. QED
    BY <1>1, <1>2, <1>3, <1>4, <1>5, <1>6, <1>7, <1>8, <1>9, <1>10, <1>11,
       <1>12
    DEF Next, SendStep, WorkerStep, CloseStep

-----------------------------------------------------------------------------
(* The invariant *)

\* NewPool establishes the invariant.
THEOREM InvInit == Init => Inv
  <1> SUFFICES ASSUME Init PROVE Inv
    OBVIOUS
  <1>1. TypeOK
    <2>1. \A s \in Callers : count[s] <= MayCall(s)
      BY MayCallNat DEF Init
    <2>2. next \in 0..Capacity
      BY DEF Init
    <2>3. <<>> \in Seq(Jobs) /\ Len(<<>>) = 0
      OBVIOUS
    <2>4. \A w \in Workers : Len(job[w]) <= 1 /\ Len(jobChan[w]) <= JobQueueSize
      BY <2>3 DEF Init
    <2>5. QED
      BY <2>1, <2>2, <2>3, <2>4 DEF Init, TypeOK
  <1>2. CallInv /\ WorkerInv /\ CloseInv
    BY DEF Init, CallInv, WorkerInv, CloseInv
  <1>3. FlowInv
    <2>1. <<>> \in Seq(Jobs)
      OBVIOUS
    <2>2. <<>> \o <<>> = <<>>
      BY <2>1, ConcatEmptySeq
    <2>3. QED
      BY <2>2 DEF Init, FlowInv
  <1>4. OrderInv
    <2>1. \A w \in Workers : 1..Len(sent[w]) = {}
      BY DEF Init
    <2>2. QED
      BY <2>1 DEF OrderInv
  <1>5. QED
    BY <1>1, <1>2, <1>3, <1>4 DEF Inv

\* Every step preserves the invariant.
THEOREM InvNext == Inv /\ [Next]_vars => Inv'
  BY TypeNext, CallNext, WorkerNext, FlowNext, OrderNext, CloseNext DEF Inv

\* The invariant holds in every reachable state.
THEOREM Invariance == Spec => []Inv
  BY InvInit, InvNext, PTL DEF Spec

\* Every variable has its type, and no queue grows beyond its capacity.
THEOREM TypeCorrect == Spec => []TypeOK
  <1>1. Inv => TypeOK
    BY DEF Inv
  <1>2. QED
    BY <1>1, Invariance, PTL

-----------------------------------------------------------------------------
(* Order and shutdown *)

\* A non-negative WorkerID belongs to one worker.
LEMMA OneWorker ==
    ASSUME NEW i \in Int, i >= 0, NEW w \in Route(i), NEW v \in Route(i)
    PROVE  w = v
  BY DEF Route

\* Where the parts of a concatenation are.
LEMMA ConcatAt ==
    ASSUME NEW a \in Seq(Jobs), NEW b \in Seq(Jobs)
    PROVE  /\ a \o b \in Seq(Jobs) /\ Len(a \o b) = Len(a) + Len(b)
           /\ \A i \in 1..Len(a) : (a \o b)[i] = a[i]
           /\ \A i \in 1..Len(b) : (a \o b)[Len(a) + i] = b[i]
  <1>1. Len(a) \in Nat /\ Len(b) \in Nat
    BY LenProperties
  <1>2. Len(a \o b) = Len(a) + Len(b)
    BY ConcatProperties
  <1>3. \A i \in 1..(Len(a) + Len(b)) :
          (a \o b)[i] = IF i <= Len(a) THEN a[i] ELSE b[i - Len(a)]
    BY ConcatProperties
  <1>4. ASSUME NEW i \in 1..Len(a) PROVE (a \o b)[i] = a[i]
    BY ONLY <1>1, <1>3, i \in 1..Len(a)
  <1>5. ASSUME NEW i \in 1..Len(b) PROVE (a \o b)[Len(a) + i] = b[i]
    <2>1. Len(a) + i \in 1..(Len(a) + Len(b)) /\ ~(Len(a) + i <= Len(a))
          /\ (Len(a) + i) - Len(a) = i
      BY ONLY <1>1, i \in 1..Len(b)
    <2>2. QED
      BY <1>3, <2>1
  <1>6. QED
    BY <1>2, <1>4, <1>5, ConcatProperties

\* What was sent to a worker, part by part.
LEMMA FlowAt ==
    ASSUME Inv, NEW w \in Workers
    PROVE  /\ Len(executed[w]) \in Nat /\ Len(job[w]) \in Nat
           /\ Len(executed[w]) + Len(job[w]) <= Len(sent[w])
           /\ Len(sent[w]) \in Nat
           /\ \A i \in 1..Len(executed[w]) : sent[w][i] = executed[w][i]
           /\ \A i \in 1..Len(job[w]) :
                sent[w][Len(executed[w]) + i] = job[w][i]
  <1> DEFINE e == executed[w]
             g == job[w]
             c == jobChan[w]
             eg == e \o g
  <1>1. e \in Seq(Jobs) /\ g \in Seq(Jobs) /\ c \in Seq(Jobs) /\ sent[w] = eg \o c
    BY DEF Inv, TypeOK, FlowInv
  <1> HIDE DEF e, g, c
  <1>2. /\ eg \in Seq(Jobs) /\ Len(eg) = Len(e) + Len(g)
        /\ \A i \in 1..Len(e) : eg[i] = e[i]
        /\ \A i \in 1..Len(g) : eg[Len(e) + i] = g[i]
    BY <1>1, ConcatAt
  <1> HIDE DEF eg
  <1>3. /\ Len(sent[w]) = Len(eg) + Len(c)
        /\ \A i \in 1..Len(eg) : sent[w][i] = eg[i]
    <2>1. eg \in Seq(Jobs) /\ c \in Seq(Jobs) /\ sent[w] = eg \o c
      BY <1>1, <1>2
    <2>2. /\ Len(eg \o c) = Len(eg) + Len(c)
          /\ \A i \in 1..Len(eg) : (eg \o c)[i] = eg[i]
      BY ONLY <2>1, ConcatAt
    <2>3. QED
      BY ONLY <2>1, <2>2
  <1>4. Len(e) \in Nat /\ Len(g) \in Nat /\ Len(c) \in Nat
    BY <1>1, LenProperties
  <1>5. Len(e) + Len(g) <= Len(sent[w]) /\ Len(sent[w]) \in Nat
    BY ONLY <1>2, <1>3, <1>4
  <1>6. \A i \in 1..Len(e) : sent[w][i] = e[i]
    <2>1. \A i \in 1..Len(e) : i \in 1..Len(eg)
      BY ONLY <1>2, <1>4
    <2>2. QED
      BY ONLY <1>2, <1>3, <2>1
  <1>7. \A i \in 1..Len(g) : sent[w][Len(e) + i] = g[i]
    <2>1. \A i \in 1..Len(g) : Len(e) + i \in 1..Len(eg)
      BY ONLY <1>2, <1>4
    <2>2. QED
      BY ONLY <1>2, <1>3, <2>1
  <1>8. QED
    BY <1>4, <1>5, <1>6, <1>7 DEF e, g

\* What a worker has executed or executes was sent to it before the rest.
LEMMA ExecutedFirst ==
    ASSUME Inv, NEW v \in Workers, NEW b \in Range(job[v]) \cup Range(executed[v])
    PROVE  \E j \in 1..Len(sent[v]) :
             sent[v][j] = b /\ j <= Len(executed[v]) + 1
  <1>1. executed[v] \in Seq(Jobs) /\ job[v] \in Seq(Jobs) /\ Len(job[v]) <= 1
    BY DEF Inv, TypeOK
  <1> DEFINE le == Len(executed[v])
             lj == Len(job[v])
             ls == Len(sent[v])
  <1>2. /\ le \in Nat /\ lj \in Nat /\ ls \in Nat /\ lj <= 1 /\ le + lj <= ls
        /\ \A i \in 1..le : sent[v][i] = executed[v][i]
        /\ \A i \in 1..lj : sent[v][le + i] = job[v][i]
    BY <1>1, FlowAt
  <1>3. CASE b \in Range(executed[v])
    <2>1. PICK j \in 1..le : executed[v][j] = b
      BY <1>1, <1>3, LenProperties DEF Range
    <2> HIDE DEF le, lj, ls
    <2>2. j \in 1..ls /\ j <= le + 1
      BY ONLY <1>2, j \in 1..le
    <2>3. sent[v][j] = b
      BY <1>2, <2>1
    <2>4. QED
      BY <2>2, <2>3 DEF le, ls
  <1>4. CASE b \in Range(job[v])
    <2>1. PICK i \in 1..lj : job[v][i] = b
      BY <1>1, <1>4, LenProperties DEF Range
    <2> HIDE DEF le, lj, ls
    <2>2. le + i \in 1..ls /\ le + i <= le + 1
      BY ONLY <1>2, i \in 1..lj
    <2>3. sent[v][le + i] = b
      BY <1>2, <2>1
    <2>4. QED
      BY <2>2, <2>3 DEF le, ls
  <1>5. QED
    BY <1>3, <1>4

\* What was sent to a worker before a job it has reached, it has executed.
LEMMA ReachedInOrder ==
    ASSUME Inv, NEW w \in Workers, NEW i \in 1..Len(sent[w]),
           i <= Len(executed[w])
    PROVE  sent[w][i] \in Range(executed[w])
  <1>1. executed[w] \in Seq(Jobs) /\ Len(executed[w]) \in Nat
    BY LenProperties DEF Inv, TypeOK
  <1>2. i \in 1..Len(executed[w])
    BY <1>1
  <1>3. sent[w][i] = executed[w][i]
    BY <1>2, FlowAt
  <1>4. QED
    BY <1>1, <1>2, <1>3, LenProperties DEF Range

\* Jobs that one caller submits with the same non-negative WorkerID are executed
\* in the order of submission, never side by side.
THEOREM InOrder == Spec => []SameIDInOrder
  <1>1. Inv => SameIDInOrder
    <2> SUFFICES ASSUME Inv, NEW w \in Workers, NEW v \in Workers,
                        NEW a \in Range(sent[w]),
                        NEW b \in Range(job[v]) \cup Range(executed[v]),
                        a.WorkerID = b.WorkerID, a.WorkerID >= 0, Before(a, b)
                 PROVE  a \in Range(executed[w])
      BY DEF SameIDInOrder
    <2>1. TypeOK /\ OrderInv
      BY DEF Inv
    <2>2. PICK j \in 1..Len(sent[v]) : sent[v][j] = b /\ j <= Len(executed[v]) + 1
      BY ExecutedFirst
    <2>3. PICK i \in 1..Len(sent[w]) : sent[w][i] = a
      <3>1. sent[w] \in Seq(Jobs)
        BY <2>1 DEF TypeOK
      <3>2. QED
        BY <3>1, LenProperties DEF Range
    <2>4. /\ a \in Jobs /\ a.n \in Nat /\ a.WorkerID \in Int
          /\ b \in Jobs /\ b.n \in Nat
      BY <2>1, <2>2, <2>3, SentJobs, JobFields
    <2>5. w \in Route(a.WorkerID) /\ v \in Route(b.WorkerID)
      BY <2>1, <2>2, <2>3 DEF OrderInv
    <2>6. w = v
      BY <2>4, <2>5, OneWorker
    <2>7. a.by = b.by /\ a.n < b.n
      BY DEF Before
    <2>8. ~(j < i)
      <3>1. j < i => b.n < a.n
        BY <2>1, <2>2, <2>3, <2>6, <2>7 DEF OrderInv
      <3>2. QED
        BY ONLY <2>4, <2>7, <3>1
    <2>9. i # j
      BY <2>2, <2>3, <2>4, <2>6, <2>7
    <2>10. i <= Len(executed[w])
      <3>1. i \in Int /\ j \in Int
        BY <2>2, <2>3
      <3>2. Len(executed[w]) \in Nat
        BY <2>1, LenProperties DEF TypeOK
      <3>3. QED
        BY <2>2, <2>6, <2>8, <2>9, <3>1, <3>2
    <2>11. QED
      BY <2>3, <2>10, ReachedInOrder
  <1>2. QED
    BY <1>1, Invariance, PTL

\* When Close has closed the pool, every job that was sent has been executed.
THEOREM Drains == Spec => []CloseDrains
  <1>1. Inv => CloseDrains
    <2> SUFFICES ASSUME Inv, NEW k \in Closers, pc[k] = "closed"
                 PROVE  /\ \A w \in Workers : executed[w] = sent[w]
                        /\ \A s \in Callers : pc[s] = "idle"
      BY DEF CloseDrains
    <2>1. /\ status = "closed" /\ \A s \in Callers : pc[s] = "idle"
          /\ \A w \in Workers : wpc[w] = "exited"
      BY DEF Inv, CloseInv
    <2>2. ASSUME NEW w \in Workers PROVE executed[w] = sent[w]
      <3>1. job[w] = <<>> /\ jobChan[w] = <<>>
        BY <2>1 DEF Inv, WorkerInv
      <3>2. executed[w] \in Seq(Jobs)
        BY DEF Inv, TypeOK
      <3>3. executed[w] \o <<>> = executed[w]
        BY <3>2, ConcatEmptySeq
      <3>4. QED
        BY <3>1, <3>3 DEF Inv, FlowInv
    <2>3. QED
      BY <2>1, <2>2
  <1>2. QED
    BY <1>1, Invariance, PTL

=============================================================================
