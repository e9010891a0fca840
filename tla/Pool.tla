-------------------------------- MODULE Pool --------------------------------
(***************************************************************************)
(* Pool and worker of common/pool/gpool (pool.go, worker.go): a fixed set  *)
(* of workers with a queue each, goroutines that call Submit and Close.    *)
(* A handler may call Submit as well: the caller is then its worker.  A    *)
(* job is [by, n, WorkerID], the n-th one of its caller.                   *)
(***************************************************************************)
EXTENDS Integers, Sequences, Functions

CONSTANTS
  Submitters,    \* goroutines, other than the workers, that call Submit
  Closers,       \* goroutines that call Close
  Capacity,      \* the number of workers, at least 1
  JobQueueSize,  \* the capacity of a worker's jobChan, 0 allowed
  WorkerIDs,     \* the values of Job.WorkerID
  MaxJobs,       \* bound: jobs a submitter submits
  MaxNested      \* bound: jobs the handlers on one worker submit

Workers == 0..(Capacity - 1)
Callers == Submitters \cup Workers   \* whoever calls Submit

ASSUME PoolAssumption ==
  /\ Capacity \in Nat \ {0}
  /\ JobQueueSize \in Nat
  /\ WorkerIDs \subseteq Int
  /\ {MaxJobs, MaxNested} \subseteq Nat
  /\ Submitters \cap Workers = {}
  /\ Callers \cap Closers = {}

MayCall(s) == IF s \in Workers THEN MaxNested ELSE MaxJobs
Jobs == UNION {[by : {s}, n : 1..MayCall(s), WorkerID : WorkerIDs] : s \in Callers}

VARIABLES
  status,    \* Pool.status: "open" or "closed"
  pc,        \* where the callers of Submit and Close are
  count,     \* how many jobs each caller has submitted
  sending,   \* the job each caller is sending, and to which worker
  wpc,       \* where each worker is
  job,       \* what each worker executes: a sequence of length at most one
  jobChan,   \* worker.jobChan
  next,      \* the worker Close stops next
  sent,      \* per worker, the jobs that were sent to it, in order
  executed   \* per worker, the jobs it has executed, in order

submitVars == <<count, sending>>
workerVars == <<wpc, job, jobChan, executed>>
vars == <<status, pc, submitVars, workerVars, next, sent>>

Goto(p, label) == pc' = [pc EXCEPT ![p] = label]

-----------------------------------------------------------------------------
(* NewPool *)

Init ==
  /\ status = "open"
  /\ pc = [p \in Callers \cup Closers |-> "idle"]
  /\ count = [s \in Callers |-> 0]
  /\ sending = [s \in Callers |-> <<>>]
  /\ wpc = [w \in Workers |-> "select"]
  /\ job = [w \in Workers |-> <<>>]
  /\ jobChan = [w \in Workers |-> <<>>]
  /\ next = 0
  /\ sent = [w \in Workers |-> <<>>]
  /\ executed = [w \in Workers |-> <<>>]

-----------------------------------------------------------------------------
(* Submit *)

\* Faulty variant: every job goes to a worker chosen at random.
RouteRandom(i) == Workers

\* A negative WorkerID leaves the choice of the worker to chance.
Route(i) == IF i < 0 THEN Workers ELSE {i % Capacity}

\* s begins a Submit; a worker does so in a handler.
Calls(s) ==
  /\ pc[s] = "idle"
  /\ count[s] < MayCall(s)
  /\ s \in Workers => wpc[s] \in {"execute", "executeLast"}

Submit(s, i, w) ==
  /\ Calls(s)
  /\ status = "open"
  /\ w \in Route(i)
  /\ count' = [count EXCEPT ![s] = @ + 1]
  /\ sending' = [sending EXCEPT
       ![s] = <<[by |-> s, n |-> count[s] + 1, WorkerID |-> i], w>>]
  /\ Goto(s, "send")
  /\ UNCHANGED <<status, workerVars, next, sent>>

SubmitClosed(s) ==
  /\ Calls(s)
  /\ status = "closed"
  /\ count' = [count EXCEPT ![s] = @ + 1]
  /\ UNCHANGED <<status, pc, sending, workerVars, next, sent>>

\* The send on jobChan of worker w is done and Submit returns.
Sent(s, w) ==
  /\ pc[s] = "send"
  /\ sending[s][2] = w
  /\ sent' = [sent EXCEPT ![w] = Append(@, sending[s][1])]
  /\ sending' = [sending EXCEPT ![s] = <<>>]
  /\ Goto(s, "idle")

\* It puts the job into the buffer ...
SendBuffered(s, w) ==
  /\ Sent(s, w)
  /\ Len(jobChan[w]) < JobQueueSize
  /\ jobChan' = [jobChan EXCEPT ![w] = Append(@, sending[s][1])]
  /\ UNCHANGED <<status, count, wpc, job, executed, next>>

\* ... or hands it to the worker that waits for it.
SendDirect(s, w) ==
  /\ Sent(s, w)
  /\ wpc[w] = "select"
  /\ jobChan[w] = <<>>
  /\ job' = [job EXCEPT ![w] = <<sending[s][1]>>]
  /\ wpc' = [wpc EXCEPT ![w] = "execute"]
  /\ UNCHANGED <<status, count, jobChan, executed, next>>

-----------------------------------------------------------------------------
(* worker.process *)

\* The worker receives a job: in its select, or in the final range loop.
Receive(w) ==
  /\ wpc[w] \in {"select", "drain"}
  /\ jobChan[w] # <<>>
  /\ job' = [job EXCEPT ![w] = <<Head(jobChan[w])>>]
  /\ jobChan' = [jobChan EXCEPT ![w] = Tail(@)]
  /\ wpc' = [wpc EXCEPT ![w] = IF @ = "select" THEN "execute" ELSE "executeLast"]
  /\ UNCHANGED <<status, pc, submitVars, executed, next, sent>>

\* execute returns: the handler was nil, returned or panicked.
Executed(w) ==
  /\ wpc[w] \in {"execute", "executeLast"}
  /\ pc[w] = "idle"
  /\ executed' = [executed EXCEPT ![w] = @ \o job[w]]
  /\ job' = [job EXCEPT ![w] = <<>>]
  /\ wpc' = [wpc EXCEPT ![w] = IF @ = "execute" THEN "select" ELSE "drain"]
  /\ UNCHANGED <<status, pc, submitVars, jobChan, next, sent>>

\* The closed channel is empty: the worker returns.
Drained(w) ==
  /\ wpc[w] = "drain"
  /\ jobChan[w] = <<>>
  /\ wpc' = [wpc EXCEPT ![w] = "exited"]
  /\ UNCHANGED <<status, pc, submitVars, job, jobChan, executed, next, sent>>

-----------------------------------------------------------------------------
(* Close *)

\* Submit is not called concurrently with Close: whoever closes the pool
\* waits for the calls of Submit first, those of handlers too.
CloseFirst(k) ==
  /\ pc[k] = "idle"
  /\ status = "open"
  /\ \A s \in Callers : pc[s] = "idle"
  /\ status' = "closed"
  /\ Goto(k, "stopping")
  /\ UNCHANGED <<submitVars, workerVars, next, sent>>

CloseAgain(k) ==
  /\ pc[k] = "idle"
  /\ status = "closed"
  /\ Goto(k, "repeated")
  /\ UNCHANGED <<status, submitVars, workerVars, next, sent>>

\* Faulty variant: a stopped worker returns at once.
StopWithoutDrain(k) ==
  /\ pc[k] = "stopping"
  /\ next \in Workers
  /\ wpc[next] = "select"
  /\ wpc' = [wpc EXCEPT ![next] = "exited"]
  /\ next' = next + 1
  /\ UNCHANGED <<status, pc, submitVars, job, jobChan, executed, sent>>

\* Faulty variant: the first worker is not stopped.
StopFromOne(k) ==
  /\ pc[k] = "stopping"
  /\ next + 1 \in Workers
  /\ wpc[next + 1] = "select"
  /\ wpc' = [wpc EXCEPT ![next + 1] = "drain"]
  /\ next' = next + 1
  /\ UNCHANGED <<status, pc, submitVars, job, jobChan, executed, sent>>

\* stopChan is not buffered: Close and the worker meet in the worker's select.
Stop(k) ==
  /\ pc[k] = "stopping"
  /\ next \in Workers
  /\ wpc[next] = "select"
  /\ wpc' = [wpc EXCEPT ![next] = "drain"]
  /\ next' = next + 1
  /\ UNCHANGED <<status, pc, submitVars, job, jobChan, executed, sent>>

\* wg.Wait returns.
CloseReturns(k) ==
  /\ pc[k] = "stopping"
  /\ next = Capacity
  /\ \A w \in Workers : wpc[w] = "exited"
  /\ Goto(k, "closed")
  /\ UNCHANGED <<status, submitVars, workerVars, next, sent>>

-----------------------------------------------------------------------------
SendStep(s) == \E w \in Workers : SendBuffered(s, w) \/ SendDirect(s, w)
WorkerStep(w) == Receive(w) \/ Executed(w) \/ Drained(w)
CloseStep(k) == Stop(k) \/ CloseReturns(k)

Next ==
  \/ \E s \in Callers :
       \/ \E i \in WorkerIDs, w \in Workers : Submit(s, i, w)
       \/ SubmitClosed(s)
       \/ SendStep(s)
  \/ \E w \in Workers : WorkerStep(w)
  \/ \E k \in Closers : CloseFirst(k) \/ CloseAgain(k) \/ CloseStep(k)

Spec == Init /\ [][Next]_vars

(***************************************************************************)
(* Fairness.  Goroutines that can run do and handlers return.  The select  *)
(* of a worker chooses among what is ready at random, and a goroutine that *)
(* waits on a channel is served in turn, so a sender or Close that finds   *)
(* its worker ready again and again is served: strong fairness.            *)
(***************************************************************************)
FairSpec ==
  /\ Spec
  /\ \A s \in Callers : SF_vars(SendStep(s))
  /\ \A w \in Workers : WF_vars(WorkerStep(w))
  /\ \A k \in Closers : SF_vars(CloseStep(k))

-----------------------------------------------------------------------------
(* Properties *)

\* Every variable has its type; the job queues respect their capacity.
TypeOK ==
  /\ status \in {"open", "closed"}
  /\ pc \in [Callers \cup Closers ->
               {"idle", "send", "stopping", "closed", "repeated"}]
  /\ count \in [Callers -> Nat] /\ \A s \in Callers : count[s] <= MayCall(s)
  /\ sending \in [Callers -> {<<>>} \cup (Jobs \X Workers)]
  /\ wpc \in [Workers -> {"select", "execute", "drain", "executeLast", "exited"}]
  /\ job \in [Workers -> Seq(Jobs)] /\ jobChan \in [Workers -> Seq(Jobs)]
  /\ sent \in [Workers -> Seq(Jobs)] /\ executed \in [Workers -> Seq(Jobs)]
  /\ \A w \in Workers : Len(job[w]) <= 1 /\ Len(jobChan[w]) <= JobQueueSize
  /\ next \in 0..Capacity

\* Whether job a was submitted to the pool before job b by the same submitter.
Before(a, b) == a.by = b.by /\ a.n < b.n

\* Jobs that one submitter submits with the same non-negative WorkerID are
\* executed in the order of submission, never side by side: when a later one
\* is executed or being executed, the earlier ones have been executed.
SameIDInOrder ==
  \A w, v \in Workers :
    \A a \in Range(sent[w]), b \in Range(job[v]) \cup Range(executed[v]) :
      a.WorkerID = b.WorkerID /\ a.WorkerID >= 0 /\ Before(a, b)
        => a \in Range(executed[w])

\* When the call of Close that closed the pool returns, every job that was
\* sent has been executed, exactly once, and nobody is waiting to send one.
CloseDrains ==
  \A k \in Closers : pc[k] = "closed" =>
    /\ \A w \in Workers : executed[w] = sent[w]
    /\ \A s \in Callers : pc[s] = "idle"

\* Handlers that wait for each other, or one that waits for itself: each sends
\* to a worker whose queue is full and whose handler is one of them.
Knot(W) ==
  \A w \in W :
    /\ pc[w] = "send"
    /\ sending[w][2] \in W
    /\ Len(jobChan[sending[w][2]]) = JobQueueSize

\* Close returns although each worker must be met in its select and may have a
\* full queue left; and nothing but such a knot of handlers keeps a Submit
\* waiting for ever.
CallsEnd ==
  /\ \A k \in Closers : pc[k] = "stopping" ~> pc[k] = "closed"
  /\ \A s \in Callers :
       pc[s] = "send" ~> (pc[s] = "idle" \/ \E W \in SUBSET Workers : W # {} /\ Knot(W))

=============================================================================
