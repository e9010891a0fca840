----------------------------- MODULE TaskRunner -----------------------------
(***************************************************************************)
(* TaskRunner of common/pool/gpool (task_runner.go): goroutines that call  *)
(* Submit, SubmitImmediately and Close, and one goroutine per accepted     *)
(* task.  Task <<s, n>> is the n-th one submitter s tried to submit.       *)
(***************************************************************************)
EXTENDS Naturals, FiniteSets

CONSTANTS
  Submitters,   \* goroutines that submit tasks
  Closers,      \* goroutines that call Close
  LimitSize,    \* the capacity of limitChan, at least 1
  MaxTasks      \* bound: tasks a submitter tries to submit

ASSUME RunnerAssumption ==
  /\ LimitSize \in Nat \ {0}
  /\ MaxTasks \in Nat
  /\ Submitters \cap Closers = {}
  /\ IsFiniteSet(Submitters)

Modes == {"Submit", "SubmitImmediately"}
Tasks == Submitters \X (1..MaxTasks)
TaskStates == {"none", "run", "ended", "half", "gone"}

VARIABLES
  status,      \* TaskRunner.status: "open" or "closed"
  tokens,      \* how many elements limitChan holds
  chanClosed,  \* close(limitChan) has been called
  wg,          \* TaskRunner.wg
  pc,          \* where submitters and closers are
  mode,        \* which method each submitter is in
  count,       \* how many tasks each submitter has tried to submit
  task,        \* the state of each task's goroutine
  via          \* the method that accepted each task

chanVars == <<status, tokens, chanClosed>>
submitVars == <<mode, count>>
taskVars == <<task, via>>
vars == <<chanVars, wg, pc, submitVars, taskVars>>

Goto(p, label) == pc' = [pc EXCEPT ![p] = label]
Current(s) == <<s, count[s]>>

\* wg.Done by whoever is the last wakes the Close that is blocked in wg.Wait.
Wakes(labels) ==
  [p \in DOMAIN labels |-> IF wg = 1 /\ labels[p] = "blocked" THEN "woken" ELSE labels[p]]

-----------------------------------------------------------------------------
Init ==
  /\ status = "open"
  /\ tokens = 0
  /\ chanClosed = FALSE
  /\ wg = 0
  /\ pc = [p \in Submitters \cup Closers |-> "idle"]
  /\ mode = [s \in Submitters |-> "Submit"]
  /\ count = [s \in Submitters |-> 0]
  /\ task = [t \in Tasks |-> "none"]
  /\ via = [t \in Tasks |-> "Submit"]

-----------------------------------------------------------------------------
(* Submit and SubmitImmediately *)

\* The call finds the runner open ...
SubmitOpen(s, m) ==
  /\ pc[s] = "idle"
  /\ count[s] < MaxTasks
  /\ status = "open"
  /\ count' = [count EXCEPT ![s] = @ + 1]
  /\ mode' = [mode EXCEPT ![s] = m]
  /\ Goto(s, "checked")
  /\ UNCHANGED <<chanVars, wg, taskVars>>

\* ... or closed, and returns.
SubmitClosed(s, m) ==
  /\ pc[s] = "idle"
  /\ count[s] < MaxTasks
  /\ status = "closed"
  /\ count' = [count EXCEPT ![s] = @ + 1]
  /\ mode' = [mode EXCEPT ![s] = m]
  /\ UNCHANGED <<chanVars, wg, pc, taskVars>>

\* Faulty variant: the task is counted only when its goroutine runs.
AddLater(s) ==
  /\ pc[s] = "checked"
  /\ Goto(s, "send")
  /\ UNCHANGED <<chanVars, wg, submitVars, taskVars>>

\* wg.Add(1)
WgAdd(s) ==
  /\ pc[s] = "checked"
  /\ wg' = wg + 1
  /\ Goto(s, "send")
  /\ UNCHANGED <<chanVars, submitVars, taskVars>>

\* Faulty variant: the limit is off by one.
TakeTokenOver(s) ==
  /\ pc[s] = "send"
  /\ ~chanClosed
  /\ tokens <= LimitSize
  /\ tokens' = tokens + 1
  /\ task' = [task EXCEPT ![Current(s)] = "run"]
  /\ via' = [via EXCEPT ![Current(s)] = mode[s]]
  /\ Goto(s, "idle")
  /\ UNCHANGED <<status, chanClosed, wg, submitVars>>

\* The send on limitChan succeeds and the task's goroutine starts.
TakeToken(s) ==
  /\ pc[s] = "send"
  /\ ~chanClosed
  /\ tokens < LimitSize
  /\ tokens' = tokens + 1
  /\ task' = [task EXCEPT ![Current(s)] = "run"]
  /\ via' = [via EXCEPT ![Current(s)] = mode[s]]
  /\ Goto(s, "idle")
  /\ UNCHANGED <<status, chanClosed, wg, submitVars>>

\* SubmitImmediately finds no room: ErrTaskRunnerBusy.
Busy(s) ==
  /\ pc[s] = "send"
  /\ mode[s] = "SubmitImmediately"
  /\ ~chanClosed
  /\ tokens = LimitSize
  /\ wg' = wg - 1
  /\ pc' = Wakes([pc EXCEPT ![s] = "idle"])
  /\ UNCHANGED <<chanVars, submitVars, taskVars>>

\* A send on a closed channel panics, also one that was already waiting.
SendOnClosed(s) ==
  /\ pc[s] = "send"
  /\ chanClosed
  /\ Goto(s, "panicked")
  /\ UNCHANGED <<chanVars, wg, submitVars, taskVars>>

-----------------------------------------------------------------------------
(* The goroutine of a task.  The task returns or panics; then, in an order *)
(* that depends on the method, the token goes back and wg.Done is called.  *)

TaskEnds(t) ==
  /\ task[t] = "run"
  /\ task' = [task EXCEPT ![t] = "ended"]
  /\ UNCHANGED <<chanVars, wg, pc, submitVars, via>>

\* A receive from limitChan: a closed channel gives what is left, then zeros.
ReturnToken == tokens' = IF tokens > 0 THEN tokens - 1 ELSE 0

TokenBack(t) ==
  /\ task[t] = IF via[t] = "Submit" THEN "ended" ELSE "half"
  /\ tokens > 0 \/ chanClosed
  /\ ReturnToken
  /\ task' = [task EXCEPT ![t] = IF via[t] = "Submit" THEN "half" ELSE "gone"]
  /\ UNCHANGED <<status, chanClosed, wg, pc, submitVars, via>>

\* Faulty variant: a task that panicked is never counted down.
WgDoneForgotten(t) ==
  /\ task[t] = IF via[t] = "Submit" THEN "half" ELSE "ended"
  /\ task' = [task EXCEPT ![t] = IF via[t] = "Submit" THEN "gone" ELSE "half"]
  /\ UNCHANGED <<chanVars, wg, pc, submitVars, via>>

WgDone(t) ==
  /\ task[t] = IF via[t] = "Submit" THEN "half" ELSE "ended"
  /\ wg' = wg - 1
  /\ pc' = Wakes(pc)
  /\ task' = [task EXCEPT ![t] = IF via[t] = "Submit" THEN "gone" ELSE "half"]
  /\ UNCHANGED <<chanVars, submitVars, via>>

-----------------------------------------------------------------------------
(* Close *)

\* The CompareAndSwap succeeds for one caller, the others return.
CloseFirst(k) ==
  /\ pc[k] = "idle"
  /\ status = "open"
  /\ status' = "closed"
  /\ Goto(k, "closing")
  /\ UNCHANGED <<tokens, chanClosed, wg, submitVars, taskVars>>

CloseAgain(k) ==
  /\ pc[k] = "idle"
  /\ status = "closed"
  /\ Goto(k, "repeated")
  /\ UNCHANGED <<chanVars, wg, submitVars, taskVars>>

CloseChan(k) ==
  /\ pc[k] = "closing"
  /\ chanClosed' = TRUE
  /\ Goto(k, "waiting")
  /\ UNCHANGED <<status, tokens, wg, submitVars, taskVars>>

\* wg.Wait blocks unless there is nothing to wait for ...
WaitBlocks(k) ==
  /\ pc[k] = "waiting"
  /\ wg # 0
  /\ Goto(k, "blocked")
  /\ UNCHANGED <<chanVars, wg, submitVars, taskVars>>

\* ... and looks at the counter again when it is woken.
CloseReturns(k) ==
  /\ pc[k] \in {"waiting", "woken"}
  /\ wg = 0
  /\ Goto(k, "closed")
  /\ UNCHANGED <<chanVars, wg, submitVars, taskVars>>

\* A Submit that passed its check before the closing has called wg.Add since:
\* "WaitGroup is reused before previous Wait has returned".
WaitPanics(k) ==
  /\ pc[k] = "woken"
  /\ wg # 0
  /\ Goto(k, "panicked")
  /\ UNCHANGED <<chanVars, wg, submitVars, taskVars>>

-----------------------------------------------------------------------------
SubmitStep(s) ==
  WgAdd(s) \/ TakeToken(s) \/ Busy(s) \/ SendOnClosed(s)

TaskStep(t) == TaskEnds(t) \/ TokenBack(t) \/ WgDone(t)

CloseStep(k) == CloseChan(k) \/ WaitBlocks(k) \/ CloseReturns(k) \/ WaitPanics(k)

Next ==
  \/ \E s \in Submitters :
       \/ \E m \in Modes : SubmitOpen(s, m) \/ SubmitClosed(s, m)
       \/ SubmitStep(s)
  \/ \E t \in Tasks : TaskStep(t)
  \/ \E k \in Closers : CloseFirst(k) \/ CloseAgain(k) \/ CloseStep(k)

Spec == Init /\ [][Next]_vars

\* Goroutines that can run do, and tasks return.  Nobody has to submit or to
\* close.
Fairness ==
  /\ \A s \in Submitters : WF_vars(SubmitStep(s))
  /\ \A t \in Tasks : WF_vars(TaskStep(t))
  /\ \A k \in Closers : WF_vars(CloseStep(k))

FairSpec == Spec /\ Fairness

-----------------------------------------------------------------------------
(* Properties *)

\* Every variable has its type: limitChan respects its capacity, and wg never
\* becomes negative, which would be a panic of wg.Done.
TypeOK ==
  /\ status \in {"open", "closed"}
  /\ tokens \in 0..LimitSize
  /\ chanClosed \in BOOLEAN
  /\ wg \in Nat
  /\ pc \in [Submitters \cup Closers ->
               {"idle", "checked", "send", "panicked", "closing", "waiting",
                "blocked", "woken", "closed", "repeated"}]
  /\ mode \in [Submitters -> Modes]
  /\ count \in [Submitters -> 0..MaxTasks]
  /\ task \in [Tasks -> TaskStates]
  /\ via \in [Tasks -> Modes]

\* At most LimitSize tasks run at the same time, also while the runner is
\* being closed and tokens are taken out of the closed channel.
ConcurrencyLimit ==
  Cardinality({t \in Tasks : task[t] = "run"}) <= LimitSize

\* When the call of Close that closed the runner returns, every task that was
\* accepted has ended, and none starts later.
CloseWaitsForTasks ==
  \A k \in Closers : pc[k] = "closed" => \A t \in Tasks : task[t] # "run"

\* Submit and SubmitImmediately never panic: a runner that is closed makes
\* them return.
SubmitNeverPanics == \A s \in Submitters : pc[s] # "panicked"

\* Close returns, unless a submitter panicked between wg.Add and its send:
\* nobody calls Done for it, and its Add may even make wg.Wait panic.
CloseEnds ==
  \A k \in Closers :
    pc[k] = "closing" ~> (pc[k] = "closed" \/ ~SubmitNeverPanics)

=============================================================================
