--------------------------- MODULE CallbackProofs ---------------------------
(***************************************************************************)
(* Proofs about the two components that run what their users hand them:    *)
(* TaskRunner, which starts tasks, and TimerManager, which calls timers    *)
(* back.                                                                   *)
(*                                                                         *)
(* TaskRunner, for any finite set of submitters, any number of callers of  *)
(* Close, any limit and any number of tasks.  The inductive invariant is   *)
(* Inv: the type invariant with what the labels imply (StepInv), what the  *)
(* two counters count (CountInv) and the properties themselves.  The       *)
(* counters are related to sets: limitChan holds one element for each task *)
(* in Holders, until it is closed, and wg counts the tasks in Owing and    *)
(* the submitters in Sending.                                              *)
(*                                                                         *)
(* TimerManager, for a heap and an execution queue of any size, any number *)
(* of timers and any intervals and limits.  The inductive invariant is     *)
(* TimerInv: the heap is in order and knows the position of every timer    *)
(* (HeapOK), the slice of the execution queue has room for its elements    *)
(* (QueueOK), a timer that was not added is nowhere (NewInv), one that was *)
(* not removed is in one place (WhereInv), and the calls made and to come  *)
(* are within the limit (LimitInv).  Most of the work is the heap: the     *)
(* recursive functions up and down exist and unfold, each swap keeps the   *)
(* timers and the positions, and when only one timer is out of order,      *)
(* moving it up or down restores the order of all.                         *)
(***************************************************************************)
EXTENDS TaskRunner, TimerManager, FiniteSetTheorems, SequenceTheorems,
        WellFoundedInduction, TLAPS

-----------------------------------------------------------------------------
(* TaskRunner *)

USE DEF Goto, Modes, TaskStates, chanVars, submitVars, taskVars
USE RunnerAssumption

\* The tasks that have an element in limitChan to take back.
HasToken(t) ==
  \/ task[t] \in {"run", "ended"}
  \/ task[t] = "half" /\ via[t] = "SubmitImmediately"
Holders == {t \in Tasks : HasToken(t)}

\* The tasks whose wg.Done is still to come.
IsOwing(t) ==
  \/ task[t] \in {"run", "ended"}
  \/ task[t] = "half" /\ via[t] = "Submit"
Owing == {t \in Tasks : IsOwing(t)}

\* The submitters that have called wg.Add and not yet started their task.
Sending == {s \in Submitters : pc[s] \in {"send", "panicked"}}

Running == {t \in Tasks : task[t] = "run"}

\* The task a submitter is about to start has not been started, nor any of
\* those it has not tried yet; Close waits on a channel that is closed.
StepInv ==
  /\ \A s \in Submitters :
       /\ pc[s] \in {"idle", "checked", "send", "panicked"}
       /\ pc[s] \in {"checked", "send"} => /\ Current(s) \in Tasks
                                           /\ task[Current(s)] = "none"
       /\ \A n \in 1..MaxTasks : n > count[s] => task[<<s, n>>] = "none"
  /\ \A k \in Closers :
       /\ pc[k] \in {"idle", "closing", "waiting", "blocked", "woken",
                    "panicked", "closed", "repeated"}
       /\ pc[k] \in {"waiting", "blocked", "woken", "panicked", "closed"} => chanClosed

\* What the counters count.
CountInv ==
  /\ wg = Cardinality(Owing) + Cardinality(Sending)
  /\ ~chanClosed => tokens = Cardinality(Holders)

\* When a call of Close has returned, nothing is left to wait for, and no task
\* starts any more.
ClosedInv == \A k \in Closers : pc[k] = "closed" => Owing = {}

Inv == TypeOK /\ StepInv /\ CountInv /\ ConcurrencyLimit /\ ClosedInv

-----------------------------------------------------------------------------
(* Finite sets *)

\* There are finitely many tasks, and so are those in each of the sets.
LEMMA FiniteTasks ==
  /\ \A T \in SUBSET Tasks : IsFiniteSet(T) /\ Cardinality(T) \in Nat
  /\ \A T \in SUBSET Submitters : IsFiniteSet(T) /\ Cardinality(T) \in Nat
  <1>1. IsFiniteSet(1..MaxTasks)
    BY FS_Interval
  <1>2. IsFiniteSet(Tasks)
    BY <1>1, FS_Product DEF Tasks
  <1>3. QED
    BY <1>2, FS_Subset, FS_CardinalityType

\* Both counters count finite sets.
LEMMA FiniteCounts ==
  /\ IsFiniteSet(Holders) /\ Cardinality(Holders) \in Nat
  /\ IsFiniteSet(Owing) /\ Cardinality(Owing) \in Nat
  /\ IsFiniteSet(Running) /\ Cardinality(Running) \in Nat
  /\ IsFiniteSet(Sending) /\ Cardinality(Sending) \in Nat
  BY FiniteTasks DEF Holders, Owing, Running, Sending

\* The same of the next state.
LEMMA FiniteCountsNext ==
  /\ IsFiniteSet(Holders') /\ Cardinality(Holders') \in Nat
  /\ IsFiniteSet(Running') /\ Cardinality(Running') \in Nat
  BY FiniteTasks DEF Holders, Running

\* One element more.
LEMMA CardinalityAdd ==
    ASSUME NEW S, IsFiniteSet(S), NEW x, x \notin S
    PROVE  Cardinality(S \cup {x}) = Cardinality(S) + 1
  BY FS_AddElement

\* One element less.
LEMMA CardinalityDrop ==
    ASSUME NEW S, IsFiniteSet(S), NEW x \in S
    PROVE  Cardinality(S \ {x}) = Cardinality(S) - 1
  BY FS_RemoveElement

-----------------------------------------------------------------------------
\* A new runner satisfies the invariant.
THEOREM InvInit == Init => Inv
  <1> SUFFICES ASSUME Init PROVE Inv
    OBVIOUS
  <1>1. TypeOK /\ StepInv
    <2>1. 0 \in 0..LimitSize /\ 0 \in 0..MaxTasks
      OBVIOUS
    <2>2. pc \in [Submitters \cup Closers ->
                   {"idle", "checked", "send", "panicked", "closing",
                    "waiting", "blocked", "woken", "closed", "repeated"}]
      BY DEF Init
    <2>3. TypeOK
      <3>1. status \in {"open", "closed"} /\ wg \in Nat
        BY DEF Init
      <3>2. tokens \in 0..LimitSize /\ count \in [Submitters -> 0..MaxTasks]
        BY <2>1 DEF Init
      <3>3. mode \in [Submitters -> Modes] /\ task \in [Tasks -> TaskStates]
        BY DEF Init
      <3>4. via \in [Tasks -> Modes]
        BY DEF Init
      <3>5. chanClosed \in BOOLEAN
        BY Zenon DEF Init
      <3>6. QED
        BY <2>2, <3>1, <3>2, <3>3, <3>4, <3>5 DEF TypeOK
    <2>4. \A s \in Submitters, n \in 1..MaxTasks : task[<<s, n>>] = "none"
      BY DEF Init, Tasks
    <2>5. StepInv
      BY <2>4 DEF Init, StepInv
    <2>6. QED
      BY <2>3, <2>5
  <1>2. Holders = {} /\ Owing = {} /\ Sending = {} /\ Running = {}
    BY DEF Init, Holders, HasToken, Owing, IsOwing, Sending, Running
  <1>3. CountInv /\ ConcurrencyLimit /\ ClosedInv
    BY <1>2, FS_EmptySet
       DEF Init, CountInv, ConcurrencyLimit, Running, ClosedInv
  <1>4. QED
    BY <1>1, <1>3 DEF Inv

\* Whoever calls wg.Done has been counted.
LEMMA DoneIsCounted ==
    ASSUME CountInv
    PROVE  /\ \A t \in Tasks : IsOwing(t) => wg >= 1
           /\ \A s \in Submitters : pc[s] = "send" => wg >= 1
  <1>1. \A t \in Tasks : IsOwing(t) => Owing # {}
    BY DEF Owing
  <1>2. \A s \in Submitters : pc[s] = "send" => Sending # {}
    BY DEF Sending
  <1>3. /\ Owing # {} => Cardinality(Owing) # 0
        /\ Sending # {} => Cardinality(Sending) # 0
    BY FiniteCounts, FS_EmptySet
  <1>4. QED
    BY <1>1, <1>2, <1>3, FiniteCounts DEF CountInv

\* Types and labels.
LEMMA StepNext ==
    TypeOK /\ StepInv /\ CountInv /\ [Next]_vars => TypeOK' /\ StepInv'
  <1> SUFFICES ASSUME TypeOK, StepInv, CountInv, [Next]_vars
               PROVE  TypeOK' /\ StepInv'
    OBVIOUS
  <1>0. /\ \A t \in Tasks : IsOwing(t) => wg - 1 \in Nat
        /\ \A s \in Submitters : pc[s] = "send" => wg - 1 \in Nat
    BY DoneIsCounted DEF TypeOK
  <1> USE DEF TypeOK, StepInv, Current, Tasks
  <1>1. ASSUME NEW s \in Submitters, NEW m \in Modes, SubmitOpen(s, m)
         PROVE  TypeOK' /\ StepInv'
    BY <1>1 DEF SubmitOpen
  <1>2. ASSUME NEW s \in Submitters, NEW m \in Modes, SubmitClosed(s, m)
         PROVE  TypeOK' /\ StepInv'
    <2>1. TypeOK'
      BY <1>2 DEF SubmitClosed
    <2>2. \A r \in Submitters : /\ count[r] \in Nat /\ count'[r] \in Nat
                                  /\ count'[r] >= count[r]
      BY <1>2 DEF SubmitClosed
    <2>3. UNCHANGED <<pc, task, chanClosed>>
      BY <1>2 DEF SubmitClosed, taskVars, chanVars
    <2>4. \A r \in Submitters :
            pc[r] \in {"checked", "send"} => count'[r] = count[r]
      BY <1>2 DEF SubmitClosed
    <2>5. \A r \in Submitters : \A n \in 1..MaxTasks :
            n > count'[r] => task'[<<r, n>>] = "none"
      <3> SUFFICES ASSUME NEW r \in Submitters, NEW n \in 1..MaxTasks,
                          n > count'[r]
                   PROVE  task[<<r, n>>] = "none"
        BY <2>3
      <3>1. n > count[r]
        BY <2>2
      <3>2. \A k \in 1..MaxTasks : k > count[r] => task[<<r, k>>] = "none"
        BY Zenon
      <3>3. QED
        BY <3>1, <3>2
    <2>6. \A r \in Submitters :
            pc'[r] \in {"checked", "send"} =>
              <<r, count'[r]>> \in Tasks /\ task'[<<r, count'[r]>>] = "none"
      BY <2>3, <2>4
    <2>7. StepInv'
      BY <2>3, <2>5, <2>6
    <2>8. QED
      BY <2>1, <2>7
  <1>3. ASSUME NEW s \in Submitters, WgAdd(s) PROVE TypeOK' /\ StepInv'
    BY <1>3 DEF WgAdd
  <1>4. ASSUME NEW s \in Submitters, TakeToken(s) PROVE TypeOK' /\ StepInv'
    BY <1>4 DEF TakeToken
  <1>5. ASSUME NEW s \in Submitters, Busy(s) PROVE TypeOK' /\ StepInv'
    BY <1>0, <1>5 DEF Busy, Wakes
  <1>6. ASSUME NEW s \in Submitters, SendOnClosed(s) PROVE TypeOK' /\ StepInv'
    BY <1>6 DEF SendOnClosed
  <1>7. ASSUME NEW t \in Tasks, TaskEnds(t) PROVE TypeOK' /\ StepInv'
    BY <1>7 DEF TaskEnds
  <1>8. ASSUME NEW t \in Tasks, TokenBack(t) PROVE TypeOK' /\ StepInv'
    BY <1>8 DEF TokenBack, ReturnToken
  <1>9. ASSUME NEW t \in Tasks, WgDone(t) PROVE TypeOK' /\ StepInv'
    BY <1>0, <1>9 DEF WgDone, Wakes, IsOwing
  <1>10. ASSUME NEW k \in Closers, CloseFirst(k) PROVE TypeOK' /\ StepInv'
    BY <1>10 DEF CloseFirst
  <1>11. ASSUME NEW k \in Closers, CloseAgain(k) PROVE TypeOK' /\ StepInv'
    BY <1>11 DEF CloseAgain
  <1>12. ASSUME NEW k \in Closers, CloseChan(k) PROVE TypeOK' /\ StepInv'
    BY <1>12 DEF CloseChan
  <1>13. ASSUME NEW k \in Closers, CloseReturns(k) PROVE TypeOK' /\ StepInv'
    BY <1>13 DEF CloseReturns
  <1>14. ASSUME NEW k \in Closers, WaitBlocks(k) PROVE TypeOK' /\ StepInv'
    BY <1>14 DEF WaitBlocks
  <1>15. ASSUME NEW k \in Closers, WaitPanics(k) PROVE TypeOK' /\ StepInv'
    BY <1>15 DEF WaitPanics
  <1>16. CASE UNCHANGED vars
    BY <1>16 DEF vars
  <1> HIDE DEF TypeOK, StepInv, Current, Tasks
  <1>17. QED
    BY <1>1, <1>2, <1>3, <1>4, <1>5, <1>6, <1>7, <1>8, <1>9, <1>10, <1>11,
       <1>12, <1>13, <1>14, <1>15, <1>16
    DEF Next, SubmitStep, TaskStep, CloseStep

\* The counters follow the sets they count.
LEMMA CountNext ==
    TypeOK /\ StepInv /\ CountInv /\ [Next]_vars => CountInv'
  <1> SUFFICES ASSUME TypeOK, StepInv, CountInv, [Next]_vars PROVE CountInv'
    OBVIOUS
  <1> USE DEF TypeOK, StepInv, CountInv
  <1>1. ASSUME NEW s \in Submitters, NEW m \in Modes, SubmitOpen(s, m)
         PROVE  CountInv'
    <2>1. Sending' = Sending /\ Owing' = Owing /\ Holders' = Holders
      BY <1>1 DEF SubmitOpen, Sending, Owing, IsOwing, Holders, HasToken
    <2>2. QED
      BY <1>1, <2>1 DEF SubmitOpen
  <1>2. ASSUME NEW s \in Submitters, NEW m \in Modes, SubmitClosed(s, m)
         PROVE  CountInv'
    <2>1. Sending' = Sending /\ Owing' = Owing /\ Holders' = Holders
      BY <1>2 DEF SubmitClosed, Sending, Owing, IsOwing, Holders, HasToken
    <2>2. QED
      BY <1>2, <2>1 DEF SubmitClosed
  <1>3. ASSUME NEW s \in Submitters, WgAdd(s) PROVE CountInv'
    <2>1. Sending' = Sending \cup {s} /\ s \notin Sending
      BY <1>3 DEF WgAdd, Sending
    <2>2. Owing' = Owing /\ Holders' = Holders
      BY <1>3 DEF WgAdd, Owing, IsOwing, Holders, HasToken
    <2>3. QED
      BY <1>3, <2>1, <2>2, FiniteCounts, CardinalityAdd DEF WgAdd
  <1>4. ASSUME NEW s \in Submitters, TakeToken(s) PROVE CountInv'
    <2> DEFINE t == Current(s)
    <2>1. t \in Tasks /\ task[t] = "none" /\ ~chanClosed
      BY <1>4 DEF TakeToken, StepInv
    <2>2. Sending' = Sending \ {s} /\ s \in Sending
      BY <1>4 DEF TakeToken, Sending
    <2>3. /\ task' = [task EXCEPT ![t] = "run"]
          /\ \A u \in Tasks \ {t} : via'[u] = via[u]
      BY <1>4 DEF TakeToken
    <2> HIDE DEF t
    <2>4. Owing' = Owing \cup {t} /\ t \notin Owing
      BY <2>1, <2>3 DEF Owing, IsOwing
    <2>5. Holders' = Holders \cup {t} /\ t \notin Holders
      BY <2>1, <2>3 DEF Holders, HasToken
    <2>6. Cardinality(Sending') = Cardinality(Sending) - 1
      BY <2>2, FiniteCounts, CardinalityDrop
    <2>7. Cardinality(Owing') = Cardinality(Owing) + 1
      BY <2>4, FiniteCounts, CardinalityAdd
    <2>8. Cardinality(Holders') = Cardinality(Holders) + 1
      BY <2>5, FiniteCounts, CardinalityAdd
    <2>9. QED
      BY <1>4, <2>1, <2>6, <2>7, <2>8, FiniteCounts DEF TakeToken
  <1>5. ASSUME NEW s \in Submitters, Busy(s) PROVE CountInv'
    <2>1. Sending' = Sending \ {s} /\ s \in Sending
      BY <1>5 DEF Busy, Sending, Wakes
    <2>2. Owing' = Owing /\ Holders' = Holders
      BY <1>5 DEF Busy, Owing, IsOwing, Holders, HasToken
    <2>3. Cardinality(Sending') = Cardinality(Sending) - 1
      BY <2>1, FiniteCounts, CardinalityDrop
    <2>4. QED
      BY <1>5, <2>2, <2>3, FiniteCounts DEF Busy
  <1>6. ASSUME NEW s \in Submitters, SendOnClosed(s) PROVE CountInv'
    <2>1. Sending' = Sending /\ Owing' = Owing /\ Holders' = Holders
      BY <1>6 DEF SendOnClosed, Sending, Owing, IsOwing, Holders, HasToken
    <2>2. QED
      BY <1>6, <2>1 DEF SendOnClosed
  <1>7. ASSUME NEW t \in Tasks, TaskEnds(t) PROVE CountInv'
    <2>1. Sending' = Sending /\ Owing' = Owing /\ Holders' = Holders
      BY <1>7 DEF TaskEnds, Sending, Owing, IsOwing, Holders, HasToken
    <2>2. QED
      BY <1>7, <2>1 DEF TaskEnds
  <1>8. ASSUME NEW t \in Tasks, TokenBack(t) PROVE CountInv'
    <2>1. Sending' = Sending
      BY <1>8 DEF TokenBack, Sending
    <2>2. Owing' = Owing
      BY <1>8 DEF TokenBack, Owing, IsOwing
    <2>3. Holders' = Holders \ {t} /\ t \in Holders
      BY <1>8 DEF TokenBack, Holders, HasToken
    <2>4. Cardinality(Holders') = Cardinality(Holders) - 1
      BY <2>3, FiniteCounts, CardinalityDrop
    <2>5. QED
      BY <1>8, <2>1, <2>2, <2>4, FiniteCounts DEF TokenBack, ReturnToken
  <1>9. ASSUME NEW t \in Tasks, WgDone(t) PROVE CountInv'
    <2>1. Sending' = Sending
      BY <1>9 DEF WgDone, Sending, Wakes
    <2>2. Holders' = Holders
      BY <1>9 DEF WgDone, Holders, HasToken
    <2>3. Owing' = Owing \ {t} /\ t \in Owing
      BY <1>9 DEF WgDone, Owing, IsOwing
    <2>4. Cardinality(Owing') = Cardinality(Owing) - 1
      BY <2>3, FiniteCounts, CardinalityDrop
    <2>5. QED
      BY <1>9, <2>1, <2>2, <2>4, FiniteCounts DEF WgDone
  <1>10. ASSUME NEW k \in Closers, CloseFirst(k) PROVE CountInv'
    <2>1. Sending' = Sending /\ Owing' = Owing /\ Holders' = Holders
      BY <1>10 DEF CloseFirst, Sending, Owing, IsOwing, Holders, HasToken
    <2>2. QED
      BY <1>10, <2>1 DEF CloseFirst
  <1>11. ASSUME NEW k \in Closers, CloseAgain(k) PROVE CountInv'
    <2>1. Sending' = Sending /\ Owing' = Owing /\ Holders' = Holders
      BY <1>11 DEF CloseAgain, Sending, Owing, IsOwing, Holders, HasToken
    <2>2. QED
      BY <1>11, <2>1 DEF CloseAgain
  <1>12. ASSUME NEW k \in Closers, CloseChan(k) PROVE CountInv'
    <2>1. Sending' = Sending /\ Owing' = Owing /\ Holders' = Holders
      BY <1>12 DEF CloseChan, Sending, Owing, IsOwing, Holders, HasToken
    <2>2. QED
      BY <1>12, <2>1 DEF CloseChan
  <1>13. ASSUME NEW k \in Closers, CloseReturns(k) PROVE CountInv'
    <2>1. Sending' = Sending /\ Owing' = Owing /\ Holders' = Holders
      BY <1>13 DEF CloseReturns, Sending, Owing, IsOwing, Holders, HasToken
    <2>2. QED
      BY <1>13, <2>1 DEF CloseReturns
  <1>14. ASSUME NEW k \in Closers, WaitBlocks(k) PROVE CountInv'
    <2>1. Sending' = Sending /\ Owing' = Owing /\ Holders' = Holders
      BY <1>14 DEF WaitBlocks, Sending, Owing, IsOwing, Holders, HasToken
    <2>2. QED
      BY <1>14, <2>1 DEF WaitBlocks
  <1>15. ASSUME NEW k \in Closers, WaitPanics(k) PROVE CountInv'
    <2>1. Sending' = Sending /\ Owing' = Owing /\ Holders' = Holders
      BY <1>15 DEF WaitPanics, Sending, Owing, IsOwing, Holders, HasToken
    <2>2. QED
      BY <1>15, <2>1 DEF WaitPanics
  <1>16. CASE UNCHANGED vars
    BY <1>16 DEF vars, Sending, Owing, IsOwing, Holders, HasToken
  <1>17. QED
    BY <1>1, <1>2, <1>3, <1>4, <1>5, <1>6, <1>7, <1>8, <1>9, <1>10, <1>11,
       <1>12, <1>13, <1>14, <1>15, <1>16
    DEF Next, SubmitStep, TaskStep, CloseStep

\* A task starts only with a token of its own.
LEMMA StartSteps ==
    ASSUME TypeOK, StepInv, [Next]_vars
    PROVE  \/ ~chanClosed /\ ~chanClosed' /\ UNCHANGED status
           \/ Running' \subseteq Running /\ Owing' \subseteq Owing
  <1> USE DEF TypeOK, StepInv, Running, Owing, IsOwing
  <1>1. ASSUME NEW s \in Submitters, TakeToken(s)
         PROVE  ~chanClosed /\ ~chanClosed' /\ UNCHANGED status
    BY <1>1 DEF TakeToken
  <1>2. CASE UNCHANGED taskVars
    BY <1>2
  <1>3. ASSUME NEW t \in Tasks, TaskStep(t)
         PROVE  Running' \subseteq Running /\ Owing' \subseteq Owing
    BY <1>3 DEF TaskStep, TaskEnds, TokenBack, WgDone
  <1>4. QED
    BY <1>1, <1>2, <1>3
       DEF vars, Next, SubmitStep, CloseStep, SubmitOpen, SubmitClosed, WgAdd,
           Busy, SendOnClosed, CloseFirst, CloseAgain, CloseChan, WaitBlocks,
           CloseReturns, WaitPanics

\* Tasks run with a token each, or were running when the channel was closed.
LEMMA LimitNext ==
    ASSUME TypeOK, StepInv, CountInv, ConcurrencyLimit, [Next]_vars
    PROVE  ConcurrencyLimit'
  <1>1. TypeOK' /\ CountInv'
    BY StepNext, CountNext
  <1>2. CASE ~chanClosed'
    <2>1. Running' \in SUBSET Holders'
      BY DEF Running, Holders, HasToken
    <2>2. Cardinality(Running') <= Cardinality(Holders')
      BY <2>1, FiniteCountsNext, FS_Subset
    <2>3. Cardinality(Running') <= LimitSize
      BY <1>1, <1>2, <2>2, FiniteCountsNext DEF TypeOK, CountInv
    <2>4. QED
      BY <2>3 DEF ConcurrencyLimit, Running
  <1>3. CASE Running' \subseteq Running
    <2>1. Cardinality(Running') <= Cardinality(Running)
      BY <1>3, FiniteCounts, FS_Subset
    <2>2. Cardinality(Running') <= LimitSize
      BY <2>1, FiniteCounts, FiniteCountsNext DEF ConcurrencyLimit, Running
    <2>3. QED
      BY <2>2 DEF ConcurrencyLimit, Running
  <1>4. QED
    BY <1>2, <1>3, StartSteps

\* Close returns when the WaitGroup is empty, and then no task can start.
LEMMA ClosedNext ==
    ASSUME TypeOK, StepInv, CountInv, ClosedInv, [Next]_vars
    PROVE  ClosedInv'
  <1> SUFFICES ASSUME NEW k \in Closers, pc'[k] = "closed" PROVE Owing' = {}
    BY DEF ClosedInv
  <1>1. CASE pc[k] = "closed"
    BY <1>1, StartSteps DEF ClosedInv, StepInv
  <1>2. CASE CloseReturns(k)
    <2>1. Owing' = Owing
      BY <1>2 DEF CloseReturns, Owing, IsOwing
    <2>2. Cardinality(Owing) = 0
      BY <1>2, FiniteCounts DEF CloseReturns, CountInv
    <2>3. QED
      BY <2>1, <2>2, FiniteCounts, FS_EmptySet
  <1>3. QED
    BY <1>1, <1>2
       DEF vars, Next, SubmitStep, TaskStep, CloseStep, TypeOK, SubmitOpen,
           SubmitClosed, WgAdd, TakeToken, Busy, SendOnClosed, TaskEnds,
           TokenBack, WgDone, Wakes, CloseFirst, CloseAgain, CloseChan,
           WaitBlocks, CloseReturns, WaitPanics

\* Every step preserves the invariant.
THEOREM InvNext == Inv /\ [Next]_vars => Inv'
  BY StepNext, CountNext, LimitNext, ClosedNext DEF Inv

\* The invariant holds in every reachable state.
THEOREM Invariance == Spec => []Inv
  BY InvInit, InvNext, PTL DEF Spec

-----------------------------------------------------------------------------
(* The properties *)

\* Every variable has its type: limitChan respects its capacity, and the
\* WaitGroup is never counted down below zero, which would panic, in whatever
\* order tokens are given back, tasks leave the group and submitters are refused.
THEOREM TypeCorrect == Spec => []TypeOK
  <1>1. Inv => TypeOK
    BY DEF Inv
  <1>2. QED
    BY <1>1, Invariance, PTL

\* At most LimitSize tasks run at the same time, also while the runner is being
\* closed and receives from the closed channel give out tokens nobody put in.
THEOREM Limited == Spec => []ConcurrencyLimit
  <1>1. Inv => ConcurrencyLimit
    BY DEF Inv
  <1>2. QED
    BY <1>1, Invariance, PTL

\* When the call of Close that closed the runner has returned, no accepted task
\* runs, now or later.
THEOREM CloseWaits == Spec => []CloseWaitsForTasks
  <1>1. Inv => CloseWaitsForTasks
    BY DEF Inv, ClosedInv, Owing, IsOwing, CloseWaitsForTasks
  <1>2. QED
    BY <1>1, Invariance, PTL

HIDE RunnerAssumption

-----------------------------------------------------------------------------
(* TimerManager *)

USE TimerAssumption

\* The types of what is neither in the heap nor in the queue.
TypeInv ==
  /\ lastId \in 0..MaxTimers
  /\ interval \in [Ids -> Intervals \cup {0}]
  /\ phase \in {"idle", "collect", "exec", "callback"}
  /\ now \in Times
  /\ limit \in Limits \cup {0}
  /\ left \in Nat
  /\ calls \in Nat
  /\ cur \in 0..MaxTimers
  /\ fired \subseteq Ids
  /\ removed \subseteq Ids

\* The end of the timer at position k.
Key(h, k) == h.end[h.q[k + 1]]

\* Every timer of the heap knows its position, and no other has one.
Indexed(h) ==
  /\ \A k \in 0..(Len(h.q) - 1) : h.index[h.q[k + 1]] = k
  /\ \A t \in Ids \ Range(h.q) : h.index[t] = -1

\* The timer at k is not earlier than its parent; the first n timers are in
\* heap order.
InOrder(h, k) == Key(h, Parent(k)) <= Key(h, k)
Ordered(h, n) == \A k \in 1..(n - 1) : InOrder(h, k)

HeapOK(h) == h \in Heaps /\ Indexed(h) /\ Ordered(h, Len(h.q))

Queues(c) == [data : [0..(c - 1) -> Ids \cup {0}], begin : 0..c, end : 0..c, capacity : {c}]

\* A queue of timers in a slice that has room for them.
QueueOK(q) ==
  /\ q.capacity \in Nat \ {0} /\ q \in Queues(q.capacity)
  /\ q.begin <= q.end
  /\ \A i \in q.begin..(q.end - 1) : q.data[i] \in Ids

\* Nobody has seen a timer that was not added yet.
NewInv ==
  \A t \in Ids : t > lastId => t \notin Range(tq) \cup Range(ToCall) \cup fired

\* Where a single timer is, R being the scheduled ones, s those to call and F
\* those that were called: scheduled, to be called once, or called.
Placed(t, R, s, F) ==
  \/ t \in R /\ Occurrences(t, s) = {} /\ t \notin F
  \/ t \notin R /\ t \notin F /\ \E i \in 1..Len(s) : Occurrences(t, s) = {i}
  \/ t \notin R /\ Occurrences(t, s) = {} /\ t \in F

\* Where a timer is until it is removed.
WhereInv ==
  \A t \in 1..lastId : t \notin removed =>
    IF interval[t] > 0 THEN t \in Range(tq)
                       ELSE Placed(t, Range(tq), ToCall, fired)

\* The calls of a Run, and those to come.
MostCalls == IF left < limit THEN limit ELSE left + 1
LimitInv ==
  limit > 0 =>
    /\ calls + Q!Size(queue) <= MostCalls
    /\ phase = "collect" => calls = 0 /\ (Q!Size(queue) < limit \/ Q!Size(queue) = left)

TimerInv == TypeInv /\ HeapOK(Heap) /\ QueueOK(queue) /\ NewInv /\ WhereInv /\ LimitInv

-----------------------------------------------------------------------------
(* Induction over sets of numbers *)

\* A set that has 0 and the successors of its numbers has every number.
LEMMA SetInduction ==
    ASSUME NEW T, 0 \in T, \A n \in Nat : n \in T => n + 1 \in T
    PROVE  Nat \subseteq T
  <1> DEFINE R == {p \in Nat \X Nat : p[1] < p[2]}
  <1> SUFFICES ASSUME Nat \ T # {} PROVE FALSE
    OBVIOUS
  <1>1. IsWellFoundedOn(R, Nat)
    BY NatLessThanWellFounded DEF OpToRel
  <1> HIDE DEF R
  <1>2. Nat \ T \subseteq Nat
    OBVIOUS
  <1>3. PICK x \in Nat \ T : \A y \in Nat \ T : ~(<<y, x>> \in R)
    BY <1>1, <1>2, WFMin
  <1>4. x # 0 /\ x - 1 \in Nat
    OBVIOUS
  <1>5. x - 1 \notin T
    BY <1>4
  <1>6. <<x - 1, x>> \in R
    BY <1>4 DEF R
  <1>7. QED
    BY <1>3, <1>4, <1>5, <1>6

-----------------------------------------------------------------------------
(* The recursive functions *)

\* A parent is before its children, which are the next two of twice its
\* position.
LEMMA ParentFacts ==
    ASSUME NEW k \in Nat \ {0}
    PROVE  /\ Parent(k) \in Nat /\ Parent(k) < k
           /\ k = 2 * Parent(k) + 1 \/ k = 2 * Parent(k) + 2
  BY DEF Parent

UpBody(g, j) ==
  [h \in Heaps |->
     IF j = 0 \/ ~Less(h, j, Parent(j)) THEN h
     ELSE g[Parent(j)][Swap(h, Parent(j), j)]]

\* The recursive function up exists, and unfolds.
LEMMA UpDef == up = [j \in Positions |-> UpBody(up, j)]
  <1> DEFINE T == {k \in Nat : \E g : g = [j \in 0..k |-> UpBody(g, j)]}
  <1>1. 0 \in T
    <2> DEFINE g == [j \in 0..0 |-> [h \in Heaps |-> h]]
    <2>1. \A j \in 0..0 : UpBody(g, j) = [h \in Heaps |-> h]
      BY DEF UpBody
    <2>2. g = [j \in 0..0 |-> UpBody(g, j)]
      BY <2>1
    <2>3. QED
      BY <2>2
  <1>2. \A k \in Nat : k \in T => k + 1 \in T
    <2> SUFFICES ASSUME NEW k \in Nat, NEW g, g = [j \in 0..k |-> UpBody(g, j)]
                 PROVE  \E f : f = [j \in 0..(k + 1) |-> UpBody(f, j)]
      OBVIOUS
    <2> DEFINE f == [j \in 0..(k + 1) |-> IF j = k + 1 THEN UpBody(g, j) ELSE g[j]]
    <2>1. \A j \in 0..(k + 1) : UpBody(f, j) = UpBody(g, j)
      <3> SUFFICES ASSUME NEW j \in 0..(k + 1) PROVE UpBody(f, j) = UpBody(g, j)
        OBVIOUS
      <3>1. j # 0 => f[Parent(j)] = g[Parent(j)]
        BY ParentFacts
      <3> HIDE DEF f
      <3>2. QED
        BY <3>1 DEF UpBody
    <2>2. \A j \in 0..(k + 1) : f[j] = UpBody(g, j)
      <3> SUFFICES ASSUME NEW j \in 0..(k + 1) PROVE f[j] = UpBody(g, j)
        OBVIOUS
      <3>1. CASE j = k + 1
        BY <3>1
      <3>2. CASE j \in 0..k
        BY <3>2
      <3>3. QED
        BY <3>1, <3>2
    <2>3. f = [j \in 0..(k + 1) |-> UpBody(f, j)]
      BY <2>1, <2>2
    <2>4. QED
      BY <2>3
  <1>3. TqSize \in T
    <2> HIDE DEF T
    <2>1. QED
      BY <1>1, <1>2, SetInduction
  <1>4. \E g : g = [j \in Positions |-> UpBody(g, j)]
    BY <1>3 DEF Positions
  <1>5. QED
    BY <1>4 DEF up, UpBody

DownBody(g, i) ==
  [h \in Heaps |->
     LET n == Len(h.q) - 1
         j == LeastChild(h, i, n)
     IN IF 2 * i + 1 >= n \/ ~Less(h, j, i) THEN h ELSE g[j][Swap(h, i, j)]]

\* The child that down looks at comes after its parent.
LEMMA ChildFacts ==
    ASSUME NEW h \in Heaps, NEW i \in Positions, 2 * i + 1 < Len(h.q) - 1
    PROVE  LET j == LeastChild(h, i, Len(h.q) - 1)
           IN  /\ j \in (i + 1)..(Len(h.q) - 2)
               /\ j \in Positions
               /\ j = 2 * i + 1 \/ j = 2 * i + 2
  <1>1. Len(h.q) \in Nat /\ Len(h.q) <= TqSize
    BY DEF Heaps
  <1>2. QED
    BY <1>1 DEF LeastChild, Positions

\* The recursive function down exists, and unfolds.
LEMMA DownDef == down = [i \in Positions |-> DownBody(down, i)]
  <1> DEFINE Dom(k) == (TqSize - k)..TqSize
             T == {k \in Nat : k <= TqSize =>
                     \E g : g = [i \in Dom(k) |-> DownBody(g, i)]}
  <1>1. 0 \in T
    <2> DEFINE g == [i \in {TqSize} |-> [h \in Heaps |-> h]]
    <2>1. DownBody(g, TqSize) = [h \in Heaps |-> h]
      <3>1. \A h \in Heaps : 2 * TqSize + 1 >= Len(h.q) - 1
        BY DEF Heaps
      <3>2. QED
        BY <3>1 DEF DownBody
    <2>2. g = [i \in {TqSize} |-> DownBody(g, i)]
      BY <2>1
    <2>3. Dom(0) = {TqSize}
      OBVIOUS
    <2>4. QED
      BY <2>2, <2>3
  <1>2. \A k \in Nat : k \in T => k + 1 \in T
    <2> SUFFICES ASSUME NEW k \in Nat, k + 1 <= TqSize,
                        NEW g, g = [i \in Dom(k) |-> DownBody(g, i)]
                 PROVE  \E f : f = [i \in Dom(k + 1) |-> DownBody(f, i)]
      OBVIOUS
    <2> DEFINE a == TqSize - (k + 1)
    <2>1. a \in Nat /\ a <= TqSize /\ Dom(k) = (a + 1)..TqSize
          /\ Dom(k + 1) = a..TqSize
      OBVIOUS
    <2> HIDE DEF a, Dom
    <2> DEFINE f == [i \in a..TqSize |-> IF i = a THEN DownBody(g, i) ELSE g[i]]
    <2>2. \A i \in a..TqSize : DownBody(f, i) = DownBody(g, i)
      <3> SUFFICES ASSUME NEW i \in a..TqSize PROVE DownBody(f, i) = DownBody(g, i)
        OBVIOUS
      <3>1. ASSUME NEW h \in Heaps, 2 * i + 1 < Len(h.q) - 1
            PROVE  LET j == LeastChild(h, i, Len(h.q) - 1) IN f[j] = g[j]
        BY <2>1, <3>1, ChildFacts DEF Positions
      <3>2. \A h \in Heaps : Len(h.q) \in Nat
        BY DEF Heaps
      <3> HIDE DEF f
      <3>3. QED
        BY <2>1, <3>1, <3>2 DEF DownBody
    <2>3. \A i \in a..TqSize : f[i] = DownBody(g, i)
      <3> SUFFICES ASSUME NEW i \in a..TqSize PROVE f[i] = DownBody(g, i)
        OBVIOUS
      <3>1. CASE i = a
        BY <3>1
      <3>2. CASE i \in (a + 1)..TqSize
        BY <2>1, <3>2
      <3>3. QED
        BY <2>1, <3>1, <3>2
    <2>4. f = [i \in a..TqSize |-> DownBody(f, i)]
      BY <2>2, <2>3
    <2>5. QED
      BY <2>1, <2>4
  <1>3. TqSize \in T
    <2> HIDE DEF T
    <2>1. QED
      BY <1>1, <1>2, SetInduction
  <1>4. Dom(TqSize) = Positions
    BY DEF Positions
  <1>5. \E g : g = [i \in Positions |-> DownBody(g, i)]
    BY <1>3, <1>4
  <1>6. QED
    BY <1>5 DEF down, DownBody

-----------------------------------------------------------------------------
(* Swap, up and down *)

\* One step of up.
LEMMA UpUnfolds ==
    ASSUME NEW h \in Heaps, NEW j \in Positions
    PROVE  up[j][h] = IF j = 0 \/ ~Less(h, j, Parent(j)) THEN h
                      ELSE up[Parent(j)][Swap(h, Parent(j), j)]
  <1>1. up[j] = UpBody(up, j)
    BY UpDef
  <1>2. QED
    BY <1>1 DEF UpBody

\* One step of down.
LEMMA DownUnfolds ==
    ASSUME NEW h \in Heaps, NEW i \in Positions
    PROVE  LET n == Len(h.q) - 1
               j == LeastChild(h, i, n)
           IN  down[i][h] = IF 2 * i + 1 >= n \/ ~Less(h, j, i) THEN h
                            ELSE down[j][Swap(h, i, j)]
  <1>1. down[i] = DownBody(down, i)
    BY DownDef
  <1>2. QED
    BY <1>1 DEF DownBody

\* r is h with its timers in another order.
Reordered(r, h) ==
  /\ r \in Heaps
  /\ Indexed(r)
  /\ Len(r.q) = Len(h.q)
  /\ r.end = h.end
  /\ Range(r.q) = Range(h.q)

\* What a heap is made of.
LEMMA HeapFields ==
    ASSUME NEW h \in Heaps
    PROVE  /\ h = [q |-> h.q, end |-> h.end, index |-> h.index]
           /\ h.q \in Seq(Ids) /\ Len(h.q) \in Nat /\ Len(h.q) <= TqSize
           /\ h.end \in [Ids -> Nat] /\ h.index \in [Ids -> Int]
           /\ \A k \in 0..(Len(h.q) - 1) : h.q[k + 1] \in Ids /\ Key(h, k) \in Nat
  BY DEF Heaps, Key

\* The elements of a sequence of timers.
LEMMA RangeFacts ==
    ASSUME NEW s \in Seq(Ids)
    PROVE  Range(s) = {s[i] : i \in 1..Len(s)} /\ Range(s) \subseteq Ids
  BY DEF Range

\* Two sequences of the same timers.
LEMMA SameRange ==
    ASSUME NEW s \in Seq(Ids), NEW r \in Seq(Ids),
           \A k \in 1..Len(s) : \E l \in 1..Len(r) : s[k] = r[l],
           \A k \in 1..Len(r) : \E l \in 1..Len(s) : r[k] = s[l]
    PROVE  Range(s) = Range(r)
  <1>1. Range(s) = {s[i] : i \in 1..Len(s)} /\ Range(r) = {r[i] : i \in 1..Len(r)}
    BY RangeFacts
  <1>2. Range(s) \subseteq Range(r)
    BY <1>1
  <1>3. Range(r) \subseteq Range(s)
    BY <1>1
  <1>4. QED
    BY <1>2, <1>3

\* Swap exchanges two timers and their positions, and nothing else.
LEMMA SwapFacts ==
    ASSUME NEW h \in Heaps, Indexed(h),
           NEW i \in 0..(Len(h.q) - 1), NEW j \in 0..(Len(h.q) - 1)
    PROVE  LET s == Swap(h, i, j)
           IN  /\ Reordered(s, h)
               /\ s.q[i + 1] = h.q[j + 1] /\ s.q[j + 1] = h.q[i + 1]
               /\ \A k \in 0..(Len(h.q) - 1) \ {i, j} : s.q[k + 1] = h.q[k + 1]
               /\ Key(s, i) = Key(h, j) /\ Key(s, j) = Key(h, i)
               /\ \A k \in 0..(Len(h.q) - 1) \ {i, j} : Key(s, k) = Key(h, k)
  <1> DEFINE s == Swap(h, i, j)
             a == h.q[i + 1]
             b == h.q[j + 1]
             q == [h.q EXCEPT ![i + 1] = b, ![j + 1] = a]
             x == [h.index EXCEPT ![b] = i, ![a] = j]
  <1>2. a \in Ids /\ b \in Ids /\ h.index[a] = i /\ h.index[b] = j
    BY HeapFields DEF Indexed
  <1>3. q \in Seq(Ids) /\ Len(q) = Len(h.q)
    <2>1. h.q \in Seq(Ids) /\ Len(h.q) \in Nat
      BY HeapFields
    <2>2. i + 1 \in 1..Len(h.q) /\ j + 1 \in 1..Len(h.q)
      BY <2>1
    <2> HIDE DEF a, b
    <2>3. QED
      BY <1>2, <2>1, <2>2
  <1>4. x \in [Ids -> Int]
    <2>1. h.index \in [Ids -> Int] /\ i \in Int /\ j \in Int
      BY HeapFields
    <2> HIDE DEF a, b
    <2>2. QED
      BY <1>2, <2>1
  <1>5. s \in Heaps /\ s.q = q /\ s.end = h.end /\ s.index = x
    <2>1. s = [h EXCEPT !.q = q, !.index = x]
      BY DEF Swap
    <2> HIDE DEF s, q, x
    <2>2. QED
      BY <1>3, <1>4, <2>1 DEF Heaps
  <1>7. /\ q[i + 1] = b /\ q[j + 1] = a
        /\ \A k \in 0..(Len(h.q) - 1) \ {i, j} : q[k + 1] = h.q[k + 1]
    BY HeapFields
  <1>8. \A k \in 0..(Len(h.q) - 1) : x[q[k + 1]] = k
    <2> SUFFICES ASSUME NEW k \in 0..(Len(h.q) - 1) PROVE x[q[k + 1]] = k
      OBVIOUS
    <2>1. CASE k = i
      BY <1>2, <1>7, <2>1, HeapFields
    <2>2. CASE k = j
      BY <1>2, <1>7, <2>2, HeapFields
    <2>3. CASE k # i /\ k # j
      <3>1. q[k + 1] = h.q[k + 1] /\ h.q[k + 1] \in Ids /\ h.index[h.q[k + 1]] = k
        BY <1>7, <2>3, HeapFields DEF Indexed
      <3>2. h.q[k + 1] # a /\ h.q[k + 1] # b
        BY <1>2, <2>3, <3>1
      <3>3. QED
        BY <3>1, <3>2, HeapFields
    <2>4. QED
      BY <2>1, <2>2, <2>3
  <1>9. Range(q) = Range(h.q)
    <2> HIDE DEF q
    <2>1. /\ i + 1 \in 1..Len(h.q) /\ j + 1 \in 1..Len(h.q)
          /\ \A k \in 1..Len(h.q) \ {i + 1, j + 1} : q[k] = h.q[k]
      <3>1. Len(h.q) \in Nat
        BY HeapFields
      <3>2. \A k \in 1..Len(h.q) \ {i + 1, j + 1} :
              k - 1 \in 0..(Len(h.q) - 1) \ {i, j} /\ (k - 1) + 1 = k
        BY <3>1
      <3>3. \A k \in 1..Len(h.q) \ {i + 1, j + 1} : q[(k - 1) + 1] = h.q[(k - 1) + 1]
        BY <1>7, <3>2
      <3>4. QED
        BY <3>1, <3>2, <3>3
    <2> HIDE DEF a, b
    <2> DEFINE L == 1..Len(h.q)
               u == i + 1
               v == j + 1
    <2>5. /\ u \in L /\ v \in L /\ q[u] = h.q[v] /\ q[v] = h.q[u]
          /\ \A k \in L \ {u, v} : q[k] = h.q[k]
      BY <1>7, <2>1 DEF a, b
    <2> HIDE DEF L, u, v
    <2>2. \A k \in L : \E l \in L : q[k] = h.q[l]
      BY <2>5
    <2>3. \A k \in L : \E l \in L : h.q[k] = q[l]
      BY <2>5
    <2> USE DEF L
    <2>4. h.q \in Seq(Ids) /\ q \in Seq(Ids) /\ Len(q) = Len(h.q)
      BY <1>3, HeapFields
    <2>6. /\ \A k \in 1..Len(q) : \E l \in 1..Len(h.q) : q[k] = h.q[l]
          /\ \A k \in 1..Len(h.q) : \E l \in 1..Len(q) : h.q[k] = q[l]
      BY <2>2, <2>3, <2>4
    <2>7. QED
      BY <2>4, <2>6, SameRange
  <1>10. \A t \in Ids \ Range(q) : x[t] = -1
    <2> SUFFICES ASSUME NEW t \in Ids \ Range(h.q) PROVE x[t] = -1
      BY <1>9
    <2>1. a \in Range(h.q) /\ b \in Range(h.q)
      <3>1. i + 1 \in 1..Len(h.q) /\ j + 1 \in 1..Len(h.q)
        BY HeapFields
      <3>2. Range(h.q) = {h.q[k] : k \in 1..Len(h.q)}
        BY HeapFields, RangeFacts
      <3>3. QED
        BY <3>1, <3>2
    <2>2. t # a /\ t # b /\ h.index[t] = -1
      BY <2>1 DEF Indexed
    <2>3. QED
      BY <2>2, HeapFields
  <1> HIDE DEF s, q, x
  <1>11. Reordered(s, h)
    BY <1>3, <1>5, <1>8, <1>9, <1>10 DEF Reordered, Indexed
  <1>12. /\ Key(s, i) = Key(h, j) /\ Key(s, j) = Key(h, i)
         /\ \A k \in 0..(Len(h.q) - 1) \ {i, j} : Key(s, k) = Key(h, k)
    BY <1>5, <1>7 DEF Key, a, b
  <1>13. QED
    BY <1>5, <1>7, <1>11, <1>12 DEF s, a, b

\* Reordering twice is reordering.
LEMMA ReorderedTwice ==
    ASSUME NEW h, NEW s, NEW r, Reordered(s, h), Reordered(r, s)
    PROVE  Reordered(r, h)
  BY DEF Reordered

\* heap.up is called at j: the timer there may be too early, for its parent
\* and thus for the others above, but its children are not.
UpPre(h, j, n) ==
  /\ j \in 0..(n - 1) /\ n \in 0..Len(h.q)
  /\ \A k \in 1..(n - 1) : k # j => InOrder(h, k)
  /\ j > 0 => \A k \in 1..(n - 1) : Parent(k) = j => Key(h, Parent(j)) <= Key(h, k)

\* A swap of up hands what up needs to its next step, at the parent.
LEMMA UpStep ==
    ASSUME NEW h \in Heaps, Indexed(h), NEW j \in Nat \ {0}, NEW n,
           UpPre(h, j, n), Less(h, j, Parent(j))
    PROVE  UpPre(Swap(h, Parent(j), j), Parent(j), n)
  <1> DEFINE p == Parent(j)
             s == Swap(h, p, j)
  <1>1. /\ p \in Nat /\ p < j /\ j < n /\ n \in Nat /\ n <= Len(h.q) /\ Len(h.q) \in Nat
    BY ParentFacts, HeapFields DEF UpPre
  <1>2. /\ Key(s, p) = Key(h, j) /\ Key(s, j) = Key(h, p)
        /\ \A k \in 0..(Len(h.q) - 1) \ {p, j} : Key(s, k) = Key(h, k)
        /\ Len(s.q) = Len(h.q)
    <2>1. p \in 0..(Len(h.q) - 1) /\ j \in 0..(Len(h.q) - 1)
      BY <1>1
    <2>2. QED
      BY <2>1, SwapFacts DEF Reordered
  <1>3. \A k \in 0..(n - 1) : Key(h, k) \in Nat
    BY <1>1, HeapFields
  <1>4. Key(h, j) < Key(h, p)
    BY <1>1 DEF Less, Key
  <1>5. \A k \in 1..(n - 1) : Parent(k) \in 0..(k - 1) /\ Parent(k) \in 0..(n - 1)
    BY <1>1, ParentFacts
  <1> HIDE DEF p, s
  <1>6. ASSUME NEW k \in 1..(n - 1), k # p PROVE InOrder(s, k)
    <2>1. CASE k = j
      <3>1. Key(s, Parent(k)) = Key(h, j) /\ Key(s, k) = Key(h, p)
        BY <1>2, <2>1 DEF p
      <3>2. QED
        BY <1>1, <1>3, <1>4, <3>1 DEF InOrder
    <2>2. CASE k # j /\ Parent(k) = p
      <3>1. Key(s, Parent(k)) = Key(h, j) /\ Key(s, k) = Key(h, k)
        BY <1>1, <1>2, <1>6, <2>2
      <3>2. Key(h, p) <= Key(h, k)
        BY <2>2, <1>6 DEF UpPre, InOrder
      <3>3. QED
        BY <1>1, <1>3, <1>4, <3>1, <3>2 DEF InOrder
    <2>3. CASE k # j /\ Parent(k) = j
      <3>1. Key(s, Parent(k)) = Key(h, p) /\ Key(s, k) = Key(h, k)
        BY <1>1, <1>2, <1>6, <2>3
      <3>2. Key(h, p) <= Key(h, k)
        BY <2>3, <1>6 DEF UpPre, p
      <3>3. QED
        BY <3>1, <3>2 DEF InOrder
    <2>4. CASE k # j /\ Parent(k) # p /\ Parent(k) # j
      <3>1. /\ Parent(k) \in 0..(Len(h.q) - 1) \ {p, j}
            /\ k \in 0..(Len(h.q) - 1) \ {p, j}
        <4>1. Parent(k) \in 0..(n - 1) /\ k \in 0..(n - 1)
          BY <1>1, <1>5
        <4>2. QED
          BY <1>1, <1>6, <2>4, <4>1
      <3>2. Key(s, Parent(k)) = Key(h, Parent(k)) /\ Key(s, k) = Key(h, k)
        BY <1>2, <3>1
      <3>3. QED
        BY <3>2, <2>4, <1>6 DEF UpPre, InOrder
    <2>5. QED
      BY <2>1, <2>2, <2>3, <2>4
  <1>7. ASSUME p > 0, NEW k \in 1..(n - 1), Parent(k) = p
        PROVE  Key(s, Parent(p)) <= Key(s, k)
    <2>1. Parent(p) \in 0..(p - 1)
      BY <1>1, <1>7, ParentFacts
    <2>2. Key(s, Parent(p)) = Key(h, Parent(p))
      BY <1>1, <1>2, <2>1
    <2>3. Key(h, Parent(p)) <= Key(h, p)
      BY <1>1, <1>7 DEF UpPre, InOrder
    <2>4. CASE k = j
      BY <1>2, <2>2, <2>3, <2>4
    <2>5. CASE k # j
      <3>1. k # p
        BY <1>1, <1>5, <1>7
      <3>2. Key(s, k) = Key(h, k)
        BY <1>1, <1>2, <2>5, <3>1
      <3>3. Key(h, p) <= Key(h, k)
        BY <1>7, <2>5 DEF UpPre, InOrder
      <3>4. QED
        BY <1>1, <1>3, <2>1, <2>2, <2>3, <3>2, <3>3
    <2>6. QED
      BY <2>4, <2>5
  <1>8. p \in 0..(n - 1) /\ n \in 0..Len(s.q)
    BY <1>1, <1>2
  <1>9. QED
    BY <1>6, <1>7, <1>8 DEF UpPre, p, s

\* What up does to a heap whose timer at j may be too early.
UpResult(r, h, j, n) ==
  /\ Reordered(r, h)
  /\ Ordered(r, n)
  /\ \A k \in (j + 1)..(Len(h.q) - 1) : r.q[k + 1] = h.q[k + 1]

\* A heap is a reordering of itself.
LEMMA ReorderedSelf == ASSUME NEW h \in Heaps, Indexed(h) PROVE Reordered(h, h)
  BY DEF Reordered

\* One step of up leaves the rest to the next.
LEMMA UpOne ==
    ASSUME NEW h \in Heaps, Indexed(h), NEW j \in Nat, NEW n, UpPre(h, j, n),
           \A i \in 0..(j - 1), g \in Heaps :
             Indexed(g) /\ UpPre(g, i, n) => UpResult(up[i][g], g, i, n)
    PROVE  UpResult(up[j][h], h, j, n)
  <1>1. j \in 0..(n - 1) /\ n \in 0..Len(h.q) /\ j \in Positions
    BY HeapFields DEF UpPre, Positions
  <1>2. CASE j = 0 \/ ~Less(h, j, Parent(j))
    <2>1. up[j][h] = h
      BY <1>1, <1>2, UpUnfolds
    <2>2. ASSUME NEW k \in 1..(n - 1) PROVE InOrder(h, k)
      <3>1. CASE k # j
        BY <3>1 DEF UpPre
      <3>2. CASE k = j
        <4>1. Parent(j) \in 0..(Len(h.q) - 1) /\ j \in 0..(Len(h.q) - 1)
          BY <1>1, <3>2, HeapFields, ParentFacts
        <4>2. Key(h, Parent(j)) \in Nat /\ Key(h, j) \in Nat
          BY <4>1, HeapFields
        <4>3. ~(Key(h, j) < Key(h, Parent(j)))
          BY <1>2, <3>2 DEF Less, Key
        <4>4. QED
          BY <3>2, <4>2, <4>3 DEF InOrder
      <3>3. QED
        BY <3>1, <3>2
    <2>3. Ordered(h, n)
      BY <2>2 DEF Ordered
    <2>4. QED
      BY <2>1, <2>3, ReorderedSelf DEF UpResult
  <1>3. CASE j # 0 /\ Less(h, j, Parent(j))
    <2> DEFINE p == Parent(j)
               s == Swap(h, p, j)
    <2>1. p \in 0..(j - 1) /\ j \in Nat \ {0}
      BY <1>3, ParentFacts
    <2>2. UpPre(s, p, n)
      BY <1>3, <2>1, UpStep
    <2>3. /\ Reordered(s, h)
          /\ \A k \in 0..(Len(h.q) - 1) \ {p, j} : s.q[k + 1] = h.q[k + 1]
      <3>1. p \in 0..(Len(h.q) - 1) /\ j \in 0..(Len(h.q) - 1)
        BY <1>1, <2>1, HeapFields
      <3>2. QED
        BY <3>1, SwapFacts
    <2>4. up[j][h] = up[p][s]
      BY <1>1, <1>3, UpUnfolds
    <2> HIDE DEF p, s
    <2>5. UpResult(up[p][s], s, p, n)
      BY <2>1, <2>2, <2>3 DEF Reordered
    <2>6. Reordered(up[p][s], h)
      BY <2>3, <2>5, ReorderedTwice DEF UpResult
    <2>7. \A k \in (j + 1)..(Len(h.q) - 1) : up[p][s].q[k + 1] = h.q[k + 1]
      <3> SUFFICES ASSUME NEW k \in (j + 1)..(Len(h.q) - 1)
                   PROVE  up[p][s].q[k + 1] = h.q[k + 1]
        OBVIOUS
      <3>1. k \in 0..(Len(h.q) - 1) \ {p, j} /\ k \in (p + 1)..(Len(h.q) - 1)
        BY <2>1, HeapFields
      <3>2. QED
        BY <2>3, <2>5, <3>1 DEF UpResult, Reordered
    <2>8. QED
      BY <2>4, <2>5, <2>6, <2>7 DEF UpResult
  <1>4. QED
    BY <1>2, <1>3

\* heap.up restores the order.
LEMMA UpGood ==
    ASSUME NEW h \in Heaps, Indexed(h), NEW j \in Nat, NEW n, UpPre(h, j, n)
    PROVE  UpResult(up[j][h], h, j, n)
  <1> DEFINE Good(i) == \A g \in Heaps :
               Indexed(g) /\ UpPre(g, i, n) => UpResult(up[i][g], g, i, n)
             T == {m \in Nat : \A i \in 0..m : Good(i)}
  <1>1. \A m \in Nat : (\A i \in 0..(m - 1) : Good(i)) => Good(m)
    BY UpOne
  <1> HIDE DEF Good
  <1>2. 0 \in T
    BY <1>1
  <1>3. \A m \in Nat : m \in T => m + 1 \in T
    <2> SUFFICES ASSUME NEW m \in Nat, \A i \in 0..m : Good(i)
                 PROVE  \A i \in 0..(m + 1) : Good(i)
      OBVIOUS
    <2>1. Good(m + 1)
      <3>1. m + 1 \in Nat /\ (m + 1) - 1 = m
        OBVIOUS
      <3>2. QED
        BY <1>1, <3>1
    <2>2. \A i \in 0..(m + 1) : i \in 0..m \/ i = m + 1
      OBVIOUS
    <2>3. QED
      BY <2>1, <2>2
  <1>4. j \in T
    <2> HIDE DEF T
    <2>1. QED
      BY <1>2, <1>3, SetInduction
  <1>5. Good(j)
    BY <1>4
  <1>6. QED
    BY <1>5 DEF Good

\* heap.down is called at i with the first n timers, all but the last: the
\* timer at i may be too early or too late, but its parent is not later than
\* its children.
DownPre(h, i) ==
  LET n == Len(h.q) - 1
  IN  /\ i \in 0..n
      /\ \A k \in 1..(n - 1) : k # i /\ Parent(k) # i => InOrder(h, k)
      /\ i > 0 => \A k \in 1..(n - 1) : Parent(k) = i => Key(h, Parent(i)) <= Key(h, k)

\* A swap of down hands what down needs to its next step, at the child.
LEMMA DownStep ==
    ASSUME NEW h \in Heaps, Indexed(h), NEW i \in Nat, DownPre(h, i),
           2 * i + 1 < Len(h.q) - 1,
           Less(h, LeastChild(h, i, Len(h.q) - 1), i)
    PROVE  LET j == LeastChild(h, i, Len(h.q) - 1)
           IN  DownPre(Swap(h, i, j), j) /\ InOrder(Swap(h, i, j), j)
  <1> DEFINE n == Len(h.q) - 1
             j == LeastChild(h, i, n)
             s == Swap(h, i, j)
  <1>1. /\ n \in Nat /\ Len(h.q) = n + 1
        /\ i \in Nat /\ j \in Nat /\ i < j /\ j < n
        /\ j = 2 * i + 1 \/ j = 2 * i + 2
    <2>1. i \in Positions
      BY HeapFields DEF DownPre, Positions
    <2>2. QED
      BY <2>1, ChildFacts, HeapFields
  <1>2. \A k \in 0..(n - 1) : Key(h, k) \in Nat
    BY <1>1, HeapFields
  <1>3. Key(h, j) < Key(h, i)
    BY DEF Less, Key
  <1>4. ASSUME NEW k \in 1..(n - 1), k = 2 * i + 1 \/ k = 2 * i + 2
        PROVE  Key(h, j) <= Key(h, k)
    <2> DEFINE l == 2 * i + 1
    <2>1. /\ n \in Nat /\ l \in 0..(n - 1) /\ k \in 0..(n - 1)
          /\ k = l \/ (k = l + 1 /\ l + 1 < n)
      <3> HIDE DEF n, j
      <3>1. QED
        BY <1>1, <1>4
    <2>2. /\ Key(h, l) \in Nat /\ Key(h, k) \in Nat
          /\ l + 1 < n => Key(h, l + 1) \in Nat
      BY <1>2, <2>1
    <2>3. j = IF l + 1 < n /\ Key(h, l + 1) < Key(h, l) THEN l + 1 ELSE l
      <3>1. j = IF l + 1 < n /\ Less(h, l + 1, l) THEN l + 1 ELSE l
        BY Zenon DEF LeastChild
      <3>2. Less(h, l + 1, l) <=> Key(h, l + 1) < Key(h, l)
        BY Zenon DEF Less, Key
      <3> HIDE DEF j, l, n
      <3>3. QED
        BY <3>1, <3>2
    <2> HIDE DEF j, l, n
    <2>4. CASE k = l
      BY <2>1, <2>2, <2>3, <2>4
    <2>5. CASE k = l + 1 /\ l + 1 < n
      BY <2>1, <2>2, <2>3, <2>5
    <2>6. QED
      BY <2>1, <2>4, <2>5
  <1>5. /\ Key(s, i) = Key(h, j) /\ Key(s, j) = Key(h, i)
        /\ \A k \in 0..n \ {i, j} : Key(s, k) = Key(h, k)
        /\ Len(s.q) = n + 1
    <2>1. i \in 0..(Len(h.q) - 1) /\ j \in 0..(Len(h.q) - 1)
      BY <1>1
    <2>2. n = Len(h.q) - 1 /\ Len(h.q) = n + 1
      BY <1>1
    <2> HIDE DEF j, n
    <2>3. /\ Reordered(s, h)
          /\ Key(s, i) = Key(h, j) /\ Key(s, j) = Key(h, i)
          /\ \A k \in 0..(Len(h.q) - 1) \ {i, j} : Key(s, k) = Key(h, k)
      BY <1>1, <2>1, SwapFacts
    <2>4. QED
      BY <2>2, <2>3 DEF Reordered
  <1>6. \A k \in 1..(n - 1) : /\ Parent(k) \in 0..(k - 1) /\ Parent(k) \in 0..(n - 1)
                              /\ k = 2 * Parent(k) + 1 \/ k = 2 * Parent(k) + 2
    BY <1>1, ParentFacts
  <1>7. /\ \A k \in 1..(n - 1) : k # i /\ Parent(k) # i => InOrder(h, k)
        /\ i > 0 => \A k \in 1..(n - 1) : Parent(k) = i => Key(h, Parent(i)) <= Key(h, k)
    BY DEF DownPre
  <1> HIDE DEF n, j, s
  <1>8. Parent(j) = i
    <2>1. j \in 1..(n - 1)
      BY <1>1
    <2>2. /\ Parent(j) \in Nat
          /\ j = 2 * Parent(j) + 1 \/ j = 2 * Parent(j) + 2
      BY <1>6, <2>1
    <2>3. QED
      BY <1>1, <2>2
  <1>9. InOrder(s, j)
    BY <1>1, <1>2, <1>3, <1>5, <1>8 DEF InOrder
  <1>10. ASSUME NEW k \in 1..(n - 1), k # j, Parent(k) # j
         PROVE  InOrder(s, k)
    <2>1. CASE k = i
      <3>1. Parent(i) \in 0..n \ {i, j}
        BY <1>1, <1>6, <1>10, <2>1
      <3>2. Key(h, Parent(i)) <= Key(h, j)
        <4>1. i > 0 /\ j \in 1..(n - 1)
          BY <1>1, <2>1
        <4>2. QED
          BY <1>7, <1>8, <4>1
      <3>3. QED
        BY <1>5, <2>1, <3>1, <3>2 DEF InOrder
    <2>2. CASE k # i /\ Parent(k) = i
      <3>1. k \in 0..n \ {i, j}
        BY <1>1, <1>10, <2>2
      <3>2. Key(h, j) <= Key(h, k)
        BY <1>4, <1>6, <2>2
      <3>3. QED
        BY <1>5, <2>2, <3>1, <3>2 DEF InOrder
    <2>3. CASE k # i /\ Parent(k) # i
      <3>1. k \in 0..n \ {i, j}
        BY <1>1, <1>10, <2>3
      <3>2. Parent(k) \in 0..n \ {i, j}
        BY <1>1, <1>6, <1>10, <2>3
      <3>3. InOrder(h, k)
        BY <1>7, <2>3
      <3>4. QED
        BY <1>5, <3>1, <3>2, <3>3 DEF InOrder
    <2>4. QED
      BY <2>1, <2>2, <2>3
  <1>11. ASSUME NEW k \in 1..(n - 1), Parent(k) = j
         PROVE  Key(s, Parent(j)) <= Key(s, k)
    <2>1. k > j
      BY <1>6, <1>11, <1>1
    <2>2. k \in 0..n \ {i, j}
      BY <1>1, <2>1
    <2>3. Parent(k) # i /\ k # i
      BY <1>1, <1>11, <2>1
    <2>4. Key(h, j) <= Key(h, k)
      BY <1>7, <1>11, <2>3 DEF InOrder
    <2>5. QED
      BY <1>5, <1>8, <2>2, <2>4
  <1>12. DownPre(s, j)
    <2>1. Len(s.q) - 1 = n /\ j \in 0..n
      BY <1>1, <1>5
    <2>2. QED
      BY <1>10, <1>11, <2>1 DEF DownPre
  <1>13. QED
    BY <1>9, <1>12 DEF s, j, n

\* What down does to a heap whose timer at i may be too early or too late: it
\* is not too late any more, and nor too early if it was not or has moved.
DownResult(r, h, i) ==
  LET n == Len(h.q) - 1
  IN  /\ Reordered(r, h)
      /\ \A k \in 1..(n - 1) : k # i => InOrder(r, k)
      /\ r # h \/ InOrder(h, i) => Ordered(r, n)
      /\ r.q[n + 1] = h.q[n + 1]

\* One step of down leaves the rest to the next.
LEMMA DownOne ==
    ASSUME NEW h \in Heaps, Indexed(h), Len(h.q) > 0, NEW i \in Nat, DownPre(h, i),
           \A g \in Heaps, j \in (i + 1)..(Len(h.q) - 1) :
             Indexed(g) /\ Len(g.q) = Len(h.q) /\ DownPre(g, j) =>
               DownResult(down[j][g], g, j)
    PROVE  DownResult(down[i][h], h, i)
  <1> DEFINE n == Len(h.q) - 1
             j == LeastChild(h, i, n)
             s == Swap(h, i, j)
  <1>1. n \in Nat /\ Len(h.q) = n + 1 /\ i \in 0..n /\ i \in Positions
    BY HeapFields DEF DownPre, Positions
  <1>2. /\ 2 * i + 1 >= n \/ ~Less(h, j, i) => down[i][h] = h
        /\ 2 * i + 1 < n /\ Less(h, j, i) => down[i][h] = down[j][s]
    BY <1>1, DownUnfolds
  <1>3. CASE 2 * i + 1 >= n \/ ~Less(h, j, i)
    <2>1. ASSUME NEW k \in 1..(n - 1), k # i PROVE InOrder(h, k)
      <3>1. CASE Parent(k) # i
        BY <2>1, <3>1 DEF DownPre
      <3>2. CASE Parent(k) = i
        <4>1. /\ k \in 0..n /\ i \in 0..n
              /\ k = 2 * i + 1 \/ k = 2 * i + 2
              /\ 2 * i + 1 < n
          <5> HIDE DEF n, j
          <5>1. k \in Nat \ {0} /\ k < n
            BY <1>1, <2>1
          <5>2. k = 2 * Parent(k) + 1 \/ k = 2 * Parent(k) + 2
            BY <5>1, ParentFacts
          <5>3. QED
            BY <1>1, <3>2, <5>1, <5>2
        <4>2. ~Less(h, j, i)
          BY <1>1, <1>3, <4>1
        <4>3. \A m \in 0..n : Key(h, m) \in Nat
          BY <1>1, HeapFields
        <4>4. ~(Key(h, j) < Key(h, i))
          BY <4>2, Zenon DEF Less, Key
        <4>5. j = IF 2 * i + 1 + 1 < n /\ Key(h, 2 * i + 1 + 1) < Key(h, 2 * i + 1)
                  THEN 2 * i + 1 + 1 ELSE 2 * i + 1
          <5>1. j = IF 2 * i + 1 + 1 < n /\ Less(h, 2 * i + 1 + 1, 2 * i + 1)
                    THEN 2 * i + 1 + 1 ELSE 2 * i + 1
            BY Zenon DEF LeastChild
          <5>2. Less(h, 2 * i + 1 + 1, 2 * i + 1)
                  <=> Key(h, 2 * i + 1 + 1) < Key(h, 2 * i + 1)
            BY Zenon DEF Less, Key
          <5> HIDE DEF j, n
          <5>3. QED
            BY <5>1, <5>2
        <4> HIDE DEF j, n
        <4>6. Key(h, i) <= Key(h, k)
          <5> DEFINE l == 2 * i + 1
          <5>1. /\ l \in 0..n /\ n \in Nat
                /\ k = l \/ k = l + 1
                /\ k < n
            BY <1>1, <4>1, <2>1
          <5>2. /\ Key(h, l) \in Nat /\ Key(h, k) \in Nat /\ Key(h, i) \in Nat
                /\ l + 1 < n => Key(h, l + 1) \in Nat
            BY <4>1, <4>3, <5>1
          <5>3. j = IF l + 1 < n /\ Key(h, l + 1) < Key(h, l) THEN l + 1 ELSE l
            BY <4>5
          <5> HIDE DEF l
          <5>4. CASE k = l
            BY <4>4, <5>1, <5>2, <5>3, <5>4
          <5>5. CASE k = l + 1
            BY <4>4, <5>1, <5>2, <5>3, <5>5
          <5>6. QED
            BY <5>1, <5>4, <5>5
        <4>7. QED
          BY <3>2, <4>6 DEF InOrder
      <3>3. QED
        BY <3>1, <3>2
    <2>2. InOrder(h, i) => Ordered(h, n)
      BY <2>1 DEF Ordered
    <2>3. QED
      BY <1>2, <1>3, <2>1, <2>2, ReorderedSelf DEF DownResult
  <1>4. CASE 2 * i + 1 < n /\ Less(h, j, i)
    <2>1. DownPre(s, j) /\ InOrder(s, j)
      BY <1>4, DownStep
    <2>2. j \in (i + 1)..(n - 1)
      BY <1>1, <1>4, ChildFacts
    <2> HIDE DEF j
    <2>3. Reordered(s, h) /\ s.q[n + 1] = h.q[n + 1]
      <3>1. /\ i \in 0..(Len(h.q) - 1) /\ j \in 0..(Len(h.q) - 1)
            /\ n \in 0..(Len(h.q) - 1) \ {i, j}
        BY <1>1, <2>2
      <3> HIDE DEF n
      <3>2. Reordered(s, h)
        BY <1>1, <3>1, SwapFacts
      <3>3. \A k \in 0..(Len(h.q) - 1) \ {i, j} : s.q[k + 1] = h.q[k + 1]
        BY <1>1, <3>1, SwapFacts
      <3>4. QED
        BY <3>1, <3>2, <3>3
    <2> HIDE DEF s, n
    <2>4. DownResult(down[j][s], s, j)
      <3>1. s \in Heaps /\ Indexed(s) /\ Len(s.q) = Len(h.q)
        BY <2>3 DEF Reordered
      <3>2. j \in (i + 1)..(Len(h.q) - 1)
        BY <1>1, <2>2
      <3>3. QED
        BY <2>1, <3>1, <3>2
    <2>5. Len(s.q) - 1 = n
      BY <1>1, <2>3 DEF Reordered
    <2>6. Ordered(down[j][s], n) /\ Reordered(down[j][s], s)
          /\ down[j][s].q[n + 1] = h.q[n + 1]
      BY <2>1, <2>3, <2>4, <2>5 DEF DownResult
    <2>7. Reordered(down[j][s], h)
      BY <2>3, <2>6, ReorderedTwice
    <2>8. QED
      BY <1>2, <1>4, <2>6, <2>7 DEF DownResult, Ordered, n
  <1>5. QED
    BY <1>1, <1>3, <1>4

\* heap.down restores the order below i.
LEMMA DownGood ==
    ASSUME NEW h \in Heaps, Indexed(h), Len(h.q) > 0, NEW i \in Nat, DownPre(h, i)
    PROVE  DownResult(down[i][h], h, i)
  <1> DEFINE n == Len(h.q) - 1
             Good(j) == \A g \in Heaps :
               Indexed(g) /\ Len(g.q) = Len(h.q) /\ DownPre(g, j) =>
                 DownResult(down[j][g], g, j)
             T == {m \in Nat : \A j \in Nat : j + m >= n /\ j <= n => Good(j)}
  <1>1. n \in Nat /\ i \in 0..n
    BY HeapFields DEF DownPre
  <1>2. \A j \in Nat : (\A k \in (j + 1)..n : Good(k)) => Good(j)
    <2> SUFFICES ASSUME NEW j \in Nat, \A k \in (j + 1)..n : Good(k),
                        NEW g \in Heaps, Indexed(g), Len(g.q) = Len(h.q), DownPre(g, j)
                 PROVE  DownResult(down[j][g], g, j)
      OBVIOUS
    <2>1. \A f \in Heaps, k \in (j + 1)..(Len(g.q) - 1) :
             Indexed(f) /\ Len(f.q) = Len(g.q) /\ DownPre(f, k) =>
               DownResult(down[k][f], f, k)
      OBVIOUS
    <2>2. QED
      BY <2>1, DownOne
  <1> HIDE DEF Good, n
  <1>3. 0 \in T
    <2> SUFFICES ASSUME NEW j \in Nat, j >= n, j <= n PROVE Good(j)
      OBVIOUS
    <2>1. (j + 1)..n = {}
      BY <1>1
    <2>2. QED
      BY <1>2, <2>1
  <1>4. \A m \in Nat : m \in T => m + 1 \in T
    <2> SUFFICES ASSUME NEW m \in Nat, m \in T PROVE m + 1 \in T
      OBVIOUS
    <2>1. ASSUME NEW j \in Nat, j + (m + 1) >= n, j <= n
          PROVE  Good(j)
      <3>1. \A k \in (j + 1)..n : k \in Nat /\ k + m >= n /\ k <= n
        BY <1>1, <2>1
      <3>2. \A k \in (j + 1)..n : Good(k)
        BY <2>1, <3>1
      <3>3. QED
        BY <1>2, <3>2
    <2>2. m + 1 \in Nat
      OBVIOUS
    <2>3. QED
      BY <2>1, <2>2
  <1>5. n \in T
    <2> HIDE DEF T
    <2>1. QED
      BY <1>1, <1>3, <1>4, SetInduction
  <1>6. Good(i)
    BY <1>1, <1>5
  <1>7. QED
    BY <1>6 DEF Good

\* In heap order, the first timer is the earliest.
LEMMA RootIsLeast ==
    ASSUME NEW h \in Heaps, NEW n \in 0..Len(h.q), Ordered(h, n)
    PROVE  \A k \in 0..(n - 1) : Key(h, 0) <= Key(h, k)
  <1> DEFINE T == {m \in Nat : \A k \in 0..m : k < n => Key(h, 0) <= Key(h, k)}
  <1>1. n \in Nat /\ \A k \in Nat : k < n => Key(h, k) \in Nat
    BY HeapFields
  <1>2. 0 \in T
    BY <1>1
  <1>3. \A m \in Nat : m \in T => m + 1 \in T
    <2> SUFFICES ASSUME NEW m \in Nat, m \in T, m + 1 < n
                 PROVE  Key(h, 0) <= Key(h, m + 1)
      OBVIOUS
    <2>1. Parent(m + 1) \in 0..m /\ m + 1 \in 1..(n - 1)
      BY <1>1, ParentFacts
    <2>2. Key(h, 0) <= Key(h, Parent(m + 1))
      BY <1>1, <2>1
    <2>3. Key(h, Parent(m + 1)) <= Key(h, m + 1)
      BY <2>1 DEF Ordered, InOrder
    <2>4. QED
      BY <1>1, <2>1, <2>2, <2>3
  <1>4. Nat \subseteq T
    <2> HIDE DEF T
    <2>1. QED
      BY <1>2, <1>3, SetInduction
  <1>5. QED
    BY <1>1, <1>4

-----------------------------------------------------------------------------
(* The operations of the heap *)

\* A timer that is not in the heap may be given another end.
LEMMA EndGood ==
    ASSUME NEW h, HeapOK(h), NEW t \in Ids \ Range(h.q), NEW e \in Nat
    PROVE  LET r == WithEnd(h, t, e)
           IN  /\ HeapOK(r)
               /\ r.q = h.q /\ r.index = h.index
               /\ r.end = [h.end EXCEPT ![t] = e]
  <1> DEFINE r == WithEnd(h, t, e)
  <1>1. h \in Heaps /\ Indexed(h) /\ Ordered(h, Len(h.q))
    BY DEF HeapOK
  <1>2. /\ r \in Heaps /\ r.q = h.q /\ r.index = h.index
        /\ r.end = [h.end EXCEPT ![t] = e]
    BY <1>1 DEF Heaps, WithEnd
  <1> HIDE DEF r
  <1>3. Indexed(r)
    BY <1>1, <1>2 DEF Indexed
  <1>4. \A k \in 0..(Len(h.q) - 1) : Key(r, k) = Key(h, k)
    <2> SUFFICES ASSUME NEW k \in 0..(Len(h.q) - 1) PROVE Key(r, k) = Key(h, k)
      OBVIOUS
    <2>1. k + 1 \in 1..Len(h.q) /\ h.q \in Seq(Ids)
      BY <1>1, HeapFields
    <2>2. h.q[k + 1] \in Range(h.q) /\ h.q[k + 1] \in Ids
      BY <2>1, RangeFacts
    <2>3. h.q[k + 1] # t
      BY <2>2
    <2>4. QED
      BY <1>1, <1>2, <2>2, <2>3, HeapFields DEF Key
  <1>5. Ordered(r, Len(r.q))
    <2> SUFFICES ASSUME NEW k \in 1..(Len(h.q) - 1) PROVE InOrder(r, k)
      BY <1>2 DEF Ordered
    <2>1. k \in 0..(Len(h.q) - 1) /\ Parent(k) \in 0..(Len(h.q) - 1)
      BY <1>1, HeapFields, ParentFacts
    <2>2. InOrder(h, k)
      BY <1>1 DEF Ordered
    <2>3. QED
      BY <1>4, <2>1, <2>2 DEF InOrder
  <1>6. QED
    BY <1>2, <1>3, <1>5 DEF HeapOK, r

\* heap.Push adds the timer.
LEMMA PushGood ==
    ASSUME NEW h, HeapOK(h), NEW t \in Ids \ Range(h.q), Len(h.q) < TqSize
    PROVE  LET r == Push(h, t)
           IN  /\ HeapOK(r)
               /\ r.end = h.end
               /\ Len(r.q) = Len(h.q) + 1
               /\ Range(r.q) = Range(h.q) \cup {t}
  <1> DEFINE n == Len(h.q)
             s == [h EXCEPT !.q = Append(@, t), !.index[t] = Len(h.q)]
  <1>1. /\ h \in Heaps /\ Indexed(h) /\ Ordered(h, n)
        /\ n \in Nat /\ n < TqSize /\ h.q \in Seq(Ids)
    BY HeapFields DEF HeapOK
  <1>2. Append(h.q, t) \in Seq(Ids) /\ Len(Append(h.q, t)) = n + 1
    BY <1>1
  <1>3. /\ s \in Heaps /\ s.q = Append(h.q, t) /\ s.end = h.end
        /\ s.index = [h.index EXCEPT ![t] = n]
    <2> DEFINE q == Append(h.q, t)
    <2>1. s = [h EXCEPT !.q = q, !.index[t] = n]
      OBVIOUS
    <2> HIDE DEF s, q, n
    <2>2. n \in Int /\ n + 1 <= TqSize
      BY <1>1
    <2>3. QED
      BY <1>1, <1>2, <2>1, <2>2 DEF Heaps, q
  <1>4. Push(h, t) = up[n][s]
    BY DEF Push
  <1> HIDE DEF s
  <1>5. /\ s.q[n + 1] = t
        /\ \A k \in 1..n : s.q[k] = h.q[k] /\ h.q[k] \in Ids /\ h.q[k] \in Range(h.q)
    BY <1>1, <1>3, RangeFacts
  <1>6. Range(s.q) = Range(h.q) \cup {t}
    <2>1. /\ Range(h.q) = {h.q[k] : k \in 1..n}
          /\ Range(s.q) = {s.q[k] : k \in 1..(n + 1)}
      BY <1>1, <1>2, <1>3, RangeFacts
    <2>2. \A k \in 1..(n + 1) : k \in 1..n \/ k = n + 1
      BY <1>1
    <2>3. Range(s.q) \subseteq Range(h.q) \cup {t}
      BY <1>5, <2>1, <2>2
    <2>4. n + 1 \in 1..(n + 1) /\ 1..n \subseteq 1..(n + 1)
      BY <1>1
    <2> HIDE DEF n
    <2>5. Range(h.q) \cup {t} \subseteq Range(s.q)
      BY <1>5, <2>1, <2>4
    <2>6. QED
      BY <2>3, <2>5
  <1>7. Indexed(s)
    <2>1. ASSUME NEW k \in 0..n PROVE s.index[s.q[k + 1]] = k
      <3>1. CASE k = n
        <4>1. s.q[k + 1] = t /\ t \in Ids /\ h.index \in [Ids -> Int]
          BY <1>1, <1>5, <3>1, HeapFields
        <4> HIDE DEF n
        <4>2. QED
          BY <1>3, <3>1, <4>1
      <3>2. CASE k < n
        <4>1. k + 1 \in 1..n /\ k \in 0..(n - 1)
          BY <1>1, <3>2
        <4>2. s.q[k + 1] = h.q[k + 1] /\ h.q[k + 1] # t /\ h.q[k + 1] \in Ids
          BY <1>5, <4>1
        <4>3. h.index[h.q[k + 1]] = k
          BY <1>1, <4>1 DEF Indexed
        <4>4. QED
          BY <1>1, <1>3, <4>2, <4>3, HeapFields
      <3>3. QED
        BY <1>1, <3>1, <3>2
    <2>2. \A u \in Ids \ Range(s.q) : s.index[u] = -1
      BY <1>1, <1>3, <1>6, HeapFields DEF Indexed
    <2>3. Len(s.q) - 1 = n
      BY <1>1, <1>2, <1>3
    <2>4. QED
      BY <2>1, <2>2, <2>3 DEF Indexed
  <1>8. \A k \in 0..(n - 1) : Key(s, k) = Key(h, k)
    <2>1. \A k \in 0..(n - 1) : k + 1 \in 1..n
      BY <1>1
    <2>2. QED
      BY <1>3, <1>5, <2>1 DEF Key
  <1>9. UpPre(s, n, n + 1)
    <2>1. n \in 0..((n + 1) - 1) /\ n + 1 \in 0..Len(s.q) /\ (n + 1) - 1 = n
      BY <1>1, <1>2, <1>3
    <2>2. ASSUME NEW k \in 1..n, k # n PROVE InOrder(s, k)
      <3>1. k \in 1..(n - 1)
        BY <1>1, <2>2
      <3>2. k \in 0..(n - 1) /\ Parent(k) \in 0..(n - 1)
        BY <1>1, <3>1, ParentFacts
      <3>3. InOrder(h, k)
        BY <1>1, <3>1 DEF Ordered
      <3>4. QED
        BY <1>8, <3>2, <3>3 DEF InOrder
    <2>3. \A k \in 1..n : Parent(k) # n
      <3>1. \A k \in 1..n : k \in Nat \ {0} /\ k <= n
        BY <1>1
      <3>2. QED
        BY <1>1, <3>1, ParentFacts
    <2> HIDE DEF n
    <2>4. QED
      BY <2>1, <2>2, <2>3 DEF UpPre
  <1>10. UpResult(up[n][s], s, n, n + 1)
    BY <1>1, <1>3, <1>7, <1>9, UpGood
  <1>11. QED
    BY <1>2, <1>3, <1>4, <1>6, <1>10 DEF UpResult, Reordered, HeapOK

\* TimerQueue.Pop takes the last timer away.
LEMMA PopLastGood ==
    ASSUME NEW h \in Heaps, Indexed(h), Len(h.q) > 0, Ordered(h, Len(h.q) - 1)
    PROVE  LET r == PopLast(h)
           IN  /\ HeapOK(r)
               /\ r.end = h.end
               /\ Len(r.q) = Len(h.q) - 1
               /\ Range(r.q) = Range(h.q) \ {h.q[Len(h.q)]}
  <1> DEFINE n == Len(h.q) - 1
             t == h.q[Len(h.q)]
             q == SubSeq(h.q, 1, n)
             r == PopLast(h)
  <1>1. n \in Nat /\ Len(h.q) = n + 1 /\ h.q \in Seq(Ids) /\ n < TqSize
    BY HeapFields
  <1>2. /\ q \in Seq(Ids) /\ Len(q) = n
        /\ \A k \in 1..n : q[k] = h.q[k]
    BY <1>1
  <1>3. t \in Ids /\ h.index[t] = n /\ t = h.q[n + 1]
    <2>1. n \in 0..(Len(h.q) - 1)
      BY <1>1
    <2>2. QED
      BY <1>1, <2>1, HeapFields DEF Indexed
  <1>4. /\ r \in Heaps /\ r.q = q /\ r.end = h.end
        /\ r.index = [h.index EXCEPT ![t] = -1]
    <2> DEFINE x == [h.index EXCEPT ![t] = -1]
    <2>1. r = [h EXCEPT !.q = q, !.index = x]
      BY DEF PopLast
    <2> HIDE DEF r, q, t, n
    <2>2. Len(q) <= TqSize
      BY <1>1, <1>2
    <2>3. x \in [Ids -> Int]
      BY <1>3, HeapFields
    <2> HIDE DEF x
    <2>4. r \in Heaps /\ r.q = q /\ r.end = h.end /\ r.index = x
      BY <1>2, <2>1, <2>2, <2>3 DEF Heaps
    <2>5. QED
      BY <2>4 DEF x
  <1> HIDE DEF r, q, t, n
  <1>5. \A k \in 0..(n - 1) : /\ k + 1 \in 1..n /\ h.q[k + 1] \in Ids
                              /\ h.index[h.q[k + 1]] = k /\ h.q[k + 1] # t
    <2> SUFFICES ASSUME NEW k \in 0..(n - 1)
                 PROVE  /\ k + 1 \in 1..n /\ h.q[k + 1] \in Ids
                        /\ h.index[h.q[k + 1]] = k /\ h.q[k + 1] # t
      OBVIOUS
    <2>1. k + 1 \in 1..n /\ k \in 0..(Len(h.q) - 1)
      BY <1>1
    <2>2. h.q[k + 1] \in Ids /\ h.index[h.q[k + 1]] = k
      BY <2>1, HeapFields DEF Indexed
    <2>3. QED
      BY <1>1, <1>3, <2>1, <2>2
  <1>6. Range(q) = Range(h.q) \ {t}
    <2>1. /\ Range(h.q) = {h.q[k] : k \in 1..(n + 1)}
          /\ Range(q) = {q[k] : k \in 1..n}
      BY <1>1, <1>2, RangeFacts
    <2>2. \A k \in 1..(n + 1) : k \in 1..n \/ k = n + 1
      BY <1>1
    <2>3. \A k \in 1..n : h.q[k] # t /\ k \in 1..(n + 1)
      <3> SUFFICES ASSUME NEW k \in 1..n PROVE h.q[k] # t /\ k \in 1..(n + 1)
        OBVIOUS
      <3>1. k - 1 \in 0..(n - 1) /\ (k - 1) + 1 = k /\ k \in 1..(n + 1)
        BY <1>1
      <3>2. QED
        BY <1>5, <3>1
    <2>4. Range(q) \subseteq Range(h.q) \ {t}
      BY <1>2, <2>1, <2>3
    <2>5. Range(h.q) \ {t} \subseteq Range(q)
      BY <1>2, <1>3, <2>1, <2>2
    <2>6. QED
      BY <2>4, <2>5
  <1>7. Indexed(r)
    <2>1. \A k \in 0..(n - 1) : r.index[r.q[k + 1]] = k
      <3> SUFFICES ASSUME NEW k \in 0..(n - 1) PROVE r.index[r.q[k + 1]] = k
        OBVIOUS
      <3>1. r.q[k + 1] = h.q[k + 1]
        BY <1>2, <1>4, <1>5
      <3>2. QED
        BY <1>4, <1>5, <3>1, HeapFields
    <2>2. \A u \in Ids \ Range(r.q) : r.index[u] = -1
      BY <1>3, <1>4, <1>6, HeapFields DEF Indexed
    <2>3. QED
      BY <1>2, <1>4, <2>1, <2>2 DEF Indexed
  <1>8. \A k \in 0..(n - 1) : Key(r, k) = Key(h, k)
    BY <1>2, <1>4, <1>5 DEF Key
  <1>9. Ordered(r, Len(r.q))
    <2> SUFFICES ASSUME NEW k \in 1..(n - 1) PROVE InOrder(r, k)
      BY <1>2, <1>4 DEF Ordered
    <2>1. k \in 0..(n - 1) /\ Parent(k) \in 0..(n - 1)
      BY <1>1, ParentFacts
    <2>2. InOrder(h, k)
      BY DEF Ordered, n
    <2>3. QED
      BY <1>8, <2>1, <2>2 DEF InOrder
  <1>10. QED
    BY <1>2, <1>4, <1>6, <1>7, <1>9 DEF HeapOK, r, n, t

\* When the timer at i and the last one have changed places, the others are as
\* they were; heap.down may be called at i.
LEMMA SwappedLast ==
    ASSUME NEW h, HeapOK(h), NEW i \in 0..(Len(h.q) - 1)
    PROVE  LET n == Len(h.q) - 1
               s == Swap(h, i, n)
           IN  /\ Reordered(s, h)
               /\ s.q[n + 1] = h.q[i + 1]
               /\ DownPre(s, i)
  <1> DEFINE n == Len(h.q) - 1
             s == Swap(h, i, n)
  <1>1. /\ h \in Heaps /\ Indexed(h) /\ Ordered(h, n + 1)
        /\ n \in Nat /\ Len(h.q) = n + 1 /\ i \in 0..n /\ n \in 0..n
    BY HeapFields DEF HeapOK
  <1>2. /\ Reordered(s, h) /\ s.q[n + 1] = h.q[i + 1]
        /\ \A k \in 0..n \ {i, n} : Key(s, k) = Key(h, k)
    BY <1>1, SwapFacts
  <1> HIDE DEF s, n
  <1>3. \A k \in 1..(n - 1) : /\ Parent(k) \in 0..(n - 1) /\ Parent(k) < k
                              /\ k \in 0..(n - 1) /\ k \in 1..n
    BY <1>1, ParentFacts
  <1>4. \A k \in 1..(n - 1) : InOrder(h, k) /\ Key(h, Parent(k)) \in Nat /\ Key(h, k) \in Nat
    <2>1. \A k \in 0..n : Key(h, k) \in Nat
      BY <1>1, HeapFields
    <2>2. \A k \in 0..(n - 1) : k \in 0..n
      BY <1>1
    <2>3. (n + 1) - 1 = n
      BY <1>1
    <2>4. QED
      BY <1>1, <1>3, <2>1, <2>2, <2>3 DEF Ordered
  <1>5. ASSUME NEW k \in 1..(n - 1), k # i, Parent(k) # i PROVE InOrder(s, k)
    <2>1. k \in 0..n \ {i, n} /\ Parent(k) \in 0..n \ {i, n}
      BY <1>1, <1>3, <1>5
    <2>2. QED
      BY <1>2, <1>4, <2>1 DEF InOrder
  <1>6. ASSUME i > 0, NEW k \in 1..(n - 1), Parent(k) = i
        PROVE  Key(s, Parent(i)) <= Key(s, k)
    <2>1. i \in 1..(n - 1)
      BY <1>1, <1>3, <1>6
    <2>2. k \in 0..n \ {i, n} /\ Parent(i) \in 0..n \ {i, n}
      BY <1>1, <1>3, <1>6, <2>1
    <2>3. Key(h, Parent(i)) <= Key(h, i) /\ Key(h, i) <= Key(h, k)
      BY <1>4, <1>6, <2>1 DEF InOrder
    <2>4. QED
      BY <1>2, <1>4, <2>1, <2>2, <2>3
  <1>7. DownPre(s, i)
    <2>1. Len(s.q) - 1 = n
      BY <1>1, <1>2 DEF Reordered
    <2>2. QED
      BY <1>1, <1>5, <1>6, <2>1 DEF DownPre
  <1>8. QED
    BY <1>2, <1>7 DEF s, n

\* What a heap is when the timer x has left h.
Without(r, h, x) ==
  /\ HeapOK(r)
  /\ r.end = h.end
  /\ Len(r.q) = Len(h.q) - 1
  /\ Range(r.q) = Range(h.q) \ {x}

\* The timer that was moved to the end leaves.
LEMMA LastLeaves ==
    ASSUME NEW h \in Heaps, NEW r, Reordered(r, h), Len(h.q) > 0,
           Ordered(r, Len(h.q) - 1)
    PROVE  Without(PopLast(r), h, r.q[Len(h.q)])
  BY PopLastGood DEF Reordered, Without

\* heap.Pop takes the earliest timer away.
LEMMA PopGood ==
    ASSUME NEW h, HeapOK(h), Len(h.q) > 0
    PROVE  Without(Pop(h), h, h.q[1])
  <1> DEFINE n == Len(h.q) - 1
             s == Swap(h, 0, n)
             r == down[0][s]
  <1>1. h \in Heaps /\ n \in Nat /\ Len(h.q) = n + 1 /\ 0 \in 0..n
    BY HeapFields DEF HeapOK
  <1>2. Reordered(s, h) /\ s.q[n + 1] = h.q[1] /\ DownPre(s, 0)
    BY <1>1, SwappedLast
  <1>3. Pop(h) = PopLast(r)
    BY DEF Pop
  <1> HIDE DEF s
  <1>4. s \in Heaps /\ Indexed(s) /\ Len(s.q) = n + 1
    BY <1>1, <1>2 DEF Reordered
  <1>5. DownResult(r, s, 0)
    BY <1>1, <1>2, <1>4, DownGood
  <1> HIDE DEF r
  <1>6. Reordered(r, h) /\ r.q[n + 1] = h.q[1] /\ Ordered(r, n)
    <2>1. Len(s.q) - 1 = n /\ \A k \in 1..(n - 1) : k # 0
      BY <1>1, <1>4
    <2> HIDE DEF n
    <2>2. Reordered(r, s) /\ r.q[n + 1] = s.q[n + 1]
          /\ \A k \in 1..(n - 1) : InOrder(r, k)
      BY <1>5, <2>1 DEF DownResult
    <2>3. QED
      BY <1>2, <2>2, ReorderedTwice DEF Ordered
  <1>7. QED
    BY <1>1, <1>3, <1>6, LastLeaves

\* heap.Remove takes the timer at i away.
LEMMA RemoveGood ==
    ASSUME NEW h, HeapOK(h), NEW i \in 0..(Len(h.q) - 1)
    PROVE  Without(HeapRemove(h, i), h, h.q[i + 1])
  <1> DEFINE n == Len(h.q) - 1
             s == Swap(h, i, n)
             d == down[i][s]
             r == IF d # s THEN d ELSE up[i][s]
  <1>1. /\ h \in Heaps /\ Indexed(h) /\ Ordered(h, n + 1)
        /\ n \in Nat /\ Len(h.q) = n + 1 /\ i \in 0..n /\ i \in Nat
    BY HeapFields DEF HeapOK
  <1>2. HeapRemove(h, i) = IF n = i THEN PopLast(h) ELSE PopLast(r)
    BY Zenon DEF HeapRemove
  <1>3. CASE n = i
    <2>1. Ordered(h, n)
      <3>1. \A k \in 1..(n - 1) : k \in 1..((n + 1) - 1)
        BY <1>1
      <3> HIDE DEF n
      <3>2. QED
        BY <1>1, <3>1 DEF Ordered
    <2>2. Reordered(h, h) /\ Len(h.q) > 0
      BY <1>1, ReorderedSelf
    <2>3. QED
      BY <1>1, <1>2, <1>3, <2>1, <2>2, LastLeaves
  <1>4. CASE n # i
    <2>1. Reordered(s, h) /\ s.q[n + 1] = h.q[i + 1] /\ DownPre(s, i)
      BY SwappedLast
    <2> HIDE DEF s
    <2>2. s \in Heaps /\ Indexed(s) /\ Len(s.q) = n + 1 /\ Len(s.q) - 1 = n
      BY <1>1, <2>1 DEF Reordered
    <2>3. DownResult(d, s, i)
      BY <1>1, <2>1, <2>2, DownGood
    <2> HIDE DEF n, d
    <2>4. CASE d # s
      <3>1. Reordered(d, s) /\ Ordered(d, n) /\ d.q[n + 1] = s.q[n + 1]
        BY <2>2, <2>3, <2>4 DEF DownResult
      <3>2. Reordered(d, h) /\ d.q[n + 1] = h.q[i + 1]
        BY <2>1, <3>1, ReorderedTwice
      <3>3. HeapRemove(h, i) = PopLast(d)
        BY <1>2, <1>4, <2>4
      <3>4. Len(h.q) > 0 /\ Len(h.q) - 1 = n
        BY <1>1
      <3>5. QED
        BY <1>1, <3>1, <3>2, <3>3, <3>4, LastLeaves
    <2>5. CASE d = s
      <3>1. \A k \in 1..(n - 1) : k # i => InOrder(s, k)
        BY <2>2, <2>3, <2>5 DEF DownResult
      <3>2. i > 0 => \A k \in 1..(n - 1) : Parent(k) = i => Key(s, Parent(i)) <= Key(s, k)
        BY <2>1, <2>2 DEF DownPre
      <3>3. i \in 0..(n - 1) /\ n \in 0..Len(s.q)
        BY <1>1, <1>4, <2>2
      <3>4. UpPre(s, i, n)
        BY <3>1, <3>2, <3>3 DEF UpPre
      <3> DEFINE u == up[i][s]
      <3>5. UpResult(u, s, i, n)
        BY <1>1, <2>2, <3>4, UpGood
      <3> HIDE DEF u
      <3>6. n \in (i + 1)..(Len(s.q) - 1)
        BY <1>1, <2>2, <3>3
      <3>7. Reordered(u, s) /\ Ordered(u, n) /\ u.q[n + 1] = s.q[n + 1]
        BY <3>5, <3>6 DEF UpResult
      <3>8. Reordered(u, h) /\ u.q[n + 1] = h.q[i + 1]
        BY <2>1, <3>7, ReorderedTwice
      <3>9. HeapRemove(h, i) = PopLast(u)
        BY <1>2, <1>4, <2>5 DEF u
      <3>10. Len(h.q) > 0 /\ Len(h.q) - 1 = n
        BY <1>1
      <3>11. QED
        BY <1>1, <3>7, <3>8, <3>9, <3>10, LastLeaves
    <2>6. QED
      BY <2>4, <2>5
  <1>5. QED
    BY <1>3, <1>4

-----------------------------------------------------------------------------
(* The execution queue *)

\* r holds what q holds, wherever in its slice.
SameQueue(r, q) ==
  /\ QueueOK(r)
  /\ Q!Size(r) = Q!Size(q)
  /\ \A i \in 0..(Q!Size(q) - 1) : r.data[r.begin + i] = q.data[q.begin + i]

\* What a queue is made of.
LEMMA QueueFields ==
    ASSUME NEW q, QueueOK(q)
    PROVE  /\ q.capacity \in Nat \ {0} /\ q \in Queues(q.capacity)
           /\ q.begin \in Nat /\ q.end \in Nat /\ q.begin <= q.end
           /\ q.end <= q.capacity
           /\ q.data \in [0..(q.capacity - 1) -> Ids \cup {0}]
           /\ Q!Size(q) = q.end - q.begin /\ Q!Size(q) \in Nat
           /\ \A i \in 0..(Q!Size(q) - 1) : q.data[q.begin + i] \in Ids
  <1> DEFINE c == q.capacity
  <1>1. c \in Nat \ {0} /\ q \in Queues(c)
    BY DEF QueueOK
  <1>2. /\ q.begin \in 0..c /\ q.end \in 0..c
        /\ q.data \in [0..(c - 1) -> Ids \cup {0}]
        /\ q.begin <= q.end
        /\ \A i \in q.begin..(q.end - 1) : q.data[i] \in Ids
    BY <1>1 DEF Queues, QueueOK
  <1>3. Q!Size(q) = q.end - q.begin /\ Q!Size(q) \in Nat
    BY <1>2 DEF Q!Size
  <1>4. \A i \in 0..(Q!Size(q) - 1) : q.begin + i \in q.begin..(q.end - 1)
    BY <1>2, <1>3
  <1>5. QED
    BY <1>1, <1>2, <1>3, <1>4

\* A queue moved to the start of a slice that is large enough.
LEMMA MovedToSame ==
    ASSUME NEW q, QueueOK(q), NEW c \in Nat \ {0}, Q!Size(q) <= c
    PROVE  /\ SameQueue(Q!MovedTo(q, c), q)
           /\ Q!MovedTo(q, c).end = Q!Size(q) /\ Q!MovedTo(q, c).capacity = c
  <1> DEFINE r == Q!MovedTo(q, c)
             z == Q!Size(q)
             d == [i \in 0..(c - 1) |-> IF i < z THEN q.data[q.begin + i] ELSE 0]
  <1>1. r = [data |-> d, begin |-> 0, end |-> z, capacity |-> c]
    BY DEF Q!MovedTo
  <1>2. z \in 0..c /\ \A i \in 0..(z - 1) : q.data[q.begin + i] \in Ids
    BY QueueFields
  <1> HIDE DEF z, r
  <1>3. d \in [0..(c - 1) -> Ids \cup {0}] /\ \A i \in 0..(z - 1) : d[i] = q.data[q.begin + i]
    BY <1>2
  <1> HIDE DEF d
  <1>4. r \in Queues(c)
    BY <1>1, <1>2, <1>3 DEF Queues
  <1>5. r.data = d /\ r.begin = 0 /\ r.end = z /\ r.capacity = c
    BY <1>1
  <1>6. QueueOK(r)
    BY <1>2, <1>3, <1>4, <1>5 DEF QueueOK
  <1>7. Q!Size(r) = z
    BY <1>2, <1>5 DEF Q!Size
  <1>8. SameQueue(r, q)
    BY <1>2, <1>3, <1>5, <1>6, <1>7 DEF SameQueue, z
  <1>9. QED
    BY <1>5, <1>8 DEF r, z

\* A queue moved within its slice.
LEMMA MovedToFrontSame ==
    ASSUME NEW q, QueueOK(q)
    PROVE  /\ SameQueue(Q!MovedToFront(q), q)
           /\ Q!MovedToFront(q).end = Q!Size(q)
           /\ Q!MovedToFront(q).capacity = q.capacity
  <1> DEFINE r == Q!MovedToFront(q)
             z == Q!Size(q)
             c == q.capacity
             d == [i \in 0..(c - 1) |-> IF i < z THEN q.data[q.begin + i] ELSE q.data[i]]
  <1>1. r = [q EXCEPT !.data = d, !.begin = 0, !.end = z]
    BY DEF Q!MovedToFront
  <1>2. /\ z \in 0..c /\ \A i \in 0..(z - 1) : q.data[q.begin + i] \in Ids
        /\ c \in Nat \ {0} /\ q \in Queues(c)
        /\ q.data \in [0..(c - 1) -> Ids \cup {0}]
    BY QueueFields
  <1> HIDE DEF z, r, c
  <1>3. d \in [0..(c - 1) -> Ids \cup {0}] /\ \A i \in 0..(z - 1) : d[i] = q.data[q.begin + i]
    BY <1>2
  <1> HIDE DEF d
  <1>4. r \in Queues(c) /\ r.data = d /\ r.begin = 0 /\ r.end = z /\ r.capacity = c
    <2>1. 0 \in 0..c /\ z \in 0..c
      BY <1>2
    <2> DEFINE D == [0..(c - 1) -> Ids \cup {0}]
               B == 0..c
    <2>2. q \in [data : D, begin : B, end : B, capacity : {c}]
      BY <1>2 DEF Queues
    <2>3. d \in D /\ 0 \in B /\ z \in B
      BY <1>3, <2>1
    <2> HIDE DEF D, B
    <2>4. r \in [data : D, begin : B, end : B, capacity : {c}]
      BY <1>1, <2>2, <2>3
    <2>5. r.data = d /\ r.begin = 0 /\ r.end = z /\ r.capacity = c
      BY <1>1, <2>2, <2>3
    <2>6. QED
      BY <2>4, <2>5 DEF Queues, D, B
  <1>5. QueueOK(r)
    BY <1>2, <1>3, <1>4 DEF QueueOK
  <1>6. Q!Size(r) = z
    BY <1>2, <1>4 DEF Q!Size
  <1>7. SameQueue(r, q)
    BY <1>2, <1>3, <1>4, <1>5, <1>6 DEF SameQueue, z
  <1>8. QED
    BY <1>4, <1>7 DEF r, z, c

\* The queue as a sequence.
LEMMA ValueFacts ==
    ASSUME NEW q, QueueOK(q)
    PROVE  /\ Q!Value(q) \in Seq(Ids)
           /\ Len(Q!Value(q)) = Q!Size(q)
           /\ \A i \in 1..Q!Size(q) : Q!Value(q)[i] = q.data[q.begin + i - 1]
  <1>1. Q!Size(q) \in Nat /\ q.begin \in Nat
    BY QueueFields
  <1>2. \A i \in 1..Q!Size(q) : q.data[q.begin + i - 1] \in Ids
    <2>1. \A i \in 1..Q!Size(q) : /\ i - 1 \in 0..(Q!Size(q) - 1)
                                  /\ q.begin + i - 1 = q.begin + (i - 1)
      BY <1>1
    <2>2. QED
      BY <2>1, QueueFields
  <1> DEFINE v == [i \in 1..Q!Size(q) |-> q.data[q.begin + i - 1]]
  <1>3. Q!Value(q) = v
    BY DEF Q!Value
  <1>4. v \in Seq(Ids) /\ Len(v) = Q!Size(q)
    <2> HIDE DEF Ids
    <2>1. QED
      BY <1>1, <1>2
  <1>5. QED
    BY <1>3, <1>4

\* A queue moved is the same sequence.
LEMMA SameValue ==
    ASSUME NEW q, NEW r, QueueOK(q), SameQueue(r, q)
    PROVE  Q!Value(r) = Q!Value(q)
  <1>1. QueueOK(r) /\ Q!Size(r) = Q!Size(q) /\ Q!Size(q) \in Nat
        /\ r.begin \in Nat /\ q.begin \in Nat
    BY QueueFields DEF SameQueue
  <1>2. \A i \in 1..Q!Size(q) : r.data[r.begin + i - 1] = q.data[q.begin + i - 1]
    <2>1. \A i \in 1..Q!Size(q) : /\ i - 1 \in 0..(Q!Size(q) - 1)
                                  /\ q.begin + i - 1 = q.begin + (i - 1)
                                  /\ r.begin + i - 1 = r.begin + (i - 1)
      BY <1>1
    <2>2. QED
      BY <2>1 DEF SameQueue
  <1>3. QED
    BY <1>1, <1>2 DEF Q!Value

\* Queue.Push appends.
LEMMA QueuePush ==
    ASSUME NEW q, QueueOK(q), NEW t \in Ids
    PROVE  /\ QueueOK(Q!Push(q, t))
           /\ Q!Value(Q!Push(q, t)) = Append(Q!Value(q), t)
           /\ Q!Size(Q!Push(q, t)) = Q!Size(q) + 1
  <1> DEFINE r == IF q.end >= q.capacity THEN Q!expend(q) ELSE q
             p == [r EXCEPT !.data[r.end] = t, !.end = @ + 1]
  <1>1. Q!Push(q, t) = p
    BY DEF Q!Push
  <1>2. SameQueue(r, q) /\ r.end < r.capacity
    <2> USE QueueFields
    <2>1. CASE q.end < q.capacity
      BY <2>1 DEF SameQueue
    <2>2. CASE q.end >= q.capacity /\ q.begin > 0
      <3>1. r = Q!MovedToFront(q)
        BY <2>2 DEF Q!expend
      <3> HIDE DEF r
      <3>2. QED
        BY <2>2, <3>1, MovedToFrontSame
    <2>3. CASE q.end >= q.capacity /\ ~(q.begin > 0)
      <3>1. r = Q!MovedTo(q, Q!Larger(q.capacity))
        BY <2>3 DEF Q!expend
      <3>2. Q!Larger(q.capacity) \in Nat \ {0} /\ q.capacity < Q!Larger(q.capacity)
        BY DEF Q!Larger
      <3> HIDE DEF r
      <3>3. QED
        BY <3>1, <3>2, MovedToSame
    <2>4. QED
      BY <2>1, <2>2, <2>3
  <1> HIDE DEF r
  <1>3. /\ QueueOK(r) /\ r.capacity \in Nat \ {0} /\ r \in Queues(r.capacity)
        /\ r.begin \in Nat /\ r.end \in Nat /\ r.begin <= r.end
        /\ r.data \in [0..(r.capacity - 1) -> Ids \cup {0}]
        /\ Q!Size(r) = r.end - r.begin /\ Q!Size(r) \in Nat
        /\ \A i \in r.begin..(r.end - 1) : r.data[i] \in Ids
    BY <1>2, QueueFields DEF SameQueue, QueueOK
  <1> DEFINE d == [r.data EXCEPT ![r.end] = t]
  <1>4. /\ d \in [0..(r.capacity - 1) -> Ids \cup {0}]
        /\ d[r.end] = t
        /\ \A i \in r.begin..(r.end - 1) : d[i] = r.data[i]
    BY <1>2, <1>3
  <1>5. /\ p.data = d /\ p.begin = r.begin /\ p.end = r.end + 1
        /\ p.capacity = r.capacity /\ p \in Queues(r.capacity)
    <2>1. p = [r EXCEPT !.data = d, !.end = r.end + 1]
      OBVIOUS
    <2>2. r.end + 1 \in 0..r.capacity
      BY <1>2, <1>3
    <2> HIDE DEF p, d
    <2>3. QED
      BY <1>3, <1>4, <2>1, <2>2 DEF Queues
  <1> HIDE DEF p, d
  <1>6. QueueOK(p)
    <2>1. \A i \in p.begin..(p.end - 1) : i = r.end \/ i \in r.begin..(r.end - 1)
      BY <1>3, <1>5
    <2>2. \A i \in p.begin..(p.end - 1) : p.data[i] \in Ids
      BY <1>3, <1>4, <1>5, <2>1
    <2>3. QED
      BY <1>3, <1>5, <2>2 DEF QueueOK
  <1>7. Q!Size(p) = Q!Size(r) + 1
    BY <1>3, <1>5 DEF Q!Size
  <1>8. Q!Value(p) = Append(Q!Value(r), t)
    <2>1. /\ Q!Value(p) \in Seq(Ids) /\ Len(Q!Value(p)) = Q!Size(r) + 1
          /\ \A i \in 1..(Q!Size(r) + 1) : Q!Value(p)[i] = p.data[p.begin + i - 1]
      BY <1>6, <1>7, ValueFacts
    <2>2. /\ Q!Value(r) \in Seq(Ids) /\ Len(Q!Value(r)) = Q!Size(r)
          /\ \A i \in 1..Q!Size(r) : Q!Value(r)[i] = r.data[r.begin + i - 1]
      BY <1>3, ValueFacts
    <2>3. ASSUME NEW i \in 1..(Q!Size(r) + 1)
          PROVE  Q!Value(p)[i] = Append(Q!Value(r), t)[i]
      <3>1. CASE i = Q!Size(r) + 1
        <4>1. p.begin + i - 1 = r.end
          BY <1>3, <1>5, <3>1
        <4>2. Append(Q!Value(r), t)[i] = t
          BY <2>2, <3>1
        <4>3. QED
          BY <1>4, <1>5, <2>1, <4>1, <4>2
      <3>2. CASE i \in 1..Q!Size(r)
        <4>1. p.begin + i - 1 = r.begin + i - 1 /\ r.begin + i - 1 \in r.begin..(r.end - 1)
          BY <1>3, <1>5, <3>2
        <4>2. Append(Q!Value(r), t)[i] = Q!Value(r)[i]
          BY <2>2, <3>2
        <4>3. Q!Value(p)[i] = d[r.begin + i - 1]
          BY <1>5, <2>1, <4>1
        <4>4. QED
          BY <1>4, <2>2, <3>2, <4>1, <4>2, <4>3
      <3>3. i = Q!Size(r) + 1 \/ i \in 1..Q!Size(r)
        BY <1>3
      <3>4. QED
        BY <3>1, <3>2, <3>3
    <2>4. Append(Q!Value(r), t) \in Seq(Ids) /\ Len(Append(Q!Value(r), t)) = Q!Size(r) + 1
      BY <2>2
    <2>5. QED
      BY <2>1, <2>3, <2>4, SeqEqual
  <1>9. QED
    BY <1>1, <1>2, <1>6, <1>7, <1>8, SameValue DEF SameQueue

\* Queue.Pop takes the first element.
LEMMA QueuePop ==
    ASSUME NEW q, QueueOK(q), Q!Size(q) > 0
    PROVE  /\ QueueOK(Q!Pop(q))
           /\ Q!Value(Q!Pop(q)) = Tail(Q!Value(q))
           /\ Q!Size(Q!Pop(q)) = Q!Size(q) - 1
           /\ Q!Front(q) = Q!Value(q)[1] /\ Q!Front(q) \in Ids
  <1> DEFINE d == [q.data EXCEPT ![q.begin] = 0]
             r == [q EXCEPT !.data[q.begin] = 0, !.begin = @ + 1]
  <1>1. /\ q.capacity \in Nat \ {0} /\ q \in Queues(q.capacity)
        /\ q.begin \in Nat /\ q.end \in Nat /\ q.begin < q.end
        /\ q.end <= q.capacity
        /\ q.data \in [0..(q.capacity - 1) -> Ids \cup {0}]
        /\ Q!Size(q) = q.end - q.begin /\ Q!Size(q) \in Nat
        /\ \A i \in q.begin..(q.end - 1) : q.data[i] \in Ids
    BY QueueFields DEF QueueOK
  <1>2. /\ d \in [0..(q.capacity - 1) -> Ids \cup {0}]
        /\ \A i \in (q.begin + 1)..(q.end - 1) : d[i] = q.data[i] /\ q.data[i] \in Ids
    BY <1>1
  <1>3. /\ r.data = d /\ r.begin = q.begin + 1 /\ r.end = q.end
        /\ r.capacity = q.capacity /\ r \in Queues(q.capacity)
    <2> DEFINE D == [0..(q.capacity - 1) -> Ids \cup {0}]
               B == 0..q.capacity
    <2>1. r = [q EXCEPT !.data = d, !.begin = q.begin + 1]
      OBVIOUS
    <2>2. q \in [data : D, begin : B, end : B, capacity : {q.capacity}]
      BY <1>1 DEF Queues
    <2>3. d \in D /\ q.begin + 1 \in B
      BY <1>1, <1>2
    <2> HIDE DEF D, B, d, r
    <2>4. r \in [data : D, begin : B, end : B, capacity : {q.capacity}]
      BY <2>1, <2>2, <2>3
    <2>5. /\ r.data = d /\ r.begin = q.begin + 1 /\ r.end = q.end
          /\ r.capacity = q.capacity
      BY <2>1, <2>2, <2>3
    <2>6. QED
      BY <2>4, <2>5 DEF Queues, D, B
  <1>4. Q!Pop(q) = IF r.begin >= r.capacity \div 2 THEN Q!shrink(r) ELSE r
    BY DEF Q!Pop
  <1> HIDE DEF d, r
  <1>5. QueueOK(r)
    <2>1. r.begin <= r.end /\ r.capacity \in Nat \ {0} /\ r \in Queues(r.capacity)
      BY <1>1, <1>3
    <2>2. \A i \in r.begin..(r.end - 1) : r.data[i] \in Ids
      BY <1>2, <1>3
    <2>3. QED
      BY <2>1, <2>2 DEF QueueOK
  <1>6. Q!Size(r) = Q!Size(q) - 1
    BY <1>1, <1>3 DEF Q!Size
  <1>7. Q!Value(q)[1] = q.data[q.begin] /\ Q!Front(q) = q.data[q.begin] /\ Q!Front(q) \in Ids
    <2>1. q.begin + 1 - 1 = q.begin /\ 1 \in 1..Q!Size(q) /\ q.begin \in q.begin..(q.end - 1)
      BY <1>1
    <2>2. QED
      BY <1>1, <2>1, ValueFacts DEF Q!Front
  <1>8. Q!Value(r) = Tail(Q!Value(q))
    <2>1. /\ Q!Value(q) \in Seq(Ids) /\ Len(Q!Value(q)) = Q!Size(q)
          /\ \A i \in 1..Q!Size(q) : Q!Value(q)[i] = q.data[q.begin + i - 1]
      BY ValueFacts
    <2>2. /\ Q!Value(r) \in Seq(Ids) /\ Len(Q!Value(r)) = Q!Size(q) - 1
          /\ \A i \in 1..(Q!Size(q) - 1) : Q!Value(r)[i] = r.data[r.begin + i - 1]
      BY <1>5, <1>6, ValueFacts
    <2>3. /\ Tail(Q!Value(q)) \in Seq(Ids) /\ Len(Tail(Q!Value(q))) = Q!Size(q) - 1
          /\ \A i \in 1..(Q!Size(q) - 1) : Tail(Q!Value(q))[i] = Q!Value(q)[i + 1]
      BY <1>1, <2>1
    <2>4. ASSUME NEW i \in 1..(Q!Size(q) - 1)
          PROVE  Q!Value(r)[i] = Tail(Q!Value(q))[i]
      <3>1. /\ r.begin + i - 1 = q.begin + i /\ q.begin + (i + 1) - 1 = q.begin + i
            /\ q.begin + i \in (q.begin + 1)..(q.end - 1) /\ i + 1 \in 1..Q!Size(q)
        <4>1. /\ q.begin \in Nat /\ q.end \in Nat /\ r.begin = q.begin + 1
              /\ Q!Size(q) = q.end - q.begin
          BY <1>1, <1>3
        <4>2. QED
          BY <4>1
      <3>2. Q!Value(r)[i] = d[q.begin + i]
        <4>1. Q!Value(r)[i] = r.data[r.begin + i - 1]
          BY <2>2
        <4>2. QED
          BY <1>3, <3>1, <4>1
      <3>3. Q!Value(q)[i + 1] = q.data[q.begin + i]
        <4>1. Q!Value(q)[i + 1] = q.data[q.begin + (i + 1) - 1]
          BY <2>1, <3>1
        <4>2. QED
          BY <3>1, <4>1
      <3>4. d[q.begin + i] = q.data[q.begin + i]
        BY <1>2, <3>1
      <3>5. QED
        BY <2>3, <3>2, <3>3, <3>4
    <2>5. QED
      BY <2>2, <2>3, <2>4, SeqEqual
  <1>9. SameQueue(Q!shrink(r), r)
    <2>1. /\ r.capacity \in Nat \ {0} /\ Q!Size(r) \in Nat
          /\ r.begin \in Nat /\ r.end \in Nat /\ r.begin <= r.end
      BY <1>5, QueueFields
    <2>2. CASE Q!Size(r) <= r.capacity \div 4 /\ r.capacity > InitCapacity
      <3>1. Q!shrink(r) = Q!MovedTo(r, Q!Smaller(r.capacity))
        BY <2>2 DEF Q!shrink
      <3>2. Q!Smaller(r.capacity) \in Nat \ {0} /\ Q!Size(r) <= Q!Smaller(r.capacity)
        BY <2>1, <2>2 DEF Q!Smaller
      <3>3. QED
        BY <1>5, <3>1, <3>2, MovedToSame
    <2>3. CASE ~(Q!Size(r) <= r.capacity \div 4 /\ r.capacity > InitCapacity)
      <3>1. Q!shrink(r) = r
        BY <2>3 DEF Q!shrink
      <3>2. QED
        BY <1>5, <3>1 DEF SameQueue
    <2>4. QED
      BY <2>2, <2>3
  <1>10. CASE Q!Pop(q) = r
    BY <1>5, <1>6, <1>7, <1>8, <1>10
  <1>11. CASE Q!Pop(q) = Q!shrink(r)
    BY <1>5, <1>6, <1>7, <1>8, <1>9, <1>11, SameValue DEF SameQueue
  <1>12. QED
    BY <1>4, <1>10, <1>11

-----------------------------------------------------------------------------
(* Occurrences in the execution queue *)

\* Append adds at most one timer.
LEMMA AppendRange ==
    ASSUME NEW s \in Seq(Ids), NEW u \in Ids
    PROVE  Range(Append(s, u)) \subseteq Range(s) \cup {u}
  <1> DEFINE a == Append(s, u)
  <1>1. /\ a \in Seq(Ids) /\ Len(s) \in Nat /\ Len(a) = Len(s) + 1
        /\ a[Len(s) + 1] = u /\ \A i \in 1..Len(s) : a[i] = s[i]
    OBVIOUS
  <1> HIDE DEF a
  <1>2. 1..Len(a) = 1..Len(s) \cup {Len(s) + 1}
    BY <1>1
  <1>3. Range(a) \subseteq Range(s) \cup {u}
    BY <1>1, <1>2, RangeFacts
  <1>4. QED
    BY <1>3 DEF a

\* Append adds one occurrence of its element, at the end.
LEMMA OccurrencesAppend ==
    ASSUME NEW s \in Seq(Ids), NEW u \in Ids, NEW t
    PROVE  /\ t # u => Occurrences(t, Append(s, u)) = Occurrences(t, s)
           /\ t = u => Occurrences(t, Append(s, u)) = Occurrences(t, s) \cup {Len(s) + 1}
  <1> DEFINE a == Append(s, u)
  <1>1. /\ a \in Seq(Ids) /\ Len(s) \in Nat /\ Len(a) = Len(s) + 1
        /\ a[Len(s) + 1] = u /\ \A i \in 1..Len(s) : a[i] = s[i]
    OBVIOUS
  <1> HIDE DEF a
  <1>2. 1..Len(a) = 1..Len(s) \cup {Len(s) + 1} /\ Len(s) + 1 \notin 1..Len(s)
    BY <1>1
  <1>3. \A i : i \in Occurrences(t, a) <=>
                 i \in Occurrences(t, s) \/ (i = Len(s) + 1 /\ t = u)
    BY <1>1, <1>2 DEF Occurrences
  <1>4. t # u => Occurrences(t, a) = Occurrences(t, s)
    BY <1>3
  <1>5. t = u => Occurrences(t, a) = Occurrences(t, s) \cup {Len(s) + 1}
    BY <1>3
  <1>6. QED
    BY <1>4, <1>5 DEF a

\* The first element less.
LEMMA OccurrencesTail ==
    ASSUME NEW s \in Seq(Ids), Len(s) > 0, NEW t
    PROVE  /\ Occurrences(t, s) = {} => Occurrences(t, Tail(s)) = {}
           /\ \A i \in 1..Len(s) : Occurrences(t, s) = {i} =>
                IF t = s[1] THEN Occurrences(t, Tail(s)) = {}
                ELSE \E j \in 1..Len(Tail(s)) : Occurrences(t, Tail(s)) = {j}
           /\ t = s[1] => Occurrences(t, s) # {}
           /\ Range(Tail(s)) \subseteq Range(s)
           /\ s[1] \in Range(s)
  <1> DEFINE r == Tail(s)
  <1>1. /\ r \in Seq(Ids) /\ Len(s) \in Nat \ {0} /\ Len(r) = Len(s) - 1
        /\ \A i \in 1..Len(r) : r[i] = s[i + 1]
    OBVIOUS
  <1> HIDE DEF r
  <1>2. \A i \in 1..Len(r) : i + 1 \in 1..Len(s) /\ i + 1 # 1
    BY <1>1
  <1>3. 1 \in 1..Len(s) /\ Range(r) \subseteq Range(s) /\ s[1] \in Range(s)
    <2>1. 1 \in 1..Len(s)
      BY <1>1
    <2>2. Range(s) = {s[i] : i \in 1..Len(s)} /\ Range(r) = {r[i] : i \in 1..Len(r)}
      BY <1>1, RangeFacts
    <2>3. QED
      BY <1>1, <1>2, <2>1, <2>2
  <1>4. \A j \in 1..Len(r) : j \in Occurrences(t, r) <=> j + 1 \in Occurrences(t, s)
    BY <1>1, <1>2 DEF Occurrences
  <1>5. Occurrences(t, r) \subseteq 1..Len(r)
    BY DEF Occurrences
  <1>6. Occurrences(t, s) = {} => Occurrences(t, r) = {}
    BY <1>4, <1>5
  <1>7. t = s[1] => 1 \in Occurrences(t, s)
    BY <1>3 DEF Occurrences
  <1>8. ASSUME NEW i \in 1..Len(s), Occurrences(t, s) = {i}, t = s[1]
        PROVE  Occurrences(t, r) = {}
    <2>1. i = 1
      BY <1>7, <1>8
    <2>2. \A j \in 1..Len(r) : j + 1 \notin Occurrences(t, s)
      BY <1>2, <1>8, <2>1
    <2>3. QED
      BY <1>4, <1>5, <2>2
  <1>9. ASSUME NEW i \in 1..Len(s), Occurrences(t, s) = {i}, t # s[1]
        PROVE  \E j \in 1..Len(r) : Occurrences(t, r) = {j}
    <2>1. i # 1
      BY <1>9 DEF Occurrences
    <2>2. i - 1 \in 1..Len(r) /\ (i - 1) + 1 = i
      BY <1>1, <2>1
    <2>3. i - 1 \in Occurrences(t, r)
      BY <1>4, <1>9, <2>2
    <2>4. \A j \in 1..Len(r) : j + 1 = i => j = i - 1
      BY <1>1
    <2>5. \A j \in Occurrences(t, r) : j = i - 1
      BY <1>4, <1>5, <1>9, <2>4
    <2>6. Occurrences(t, r) = {i - 1}
      BY <2>3, <2>5
    <2>7. QED
      BY <2>2, <2>6
  <1>10. QED
    BY <1>3, <1>6, <1>7, <1>8, <1>9 DEF r

-----------------------------------------------------------------------------
(* What the steps do to the heap and to the execution queue *)

\* The heap is the variables.
LEMMA HeapOf ==
    ASSUME HeapOK(Heap)
    PROVE  /\ Heap.q = tq /\ Heap.end = end /\ Heap.index = index
           /\ Heap \in Heaps /\ Indexed(Heap) /\ Ordered(Heap, Len(tq))
           /\ tq \in Seq(Ids) /\ Len(tq) \in Nat /\ Len(tq) <= TqSize
           /\ end \in [Ids -> Nat] /\ index \in [Ids -> Int]
  <1>1. Heap.q = tq /\ Heap.end = end /\ Heap.index = index
    BY DEF Heap
  <1>2. Heap \in Heaps /\ Indexed(Heap) /\ Ordered(Heap, Len(tq))
    BY <1>1 DEF HeapOK
  <1> HIDE DEF Heap
  <1>3. QED
    BY <1>1, <1>2, HeapFields

\* SetHeap makes the variables the heap it is given.
LEMMA HeapSet ==
    ASSUME NEW h, HeapOK(h), SetHeap(h)
    PROVE  HeapOK(Heap') /\ tq' = h.q
  <1>1. h \in Heaps
    BY DEF HeapOK
  <1>2. h = [q |-> h.q, end |-> h.end, index |-> h.index]
    BY <1>1, HeapFields
  <1>3. Heap' = [q |-> h.q, end |-> h.end, index |-> h.index]
    BY DEF Heap, SetHeap
  <1>4. QED
    BY <1>2, <1>3 DEF SetHeap

\* AddTimer adds its timer to the heap.
LEMMA AddEffect ==
    ASSUME TypeInv, HeapOK(Heap), NewInv,
           NEW e \in Times, NEW i \in Intervals, AddTimer(e, i)
    PROVE  /\ HeapOK(Heap') /\ lastId + 1 \in Ids
           /\ Range(tq') = Range(tq) \cup {lastId + 1}
  <1> DEFINE t == lastId + 1
             g == WithEnd(Heap, t, e)
             h == Push(g, t)
  <1>1. t \in Ids /\ t > lastId /\ e \in Nat
    BY DEF TypeInv, AddTimer, Ids, Times
  <1>2. t \in Ids \ Range(Heap.q)
    BY <1>1, HeapOf DEF NewInv
  <1>3. HeapOK(g) /\ g.q = tq
    <2>1. HeapOK(g) /\ g.q = Heap.q
      <3> HIDE DEF t
      <3>1. QED
        BY <1>1, <1>2, EndGood
    <2>2. Heap.q = tq
      BY DEF Heap
    <2>3. QED
      BY <2>1, <2>2
  <1>4. Len(tq) < TqSize /\ SetHeap(h)
    BY DEF AddTimer
  <1> HIDE DEF g, t
  <1>5. HeapOK(h) /\ Range(h.q) = Range(tq) \cup {t}
    BY <1>1, <1>2, <1>3, <1>4, HeapOf, PushGood
  <1> HIDE DEF h
  <1>6. QED
    BY <1>1, <1>4, <1>5, HeapSet DEF t

\* RemoveTimer takes a timer that is in the heap away.
LEMMA RemoveEffect ==
    ASSUME HeapOK(Heap), NEW t \in Range(tq), SetHeap(HeapRemove(Heap, index[t]))
    PROVE  HeapOK(Heap') /\ Range(tq') = Range(tq) \ {t}
  <1>1. PICK k \in 1..Len(tq) : t = tq[k]
    BY HeapOf, RangeFacts
  <1>2. k - 1 \in 0..(Len(tq) - 1) /\ (k - 1) + 1 = k
    BY HeapOf
  <1>3. index[t] = k - 1
    BY <1>1, <1>2, HeapOf DEF Indexed
  <1> DEFINE h == HeapRemove(Heap, index[t])
  <1>4. Without(h, Heap, Heap.q[(k - 1) + 1])
    BY <1>2, <1>3, HeapOf, RemoveGood
  <1> HIDE DEF h
  <1>5. HeapOK(h) /\ Range(h.q) = Range(tq) \ {t}
    BY <1>1, <1>2, <1>4, HeapOf DEF Without
  <1>6. SetHeap(h)
    BY DEF h
  <1>7. QED
    BY <1>5, <1>6, HeapSet

\* The first loop of Run moves the earliest timer to the execution queue, and
\* keeps it in the heap if it has an interval.
LEMMA CollectEffect ==
    ASSUME TypeInv, HeapOK(Heap), QueueOK(queue), Collect
    PROVE  /\ tq[1] \in Range(tq) /\ tq[1] \in Ids
           /\ HeapOK(Heap')
           /\ Range(tq') = IF interval[tq[1]] > 0 THEN Range(tq) ELSE Range(tq) \ {tq[1]}
           /\ QueueOK(queue')
           /\ ToCall' = Append(ToCall, tq[1])
           /\ Q!Size(queue') = Q!Size(queue) + 1
  <1> DEFINE t == Head(tq)
             h == Pop(Heap)
             g == WithEnd(h, t, now + interval[t])
             p == Push(g, t)
  <1>1. /\ tq # <<>> /\ queue' = Q!Push(queue, t)
        /\ SetHeap(IF interval[t] > 0 THEN p ELSE h)
    BY DEF Collect, Due
  <1>2. /\ t = tq[1] /\ 1 \in 1..Len(tq) /\ Len(tq) > 0
    BY <1>1, HeapOf
  <1>3. t \in Range(tq) /\ t \in Ids
    BY <1>2, HeapOf, RangeFacts
  <1>4. Without(h, Heap, t)
    BY <1>2, HeapOf, PopGood
  <1>5. QueueOK(queue') /\ ToCall' = Append(ToCall, t)
        /\ Q!Size(queue') = Q!Size(queue) + 1
    BY <1>1, <1>3, QueuePush DEF ToCall
  <1> HIDE DEF h, t
  <1>6. /\ HeapOK(h) /\ Len(h.q) < TqSize
        /\ Range(h.q) = Range(tq) \ {t}
    BY <1>4, HeapOf DEF Without
  <1>7. now + interval[t] \in Nat
    <2>1. interval[t] \in Intervals \cup {0} /\ now \in 0..MaxTime
      BY <1>3 DEF TypeInv, Times
    <2>2. interval[t] \in Nat /\ now \in Nat
      <3>1. CASE interval[t] \in Intervals
        <4>1. interval[t] \in Nat
          BY <3>1, Zenon
        <4>2. QED
          BY <2>1, <4>1
      <3>2. CASE interval[t] = 0
        BY <2>1, <3>2
      <3>3. QED
        BY <2>1, <3>1, <3>2
    <2>3. QED
      BY <2>2
  <1>8. HeapOK(g) /\ g.q = h.q
    <2> DEFINE e == now + interval[t]
    <2>1. t \in Ids \ Range(h.q) /\ e \in Nat
      BY <1>3, <1>6, <1>7
    <2> HIDE DEF e
    <2>2. HeapOK(WithEnd(h, t, e)) /\ WithEnd(h, t, e).q = h.q
      BY <1>6, <2>1, EndGood
    <2>3. QED
      BY <2>2 DEF e
  <1> HIDE DEF g
  <1>9. HeapOK(p) /\ Range(p.q) = (Range(tq) \ {t}) \cup {t}
    BY <1>3, <1>6, <1>8, PushGood
  <1>10. (Range(tq) \ {t}) \cup {t} = Range(tq)
    BY <1>3
  <1> HIDE DEF p
  <1>11. ASSUME interval[t] > 0
         PROVE  HeapOK(Heap') /\ Range(tq') = Range(tq)
    <2>1. SetHeap(p)
      BY <1>1, <1>11
    <2>2. QED
      BY <1>9, <1>10, <2>1, HeapSet
  <1>12. ASSUME ~(interval[t] > 0)
         PROVE  HeapOK(Heap') /\ Range(tq') = Range(tq) \ {t}
    <2>1. SetHeap(h)
      BY <1>1, <1>12
    <2>2. QED
      BY <1>6, <2>1, HeapSet
  <1>13. QED
    BY <1>2, <1>3, <1>5, <1>11, <1>12

\* The second loop of Run takes the first timer of the execution queue.
LEMMA TimeOutEffect ==
    ASSUME QueueOK(queue), TimeOut
    PROVE  /\ ToCall \in Seq(Ids) /\ Len(ToCall) > 0
           /\ QueueOK(queue')
           /\ ToCall' = Tail(ToCall)
           /\ fired' = fired \cup {ToCall[1]}
           /\ Q!Size(queue') = Q!Size(queue) - 1
  <1>1. Q!Size(queue) > 0 /\ queue' = Q!Pop(queue) /\ fired' = fired \cup {Q!Front(queue)}
    BY DEF TimeOut
  <1>2. ToCall \in Seq(Ids) /\ Len(ToCall) > 0
    BY <1>1, ValueFacts DEF ToCall
  <1>3. QED
    BY <1>1, <1>2, QueuePop DEF ToCall

-----------------------------------------------------------------------------
(* The inductive invariant *)

\* At first nothing is scheduled and nothing is to be called.
THEOREM TimerInvInit == TimerInit => TimerInv
  <1> SUFFICES ASSUME TimerInit PROVE TimerInv
    OBVIOUS
  <1>1. TypeInv
    BY DEF TimerInit, TypeInv, Times
  <1>2. Range(tq) = {} /\ tq = <<>>
    BY DEF TimerInit, Range
  <1>3. HeapOK(Heap)
    <2>1. /\ Heap.q = <<>> /\ Heap.end = end /\ Heap.index = index
          /\ Heap = [q |-> <<>>, end |-> end, index |-> index]
      BY <1>2 DEF Heap
    <2>2. end \in [Ids -> Nat] /\ index \in [Ids -> Int] /\ \A t \in Ids : index[t] = -1
      BY DEF TimerInit
    <2>3. Heap \in Heaps
      <3>1. <<>> \in Seq(Ids) /\ Len(<<>>) <= TqSize
        OBVIOUS
      <3>2. QED
        BY <2>1, <2>2, <3>1 DEF Heaps
    <2>4. Indexed(Heap)
      BY <2>1, <2>2 DEF Indexed
    <2>5. Ordered(Heap, Len(Heap.q))
      BY <2>1 DEF Ordered
    <2>6. QED
      BY <2>3, <2>4, <2>5 DEF HeapOK
  <1>4. QueueOK(queue) /\ Q!Size(queue) = 0
    <2>1. queue = [data |-> [i \in 0..(InitCapacity - 1) |-> 0],
                   begin |-> 0, end |-> 0, capacity |-> InitCapacity]
      BY DEF TimerInit, Q!NewQueue
    <2>2. queue.capacity = InitCapacity /\ queue.begin = 0 /\ queue.end = 0
      BY <2>1
    <2>3. queue \in Queues(InitCapacity)
      BY <2>1 DEF Queues
    <2>4. QED
      BY <2>2, <2>3 DEF QueueOK, Q!Size
  <1>5. Range(ToCall) = {}
    <2>1. ToCall \in Seq(Ids) /\ Len(ToCall) = 0
      BY <1>4, ValueFacts DEF ToCall
    <2>2. Range(ToCall) = {ToCall[i] : i \in 1..Len(ToCall)}
      BY <2>1, RangeFacts
    <2>3. 1..Len(ToCall) = {}
      BY <2>1
    <2>4. QED
      BY <2>2, <2>3
  <1>6. NewInv
    BY <1>2, <1>5 DEF NewInv, TimerInit
  <1>7. WhereInv
    BY DEF WhereInv, TimerInit
  <1>8. LimitInv
    BY DEF LimitInv, TimerInit
  <1>9. QED
    BY <1>1, <1>3, <1>4, <1>6, <1>7, <1>8 DEF TimerInv

\* Variables that stay make the same heap.
LEMMA SameHeap == UNCHANGED <<tq, end, index>> => Heap' = Heap
  BY DEF Heap

\* A queue that stays has the same timers to call.
LEMMA SameToCall == UNCHANGED queue => ToCall' = ToCall
  BY DEF ToCall

\* Every step keeps the types.
LEMMA TimerTypeNext ==
    ASSUME TypeInv, QueueOK(queue), [TimerNext]_timerVars
    PROVE  TypeInv'
  <1> USE DEF heapVars, runVars, argVars
  <1>1. ASSUME NEW e \in Times, NEW i \in Intervals, AddTimer(e, i)
        PROVE  TypeInv'
    <2>1. lastId + 1 \in Ids /\ lastId + 1 \in 0..MaxTimers
      BY <1>1 DEF AddTimer, TypeInv, Ids
    <2>2. interval' \in [Ids -> Intervals \cup {0}]
      BY <1>1, <2>1 DEF AddTimer, TypeInv
    <2>3. QED
      BY <1>1, <2>1, <2>2 DEF AddTimer, TypeInv
  <1>2. ASSUME NEW t \in Ids, RemoveTimer(t)
        PROVE  TypeInv'
    BY <1>2 DEF RemoveTimer, TypeInv
  <1>3. ASSUME NEW n \in Times, NEW l \in Limits, Run(n, l)
        PROVE  TypeInv'
    <2>1. Q!Size(queue) \in Nat
      BY QueueFields
    <2>2. QED
      BY <1>3, <2>1 DEF Run, TypeInv
  <1>4. CASE Collect
    BY <1>4 DEF Collect, TypeInv
  <1>5. CASE CollectEnds
    BY <1>5 DEF CollectEnds, TypeInv
  <1>6. CASE TimeOut
    <2>1. Q!Front(queue) \in Ids
      BY <1>6, QueuePop DEF TimeOut
    <2>2. Q!Front(queue) \in 0..MaxTimers
      BY <2>1 DEF Ids
    <2>3. QED
      BY <1>6, <2>1, <2>2 DEF TimeOut, TypeInv
  <1>7. CASE TimeOutReturns
    BY <1>7 DEF TimeOutReturns, TypeInv
  <1>8. CASE RunReturns
    BY <1>8 DEF RunReturns, TypeInv
  <1>9. CASE TimeOutPanics
    BY <1>9 DEF TimeOutPanics, TypeInv
  <1>10. CASE UNCHANGED timerVars
    BY <1>10 DEF timerVars, TypeInv
  <1>11. QED
    BY <1>1, <1>2, <1>3, <1>4, <1>5, <1>6, <1>7, <1>8, <1>9, <1>10 DEF TimerNext, RunStep

\* Steps that touch neither the heap nor the queue, nor what was called and
\* removed.
Leaves == UNCHANGED <<heapVars, queue, fired, removed>>

\* Run, its ends, the returns and panics of callbacks are such steps.
LEMMA LeavingSteps ==
    ASSUME CollectEnds \/ TimeOutReturns \/ RunReturns \/ TimeOutPanics
             \/ (\E n \in Times, l \in Limits : Run(n, l)) \/ UNCHANGED timerVars
    PROVE  Leaves
  BY DEF Leaves, CollectEnds, TimeOutReturns, RunReturns, TimeOutPanics, Run, timerVars

\* The steps, the leaving ones together.
LEMMA TimerSteps ==
    ASSUME [TimerNext]_timerVars
    PROVE  \/ \E e \in Times, i \in Intervals : AddTimer(e, i)
           \/ \E t \in Ids : RemoveTimer(t)
           \/ Collect
           \/ TimeOut
           \/ Leaves
  BY LeavingSteps DEF TimerNext, RunStep

\* Every step leaves a heap and a queue behind.
LEMMA TimerDataNext ==
    ASSUME TypeInv, HeapOK(Heap), QueueOK(queue), NewInv, [TimerNext]_timerVars
    PROVE  HeapOK(Heap') /\ QueueOK(queue')
  <1>1. ASSUME NEW e \in Times, NEW i \in Intervals, AddTimer(e, i)
        PROVE  HeapOK(Heap') /\ QueueOK(queue')
    <2>1. queue' = queue
      BY <1>1 DEF AddTimer
    <2>2. QED
      BY <1>1, <2>1, AddEffect
  <1>2. ASSUME NEW t \in Ids, RemoveTimer(t)
        PROVE  HeapOK(Heap') /\ QueueOK(queue')
    <2>1. queue' = queue
      BY <1>2 DEF RemoveTimer
    <2>2. CASE t \in Range(tq)
      <3>1. SetHeap(HeapRemove(Heap, index[t]))
        BY <1>2, <2>2 DEF RemoveTimer
      <3>2. QED
        BY <2>1, <2>2, <3>1, RemoveEffect
    <2>3. CASE t \notin Range(tq)
      <3>1. Heap' = Heap
        BY <1>2, <2>3, SameHeap DEF RemoveTimer
      <3>2. QED
        BY <2>1, <3>1
    <2>4. QED
      BY <2>2, <2>3
  <1>3. CASE Collect
    BY <1>3, CollectEffect
  <1>4. CASE TimeOut
    <2>1. Heap' = Heap
      BY <1>4, SameHeap DEF TimeOut, heapVars
    <2>2. QED
      BY <1>4, <2>1, TimeOutEffect
  <1>5. CASE Leaves
    <2>1. Heap' = Heap /\ queue' = queue
      BY <1>5, SameHeap DEF Leaves, heapVars
    <2>2. QED
      BY <2>1
  <1>6. QED
    BY <1>1, <1>2, <1>3, <1>4, <1>5, TimerSteps

\* A timer that is not in a sequence does not occur there.
LEMMA OccurrencesNone ==
    ASSUME NEW s \in Seq(Ids), NEW t, t \notin Range(s)
    PROVE  Occurrences(t, s) = {}
  <1>1. \A i \in 1..Len(s) : s[i] \in Range(s)
    BY RangeFacts
  <1>2. QED
    BY <1>1 DEF Occurrences

\* A timer that was just added has been seen by nobody.
LEMMA NewNext ==
    ASSUME TypeInv, HeapOK(Heap), QueueOK(queue), NewInv, [TimerNext]_timerVars
    PROVE  NewInv'
  <1>1. lastId \in Nat
    BY DEF TypeInv
  <1>2. ASSUME NEW e \in Times, NEW i \in Intervals, AddTimer(e, i)
        PROVE  NewInv'
    <2>1. Range(tq') = Range(tq) \cup {lastId + 1}
      BY <1>2, AddEffect
    <2>2. lastId' = lastId + 1 /\ fired' = fired /\ ToCall' = ToCall
      BY <1>2, SameToCall DEF AddTimer
    <2>3. \A t \in Ids : t > lastId + 1 => t > lastId /\ t # lastId + 1
      BY <1>1 DEF Ids
    <2>4. QED
      BY <2>1, <2>2, <2>3 DEF NewInv
  <1>3. ASSUME Range(tq') \subseteq Range(tq),
               Range(ToCall') \subseteq Range(ToCall) \cup Range(tq),
               fired' \subseteq fired \cup Range(ToCall), lastId' = lastId
        PROVE  NewInv'
    BY <1>3 DEF NewInv
  <1>4. ASSUME NEW t \in Ids, RemoveTimer(t)
        PROVE  NewInv'
    <2>1. fired' = fired /\ ToCall' = ToCall /\ lastId' = lastId
      BY <1>4, SameToCall DEF RemoveTimer
    <2>2. Range(tq') \subseteq Range(tq)
      <3>1. CASE t \in Range(tq)
        <4>1. SetHeap(HeapRemove(Heap, index[t]))
          BY <1>4, <3>1 DEF RemoveTimer
        <4>2. QED
          BY <3>1, <4>1, RemoveEffect
      <3>2. CASE t \notin Range(tq)
        BY <1>4, <3>2 DEF RemoveTimer
      <3>3. QED
        BY <3>1, <3>2
    <2>3. QED
      BY <1>3, <2>1, <2>2
  <1>5. CASE Collect
    <2>1. lastId' = lastId /\ fired' = fired
      BY <1>5 DEF Collect
    <2>2. ToCall \in Seq(Ids)
      BY ValueFacts DEF ToCall
    <2>3. Range(ToCall') \subseteq Range(ToCall) \cup Range(tq)
      <3>1. tq[1] \in Range(tq) /\ tq[1] \in Ids /\ ToCall' = Append(ToCall, tq[1])
        BY <1>5, CollectEffect
      <3>2. Range(ToCall') \subseteq Range(ToCall) \cup {tq[1]}
        BY <2>2, <3>1, AppendRange
      <3>3. QED
        BY <3>1, <3>2
    <2>4. Range(tq') \subseteq Range(tq)
      BY <1>5, CollectEffect
    <2>5. QED
      BY <1>3, <2>1, <2>3, <2>4
  <1>6. CASE TimeOut
    <2>1. lastId' = lastId /\ tq' = tq
      BY <1>6 DEF TimeOut, heapVars
    <2>2. Range(Tail(ToCall)) \subseteq Range(ToCall) /\ ToCall[1] \in Range(ToCall)
      BY <1>6, TimeOutEffect, OccurrencesTail
    <2>3. ToCall' = Tail(ToCall) /\ fired' = fired \cup {ToCall[1]}
      BY <1>6, TimeOutEffect
    <2>4. QED
      BY <1>3, <2>1, <2>2, <2>3
  <1>7. CASE Leaves
    <2>1. lastId' = lastId /\ tq' = tq /\ fired' = fired /\ ToCall' = ToCall
      BY <1>7, SameToCall DEF Leaves, heapVars
    <2>2. QED
      BY <1>3, <2>1
  <1>8. QED
    BY <1>2, <1>4, <1>5, <1>6, <1>7, TimerSteps

\* Every step keeps track of the timers that are not removed.
LEMMA WhereNext ==
    ASSUME TypeInv, HeapOK(Heap), QueueOK(queue), NewInv, WhereInv, [TimerNext]_timerVars
    PROVE  WhereInv'
  <1>1. lastId \in 0..MaxTimers /\ 1..lastId \subseteq Ids
    BY DEF TypeInv, Ids
  <1>2. ToCall \in Seq(Ids)
    BY ValueFacts DEF ToCall
  <1>3. ASSUME NEW e \in Times, NEW i \in Intervals, AddTimer(e, i)
        PROVE  WhereInv'
    <2> DEFINE u == lastId + 1
    <2>1. Range(tq') = Range(tq) \cup {u} /\ u \in Ids
      BY <1>3, AddEffect
    <2>2. /\ lastId' = u /\ fired' = fired /\ ToCall' = ToCall /\ removed' = removed
          /\ interval' = [interval EXCEPT ![u] = i]
      BY <1>3, SameToCall DEF AddTimer
    <2>3. u \notin Range(ToCall) /\ u \notin fired
      <3>1. u > lastId
        BY <1>1
      <3>2. QED
        BY <2>1, <3>1 DEF NewInv
    <2>4. Occurrences(u, ToCall) = {}
      BY <1>2, <2>3, OccurrencesNone
    <2>5. Placed(u, Range(tq'), ToCall, fired)
      BY <2>1, <2>3, <2>4 DEF Placed
    <2>6. \A t \in 1..u : t = u \/ (t \in 1..lastId /\ t # u /\ t \in Ids)
      BY <1>1
    <2>7. \A t \in 1..lastId : t # u => interval'[t] = interval[t]
      BY <1>1, <2>2 DEF TypeInv
    <2> HIDE DEF u
    <2>8. SUFFICES ASSUME NEW t \in 1..u, t \notin removed
                   PROVE  IF interval'[t] > 0 THEN t \in Range(tq')
                                              ELSE Placed(t, Range(tq'), ToCall, fired)
      BY <2>2 DEF WhereInv
    <2>9. CASE t = u
      BY <2>1, <2>5, <2>9
    <2>10. CASE t # u /\ t \in 1..lastId
      BY <2>1, <2>7, <2>8, <2>10 DEF WhereInv, Placed
    <2>11. QED
      BY <2>6, <2>9, <2>10
  <1>4. ASSUME NEW u \in Ids, RemoveTimer(u)
        PROVE  WhereInv'
    <2>1. /\ lastId' = lastId /\ fired' = fired /\ ToCall' = ToCall
          /\ interval' = interval /\ removed \subseteq removed'
          /\ u \in Range(tq) \cup Range(ToCall) => u \in removed'
      BY <1>4, SameToCall DEF RemoveTimer
    <2>2. \A t : t \notin removed' => (t \in Range(tq') <=> t \in Range(tq))
      <3>1. CASE u \in Range(tq)
        <4>1. SetHeap(HeapRemove(Heap, index[u]))
          BY <1>4, <3>1 DEF RemoveTimer
        <4>2. Range(tq') = Range(tq) \ {u}
          BY <3>1, <4>1, RemoveEffect
        <4>3. QED
          BY <2>1, <3>1, <4>2
      <3>2. CASE u \notin Range(tq)
        BY <1>4, <3>2 DEF RemoveTimer
      <3>3. QED
        BY <3>1, <3>2
    <2>3. SUFFICES ASSUME NEW t \in 1..lastId, t \notin removed'
                   PROVE  IF interval[t] > 0 THEN t \in Range(tq')
                                             ELSE Placed(t, Range(tq'), ToCall, fired)
      BY <2>1 DEF WhereInv
    <2>4. t \notin removed /\ (t \in Range(tq') <=> t \in Range(tq))
      BY <2>1, <2>2, <2>3
    <2>5. QED
      BY <2>4 DEF WhereInv, Placed
  <1>5. CASE Collect
    <2> DEFINE u == tq[1]
    <2>1. /\ lastId' = lastId /\ fired' = fired /\ interval' = interval /\ removed' = removed
      BY <1>5 DEF Collect
    <2>2. /\ u \in Range(tq) /\ u \in Ids
          /\ Range(tq') = IF interval[u] > 0 THEN Range(tq) ELSE Range(tq) \ {u}
          /\ ToCall' = Append(ToCall, u)
      BY <1>5, CollectEffect
    <2> HIDE DEF u
    <2>3. SUFFICES ASSUME NEW t \in 1..lastId, t \notin removed
                   PROVE  IF interval[t] > 0 THEN t \in Range(tq')
                                             ELSE Placed(t, Range(tq'), ToCall', fired)
      BY <2>1 DEF WhereInv
    <2>4. IF interval[t] > 0 THEN t \in Range(tq) ELSE Placed(t, Range(tq), ToCall, fired)
      BY <2>3 DEF WhereInv
    <2>5. CASE t # u
      <3>1. Occurrences(t, ToCall') = Occurrences(t, ToCall)
        BY <1>2, <2>2, <2>5, OccurrencesAppend
      <3>2. t \in Range(tq') <=> t \in Range(tq)
        BY <2>2, <2>5
      <3>3. Len(ToCall') = Len(ToCall) + 1 /\ Len(ToCall) \in Nat
        BY <1>2, <2>2
      <3>4. \A i \in 1..Len(ToCall) : i \in 1..Len(ToCall')
        BY <3>3
      <3>5. QED
        BY <2>4, <3>1, <3>2, <3>4 DEF Placed
    <2>6. CASE t = u /\ interval[t] > 0
      BY <2>2, <2>6
    <2>7. CASE t = u /\ ~(interval[t] > 0)
      <3>1. Occurrences(t, ToCall) = {} /\ t \notin fired
        BY <2>2, <2>4, <2>7 DEF Placed
      <3>2. Occurrences(t, ToCall') = {Len(ToCall) + 1}
        BY <1>2, <2>2, <2>7, <3>1, OccurrencesAppend
      <3>3. Len(ToCall) + 1 \in 1..Len(ToCall')
        BY <1>2, <2>2
      <3>4. t \notin Range(tq')
        BY <2>2, <2>7
      <3>5. QED
        BY <2>7, <3>1, <3>2, <3>3, <3>4 DEF Placed
    <2>8. QED
      BY <2>5, <2>6, <2>7
  <1>6. CASE TimeOut
    <2>1. /\ lastId' = lastId /\ tq' = tq /\ interval' = interval /\ removed' = removed
      BY <1>6 DEF TimeOut, heapVars
    <2>2. /\ Len(ToCall) > 0 /\ ToCall' = Tail(ToCall)
          /\ fired' = fired \cup {ToCall[1]}
      BY <1>6, TimeOutEffect
    <2>3. SUFFICES ASSUME NEW t \in 1..lastId, t \notin removed
                   PROVE  IF interval[t] > 0 THEN t \in Range(tq)
                                             ELSE Placed(t, Range(tq), ToCall', fired')
      BY <2>1 DEF WhereInv
    <2>4. IF interval[t] > 0 THEN t \in Range(tq) ELSE Placed(t, Range(tq), ToCall, fired)
      BY <2>3 DEF WhereInv
    <2> DEFINE s == ToCall
               r == Tail(s)
    <2>5. /\ Occurrences(t, s) = {} => Occurrences(t, r) = {}
          /\ \A i \in 1..Len(s) : Occurrences(t, s) = {i} =>
               IF t = s[1] THEN Occurrences(t, r) = {}
               ELSE \E j \in 1..Len(r) : Occurrences(t, r) = {j}
          /\ t = s[1] => Occurrences(t, s) # {}
      <3> HIDE DEF s
      <3>1. s \in Seq(Ids) /\ Len(s) > 0
        BY <1>2, <2>2 DEF s
      <3>2. QED
        BY <3>1, OccurrencesTail
    <2>6. t \in fired' <=> t \in fired \/ t = ToCall[1]
      BY <2>2
    <2>7. QED
      BY <2>2, <2>4, <2>5, <2>6 DEF Placed
  <1>7. CASE Leaves
    <2>1. /\ lastId' = lastId /\ tq' = tq /\ fired' = fired /\ ToCall' = ToCall
          /\ interval' = interval /\ removed' = removed
      BY <1>7, SameToCall DEF Leaves, heapVars
    <2>2. QED
      BY <2>1 DEF WhereInv
  <1>8. QED
    BY <1>3, <1>4, <1>5, <1>6, <1>7, TimerSteps

\* Every step keeps the calls of a Run, made and to come, within its limit.
LEMMA CallsNext ==
    ASSUME TypeInv, HeapOK(Heap), QueueOK(queue), LimitInv, [TimerNext]_timerVars
    PROVE  LimitInv'
  <1> USE DEF LimitInv, MostCalls
  <1>1. /\ Q!Size(queue) \in Nat /\ calls \in Nat /\ left \in Nat
        /\ limit \in Limits \cup {0} /\ Limits \subseteq Nat
    BY QueueFields DEF TypeInv
  <1>2. limit \in Nat
    <2>1. CASE limit \in Limits
      BY <1>1, <2>1, Zenon
    <2>2. CASE limit = 0
      BY <2>2
    <2>3. QED
      BY <1>1, <2>1, <2>2
  <1>3. ASSUME NEW e \in Times, NEW i \in Intervals, AddTimer(e, i)
        PROVE  LimitInv'
    BY <1>3 DEF AddTimer, runVars, argVars
  <1>4. ASSUME NEW t \in Ids, RemoveTimer(t)
        PROVE  LimitInv'
    BY <1>4 DEF RemoveTimer, runVars, argVars
  <1>5. ASSUME NEW n \in Times, NEW l \in Limits, Run(n, l)
        PROVE  LimitInv'
    <2>1. /\ limit' = l /\ left' = Q!Size(queue) /\ calls' = 0 /\ queue' = queue
      BY <1>5 DEF Run
    <2>2. l \in Nat
      BY <1>1, Zenon
    <2>3. QED
      BY <1>1, <2>1, <2>2
  <1>6. CASE Collect
    <2>1. /\ phase = "collect" /\ UNCHANGED <<calls, limit, left>>
          /\ phase' = IF limit > 0 /\ Q!Size(queue') >= limit THEN "exec" ELSE "collect"
      BY <1>6 DEF Collect, argVars
    <2>2. Q!Size(queue') = Q!Size(queue) + 1
      BY <1>6, CollectEffect
    <2> DEFINE k == Q!Size(queue)
               m == Q!Size(queue')
    <2>3. m = k + 1 /\ k \in Nat
      BY <1>1, <2>2
    <2>4. limit > 0 => calls = 0 /\ (k < limit \/ k = left)
      BY <2>1
    <2>5. phase' = "collect" => limit = 0 \/ m < limit
      BY <1>2, <2>1, <2>3
    <2>6. limit > 0 => /\ calls + m <= MostCalls
                       /\ phase' = "collect" => calls = 0 /\ (m < limit \/ m = left)
      <3> HIDE DEF k, m
      <3>1. QED
        BY <1>1, <1>2, <2>3, <2>4, <2>5
    <2>7. QED
      BY <2>1, <2>6
  <1>7. CASE CollectEnds
    BY <1>7 DEF CollectEnds, argVars
  <1>8. CASE TimeOut
    <2>1. calls' = calls + 1 /\ phase' = "callback" /\ UNCHANGED <<limit, left>>
      BY <1>8 DEF TimeOut, argVars
    <2>2. Q!Size(queue') = Q!Size(queue) - 1
      BY <1>8, TimeOutEffect
    <2>3. calls' + Q!Size(queue') = calls + Q!Size(queue)
      BY <1>1, <2>1, <2>2
    <2>4. QED
      BY <2>1, <2>3
  <1>9. CASE TimeOutReturns
    BY <1>9 DEF TimeOutReturns, argVars
  <1>10. CASE RunReturns
    BY <1>10 DEF RunReturns, argVars
  <1>11. CASE TimeOutPanics
    BY <1>11 DEF TimeOutPanics, argVars
  <1>12. CASE UNCHANGED timerVars
    BY <1>12 DEF timerVars, runVars, argVars
  <1>13. QED
    BY <1>3, <1>4, <1>5, <1>6, <1>7, <1>8, <1>9, <1>10, <1>11, <1>12 DEF TimerNext, RunStep

\* The invariant is inductive.
THEOREM TimerInvNext == TimerInv /\ [TimerNext]_timerVars => TimerInv'
  <1> SUFFICES ASSUME TimerInv, [TimerNext]_timerVars PROVE TimerInv'
    OBVIOUS
  <1>1. TypeInv /\ HeapOK(Heap) /\ QueueOK(queue) /\ NewInv /\ WhereInv /\ LimitInv
    BY DEF TimerInv
  <1>2. TypeInv'
    BY <1>1, TimerTypeNext
  <1>3. HeapOK(Heap') /\ QueueOK(queue')
    BY <1>1, TimerDataNext
  <1>4. NewInv'
    BY <1>1, NewNext
  <1>5. WhereInv'
    BY <1>1, WhereNext
  <1>6. LimitInv'
    BY <1>1, CallsNext
  <1>7. QED
    BY <1>2, <1>3, <1>4, <1>5, <1>6 DEF TimerInv

\* After every sequence of additions, removals, runs and panics: the heap is in
\* order and knows the positions, the execution queue is one, and every timer
\* that was not removed is where it belongs.
THEOREM TimerInvariance == TimerSpec => []TimerInv
  BY TimerInvInit, TimerInvNext, PTL DEF TimerSpec

-----------------------------------------------------------------------------
(* What follows from the invariant *)

\* Every variable has its type, and the heap keeps to its capacity.
THEOREM TimerTypeCorrect == TimerSpec => []TimerTypeOK
  <1>1. TimerInv => TimerTypeOK
    <2> SUFFICES ASSUME TimerInv PROVE TimerTypeOK
      OBVIOUS
    <2>1. TypeInv /\ HeapOK(Heap) /\ QueueOK(queue)
      BY DEF TimerInv
    <2>2. /\ tq \in Seq(Ids) /\ Len(tq) \in Nat /\ Len(tq) <= TqSize
          /\ end \in [Ids -> Nat] /\ index \in [Ids -> Int] /\ Indexed(Heap)
          /\ Heap.q = tq /\ Heap.index = index
      BY <2>1, HeapOf
    <2>3. ToCall \in Seq(Ids)
      BY <2>1, ValueFacts DEF ToCall
    <2>4. ASSUME NEW t \in Ids
          PROVE  index[t] \in (-1)..(TqSize - 1)
      <3>1. CASE t \in Range(tq)
        <4>1. PICK k \in 1..Len(tq) : t = tq[k]
          BY <2>2, <3>1, RangeFacts
        <4>2. k - 1 \in 0..(Len(tq) - 1) /\ (k - 1) + 1 = k
          BY <2>2
        <4>3. index[t] = k - 1
          BY <2>2, <4>1, <4>2 DEF Indexed
        <4>4. QED
          BY <2>2, <4>2, <4>3
      <3>2. CASE t \notin Range(tq)
        <4>1. index[t] = -1
          BY <2>2, <3>2 DEF Indexed
        <4>2. QED
          BY <4>1
      <3>3. QED
        BY <3>1, <3>2
    <2>5. index \in [Ids -> (-1)..(TqSize - 1)]
      BY <2>2, <2>4
    <2>6. QED
      BY <2>1, <2>2, <2>3, <2>5 DEF TypeInv, TimerTypeOK
  <1>2. QED
    BY <1>1, TimerInvariance, PTL

\* The positions RemoveTimer relies on are right, and the root is a timer with
\* the earliest end.
THEOREM HeapStaysConsistent == TimerSpec => []HeapConsistent
  <1>1. TimerInv => HeapConsistent
    <2> SUFFICES ASSUME TimerInv PROVE HeapConsistent
      OBVIOUS
    <2>1. /\ tq \in Seq(Ids) /\ Len(tq) \in Nat /\ Indexed(Heap) /\ Heap \in Heaps
          /\ Ordered(Heap, Len(tq))
          /\ Heap.q = tq /\ Heap.index = index /\ Heap.end = end
      BY HeapOf DEF TimerInv
    <2>2. \A k \in 0..(Len(tq) - 1) : Key(Heap, 0) <= Key(Heap, k)
      <3>1. Len(tq) \in 0..Len(Heap.q)
        BY <2>1
      <3>2. QED
        BY <2>1, <3>1, RootIsLeast
    <2>3. \A i \in 1..Len(tq) : i - 1 \in 0..(Len(tq) - 1) /\ (i - 1) + 1 = i
      BY <2>1
    <2>4. ASSUME NEW i \in 1..Len(tq)
          PROVE  index[tq[i]] = i - 1
      BY <2>1, <2>3 DEF Indexed
    <2>5. ASSUME NEW i \in 1..Len(tq)
          PROVE  end[Head(tq)] <= end[tq[i]]
      <3>1. Key(Heap, 0) <= Key(Heap, i - 1)
        BY <2>2, <2>3
      <3>2. Key(Heap, 0) = end[tq[1]] /\ Key(Heap, i - 1) = end[tq[i]]
        BY <2>1, <2>3 DEF Key
      <3>3. Head(tq) = tq[1]
        BY <2>1
      <3>4. QED
        BY <3>1, <3>2, <3>3
    <2>6. \A t \in Ids \ Range(tq) : index[t] = -1
      BY <2>1 DEF Indexed
    <2>7. QED
      BY <2>4, <2>5, <2>6 DEF HeapConsistent
  <1>2. QED
    BY <1>1, TimerInvariance, PTL

\* No timer is lost: until it is removed, an interval timer stays scheduled,
\* and a single timer is scheduled or to be called, once, until it was called,
\* whatever the callbacks add and remove and wherever they panic.
THEOREM TimersAreKept == TimerSpec => []NoTimerLost
  <1>1. TimerInv => NoTimerLost
    <2> SUFFICES ASSUME TimerInv, NEW t \in 1..lastId, t \notin removed
                 PROVE  IF interval[t] > 0
                          THEN t \in Range(tq)
                          ELSE t \notin fired <=>
                                 \/ t \in Range(tq) /\ Occurrences(t, ToCall) = {}
                                 \/ /\ t \notin Range(tq)
                                    /\ \E i \in 1..Len(ToCall) : Occurrences(t, ToCall) = {i}
      BY DEF NoTimerLost
    <2>1. IF interval[t] > 0 THEN t \in Range(tq) ELSE Placed(t, Range(tq), ToCall, fired)
      BY DEF TimerInv, WhereInv
    <2>2. \A i : {i} # {}
      OBVIOUS
    <2>3. QED
      BY <2>1, <2>2 DEF Placed
  <1>2. QED
    BY <1>1, TimerInvariance, PTL

\* A Run that finds fewer timers than its limit in the queue calls back at most
\* limit timers, and any other at most one more than it found.
THEOREM CallsAreLimited == TimerSpec => []CallsWithinLimit
  <1>1. TimerInv => CallsWithinLimit
    <2> SUFFICES ASSUME TimerInv, limit > 0
                 PROVE  /\ left < limit => calls <= limit
                        /\ left >= limit => calls <= left + 1
      BY DEF CallsWithinLimit
    <2>1. calls + Q!Size(queue) <= MostCalls /\ calls \in Nat /\ left \in Nat
      BY DEF TimerInv, LimitInv, TypeInv
    <2>2. Q!Size(queue) \in Nat
      BY QueueFields DEF TimerInv
    <2>3. MostCalls = IF left < limit THEN limit ELSE left + 1
      BY DEF MostCalls
    <2>4. MostCalls \in Nat
      <3>1. limit \in Limits \cup {0}
        BY DEF TimerInv, TypeInv
      <3>2. CASE limit \in Limits
        <4>1. limit \in Nat
          BY <3>2, Zenon
        <4>2. QED
          BY <2>1, <2>3, <4>1
      <3>3. CASE limit = 0
        BY <2>1, <2>3, <3>3
      <3>4. QED
        BY <3>1, <3>2, <3>3
    <2>5. calls <= MostCalls
      BY <2>1, <2>2, <2>4
    <2>6. left \in Nat /\ limit \in Nat
      BY <2>1, TimerAssumption DEF TimerInv, TypeInv
    <2>7. QED
      BY <2>3, <2>5, <2>6
  <1>2. QED
    BY <1>1, TimerInvariance, PTL

=============================================================================
