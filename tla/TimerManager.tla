---------------------------- MODULE TimerManager ----------------------------
(***************************************************************************)
(* TimerManager and TimerQueue of common/timer: a binary heap of timers    *)
(* that records each timer's position, and Run, which moves due timers to  *)
(* an execution queue and then calls them back.  A callback may itself add *)
(* and remove timers, and may panic.  The manager belongs to one goroutine,*)
(* as its documentation demands: what can surprise is the reentrancy.      *)
(***************************************************************************)
EXTENDS Integers, Sequences, Functions

CONSTANTS
  TqSize,       \* the capacity of the heap
  MaxTimers,  \* bound: timers that are ever added
  MaxTime,    \* bound: the latest time
  Intervals,  \* the values of Timer.interval
  Limits,     \* the limits Run is called with, 0: none
  InitCapacity \* initCapacity of container.Queue

ASSUME TimerAssumption ==
  /\ TqSize \in Nat \ {0}
  /\ MaxTimers \in Nat
  /\ MaxTime \in Nat
  /\ Intervals \subseteq Nat
  /\ Limits \subseteq Nat
  /\ InitCapacity \in Nat \ {0}

Ids == 1..MaxTimers
Times == 0..MaxTime

Q == INSTANCE Queue WITH Zero <- 0

VARIABLES
  lastId,    \* TimerManager.id
  tq,        \* TimerManager.tq: the heap, position i of the slice is tq[i + 1]
  end,       \* Timer.end
  interval,  \* Timer.interval
  index,     \* Timer.index
  queue,     \* TimerManager.queue, see module Queue: the timers to call back
  phase,     \* "idle", or where Run is: "collect", "exec" or "callback"
  now,       \* the time Run was called with
  limit,     \* the limit Run was called with
  left,      \* how many timers the execution queue held when Run began
  calls,     \* callCount of this Run
  cur,       \* the timer whose callback runs
  fired,     \* the timers that have been called back
  removed    \* the timers RemoveTimer was called for before they were executed

heapVars == <<lastId, tq, end, interval, index>>
argVars == <<now, limit, left>>
runVars == <<phase, argVars, calls, cur>>
timerVars == <<heapVars, queue, runVars, fired, removed>>

-----------------------------------------------------------------------------
(* TimerQueue under container/heap.  A heap is [q, end, index].            *)

Less(h, i, j) == h.end[h.q[i + 1]] < h.end[h.q[j + 1]]

\* Faulty variant: the positions are not kept.
SwapOnly(h, i, j) ==
  [h EXCEPT !.q = [@ EXCEPT ![i + 1] = h.q[j + 1], ![j + 1] = h.q[i + 1]]]

Swap(h, i, j) ==
  [h EXCEPT !.q = [@ EXCEPT ![i + 1] = h.q[j + 1], ![j + 1] = h.q[i + 1]],
            !.index = [@ EXCEPT ![h.q[j + 1]] = i, ![h.q[i + 1]] = j]]

\* The heaps there can be, and the positions in them.
Heaps ==
  {h \in [q : Seq(Ids), end : [Ids -> Nat], index : [Ids -> Int]] :
     Len(h.q) <= TqSize}
Positions == 0..TqSize

Parent(j) == (j - 1) \div 2

\* heap.up
up[j \in Positions] ==
  [h \in Heaps |->
     IF j = 0 \/ ~Less(h, j, Parent(j)) THEN h
     ELSE up[Parent(j)][Swap(h, Parent(j), j)]]

\* The child of i that down compares with it, of the first n elements.
LeastChild(h, i, n) ==
  LET l == 2 * i + 1
  IN IF l + 1 < n /\ Less(h, l + 1, l) THEN l + 1 ELSE l

\* heap.down, always called with n the number of elements but the last
down[i \in Positions] ==
  [h \in Heaps |->
     LET n == Len(h.q) - 1
         j == LeastChild(h, i, n)
     IN IF 2 * i + 1 >= n \/ ~Less(h, j, i) THEN h ELSE down[j][Swap(h, i, j)]]

\* TimerQueue.Push and heap.Push
Push(h, t) ==
  up[Len(h.q)][[h EXCEPT !.q = Append(@, t), !.index[t] = Len(h.q)]]

\* TimerQueue.Pop: the last element leaves and its position is marked invalid
PopLast(h) ==
  [h EXCEPT !.q = SubSeq(@, 1, Len(@) - 1), !.index[h.q[Len(h.q)]] = -1]

\* heap.Pop
Pop(h) ==
  LET n == Len(h.q) - 1
  IN PopLast(down[0][Swap(h, 0, n)])

\* heap.Remove
HeapRemove(h, i) ==
  LET n == Len(h.q) - 1
      s == Swap(h, i, n)
      d == down[i][s]
  IN IF n = i THEN PopLast(h) ELSE PopLast(IF d # s THEN d ELSE up[i][s])

\* The end of a timer that is not in the heap is set.
WithEnd(h, t, e) == [h EXCEPT !.end[t] = e]

Heap == [q |-> tq, end |-> end, index |-> index]
SetHeap(h) == tq' = h.q /\ end' = h.end /\ index' = h.index

-----------------------------------------------------------------------------
TimerInit ==
  /\ lastId = 0
  /\ tq = <<>>
  /\ end = [t \in Ids |-> 0]
  /\ interval = [t \in Ids |-> 0]
  /\ index = [t \in Ids |-> -1]
  /\ queue = Q!NewQueue
  /\ phase = "idle"
  /\ now = 0
  /\ limit = 0
  /\ left = 0
  /\ calls = 0
  /\ cur = 0
  /\ fired = {}
  /\ removed = {}

ToCall == Q!Value(queue)

\* The owner's code runs: outside Run, or in a callback.
OwnerRuns == phase \in {"idle", "callback"}

\* AddTimer, when the heap is not full (else it returns 0)
AddTimer(e, i) ==
  /\ OwnerRuns
  /\ lastId < MaxTimers
  /\ Len(tq) < TqSize
  /\ lastId' = lastId + 1
  /\ interval' = [interval EXCEPT ![lastId + 1] = i]
  /\ SetHeap(Push(WithEnd(Heap, lastId + 1, e), lastId + 1))
  /\ UNCHANGED <<queue, runVars, fired, removed>>

\* RemoveTimer looks for the timer in the heap, and only there.
RemoveTimer(t) ==
  /\ OwnerRuns
  /\ t <= lastId
  /\ IF t \in Range(tq)
       THEN SetHeap(HeapRemove(Heap, index[t]))
       ELSE UNCHANGED <<tq, end, index>>
  /\ removed' = IF t \in Range(tq) \cup Range(ToCall) THEN removed \cup {t} ELSE removed
  /\ UNCHANGED <<lastId, interval, queue, runVars, fired>>

Run(n, l) ==
  /\ phase = "idle"
  /\ phase' = "collect"
  /\ now' = n
  /\ limit' = l
  /\ left' = Q!Size(queue)
  /\ calls' = 0
  /\ UNCHANGED <<heapVars, queue, cur, fired, removed>>

Due == tq # <<>> /\ end[Head(tq)] <= now

\* Faulty variant: the limit is reached one timer late.
CollectOneMore ==
  LET t == Head(tq)
      h == Pop(Heap)
  IN /\ phase = "collect"
     /\ Due
     /\ queue' = Q!Push(queue, t)
     /\ SetHeap(IF interval[t] > 0
                  THEN Push(WithEnd(h, t, now + interval[t]), t)
                  ELSE h)
     /\ phase' = IF limit > 0 /\ Q!Size(queue) >= limit THEN "exec" ELSE "collect"
     /\ UNCHANGED <<lastId, interval, argVars, calls, cur, fired, removed>>

\* The first loop of Run moves the earliest timer to the execution queue and
\* schedules an interval timer again.  The sum stands for one of int64 and is
\* taken not to overflow.
Collect ==
  LET t == Head(tq)
      h == Pop(Heap)
  IN /\ phase = "collect"
     /\ Due
     /\ queue' = Q!Push(queue, t)
     /\ SetHeap(IF interval[t] > 0
                  THEN Push(WithEnd(h, t, now + interval[t]), t)
                  ELSE h)
     /\ phase' = IF limit > 0 /\ Q!Size(queue') >= limit THEN "exec" ELSE "collect"
     /\ UNCHANGED <<lastId, interval, argVars, calls, cur, fired, removed>>

\* Faulty variant: a timer that is not due does not end the loop.
CollectEndsEmpty ==
  /\ phase = "collect"
  /\ tq = <<>>
  /\ phase' = "exec"
  /\ UNCHANGED <<heapVars, queue, argVars, calls, cur, fired, removed>>

CollectEnds ==
  /\ phase = "collect"
  /\ ~Due
  /\ phase' = "exec"
  /\ UNCHANGED <<heapVars, queue, argVars, calls, cur, fired, removed>>

\* The second loop calls the timers back.
TimeOut ==
  /\ phase = "exec"
  /\ Q!Size(queue) > 0
  /\ cur' = Q!Front(queue)
  /\ queue' = Q!Pop(queue)
  /\ calls' = calls + 1
  /\ phase' = "callback"
  /\ fired' = fired \cup {Q!Front(queue)}
  /\ UNCHANGED <<heapVars, argVars, removed>>

TimeOutReturns ==
  /\ phase = "callback"
  /\ phase' = "exec"
  /\ cur' = 0
  /\ UNCHANGED <<heapVars, queue, argVars, calls, fired, removed>>

\* The panic is recovered in Run, which returns; the rest of the execution
\* queue stays for the next Run.
TimeOutPanics ==
  /\ phase = "callback"
  /\ phase' = "idle"
  /\ cur' = 0
  /\ UNCHANGED <<heapVars, queue, argVars, calls, fired, removed>>

RunReturns ==
  /\ phase = "exec"
  /\ Q!Size(queue) = 0
  /\ phase' = "idle"
  /\ UNCHANGED <<heapVars, queue, argVars, calls, cur, fired, removed>>

RunStep == Collect \/ CollectEnds \/ TimeOut \/ TimeOutReturns \/ RunReturns

TimerNext ==
  \/ \E e \in Times, i \in Intervals : AddTimer(e, i)
  \/ \E t \in Ids : RemoveTimer(t)
  \/ \E n \in Times, l \in Limits : Run(n, l)
  \/ RunStep
  \/ TimeOutPanics

TimerSpec == TimerInit /\ [][TimerNext]_timerVars

\* Run goes on by itself, and callbacks return or panic.
TimerFairness == WF_timerVars(RunStep)
TimerFairSpec == TimerSpec /\ TimerFairness

-----------------------------------------------------------------------------
(* Properties *)

\* Every variable has its type; the heap respects its capacity.
TimerTypeOK ==
  /\ lastId \in 0..MaxTimers
  /\ tq \in Seq(Ids) /\ Len(tq) <= TqSize
  /\ end \in [Ids -> Nat]
  /\ interval \in [Ids -> Intervals \cup {0}]
  /\ index \in [Ids -> (-1)..(TqSize - 1)]
  /\ ToCall \in Seq(Ids)
  /\ phase \in {"idle", "collect", "exec", "callback"}
  /\ now \in Times
  /\ limit \in Limits \cup {0}
  /\ left \in Nat
  /\ calls \in Nat
  /\ cur \in 0..MaxTimers
  /\ fired \subseteq Ids
  /\ removed \subseteq Ids

\* The positions that RemoveTimer relies on are those of the heap, and the
\* root is a timer with the earliest end, after every sequence of additions,
\* removals and runs.
HeapConsistent ==
  /\ \A i \in 1..Len(tq) : index[tq[i]] = i - 1
  /\ \A t \in Ids \ Range(tq) : index[t] = -1
  /\ \A i \in 1..Len(tq) : end[Head(tq)] <= end[tq[i]]

Occurrences(t, s) == {i \in 1..Len(s) : s[i] = t}

\* No timer is lost and none is doubled, whatever callbacks do and wherever
\* they panic: until it is removed, an interval timer is always scheduled,
\* and a single timer that was not called back is scheduled or in the
\* execution queue, once.
NoTimerLost ==
  \A t \in 1..lastId : t \notin removed =>
    IF interval[t] > 0
      THEN t \in Range(tq)
      ELSE t \notin fired <=>
             \/ t \in Range(tq) /\ Occurrences(t, ToCall) = {}
             \/ t \notin Range(tq) /\ \E i \in 1..Len(ToCall) : Occurrences(t, ToCall) = {i}

\* A Run calls back at most limit timers, as the comment on its parameter says:
\* the timers that it collects and those that an earlier Run left in the queue,
\* when a callback panicked, together.
LimitRespected == limit > 0 => calls <= limit

\* What the code makes of that: limit bounds every Run that finds fewer timers
\* than that in its queue, hence every Run that follows no panic.  One that
\* finds more calls all of them back, and at most one due timer with them,
\* although callbacks add timers and interval timers return to the heap.
CallsWithinLimit ==
  limit > 0 => /\ left < limit => calls <= limit
               /\ left >= limit => calls <= left + 1

\* Run ends although interval timers are scheduled again while it collects
\* and callbacks add timers that are already due.
RunEnds == phase = "collect" ~> phase = "idle"

=============================================================================
