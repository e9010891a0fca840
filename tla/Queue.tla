-------------------------------- MODULE Queue --------------------------------
(***************************************************************************)
(* Queue of common/container: a first-in first-out queue in a slice that   *)
(* is moved, grown and shrunk.  A queue is [data, begin, end, capacity],   *)
(* its elements being data[begin] .. data[end - 1].                        *)
(***************************************************************************)
EXTENDS Integers, Sequences

CONSTANTS
  InitCapacity,  \* initCapacity, positive
  Zero           \* the zero value of the element type

NewQueue ==
  [data |-> [i \in 0 .. InitCapacity - 1 |-> Zero],
   begin |-> 0, end |-> 0, capacity |-> InitCapacity]

Size(q) == q.end - q.begin
Value(q) == [i \in 1 .. Size(q) |-> q.data[q.begin + i - 1]]

\* Faulty variant: the old slice is copied from its start.
MovedFromZero(q, newCapacity) ==
  [data |-> [i \in 0 .. newCapacity - 1 |->
               IF i < Size(q) THEN q.data[i] ELSE Zero],
   begin |-> 0, end |-> Size(q), capacity |-> newCapacity]

\* The elements of q at the start of a new slice.
MovedTo(q, newCapacity) ==
  [data |-> [i \in 0 .. newCapacity - 1 |->
               IF i < Size(q) THEN q.data[q.begin + i] ELSE Zero],
   begin |-> 0, end |-> Size(q), capacity |-> newCapacity]

\* What copy within the slice leaves behind the elements stays there.
MovedToFront(q) ==
  [q EXCEPT !.data = [i \in 0 .. q.capacity - 1 |->
                        IF i < Size(q) THEN q.data[q.begin + i] ELSE q.data[i]],
            !.begin = 0, !.end = Size(q)]

Larger(n) == IF n >= 1024 THEN n \div 4 + n ELSE 2 * n
Smaller(n) == IF n \div 2 < InitCapacity THEN InitCapacity ELSE n \div 2

expend(q) ==
  IF q.begin > 0 THEN MovedToFront(q) ELSE MovedTo(q, Larger(q.capacity))

shrink(q) ==
  IF Size(q) <= q.capacity \div 4 /\ q.capacity > InitCapacity
  THEN MovedTo(q, Smaller(q.capacity))
  ELSE q

Push(q, val) ==
  LET r == IF q.end >= q.capacity THEN expend(q) ELSE q
  IN [r EXCEPT !.data[r.end] = val, !.end = @ + 1]

Front(q) == q.data[q.begin]

\* What Pop leaves; the element it returns is Front(q).
Pop(q) ==
  LET r == [q EXCEPT !.data[q.begin] = Zero, !.begin = @ + 1]
  IN IF r.begin >= r.capacity \div 2 THEN shrink(r) ELSE r
=============================================================================
