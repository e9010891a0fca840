------------------------- MODULE SessionClientProofs -------------------------
(***************************************************************************)
(* Proofs about module SessionClient, for any number of goroutines that    *)
(* call DialContext, Close and Wait.                                       *)
(*                                                                         *)
(* The inductive invariant is Inv, the type invariant with                 *)
(*   LabelInv   the goroutines are at labels of their own code;            *)
(*   DialInv    one dial gets past the check of the state, and what it     *)
(*              has left behind at each of its steps;                      *)
(*   FinishInv  who has published the result, so that nobody does so a     *)
(*              second time;                                               *)
(*   ConnInv    how far the connection is;                                 *)
(*   CloseInv   what Close read under the lock still tells it the truth.   *)
(***************************************************************************)
EXTENDS SessionClient, TLAPS

USE DEF Goto, LeaveDial, Cancelled, finish, NoCause, Causes, Labels,
        clientVars, closeVars, connVars
USE ClientAssumption

\* The goroutines are at labels of their own code.
LabelInv ==
  /\ \A d \in Dialers : pc[d] \notin {"close", "wait"}
  /\ \A k \in Closers : pc[k] \in {"idle", "close", "returned"}
  /\ \A w \in Waiters : pc[w] \in {"idle", "refused", "wait", "returned"}

\* The goroutine d is inside the one call of DialContext that is not refused,
\* or has left it.
Dialled(d) == pc[d] \notin {"idle", "refused"}

\* Close came before any dial.
NeverDialled == once # "fresh" /\ saw.state = "New"

\* What the one dial has left behind at each of its steps.
DialInv ==
  /\ \A d, e \in Dialers : Dialled(d) /\ Dialled(e) => d = e
  /\ state = "New" \/ NeverDialled => \A d \in Dialers : ~Dialled(d)
  /\ \A d \in Dialers :
       /\ pc[d] \in {"dial", "panicked"} =>
            rwc = "none" /\ runner = "off" /\ ~conn
       /\ pc[d] = "publish" =>
            rwc = "open" /\ runner = "off" /\ ~conn /\ ~Cancelled
       /\ pc[d] = "recycle" =>
            rwc # "none" /\ runner = "off" /\ ~conn /\ Cancelled
       /\ pc[d] = "spawn" => rwc # "none" /\ runner = "off" /\ conn
       /\ pc[d] = "returned" =>
            \/ runner = "off" /\ ~conn /\ rwc # "open"
            \/ runner # "off" /\ conn /\ rwc # "none"
  /\ runner # "off" \/ conn \/ rwc # "none" => \E d \in Dialers : Dialled(d)

\* The result is published once: by the dial that failed, by runConn, or by the
\* Close of a client that never dialled.  A waiter returns after that.
FinishInv ==
  /\ finished = 1 =>
       \/ NeverDialled /\ once = "done"
       \/ \E d \in Dialers : pc[d] = "returned"
  /\ \A d \in Dialers : pc[d] = "returned" => (finished = 1 <=> runner # "on")
  /\ \A w \in Waiters : pc[w] = "returned" => finished = 1

\* How far the connection is.
ConnInv ==
  /\ phase # "new" => runner # "off"
  /\ runner = "done" => phase = "finished"
  /\ phase \in {"onClose", "finished"} => rwc = "closed"
  /\ rwc = "closed" => Cancelled
  /\ Cancelled => rwc # "none"

\* Close acts on what it read under the lock: a connection is published before
\* that, or not at all.
CloseInv ==
  /\ once = "fresh" <=> state # "Closed"
  /\ once = "fresh" => ~saw.conn
  /\ once # "fresh" => (saw.conn <=> conn)
  /\ once \in {"closing", "done"} /\ saw.conn => Cancelled

Inv == TypeOK /\ LabelInv /\ DialInv /\ FinishInv /\ ConnInv /\ CloseInv

-----------------------------------------------------------------------------
\* A new client satisfies the invariant.
THEOREM InvInit == Init => Inv
  <1> SUFFICES ASSUME Init PROVE Inv
    OBVIOUS
  <1> USE DEF Init
  <1>1. TypeOK
    BY DEF TypeOK
  <1>2. LabelInv /\ DialInv
    BY DEF LabelInv, DialInv, Dialled, NeverDialled
  <1>3. FinishInv
    BY DEF FinishInv
  <1>4. ConnInv /\ CloseInv
    BY DEF ConnInv, CloseInv
  <1>5. QED
    BY <1>1, <1>2, <1>3, <1>4 DEF Inv

\* Every step preserves the invariant.
THEOREM InvNext == Inv /\ [Next]_vars => Inv'
  <1> SUFFICES ASSUME Inv, [Next]_vars PROVE Inv'
    OBVIOUS
  <1> USE DEF Inv, TypeOK, LabelInv, DialInv, Dialled, NeverDialled, FinishInv,
              ConnInv, CloseInv
  <1>1. ASSUME NEW d \in Dialers, DialContext(d) PROVE Inv'
    BY <1>1 DEF DialContext
  <1>2. ASSUME NEW d \in Dialers, DialRefused(d) PROVE Inv'
    BY <1>2 DEF DialRefused
  <1>3. ASSUME NEW d \in Dialers, CallerCancels(d) PROVE Inv'
    BY <1>3 DEF CallerCancels
  <1>4. ASSUME NEW d \in Dialers, DialOK(d) PROVE Inv'
    BY <1>4 DEF DialOK
  <1>5. ASSUME NEW d \in Dialers, DialFails(d) PROVE Inv'
    <2> USE DEF DialFails
    <2>1. Dialled(d) /\ pc[d] # "returned"
      BY <1>5
    <2>2. finished = 0
      BY <2>1
    <2>3. finished' = 1
      BY <1>5, <2>2
    <2>4. TypeOK'
      <3> HIDE DEF LabelInv, DialInv, FinishInv, ConnInv, CloseInv, Dialled
      <3>1. pc' \in [Dialers \cup Closers \cup Waiters -> Labels]
        BY <1>5
      <3>2. UNCHANGED <<state, once, saw, runner, phase>>
        BY <1>5
      <3>3. /\ dialCtx' \in {"none", "live", "cancelled"}
            /\ dialCancel' \in BOOLEAN /\ conn' \in BOOLEAN
            /\ cause' \in Causes \cup {NoCause}
            /\ rwc' \in {"none", "open", "closed"}
        BY <1>5
      <3> HIDE DEF DialFails, Recycle
      <3>4. QED
        BY <2>3, <3>1, <3>2, <3>3
    <2>5. LabelInv'
      BY <1>5
    <2>6. DialInv' /\ ConnInv' /\ CloseInv'
      BY <1>5
    <2>7. FinishInv'
      BY <1>5, <2>3
    <2> HIDE DEF TypeOK, LabelInv, DialInv, FinishInv, ConnInv, CloseInv
    <2>8. QED
      BY <2>4, <2>5, <2>6, <2>7
  <1>6. ASSUME NEW d \in Dialers, DialSetupFails(d) PROVE Inv'
    BY <1>6 DEF DialSetupFails
  <1>7. ASSUME NEW d \in Dialers, Publish(d) PROVE Inv'
    <2> USE DEF Publish
    <2>1. TypeOK'
      <3>1. UNCHANGED <<finished, once, saw>> /\ state' = state
        BY <1>7
      <3>2. pc' \in [Dialers \cup Closers \cup Waiters -> Labels]
        BY <1>7
      <3>3. dialCtx' \in {"none", "live", "cancelled"} /\ dialCancel' \in BOOLEAN
        BY <1>7
      <3>4. conn' \in BOOLEAN /\ runner' \in {"off", "on", "done"}
        BY <1>7
      <3>5. /\ phase' \in {"new", "running", "onClose", "finished"}
            /\ cause' \in Causes \cup {NoCause}
            /\ rwc' \in {"none", "open", "closed"}
        BY <1>7
      <3> HIDE DEF Publish, LabelInv, DialInv, FinishInv, ConnInv, CloseInv
      <3>6. QED
        BY <3>1, <3>2, <3>3, <3>4, <3>5
    <2>2. LabelInv'
      BY <1>7
    <2>3. DialInv'
      BY <1>7
    <2>4. FinishInv'
      BY <1>7
    <2>5. ConnInv' /\ CloseInv'
      BY <1>7
    <2> HIDE DEF TypeOK, LabelInv, DialInv, FinishInv, ConnInv, CloseInv
    <2>6. QED
      BY <2>1, <2>2, <2>3, <2>4, <2>5
  <1>8. ASSUME NEW d \in Dialers, Recycle(d) PROVE Inv'
    <2> USE DEF Recycle
    <2>1. Dialled(d) /\ pc[d] # "returned"
      BY <1>8
    <2>2. finished = 0
      BY <2>1
    <2>3. finished' = 1
      BY <1>8, <2>2
    <2>4. TypeOK'
      <3> HIDE DEF LabelInv, DialInv, FinishInv, ConnInv, CloseInv, Dialled
      <3>1. pc' \in [Dialers \cup Closers \cup Waiters -> Labels]
        BY <1>8
      <3>2. UNCHANGED <<state, once, saw, runner, phase>>
        BY <1>8
      <3>3. /\ dialCtx' \in {"none", "live", "cancelled"}
            /\ dialCancel' \in BOOLEAN /\ conn' \in BOOLEAN
            /\ cause' \in Causes \cup {NoCause}
            /\ rwc' \in {"none", "open", "closed"}
        BY <1>8
      <3> HIDE DEF DialFails, Recycle
      <3>4. QED
        BY <2>3, <3>1, <3>2, <3>3
    <2>5. LabelInv'
      BY <1>8
    <2>6. DialInv' /\ ConnInv' /\ CloseInv'
      BY <1>8
    <2>7. FinishInv'
      BY <1>8, <2>3
    <2> HIDE DEF TypeOK, LabelInv, DialInv, FinishInv, ConnInv, CloseInv
    <2>8. QED
      BY <2>4, <2>5, <2>6, <2>7
  <1>9. ASSUME NEW d \in Dialers, Spawn(d) PROVE Inv'
    BY <1>9 DEF Spawn
  <1>10. ASSUME NEW w \in Waiters, Wait(w) PROVE Inv'
    BY <1>10 DEF Wait
  <1>11. ASSUME NEW w \in Waiters, WaitReturns(w) PROVE Inv'
    BY <1>11 DEF WaitReturns
  <1>12. ASSUME NEW k \in Closers, Close(k) PROVE Inv'
    BY <1>12 DEF Close
  <1>13. ASSUME NEW k \in Closers, CloseEnter(k) PROVE Inv'
    <2> USE DEF CloseEnter
    <2>1. TypeOK'
      <3>1. saw' \in [state : {"New", "Running"}, cancel : BOOLEAN, conn : BOOLEAN]
        BY <1>13
      <3>2. /\ state' = "Closed" /\ once' = "cancel"
            /\ dialCancel' \in BOOLEAN /\ conn' \in BOOLEAN
        BY <1>13
      <3>3. UNCHANGED <<pc, dialCtx, finished, runner, phase, cause, rwc>>
        BY <1>13
      <3> HIDE DEF CloseEnter, LabelInv, DialInv, FinishInv, ConnInv, CloseInv
      <3>4. QED
        BY <3>1, <3>2, <3>3
    <2>2. LabelInv'
      BY <1>13
    <2>3. DialInv'
      BY <1>13
    <2>4. FinishInv'
      BY <1>13
    <2>5. ConnInv' /\ CloseInv'
      BY <1>13
    <2> HIDE DEF TypeOK, LabelInv, DialInv, FinishInv, ConnInv, CloseInv
    <2>6. QED
      BY <2>1, <2>2, <2>3, <2>4, <2>5
  <1>14. ASSUME NEW k \in Closers, CloseReturns(k) PROVE Inv'
    BY <1>14 DEF CloseReturns
  <1>15. ASSUME CloseDial PROVE Inv'
    BY <1>15 DEF CloseDial
  <1>16. ASSUME CloseConn PROVE Inv'
    BY <1>16 DEF CloseConn
  <1>17. ASSUME CloseFinish PROVE Inv'
    BY <1>17 DEF CloseFinish
  <1>18. ASSUME ConnRun PROVE Inv'
    BY <1>18 DEF ConnRun
  <1>19. ASSUME ConnCancel PROVE Inv'
    BY <1>19 DEF ConnCancel
  <1>20. ASSUME ConnCloseTransport PROVE Inv'
    BY <1>20 DEF ConnCloseTransport
  <1>21. ASSUME ConnOnClose PROVE Inv'
    BY <1>21 DEF ConnOnClose
  <1>22. ASSUME ConnFinish PROVE Inv'
    BY <1>22 DEF ConnFinish
  <1>23. ASSUME RunConnFinish PROVE Inv'
    BY <1>23 DEF RunConnFinish
  <1>24. CASE UNCHANGED vars
    BY <1>24 DEF vars
  <1>25. QED
    BY <1>1, <1>2, <1>3, <1>4, <1>5, <1>6, <1>7, <1>8, <1>9, <1>10, <1>11,
       <1>12, <1>13, <1>14, <1>15, <1>16, <1>17, <1>18, <1>19, <1>20,
       <1>21, <1>22, <1>23, <1>24
    DEF Next, DialResult, CloseBody, ConnStep

\* The invariant holds in every reachable state.
THEOREM Invariance == Spec => []Inv
  BY InvInit, InvNext, PTL DEF Spec

-----------------------------------------------------------------------------
(* The properties *)

\* Every variable has its type; in particular the channel done is closed at
\* most once, by whichever of the four places that may.
THEOREM TypeCorrect == Spec => []TypeOK
  <1>1. Inv => TypeOK
    BY DEF Inv
  <1>2. QED
    BY <1>1, Invariance, PTL

\* When Wait returns no dial is under way, no transport is open and the
\* connection, if there was one, has finished its OnClose.
THEOREM WaitSound == Spec => []WaitMeansEnded
  <1>1. Inv => WaitMeansEnded
    <2> SUFFICES ASSUME Inv, NEW w \in Waiters, pc[w] = "returned"
                 PROVE  /\ rwc # "open"
                        /\ phase \in {"new", "finished"}
                        /\ \A d \in Dialers :
                             pc[d] \notin {"dial", "publish", "spawn"}
      BY DEF WaitMeansEnded
    <2> USE DEF Inv, TypeOK, ConnInv
    <2>1. finished = 1
      BY DEF FinishInv
    <2>2. CASE NeverDialled
      BY <2>2 DEF DialInv, Dialled
    <2>3. CASE \E d \in Dialers : pc[d] = "returned"
      BY <2>1, <2>3 DEF DialInv, Dialled, FinishInv
    <2>4. QED
      BY <2>1, <2>2, <2>3 DEF FinishInv
  <1>2. QED
    BY <1>1, Invariance, PTL

\* When Close is done no connection is published and alive, whatever the dial
\* did in the meantime.
THEOREM CloseReachesConn == Spec => []NoConnEscapesClose
  <1>1. Inv => NoConnEscapesClose
    BY DEF Inv, CloseInv, NoConnEscapesClose
  <1>2. QED
    BY <1>1, Invariance, PTL

-----------------------------------------------------------------------------
(* Refinement of Connection *)

\* A connection nobody has dialled yet is a connection with an open transport.
Conn == INSTANCE Connection
          WITH rwc <- IF rwc = "closed" THEN "closed" ELSE "open"

\* The client and its goroutines move the connection the way module Connection
\* says: one Run, one cause that stays, OnClose after the transport is closed.
THEOREM Refinement == Spec => Conn!Spec
  <1>1. Init => Conn!Init
    BY DEF Init, Conn!Init, Conn!NoCause
  <1>2. Inv /\ [Next]_vars => [Conn!Next]_(Conn!connectionVars)
    <2> SUFFICES ASSUME Inv, [Next]_vars
                 PROVE  [Conn!Next]_(Conn!connectionVars)
      OBVIOUS
    <2> USE DEF Inv, TypeOK, ConnInv, Conn!connectionVars, Conn!NoCause
    <2>1. CASE ConnRun
      BY <2>1 DEF ConnRun, Conn!Next, Conn!Run
    <2>2. CASE ConnCancel
      BY <2>2 DEF ConnCancel, Conn!Next, Conn!Cancel
    <2>3. CASE ConnCloseTransport
      BY <2>3 DEF ConnCloseTransport, Conn!Next, Conn!CloseTransport
    <2>4. CASE ConnOnClose
      BY <2>4 DEF ConnOnClose, Conn!Next, Conn!BeginOnClose
    <2>5. CASE ConnFinish
      BY <2>5 DEF ConnFinish, Conn!Next, Conn!Finish
    <2>6. CASE CloseConn
      BY <2>6 DEF CloseConn, Conn!Next, Conn!Cancel
    <2>7. ASSUME NEW d \in Dialers, Publish(d)
          PROVE  [Conn!Next]_(Conn!connectionVars)
      BY <2>7 DEF Publish, DialInv, Conn!Next, Conn!Cancel
    <2>8. CASE UNCHANGED <<phase, cause, rwc>>
      BY <2>8
    <2>9. ASSUME NEW d \in Dialers, DialOK(d)
          PROVE  [Conn!Next]_(Conn!connectionVars)
      BY <2>9 DEF DialOK, DialInv
    <2>10. QED
      <3>1. CASE UNCHANGED vars
        BY <2>8, <3>1 DEF vars
      <3>2. CASE \E d \in Dialers :
                   \/ DialContext(d) \/ DialRefused(d) \/ CallerCancels(d)
                   \/ DialResult(d) \/ Publish(d) \/ Recycle(d) \/ Spawn(d)
        BY <2>7, <2>8, <2>9, <3>2
           DEF DialResult, DialContext, DialRefused, CallerCancels, DialFails,
               DialSetupFails, Recycle, Spawn
      <3>3. CASE \/ \E w \in Waiters : Wait(w) \/ WaitReturns(w)
                 \/ \E k \in Closers :
                      Close(k) \/ CloseEnter(k) \/ CloseReturns(k)
        BY <2>8, <3>3
           DEF Wait, WaitReturns, Close, CloseEnter, CloseReturns
      <3>4. CASE CloseBody \/ ConnStep
        BY <2>1, <2>3, <2>4, <2>5, <2>6, <2>8, <3>4
           DEF CloseBody, CloseDial, CloseFinish, ConnStep, RunConnFinish
      <3>5. QED
        BY <2>2, <3>1, <3>2, <3>3, <3>4 DEF Next
  <1>3. QED
    BY <1>1, <1>2, Invariance, PTL DEF Spec, Conn!Spec

=============================================================================
