---------------------------- MODULE SessionClient ----------------------------
(***************************************************************************)
(* SessionClient of common/network: one dial and the connection that comes *)
(* of it, with the goroutines that call DialContext, Close and Wait.  The  *)
(* sections under SessionClient.lock are single steps.  The connection is  *)
(* modelled by what module Connection says about it.                       *)
(***************************************************************************)
EXTENDS Integers

CONSTANTS
  Dialers,   \* goroutines that call DialContext
  Closers,   \* goroutines that call Close
  Waiters    \* goroutines that call Wait

ASSUME ClientAssumption ==
  /\ Dialers \cap Closers = {}
  /\ Dialers \cap Waiters = {}
  /\ Closers \cap Waiters = {}

NoCause == "nil"
Causes == {"ErrClosed", "ended"}

Labels == {"idle", "dial", "publish", "recycle", "spawn", "close", "wait",
           "returned", "refused", "panicked"}

VARIABLES
  state,       \* SessionClient.state
  pc,          \* where the goroutines are
  dialCtx,     \* the context of the dial: "none", "live" or "cancelled"
  dialCancel,  \* SessionClient.dialCancel # nil
  conn,        \* SessionClient.conn # nil
  once,        \* SessionClient.closeOnce and how far its body is
  saw,         \* what Close read under the lock: state, dialCancel, conn
  finished,    \* how often finish was called: close(done) panics the second time
  runner,      \* the goroutine runConn: "off", "on" or "done"
  phase, cause, rwc   \* the connection, see module Connection; rwc is "none"
                      \* as long as there is no transport

clientVars == <<state, dialCtx, dialCancel, conn, finished>>
closeVars  == <<once, saw>>
connVars   == <<runner, phase, cause, rwc>>
vars == <<pc, clientVars, closeVars, connVars>>

Goto(p, label) == pc' = [pc EXCEPT ![p] = label]
Cancelled == cause # NoCause
finish == finished' = finished + 1

-----------------------------------------------------------------------------
Init ==
  /\ state = "New"
  /\ pc = [p \in Dialers \cup Closers \cup Waiters |-> "idle"]
  /\ dialCtx = "none"
  /\ dialCancel = FALSE
  /\ conn = FALSE
  /\ once = "fresh"
  /\ saw = [state |-> "New", cancel |-> FALSE, conn |-> FALSE]
  /\ finished = 0
  /\ runner = "off"
  /\ phase = "new"
  /\ cause = NoCause
  /\ rwc = "none"

-----------------------------------------------------------------------------
(* DialContext *)

DialContext(d) ==
  /\ pc[d] = "idle"
  /\ state = "New"
  /\ state' = "Running"
  /\ dialCtx' = "live"
  /\ dialCancel' = TRUE
  /\ Goto(d, "dial")
  /\ UNCHANGED <<conn, finished, closeVars, connVars>>

\* Already dialled, or closed.
DialRefused(d) ==
  /\ pc[d] = "idle"
  /\ state # "New"
  /\ Goto(d, "refused")
  /\ UNCHANGED <<clientVars, closeVars, connVars>>

\* The context the caller passed to DialContext ends.
CallerCancels(d) ==
  /\ pc[d] \in {"dial", "publish"}
  /\ dialCtx = "live"
  /\ dialCtx' = "cancelled"
  /\ UNCHANGED <<pc, state, dialCancel, conn, finished, closeVars, connVars>>

\* The deferred cleanup of DialContext, on each of its ways out.
LeaveDial(d, label) ==
  /\ Goto(d, label)
  /\ dialCtx' = "cancelled"
  /\ dialCancel' = FALSE

\* The dialer fails, or gives up because its context was cancelled.
DialFails(d) ==
  /\ pc[d] = "dial"
  /\ finish
  /\ LeaveDial(d, "returned")
  /\ UNCHANGED <<state, conn, closeVars, connVars>>

\* The socket was dialled, could not be set up and is closed.  The error comes
\* with a nil *TCPTransportImpl in the interface: rwc != nil holds, rwc.Close()
\* dereferences nil, and finish is not called.
DialSetupFails(d) ==
  /\ pc[d] = "dial"
  /\ LeaveDial(d, "panicked")
  /\ UNCHANGED <<state, conn, finished, closeVars, connVars>>

\* The dialer returns a transport, perhaps after its context was cancelled,
\* and newConn builds the connection.
DialOK(d) ==
  /\ pc[d] = "dial"
  /\ rwc' = "open"
  /\ Goto(d, "publish")
  /\ UNCHANGED <<clientVars, closeVars, runner, phase, cause>>

\* Faulty variant: the state is not checked again under the lock.
PublishAnyway(d) ==
  /\ pc[d] = "publish"
  /\ dialCancel' = FALSE
  /\ IF dialCtx = "cancelled"
       THEN /\ cause' = "ErrClosed"
            /\ Goto(d, "recycle")
            /\ UNCHANGED conn
       ELSE /\ conn' = TRUE
            /\ Goto(d, "spawn")
            /\ UNCHANGED cause
  /\ UNCHANGED <<state, dialCtx, finished, closeVars, runner, phase, rwc>>

\* The check for a Close and the publication are one critical section.
Publish(d) ==
  /\ pc[d] = "publish"
  /\ dialCancel' = FALSE
  /\ IF state = "Closed" \/ dialCtx = "cancelled"
       THEN /\ cause' = "ErrClosed"
            /\ Goto(d, "recycle")
            /\ UNCHANGED conn
       ELSE /\ conn' = TRUE
            /\ Goto(d, "spawn")
            /\ UNCHANGED cause
  /\ UNCHANGED <<state, dialCtx, finished, closeVars, runner, phase, rwc>>

\* Faulty variant: the result is published before the connection is closed.
RecycleEarly(d) ==
  /\ pc[d] = "recycle"
  /\ finish
  /\ LeaveDial(d, "returned")
  /\ UNCHANGED <<state, conn, closeVars, connVars>>

\* conn.Close() of the connection that was not published has returned.
Recycle(d) ==
  /\ pc[d] = "recycle"
  /\ rwc = "closed"
  /\ finish
  /\ LeaveDial(d, "returned")
  /\ UNCHANGED <<state, conn, closeVars, connVars>>

\* go c.runConn(conn)
Spawn(d) ==
  /\ pc[d] = "spawn"
  /\ runner' = "on"
  /\ LeaveDial(d, "returned")
  /\ UNCHANGED <<state, conn, finished, closeVars, phase, cause, rwc>>

-----------------------------------------------------------------------------
(* Wait *)

Wait(w) ==
  /\ pc[w] = "idle"
  /\ Goto(w, IF state = "New" THEN "refused" ELSE "wait")
  /\ UNCHANGED <<clientVars, closeVars, connVars>>

WaitReturns(w) ==
  /\ pc[w] = "wait"
  /\ finished > 0
  /\ Goto(w, "returned")
  /\ UNCHANGED <<clientVars, closeVars, connVars>>

-----------------------------------------------------------------------------
(* Close *)

Close(k) ==
  /\ pc[k] = "idle"
  /\ Goto(k, "close")
  /\ UNCHANGED <<clientVars, closeVars, connVars>>

\* The critical section.
CloseEnter(k) ==
  /\ pc[k] = "close"
  /\ once = "fresh"
  /\ once' = "cancel"
  /\ saw' = [state |-> state, cancel |-> dialCancel, conn |-> conn]
  /\ state' = "Closed"
  /\ dialCancel' = FALSE
  /\ UNCHANGED <<pc, dialCtx, conn, finished, connVars>>

CloseDial ==
  /\ once = "cancel"
  /\ once' = "conn"
  /\ dialCtx' = IF saw.cancel THEN "cancelled" ELSE dialCtx
  /\ UNCHANGED <<pc, saw, state, dialCancel, conn, finished, connVars>>

CloseConn ==
  /\ once = "conn"
  /\ once' = "closing"
  /\ cause' = IF saw.conn /\ ~Cancelled THEN "ErrClosed" ELSE cause
  /\ UNCHANGED <<pc, saw, clientVars, runner, phase, rwc>>

\* Faulty variant: Close leaves the result to others in every case.
CloseNeverFinishes ==
  /\ once = "closing"
  /\ saw.conn => rwc = "closed"
  /\ once' = "done"
  /\ UNCHANGED <<pc, saw, clientVars, connVars>>

\* conn.Close() has returned.  A client that never dialled has nobody else to
\* publish the result.
CloseFinish ==
  /\ once = "closing"
  /\ saw.conn => rwc = "closed"
  /\ once' = "done"
  /\ IF saw.state = "New" THEN finish ELSE UNCHANGED finished
  /\ UNCHANGED <<pc, saw, state, dialCtx, dialCancel, conn, connVars>>

CloseReturns(k) ==
  /\ pc[k] = "close"
  /\ once = "done"
  /\ Goto(k, "returned")
  /\ UNCHANGED <<clientVars, closeVars, connVars>>

-----------------------------------------------------------------------------
(* The connection: runConn, and what module Connection allows.             *)

ConnRun ==
  /\ runner = "on"
  /\ phase = "new"
  /\ phase' = "running"
  /\ UNCHANGED <<pc, clientVars, closeVars, runner, cause, rwc>>

\* It ends for a reason of its own, or is closed by the caller of DialContext
\* or by a callback.
ConnCancel ==
  /\ runner = "on"
  /\ ~Cancelled
  /\ cause' = "ended"
  /\ UNCHANGED <<pc, clientVars, closeVars, runner, phase, rwc>>

ConnCloseTransport ==
  /\ Cancelled
  /\ rwc = "open"
  /\ rwc' = "closed"
  /\ UNCHANGED <<pc, clientVars, closeVars, runner, phase, cause>>

ConnOnClose ==
  /\ phase = "running"
  /\ Cancelled
  /\ rwc = "closed"
  /\ phase' = "onClose"
  /\ UNCHANGED <<pc, clientVars, closeVars, runner, cause, rwc>>

ConnFinish ==
  /\ phase = "onClose"
  /\ phase' = "finished"
  /\ UNCHANGED <<pc, clientVars, closeVars, runner, cause, rwc>>

\* runConn publishes the result when Run has returned.
RunConnFinish ==
  /\ runner = "on"
  /\ phase = "finished"
  /\ runner' = "done"
  /\ finish
  /\ UNCHANGED <<pc, state, dialCtx, dialCancel, conn, closeVars, phase, cause, rwc>>

-----------------------------------------------------------------------------
DialResult(d) == DialOK(d) \/ DialFails(d) \/ DialSetupFails(d)
CloseBody == CloseDial \/ CloseConn \/ CloseFinish
ConnStep ==
  ConnRun \/ ConnCloseTransport \/ ConnOnClose \/ ConnFinish \/ RunConnFinish

Next ==
  \/ \E d \in Dialers :
       \/ DialContext(d) \/ DialRefused(d) \/ CallerCancels(d) \/ DialResult(d)
       \/ Publish(d) \/ Recycle(d) \/ Spawn(d)
  \/ \E w \in Waiters : Wait(w) \/ WaitReturns(w)
  \/ \E k \in Closers : Close(k) \/ CloseEnter(k) \/ CloseReturns(k)
  \/ CloseBody
  \/ ConnStep
  \/ ConnCancel

Spec == Init /\ [][Next]_vars

(***************************************************************************)
(* Fairness.  Goroutines that can run do; a dialer returns once its context*)
(* is cancelled; a connection that runs and is cancelled ends, which is    *)
(* what Conn is shown to guarantee.  Nobody has to call DialContext, Wait  *)
(* or Close, and a dial nobody cancels may take for ever.                  *)
(***************************************************************************)
FairSpec ==
  /\ Spec
  /\ \A d \in Dialers :
       /\ WF_vars(dialCtx = "cancelled" /\ DialResult(d))
       /\ WF_vars(Publish(d) \/ Recycle(d) \/ Spawn(d))
  /\ \A w \in Waiters : WF_vars(WaitReturns(w))
  /\ \A k \in Closers : WF_vars(CloseEnter(k) \/ CloseReturns(k))
  /\ WF_vars(CloseBody)
  /\ WF_vars(ConnStep)

-----------------------------------------------------------------------------
(* Properties *)

\* Every variable has its type; done is closed at most once (a second
\* close(done) would panic).
TypeOK ==
  /\ state \in {"New", "Running", "Closed"}
  /\ pc \in [Dialers \cup Closers \cup Waiters -> Labels]
  /\ dialCtx \in {"none", "live", "cancelled"}
  /\ dialCancel \in BOOLEAN
  /\ conn \in BOOLEAN
  /\ once \in {"fresh", "cancel", "conn", "closing", "done"}
  /\ saw \in [state : {"New", "Running"}, cancel : BOOLEAN, conn : BOOLEAN]
  /\ finished \in {0, 1}
  /\ runner \in {"off", "on", "done"}
  /\ phase \in {"new", "running", "onClose", "finished"}
  /\ cause \in Causes \cup {NoCause}
  /\ rwc \in {"none", "open", "closed"}

\* Wait returns only when all is over: no dial is under way, no transport is
\* open, and the connection, if it ran, has finished its OnClose.
WaitMeansEnded ==
  \A w \in Waiters : pc[w] = "returned" =>
    /\ rwc # "open"
    /\ phase \in {"new", "finished"}
    /\ \A d \in Dialers : pc[d] \notin {"dial", "publish", "spawn"}

\* A connection cannot slip past Close: when Close is done, no connection is
\* published and alive, whatever the dial was doing in the meantime.
NoConnEscapesClose ==
  once = "done" /\ conn => Cancelled

\* After Close, or once the dial has failed, Wait returns; a panic inside
\* DialContext is excepted.
WaitEnds ==
  \A w \in Waiters :
    (pc[w] = "wait" /\ (state = "Closed" \/ (dialCtx = "cancelled" /\ ~conn)))
      ~> (pc[w] = "returned" \/ \E d \in Dialers : pc[d] = "panicked")

=============================================================================
