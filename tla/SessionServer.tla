---------------------------- MODULE SessionServer ----------------------------
(***************************************************************************)
(* SessionServer and SessionManagerImpl of common/network: the goroutines  *)
(* that call Serve and Close, the accept loop, the registration of         *)
(* connections and the goroutine runConn of each of them.                  *)
(*                                                                         *)
(* A connection is modelled by what module Connection says about it, which *)
(* module Conn implements: the state of the connection over transport t is *)
(* phase[t], cause[t] and rwc[t].                                          *)
(***************************************************************************)
EXTENDS Integers, FiniteSets

CONSTANTS
  Servers,        \* goroutines that call Serve
  Closers,        \* goroutines that call Close
  Transports,     \* what the listener can accept
  MaxConns        \* SessionManagerImpl.maxConns, 0: no limit

ASSUME ServerAssumption ==
  /\ MaxConns \in Nat
  /\ Servers \cap Closers = {}
  /\ IsFiniteSet(Transports)

None == "none"
ASSUME NoneIsNoTransport == None \notin Transports

NoCause == "nil"
Causes == {"ErrClosed", "ended"}    \* closed by its owner; any other cause

ServerLabels == {"idle", "top", "accept", "accepted", "factory", "add", "limit",
                 "refused", "spawn", "close", "wgWait", "returned", "rejected"}
CloserLabels == {"idle", "close", "closed"}

VARIABLES
  state,      \* SessionServer.state
  pc,         \* where the goroutines of Serve and Close are
  cur,        \* the transport the accept loop holds
  once,       \* SessionServer.closeOnce and how far its body is
  listener,   \* the listener: "open" or "closed"
  panicking,  \* the accept loop panicked and runs its deferred calls
  wg,         \* SessionServer.wg: the connections it waits for
  conns,      \* SessionManagerImpl.conns
  mgrClosed,  \* SessionManagerImpl.closed
  snapshot,   \* the connections SessionManagerImpl.Close has still to close
  closing,    \* the one it is closing
  life,       \* of each transport: "incoming", "accepted", "conn" (newConn
              \* was called) or, from go runConn on, "spawned", "removed", "gone"
  phase, cause, rwc   \* the connections, see module Connection

serverVars == <<state, pc, cur, wg, panicking>>
closeVars  == <<once, listener, mgrClosed, snapshot, closing>>
connVars   == <<life, phase, cause, rwc>>
vars == <<serverVars, closeVars, conns, connVars>>

Goto(p, label) == pc' = [pc EXCEPT ![p] = label]
Cancelled(t) == cause[t] # NoCause
isClosed == state = "Closed"

-----------------------------------------------------------------------------
Init ==
  /\ state = "New"
  /\ pc = [p \in Servers \cup Closers |-> "idle"]
  /\ cur = None
  /\ once = "fresh"
  /\ listener = "open"
  /\ wg = {}
  /\ panicking = FALSE
  /\ conns = {}
  /\ mgrClosed = FALSE
  /\ snapshot = {}
  /\ closing = None
  /\ life = [t \in Transports |-> "incoming"]
  /\ phase = [t \in Transports |-> "new"]
  /\ cause = [t \in Transports |-> NoCause]
  /\ rwc = [t \in Transports |-> "open"]

-----------------------------------------------------------------------------
(* Serve and its accept loop *)

Serve(p) ==
  /\ pc[p] = "idle"
  /\ state = "New"
  /\ state' = "Running"
  /\ Goto(p, "top")
  /\ UNCHANGED <<cur, wg, panicking, closeVars, conns, connVars>>

\* Already started or closed: Serve returns an error.
ServeRejected(p) ==
  /\ pc[p] = "idle"
  /\ state # "New"
  /\ Goto(p, "rejected")
  /\ UNCHANGED <<state, cur, wg, panicking, closeVars, conns, connVars>>

LoopTop(p) ==
  /\ pc[p] = "top"
  /\ Goto(p, IF isClosed THEN "close" ELSE "accept")
  /\ UNCHANGED <<state, cur, wg, panicking, closeVars, conns, connVars>>

AcceptOK(p, t) ==
  /\ pc[p] = "accept"
  /\ listener = "open"
  /\ life[t] = "incoming"
  /\ life' = [life EXCEPT ![t] = "accepted"]
  /\ cur' = t
  /\ Goto(p, "accepted")
  /\ UNCHANGED <<state, wg, panicking, closeVars, conns, phase, cause, rwc>>

\* Accept returns an error: the accept loop ends, whether or not the server
\* is being closed.
AcceptFails(p) ==
  /\ pc[p] = "accept"
  /\ Goto(p, "close")
  /\ UNCHANGED <<state, cur, wg, panicking, closeVars, conns, connVars>>

\* The TCP or KCP socket of t was accepted, could not be set up and is
\* closed.  What comes back is an error with a nil *TCPTransportImpl in the
\* interface: transport != nil holds, transport.Close() dereferences nil, and
\* the panic runs the deferred Close and wg.Wait before it leaves Serve.
AcceptSetupFails(p, t) ==
  /\ pc[p] = "accept"
  /\ listener = "open"
  /\ life[t] = "incoming"
  /\ life' = [life EXCEPT ![t] = "gone"]
  /\ rwc' = [rwc EXCEPT ![t] = "closed"]
  /\ panicking' = TRUE
  /\ Goto(p, "close")
  /\ UNCHANGED <<state, cur, wg, closeVars, conns, phase, cause>>

\* Faulty variant: the transport is forgotten.
LeakCur ==
  /\ life' = [life EXCEPT ![cur] = "gone"]
  /\ cur' = None
  /\ UNCHANGED rwc

\* The accept loop closes a transport that has no connection yet.
DropCur ==
  /\ rwc' = [rwc EXCEPT ![cur] = "closed"]
  /\ life' = [life EXCEPT ![cur] = "gone"]
  /\ cur' = None

AcceptedTooLate(p) ==
  /\ pc[p] = "accepted"
  /\ isClosed
  /\ DropCur
  /\ Goto(p, "close")
  /\ UNCHANGED <<state, wg, panicking, closeVars, conns, phase, cause>>

CallFactory(p) ==
  /\ pc[p] = "accepted"
  /\ ~isClosed
  /\ Goto(p, "factory")
  /\ UNCHANGED <<state, cur, wg, panicking, closeVars, conns, connVars>>

\* The factory returns dependencies and newConn builds the connection.
FactoryOK(p) ==
  /\ pc[p] = "factory"
  /\ life' = [life EXCEPT ![cur] = "conn"]
  /\ Goto(p, "add")
  /\ UNCHANGED <<state, cur, wg, panicking, closeVars, conns, phase, cause, rwc>>

\* The factory returns an error or no codec, or panics.
FactoryFails(p) ==
  /\ pc[p] = "factory"
  /\ DropCur
  /\ Goto(p, "top")
  /\ UNCHANGED <<state, wg, panicking, closeVars, conns, phase, cause>>

\* Faulty variant of Add: a closed manager is not noticed.
AddToClosed(p) ==
  /\ pc[p] = "add"
  /\ \/ /\ MaxConns > 0 /\ Cardinality(conns) >= MaxConns
        /\ cause' = [cause EXCEPT ![cur] = "ErrClosed"]
        /\ Goto(p, "limit")
        /\ UNCHANGED conns
     \/ /\ MaxConns = 0 \/ Cardinality(conns) < MaxConns
        /\ conns' = conns \cup {cur}
        /\ Goto(p, "spawn")
        /\ UNCHANGED cause
  /\ UNCHANGED <<state, cur, wg, panicking, closeVars, life, phase, rwc>>

\* SessionManagerImpl.Add.  A connection it refuses is closed by the accept
\* loop, which nobody else can reach: the loop is the first to cancel it.
Add(p) ==
  /\ pc[p] = "add"
  /\ \/ /\ mgrClosed
        /\ cause' = [cause EXCEPT ![cur] = "ErrClosed"]
        /\ Goto(p, "refused")
        /\ UNCHANGED conns
     \/ /\ ~mgrClosed
        /\ MaxConns > 0 /\ Cardinality(conns) >= MaxConns
        /\ cause' = [cause EXCEPT ![cur] = "ErrClosed"]
        /\ Goto(p, "limit")
        /\ UNCHANGED conns
     \/ /\ ~mgrClosed
        /\ MaxConns = 0 \/ Cardinality(conns) < MaxConns
        /\ conns' = conns \cup {cur}
        /\ Goto(p, "spawn")
        /\ UNCHANGED cause
  /\ UNCHANGED <<state, cur, wg, panicking, closeVars, life, phase, rwc>>

\* conn.Close() of a refused connection has returned.
RefusedClosed(p) ==
  /\ pc[p] \in {"limit", "refused"}
  /\ rwc[cur] = "closed"
  /\ life' = [life EXCEPT ![cur] = "gone"]
  /\ cur' = None
  /\ Goto(p, IF pc[p] = "limit" THEN "top" ELSE "close")
  /\ UNCHANGED <<state, wg, panicking, closeVars, conns, phase, cause, rwc>>

\* s.wg.Add(1); go s.runConn(conn)
Spawn(p) ==
  /\ pc[p] = "spawn"
  /\ wg' = wg \cup {cur}
  /\ life' = [life EXCEPT ![cur] = "spawned"]
  /\ cur' = None
  /\ Goto(p, "top")
  /\ UNCHANGED <<state, panicking, closeVars, conns, phase, cause, rwc>>

\* The deferred wg.Wait has returned, and with it Serve.
ServeReturns(p) ==
  /\ pc[p] = "wgWait"
  /\ wg = {}
  /\ Goto(p, "returned")
  /\ UNCHANGED <<state, cur, wg, panicking, closeVars, conns, connVars>>

-----------------------------------------------------------------------------
(* Close: by a goroutine of its own, or deferred in Serve.  One caller     *)
(* executes the body, the others wait until it is done.                    *)

Close(k) ==
  /\ pc[k] = "idle"
  /\ Goto(k, "close")
  /\ UNCHANGED <<state, cur, wg, panicking, closeVars, conns, connVars>>

CloseEnter(p) ==
  /\ pc[p] = "close"
  /\ once = "fresh"
  /\ once' = "entered"
  /\ state' = "Closed"
  /\ UNCHANGED <<pc, cur, wg, panicking, listener, mgrClosed, snapshot, closing,
                 conns, connVars>>

\* SessionManagerImpl.Close, under its lock.
MgrClose ==
  /\ once = "entered"
  /\ once' = "conns"
  /\ mgrClosed' = TRUE
  /\ snapshot' = conns
  /\ UNCHANGED <<serverVars, listener, closing, conns, connVars>>

\* Faulty variant: the cause of a connection that ended by itself is replaced.
MgrReplacesCause(t) ==
  /\ once = "conns"
  /\ closing = None
  /\ t \in snapshot
  /\ closing' = t
  /\ cause' = [cause EXCEPT ![t] = "ErrClosed"]
  /\ UNCHANGED <<serverVars, once, listener, mgrClosed, snapshot, conns, life,
                 phase, rwc>>

\* It calls conn.Close() on one connection after the other, without the lock.
MgrCloseConn(t) ==
  /\ once = "conns"
  /\ closing = None
  /\ t \in snapshot
  /\ closing' = t
  /\ cause' = [cause EXCEPT ![t] = IF Cancelled(t) THEN @ ELSE "ErrClosed"]
  /\ UNCHANGED <<serverVars, once, listener, mgrClosed, snapshot, conns, life,
                 phase, rwc>>

MgrConnClosed(t) ==
  /\ closing = t
  /\ rwc[t] = "closed"
  /\ closing' = None
  /\ snapshot' = snapshot \ {t}
  /\ UNCHANGED <<serverVars, once, listener, mgrClosed, conns, connVars>>

\* Faulty variant: the listener stays open.
ListenerForgotten ==
  /\ once = "conns"
  /\ snapshot = {}
  /\ once' = "done"
  /\ UNCHANGED <<serverVars, listener, mgrClosed, snapshot, closing, conns,
                 connVars>>

ListenerClose ==
  /\ once = "conns"
  /\ snapshot = {}
  /\ once' = "done"
  /\ listener' = "closed"
  /\ UNCHANGED <<serverVars, mgrClosed, snapshot, closing, conns, connVars>>

CloseReturns(p) ==
  /\ pc[p] = "close"
  /\ once = "done"
  /\ Goto(p, IF p \in Servers THEN "wgWait" ELSE "closed")
  /\ UNCHANGED <<state, cur, wg, panicking, closeVars, conns, connVars>>

-----------------------------------------------------------------------------
(* The connections: runConn, and what module Connection allows.            *)

ConnRun(t) ==
  /\ life[t] = "spawned"
  /\ phase[t] = "new"
  /\ phase' = [phase EXCEPT ![t] = "running"]
  /\ UNCHANGED <<serverVars, closeVars, conns, life, cause, rwc>>

\* The connection ends for a reason of its own, or is closed by somebody who
\* got it from Conn, Range or a callback.
ConnCancel(t) ==
  /\ t \in conns
  /\ ~Cancelled(t)
  /\ cause' = [cause EXCEPT ![t] = "ended"]
  /\ UNCHANGED <<serverVars, closeVars, conns, life, phase, rwc>>

ConnCloseTransport(t) ==
  /\ Cancelled(t)
  /\ rwc[t] = "open"
  /\ rwc' = [rwc EXCEPT ![t] = "closed"]
  /\ UNCHANGED <<serverVars, closeVars, conns, life, phase, cause>>

ConnOnClose(t) ==
  /\ phase[t] = "running"
  /\ Cancelled(t)
  /\ rwc[t] = "closed"
  /\ phase' = [phase EXCEPT ![t] = "onClose"]
  /\ UNCHANGED <<serverVars, closeVars, conns, life, cause, rwc>>

ConnFinish(t) ==
  /\ phase[t] = "onClose"
  /\ phase' = [phase EXCEPT ![t] = "finished"]
  /\ UNCHANGED <<serverVars, closeVars, conns, life, cause, rwc>>

\* Faulty variant: the connection is removed when it is cancelled.
RemoveEarly(t) ==
  /\ life[t] = "spawned"
  /\ Cancelled(t)
  /\ life' = [life EXCEPT ![t] = "removed"]
  /\ conns' = conns \ {t}
  /\ UNCHANGED <<serverVars, closeVars, phase, cause, rwc>>

\* The deferred calls of runConn: SessionManagerImpl.Remove, then wg.Done.
Remove(t) ==
  /\ life[t] = "spawned"
  /\ phase[t] = "finished"
  /\ life' = [life EXCEPT ![t] = "removed"]
  /\ conns' = conns \ {t}
  /\ UNCHANGED <<serverVars, closeVars, phase, cause, rwc>>

RunConnDone(t) ==
  /\ life[t] = "removed"
  /\ life' = [life EXCEPT ![t] = "gone"]
  /\ wg' = wg \ {t}
  /\ UNCHANGED <<state, pc, cur, panicking, closeVars, conns, phase, cause, rwc>>

-----------------------------------------------------------------------------
LoopStep(p) ==
  \/ LoopTop(p) \/ AcceptedTooLate(p) \/ CallFactory(p) \/ FactoryOK(p)
  \/ FactoryFails(p) \/ Add(p) \/ RefusedClosed(p) \/ Spawn(p) \/ ServeReturns(p)

AcceptStep(p) ==
  \/ \E t \in Transports : AcceptOK(p, t) \/ AcceptSetupFails(p, t)
  \/ AcceptFails(p)

CloseBody ==
  \/ MgrClose
  \/ \E t \in Transports : MgrCloseConn(t) \/ MgrConnClosed(t)
  \/ ListenerClose

\* What the goroutines of a connection do without anybody else's help.
ConnStep(t) ==
  \/ ConnRun(t) \/ ConnCloseTransport(t) \/ ConnOnClose(t) \/ ConnFinish(t)
  \/ Remove(t) \/ RunConnDone(t)

Next ==
  \/ \E p \in Servers : Serve(p) \/ ServeRejected(p) \/ AcceptStep(p) \/ LoopStep(p)
  \/ \E k \in Closers : Close(k)
  \/ \E p \in Servers \cup Closers : CloseEnter(p) \/ CloseReturns(p)
  \/ CloseBody
  \/ \E t \in Transports : ConnStep(t) \/ ConnCancel(t)

Spec == Init /\ [][Next]_vars

(***************************************************************************)
(* Fairness.  Goroutines that can run do; the factory returns; an Accept   *)
(* is sure to return only when the listener is closed; a connection that   *)
(* runs and is cancelled ends, which is what Conn is shown to guarantee.   *)
(* Nobody has to call Serve or Close, no peer has to connect or to go.     *)
(***************************************************************************)
FairSpec ==
  /\ Spec
  /\ \A p \in Servers :
       /\ WF_vars(LoopStep(p))
       /\ WF_vars(listener = "closed" /\ AcceptFails(p))
  /\ \A p \in Servers \cup Closers : WF_vars(CloseEnter(p) \/ CloseReturns(p))
  /\ WF_vars(CloseBody)
  /\ \A t \in Transports : WF_vars(ConnStep(t))

-----------------------------------------------------------------------------
(* Properties *)

\* Every variable has its type.
TypeOK ==
  /\ state \in {"New", "Running", "Closed"}
  /\ pc \in [Servers \cup Closers -> ServerLabels \cup CloserLabels]
  /\ cur \in Transports \cup {None}
  /\ once \in {"fresh", "entered", "conns", "done"}
  /\ listener \in {"open", "closed"}
  /\ wg \subseteq Transports
  /\ panicking \in BOOLEAN
  /\ conns \subseteq Transports
  /\ mgrClosed \in BOOLEAN
  /\ snapshot \subseteq Transports
  /\ closing \in Transports \cup {None}
  /\ life \in [Transports -> {"incoming", "accepted", "conn", "spawned",
                              "removed", "gone"}]
  /\ phase \in [Transports -> {"new", "running", "onClose", "finished"}]
  /\ cause \in [Transports -> Causes \cup {NoCause}]
  /\ rwc \in [Transports -> {"open", "closed"}]

\* The limit of the manager bounds the connections whose callbacks can run,
\* not only the entries of its table: a connection stays registered until its
\* OnClose has returned.
CapacityRespected ==
  MaxConns > 0 =>
    Cardinality({t \in Transports : phase[t] \in {"running", "onClose"}}) <= MaxConns

\* No connection slips past Close: when Close is done and the listener is
\* closed, every registered connection is cancelled and its transport
\* closed, also one that was accepted while Close was already running.
NoConnEscapesClose ==
  once = "done" =>
    \A t \in conns : Cancelled(t) /\ rwc[t] = "closed"

\* When Serve returns nothing is left behind: the listener is closed, the
\* table is empty, no connection is running and every transport that was
\* ever accepted has been closed.
ServeReturnsClean ==
  \A p \in Servers : pc[p] = "returned" =>
    /\ listener = "closed"
    /\ conns = {}
    /\ \A t \in Transports :
         life[t] # "incoming" =>
           rwc[t] = "closed" /\ phase[t] \in {"new", "finished"}

\* An error of Accept never makes the server panic; Serve cleans up and
\* returns the error instead.
AcceptErrorIsReturned ==
  \A p \in Servers : pc[p] = "returned" => ~panicking

\* The transport of t belongs to a connection from newConn on.
connRwc(t) == IF life[t] \in {"incoming", "accepted"} \/ ~Cancelled(t)
                THEN "open" ELSE rwc[t]

Conn(t) == INSTANCE Connection
             WITH phase <- phase[t], cause <- cause[t], rwc <- connRwc(t)

\* The server uses each connection the way module Connection says: it starts
\* it at most once and lets it end on its own terms.
ConnsAreConnections ==
  /\ \A t \in Transports : Conn(t)!Init
  /\ [][\A t \in Transports : [Conn(t)!Next]_(Conn(t)!connectionVars)]_vars

\* After Close every call of Serve returns, however many connections are
\* still being accepted, registered or run.
ServeEnds ==
  \A p \in Servers :
    (pc[p] # "idle" /\ isClosed) ~> (pc[p] \in {"returned", "rejected"})

=============================================================================
