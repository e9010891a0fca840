----------------------------- MODULE WsListener -----------------------------
(***************************************************************************)
(* WsListenerImpl of common/network (ws_impl.go): the HTTP handlers that   *)
(* upgrade requests to WebSocket transports, the goroutines that call      *)
(* Accept and Close, and the goroutine serve that runs the HTTP server.    *)
(* Handler h makes at most one transport, whose state is transport[h].     *)
(* net/http and the WebSocket library are external: a handler may run at   *)
(* any time, an upgrade succeeds or fails, and Serve may fail.             *)
(***************************************************************************)
EXTENDS Integers, FiniteSets

CONSTANTS
  Handlers,               \* one handler per upgrade request
  Acceptors,              \* goroutines that call Accept
  Closers,                \* goroutines that call Close
  Serving,                \* the goroutine serve
  MaxPendingConnections   \* WsListenerConfig.MaxPendingConnections

ASSUME WsAssumption ==
  /\ MaxPendingConnections \in Nat \ {0}
  /\ IsFiniteSet(Handlers)
  /\ Handlers \cap Acceptors = {}
  /\ Handlers \cap Closers = {}
  /\ Acceptors \cap Closers = {}
  /\ Serving \notin Handlers \cup Acceptors \cup Closers

Procs == Handlers \cup Acceptors \cup Closers \cup {Serving}
Nobody == "nobody"
ASSUME NobodyIsNoHandler == Nobody \notin Handlers

NoErr == "nil"
Errs == {"ErrClosed", "serveErr"}

VARIABLES
  pc,            \* where each goroutine is
  closed,        \* WsListenerImpl.closed
  acceptErr,     \* WsListenerImpl.acceptErr
  done,          \* close(done) has been called
  once,          \* closeOnce and how far its body is; closeMu is held by it
                 \* at "locked"
  httpServer,    \* "open" or "closed", and the listener with it
  slots,         \* pendingSlots: the handlers that hold a slot
  wg,            \* upgradeWg: the handlers it waits for
  transport,     \* per handler: "none", "open", "delivered" or "closed"
  received,      \* the handler whose transport each Accept call received
  result,        \* what the last Accept of each acceptor returned as error
  late           \* that call of Accept began after done was closed

closeVars == <<closed, acceptErr, done, once, httpServer>>
upgradeVars == <<slots, wg>>
acceptVars == <<received, result, late>>
wsVars == <<pc, closeVars, upgradeVars, transport, acceptVars>>

Goto(p, label) == pc' = [pc EXCEPT ![p] = label]

-----------------------------------------------------------------------------
(* NewWsListenerImpl *)

WsInit ==
  /\ pc = [p \in Procs |-> IF p = Serving THEN "serving" ELSE "idle"]
  /\ closed = FALSE
  /\ acceptErr = NoErr
  /\ done = FALSE
  /\ once = "fresh"
  /\ httpServer = "open"
  /\ slots = {}
  /\ wg = {}
  /\ transport = [h \in Handlers |-> "none"]
  /\ received = [a \in Acceptors |-> Nobody]
  /\ result = [a \in Acceptors |-> NoErr]
  /\ late = [a \in Acceptors |-> FALSE]

-----------------------------------------------------------------------------
(* handleUpgrade *)

\* Faulty variant: the handler does not look at closed.
EnterUnchecked(h) ==
  /\ pc[h] = "idle"
  /\ once # "locked"
  /\ wg' = wg \cup {h}
  /\ Goto(h, "slot")
  /\ UNCHANGED <<closeVars, slots, transport, acceptVars>>

\* The check of closed and upgradeWg.Add(1), both under closeMu.
Enter(h) ==
  /\ pc[h] = "idle"
  /\ once # "locked"
  /\ ~closed
  /\ wg' = wg \cup {h}
  /\ Goto(h, "slot")
  /\ UNCHANGED <<closeVars, slots, transport, acceptVars>>

EnterClosed(h) ==
  /\ pc[h] = "idle"
  /\ once # "locked"
  /\ closed
  /\ Goto(h, "exited")
  /\ UNCHANGED <<closeVars, upgradeVars, transport, acceptVars>>

TakeSlot(h) ==
  /\ pc[h] = "slot"
  /\ Cardinality(slots) < MaxPendingConnections
  /\ slots' = slots \cup {h}
  /\ Goto(h, "upgrade")
  /\ UNCHANGED <<closeVars, wg, transport, acceptVars>>

\* No slot is free: the request is refused before the upgrade.
TooMany(h) ==
  /\ pc[h] = "slot"
  /\ Cardinality(slots) >= MaxPendingConnections
  /\ Goto(h, "wgDone")
  /\ UNCHANGED <<closeVars, upgradeVars, transport, acceptVars>>

\* Faulty variant: the slot is given back when the upgrade is done.
UpgradeFreesSlot(h) ==
  /\ pc[h] = "upgrade"
  /\ transport' = [transport EXCEPT ![h] = "open"]
  /\ slots' = slots \ {h}
  /\ Goto(h, "offer")
  /\ UNCHANGED <<closeVars, wg, acceptVars>>

UpgradeOK(h) ==
  /\ pc[h] = "upgrade"
  /\ transport' = [transport EXCEPT ![h] = "open"]
  /\ Goto(h, "offer")
  /\ UNCHANGED <<closeVars, upgradeVars, acceptVars>>

UpgradeFails(h) ==
  /\ pc[h] = "upgrade"
  /\ Goto(h, "freeSlot")
  /\ UNCHANGED <<closeVars, upgradeVars, transport, acceptVars>>

\* The unbuffered acceptQueue: the handler's select and that of Accept meet,
\* which may happen when done is closed as well.
Handoff(h, a) ==
  /\ pc[h] = "offer"
  /\ pc[a] = "select"
  /\ received' = [received EXCEPT ![a] = h]
  /\ pc' = [pc EXCEPT ![h] = "freeSlot", ![a] = "got"]
  /\ UNCHANGED <<closeVars, upgradeVars, transport, result, late>>

\* Faulty variant: the handler goes on offering when the listener is closed.
OfferForever(h) ==
  /\ pc[h] = "offer"
  /\ done
  /\ UNCHANGED wsVars

\* The listener is closed: the handler closes its transport itself.
OfferDone(h) ==
  /\ pc[h] = "offer"
  /\ done
  /\ transport' = [transport EXCEPT ![h] = "closed"]
  /\ Goto(h, "freeSlot")
  /\ UNCHANGED <<closeVars, upgradeVars, acceptVars>>

\* The deferred calls: the slot is given back, then upgradeWg.Done.
FreeSlot(h) ==
  /\ pc[h] = "freeSlot"
  /\ slots' = slots \ {h}
  /\ Goto(h, "wgDone")
  /\ UNCHANGED <<closeVars, wg, transport, acceptVars>>

WgDone(h) ==
  /\ pc[h] = "wgDone"
  /\ wg' = wg \ {h}
  /\ Goto(h, "exited")
  /\ UNCHANGED <<closeVars, slots, transport, acceptVars>>

-----------------------------------------------------------------------------
(* Accept *)

WsAccept(a) ==
  /\ pc[a] \in {"idle", "accepted", "failed"}
  /\ late' = [late EXCEPT ![a] = done]
  /\ received' = [received EXCEPT ![a] = Nobody]
  /\ Goto(a, "select")
  /\ UNCHANGED <<closeVars, upgradeVars, transport, result>>

\* done is seen closed, and acceptErr is read without the lock.
AcceptFails(a) ==
  /\ pc[a] = "select"
  /\ done
  /\ result' = [result EXCEPT ![a] = acceptErr]
  /\ Goto(a, "failed")
  /\ UNCHANGED <<closeVars, upgradeVars, transport, received, late>>

\* Faulty variant: Accept does not look at done again.
AcceptUnchecked(a) ==
  /\ pc[a] = "got"
  /\ transport' = [transport EXCEPT ![received[a]] = "delivered"]
  /\ Goto(a, "accepted")
  /\ UNCHANGED <<closeVars, upgradeVars, acceptVars>>

\* Accept has a transport and looks at done again.
AcceptCheck(a) ==
  /\ pc[a] = "got"
  /\ IF done
       THEN /\ transport' = [transport EXCEPT ![received[a]] = "closed"]
            /\ result' = [result EXCEPT ![a] = acceptErr]
            /\ Goto(a, "failed")
       ELSE /\ transport' = [transport EXCEPT ![received[a]] = "delivered"]
            /\ Goto(a, "accepted")
            /\ UNCHANGED result
  /\ UNCHANGED <<closeVars, upgradeVars, received, late>>

-----------------------------------------------------------------------------
(* closeWithCause, called by Close and when the HTTP server ends.          *)

WsClose(k) ==
  /\ pc[k] = "idle"
  /\ Goto(k, "close")
  /\ UNCHANGED <<closeVars, upgradeVars, transport, acceptVars>>

\* httpServer.Serve returns: by an error of its own, or because it is closed.
ServeEnds ==
  /\ pc[Serving] = "serving"
  /\ Goto(Serving, IF httpServer = "open" THEN "failing" ELSE "close")
  /\ UNCHANGED <<closeVars, upgradeVars, transport, acceptVars>>

CauseOf(p) == IF pc[p] = "failing" THEN "serveErr" ELSE "ErrClosed"

CloseEnter(p) ==
  /\ pc[p] \in {"close", "failing"}
  /\ once = "fresh"
  /\ once' = "locked"
  /\ closed' = TRUE
  /\ acceptErr' = CauseOf(p)
  /\ UNCHANGED <<pc, done, httpServer, upgradeVars, transport, acceptVars>>

\* close(done); closeMu is unlocked.
CloseDone ==
  /\ once = "locked"
  /\ once' = "signalled"
  /\ done' = TRUE
  /\ UNCHANGED <<pc, closed, acceptErr, httpServer, upgradeVars, transport,
                 acceptVars>>

CloseServer ==
  /\ once = "signalled"
  /\ once' = "wait"
  /\ httpServer' = "closed"
  /\ UNCHANGED <<pc, closed, acceptErr, done, upgradeVars, transport, acceptVars>>

\* upgradeWg.Wait returns.
CloseWaited ==
  /\ once = "wait"
  /\ wg = {}
  /\ once' = "done"
  /\ UNCHANGED <<pc, closed, acceptErr, done, httpServer, upgradeVars, transport,
                 acceptVars>>

CloseReturns(p) ==
  /\ pc[p] \in {"close", "failing"}
  /\ once = "done"
  /\ Goto(p, "returned")
  /\ UNCHANGED <<closeVars, upgradeVars, transport, acceptVars>>

-----------------------------------------------------------------------------
HandlerStep(h) ==
  \/ TakeSlot(h) \/ TooMany(h) \/ UpgradeOK(h) \/ UpgradeFails(h)
  \/ OfferDone(h) \/ FreeSlot(h) \/ WgDone(h)

AcceptStep(a) == AcceptFails(a) \/ AcceptCheck(a)

CloseBody == CloseDone \/ CloseServer \/ CloseWaited

CallsClose == Closers \cup {Serving}

WsNext ==
  \/ \E h \in Handlers : Enter(h) \/ EnterClosed(h) \/ HandlerStep(h)
  \/ \E h \in Handlers, a \in Acceptors : Handoff(h, a)
  \/ \E a \in Acceptors : WsAccept(a) \/ AcceptStep(a)
  \/ \E k \in Closers : WsClose(k)
  \/ ServeEnds
  \/ \E p \in CallsClose : CloseEnter(p) \/ CloseReturns(p)
  \/ CloseBody

WsSpec == WsInit /\ [][WsNext]_wsVars

(***************************************************************************)
(* Fairness.  Goroutines that can run do; an upgrade ends, at the latest by*)
(* its handshake timeout; Serve returns when the server is closed.  Nobody *)
(* has to call Accept or Close, and no request has to come.                *)
(***************************************************************************)
WsFairSpec ==
  /\ WsSpec
  /\ \A h \in Handlers : WF_wsVars(HandlerStep(h))
  /\ \A a \in Acceptors : WF_wsVars(AcceptStep(a))
  /\ \A p \in CallsClose : WF_wsVars(CloseEnter(p) \/ CloseReturns(p))
  /\ WF_wsVars(CloseBody)
  /\ WF_wsVars(httpServer = "closed" /\ ServeEnds)

-----------------------------------------------------------------------------
(* Properties *)

HandlerLabels == {"idle", "slot", "upgrade", "offer", "freeSlot", "wgDone", "exited"}
AcceptorLabels == {"idle", "select", "got", "accepted", "failed"}
CloserLabels == {"idle", "serving", "failing", "close", "returned"}

\* Every variable has its type, every goroutine is at a label of its code and
\* pendingSlots respects its capacity.
WsTypeOK ==
  /\ pc \in [Procs -> HandlerLabels \cup AcceptorLabels \cup CloserLabels]
  /\ \A h \in Handlers : pc[h] \in HandlerLabels
  /\ \A a \in Acceptors : pc[a] \in AcceptorLabels
  /\ \A p \in CallsClose : pc[p] \in CloserLabels
  /\ closed \in BOOLEAN
  /\ acceptErr \in Errs \cup {NoErr}
  /\ done \in BOOLEAN
  /\ once \in {"fresh", "locked", "signalled", "wait", "done"}
  /\ httpServer \in {"open", "closed"}
  /\ slots \subseteq Handlers /\ Cardinality(slots) <= MaxPendingConnections
  /\ wg \subseteq Handlers
  /\ transport \in [Handlers -> {"none", "open", "delivered", "closed"}]
  /\ received \in [Acceptors -> Handlers \cup {Nobody}]
  /\ result \in [Acceptors -> Errs \cup {NoErr}]
  /\ late \in [Acceptors -> BOOLEAN]

\* At most MaxPendingConnections requests are being upgraded or wait for an
\* Accept at the same time.
PendingBound ==
  Cardinality({h \in Handlers : pc[h] \in {"upgrade", "offer"}})
    <= MaxPendingConnections

\* The transport of h is in the hands of a call of Accept that has not
\* returned.
InAccept(h) == \E a \in Acceptors : pc[a] = "got" /\ received[a] = h

\* When Close returns no handler is under way, none comes later, and no
\* transport is left behind: each was closed, or went to a caller of Accept,
\* or is in an Accept that is about to decide on it.
CloseIsClean ==
  once = "done" =>
    \A h \in Handlers :
      /\ pc[h] \in {"idle", "exited"}
      /\ transport[h] = "open" => InAccept(h)

\* A failing Accept returns the cause of the closing, never a nil error with
\* no transport, although it reads acceptErr without the lock; and an Accept
\* that begins after the listener was closed fails, even when a handler is
\* still offering a transport.
AcceptResults ==
  \A a \in Acceptors :
    /\ pc[a] = "failed" => result[a] = acceptErr /\ result[a] # NoErr
    /\ pc[a] = "accepted" => ~late[a]

\* Close returns, and so does every pending Accept, whatever the handlers are
\* doing.
CloseEnds ==
  /\ \A k \in Closers : pc[k] = "close" ~> pc[k] = "returned"
  /\ \A a \in Acceptors : (done /\ pc[a] = "select") ~> pc[a] = "failed"

=============================================================================
