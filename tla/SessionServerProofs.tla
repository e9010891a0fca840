------------------------- MODULE SessionServerProofs -------------------------
(***************************************************************************)
(* Proofs about module SessionServer, for any sets of goroutines that call *)
(* Serve and Close, any finite set of transports and any limit.            *)
(*                                                                         *)
(* The inductive invariant is Inv, the type invariant with                 *)
(*   ServeInv     one call of Serve gets past the check of the state;      *)
(*   CurInv       what the accept loop knows of the transport it holds;    *)
(*   LifeInv      which table and which counter a transport is in at each  *)
(*                step of its life, and how far its connection is;         *)
(*   OnceInv      how far the body of Close has come;                      *)
(*   SnapshotInv  no registered connection is forgotten by Close;          *)
(*   LimitInv     the table respects the limit.                            *)
(***************************************************************************)
EXTENDS SessionServer, FiniteSetTheorems, TLAPS

USE DEF Goto, Cancelled, isClosed, NoCause, Causes, ServerLabels, CloserLabels,
        serverVars, closeVars, connVars
USE ServerAssumption, NoneIsNoTransport

\* The goroutine p is inside the one call of Serve that is not rejected.
InServe(p) == pc[p] \notin {"idle", "rejected"}

\* Where the accept loop holds a transport.
Holding == {"accepted", "factory", "add", "limit", "refused", "spawn"}

\* The goroutines of Serve and those of Close are at labels of their own.
LabelInv ==
  /\ \A p \in Servers : pc[p] \in ServerLabels
  /\ \A k \in Closers : pc[k] \in CloserLabels

\* One call of Serve at most is past the check of the state.
ServeInv ==
  /\ \A p, q \in Servers : InServe(p) /\ InServe(q) => p = q
  /\ state = "New" => \A p \in Servers : ~InServe(p)

\* What the accept loop knows of the transport it holds.  Nobody else has
\* cancelled the connection it is about to add.
CurInv ==
  /\ cur # None => \E p \in Servers : pc[p] \in Holding
  /\ \A p \in Servers :
       /\ pc[p] \in Holding => cur # None
       /\ pc[p] \in {"accepted", "factory"} => life[cur] = "accepted"
       /\ pc[p] \in {"add", "limit", "refused", "spawn"} => life[cur] = "conn"
       /\ pc[p] = "add" => ~Cancelled(cur)
       /\ pc[p] \in {"limit", "refused"} => Cancelled(cur)
  /\ \A t \in Transports : life[t] \in {"accepted", "conn"} => t = cur

\* The life of a transport: the WaitGroup and the table of the manager count
\* it between the same two steps as its goroutine exists, a connection has
\* ended before it is removed, and no transport is let go of open.
LifeInv ==
  \A t \in Transports :
    /\ t \in wg <=> life[t] \in {"spawned", "removed"}
    /\ t \in conns <=> \/ life[t] = "spawned"
                       \/ t = cur /\ \E p \in Servers : pc[p] = "spawn"
    /\ phase[t] \in {"running", "onClose"} => life[t] = "spawned"
    /\ phase[t] = "finished" => life[t] \in {"spawned", "removed", "gone"}
    /\ phase[t] \in {"onClose", "finished"} => Cancelled(t) /\ rwc[t] = "closed"
    /\ life[t] = "removed" => phase[t] = "finished"
    /\ life[t] = "gone" => rwc[t] = "closed"
    /\ life[t] \in {"incoming", "accepted"} => ~Cancelled(t)
    /\ rwc[t] = "closed" => Cancelled(t) \/ life[t] = "gone"

\* How far the body of Close has come, and who has seen it end.
OnceInv ==
  /\ once = "fresh" <=> state # "Closed"
  /\ mgrClosed <=> once \in {"conns", "done"}
  /\ once = "done" <=> listener = "closed"
  /\ \A p \in Servers : pc[p] \in {"wgWait", "returned"} => once = "done"
  /\ \A p \in Servers : pc[p] = "returned" => wg = {}

\* Every registered connection is still to be closed or has been cancelled
\* and closed, from the moment the manager is closed.
SnapshotInv ==
  /\ snapshot # {} => once = "conns"
  /\ closing # None => closing \in snapshot /\ Cancelled(closing)
  /\ \A t \in snapshot : Cancelled(t) \/ t \in conns
  /\ mgrClosed => \A t \in conns :
                    t \in snapshot \/ (Cancelled(t) /\ rwc[t] = "closed")

\* The table of the manager never exceeds the limit.
LimitInv == MaxConns > 0 => Cardinality(conns) <= MaxConns

\* All of it but the limit, which needs arithmetic.
CoreInv == /\ TypeOK /\ LabelInv /\ ServeInv /\ CurInv /\ LifeInv
           /\ OnceInv /\ SnapshotInv

Inv == CoreInv /\ LimitInv

-----------------------------------------------------------------------------
\* The state a server is built with satisfies the invariant.
THEOREM InvInit == Init => Inv
  <1> SUFFICES ASSUME Init PROVE Inv
    OBVIOUS
  <1>1. TypeOK /\ LabelInv /\ ServeInv /\ CurInv /\ LifeInv
    BY DEF Init, TypeOK, LabelInv, ServeInv, InServe, CurInv, Holding, LifeInv
  <1>2. OnceInv /\ SnapshotInv
    BY DEF Init, OnceInv, SnapshotInv
  <1>3. LimitInv
    BY FS_EmptySet DEF Init, LimitInv
  <1>4. QED
    BY <1>1, <1>2, <1>3 DEF Inv, CoreInv

\* Every step preserves the invariant, the limit of the table aside.
LEMMA CoreNext == CoreInv /\ [Next]_vars => CoreInv'
  <1> SUFFICES ASSUME CoreInv, [Next]_vars PROVE CoreInv'
    OBVIOUS
  <1> USE DEF CoreInv, TypeOK, LabelInv, ServeInv, InServe, CurInv, Holding,
              LifeInv, OnceInv, SnapshotInv
  <1>1. ASSUME NEW p \in Servers, Serve(p) PROVE CoreInv'
    BY <1>1 DEF Serve
  <1>2. ASSUME NEW p \in Servers, ServeRejected(p) PROVE CoreInv'
    BY <1>2 DEF ServeRejected
  <1>3. ASSUME NEW p \in Servers, LoopTop(p) PROVE CoreInv'
    BY <1>3 DEF LoopTop
  <1>4. ASSUME NEW p \in Servers, AcceptFails(p) PROVE CoreInv'
    BY <1>4 DEF AcceptFails
  <1>5. ASSUME NEW p \in Servers, AcceptedTooLate(p) PROVE CoreInv'
    BY <1>5 DEF AcceptedTooLate, DropCur
  <1>6. ASSUME NEW p \in Servers, CallFactory(p) PROVE CoreInv'
    BY <1>6 DEF CallFactory
  <1>7. ASSUME NEW p \in Servers, FactoryOK(p) PROVE CoreInv'
    BY <1>7 DEF FactoryOK
  <1>8. ASSUME NEW p \in Servers, FactoryFails(p) PROVE CoreInv'
    BY <1>8 DEF FactoryFails, DropCur
  <1>9. ASSUME NEW p \in Servers, Add(p) PROVE CoreInv'
    BY <1>9 DEF Add
  <1>10. ASSUME NEW p \in Servers, RefusedClosed(p) PROVE CoreInv'
    BY <1>10 DEF RefusedClosed
  <1>11. ASSUME NEW p \in Servers, Spawn(p) PROVE CoreInv'
    BY <1>11 DEF Spawn
  <1>12. ASSUME NEW p \in Servers, ServeReturns(p) PROVE CoreInv'
    BY <1>12 DEF ServeReturns
  <1>13. ASSUME NEW p \in Servers, NEW t \in Transports, AcceptOK(p, t)
         PROVE  CoreInv'
    BY <1>13 DEF AcceptOK
  <1>14. ASSUME NEW p \in Servers, NEW t \in Transports, AcceptSetupFails(p, t)
         PROVE  CoreInv'
    BY <1>14 DEF AcceptSetupFails
  <1>15. ASSUME NEW k \in Closers, Close(k) PROVE CoreInv'
    BY <1>15 DEF Close
  <1>16. ASSUME NEW p \in Servers \cup Closers, CloseEnter(p) PROVE CoreInv'
    BY <1>16 DEF CloseEnter
  <1>17. ASSUME NEW p \in Servers \cup Closers, CloseReturns(p) PROVE CoreInv'
    BY <1>17 DEF CloseReturns
  <1>18. ASSUME MgrClose PROVE CoreInv'
    BY <1>18 DEF MgrClose
  <1>19. ASSUME ListenerClose PROVE CoreInv'
    BY <1>19 DEF ListenerClose
  <1>20. ASSUME NEW t \in Transports, MgrCloseConn(t) PROVE CoreInv'
    BY <1>20 DEF MgrCloseConn
  <1>21. ASSUME NEW t \in Transports, MgrConnClosed(t) PROVE CoreInv'
    BY <1>21 DEF MgrConnClosed
  <1>22. ASSUME NEW t \in Transports, ConnRun(t) PROVE CoreInv'
    BY <1>22 DEF ConnRun
  <1>23. ASSUME NEW t \in Transports, ConnCancel(t) PROVE CoreInv'
    BY <1>23 DEF ConnCancel
  <1>24. ASSUME NEW t \in Transports, ConnCloseTransport(t) PROVE CoreInv'
    BY <1>24 DEF ConnCloseTransport
  <1>25. ASSUME NEW t \in Transports, ConnOnClose(t) PROVE CoreInv'
    BY <1>25 DEF ConnOnClose
  <1>26. ASSUME NEW t \in Transports, ConnFinish(t) PROVE CoreInv'
    BY <1>26 DEF ConnFinish
  <1>27. ASSUME NEW t \in Transports, Remove(t) PROVE CoreInv'
    BY <1>27 DEF Remove
  <1>28. ASSUME NEW t \in Transports, RunConnDone(t) PROVE CoreInv'
    BY <1>28 DEF RunConnDone
  <1>29. CASE UNCHANGED vars
    BY <1>29 DEF vars
  <1>30. QED
    BY <1>1, <1>2, <1>3, <1>4, <1>5, <1>6, <1>7, <1>8, <1>9, <1>10, <1>11,
       <1>12, <1>13, <1>14, <1>15, <1>16, <1>17, <1>18, <1>19, <1>20,
       <1>21, <1>22, <1>23, <1>24, <1>25, <1>26, <1>27, <1>28, <1>29 DEF
       Next, AcceptStep, LoopStep, CloseBody, ConnStep

\* The table is finite: everything in it was accepted.
LEMMA FiniteConns == TypeOK => IsFiniteSet(conns) /\ Cardinality(conns) \in Nat
  BY FS_Subset, FS_CardinalityType DEF TypeOK

\* The two operations of the manager are all that changes the table.
LEMMA TableSteps ==
    ASSUME Next, conns' # conns
    PROVE  \/ \E p \in Servers : Add(p)
           \/ \E t \in Transports : Remove(t)
  BY DEF Next, AcceptStep, LoopStep, CloseBody, ConnStep, Serve, ServeRejected,
         LoopTop, AcceptOK, AcceptSetupFails, AcceptFails, AcceptedTooLate,
         CallFactory, FactoryOK, FactoryFails, RefusedClosed, Spawn,
         ServeReturns, Close, CloseEnter, CloseReturns, MgrClose, MgrCloseConn,
         MgrConnClosed, ListenerClose, ConnRun, ConnCancel, ConnCloseTransport,
         ConnOnClose, ConnFinish, RunConnDone

\* A connection is added to a table that is not full.
LEMMA LimitNext == TypeOK /\ LimitInv /\ [Next]_vars => LimitInv'
  <1> SUFFICES ASSUME TypeOK, LimitInv, [Next]_vars PROVE LimitInv'
    OBVIOUS
  <1>1. CASE UNCHANGED conns
    BY <1>1 DEF LimitInv
  <1>2. ASSUME NEW p \in Servers, Add(p) PROVE LimitInv'
    <2>1. CASE /\ MaxConns > 0 => Cardinality(conns) < MaxConns
               /\ conns' = conns \cup {cur}
      <3>1. \/ Cardinality(conns') = Cardinality(conns)
            \/ Cardinality(conns') = Cardinality(conns) + 1
        BY <2>1, FiniteConns, FS_AddElement
      <3>2. QED
        BY <2>1, <3>1, FiniteConns DEF LimitInv
    <2>2. QED
      BY <1>1, <1>2, <2>1, FiniteConns DEF Add
  <1>3. ASSUME NEW t \in Transports, Remove(t) PROVE LimitInv'
    <2>1. conns' = conns \ {t}
      BY <1>3 DEF Remove
    <2>2. /\ Cardinality(conns') <= Cardinality(conns)
          /\ Cardinality(conns') \in Nat
      BY <2>1, FiniteConns, FS_Subset, FS_CardinalityType
    <2>3. QED
      BY <2>2, FiniteConns DEF LimitInv
  <1>4. QED
    BY <1>1, <1>2, <1>3, TableSteps DEF vars

-----------------------------------------------------------------------------
\* Every step preserves the invariant.
THEOREM InvNext == Inv /\ [Next]_vars => Inv'
  BY CoreNext, LimitNext DEF Inv, CoreInv

\* The invariant holds in every reachable state.
THEOREM Invariance == Spec => []Inv
  BY InvInit, InvNext, PTL DEF Spec

\* Every variable has its type.
THEOREM TypeCorrect == Spec => []TypeOK
  <1>1. Inv => TypeOK
    BY DEF Inv, CoreInv
  <1>2. QED
    BY <1>1, Invariance, PTL

\* The limit of the manager bounds the connections whose callbacks can run: a
\* connection that runs or is in OnClose is still in the table.
THEOREM Capacity == Spec => []CapacityRespected
  <1> DEFINE running ==
               {t \in Transports : phase[t] \in {"running", "onClose"}}
  <1>1. Inv => CapacityRespected
    <2> SUFFICES ASSUME Inv, MaxConns > 0
                 PROVE  Cardinality(running) <= MaxConns
      BY DEF CapacityRespected
    <2>1. running \in SUBSET conns
      BY DEF Inv, CoreInv, LifeInv
    <2>2. IsFiniteSet(conns) /\ Cardinality(conns) \in Nat
      BY FiniteConns DEF Inv, CoreInv
    <2>3. IsFiniteSet(running) /\ Cardinality(running) <= Cardinality(conns)
      BY <2>1, <2>2, FS_Subset
    <2>4. Cardinality(running) \in Nat
      BY <2>3, FS_CardinalityType
    <2> HIDE DEF running
    <2>5. QED
      BY <2>2, <2>3, <2>4 DEF Inv, CoreInv, LimitInv
  <1>2. QED
    BY <1>1, Invariance, PTL

\* When Close is done every registered connection is cancelled and its
\* transport closed, also one accepted while Close was under way.
THEOREM CloseReachesAll == Spec => []NoConnEscapesClose
  <1>1. Inv => NoConnEscapesClose
    BY DEF Inv, CoreInv, NoConnEscapesClose, OnceInv, SnapshotInv
  <1>2. QED
    BY <1>1, Invariance, PTL

\* When Serve has returned the listener is closed, the table is empty, and of
\* every transport ever accepted the socket is closed and no callback runs.
THEOREM ReturnsClean == Spec => []ServeReturnsClean
  <1>1. Inv => ServeReturnsClean
    <2> SUFFICES ASSUME Inv, NEW p \in Servers, pc[p] = "returned"
                 PROVE  /\ listener = "closed"
                        /\ conns = {}
                        /\ \A t \in Transports :
                             life[t] # "incoming" =>
                               /\ rwc[t] = "closed"
                               /\ phase[t] \in {"new", "finished"}
      BY DEF ServeReturnsClean
    <2> USE DEF Inv, CoreInv
    <2>1. listener = "closed" /\ wg = {}
      BY DEF OnceInv
    <2>2. cur = None
      BY DEF CurInv, ServeInv, InServe, Holding
    <2>3. \A t \in Transports : life[t] \in {"incoming", "gone"}
      BY <2>1, <2>2 DEF TypeOK, LifeInv, CurInv
    <2>4. \A t \in Transports : phase[t] \in {"new", "finished"}
      BY <2>3 DEF TypeOK, LifeInv
    <2>5. conns = {}
      BY <2>2, <2>3 DEF TypeOK, LifeInv
    <2>6. QED
      BY <2>1, <2>3, <2>4, <2>5 DEF LifeInv
  <1>2. QED
    BY <1>1, Invariance, PTL

-----------------------------------------------------------------------------
(* Refinement of Connection, one instance per transport *)

\* The abstract connection over t stays as it is.
Still(t) == UNCHANGED Conn(t)!connectionVars

\* A step of Serve moves a connection only when Add is refused: the accept
\* loop closes it then, and is the first to do so.
LEMMA ServeStep ==
    ASSUME Inv, NEW p \in Servers,
           \/ Serve(p) \/ ServeRejected(p) \/ AcceptStep(p) \/ LoopStep(p),
           NEW t \in Transports
    PROVE  [Conn(t)!Next]_(Conn(t)!connectionVars)
  <1> USE DEF Inv, CoreInv, TypeOK, CurInv, Holding, LifeInv, connRwc,
              Conn!connectionVars, Still
  <1>1. CASE Serve(p)
    BY <1>1 DEF Serve
  <1>2. CASE ServeRejected(p)
    BY <1>2 DEF ServeRejected
  <1>3. CASE LoopTop(p)
    BY <1>3 DEF LoopTop
  <1>4. CASE AcceptFails(p)
    BY <1>4 DEF AcceptFails
  <1>5. CASE AcceptedTooLate(p)
    BY <1>5 DEF AcceptedTooLate, DropCur
  <1>6. CASE CallFactory(p)
    BY <1>6 DEF CallFactory
  <1>7. CASE FactoryOK(p)
    BY <1>7 DEF FactoryOK
  <1>8. CASE FactoryFails(p)
    BY <1>8 DEF FactoryFails, DropCur
  <1>9. CASE RefusedClosed(p)
    BY <1>9 DEF RefusedClosed
  <1>10. CASE Spawn(p)
    BY <1>10 DEF Spawn
  <1>11. CASE ServeReturns(p)
    BY <1>11 DEF ServeReturns
  <1>12. CASE \E u \in Transports : AcceptOK(p, u)
    BY <1>12 DEF AcceptOK
  <1>13. CASE \E u \in Transports : AcceptSetupFails(p, u)
    BY <1>13 DEF AcceptSetupFails
  <1>14. CASE Add(p)
    <2>1. CASE t = cur
      <3>1. cause[t] = NoCause /\ rwc[t] = "open" /\ life[t] = "conn"
        BY <1>14, <2>1 DEF Add
      <3>2. Conn(t)!Cancel("ErrClosed") \/ Still(t)
        BY <1>14, <2>1, <3>1 DEF Add, Conn!Cancel, Conn!NoCause
      <3>3. QED
        BY <3>2 DEF Conn!Next
    <2>2. CASE t # cur
      BY <1>14, <2>2 DEF Add
    <2>3. QED
      BY <2>1, <2>2
  <1>15. QED
    BY <1>1, <1>2, <1>3, <1>4, <1>5, <1>6, <1>7, <1>8, <1>9, <1>10, <1>11,
       <1>12, <1>13, <1>14 DEF AcceptStep, LoopStep

\* Close, and the goroutines of a connection, move that connection the way
\* Connection allows: its first cause stays, its transport is closed after it
\* was cancelled, OnClose follows.
LEMMA ConnectionStep ==
    ASSUME Inv, NEW u \in Transports, NEW t \in Transports,
           \/ MgrCloseConn(u) \/ MgrConnClosed(u)
           \/ ConnStep(u) \/ ConnCancel(u)
    PROVE  [Conn(t)!Next]_(Conn(t)!connectionVars)
  <1> USE DEF Inv, CoreInv, TypeOK, CurInv, Holding, LifeInv, SnapshotInv,
              connRwc, Conn!connectionVars, Conn!NoCause, Still
  <1>1. CASE MgrCloseConn(u)
    <2>1. CASE t = u
      <3>1. Conn(t)!Cancel("ErrClosed") \/ Still(t)
        BY <1>1, <2>1 DEF MgrCloseConn, Conn!Cancel
      <3>2. QED
        BY <3>1 DEF Conn!Next
    <2>2. CASE t # u
      BY <1>1, <2>2 DEF MgrCloseConn
    <2>3. QED
      BY <2>1, <2>2
  <1>2. CASE ConnCancel(u)
    <2>1. CASE t = u
      <3>1. Conn(t)!Cancel("ended")
        BY <1>2, <2>1 DEF ConnCancel, Conn!Cancel
      <3>2. QED
        BY <3>1 DEF Conn!Next
    <2>2. CASE t # u
      BY <1>2, <2>2 DEF ConnCancel
    <2>3. QED
      BY <2>1, <2>2
  <1>3. CASE ConnRun(u)
    <2>1. CASE t = u
      <3>1. Conn(t)!Run
        BY <1>3, <2>1 DEF ConnRun, Conn!Run
      <3>2. QED
        BY <3>1 DEF Conn!Next
    <2>2. CASE t # u
      BY <1>3, <2>2 DEF ConnRun
    <2>3. QED
      BY <2>1, <2>2
  <1>4. CASE ConnCloseTransport(u)
    <2>1. CASE t = u
      <3>1. Conn(t)!CloseTransport \/ Still(t)
        BY <1>4, <2>1 DEF ConnCloseTransport, Conn!CloseTransport
      <3>2. QED
        BY <3>1 DEF Conn!Next
    <2>2. CASE t # u
      BY <1>4, <2>2 DEF ConnCloseTransport
    <2>3. QED
      BY <2>1, <2>2
  <1>5. CASE ConnOnClose(u)
    <2>1. CASE t = u
      <3>1. Conn(t)!BeginOnClose
        BY <1>5, <2>1 DEF ConnOnClose, Conn!BeginOnClose
      <3>2. QED
        BY <3>1 DEF Conn!Next
    <2>2. CASE t # u
      BY <1>5, <2>2 DEF ConnOnClose
    <2>3. QED
      BY <2>1, <2>2
  <1>6. CASE ConnFinish(u)
    <2>1. CASE t = u
      <3>1. Conn(t)!Finish
        BY <1>6, <2>1 DEF ConnFinish, Conn!Finish
      <3>2. QED
        BY <3>1 DEF Conn!Next
    <2>2. CASE t # u
      BY <1>6, <2>2 DEF ConnFinish
    <2>3. QED
      BY <2>1, <2>2
  <1>7. CASE MgrConnClosed(u) \/ Remove(u) \/ RunConnDone(u)
    BY <1>7 DEF MgrConnClosed, Remove, RunConnDone
  <1>8. QED
    BY <1>1, <1>2, <1>3, <1>4, <1>5, <1>6, <1>7 DEF ConnStep

\* The server uses every connection the way module Connection says: it starts
\* it at most once and lets it end on its own terms.
THEOREM Refinement == Spec => ConnsAreConnections
  <1> DEFINE Moves == \A t \in Transports :
                        [Conn(t)!Next]_(Conn(t)!connectionVars)
             Starts == \A t \in Transports : Conn(t)!Init
  <1>1. Init => Starts
    BY DEF Init, Conn!Init, Conn!NoCause, connRwc
  <1>2. Inv /\ [Next]_vars => [Moves]_vars
    <2> SUFFICES ASSUME Inv, Next, NEW t \in Transports
                 PROVE  [Conn(t)!Next]_(Conn(t)!connectionVars)
      OBVIOUS
    <2>1. CASE \E p \in Servers :
                 Serve(p) \/ ServeRejected(p) \/ AcceptStep(p) \/ LoopStep(p)
      BY <2>1, ServeStep
    <2>2. CASE \E u \in Transports :
                 \/ MgrCloseConn(u) \/ MgrConnClosed(u) \/ ConnStep(u)
                 \/ ConnCancel(u)
      BY <2>2, ConnectionStep
    <2>3. CASE \/ \E k \in Closers : Close(k)
               \/ \E p \in Servers \cup Closers :
                    CloseEnter(p) \/ CloseReturns(p)
               \/ MgrClose \/ ListenerClose
      BY <2>3 DEF Close, CloseEnter, CloseReturns, MgrClose, ListenerClose,
                  connRwc, Conn!connectionVars
    <2>4. QED
      BY <2>1, <2>2, <2>3 DEF Next, CloseBody
  <1> HIDE DEF Moves, Starts
  <1>3. Spec => Starts /\ [][Moves]_vars
    BY <1>1, <1>2, Invariance, PTL DEF Spec
  <1>4. QED
    BY <1>3 DEF ConnsAreConnections, Moves, Starts

=============================================================================
