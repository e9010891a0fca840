----------------------------- MODULE Connection -----------------------------
(***************************************************************************)
(* What the Connection interface of common/network promises to the code    *)
(* that owns a connection (SessionServer, SessionManager, SessionClient):  *)
(*                                                                         *)
(*   - Run is effective once;                                              *)
(*   - the first termination cause is kept, and is what Err() returns;     *)
(*   - a cancelled connection closes its transport;                        *)
(*   - OnClose runs once, after Run has started, after the connection was  *)
(*     cancelled and after its transport was closed.                       *)
(*                                                                         *)
(* Module Conn is shown to implement this specification; SessionServer and *)
(* SessionClient are built on it.                                          *)
(***************************************************************************)
CONSTANT Causes              \* the possible termination causes

NoCause == "nil"             \* Err() of a connection that is still alive
Phases == {"new", "running", "onClose", "finished"}

VARIABLES
  phase,   \* how far Run has come
  cause,   \* context.Cause of the connection's context
  rwc      \* the transport: "open" or "closed"

connectionVars == <<phase, cause, rwc>>

Init ==
  /\ phase = "new"
  /\ cause = NoCause
  /\ rwc = "open"

\* The first effective call of Run.
Run ==
  /\ phase = "new"
  /\ phase' = "running"
  /\ UNCHANGED <<cause, rwc>>

\* The first closeWithCause cancels the context.
Cancel(c) ==
  /\ cause = NoCause
  /\ cause' = c
  /\ UNCHANGED <<phase, rwc>>

\* ... and then closes the transport.
CloseTransport ==
  /\ cause # NoCause
  /\ rwc = "open"
  /\ rwc' = "closed"
  /\ UNCHANGED <<phase, cause>>

\* Run has seen its loops end and calls OnClose.
BeginOnClose ==
  /\ phase = "running"
  /\ cause # NoCause
  /\ rwc = "closed"
  /\ phase' = "onClose"
  /\ UNCHANGED <<cause, rwc>>

\* OnClose has returned, and with it Run.
Finish ==
  /\ phase = "onClose"
  /\ phase' = "finished"
  /\ UNCHANGED <<cause, rwc>>

Next ==
  \/ Run
  \/ \E c \in Causes : Cancel(c)
  \/ CloseTransport
  \/ BeginOnClose
  \/ Finish

Spec == Init /\ [][Next]_connectionVars

\* A connection that runs and is cancelled comes to its end.
FairSpec ==
  /\ Spec
  /\ WF_connectionVars(CloseTransport)
  /\ WF_connectionVars(BeginOnClose)
  /\ WF_connectionVars(Finish)
=============================================================================
