---------------------------- MODULE MCCallbacks ----------------------------
(***************************************************************************)
(* Small instances for TLC of the two components that run the functions    *)
(* they are given, TaskRunner and TimerManager.  They share nothing, so    *)
(* each is explored while the other has not been used.                     *)
(***************************************************************************)
EXTENDS MCTaskRunner, TimerManager

CallbacksInit == Init /\ TimerInit

CallbacksNext ==
  \/ Next /\ TimerInit /\ UNCHANGED timerVars
  \/ TimerNext /\ Init /\ UNCHANGED vars

CallbacksSpec ==
  /\ CallbacksInit
  /\ [][CallbacksNext]_<<vars, timerVars>>
  /\ Fairness
  /\ TimerFairness
=============================================================================
