---------------------------- MODULE MCTaskRunner ----------------------------
(* A small instance of TaskRunner for TLC. *)
EXTENDS TaskRunner

CONSTANTS s1, s2, k1, k2

TwoSubmitters == {s1, s2}
TwoClosers == {k1, k2}
=============================================================================
