------------------------------- MODULE MCConn -------------------------------
(* A small instance of Conn for TLC. *)
EXTENDS Conn

CONSTANTS r1, r2, s1, k1

TwoRunners == {r1, r2}
OneSender == {s1}
OneCloser == {k1}
=============================================================================
