--------------------------- MODULE MCSessionClient ---------------------------
(* A small instance of SessionClient for TLC. *)
EXTENDS SessionClient

CONSTANTS d1, d2, k1, k2, w1, w2

TwoDialers == {d1, d2}
TwoClosers == {k1, k2}
TwoWaiters == {w1, w2}
=============================================================================
