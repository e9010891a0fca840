--------------------------- MODULE MCSessionServer ---------------------------
(* A small instance of SessionServer for TLC. *)
EXTENDS SessionServer

CONSTANTS p1, k1, t1, t2, t3

OneServer == {p1}
OneCloser == {k1}
ThreeTransports == {t1, t2, t3}
=============================================================================
