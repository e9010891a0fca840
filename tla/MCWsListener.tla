---------------------------- MODULE MCWsListener ----------------------------
(* A small instance of WsListener for TLC. *)
EXTENDS WsListener

CONSTANTS h1, h2, h3, a1, k1

ThreeHandlers == {h1, h2, h3}
OneAcceptor == {a1}
OneCloser == {k1}
=============================================================================
