----------------------------- MODULE MCTransport -----------------------------
(* A small instance of Transport for TLC: every option, and none. *)
EXTENDS Transport

AllOrNothing == {Options, {}}
=============================================================================
