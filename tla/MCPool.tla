------------------------------- MODULE MCPool -------------------------------
(* A small instance of Pool for TLC.  The handlers are the other submitters. *)
EXTENDS Pool

CONSTANTS s1, k1, k2

OneSubmitter == {s1}
TwoClosers == {k1, k2}
SomeIDs == {-1, 3}
=============================================================================
