------------------------------- MODULE MCLog -------------------------------
(* An instance of Log for TLC. *)
EXTENDS Log

CONSTANTS p1, p2, b1, b2, v1, v2

TwoProcs == {p1, p2}
TwoBlocks == {b1, b2}
Contents == {v1, v2}
=============================================================================
