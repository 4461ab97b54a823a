----------------------------- MODULE MCAirport -----------------------------
(* Instances of Airport for TLC. *)
EXTENDS Airport, TLC
=============================================================================
