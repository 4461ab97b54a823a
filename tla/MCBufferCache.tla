--------------------------- MODULE MCBufferCache ---------------------------
(* An instance of BufferCache for TLC, with more blocks than buffers; every  *)
(* process, block and value is like the others.                              *)
EXTENDS BufferCache, TLC

CONSTANTS p1, p2, p3, b1, b2, b3, v1, v2

Procs == {p1, p2, p3}
Blocks == {b1, b2, b3}
Contents == {v1, v2}

Symmetry == Permutations(Procs) \cup Permutations(Blocks) \cup Permutations(Contents)
=============================================================================
