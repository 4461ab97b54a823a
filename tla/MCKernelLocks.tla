--------------------------- MODULE MCKernelLocks ---------------------------
(* An instance of KernelLocks for TLC: two CPUs, two processes. *)
EXTENDS KernelLocks, TLC

CONSTANTS p1, p2

Procs == {p1, p2}

Symmetry == Permutations(Procs)
=============================================================================
