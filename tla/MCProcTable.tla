---------------------------- MODULE MCProcTable ----------------------------
(* Instances of ProcTable for TLC. *)
EXTENDS ProcTable, TLC

CONSTANTS c1, c2

\* The machine the Makefile starts (CPUS := 1), and one with two processors.
OneCpu == {c1}
TwoCpus == {c1, c2}

\* The processors are interchangeable (two of them, safety only).
CpuSymmetry == Permutations(TwoCpus)

AllCalls == {"fork", "wait", "kill", "settickets", "sleep", "exit"}

\* Enough for a tree of four processes, which takes two processors: with one, the
\* lottery lets the first RUNNABLE process run whenever all have one ticket.
FamilyCalls == {"fork", "wait", "exit"}
=============================================================================
