----------------------------- MODULE AtomicDisk -----------------------------
(***************************************************************************)
(* What the log promises to the file system: operations write blocks, each *)
(* sees what the others wrote, and a crash takes the disk back to a state  *)
(* that was complete: it holds, of every operation, all writes or none.    *)
(***************************************************************************)
CONSTANTS Proc,   \* processes, each in one operation at a time
          Block,  \* blocks of the file system
          Val     \* contents of a block

VARIABLES fs,      \* what a reader of the blocks sees
          stable,  \* what a crash leaves
          active   \* the processes in an operation

vars == <<fs, stable, active>>

Init ==
  /\ fs \in [Block -> Val]
  /\ stable = fs
  /\ active = {}

Begin(p) ==
  /\ p \notin active
  /\ active' = active \cup {p}
  /\ UNCHANGED <<fs, stable>>

Write(p, b, v) ==
  /\ p \in active
  /\ fs' = [fs EXCEPT ![b] = v]
  /\ UNCHANGED <<stable, active>>

End(p) ==
  /\ active' = active \ {p}
  /\ UNCHANGED <<fs, stable>>

\* All operations that have ended become stable, and none is in progress.
Commit ==
  /\ active = {}
  /\ stable' = fs
  /\ UNCHANGED <<fs, active>>

Crash ==
  /\ fs' = stable
  /\ active' = {}
  /\ UNCHANGED stable

Next ==
  \/ \E p \in Proc : Begin(p) \/ End(p) \/ \E b \in Block, v \in Val : Write(p, b, v)
  \/ Commit
  \/ Crash

Spec == Init /\ [][Next]_vars
=============================================================================
