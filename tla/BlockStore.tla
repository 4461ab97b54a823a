----------------------------- MODULE BlockStore -----------------------------
(***************************************************************************)
(* What the buffer cache promises to the log and the file system: every    *)
(* block has one contents, which only its holder changes; the disk follows *)
(* when the holder asks for it, and until then the block is dirty.  These  *)
(* are the variables, and the assumptions, of Log.                         *)
(***************************************************************************)
CONSTANTS Proc, Block, Val, Nobody

VARIABLES cache,   \* what a reader of each block sees
          disk,
          dirty,   \* blocks whose contents must not be dropped
          holder   \* who has the block locked

vars == <<cache, disk, dirty, holder>>

Init ==
  /\ disk \in [Block -> Val] /\ cache = disk
  /\ dirty = {}
  /\ holder = [b \in Block |-> Nobody]

Take(p, b) ==
  /\ holder[b] = Nobody
  /\ \A c \in Block : holder[c] # p
  /\ holder' = [holder EXCEPT ![b] = p]
  /\ UNCHANGED <<cache, disk, dirty>>

Write(p, b, v) ==
  /\ holder[b] = p
  /\ cache' = [cache EXCEPT ![b] = v]
  /\ dirty' = dirty \cup {b}
  /\ UNCHANGED <<disk, holder>>

Sync(p, b) ==
  /\ holder[b] = p /\ b \in dirty
  /\ disk' = [disk EXCEPT ![b] = cache[b]]
  /\ dirty' = dirty \ {b}
  /\ UNCHANGED <<cache, holder>>

Give(p, b) ==
  /\ holder[b] = p
  /\ holder' = [holder EXCEPT ![b] = Nobody]
  /\ UNCHANGED <<cache, disk, dirty>>

Next ==
  \E p \in Proc, b \in Block :
    Take(p, b) \/ Sync(p, b) \/ Give(p, b) \/ \E v \in Val : Write(p, b, v)

Spec == Init /\ [][Next]_vars

=============================================================================
