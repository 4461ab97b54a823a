---------------------------- MODULE BufferCache ----------------------------
(***************************************************************************)
(* The buffer cache of xv6 (bio.c) with its sleep locks (sleeplock.c) and  *)
(* the request queue of the disk driver (ide.c).                           *)
(*                                                                         *)
(* A critical section of bcache.lock, of a sleep lock's spinlock or of     *)
(* idelock is one step.  The callers are log.c and fs.c: bread, then       *)
(* log_write or bwrite of new data, or neither, and brelse; a process is   *)
(* followed while it has one buffer.  A request never fails.               *)
(***************************************************************************)
EXTENDS Integers, Sequences, FiniteSetsExt, SequencesExt

CONSTANTS Proc, Block, Val,
          NBUF,     \* number of buffers
          Nobody    \* no block, no process

ASSUME BufferAssumption ==
  NBUF \in Nat \ {0} /\ Nobody \notin Proc \cup Block

VARIABLES
  list,           \* the buffers by their last use, bcache.head.next first
  block,          \* dev and blockno of each buffer
  data, refcnt,
  valid, dirty,   \* buffers with B_VALID, with B_DIRTY
  lock,           \* holder of each buffer's sleep lock
  idequeue,
  started, sent,  \* buffer the disk is busy with, or 0, and the data it was given
  disk,
  pc, buf,        \* where each process is, and with which buffer
  panicked        \* bget found no buffer

cached == <<list, block, refcnt>>
drive == <<idequeue, started, sent, disk>>
vars == <<cached, data, valid, dirty, lock, drive, pc, buf, panicked>>

Buf == 1 .. NBUF

Init ==
  /\ list = [i \in Buf |-> NBUF + 1 - i]
  /\ block = [x \in Buf |-> Nobody]
  /\ \E v \in Val : data = [x \in Buf |-> v] /\ sent = v
  /\ refcnt = [x \in Buf |-> 0]
  /\ valid = {} /\ dirty = {}
  /\ lock = [x \in Buf |-> Nobody]
  /\ idequeue = <<>> /\ started = 0
  /\ disk \in [Block -> Val]
  /\ pc = [p \in Proc |-> "out"] /\ buf = [p \in Proc |-> 0]
  /\ panicked = FALSE

-----------------------------------------------------------------------------
(* bget *)

BgetHit(p, b) ==
  /\ ~panicked /\ pc[p] = "out"
  /\ \E x \in Buf :
       /\ block[x] = b
       /\ refcnt' = [refcnt EXCEPT ![x] = @ + 1]
       /\ buf' = [buf EXCEPT ![p] = x]
  /\ pc' = [pc EXCEPT ![p] = "lock"]
  /\ UNCHANGED <<list, block, data, valid, dirty, lock, drive, panicked>>

\* mutant: a dirty buffer without users is free as well
UnusedOrDirty == {i \in Buf : refcnt[list[i]] = 0}

\* Positions of the list at which a buffer may be recycled.
Unused == {i \in Buf : refcnt[list[i]] = 0 /\ list[i] \notin dirty}

\* mutant: the lock is given up between the two loops, and the first not repeated
BgetRecycleUnchecked(p, b) ==
  /\ ~panicked /\ pc[p] = "out" /\ Unused # {}
  /\ LET x == list[Max(Unused)]
     IN /\ block' = [block EXCEPT ![x] = b]
        /\ valid' = valid \ {x} /\ dirty' = dirty \ {x}
        /\ refcnt' = [refcnt EXCEPT ![x] = 1]
        /\ buf' = [buf EXCEPT ![p] = x]
        /\ pc' = [pc EXCEPT ![p] = "lock"]
  /\ UNCHANGED <<list, data, lock, drive, panicked>>

BgetRecycle(p, b) ==
  /\ ~panicked /\ pc[p] = "out" /\ Unused # {}
  /\ \A x \in Buf : block[x] # b
  /\ LET x == list[Max(Unused)]
     IN /\ block' = [block EXCEPT ![x] = b]
        /\ valid' = valid \ {x} /\ dirty' = dirty \ {x}
        /\ refcnt' = [refcnt EXCEPT ![x] = 1]
        /\ buf' = [buf EXCEPT ![p] = x]
        /\ pc' = [pc EXCEPT ![p] = "lock"]
  /\ UNCHANGED <<list, data, lock, drive, panicked>>

BgetPanic(p, b) ==
  /\ ~panicked /\ pc[p] = "out" /\ Unused = {}
  /\ \A x \in Buf : block[x] # b
  /\ panicked' = TRUE
  /\ UNCHANGED <<cached, data, valid, dirty, lock, drive, pc, buf>>

-----------------------------------------------------------------------------
(* The sleep lock of the buffer. *)

\* A round of acquiresleep; with the lock, bread tests B_VALID.
AcquireSleep(p) ==
  /\ ~panicked /\ pc[p] = "lock"
  /\ IF lock[buf[p]] # Nobody
     THEN pc' = [pc EXCEPT ![p] = "waits"] /\ UNCHANGED lock
     ELSE /\ lock' = [lock EXCEPT ![buf[p]] = p]
          /\ pc' = [pc EXCEPT ![p] = IF buf[p] \in valid THEN "held" ELSE "iderw"]
  /\ UNCHANGED <<cached, data, valid, dirty, drive, buf, panicked>>

\* The first half of brelse: releasesleep wakes all who wait for the lock.
ReleaseSleep(p) ==
  /\ ~panicked /\ pc[p] = "held"
  /\ lock' = [lock EXCEPT ![buf[p]] = Nobody]
  /\ pc' = [q \in Proc |-> IF q = p THEN "put"
              ELSE IF pc[q] = "waits" /\ buf[q] = buf[p] THEN "lock" ELSE pc[q]]
  /\ UNCHANGED <<cached, data, valid, dirty, drive, buf, panicked>>

MoveToFront(x) ==
  [i \in Buf |-> IF i = 1 THEN x
                 ELSE IF \E j \in i .. NBUF : list[j] = x THEN list[i - 1] ELSE list[i]]

\* The second half: to the head of the list, unless it is in use.
Brelse(p) ==
  LET x == buf[p]
  IN /\ ~panicked /\ pc[p] = "put"
     /\ refcnt' = [refcnt EXCEPT ![x] = @ - 1]
     /\ list' = IF refcnt'[x] = 0 THEN MoveToFront(x) ELSE list
     /\ pc' = [pc EXCEPT ![p] = "out"] /\ buf' = [buf EXCEPT ![p] = 0]
     /\ UNCHANGED <<block, data, valid, dirty, lock, drive, panicked>>

-----------------------------------------------------------------------------
(* What the holder of the buffer does with it, and the disk. *)

\* log_write of new data.
LogWrite(p, v) ==
  /\ ~panicked /\ pc[p] = "held"
  /\ data' = [data EXCEPT ![buf[p]] = v]
  /\ dirty' = dirty \cup {buf[p]}
  /\ UNCHANGED <<cached, valid, lock, drive, pc, buf, panicked>>

\* bwrite of data that may be new.
Bwrite(p, v) ==
  /\ ~panicked /\ pc[p] = "held"
  /\ data' = [data EXCEPT ![buf[p]] = v]
  /\ dirty' = dirty \cup {buf[p]}
  /\ pc' = [pc EXCEPT ![p] = "iderw"]
  /\ UNCHANGED <<cached, valid, lock, drive, buf, panicked>>

\* idestart: a dirty buffer is sent to the disk.
Idestart(x) == started' = x /\ sent' = data[x]

\* iderw: the request is queued, and its process sleeps until it is done.
Iderw(p) ==
  /\ ~panicked /\ pc[p] = "iderw"
  /\ idequeue' = Append(idequeue, buf[p])
  /\ IF idequeue = <<>> THEN Idestart(buf[p]) ELSE UNCHANGED <<started, sent>>
  /\ pc' = [pc EXCEPT ![p] = "io"]
  /\ UNCHANGED <<cached, data, valid, dirty, lock, disk, buf, panicked>>

\* The disk is done with the first request, a write if the buffer was dirty;
\* wakeup(b), and the next request.
Ideintr ==
  /\ ~panicked /\ idequeue # <<>> /\ started # 0
  /\ LET x == Head(idequeue)
     IN /\ IF started \in dirty
           THEN disk' = [disk EXCEPT ![block[started]] = sent] /\ UNCHANGED data
           ELSE data' = [data EXCEPT ![x] = disk[block[started]]] /\ UNCHANGED disk
        /\ valid' = valid \cup {x} /\ dirty' = dirty \ {x}
        /\ pc' = [p \in Proc |-> IF pc[p] = "io" /\ buf[p] = x THEN "done" ELSE pc[p]]
  /\ idequeue' = Tail(idequeue)
  /\ IF idequeue' = <<>> THEN started' = 0 /\ UNCHANGED sent ELSE Idestart(Head(idequeue'))
  /\ UNCHANGED <<cached, lock, buf, panicked>>

\* The loop at the end of iderw.
IderwDone(p) ==
  /\ ~panicked /\ pc[p] = "done"
  /\ pc' = [pc EXCEPT ![p] = IF buf[p] \in valid \ dirty THEN "held" ELSE "io"]
  /\ UNCHANGED <<cached, data, valid, dirty, lock, drive, buf, panicked>>

-----------------------------------------------------------------------------
Bget(p, b) == BgetHit(p, b) \/ BgetRecycle(p, b) \/ BgetPanic(p, b)

Next ==
  \/ \E p \in Proc :
       \/ \E b \in Block : Bget(p, b)
       \/ \E v \in Val : LogWrite(p, v) \/ Bwrite(p, v)
       \/ AcquireSleep(p) \/ ReleaseSleep(p) \/ Brelse(p) \/ Iderw(p) \/ IderwDone(p)
  \/ Ideintr

Spec == Init /\ [][Next]_vars

-----------------------------------------------------------------------------
TypeOK ==
  /\ list \in [Buf -> Buf] /\ block \in [Buf -> Block \cup {Nobody}]
  /\ data \in [Buf -> Val] /\ refcnt \in [Buf -> Nat]
  /\ valid \subseteq Buf /\ dirty \subseteq Buf
  /\ lock \in [Buf -> Proc \cup {Nobody}]
  /\ idequeue \in Seq(Buf) /\ started \in Buf \cup {0} /\ sent \in Val
  /\ disk \in [Block -> Val]
  /\ pc \in [Proc -> {"out", "lock", "waits", "iderw", "io", "done", "held", "put"}]
  /\ buf \in [Proc -> Buf \cup {0}]
  /\ panicked \in BOOLEAN

Users(x) == {p \in Proc : pc[p] # "out" /\ buf[p] = x}
Holds(p) == pc[p] \in {"iderw", "io", "done", "held"}

\* The list holds every buffer, no block has two, and a reference count is the
\* number of its users.
OneBufferPerBlock ==
  /\ ToSet(list) = Buf
  /\ \A x, y \in Buf : block[x] = block[y] /\ block[x] # Nobody => x = y
  /\ \A x \in Buf : refcnt[x] = Cardinality(Users(x))

\* One process holds a buffer; those who sleep wait for a holder or for a request
\* in the queue, where it is once; and the disk is at work on the first of them.
WaitersHaveReason ==
  /\ \A p \in Proc : Holds(p) <=> buf[p] # 0 /\ lock[buf[p]] = p
  /\ \A p \in Proc : pc[p] = "waits" => lock[buf[p]] # Nobody
  /\ \A p \in Proc : pc[p] = "io" <=> buf[p] # 0 /\ lock[buf[p]] = p /\ Contains(idequeue, buf[p])
  /\ \A i, j \in DOMAIN idequeue : idequeue[i] = idequeue[j] => i = j
  /\ started = (IF idequeue = <<>> THEN 0 ELSE Head(idequeue))
  /\ started # 0 => lock[started] # Nobody /\ (started \in dirty => sent = data[started])

CacheInv == TypeOK /\ OneBufferPerBlock /\ WaitersHaveReason

\* The cache implements a store of blocks: nothing written is lost or seen late,
\* whichever buffers are recycled, and only the holder of a block changes it.
HasBlock(b) == {x \in valid : block[x] = b}
Store == INSTANCE BlockStore
  WITH cache <- [b \in Block |-> IF HasBlock(b) = {} THEN disk[b]
                                 ELSE data[CHOOSE x \in HasBlock(b) : TRUE]],
       dirty <- {block[x] : x \in dirty},
       holder <- [b \in Block |->
                    IF \E x \in Buf : block[x] = b
                    THEN lock[CHOOSE x \in Buf : block[x] = b] ELSE Nobody]

BlockStoreSpec == Store!Spec

=============================================================================
