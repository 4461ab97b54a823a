-------------------------------- MODULE Log --------------------------------
(***************************************************************************)
(* The write-ahead log of xv6: log.c, with as much of the buffer cache     *)
(* (bio.c) and of the disk driver (ide.c) as it relies on.                 *)
(*                                                                         *)
(* A step ends with at most one write to the disk, so that the machine can *)
(* stop between any two writes; the write of one block (a sector, BSIZE =  *)
(* 512) is atomic.  cache[b] is what bread(b) returns: the contents of the *)
(* buffer of b, and disk[b] when there is none.  After a crash the kernel  *)
(* runs recover_from_log() before any system call (forkret, initlog).      *)
(***************************************************************************)
EXTENDS Integers, Sequences, FiniteSets

CONSTANTS Proc,         \* processes that make file system calls
          Block,        \* blocks outside the log
          Val,          \* contents of a block
          MAXOPBLOCKS,  \* most blocks an operation writes
          LOGSIZE,      \* length of the header's array of block numbers
          Size          \* sb.nlog, blocks of the log on the disk, header included

ASSUME LogAssumption ==
  /\ MAXOPBLOCKS \in Nat \ {0} /\ LOGSIZE \in Nat /\ Size \in Nat
  /\ MAXOPBLOCKS <= LOGSIZE /\ Size <= LOGSIZE + 1

VARIABLES
  disk,         \* contents of the blocks at home
  logd,         \* contents of the log blocks on the disk
  head,         \* header on the disk: the blocks of a committed transaction
  cache, dirty, \* contents of the buffers, and those with B_DIRTY
  lh,           \* header in memory: log.lh.block[0 .. log.lh.n-1]
  outstanding, committing,
  op,           \* where each process is in its file system call
  buf,          \* the buffer a process holds in log_write()
  wrote,        \* the blocks an operation has written so far
  phase, tail,  \* where commit() or recover_from_log() is, and its loop counter
  up,           \* FALSE from a crash to the end of the recovery
  panicked

media == <<disk, logd, head>>
bcache == <<cache, dirty>>
log == <<lh, outstanding, committing>>
calls == <<op, buf, wrote>>
vars == <<media, bcache, log, calls, phase, tail, up, panicked>>

Slot == 1 .. LOGSIZE
None == {}   \* no buffer

Init ==
  /\ disk \in [Block -> Val]
  /\ \E v \in Val : logd = [i \in Slot |-> v]
  /\ head = <<>>
  /\ cache = disk /\ dirty = {}
  /\ lh = <<>> /\ outstanding = 0 /\ committing = FALSE
  /\ op = [p \in Proc |-> "idle"]
  /\ buf = [p \in Proc |-> None]
  /\ wrote = [p \in Proc |-> {}]
  /\ phase = "none" /\ tail = 0
  /\ up = TRUE
  /\ panicked = FALSE

Runs == up /\ ~panicked

-----------------------------------------------------------------------------
(* The system calls. *)

\* mutant: the operation that begins is not counted
NoSpaceForOthers == Len(lh) + outstanding * MAXOPBLOCKS > LOGSIZE

NoSpace == Len(lh) + (outstanding + 1) * MAXOPBLOCKS > LOGSIZE

\* mutant: an operation that has slept is not counted
BeginOpUncounted(p) ==
  /\ Runs /\ op[p] \in {"idle", "begin"}
  /\ ~committing /\ ~NoSpace
  /\ outstanding' = IF op[p] = "begin" THEN outstanding ELSE outstanding + 1
  /\ op' = [op EXCEPT ![p] = "active"]
  /\ UNCHANGED <<media, bcache, lh, committing, buf, wrote, phase, tail, up,
                 panicked>>

\* mutant: an operation begins during a commit
BeginOpAnyTime(p) ==
  /\ Runs /\ op[p] \in {"idle", "begin"}
  /\ ~NoSpace
  /\ outstanding' = outstanding + 1
  /\ op' = [op EXCEPT ![p] = "active"]
  /\ UNCHANGED <<media, bcache, lh, committing, buf, wrote, phase, tail, up,
                 panicked>>

BeginOp(p) ==
  /\ Runs /\ op[p] \in {"idle", "begin"}
  /\ ~committing /\ ~NoSpace
  /\ outstanding' = outstanding + 1
  /\ op' = [op EXCEPT ![p] = "active"]
  /\ UNCHANGED <<media, bcache, lh, committing, buf, wrote, phase, tail, up,
                 panicked>>

BeginOpSleep(p) ==
  /\ Runs /\ op[p] \in {"idle", "begin"}
  /\ committing \/ NoSpace
  /\ op' = [op EXCEPT ![p] = "asleep"]
  /\ UNCHANGED <<media, bcache, log, buf, wrote, phase, tail, up, panicked>>

\* wakeup(&log): the sleepers go round their loop again.
Wakeup(o) == [p \in Proc |-> IF o[p] = "asleep" THEN "begin" ELSE o[p]]

\* bread, a change of the data, and the test of log_write, made without the
\* lock; an operation keeps to its share of the log.
Modify(p, b, v) ==
  /\ Runs /\ op[p] = "active"
  /\ \A q \in Proc : b \notin buf[q]
  /\ Cardinality(wrote[p] \cup {b}) <= MAXOPBLOCKS
  /\ cache' = [cache EXCEPT ![b] = v]
  /\ IF Len(lh) >= LOGSIZE \/ Len(lh) >= Size - 1
     THEN panicked' = TRUE /\ UNCHANGED calls  \* too big a transaction
     ELSE /\ buf' = [buf EXCEPT ![p] = {b}]
          /\ wrote' = [wrote EXCEPT ![p] = @ \cup {b}]
          /\ op' = [op EXCEPT ![p] = "append"]
          /\ UNCHANGED panicked
  /\ UNCHANGED <<media, dirty, log, phase, tail, up>>

Blocks(s) == {s[i] : i \in 1 .. Len(s)}

\* mutant: the buffer is not marked B_DIRTY
Append1Clean(p, b) ==
  /\ lh' = IF b \in Blocks(lh) THEN lh ELSE Append(lh, b)
  /\ buf' = [buf EXCEPT ![p] = None]
  /\ UNCHANGED dirty

\* The rest of log_write with the lock, absorption included, and brelse.
Append1(p, b) ==
  /\ lh' = IF b \in Blocks(lh) THEN lh ELSE Append(lh, b)
  /\ dirty' = dirty \cup {b}
  /\ buf' = [buf EXCEPT ![p] = None]

LogWrite(p) ==
  /\ Runs /\ op[p] = "append"
  /\ \E b \in buf[p] : Append1(p, b)
  /\ op' = [op EXCEPT ![p] = "active"]
  /\ UNCHANGED <<media, cache, outstanding, committing, wrote, phase, tail, up,
                 panicked>>

\* The last one to end commits, without the lock; another one tells those who
\* wait for space.
EndOp(p) ==
  /\ Runs /\ op[p] = "active"
  /\ outstanding' = outstanding - 1
  /\ wrote' = [wrote EXCEPT ![p] = {}]
  /\ IF committing
     THEN panicked' = TRUE /\ UNCHANGED <<committing, op, phase, tail>>
     ELSE /\ UNCHANGED panicked
          /\ IF outstanding' = 0
             THEN /\ committing' = TRUE
                  /\ op' = [op EXCEPT ![p] = "commit"]
                  /\ phase' = IF lh = <<>> THEN "finish" ELSE "log"
                  /\ tail' = 1
             ELSE /\ op' = Wakeup([op EXCEPT ![p] = "idle"])
                  /\ UNCHANGED <<committing, phase, tail>>
  /\ UNCHANGED <<media, bcache, lh, buf, up>>

-----------------------------------------------------------------------------
(* commit, and the recovery, which shares its second half. *)

\* One round of the loop of write_log.
WriteLog ==
  /\ ~panicked /\ phase = "log"
  /\ logd' = [logd EXCEPT ![tail] = cache[lh[tail]]]
  /\ IF tail = Len(lh) THEN phase' = "head" /\ tail' = 0
     ELSE tail' = tail + 1 /\ UNCHANGED phase
  /\ UNCHANGED <<disk, head, bcache, log, calls, up, panicked>>

\* write_head: the commit.
WriteHead ==
  /\ ~panicked /\ phase = "head"
  /\ head' = lh
  /\ phase' = "install" /\ tail' = 1
  /\ UNCHANGED <<disk, logd, bcache, log, calls, up, panicked>>

\* One round of the loop of install_trans; bwrite ends with B_DIRTY off.
Install ==
  /\ ~panicked /\ phase = "install" /\ tail <= Len(lh)
  /\ disk' = [disk EXCEPT ![lh[tail]] = logd[tail]]
  /\ cache' = [cache EXCEPT ![lh[tail]] = logd[tail]]
  /\ dirty' = dirty \ {lh[tail]}
  /\ tail' = tail + 1
  /\ UNCHANGED <<logd, head, log, calls, phase, up, panicked>>

\* mutant: the loop of install_trans ends one block early
ClearHeadEarly ==
  /\ ~panicked /\ phase = "install" /\ tail >= Len(lh)
  /\ lh' = <<>> /\ head' = <<>>
  /\ tail' = 0
  /\ IF up THEN phase' = "finish" /\ UNCHANGED up
     ELSE phase' = "none" /\ up' = TRUE
  /\ UNCHANGED <<disk, logd, bcache, outstanding, committing, calls, panicked>>

\* log.lh.n = 0 and write_head.
ClearHead ==
  /\ ~panicked /\ phase = "install" /\ tail > Len(lh)
  /\ lh' = <<>> /\ head' = <<>>
  /\ tail' = 0
  /\ IF up THEN phase' = "finish" /\ UNCHANGED up
     ELSE phase' = "none" /\ up' = TRUE
  /\ UNCHANGED <<disk, logd, bcache, outstanding, committing, calls, panicked>>

\* mutant: the commit does not wake those who wait for it
CommitDoneSilent(p) ==
  /\ Runs /\ op[p] = "commit" /\ phase = "finish"
  /\ committing' = FALSE
  /\ op' = [op EXCEPT ![p] = "idle"]
  /\ phase' = "none" /\ tail' = 0
  /\ UNCHANGED <<media, bcache, lh, outstanding, buf, wrote, up, panicked>>

\* The end of end_op.
CommitDone(p) ==
  /\ Runs /\ op[p] = "commit" /\ phase = "finish"
  /\ committing' = FALSE
  /\ op' = Wakeup([op EXCEPT ![p] = "idle"])
  /\ phase' = "none" /\ tail' = 0
  /\ UNCHANGED <<media, bcache, lh, outstanding, buf, wrote, up, panicked>>

\* bget gives the buffer of b, clean and not held, to another block: the next
\* bread of b reads the disk.
Recycle(b) ==
  /\ Runs /\ b \notin dirty
  /\ \A p \in Proc : b \notin buf[p]
  /\ cache' = [cache EXCEPT ![b] = disk[b]]
  /\ UNCHANGED <<media, dirty, log, calls, phase, tail, up, panicked>>

\* The machine stops, also after a panic, and starts again with empty memory.
Crash ==
  /\ cache' = disk /\ dirty' = {}
  /\ lh' = <<>> /\ outstanding' = 0 /\ committing' = FALSE
  /\ op' = [p \in Proc |-> "idle"]
  /\ buf' = [p \in Proc |-> None]
  /\ wrote' = [p \in Proc |-> {}]
  /\ phase' = "read" /\ tail' = 0
  /\ up' = FALSE
  /\ panicked' = FALSE
  /\ UNCHANGED media

\* mutant: the recovery returns early, and starts nothing, when the log is empty
ReadHeadReturns ==
  /\ phase = "read"
  /\ lh' = head
  /\ phase' = (IF head = <<>> THEN "none" ELSE "install") /\ tail' = 1
  /\ UNCHANGED <<media, bcache, outstanding, committing, calls, up, panicked>>

\* read_head
ReadHead ==
  /\ phase = "read"
  /\ lh' = head
  /\ phase' = "install" /\ tail' = 1
  /\ UNCHANGED <<media, bcache, outstanding, committing, calls, up, panicked>>

-----------------------------------------------------------------------------
Call(p) ==
  \/ BeginOp(p) \/ BeginOpSleep(p)
  \/ \E b \in Block, v \in Val : Modify(p, b, v)
  \/ LogWrite(p) \/ EndOp(p) \/ CommitDone(p)

Commit == WriteLog \/ WriteHead \/ Install \/ ClearHead \/ ReadHead

Next ==
  \/ \E p \in Proc : Call(p)
  \/ Commit
  \/ \E b \in Block : Recycle(b)
  \/ Crash

Spec == Init /\ [][Next]_vars

\* A commit and a recovery go on, and an operation ends: it writes finitely
\* often.
Fairness ==
  /\ WF_vars(Commit)
  /\ \A p \in Proc : /\ WF_vars(BeginOp(p) \/ BeginOpSleep(p))
                     /\ WF_vars(LogWrite(p))
                     /\ SF_vars(EndOp(p))
                     /\ WF_vars(CommitDone(p))

FairSpec == Spec /\ Fairness

-----------------------------------------------------------------------------
Active == {p \in Proc : op[p] \in {"active", "append"}}

TypeOK ==
  /\ disk \in [Block -> Val] /\ logd \in [Slot -> Val] /\ head \in Seq(Block)
  /\ cache \in [Block -> Val] /\ dirty \subseteq Block
  /\ lh \in Seq(Block)
  /\ outstanding \in Nat /\ committing \in BOOLEAN
  /\ op \in [Proc -> {"idle", "begin", "asleep", "active", "append", "commit"}]
  /\ buf \in [Proc -> SUBSET Block] /\ wrote \in [Proc -> SUBSET Block]
  /\ phase \in {"none", "log", "head", "install", "finish", "read"}
  /\ tail \in Nat
  /\ up \in BOOLEAN /\ panicked \in BOOLEAN

\* What an operation in progress has written and the log has already taken in.
Logged == {x \in Active \X Block : x[2] \in wrote[x[1]] \cap Blocks(lh)}

\* The reservations of begin_op hold: what is in the log and what the operations
\* in progress may still add, MAXOPBLOCKS each but for what is logged, fits into
\* the header.
SpaceReserved ==
  Len(lh) + MAXOPBLOCKS * Cardinality(Active) - Cardinality(Logged) <= LOGSIZE

\* The log commits with no operation in progress, so that the test in end_op
\* never fails, and one process at a time commits.
CommitsAlone ==
  /\ ~panicked => outstanding = Cardinality(Active)
  /\ committing => Active = {}
  /\ up => (committing <=> phase # "none")
  /\ \A p \in Proc : op[p] = "commit" => committing
  /\ \A p, q \in Proc : op[p] = "commit" /\ op[q] = "commit" => p = q

\* What memory and disk disagree about is pinned: the buffer is dirty, and in the
\* log or being entered into it; no block is in the log twice.
PinnedWhileDirty ==
  up => /\ \A b \in Block : cache[b] # disk[b] =>
              b \in dirty \/ panicked \/ \E p \in Proc : b \in buf[p]
        /\ dirty \subseteq Blocks(lh)
        /\ \A i, j \in 1 .. Len(lh) : lh[i] = lh[j] => i = j

\* The blocks as a recovery restores them.
Recovered ==
  [b \in Block |-> IF b \in Blocks(head)
                   THEN logd[CHOOSE i \in 1 .. Len(head) : head[i] = b] ELSE disk[b]]

\* The log implements an atomic disk: a crash at any point, of a commit or of a
\* recovery, loses or keeps every operation as a whole.
Abstract == INSTANCE AtomicDisk
              WITH fs <- IF up THEN cache ELSE Recovered, stable <- Recovered,
                   active <- Active

AtomicDiskSpec == Abstract!Spec

\* Who sleeps in begin_op is woken up: a commit ends, and so does an operation.
SleeperWakes == \A p \in Proc : op[p] = "asleep" ~> (op[p] # "asleep" \/ panicked)

\* When crashes stop, the machine comes up.
RecoveryEnds == <>[][~Crash]_vars => []<>up

=============================================================================
