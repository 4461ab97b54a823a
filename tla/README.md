# Specifications of the CSE-314 operating-system exercises

TLA+ models, TLC configurations and TLAPS proofs for the programs of this
repository: the airport simulation with POSIX threads (Offline-02), the xv6
kernel with a lottery scheduler (Offline-03), and the paging to a swap file that
Offline-04 adds to xv6. Paths are relative to the repository; `xv6-public/`
stands for `Offline-03-Xv6-and-Scheduling/xv6-public/`, `my-xv6/` for
`Offline-04-Xv6-Memory-Management-System/1705043_Submission/my-xv6/` and
`1705043_IPC.cpp` for `Offline-02-IPC/1705043/1705043_IPC.cpp`; a file of the kernel
without a directory is in `xv6-public/`.

    tlasany M.tla                              parse a module
    tlc -workers 2 -config X.cfg MCM.tla       check an instance
    tlapm MProofs.tla                          check the proofs

## 1. The system and its parts

| Component | State | Operations | Meets others through |
|---|---|---|---|
| VIP channel lock (`1705043_IPC.cpp`) | counters `rc`, `wc`; mutexes `mtx_rc`, `mtx_wc`, `mtx_db`, `mtx_extradb` | enter and leave, left to right and right to left | called by the passengers' threads; locked by one thread, unlocked by another |
| Airport (`1705043_IPC.cpp`) | four kinds of queues, a queue of kiosk numbers, six kinds of semaphores, the map `mp` of VIPs, `boarderCnt` | five kinds of loops and nine kinds of short-lived threads | semaphores and mutexes; the map without one; the channel |
| Process table and scheduler (`proc.c`) | `ptable`, `nextpid`, each CPU's `c->proc` | `allocproc`, `fork`, `exit`, `wait`, `sleep`, `wakeup`, `kill`, `yield`, `sched`, `settickets`, `getpinfo`, `scheduler` | system calls, the timer interrupt, `ptable.lock`, `tickslock` |
| Locks and interrupts (`spinlock.c`, `trap.c`) | holder of each lock, interrupt flag, depth of `pushcli`, `intena` | `acquire`, `release`, `sched`, interrupt handlers | every other part of the kernel |
| Pipes (`pipe.c`) | ring buffer, `nread`, `nwrite`, open ends | `pipewrite`, `piperead`, `pipeclose` | sleep and wakeup; the file table |
| Buffer cache and disk driver (`bio.c`, `ide.c`, `sleeplock.c`) | list of buffers, `refcnt`, `B_VALID`, `B_DIRTY`, request queue | `bread`, `bwrite`, `brelse`, `iderw`, `ideintr` | the log, the inode layer |
| Write-ahead log (`log.c`) | header in memory and on disk, `outstanding`, `committing` | `begin_op`, `log_write`, `end_op`, `commit`, `recover_from_log` | the file system above, the buffer cache and the disk below |
| Files and inodes (`file.c`, `fs.c`, `sysfile.c`) | reference counts, link counts, inodes, directories, bitmap | open, close, create, mkdir, mknod, link, unlink, chdir | the log |
| Paging (`my-xv6/`: `vm.c`, `proc.c`, `fs.c`, `exec.c`, `trap.c`) | table of pages, list of those in memory, their places in the swap file | page fault, `allocuvm`, `deallocuvm`, fork, exec | page tables, the swap file |
| Memory, console, boot, user programs, shell scripts | see PROJECT.json | | |

What makes each correct, and what makes that hard:

* **Channel**: one direction at a time, priority for the left side, no wedge.
  Hard because mutexes are handed from thread to thread within a direction, and
  because two directions negotiate over four mutexes in different orders.
* **Airport**: no passenger is lost or doubled between queues and threads, no
  loop pops an empty queue, everybody boards. Hard because a push and its
  `sem_post` are two steps, a passenger is handed on before his thread has left
  the channel, and a loop tests `boarderCnt` before it blocks.
* **Process table**: a process runs on one CPU, has one pid, a living parent, and
  misses no wakeup. Hard because `fork` drops the lock several times, the
  scheduler takes `ptable.lock` and another process releases it, `kill` wakes
  sleepers from outside, and the scheduler reads the number of tickets three
  times.
* **Locks**: interrupts off under every lock and on again afterwards, no deadlock.
  Hard because a lock may be released on another CPU and in another thread than it
  was taken, and `intena` travels with the thread.
* **Pipes**: bytes in order, each once; no lost wakeup. Hard because of wrapping
  counters, several readers and writers on the same channels, and kill and close
  at any time.
* **Buffer cache**: one buffer per block, one holder, nothing dirty recycled. Hard
  because `bget` gives its spin lock up before it has the sleep lock, and because
  `ideintr` tells a read from a write only when the disk is done.
* **Log**: each operation survives a crash as a whole or not at all. Hard because
  operations share a transaction, blocks are absorbed, buffers must stay pinned,
  and the machine may stop between any two writes, during recovery too.
* **Files**: links and references exact, what is unused freed, what is in use not,
  no deadlock. Hard because a system call locks one inode after the other, `iput`
  frees in two halves, and directories are removed while in use.
* **Paging**: a page comes back as it went out, and table, list, counters and page
  table agree. Hard because pages leave the file in any order and because exec
  works on the table of the old image.

PROJECT.json lists every component with its status, and under `hazards` the
places of the code where these things could go wrong, with the properties that
watch them.

## 2. Modules

| Module | Models | Extends / uses |
|---|---|---|
| `OneWayWalkway` | what the channel lock promises: sets of people who walk east and west, never both | - |
| `VipChannel` | the lock, one step per mutex operation that may block | instance of `OneWayWalkway` |
| `VipChannelProofs` | theorems about it | `VipChannel`, TLAPS |
| `Airport` | all threads of the program | instance of `VipChannel` |
| `AirportProofs` | theorems about it | `Airport`, instance of `VipChannelProofs`, TLAPS |
| `ProcTable` | process table and lottery scheduler, a critical section of `ptable.lock` a step | - |
| `KernelLocks` | spin locks, interrupts and context switches, one lock operation a step | - |
| `KernelLocksProofs` | theorems about it | `KernelLocks`, TLAPS |
| `ByteQueue` | what a pipe promises: a bounded queue of bytes with two ends | - |
| `Pipe` | `pipe.c`, with sleep, wakeup, kill and `fileclose` | instance of `ByteQueue` |
| `PipeProofs` | theorems about it | `Pipe`, TLAPS |
| `BlockStore` | what the buffer cache promises: blocks with a holder each, and a disk | - |
| `BufferCache` | `bio.c`, `sleeplock.c`, `ide.c` | instance of `BlockStore` |
| `BufferCacheProofs` | theorems about it | `BufferCache`, TLAPS |
| `AtomicDisk` | what the log promises: a disk that goes back to a complete state | - |
| `Log` | `log.c`, on blocks that behave as in `BlockStore` | instance of `AtomicDisk` |
| `LogProofs` | theorems about it | `Log`, TLAPS |
| `Files` | inodes, directories and open files (`fs.c`, `sysfile.c`, `file.c`) | - |
| `FilesProofs` | theorems about it | `Files`, TLAPS |
| `Paging` | paging of `my-xv6/` | - |
| `ProcessProofs` | theorems about processes: the table and the pages | `ProcTable`, `Paging`, TLAPS |
| `MC*` | instances for TLC | |

The kernel modules lean on each other in layers: `KernelLocks` justifies that the
others take a critical section as one step, the channel of `sleep` and the effect of
`wakeup` and `kill` are those of `ProcTable`, `BlockStore` is what `Log` assumes of
blocks, and `Files` assumes of a transaction what `AtomicDisk` says.

Operators commented as "mutant" stand beside the definition they vary. No
specification uses them; each is a plausible slip in that piece of code that
one of the checked properties is known to catch.

### 2.1 VipChannel

`left[t]` and `right[t]` say where the thread of a passenger is: outside, waiting
for a mutex, or on the walkway. A thread that returns from `pthread_mutex_lock`
goes on to its next blocking call in one step, so a critical section of `mtx_rc`
or `mtx_wc` that does not block is one action (`LeftCount`, `LeftLeave`,
`RightCount`, `RightLeave`), and the first walker of a direction, who keeps the
counter's mutex while he takes the channel, makes one step per mutex
(`LeftTakeDb`, `LeftTakeExtra`, `RightTakeDb`, `RightTakeExtra`). `mtx_db` and
`mtx_extradb` are unlocked by another thread than the one that locked them; a
mutex is therefore modelled as the default glibc mutex behaves, a lock without
an owner (`locked` is the set of locked ones).

### 2.2 Airport

The five kinds of loops (`GeneratePassenger`, `KioskFunc`, `SecurityFunc` of each
belt, `BoardingFunc`, `SpecialKiosk`) are actions on `loop`, `beltLoop` and
`serving`; every other function is the body of a thread created for one passenger
and is a pair `<<passenger, next statement>>` in `threads`. A `sem_wait` and the
push or pop after it are one step, since the mutex around a queue is held for
that alone; a `sem_post` is a step of its own. Times are left out: a `sleep` is a
place where others may move, and `GetTime()%5==0`, which decides that a boarding
pass is lost, is a free choice. `mp` is the one structure without a lock:
`GenerateInsert` and `GenerateSpawn` are the begin and the end of the insertion,
and a lookup between the two may miss an entry (`LookedUpVip`). `SendLeftToRight`
has no caller and is not modelled.

### 2.3 ProcTable

A slot of `ptable.proc` is a number; process 1 is `initproc`. What happens between
`acquire(&ptable.lock)` and `release` is one step. The exception is the hand-over
of the lock in `scheduler()`: `ptlock` names the process that runs with the lock
the scheduler took, until `Resume` (forkret, the end of `yield` or `sleep`)
releases it or the scan of `wait` goes on with it. `pc[p]` is what a process does
when it runs next, so that a timer interrupt (`Yield`) may come between any two
steps. `fork()` is five actions: `AllocProc` (or `AllocProcFull`), then copying
that may fail (`ForkFail`, without the lock), the parent pointer, the tickets and
`RUNNABLE`. `scheduler()` is three, one for each time it reads the tickets:
`SchedTotal`, `SchedDraw`, `SchedRun`. `sys_sleep` tests `killed` under `tickslock`
(`SleepCheck`) and sleeps later (`Sleep`); `Tick` is the timer's `wakeup(&ticks)`.
A division by zero and "init exiting" stop the kernel (`panicked`).

What `fork` and `exit` do with memory, files and the working directory is left
out, and so are the tick counts that only `getpinfo` reports.

### 2.4 Log

`cache[b]` is what `bread(b)` returns, `disk[b]` the block at home, `logd` and
`head` the log on the disk, `lh` its header in memory. Every action ends with at
most one disk write, and `Crash` may come before or after any of them; `ReadHead`,
`Install` and `ClearHead` are the recovery, which shares its loop with the commit.
`Recycle(b)` is `bget` giving the clean, unheld buffer of `b` to another block.
`Modify` is `bread`, the change and the unlocked test of `log_write`, `LogWrite`
its critical section. The writing of one block is atomic (a sector is 512 bytes,
as is `BSIZE`). Under the refinement mapping a reader sees the cache while the
machine is up and, from a crash to the end of recovery, what recovery will
restore; `stable` is that restored state at any time.

### 2.5 KernelLocks

A thread is a sequence of operations still to do (`todo`); an interrupt puts its
handler in front of what the CPU was doing, and a call of `sleep` or `yield` puts
their operations there. `cur[c]` is the thread on a CPU, the CPU itself when
`scheduler()` runs. `acquire` is `AcquireStarts` (pushcli, the check of `holding`)
and `Spin` (the exchange that finds the lock free). Data is left out: the
condition a process sleeps for may hold or not. `other` stands for every lock on
which processes sleep (`p->lock`, `idelock`, `log.lock`, a sleep lock's `lk`,
`cons.lock`), `leaf` for those that only protect data (`kmem`, `bcache`, `ftable`).

### 2.6 Pipe

What a call does under `p->lock` is one step; only between the last test of
`killed` and `sleep()` may a step of others come in (`pc = "dozing"`), and only
`kill`, as the lock is still held. `FileClose` gives a reference up, by `close` or
`exit`; the last one of its side goes on to `PipeClose`. `Wrap` stands for 2^32. Under
the refinement mapping the queue is what lies between `nread` and `nwrite`.

### 2.7 BufferCache

A critical section of `bcache.lock`, of a sleep lock's spin lock and of `idelock` is a
step. `bread` is `Bget` (a hit, a recycled buffer or the panic), `AcquireSleep` and, if the
buffer is not valid, `Iderw`; `brelse` is `ReleaseSleep` and `Brelse`. `started` and
`sent` are what the disk was last given; when it is done `Ideintr` looks at `B_DIRTY` to
know whether that was a read or a write, as the code does. Its variables `cache`,
`disk`, `dirty` and `holder` under the mapping are those `Log` works with.

### 2.8 Files

A step goes from one `ilock` to the next. `at`, `dp` and `ip` are the pointers of a system
call (in `namex`, to the parent, to the inode), `put` that of an `iput` under way; `ret` says
where the call goes on after it. `iput` is `IputTest`, perhaps `IputFree` (itrunc and the
free inode on the disk), and `IputDeref`. A directory is a function from names, `.`
and `..` among them, to inodes. The path walk is one action per element, `create` is
`CreateLook`, `CreateFill` and `CreateMade` with an `iput` before the last, and so on.
`Fatal` says what a step panics with instead. Two history variables name the
exceptions of the properties: `strays` (a directory in use was removed) and `raced`
(inodes whose last two `iput`s overlapped). `nlink` is an integer: after a removal of the first
kind it can go below 0 (section 5).

### 2.9 Paging

`m` is the record of the process: table of pages, list of those in memory (the
sequence of their slots), counters, swap file, page table entries. The functions of
`vm.c` are operators on that record, folded over the pages of a system call. `image` is
the number of pages of its program, any of `Images`. `Exec` loads the new image over the table
of the old one: `AddNewPage` has the branch for a page that has an entry (`vm.c:378-386`), and
`LinkLast` what linking a page does that is on the list already, which loses those behind
it. `headPrev` says that the head has a `prev`, so that `updateListPointers` leaves it the head
(`vm.c:623`). `HeadPresent` is whether the page that has to leave is in the page table that
`MemoryToSwapFile` walks, the old one; `CopyArguments` is the copying of path and
arguments from the old image. Where the code can go no further, `stopped` says why:
"overrun" for the entry past the table's end, written when there is no free one, and "fault" for a
page that the kernel needs and that is not there. `want` is history: what the program stored.
`SbrkShrink` stops at the image: its last page is the stack, without which the program
cannot even return from `sbrk`.

## 3. Runs

| Run | Instance | Shows |
|---|---|---|
| `vip_channel` | 3 + 3 walkers, who come back any number of times | `ChannelInv` (exact counters, accounted locks, one negotiator, one direction), `LeftPriority`, refinement of `OneWayWalkway`; when arrivals cease the channel empties and all four mutexes are free; the owner of `mtx_db` crosses whatever keeps arriving |
| `airport` | 3 passengers (the third a VIP), 2 kiosks, 1 belt with 1 place | `OnePlace`, `TokensMatch`, `ChannelKnowsWalkers`, `NoTwin`; the threads use the channel as `VipChannel` describes it; everybody boards if finitely many boarding passes are lost; no deadlock |
| `proc_one_cpu` | 3 slots, 1 CPU, `MaxPid` 3, up to 2 tickets each, all calls | `PidsUnique`, `WaitersHaveReason`, `ZombieWaits`; with one CPU the three counts of the scheduler agree well enough: no division by zero, a winner in every drawing (`DrawingHasWinner`) |
| `proc_two_cpus` | 4 slots, 2 CPUs, `MaxPid` 4, fork/exit/wait | `OnOneCpu`, `EmbryoOwned`, `ParentAlive`, `WaitersHaveReason` under true parallelism |
| `kernel_locks` | 2 CPUs, 2 processes | `LocksInv`: no check of `spinlock.c` or `sched` fails, interrupts are off under every lock and on again where they were; `NoOtherDeadlock`: two CPUs wait for each other only through the scheduler's `tickslock` |
| `pipe` | 2 readers, 1 writer, `PIPESIZE` 2, counters modulo 4 | `SleepersHaveReason`; refinement of `ByteQueue` (order, nothing lost or doubled, end of file only when the writers are gone); `HangUpEndsCalls` |
| `buffer_cache` | 3 processes, 3 blocks, 2 buffers | `CacheInv`: one buffer for a block, one holder for a buffer, exact counts, every sleeper waits for somebody; refinement of `BlockStore` |
| `log_atomic` | 2 processes, 2 blocks, 2 contents, operations of up to 2 blocks | refinement of `AtomicDisk`; `SpaceReserved`, `CommitsAlone`, `PinnedWhileDirty`; sleepers wake, recoveries end |
| `files` | 2 processes, 2 names, 3 inodes, 3 blocks, 1 open file; open, creat, mkdir, link, unlink and chdir over paths of up to two elements | `FilesInv`: references, links, blocks and locks exact, the unused freed, the used not; `OnlyIputDeadlocks` |
| `paging` | 2 pages in memory, 4 in the table, programs of 1, 2 and 5 pages that grow to up to 6 | `PagingInv`: between calls table, list, counters and page table agree; the table is overrun only when all its entries stand for pages, and exec misses a page only when pages are in the file; `UnshrunkKeepsContents` |

And two runs in which TLC finds the program at odds with its assignment (`findings`
in PROJECT.json quotes both sides):

| Run | What it shows |
|---|---|
| `lottery_doc` | `if(win_ticket > cnt) continue;` with tickets counted from 0: the first slot wins with one ticket too many, and a process with one ticket in the last slot never wins. |
| `paging_doc` | A page that leaves memory is written at `PGSIZE * num_pages_in_file`. After `sbrk` has given back a page from the middle of the file, that is the place of another one, which comes back with the wrong contents. |

### Bounds, and why they are enough

* *Channel*: each direction needs a first, a last and a middle walker, hence three;
  the roles return in any order because walkers come back without limit.
* *Airport*: three passengers are the least that fill two kiosks and leave one in
  line; one place on the belt makes `beltEmpty` block; losing the pass is unbounded
  (a passenger may walk back any number of times).
* *ProcTable*: `MaxPid` bounds the calls of `fork` (a pid of a failed fork counts).
  Three slots give a grandparent, a parent and a child. Waking init for inherited
  zombies takes a chain of four, and with one CPU and one ticket each the lottery
  always runs the first RUNNABLE slot (see `lottery_doc`), so the run with four
  slots has two CPUs; they are interchangeable, and symmetry is used in this run
  only, which checks no liveness. That run bounds `Calls` to the family: kill,
  sleep and settickets are in the other one.
* *KernelLocks*: a deadlock, an inversion and a thread that changes its CPU need two
  CPUs; the second process is the one that the lock's owner wakes or runs instead.
  Two locks stand for two classes of them, since no code holds two of one class.
  Nothing else is bounded; `ncli` stays below 4 (`TypeOK`).
* *Pipe*: two readers compete for a byte and for a wakeup; a string of three bytes is
  longer than the pipe, so that the writer sleeps with a part written. `Wrap` is a
  multiple of `PIPESIZE` larger than it, as 2^32 is of 512, and is passed many times.
  Two bytes tell one position from another.
* *BufferCache*: three blocks for two buffers force recycling and, with three
  processes, the panic of `bget`; three processes put two requests behind the one
  that the disk works on. Processes, blocks and values are symmetric.
* *Log*: two blocks and two contents tell a mixed state from a complete one; two
  processes make a transaction shared and let one sleep for space. `Size = 3`
  blocks on the disk is one less than the layout of mkfs would give
  (`nlog = LOGSIZE`, header included), so that the test in `log_write` against
  `log.size - 1` is met with only two blocks: the panic, and the crash and recovery
  after it, are part of the run. Crashes are unbounded.
* *Files*: three inodes are a root, a directory and a file or a directory inside it,
  and run out (`ialloc` panics); two names let a name be tried that is already there.
  One open file fills the table while another process opens one. `TreeCalls` of `MCFiles`
  lists the calls. Each process makes any number of calls; nothing else is bounded.
* *Paging*: two pages in memory are the least with a first and a last one in the
  list, two more places in the table the least with a middle of the file to free. Six pages go
  past the table of four (`overrun`). Programs of one, two and five pages are below and above
  these limits, and an exec leads from each to each: it takes over entries of the heap, the head of
  the list and the last one, or more than the table has, and the run reaches the head that stays,
  the page that the old page table has not and arguments that are in the file.
  `paging_doc` needs no more than programs of one page.

`CHECK_DEADLOCK FALSE` is set where the code can stop: when all have closed the pipe, in
a panic (`bget`, `ialloc`, `copyuvm`), after the overrun of the table of pages or the fault in
exec, and in the deadlocks of `KernelLocks` and `Files` that their properties are about.

### Fairness, and why the code justifies it

* *Channel and Airport*: weak fairness per thread: a thread that is not blocked
  runs on in the end. A mutex or a semaphore is promised to nobody (no strong
  fairness), as glibc makes no such promise. Arrivals, and the loss of boarding
  passes, have none: `QuietChannelEmpties` and `EverybodyBoards` state what follows
  when they cease.
* *Pipe*: weak fairness for a process inside a call, which runs as soon as it is not
  asleep, and for the exit of a killed process, which `trap()` sees to at its next
  interrupt. Calls, `kill` and `close` have none.
* *Log*: weak fairness for the commit and the recovery, which are one thread's
  loop, and for each process inside `begin_op`, `log_write` and `end_op`. `EndOp` has
  strong fairness: an operation writes finitely often, although the model lets it
  write again and again. `Modify`, `Recycle` and `Crash` have none, and `Commit` of
  `AtomicDisk` has none either: operations that overlap for ever never let the log
  commit, and the code promises nothing else.
* *ProcTable* states safety only. A lottery gives no guarantee to a process short of
  probability, and with the comparison of line 416 not even that. *KernelLocks*,
  *BufferCache*, *Files* and *Paging* state safety only as well: spin locks and
  `acquiresleep` let a waiter be overtaken for ever, and the others are about what
  state is reached. That no sleeper is forgotten is an invariant in each of them.

## 4. Proofs

TLAPS proves the following for every value of the constants, with no assumption
but the named ones on the constants, each of which a run evaluates, and one CPU for
`DrawingHasWinner`. The properties
named in the runs above are model-checked too; the strengthenings that make them inductive
live in the proof modules.

| Module | Invariants and action properties proved | Refinement proved |
|---|---|---|
| `VipChannelProofs` | `TypeOK`, `ChannelInv`, `OneDirection`, `LeftPriority` | `OneWayWalkway` |
| `AirportProofs` | `TypeOK`, `OnePlace`, `TokensMatch`, `ChannelKnowsWalkers`, `NoTwin` | the safety part of `VipChannel` (`UsesChannel`) |
| `ProcessProofs` | of `ProcTable`: `TypeOK`, `OnOneCpu`, `EmbryoOwned`, `PidsUnique`, `ParentAlive`, `WaitersHaveReason`, `ZombieWaits`, and `DrawingHasWinner` on one CPU; of `Paging`: `PagingInv`, `UnshrunkKeepsContents` | |
| `KernelLocksProofs` | `LocksInv`, `NoOtherDeadlock` | |
| `PipeProofs` | `SleepersHaveReason` | `ByteQueue` |
| `BufferCacheProofs` | `CacheInv` | `BlockStore` |
| `LogProofs` | `TypeOK`, `SpaceReserved`, `CommitsAlone`, `PinnedWhileDirty` | `AtomicDisk` |
| `FilesProofs` | `FilesInv`, `OnlyIputDeadlocks` | |

The refinements are of safety: `Init` maps to `Init`, and every step to a step or a
stutter, from the inductive invariant of the detailed module.

### 4.1 VipChannelProofs

Assumes `ThreadsFinite`: the sets of walkers are finite.
`TypeCorrect`; `ChannelCorrect`: `ChannelInv` is inductive. The argument: the counters
are cardinalities of sets of threads, so that "I am the first" and "I am the last"
mean what they say (`CountersTell`); a mutex is locked exactly while some thread
is between the lock and the unlock; from these the exclusion of the two
directions follows (`LeftKeepsExclusion`, `RightKeepsExclusion`). `OneDirectionAlways`,
`LeftHasPriority` and `ImplementsWalkway` are consequences.

### 4.2 AirportProofs

Assumes `AirportAssumption`: positive numbers of passengers, kiosks, belts and places.
`AirportInv` says of each passenger that he has one home (a thread, a queue, a loop or
the plane: `OneHome`), at most one thread walking in each direction (`OneWalker`), and
no thread left behind that is about the place where he is now (`OneErrand`); of the
queues that they hold nobody twice (`QueuesMatch`); and of each pair of a queue and its
semaphores that they agree up to the posts and pops under way, as cardinalities of sets
of threads (`HallCounts`, `BeltCounts`).

The channel is proved about once. `AirportProofs` takes the lemmas of `VipChannelProofs` by
INSTANCE: `ChannelStep` shows that a step of the airport is a step of the channel or leaves
it alone, and then `ChannelInv` of the channel's own proof holds in the airport.
`OneErrand` is what `NoTwin` needs: that a passenger was handed on before his thread left the
channel does no harm, because nobody can send him back in before it has.

### 4.3 ProcessProofs: the process table

Assumes `ProcAssumption`: at least one slot, at least one ticket; any set of CPUs.
`TypeCorrect`; `TableCorrect`: the invariant `TableInv` is inductive. Its parts and why
they are there:

| Part | Needed because |
|---|---|
| `OnOneCpu` | a process gives up the CPU it runs on, and only that one |
| `EmbryoOwned` | otherwise another step could make an EMBRYO run while it is being filled, or two forks could fill one slot |
| `PidsUnique` | with `pid < nextpid`, so that a new pid is new, also against the pids that failed forks leave behind |
| `ForkStages` | how far a `fork()` is says whether the child's parent pointer is set |
| `ParentAlive` | needs `ForkStages` for children under construction: a parent that exits passes on all and only its children |
| `Rooted` | init is alive and has no parent, and nobody is its own parent, so that there is a living process to pass them to |
| `SleepsOnItself` | who sleeps in `wait` sleeps on its own address, which is the channel `exit` wakes |
| `WaitersHaveReason` | no lost wakeup; needs the two above: a child that becomes a zombie wakes exactly its parent, or init as heir |

Two lemmas carry the case analysis. `StepStates` says how a step may change the
state of a slot (its life cycle), `StepFields` which other fields it may touch;
most steps of most parts follow from them without opening the actions again.

`EveryDrawingWins` is about the machine of the Makefile, which starts qemu with `CPUS := 1`:
`OneProcessor` is a hypothesis of the theorem, and with two CPUs the claim is false
(section 5). `LotteryInv` says that the CPU between the counts has seen a sum that is not 0
and has drawn less than the sum is now. Only an interrupt steps in between, and it makes
processes runnable and none unrunnable (`OneCpuKernel`), so sums only grow
(`FoldGrows`). The sums are folds. Their value is not assumed: that the recursive function of
the fold exists is shown for the subsets of at most n elements, for each n, by the least n
where it does not (`FoldExists`); that the order does not matter, by a smallest set where
it does (`FoldAdds`). These are inductions without an operator as parameter: the set of
counterexamples is an ordinary set, and the natural numbers are well founded (`WFMin`).

### 4.4 KernelLocksProofs

Assumes `CpuAssumption`: the boot CPU is one of the CPUs, and CPUs, processes and
`Nobody` are told apart. Any number of CPUs and processes.

Neither `LocksInv` nor `NoOtherDeadlock` says anything of what a thread has still to do, and
both depend on it: that a `release` comes is in the code ahead. The invariant is therefore
that of a type system. A context (`Ctx`) is the set of locks held, whether the code is
in an interrupt handler, the state of the process and `c->proc`; `Step` says in which
contexts an operation is allowed, and which context it leads to; `Leads(s, a, b)`, that
the sequence `s` leads from `a` to `b`. `KernelInv` says that on every CPU what is ahead of the
thread leads from the context which the variables of that CPU have (`Fits`) to its end,
user code or the top of the loop in `scheduler()`; and likewise for the threads that are
switched away, `scheduler()` under a process and a process on no CPU, from the context in which
`swtch` will return to them. The lemmas come in two kinds: each piece of code is well
typed (`SyscallLeads`, `HandlersLead`, `RunLeads`, ...), and each operation does to the
variables what `Step` says (`SpinKeeps`, `ReleaseKeeps`, `SchedKeeps`, ...).

One point is subtle: `scheduler()` does not know `intena`. When a process comes back to it
the CPU's `intena` is what that process, perhaps from a handler, has left. Contexts have a
flag for it (`known`), and the proof shows that nobody acts on it while it is not known: the
next thing `scheduler()` does with its last lock gone is `sti`. `Ordered` is the order of the
locks; the one exception in it, `tickslock` under `ptable.lock` in `scheduler()`, is the
deadlock that `NoOtherDeadlock` leaves.

### 4.5 PipeProofs

Assumes `PipeAssumption`: readers and writers are different processes, strings are not
empty, and `Wrap` is a multiple of `PIPESIZE` greater than it, as 2^32 is of 512.
`PipeInv` adds to `SleepersHaveReason` that `ret` says who is in a call (`CallsMatch`) and
that who closes an end is its last owner (`EndsMatch`). The first half is arithmetic modulo
`Wrap`: `Count` is what `nwrite - nread` is, whichever of them has wrapped (`CountSplits`,
`CountGoes`), and positions that differ by less than `PIPESIZE` are different places of the
buffer, also across a wrap (`WrapSamePlace`). `ImplementsByteQueue` then reads the queue out
of the buffer (`QueueIs`): a write of any length appends the bytes it stored, a read takes
the first ones, and every other step is a stutter or the end of a side.

### 4.6 BufferCacheProofs

Assumes `BufferAssumption`: at least one buffer. `BufferInv` is `CacheInv` with `UsersMatch`
(`refcnt` counts the processes between `bget` and the end of `brelse`, and who holds a sleep lock
is one of those) and `FlagsMatch` (a valid, clean buffer has the contents of its block). The
list of buffers stays a permutation under `MoveToFront`; the position from which `bget` recycles
is unused, unlocked and in no queue (`UnusedIsFree`), and the head of `idequeue` is what
the disk works on. In `ImplementsBlockStore` the steps of `bget`, `brelse` and `iderw` are stutters;
`AcquireSleep` takes a block and `ReleaseSleep` gives it back, `LogWrite` and `Bwrite`
write, and `Ideintr` of a dirty buffer is the abstract `Sync`.

### 4.7 LogProofs

Assumes `LogAssumption`: an operation's share is positive and at most `LOGSIZE`, and the log
on the disk is no longer than the header has places. `LogInv` has the four checked
invariants and:

| Part | Needed because |
|---|---|
| `HeaderOK` | a header names no block twice and fits: the order of installation does not matter, and its length is a number of blocks |
| `CallsMatch` | what an operation wrote is counted: with `SpaceReserved` a block that is not in the log yet finds room there |
| `DownMatches` | after a crash nothing of memory counts, until the header has been read |
| `PhasesMatch` | how far commit and recovery are: which header is on the disk, which log blocks are written, which blocks are installed |

`ImplementsAtomicDisk` maps each step, crashes and the steps of a recovery that crashes
again included: the state that recovery restores (`Recovered`) changes only in `WriteHead`,
the commit point.

### 4.8 FilesProofs

Assumes `FilesAssumption`: at least one inode and one block, finitely many processes and
names, and calls whose paths `skipelem` can take apart. The set of calls is any.

`IInv` is the invariant, whatever has been removed before:

| Part | Needed because |
|---|---|
| `Shape` | at each stage of a call, which of its pointers are set, and in which call the process is |
| `Valid` | what was seen under a lock stays true while the inode is in hand: a parent is a directory that is not being freed, the target of `link` is none, a name to be erased is still there |
| `FilesOpen`, `Refs` | `ip->ref` counts the pointers; an open file has an inode and one owner |
| `Locks` | the holder of a lock is who the code in between says (`Owner`) |
| `Copied` | a lock is held on a valid copy, and only a directory has entries |
| `Acyclic` | every set of inodes has a member without a name, present or about to be entered, for another of the set |
| `BlocksOwned` | `balloc` takes a block that nobody has, `itrunc` gives one back that nobody else has |
| `ToBeFreed` | an inode without links has a reference whose `iput` has its test still ahead, unless it raced: from it `UnusedAreFree` follows |

Steps come in three kinds, with a lemma each that does the parts in common: those that write
no inode and no entry (`QuietKeeps`), those that do (`LoudKeeps`), and `iput`
(`IputStays`). A new entry keeps directories acyclic because its target is not one
(`LinkEnterStep`) or is new and empty (`CreateNewStep`).

`FilesDeadlock`: who holds one inode and waits outside `iput` for another waits for an entry
of the directory it holds (`WaitsBelow`). A deadlock without `iput` would be a cycle of
directories. `.` and `..` make no exception, because the walk gives up each lock before it
takes the next; `dirlink` and `iunlockput` under another lock wait in `iput`, which
the property names.

`TreeInv` is what holds on top of it until a directory in use is removed:

| Part | Needed because |
|---|---|
| `LinksMatch` | it is the claim; in the proof its cardinalities have names (`Counts`), and each step moves one name, one subdirectory or one call under way (`NameMoves`, `PendMoves`) |
| `Zero` | a free inode, or one that `iput` is freeing, has no links, so by `LinksMatch` no name (`ReachedKept`) |
| `Rooted`, `Dots` | a walk through `.` or `..` of a directory with a name comes to one with a name |
| `Loose` | a directory without a name is empty, and new, locked for its removal, or used by nobody: the walk finds nothing in it, and `UnlinkCount` leaves none behind in somebody's hand but by setting `strays` |
| `Fresh` | nobody else has the inode that `create` fills, and its name has not been taken in between |
| `InUse` | what `namex` and a call have in hand is not free and not being freed |

`StepTree` shows it kept by each action that leaves `strays` unset, from `IInv` and the fact
that a process changes its own pointers only (`OnlyMine`). `FilesCorrect` adds that of the
panics of `Fatal` two are left: `ilock` finds a type (`UsesKept`), a new directory has no
dots (`Fresh`), and an inode found by its name under the lock has a link (`OnlyFull`).

### 4.9 ProcessProofs: the pages

Assumes `PagingAssumption`: at least two pages in memory, a larger table, programs of at least
one page that fit the address space. `PagingCorrect`: `PageTableInv` is inductive. Its parts:

| Part | Needed because |
|---|---|
| `ListInv`, `CountInv` | the list is what `updateListPointers` takes one page from, and the count decides whether a page has to leave |
| `FileInv` | `num_pages_in_file` counts; and while it is not 0 some page is in memory: `FileToMemory` appends to a list that may not be empty, and a list that is would give slot 0 away twice |
| `EntryInv` | no two entries have the same page, so that the first one found is the right one (`TheEntry`) |
| `PteInv` | a page that is not present has its entry, so that a fault finds it |
| `Contents` | offsets in use differ and are below `num_pages_in_file`: a page that leaves overwrites none. Until `sbrk` gives pages back; after that it is false (`paging_doc`) |

In the middle of sbrk the process matches neither its old size nor its new one. So `PageInv` has a
parameter, the set D of pages that are mapped: `allocuvm` adds a page to it with each round
(`GrowKeeps`), `deallocuvm` takes one away (`ShrinkKeeps`), and between calls D is what lies below
`sz`. A loop of the code is a fold; `GrowLoop`, `LoadLoop` and `ShrinkLoop` turn it into the sequence
of its rounds (`RoundsExist`, as `FoldExists` above), and `GrowLoopKeeps` and its like go through the
rounds by the first that breaks the invariant. `FullTable`: an entry past the table is written only
if none is free, and then every entry stands for a page of its own.

In the loop of exec `PageInv` does not hold, and is not claimed: a page of the new image takes over
the entry of the heap page with its address, is linked a second time and counted a second time. What
does hold is `Loading` and `Listed` (`LoadKeeps`): entries still stand for different pages, the list
has nothing twice and nothing free, and, as long as no page has been written to the file, no page
of the old image is missing and the page at the head can be written. The count reaches
`MAX_PSYC_PAGES` only with a second page on the list or a head that stays (`Listed`), so the list
never gets empty, which would give slot 0 away twice. From this follows that an exec that stops has
overrun a full table, or has pages in the file (`ExecKeeps`). One that does not stop has reset the
table (`FreshInv`). From these `PagesMatchTable` and `ContentsKeptUntilSbrk` follow.

### 4.10 Model-checked only

The liveness properties: `QuietChannelEmpties`, `OwnerCrosses`, `EverybodyBoards`, `SleeperWakes`,
`RecoveryEnds` and `HangUpEndsCalls`. Liveness under fairness and ENABLED are outside what this
prover supports. Every invariant, action property and refinement that a passing run checks is
proved. No module here that has a theorem, or that one extends, declares a RECURSIVE operator.

## 5. Seen in the code, without a run

Airport (`1705043_IPC.cpp`):

* A thread that waits on the left competes for `mtx_db` and does not own it yet
  (line 316): a passenger may still enter on the right. The priority that the code
  does give is `LeftPriority`.
* `mp` is read and written without a lock (line 272): a lookup during an insertion may
  miss a VIP, who is then sent through security.
* A kiosk's number returns to its queue (line 280) before `sem_post` frees the kiosk and
  before the passenger is announced: two may be announced at one kiosk.

Processes and scheduler:

* `kill(0)`, or the pid that a failed `fork` left in its slot, marks a free slot
  (`proc.c:576` does not look at the state), and the next process there is born killed.
* With two CPUs the tickets may be gone at the second `gettotalTickets()`
  (`proc.c:407`), and `rand()%0` follows; `DrawingHasWinner` holds for one CPU.
* `getpinfo` copies `p->inuse` (`proc.c:640`), which is 1 once a process has run, while
  `pstat.h:11` says "whether this slot of the process table is in use".
* `scheduler()` acquires `tickslock` while it holds `ptable.lock` (`proc.c:425`); the
  timer interrupt and `sys_sleep` acquire them in the other order. With two CPUs
  that deadlocks; `NoOtherDeadlock` says that nothing else of this kind does.
* `sys_sleep` tests `killed` without `ptable.lock` (`sysproc.c:74`): a kill between the
  test and `sleep` is noticed one tick later. `ProcTable` has the interleaving.

Pipes and disk:

* A writer that is killed with the pipe full returns without the wakeup at the end of
  `pipewrite` (`pipe.c:86-88`); readers that slept while it filled the pipe sleep on. `GaveUp` is
  this exception in `SleepersHaveReason`.
* A write to a pipe without readers succeeds as long as there is room: `readopen` is
  tested only when the pipe is full.
* `ideintr` ignores a failing read (`ide.c:118`): the buffer becomes valid with old data.
* `mkfs.c:25` makes the log, header included, `LOGSIZE` blocks long; `param.h:11` calls
  `LOGSIZE` the "max data blocks in on-disk log", and `begin_op` reserves by it. Three
  operations of `MAXOPBLOCKS` different blocks each would meet the panic at
  `log.c:218` with one block left to write.
* The group commit may be put off for ever by overlapping operations (`log.c:154`).

Files:

* `create` and `unlink` put the parent with the new or erased inode still locked
  (`sysfile.c:280`, `225`). Every `iput` takes the lock of its inode (`fs.c:334`), whether
  or not it will be freed. So it waits for another `unlink` that has the parent locked meanwhile,
  and if that one waits for the very inode (`sysfile.c:209`), they wait for each other: a cycle in
  five steps. `usertests.c:855` calls its test "another concurrent
  link/unlink/create test, to look for deadlocks"; `OnlyIputDeadlocks` says that every
  deadlock is of this kind.
* `dirlink` puts the inode of a name that is already there with the directory locked
  (`fs.c:560`): `link` onto the name `.` waits for itself.
* Two `iput`s that overlap may each see the other's reference; then neither frees the
  inode (`raced` in `UnusedAreFree`), against the comment at `fs.c:119`.
* A directory that is some process's current one may be removed; what is made in it
  afterwards is lost, its `..` dangles, and `ilock: no type` may follow (`strays`). A link made
  through such a `..` names an inode that is free or new, and `nlink` can fall to -1; the
  proofs found this, where `nlink` had been given the type of a natural number. In that corner
  the model is coarser in one thing: a directory that is entered before it has its dots
  takes its block with the dots, and not with its first entry.
* `balloc`, `ialloc` and `iget` panic when the disk or the inode cache is full.

Paging (`my-xv6/`):

* At the limit `allocuvm` says so and adds the page all the same (`vm.c:255`); the entry
  after the table is the head of the list (`vm.c:391`). `OverrunOnlyWhenFull` says
  that only a full table leads there; exec meets it too, because it loads the new image with
  the table of the old.
* That exec may stop the kernel (`exec.c:52`, `66`). Its pages take over the entries of heap pages
  with the same addresses, which are on the list: each is linked again as the last one and loses
  what followed it (`vm.c:401`, `347`), and each is counted again. When the count reaches
  `MAX_PSYC_PAGES` the head has to leave. It is looked up in the page table of the old image
  (`vm.c:504`): a page of the new image beyond the old one is not there, and the kernel faults where
  `trap.c:112` says "In kernel, it must be our mistake." and panics. A head that was linked again
  stays the head after it has left (`vm.c:623`), is chosen again, and is not present; then
  `SwapPages` brings it back in the middle of `writeToSwapFile` and waits for the lock of the
  swap file's inode, which its own process holds. With the constants of `proc.h` the second happens to
  every child of sh, whose image is below seven pages, that execs a program of nine or more:
  `malloc` has put eight pages into its table (`umalloc.c:52`), seven of the new image fill the
  memory and link the head again, the eighth sends the head to the file, and the ninth chooses
  it again. Arguments whose page has lost its entry are a third way. In `Paging` all this is
  `stopped = "fault"`, which the run `paging` reaches; `FaultOnlyWhenSwapping` says that it
  takes pages in the file. When the exec comes through, the table is
  reset and all agrees again.
* `copyuvm` panics over a page that is in the file (`vm.c:701`), so that a process that
  has swapped cannot fork; the branch for it after the panic is dead (`vm.c:714`).
* `exec` resets `swapFile` right after it has made a new one (`exec.c:102-107`): the file
  stays open for good, and the next one is made over it.
* The pages of the image are in no table, so that more than `MAX_PSYC_PAGES` may be in
  memory; a failed exec leaves entries of pages that do not exist.
* `CopyContentsOfCurrentProcStructs` has a page-sized buffer on the kernel stack of one
  page (`proc.c:652`); `FileToMemory` panics when memory has run out (`vm.c:456`).

## 6. Not modelled, and why

* *Data*: what files hold, offsets, `stat` and `dup`; ELF loading; argument fetching
  (`syscall.c`); formatting and printing, page tables included. No property here tells
  one content from another beyond what `Log`, `BufferCache` and `Paging` use.
* *Under one lock, one step*: `kalloc`'s free list, `filedup`, the counts behind `getpinfo`.
* *Paging*: an exec that fails half way and goes on with the entries it left; path and
  arguments of exec that lie in more than one page; a swap file that reaches `MAXFILE` (140
  blocks, 17 pages), after which a page cannot leave.
* *Simplified*: `Files` walks paths of one element or more, and neither "/" nor the empty
  path, for which `namex` returns its start. `KernelLocks` has no tickets: `Pick` takes any
  RUNNABLE process or none, and a round counts the tickets once where the code does it twice in
  a row, under the same lock. The counting and the drawing are in `ProcTable` (`SchedTotal`,
  `SchedDraw`, `SchedRun`).
* *Compositions not yet made*: exec, exit and fork of descriptors; the console's line buffer.
* *Hardware*: boot, `lapic`, `ioapic`, `mp`, `uart`, the interrupt vectors, `memide.c`.
* *User space*: the shell, `umalloc`, utilities and `usertests`, which are single-threaded
  clients of the system calls; the shell scripts of Offline-01 and their data.
* *Copies*: `Xv6/` is the same kernel with a round-robin scheduler and toy system calls, and
  `my-xv6/` has the same `log.c`, `bio.c`, `pipe.c`, `file.c` and locks as `xv6-public/`. A
  module is mapped to one copy only. The patches repeat the trees they apply to.

Three copies of one kernel, three of its user programs and of `usertests.c`, and its
device code make most of the lines of the repository. The lines `map` names are those of
the concurrent and stateful code, once.

## 7. Plan

1. The console's line buffer with its three indices and the sleeping reader.
2. Descriptors under fork, exit and exec over `Files`; a failing exec in `Paging`.
