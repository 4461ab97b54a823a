----------------------------- MODULE ProcTable -----------------------------
(***************************************************************************)
(* The process table of the xv6 with a lottery scheduler: proc.c, and the  *)
(* parts of trap.c and sysproc.c that call it.                             *)
(*                                                                         *)
(* What happens between acquire(&ptable.lock) and its release is one step, *)
(* with one exception: scheduler() acquires the lock and the process it    *)
(* switches to releases it, so "ptlock" names the process that runs with   *)
(* the scheduler's lock.  A process may lose its CPU to a timer interrupt  *)
(* between any two of its steps, also in the middle of fork().             *)
(*                                                                         *)
(* Process 1 is initproc.  Slot p of ptable.proc is process p; the loops   *)
(* over the table go through it in the order of the slots.                 *)
(***************************************************************************)
EXTENDS Integers, FiniteSetsExt

CONSTANTS NPROC,       \* slots of the table
          CPU,         \* the processors
          MaxPid,      \* bound: no call of fork when nextpid has passed it
          MaxTickets,  \* bound: the largest argument of settickets
          Calls        \* bound: the system calls that processes make

ASSUME ProcAssumption ==
  /\ NPROC \in Nat \ {0}
  /\ MaxPid \in Nat
  /\ MaxTickets \in Nat \ {0}
  /\ Calls \subseteq {"fork", "wait", "kill", "settickets", "sleep", "exit"}

Proc == 1 .. NPROC
init == 1
None == 0                          \* no process, no channel
Ticks == NPROC + 1                 \* the channel &ticks
Chan == Proc \cup {None, Ticks}    \* in wait(), a process sleeps on itself
Ticket == 0 .. NPROC * MaxTickets  \* what a drawing may yield

VARIABLES
  state, pid, parent, killed, chan, tickets,  \* struct proc
  nextpid,
  pc,       \* what a process does when it runs next
  child,    \* np, the slot a process is filling in fork()
  proc,     \* c->proc, the process a CPU runs
  spc, win, \* where scheduler() is on a CPU, and the ticket it has drawn
  ptlock,   \* the process that runs with ptable.lock held for it
  panicked  \* why the kernel has stopped

slots == <<state, pid, parent, killed, chan, tickets, nextpid>>
cpus == <<proc, spc, win>>
vars == <<slots, pc, child, cpus, ptlock, panicked>>

Init ==
  /\ state = [p \in Proc |-> IF p = init THEN "RUNNABLE" ELSE "UNUSED"]
  /\ pid = [p \in Proc |-> IF p = init THEN 1 ELSE 0]
  /\ parent = [p \in Proc |-> None]
  /\ killed = [p \in Proc |-> FALSE]
  /\ chan = [p \in Proc |-> None]
  /\ tickets = [p \in Proc |-> IF p = init THEN 1 ELSE 0]
  /\ nextpid = 2
  /\ pc = [p \in Proc |-> "user"]
  /\ child = [p \in Proc |-> None]
  /\ proc = [c \in CPU |-> None]
  /\ spc = [c \in CPU |-> "loop"]
  /\ win = [c \in CPU |-> 0]
  /\ ptlock = None
  /\ panicked = "no"

-----------------------------------------------------------------------------
(* The lottery. *)

Runnable == {p \in Proc : state[p] = "RUNNABLE"}

\* mutant: gettotalTickets counts every slot that is not free
TotalOfAll ==
  MapThenSumSet(LAMBDA p : tickets[p], {p \in Proc : state[p] # "UNUSED"})

\* gettotalTickets
Total == MapThenSumSet(LAMBDA p : tickets[p], Runnable)

\* cnt when the loop of scheduler() looks at p
CountTo(p) == MapThenSumSet(LAMBDA q : tickets[q], {q \in Runnable : q <= p})

\* Those at which  if(win_ticket > cnt) continue;  does not continue.
Reached(w) == {p \in Runnable : w <= CountTo(p)}

\* The first call of gettotalTickets.
SchedTotal(c) ==
  /\ proc[c] = None /\ spc[c] = "loop"
  /\ ptlock = None
  /\ Total # 0
  /\ spc' = [spc EXCEPT ![c] = "draw"]
  /\ UNCHANGED <<slots, pc, child, proc, win, ptlock, panicked>>

\* rand() % gettotalTickets(): a second call, a second time under the lock.
SchedDraw(c) ==
  /\ spc[c] = "draw"
  /\ ptlock = None
  /\ \/ /\ Total = 0
        /\ panicked' = "division by zero"
        /\ UNCHANGED <<spc, win>>
     \/ /\ \E w \in Ticket : w < Total /\ win' = [win EXCEPT ![c] = w]
        /\ spc' = [spc EXCEPT ![c] = "run"]
        /\ UNCHANGED panicked
  /\ UNCHANGED <<slots, pc, child, proc, ptlock>>

\* Switch to the winner, who goes on with ptable.lock held, or to nobody.
SchedRun(c) ==
  /\ spc[c] = "run"
  /\ ptlock = None
  /\ spc' = [spc EXCEPT ![c] = "loop"]
  /\ win' = [win EXCEPT ![c] = 0]
  /\ \/ /\ Reached(win[c]) = {}
        /\ UNCHANGED <<state, chan, proc, ptlock>>
     \/ \E p \in Reached(win[c]) :
          /\ \A q \in Reached(win[c]) : p <= q
          /\ proc' = [proc EXCEPT ![c] = p]
          /\ state' = [state EXCEPT ![p] = "RUNNING"]
          /\ chan' = [chan EXCEPT ![p] = None]  \* the end of its sleep()
          /\ ptlock' = p
  /\ UNCHANGED <<pid, parent, killed, tickets, nextpid, pc, child, panicked>>

-----------------------------------------------------------------------------
(* A process on a CPU. *)

Running(p) == state[p] = "RUNNING"

\* It may enter a critical section of ptable.lock.
Locks(p) == Running(p) /\ ptlock = None

\* It gives its CPU back to scheduler(), which releases ptable.lock.
Sched(p) ==
  /\ proc' = [c \in CPU |-> IF proc[c] = p THEN None ELSE proc[c]]
  /\ UNCHANGED <<spc, win>>

\* Those who sleep on a channel wake up; only p, who is awake, is set to s.
Wakeup1(channels, p, s) ==
  state' = [q \in Proc |->
              IF q = p THEN s
              ELSE IF state[q] = "SLEEPING" /\ chan[q] \in channels
                   THEN "RUNNABLE" ELSE state[q]]

Return(p) == pc' = [pc EXCEPT ![p] = "user"]

\* forkret, or the end of yield() or sleep(): release(&ptable.lock).
Resume(p) ==
  /\ Running(p) /\ ptlock = p
  /\ pc[p] # "waiting"
  /\ ptlock' = None
  /\ UNCHANGED <<slots, pc, child, cpus, panicked>>

\* The process that holds tickslock, with interrupts off, in sys_sleep.
HoldsTicks(p) == pc[p] = "dosleep"

\* mutant: yield() leaves c->proc as it is
YieldKeepsCpu(p) ==
  /\ Locks(p) /\ ~HoldsTicks(p)
  /\ state' = [state EXCEPT ![p] = "RUNNABLE"]
  /\ UNCHANGED <<pid, parent, killed, chan, tickets, nextpid, pc, child,
                 cpus, ptlock, panicked>>

\* yield() in a timer interrupt.
Yield(p) ==
  /\ Locks(p) /\ ~HoldsTicks(p)
  /\ state' = [state EXCEPT ![p] = "RUNNABLE"]
  /\ Sched(p)
  /\ UNCHANGED <<pid, parent, killed, chan, tickets, nextpid, pc, child,
                 ptlock, panicked>>

\* A trap from user space: a killed process exits, another enters the kernel.
Syscall(p) ==
  /\ Running(p) /\ ptlock # p /\ pc[p] = "user"
  /\ \E call \in Calls \cup {"exit"} :
       /\ killed[p] => call = "exit"
       /\ call = "fork" => nextpid <= MaxPid
       /\ pc' = [pc EXCEPT ![p] = call]
  /\ UNCHANGED <<slots, child, cpus, ptlock, panicked>>

SetTickets(p) ==
  /\ Locks(p) /\ pc[p] = "settickets"
  /\ \/ UNCHANGED tickets  \* number <= 0
     \/ \E n \in 1 .. MaxTickets : tickets' = [tickets EXCEPT ![p] = n]
  /\ Return(p)
  /\ UNCHANGED <<state, pid, parent, killed, chan, nextpid, child, cpus,
                 ptlock, panicked>>

-----------------------------------------------------------------------------
(* fork *)

\* mutant: the pid is read, and counted up only when fork() succeeds
AllocProcSamePid(p) ==
  /\ Locks(p) /\ pc[p] = "fork"
  /\ \E np \in Proc :
       /\ state[np] = "UNUSED"
       /\ \A q \in 1 .. np - 1 : state[q] # "UNUSED"
       /\ state' = [state EXCEPT ![np] = "EMBRYO"]
       /\ pid' = [pid EXCEPT ![np] = nextpid]
       /\ tickets' = [tickets EXCEPT ![np] = 1]
       /\ child' = [child EXCEPT ![p] = np]
  /\ pc' = [pc EXCEPT ![p] = "copy"]
  /\ UNCHANGED <<parent, killed, chan, nextpid, cpus, ptlock, panicked>>

\* allocproc takes the first UNUSED slot ...
AllocProc(p) ==
  /\ Locks(p) /\ pc[p] = "fork"
  /\ \E np \in Proc :
       /\ state[np] = "UNUSED"
       /\ \A q \in 1 .. np - 1 : state[q] # "UNUSED"
       /\ state' = [state EXCEPT ![np] = "EMBRYO"]
       /\ pid' = [pid EXCEPT ![np] = nextpid]
       /\ tickets' = [tickets EXCEPT ![np] = 1]
       /\ child' = [child EXCEPT ![p] = np]
  /\ nextpid' = nextpid + 1
  /\ pc' = [pc EXCEPT ![p] = "copy"]
  /\ UNCHANGED <<parent, killed, chan, cpus, ptlock, panicked>>

\* ... or finds none.
AllocProcFull(p) ==
  /\ Locks(p) /\ pc[p] = "fork"
  /\ \A q \in Proc : state[q] # "UNUSED"
  /\ Return(p)
  /\ UNCHANGED <<slots, child, cpus, ptlock, panicked>>

\* mutant: a fork() that fails leaves the slot as it is
ForkFailKeepsSlot(p) ==
  /\ Running(p) /\ ptlock # p /\ pc[p] = "copy"
  /\ child' = [child EXCEPT ![p] = None]
  /\ Return(p)
  /\ UNCHANGED <<slots, cpus, ptlock, panicked>>

\* kalloc or copyuvm runs out of memory: the slot is given up without the lock.
ForkFail(p) ==
  /\ Running(p) /\ ptlock # p /\ pc[p] = "copy"
  /\ state' = [state EXCEPT ![child[p]] = "UNUSED"]
  /\ child' = [child EXCEPT ![p] = None]
  /\ Return(p)
  /\ UNCHANGED <<pid, parent, killed, chan, tickets, nextpid, cpus,
                 ptlock, panicked>>

\* The tree is filled in without the lock ...
ForkParent(p) ==
  /\ Running(p) /\ ptlock # p /\ pc[p] = "copy"
  /\ parent' = [parent EXCEPT ![child[p]] = p]
  /\ pc' = [pc EXCEPT ![p] = "inherit"]
  /\ UNCHANGED <<state, pid, killed, chan, tickets, nextpid, child, cpus,
                 ptlock, panicked>>

\* ... settickets takes and releases it ...
ForkTickets(p) ==
  /\ Locks(p) /\ pc[p] = "inherit"
  /\ tickets' = [tickets EXCEPT ![child[p]] = tickets[p]]
  /\ pc' = [pc EXCEPT ![p] = "start"]
  /\ UNCHANGED <<state, pid, parent, killed, chan, nextpid, child, cpus,
                 ptlock, panicked>>

\* ... and the child starts with the lock taken again.
ForkDone(p) ==
  /\ Locks(p) /\ pc[p] = "start"
  /\ state' = [state EXCEPT ![child[p]] = "RUNNABLE"]
  /\ child' = [child EXCEPT ![p] = None]
  /\ pc' = [pc EXCEPT ![p] = "user", ![child[p]] = "user"]
  /\ UNCHANGED <<pid, parent, killed, chan, tickets, nextpid, cpus,
                 ptlock, panicked>>

-----------------------------------------------------------------------------
(* exit and wait *)

\* mutant: the children are not passed to init
ExitForgetsChildren(p) ==
  /\ Locks(p) /\ pc[p] = "exit" /\ p # init
  /\ Wakeup1({parent[p]}, p, "ZOMBIE")
  /\ Sched(p)
  /\ UNCHANGED <<pid, parent, killed, chan, tickets, nextpid, pc, child,
                 ptlock, panicked>>

\* mutant: init is not told of the zombies it inherits
ExitQuietly(p) ==
  /\ Locks(p) /\ pc[p] = "exit" /\ p # init
  /\ Wakeup1({parent[p]}, p, "ZOMBIE")
  /\ parent' = [q \in Proc |-> IF parent[q] = p THEN init ELSE parent[q]]
  /\ Sched(p)
  /\ UNCHANGED <<pid, killed, chan, tickets, nextpid, pc, child, ptlock,
                 panicked>>

\* exit of another process than initproc, from acquire(&ptable.lock) on.
Exit(p) ==
  /\ Locks(p) /\ pc[p] = "exit" /\ p # init
  /\ LET orphans == {q \in Proc : parent[q] = p}
         heir == IF \E q \in orphans : state[q] = "ZOMBIE" THEN {init} ELSE {}
     IN /\ Wakeup1({parent[p]} \cup heir, p, "ZOMBIE")
        /\ parent' = [q \in Proc |-> IF q \in orphans THEN init ELSE parent[q]]
  /\ Sched(p)
  /\ UNCHANGED <<pid, killed, chan, tickets, nextpid, pc, child, ptlock,
                 panicked>>

InitExits ==
  /\ Running(init) /\ ptlock # init /\ pc[init] = "exit"
  /\ panicked' = "init exiting"
  /\ UNCHANGED <<slots, pc, child, cpus, ptlock>>

\* The scan of wait() is entered with the lock free, or again after a sleep
\* with the lock that scheduler() took.
Waits(p) ==
  /\ Running(p)
  /\ \/ pc[p] = "wait" /\ ptlock = None
     \/ pc[p] = "waiting" /\ ptlock = p

Children(p) == {q \in Proc : parent[q] = p}

\* mutant: the freed slot keeps the pid of no process as -1
WaitReapMinusOne(p) ==
  /\ Waits(p)
  /\ \E q \in Children(p) :
       /\ state[q] = "ZOMBIE"
       /\ \A r \in Children(p) : r < q => state[r] # "ZOMBIE"
       /\ state' = [state EXCEPT ![q] = "UNUSED"]
       /\ pid' = [pid EXCEPT ![q] = -1]
       /\ parent' = [parent EXCEPT ![q] = None]
       /\ killed' = [killed EXCEPT ![q] = FALSE]
  /\ Return(p)
  /\ ptlock' = None
  /\ UNCHANGED <<chan, tickets, nextpid, child, cpus, panicked>>

WaitReap(p) ==
  /\ Waits(p)
  /\ \E q \in Children(p) :
       /\ state[q] = "ZOMBIE"
       /\ \A r \in Children(p) : r < q => state[r] # "ZOMBIE"
       /\ state' = [state EXCEPT ![q] = "UNUSED"]
       /\ pid' = [pid EXCEPT ![q] = 0]
       /\ parent' = [parent EXCEPT ![q] = None]
       /\ killed' = [killed EXCEPT ![q] = FALSE]
  /\ Return(p)
  /\ ptlock' = None
  /\ UNCHANGED <<chan, tickets, nextpid, child, cpus, panicked>>

NoZombieChild(p) == \A q \in Children(p) : state[q] # "ZOMBIE"

WaitFail(p) ==
  /\ Waits(p) /\ NoZombieChild(p)
  /\ Children(p) = {} \/ killed[p]
  /\ Return(p)
  /\ ptlock' = None
  /\ UNCHANGED <<slots, child, cpus, panicked>>

WaitSleep(p) ==
  /\ Waits(p) /\ NoZombieChild(p)
  /\ Children(p) # {} /\ ~killed[p]
  /\ chan' = [chan EXCEPT ![p] = p]
  /\ state' = [state EXCEPT ![p] = "SLEEPING"]
  /\ pc' = [pc EXCEPT ![p] = "waiting"]
  /\ Sched(p)
  /\ ptlock' = None
  /\ UNCHANGED <<pid, parent, killed, tickets, nextpid, child, panicked>>

-----------------------------------------------------------------------------
(* sleep, the timer and kill *)

\* sys_sleep looks at killed with tickslock, but not with ptable.lock.
SleepCheck(p) ==
  /\ Running(p) /\ ptlock # p /\ pc[p] = "sleep"
  /\ \A q \in Proc : ~HoldsTicks(q)
  /\ \/ pc' = [pc EXCEPT ![p] = "user"]  \* the time has passed, or killed
     \/ ~killed[p] /\ pc' = [pc EXCEPT ![p] = "dosleep"]
  /\ UNCHANGED <<slots, child, cpus, ptlock, panicked>>

Sleep(p) ==
  /\ Locks(p) /\ pc[p] = "dosleep"
  /\ chan' = [chan EXCEPT ![p] = Ticks]
  /\ state' = [state EXCEPT ![p] = "SLEEPING"]
  /\ pc' = [pc EXCEPT ![p] = "sleep"]
  /\ Sched(p)
  /\ UNCHANGED <<pid, parent, killed, tickets, nextpid, child, ptlock,
                 panicked>>

\* wakeup(&ticks) in the timer interrupt, which has taken tickslock
Tick ==
  /\ ptlock = None
  /\ \A q \in Proc : ~HoldsTicks(q)
  /\ Wakeup1({Ticks}, None, "none")
  /\ UNCHANGED <<pid, parent, killed, chan, tickets, nextpid, pc, child,
                 cpus, ptlock, panicked>>

\* mutant: kill() makes every process it hits RUNNABLE
KillRevives(p) ==
  /\ Locks(p) /\ pc[p] = "kill"
  /\ \E n \in 0 .. nextpid :
       LET found == {q \in Proc : pid[q] = n}
       IN \/ found = {} /\ UNCHANGED <<state, killed>>
          \/ \E q \in found :
               /\ \A r \in found : q <= r
               /\ killed' = [killed EXCEPT ![q] = TRUE]
               /\ state' = [state EXCEPT ![q] = "RUNNABLE"]
  /\ Return(p)
  /\ UNCHANGED <<pid, parent, chan, tickets, nextpid, child, cpus, ptlock,
                 panicked>>

\* mutant: kill() leaves a process asleep
KillLetsSleep(p) ==
  /\ Locks(p) /\ pc[p] = "kill"
  /\ \E n \in 0 .. nextpid :
       LET found == {q \in Proc : pid[q] = n}
       IN \/ found = {} /\ UNCHANGED killed
          \/ \E q \in found :
               /\ \A r \in found : q <= r
               /\ killed' = [killed EXCEPT ![q] = TRUE]
  /\ Return(p)
  /\ UNCHANGED <<state, pid, parent, chan, tickets, nextpid, child, cpus, ptlock,
                 panicked>>

Kill(p) ==
  /\ Locks(p) /\ pc[p] = "kill"
  /\ \E n \in 0 .. nextpid :
       LET found == {q \in Proc : pid[q] = n}
       IN \/ found = {} /\ UNCHANGED <<state, killed>>
          \/ \E q \in found :
               /\ \A r \in found : q <= r
               /\ killed' = [killed EXCEPT ![q] = TRUE]
               /\ state' = [state EXCEPT ![q] = IF @ = "SLEEPING" THEN "RUNNABLE"
                                                ELSE @]
  /\ Return(p)
  /\ UNCHANGED <<pid, parent, chan, tickets, nextpid, child, cpus, ptlock,
                 panicked>>

-----------------------------------------------------------------------------
Step(p) ==
  \/ Resume(p) \/ Yield(p) \/ Syscall(p) \/ SetTickets(p)
  \/ AllocProc(p) \/ AllocProcFull(p) \/ ForkFail(p)
  \/ ForkParent(p) \/ ForkTickets(p) \/ ForkDone(p)
  \/ Exit(p) \/ WaitReap(p) \/ WaitFail(p) \/ WaitSleep(p)
  \/ SleepCheck(p) \/ Sleep(p) \/ Kill(p)

Scheduler(c) == SchedTotal(c) \/ SchedDraw(c) \/ SchedRun(c)

Works ==
  /\ panicked = "no"
  /\ \/ \E p \in Proc : Step(p)
     \/ \E c \in CPU : Scheduler(c)
     \/ Tick \/ InitExits

Halted == panicked # "no" /\ UNCHANGED vars

Next == Works \/ Halted

Spec == Init /\ [][Next]_vars

-----------------------------------------------------------------------------
Free == {p \in Proc : state[p] = "UNUSED"}
Live == {p \in Proc : state[p] \in {"SLEEPING", "RUNNABLE", "RUNNING"}}

TypeOK ==
  /\ state \in [Proc -> {"UNUSED", "EMBRYO", "SLEEPING", "RUNNABLE", "RUNNING",
                         "ZOMBIE"}]
  /\ pid \in [Proc -> Nat] /\ nextpid \in Nat
  /\ parent \in [Proc -> Proc \cup {None}]
  /\ killed \in [Proc -> BOOLEAN]
  /\ chan \in [Proc -> Chan]
  /\ tickets \in [Proc -> 0 .. MaxTickets]
  /\ pc \in [Proc -> {"user", "fork", "copy", "inherit", "start", "wait",
                      "waiting", "kill", "settickets", "sleep", "dosleep",
                      "exit"}]
  /\ child \in [Proc -> Proc \cup {None}]
  /\ proc \in [CPU -> Proc \cup {None}]
  /\ spc \in [CPU -> {"loop", "draw", "run"}]
  /\ win \in [CPU -> Ticket]
  /\ ptlock \in Proc \cup {None}
  /\ panicked \in {"no", "division by zero", "init exiting"}

\* A process is RUNNING exactly when a CPU runs it, one CPU at most runs it, a
\* CPU that runs one is not in the middle of a drawing, and who was handed
\* ptable.lock by scheduler() is on a CPU to release it.
OnOneCpu ==
  /\ \A p \in Proc : state[p] = "RUNNING" <=> \E c \in CPU : proc[c] = p
  /\ \A c, d \in CPU : proc[c] = proc[d] /\ proc[c] # None => c = d
  /\ \A c \in CPU : proc[c] # None => spc[c] = "loop"
  /\ ptlock # None => state[ptlock] = "RUNNING"

\* No two slots have the same pid, not even one that fork() gave up with its
\* pid still in it, and no pid is one that is yet to be given out.
PidsUnique ==
  /\ \A p \in Proc : pid[p] < nextpid
  /\ \A p, q \in Proc : pid[p] = pid[q] /\ p # q => pid[p] = 0
  /\ \A p \in Proc : state[p] # "UNUSED" => pid[p] # 0

\* Every slot that is being set up belongs to one fork() in progress, of a
\* process that is alive.
EmbryoOwned ==
  /\ \A q \in Proc : state[q] = "EMBRYO" <=> \E p \in Proc : child[p] = q
  /\ \A p, q \in Proc : child[p] = child[q] /\ p # q => child[p] = None
  /\ \A p \in Proc : child[p] # None =>
       p \in Live /\ pc[p] \in {"copy", "inherit", "start"}

\* exit() leaves no orphan: the parent of every process but init, dead or alive,
\* is alive and can still wait() for it; a free slot is nobody's child.
ParentAlive ==
  /\ \A q \in Free : parent[q] = None
  /\ \A q \in Proc \ Free : parent[q] # None => parent[q] \in Live
  /\ \A q \in Proc \ {init} : q \in Live \/ state[q] = "ZOMBIE" => parent[q] # None

\* No wakeup is lost: who sleeps in wait() has a child, none of them is a
\* zombie, and the sleeper has not been killed.
WaitersHaveReason ==
  \A p \in Proc : state[p] = "SLEEPING" /\ pc[p] = "waiting" =>
    Children(p) # {} /\ NoZombieChild(p) /\ ~killed[p]

\* A zombie stays one, and keeps its pid for its parent to learn, until its
\* parent, running in wait(), frees the slot.
ZombieAction ==
  \A q \in Proc : state[q] = "ZOMBIE" =>
    \/ state'[q] = "ZOMBIE" /\ pid'[q] = pid[q]
    \/ /\ state'[q] = "UNUSED"
       /\ state[parent[q]] = "RUNNING" /\ pc[parent[q]] \in {"wait", "waiting"}

ZombieWaits == [][ZombieAction]_vars

\* scheduler() asks for the number of tickets twice: the second answer, which it
\* divides by, is not 0 either.
NoDivisionByZero == panicked # "division by zero"

\* It counts them a third time in its loop, with the lock taken anew: as long as
\* no other CPU runs those who were RUNNABLE, somebody wins every drawing.
DrawingHasWinner ==
  /\ NoDivisionByZero
  /\ \A c \in CPU : spc[c] = "run" => Reached(win[c]) # {}

-----------------------------------------------------------------------------
(* What the assignment says, and the code does not do. *)

\* The slot scheduler() switches to when it has drawn w.
IsWinner(p, w) == p \in Reached(w) /\ \A q \in Reached(w) : p <= q

\* Offline_Spec.txt: a process gets a slice of the processor based on the number
\* of tickets it has; so every process that is RUNNABLE wins with some ticket.
EverybodyMayWin ==
  \A p \in Runnable : \E w \in Ticket : w < Total /\ IsWinner(p, w)
=============================================================================
