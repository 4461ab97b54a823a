---------------------------- MODULE KernelLocks ----------------------------
(***************************************************************************)
(* Spin locks, interrupts and context switches of xv6: spinlock.c, and     *)
(* what proc.c, trap.c and sysproc.c do with them.  ProcTable and the other *)
(* kernel modules take a critical section as one step; here its locks are  *)
(* taken one by one.                                                       *)
(*                                                                         *)
(* A thread is what it has still to do, a sequence of operations; an       *)
(* interrupt puts its handler in front of what the CPU was doing.  Data is *)
(* left out: a loop or a test that depends on it goes either way.          *)
(***************************************************************************)
EXTENDS Integers, Sequences, FiniteSets

CONSTANTS Cpu, Proc, BootCpu

Nobody == "nobody"

ASSUME CpuAssumption == BootCpu \in Cpu /\ Cpu \cap Proc = {} /\ Nobody \notin Cpu \cup Proc

VARIABLES
  cur,           \* thread on each CPU: a process, or the CPU itself for scheduler()
  todo,          \* what each thread has still to do
  state, chan,   \* of each process
  proc,          \* c->proc
  on,            \* CPUs whose interrupts are on (FL_IF)
  ncli, intena,
  locked, cpu,   \* of each spin lock
  panicked

threads == <<cur, todo, state, chan, proc>>
intr == <<on, ncli, intena>>
locks == <<locked, cpu>>
vars == <<threads, intr, locks, panicked>>

\* One lock stands for all on which processes sleep (p->lock, idelock, log.lock, a
\* sleep lock's lk, cons.lock), and one for those without (kmem, bcache, ftable).
Lock == {"ptable", "ticks", "other", "leaf"}

Acquire(l) == <<"acquire", l>>
Release(l) == <<"release", l>>
Do(op) == <<op, "">>

-----------------------------------------------------------------------------
(* The code, as sequences of operations. *)

\* mutant: the lock is taken back before ptable.lock is given up
SleepReacquiresFirst(l) ==
  <<Acquire("ptable"), Release(l), <<"sleep", l>>, Do("sched"), Acquire(l), Release("ptable")>>

\* sleep(chan, lk); every lock has one channel.
SleepOn(l) ==
  <<Acquire("ptable"), Release(l), <<"sleep", l>>, Do("sched"), Release("ptable"), Acquire(l)>>

WakeupOn(l) == <<Acquire("ptable"), <<"wakeup", l>>, Release("ptable")>>

\* What a process may do in the kernel: sys_sleep, piperead and its like, a short
\* critical section, and wait(), which sleeps on ptable.lock or frees memory.
Syscall ==
  {<<Acquire("ticks"), <<"loop", "ticks">>, Release("ticks")>>,
   <<Acquire("other"), <<"loop", "other">>>> \o WakeupOn("other") \o <<Release("other")>>,
   <<Acquire("leaf"), Release("leaf")>>,
   <<Acquire("ptable"), <<"sleep", "ptable">>, Do("sched"), Acquire("leaf"), Release("leaf"),
     Release("ptable")>>}

Yield == <<Acquire("ptable"), Do("yield"), Do("sched"), Release("ptable")>>

\* The timer's handler: CPU 0 counts the tick.
Timer(c) ==
  (IF c = BootCpu THEN <<Acquire("ticks")>> \o WakeupOn("ticks") \o <<Release("ticks")>> ELSE <<>>)
  \o <<Do("preempt"), Do("iret")>>

\* ideintr, consoleintr.
Device == <<Acquire("other")>> \o WakeupOn("other") \o <<Release("other"), Do("iret")>>

\* A round of scheduler(): the tickets are counted first.  The code counts them twice, one time
\* after the other, or starts again when there are none; one time takes the same lock.
Round == <<Do("sti"), Acquire("ptable"), Release("ptable"), Acquire("ptable"), Do("pick")>>

Run(p) ==
  <<Acquire("ticks"), Release("ticks"), <<"swtch", p>>, Acquire("ticks"), Release("ticks"),
    Do("idle"), Release("ptable")>>

Init ==
  /\ cur = [c \in Cpu |-> c]
  /\ todo = [t \in Cpu \cup Proc |-> IF t \in Cpu THEN Round ELSE <<Release("ptable")>>]  \* forkret
  /\ state = [p \in Proc |-> "RUNNABLE"] /\ chan = [p \in Proc |-> ""]
  /\ proc = [c \in Cpu |-> Nobody]
  /\ on = {} /\ ncli = [c \in Cpu |-> 0] /\ intena = {}
  /\ locked = {} /\ cpu = [l \in Lock |-> Nobody]
  /\ panicked = FALSE

-----------------------------------------------------------------------------
(* One operation of the thread on CPU c. *)

At(c, op) == ~panicked /\ todo[cur[c]] # <<>> /\ todo[cur[c]][1][1] = op
Arg(c) == todo[cur[c]][1][2]
Rest(c) == Tail(todo[cur[c]])
Then(c, s) == todo' = [todo EXCEPT ![cur[c]] = s]
Holding(c, l) == l \in locked /\ cpu[l] = c

Panic ==
  /\ panicked' = TRUE
  /\ UNCHANGED <<threads, intr, locks>>

Pushcli(c) ==
  /\ on' = on \ {c}
  /\ intena' = IF ncli[c] > 0 THEN intena ELSE IF c \in on THEN intena \cup {c} ELSE intena \ {c}
  /\ ncli' = [ncli EXCEPT ![c] = @ + 1]

\* acquire, up to the loop.
AcquireStarts(c) ==
  /\ At(c, "acquire")
  /\ IF Holding(c, Arg(c)) THEN Panic
     ELSE /\ Pushcli(c)
          /\ Then(c, <<<<"spin", Arg(c)>>>> \o Rest(c))
          /\ UNCHANGED <<cur, state, chan, proc, locks, panicked>>

\* The exchange that finds the lock free.
Spin(c) ==
  /\ At(c, "spin") /\ Arg(c) \notin locked
  /\ locked' = locked \cup {Arg(c)} /\ cpu' = [cpu EXCEPT ![Arg(c)] = c]
  /\ Then(c, Rest(c))
  /\ UNCHANGED <<cur, state, chan, proc, intr, panicked>>

\* release, with popcli.
ReleaseLock(c) ==
  /\ At(c, "release")
  /\ IF ~Holding(c, Arg(c)) \/ c \in on \/ ncli[c] = 0 THEN Panic
     ELSE /\ locked' = locked \ {Arg(c)} /\ cpu' = [cpu EXCEPT ![Arg(c)] = Nobody]
          /\ ncli' = [ncli EXCEPT ![c] = @ - 1]
          /\ on' = IF ncli[c] = 1 /\ c \in intena THEN on \cup {c} ELSE on
          /\ Then(c, Rest(c))
          /\ UNCHANGED <<cur, state, chan, proc, intena, panicked>>

\* The condition that a process waits for may hold or not.
Loop(c) ==
  /\ At(c, "loop")
  /\ Then(c, Rest(c)) \/ Then(c, SleepOn(Arg(c)) \o todo[cur[c]])
  /\ UNCHANGED <<cur, state, chan, proc, intr, locks, panicked>>

Sleep(c) ==
  /\ At(c, "sleep")
  /\ state' = [state EXCEPT ![cur[c]] = "SLEEPING"]
  /\ chan' = [chan EXCEPT ![cur[c]] = Arg(c)]
  /\ Then(c, Rest(c))
  /\ UNCHANGED <<cur, proc, intr, locks, panicked>>

\* yield
GiveUp(c) ==
  /\ At(c, "yield")
  /\ state' = [state EXCEPT ![cur[c]] = "RUNNABLE"]
  /\ Then(c, Rest(c))
  /\ UNCHANGED <<cur, chan, proc, intr, locks, panicked>>

\* wakeup1; a child that exits wakes its parent.
Wakeup(c) ==
  /\ At(c, "wakeup")
  /\ state' = [p \in Proc |->
       IF state[p] = "SLEEPING" /\ chan[p] \in {Arg(c), "ptable"} THEN "RUNNABLE" ELSE state[p]]
  /\ Then(c, Rest(c))
  /\ UNCHANGED <<cur, chan, proc, intr, locks, panicked>>

\* mutant: intena is left to the CPU
SchedForgetsIntena(c) ==
  LET p == cur[c]
  IN /\ At(c, "sched")
     /\ IF ~Holding(c, "ptable") \/ ncli[c] # 1 \/ state[p] = "RUNNING" \/ c \in on THEN Panic
        ELSE /\ Then(c, Rest(c))
             /\ cur' = [cur EXCEPT ![c] = c]
             /\ UNCHANGED <<state, chan, proc, intr, locks, panicked>>

\* sched, up to swtch; intena is on the stack of the process meanwhile.
Sched(c) ==
  LET p == cur[c]
  IN /\ At(c, "sched")
     /\ IF ~Holding(c, "ptable") \/ ncli[c] # 1 \/ state[p] = "RUNNING" \/ c \in on THEN Panic
        ELSE /\ Then(c, <<<<"intena", IF c \in intena THEN "on" ELSE "off">>>> \o Rest(c))
             /\ cur' = [cur EXCEPT ![c] = c]
             /\ UNCHANGED <<state, chan, proc, intr, locks, panicked>>

\* sched, after swtch, perhaps on another CPU.
SchedReturns(c) ==
  /\ At(c, "intena")
  /\ intena' = IF Arg(c) = "on" THEN intena \cup {c} ELSE intena \ {c}
  /\ Then(c, Rest(c))
  /\ UNCHANGED <<cur, state, chan, proc, on, ncli, locks, panicked>>

-----------------------------------------------------------------------------
(* scheduler() and interrupts. *)

Sti(c) ==
  /\ At(c, "sti")
  /\ on' = on \cup {c}
  /\ Then(c, Rest(c))
  /\ UNCHANGED <<cur, state, chan, proc, ncli, intena, locks, panicked>>

\* A process has the ticket that was drawn, or none has: the tickets may have changed since
\* they were counted.
Pick(c) ==
  /\ At(c, "pick")
  /\ \/ \E p \in Proc :
          /\ state[p] = "RUNNABLE"
          /\ state' = [state EXCEPT ![p] = "RUNNING"]
          /\ proc' = [proc EXCEPT ![c] = p]
          /\ Then(c, Run(p))
     \/ Then(c, <<Release("ptable")>>) /\ UNCHANGED <<state, proc>>
  /\ UNCHANGED <<cur, chan, intr, locks, panicked>>

Swtch(c) ==
  /\ At(c, "swtch")
  /\ cur' = [cur EXCEPT ![c] = Arg(c)]
  /\ Then(c, Rest(c))
  /\ UNCHANGED <<state, chan, proc, intr, locks, panicked>>

Idle(c) ==
  /\ At(c, "idle")
  /\ proc' = [proc EXCEPT ![c] = Nobody]
  /\ Then(c, Rest(c))
  /\ UNCHANGED <<cur, state, chan, intr, locks, panicked>>

SchedulerLoops(c) ==
  /\ ~panicked /\ cur[c] = c /\ todo[c] = <<>>
  /\ Then(c, Round)
  /\ UNCHANGED <<cur, state, chan, proc, intr, locks, panicked>>

SystemCall(c) ==
  /\ ~panicked /\ cur[c] \in Proc /\ todo[cur[c]] = <<>>
  /\ \E s \in Syscall : Then(c, s)
  /\ UNCHANGED <<cur, state, chan, proc, intr, locks, panicked>>

\* An interrupt gate turns interrupts off, iret restores them.
Interrupt(c) ==
  /\ ~panicked /\ c \in on
  /\ \E h \in {Timer(c), Device} : Then(c, h \o todo[cur[c]])
  /\ on' = on \ {c}
  /\ UNCHANGED <<cur, state, chan, proc, ncli, intena, locks, panicked>>

\* The end of trap() for the timer.
Preempt(c) ==
  /\ At(c, "preempt")
  /\ Then(c, IF proc[c] # Nobody /\ state[proc[c]] = "RUNNING" THEN Yield \o Rest(c) ELSE Rest(c))
  /\ UNCHANGED <<cur, state, chan, proc, intr, locks, panicked>>

Iret(c) ==
  /\ At(c, "iret")
  /\ on' = on \cup {c}
  /\ Then(c, Rest(c))
  /\ UNCHANGED <<cur, state, chan, proc, ncli, intena, locks, panicked>>

-----------------------------------------------------------------------------
Next ==
  \E c \in Cpu :
    \/ AcquireStarts(c) \/ Spin(c) \/ ReleaseLock(c)
    \/ Loop(c) \/ Sleep(c) \/ GiveUp(c) \/ Wakeup(c)
    \/ Sched(c) \/ SchedReturns(c)
    \/ Sti(c) \/ Pick(c) \/ Swtch(c) \/ Idle(c)
    \/ SchedulerLoops(c) \/ SystemCall(c)
    \/ Interrupt(c) \/ Preempt(c) \/ Iret(c)

Spec == Init /\ [][Next]_vars

-----------------------------------------------------------------------------
TypeOK ==
  /\ cur \in [Cpu -> Cpu \cup Proc] /\ proc \in [Cpu -> Proc \cup {Nobody}]
  /\ state \in [Proc -> {"RUNNABLE", "RUNNING", "SLEEPING"}] /\ chan \in [Proc -> Lock \cup {""}]
  /\ on \subseteq Cpu /\ intena \subseteq Cpu /\ ncli \in [Cpu -> 0 .. 3]
  /\ locked \subseteq Lock /\ cpu \in [Lock -> Cpu \cup {Nobody}]

\* No check of spinlock.c or sched fails; a CPU that holds or awaits a lock has
\* its interrupts off, ncli counts those locks, on whichever CPU they were
\* taken; and no thread runs on two CPUs.
LockDiscipline ==
  /\ ~panicked
  /\ \A l \in Lock : l \in locked <=> cpu[l] # Nobody
  /\ \A c \in Cpu :
       /\ ncli[c] = Cardinality({l \in Lock : cpu[l] = c}) + (IF At(c, "spin") THEN 1 ELSE 0)
       /\ ncli[c] > 0 => c \notin on
       /\ \A d \in Cpu : cur[c] = cur[d] => c = d

\* Interrupts are on in user code and stay off in a handler until it returns, also
\* when its process has been to the scheduler and to another CPU in between.
InterruptsRestored ==
  \A c \in Cpu : /\ cur[c] \in Proc /\ todo[cur[c]] = <<>> => c \in on
                 /\ (\E i \in DOMAIN todo[cur[c]] : todo[cur[c]][i] = Do("iret")) => c \notin on

LocksInv == TypeOK /\ LockDiscipline /\ InterruptsRestored

Waits(c, d) == c # d /\ At(c, "spin") /\ cpu[Arg(c)] = d

\* scheduler() awaits tickslock with ptable.lock held (proc.c:425, 432), and all
\* who hold tickslock may come to await ptable.lock: this deadlock of two CPUs is
\* in the code.
SchedulerWantsTicks(c) == cur[c] = c /\ At(c, "spin") /\ Arg(c) = "ticks" /\ cpu["ptable"] = c

\* There is no other: two CPUs that wait for each other have a scheduler with that
\* inversion among them.
NoOtherDeadlock ==
  \A c, d \in Cpu : Waits(c, d) /\ Waits(d, c) => SchedulerWantsTicks(c) \/ SchedulerWantsTicks(d)

=============================================================================
