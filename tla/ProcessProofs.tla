--------------------------- MODULE ProcessProofs ---------------------------
(***************************************************************************)
(* Proofs about processes: about the process table, for any number of      *)
(* slots, processors and tickets and any set of system calls, and about    *)
(* the pages of one process, for any sizes of memory, table and programs.  *)
(***************************************************************************)
EXTENDS ProcTable, Paging, FiniteSetTheorems, SequenceTheorems, WellFoundedInduction, TLAPS

\* The slot of initproc exists.
LEMMA InitSlot == init \in Proc /\ None \notin Proc
BY ProcAssumption DEF Proc, init, None

-----------------------------------------------------------------------------
(* Type correctness. *)

\* The initial state has the types.
LEMMA TypeInit == Init => TypeOK
BY ProcAssumption, InitSlot
   DEF Init, TypeOK, Proc, init, None, Chan, Ticks, Ticket

\* A step of scheduler() keeps the types.
LEMMA TypeScheduler ==
  ASSUME TypeOK, NEW c \in CPU, Scheduler(c)
  PROVE  TypeOK'
<1>1. CASE SchedTotal(c)
  BY <1>1 DEF TypeOK, SchedTotal, slots
<1>2. CASE SchedDraw(c)
  BY <1>2 DEF TypeOK, SchedDraw, slots
<1>3. CASE SchedRun(c)
  <2>1. 0 \in Ticket
    BY ProcAssumption DEF Ticket
  <2>2. Reached(win[c]) \subseteq Proc
    BY DEF Reached, Runnable
  <2>3. CASE Reached(win[c]) = {}
    BY <1>3, <2>1, <2>3 DEF TypeOK, SchedRun
  <2>4. ASSUME NEW p \in Reached(win[c]),
               proc' = [proc EXCEPT ![c] = p],
               state' = [state EXCEPT ![p] = "RUNNING"],
               chan' = [chan EXCEPT ![p] = None],
               ptlock' = p
        PROVE  TypeOK'
    <3>1. p \in Proc /\ None \in Chan
      BY <2>2 DEF Chan
    <3>2. QED
      BY <1>3, <2>1, <2>4, <3>1 DEF TypeOK, SchedRun
  <2>5. QED
    BY <1>3, <2>3, <2>4 DEF SchedRun
<1>4. QED
  BY <1>1, <1>2, <1>3 DEF Scheduler

\* Waking the sleepers up keeps the type of the states.
LEMMA WakeupType ==
  ASSUME TypeOK, NEW channels, NEW p, NEW s, Wakeup1(channels, p, s),
         s \in {"ZOMBIE"} \/ p \notin Proc
  PROVE  state' \in [Proc -> {"UNUSED", "EMBRYO", "SLEEPING", "RUNNABLE",
                              "RUNNING", "ZOMBIE"}]
BY DEF TypeOK, Wakeup1

\* Giving up a processor keeps the types of the processors.
LEMMA SchedType ==
  ASSUME TypeOK, NEW p, Sched(p)
  PROVE  /\ proc' \in [CPU -> Proc \cup {None}]
         /\ spc' \in [CPU -> {"loop", "draw", "run"}]
         /\ win' \in [CPU -> Ticket]
BY DEF TypeOK, Sched

\* A step of a process keeps the types.
LEMMA TypeProcess ==
  ASSUME TypeOK, NEW p \in Proc, Step(p)
  PROVE  TypeOK'
<1>1. CASE Resume(p)
  BY <1>1 DEF TypeOK, Resume, slots, cpus
<1>2. CASE Yield(p)
  BY <1>2, SchedType DEF TypeOK, Yield
<1>3. CASE Syscall(p)
  <2>1. PICK call \in Calls \cup {"exit"} : pc' = [pc EXCEPT ![p] = call]
    BY <1>3 DEF Syscall
  <2>2. call \in {"fork", "wait", "kill", "settickets", "sleep", "exit"}
    BY <2>1, ProcAssumption
  <2>3. QED
    BY <1>3, <2>1, <2>2 DEF TypeOK, Syscall, slots, cpus
<1>4. CASE SetTickets(p)
  <2>1. tickets' \in [Proc -> 0 .. MaxTickets]
    <3>1. CASE UNCHANGED tickets
      BY <3>1 DEF TypeOK
    <3>2. ASSUME NEW n \in 1 .. MaxTickets, tickets' = [tickets EXCEPT ![p] = n]
          PROVE  tickets' \in [Proc -> 0 .. MaxTickets]
      <4>1. n \in 0 .. MaxTickets
        BY ProcAssumption
      <4>2. QED
        BY <3>2, <4>1 DEF TypeOK
    <3>3. QED
      BY <1>4, <3>1, <3>2 DEF SetTickets
  <2>2. QED
    BY <1>4, <2>1 DEF TypeOK, SetTickets, Return, cpus
<1>5. CASE AllocProc(p)
  <2>1. PICK np \in Proc :
           /\ state' = [state EXCEPT ![np] = "EMBRYO"]
           /\ pid' = [pid EXCEPT ![np] = nextpid]
           /\ tickets' = [tickets EXCEPT ![np] = 1]
           /\ child' = [child EXCEPT ![p] = np]
    BY <1>5 DEF AllocProc
  <2>2. 1 \in 0 .. MaxTickets
    BY ProcAssumption
  <2>3. tickets' \in [Proc -> 0 .. MaxTickets]
    BY <2>1, <2>2 DEF TypeOK
  <2>4. /\ nextpid' = nextpid + 1
        /\ pc' = [pc EXCEPT ![p] = "copy"]
        /\ UNCHANGED <<parent, killed, chan, cpus, ptlock, panicked>>
    BY <1>5 DEF AllocProc
  <2>5. QED
    <3>1. nextpid \in Nat /\ nextpid' \in Nat
      <4>1. nextpid \in Nat
        BY DEF TypeOK
      <4>2. QED
        BY <2>4, <4>1
    <3>2. pid' \in [Proc -> Nat]
      BY <2>1, <3>1 DEF TypeOK
    <3>3. QED
      BY <2>1, <2>3, <2>4, <3>1, <3>2 DEF TypeOK, cpus
<1>6. CASE AllocProcFull(p)
  BY <1>6 DEF TypeOK, AllocProcFull, Return, slots, cpus
<1>7. CASE ForkFail(p)
  BY <1>7 DEF TypeOK, ForkFail, Return, cpus
<1>8. CASE ForkParent(p)
  BY <1>8 DEF TypeOK, ForkParent, cpus
<1>9. CASE ForkTickets(p)
  BY <1>9 DEF TypeOK, ForkTickets, cpus
<1>10. CASE ForkDone(p)
  BY <1>10 DEF TypeOK, ForkDone, cpus
<1>11. CASE Exit(p)
  BY <1>11, WakeupType, SchedType, InitSlot DEF TypeOK, Exit
<1>12. CASE WaitReap(p)
  <2>1. PICK q \in Proc :
           /\ state' = [state EXCEPT ![q] = "UNUSED"]
           /\ pid' = [pid EXCEPT ![q] = 0]
           /\ parent' = [parent EXCEPT ![q] = None]
           /\ killed' = [killed EXCEPT ![q] = FALSE]
    BY <1>12 DEF WaitReap, Children
  <2>2. QED
    BY <1>12, <2>1 DEF TypeOK, WaitReap, Return, cpus
<1>13. CASE WaitFail(p)
  BY <1>13 DEF TypeOK, WaitFail, Return, slots, cpus
<1>14. CASE WaitSleep(p)
  BY <1>14, SchedType DEF TypeOK, WaitSleep, Chan
<1>15. CASE SleepCheck(p)
  BY <1>15 DEF TypeOK, SleepCheck, slots, cpus
<1>16. CASE Sleep(p)
  BY <1>16, SchedType DEF TypeOK, Sleep, Chan
<1>17. CASE Kill(p)
  BY <1>17 DEF TypeOK, Kill, Return, cpus
<1>18. QED
  BY <1>1, <1>2, <1>3, <1>4, <1>5, <1>6, <1>7, <1>8, <1>9, <1>10, <1>11,
     <1>12, <1>13, <1>14, <1>15, <1>16, <1>17 DEF Step

\* Every step keeps the types.
LEMMA TypeStep == TypeOK /\ [Next]_vars => TypeOK'
<1>1. SUFFICES ASSUME TypeOK, [Next]_vars PROVE TypeOK'
  OBVIOUS
<1>2. CASE \E p \in Proc : Step(p)
  BY <1>1, <1>2, TypeProcess
<1>3. CASE \E c \in CPU : Scheduler(c)
  BY <1>1, <1>3, TypeScheduler
<1>4. CASE Tick
  BY <1>1, <1>4, WakeupType, InitSlot DEF TypeOK, Tick, cpus
<1>5. CASE InitExits
  BY <1>1, <1>5 DEF TypeOK, InitExits, slots, cpus
<1>6. CASE UNCHANGED vars
  BY <1>1, <1>6 DEF TypeOK, vars, slots, cpus
<1>7. QED
  BY <1>1, <1>2, <1>3, <1>4, <1>5, <1>6 DEF Next, Works, Halted

\* The table, the processors and the lock always have their types.
THEOREM TypeCorrect == Spec => []TypeOK
BY TypeInit, TypeStep, PTL DEF Spec

-----------------------------------------------------------------------------
(* What steps do to the states. *)

\* enum procstate
States == {"UNUSED", "EMBRYO", "SLEEPING", "RUNNABLE", "RUNNING", "ZOMBIE"}

\* Where a process is in fork() between allocproc() and the end.
Filling == {"copy", "inherit", "start"}

\* The steps that change no more of the table than tickets.
Quiet(p) ==
  \/ Resume(p) \/ Syscall(p) \/ SetTickets(p) \/ AllocProcFull(p)
  \/ ForkTickets(p) \/ WaitFail(p) \/ SleepCheck(p)

\* What they do.
LEMMA QuietSteps ==
  ASSUME NEW p \in Proc, Quiet(p)
  PROVE  /\ UNCHANGED <<state, parent, chan, killed, pid, nextpid, child>>
         /\ UNCHANGED <<proc, spc>>
         /\ ptlock' \in {ptlock, None}
<1>1. CASE Resume(p)
  BY <1>1 DEF Resume, slots, cpus
<1>2. CASE Syscall(p)
  BY <1>2 DEF Syscall, slots, cpus
<1>3. CASE SetTickets(p)
  BY <1>3 DEF SetTickets, cpus
<1>4. CASE AllocProcFull(p)
  BY <1>4 DEF AllocProcFull, slots, cpus
<1>5. CASE ForkTickets(p)
  BY <1>5 DEF ForkTickets, cpus
<1>6. CASE WaitFail(p)
  BY <1>6 DEF WaitFail, slots, cpus
<1>7. CASE SleepCheck(p)
  BY <1>7 DEF SleepCheck, slots, cpus
<1>8. QED
  BY <1>1, <1>2, <1>3, <1>4, <1>5, <1>6, <1>7 DEF Quiet

\* Who is woken up was asleep; of those who are awake, only p changes.
LEMMA WakeupEffect ==
  ASSUME TypeOK, NEW channels, NEW p \in Proc \cup {None}, NEW s,
         Wakeup1(channels, p, s)
  PROVE  /\ p \in Proc => state'[p] = s
         /\ \A q \in Proc \ {p} :
              \/ state'[q] = state[q]
              \/ state[q] = "SLEEPING" /\ state'[q] = "RUNNABLE"
         /\ \A q \in Proc \ {p} :
              state[q] = "SLEEPING" /\ chan[q] \in channels => state'[q] = "RUNNABLE"
BY DEF TypeOK, Wakeup1

-----------------------------------------------------------------------------
(* What one step of a process may do to the slots. *)

\* The life of a process: which step takes a slot from a state to which other.
LEMMA StepStates ==
  ASSUME TypeOK, EmbryoOwned, NEW p \in Proc, Step(p)
  PROVE  /\ state[p] = "RUNNING"
         /\ \/ state'[p] = "RUNNING"
            \/ Yield(p) /\ state'[p] = "RUNNABLE"
            \/ Exit(p) /\ state'[p] = "ZOMBIE"
            \/ (WaitSleep(p) \/ Sleep(p)) /\ state'[p] = "SLEEPING"
         /\ \A q \in Proc \ {p} :
              \/ state'[q] = state[q]
              \/ /\ state[q] = "SLEEPING" /\ state'[q] = "RUNNABLE"
              \/ /\ state[q] = "UNUSED" /\ state'[q] = "EMBRYO"
                 /\ AllocProc(p) /\ child'[p] = q
              \/ /\ state[q] = "EMBRYO" /\ state'[q] = "UNUSED"
                 /\ ForkFail(p) /\ child[p] = q
              \/ /\ state[q] = "EMBRYO" /\ state'[q] = "RUNNABLE"
                 /\ ForkDone(p) /\ child[p] = q
              \/ /\ state[q] = "ZOMBIE" /\ state'[q] = "UNUSED"
                 /\ WaitReap(p) /\ parent[q] = p
<1>0. /\ state \in [Proc -> States]
      /\ child \in [Proc -> Proc \cup {None}]
  BY DEF TypeOK, States
<1>r. state[p] = "RUNNING"
  BY DEF Step, Resume, Yield, Syscall, SetTickets, AllocProc, AllocProcFull,
         ForkFail, ForkParent, ForkTickets, ForkDone, Exit, WaitReap, WaitFail,
         WaitSleep, SleepCheck, Sleep, Kill, Waits, Locks, Running
<1>e. ASSUME child[p] \in Proc PROVE state[child[p]] = "EMBRYO"
  BY <1>e DEF EmbryoOwned
<1>1. CASE Quiet(p) \/ ForkParent(p)
  BY <1>1, <1>r, QuietSteps DEF ForkParent
<1>2. CASE Yield(p)
  BY <1>0, <1>r, <1>2 DEF Yield
<1>3. CASE AllocProc(p)
  <2>1. PICK np \in Proc : /\ state[np] = "UNUSED"
                           /\ state' = [state EXCEPT ![np] = "EMBRYO"]
                           /\ child' = [child EXCEPT ![p] = np]
    BY <1>3 DEF AllocProc
  <2>2. QED
    BY <1>0, <1>r, <1>3, <2>1
<1>4. CASE ForkFail(p)
  <2>1. state' = [state EXCEPT ![child[p]] = "UNUSED"]
    BY <1>4 DEF ForkFail
  <2>2. QED
    BY <1>0, <1>r, <1>e, <1>4, <2>1
<1>5. CASE ForkDone(p)
  <2>1. state' = [state EXCEPT ![child[p]] = "RUNNABLE"]
    BY <1>5 DEF ForkDone
  <2>2. QED
    BY <1>0, <1>r, <1>e, <1>5, <2>1
<1>6. CASE Exit(p)
  <2>1. \E channels : Wakeup1(channels, p, "ZOMBIE")
    BY <1>6 DEF Exit
  <2>2. QED
    BY <1>r, <1>6, <2>1, WakeupEffect
<1>7. CASE WaitReap(p)
  <2>1. PICK q \in Proc : /\ state[q] = "ZOMBIE" /\ parent[q] = p
                          /\ state' = [state EXCEPT ![q] = "UNUSED"]
    BY <1>7 DEF WaitReap, Children
  <2>2. QED
    BY <1>0, <1>r, <1>7, <2>1
<1>8. CASE WaitSleep(p) \/ Sleep(p)
  <2>1. state' = [state EXCEPT ![p] = "SLEEPING"]
    BY <1>8 DEF WaitSleep, Sleep
  <2>2. QED
    BY <1>0, <1>r, <1>8, <2>1
<1>9. CASE Kill(p)
  <2>1. \/ state' = state
        \/ \E q \in Proc : state' = [state EXCEPT ![q] = IF @ = "SLEEPING"
                                                         THEN "RUNNABLE" ELSE @]
    BY <1>9 DEF Kill
  <2>2. QED
    BY <1>0, <1>r, <2>1
<1>10. QED
  BY <1>1, <1>2, <1>3, <1>4, <1>5, <1>6, <1>7, <1>8, <1>9 DEF Step, Quiet

\* The steps in which a process calls sched().
GivesUp(p) == Yield(p) \/ Exit(p) \/ WaitSleep(p) \/ Sleep(p)

\* Which steps touch the other fields, and of whom.
LEMMA StepFields ==
  ASSUME TypeOK, NEW p \in Proc, Step(p)
  PROVE  /\ \A q \in Proc \ {p} :
              /\ chan'[q] = chan[q]
              /\ \/ pc'[q] = pc[q]
                 \/ ForkDone(p) /\ q = child[p] /\ pc'[q] = "user"
         /\ parent' = parent \/ ForkParent(p) \/ Exit(p) \/ WaitReap(p)
         /\ killed' = killed \/ WaitReap(p) \/ Kill(p)
         /\ UNCHANGED <<pid, nextpid>> \/ AllocProc(p) \/ WaitReap(p)
         /\ child' = child \/ AllocProc(p) \/ ForkFail(p) \/ ForkDone(p)
         /\ \/ UNCHANGED <<proc, spc>> /\ ptlock' \in {ptlock, None}
            \/ GivesUp(p)
<1>0. DOMAIN pc = Proc /\ DOMAIN chan = Proc
  BY DEF TypeOK
<1>1. chan' = chan \/ \E s : chan' = [chan EXCEPT ![p] = s]
  BY DEF Step, Resume, Yield, Syscall, SetTickets, AllocProc, AllocProcFull,
         ForkFail, ForkParent, ForkTickets, ForkDone, Exit, WaitReap, WaitFail,
         WaitSleep, SleepCheck, Sleep, Kill, slots
<1>2. \/ pc' = pc
      \/ \E s : pc' = [pc EXCEPT ![p] = s]
      \/ ForkDone(p) /\ pc' = [pc EXCEPT ![p] = "user", ![child[p]] = "user"]
  BY DEF Step, Resume, Yield, Syscall, SetTickets, AllocProc, AllocProcFull,
         ForkFail, ForkParent, ForkTickets, ForkDone, Exit, WaitReap, WaitFail,
         WaitSleep, SleepCheck, Sleep, Kill, Return
<1>3. \A q \in Proc \ {p} : chan'[q] = chan[q]
  BY <1>0, <1>1
<1>4. \A q \in Proc \ {p} :
        \/ pc'[q] = pc[q]
        \/ ForkDone(p) /\ q = child[p] /\ pc'[q] = "user"
  <2>1. CASE pc' = pc \/ \E s : pc' = [pc EXCEPT ![p] = s]
    BY <1>0, <2>1
  <2>2. CASE ForkDone(p) /\ pc' = [pc EXCEPT ![p] = "user", ![child[p]] = "user"]
    BY <1>0, <2>2
  <2>3. QED
    BY <1>2, <2>1, <2>2
<1>5. parent' = parent \/ ForkParent(p) \/ Exit(p) \/ WaitReap(p)
  BY DEF Step, Resume, Yield, Syscall, SetTickets, AllocProc, AllocProcFull,
         ForkFail, ForkTickets, ForkDone, WaitFail, WaitSleep, SleepCheck, Sleep,
         Kill, slots
<1>6. killed' = killed \/ WaitReap(p) \/ Kill(p)
  BY DEF Step, Resume, Yield, Syscall, SetTickets, AllocProc, AllocProcFull,
         ForkFail, ForkParent, ForkTickets, ForkDone, Exit, WaitFail, WaitSleep,
         SleepCheck, Sleep, slots
<1>7. UNCHANGED <<pid, nextpid>> \/ AllocProc(p) \/ WaitReap(p)
  BY DEF Step, Resume, Yield, Syscall, SetTickets, AllocProcFull, ForkFail,
         ForkParent, ForkTickets, ForkDone, Exit, WaitFail, WaitSleep,
         SleepCheck, Sleep, Kill, slots
<1>8. child' = child \/ AllocProc(p) \/ ForkFail(p) \/ ForkDone(p)
  BY DEF Step, Resume, Yield, Syscall, SetTickets, AllocProcFull, ForkParent,
         ForkTickets, Exit, WaitReap, WaitFail, WaitSleep, SleepCheck, Sleep, Kill
<1>9. \/ UNCHANGED <<proc, spc>> /\ ptlock' \in {ptlock, None}
      \/ GivesUp(p)
  BY QuietSteps
     DEF Step, Quiet, AllocProc, ForkFail, ForkParent, ForkDone, WaitReap, Kill,
         GivesUp, cpus
<1>10. QED
  BY <1>3, <1>4, <1>5, <1>6, <1>7, <1>8, <1>9

-----------------------------------------------------------------------------
(* Processes and processors. *)

\* No process of procs gets a processor or loses it.
SameRunning(procs) ==
  \A q \in procs : state'[q] = "RUNNING" <=> state[q] = "RUNNING"

\* A step that moves nobody onto a processor or off it, and hands the lock to
\* nobody.
LEMMA CpusKept ==
  ASSUME TypeOK, OnOneCpu, SameRunning(Proc), UNCHANGED <<proc, spc>>,
         ptlock' \in {ptlock, None}
  PROVE  OnOneCpu'
<1>1. ptlock \in Proc \cup {None}
  BY DEF TypeOK
<1>2. QED
  BY <1>1 DEF OnOneCpu, SameRunning

\* A process that gives up its processor.
LEMMA CpuGivenUp ==
  ASSUME TypeOK, OnOneCpu, NEW p \in Proc, Sched(p), state[p] = "RUNNING",
         state'[p] # "RUNNING", SameRunning(Proc \ {p}), ptlock' = None
  PROVE  OnOneCpu'
<1>1. proc \in [CPU -> Proc \cup {None}]
  BY DEF TypeOK
<1>2. \A c \in CPU : proc'[c] = IF proc[c] = p THEN None ELSE proc[c]
  BY <1>1 DEF Sched
<1>3. QED
  BY <1>1, <1>2, InitSlot DEF OnOneCpu, Sched, SameRunning

\* A step of scheduler().
LEMMA OneCpuScheduler ==
  ASSUME TypeOK, OnOneCpu, NEW c \in CPU, Scheduler(c)
  PROVE  OnOneCpu'
<1>0. /\ state \in [Proc -> States]
      /\ proc \in [CPU -> Proc \cup {None}]
      /\ spc \in [CPU -> {"loop", "draw", "run"}]
  BY DEF TypeOK, States
<1>1. CASE SchedTotal(c)
  <2>1. /\ UNCHANGED <<state, proc, ptlock>>
        /\ spc' = [spc EXCEPT ![c] = "draw"]
        /\ proc[c] = None
    BY <1>1 DEF SchedTotal, slots
  <2>2. QED
    BY <1>0, <2>1 DEF OnOneCpu
<1>2. CASE SchedDraw(c)
  <2>1. /\ UNCHANGED <<state, proc, ptlock>>
        /\ spc' = spc \/ spc' = [spc EXCEPT ![c] = "run"]
        /\ spc[c] = "draw"
    BY <1>2 DEF SchedDraw, slots
  <2>2. proc[c] = None
    BY <2>1 DEF OnOneCpu
  <2>3. QED
    BY <1>0, <2>1, <2>2 DEF OnOneCpu
<1>3. CASE SchedRun(c)
  <2>1. /\ spc' = [spc EXCEPT ![c] = "loop"]
        /\ spc[c] = "run" /\ ptlock = None
    BY <1>3 DEF SchedRun
  <2>2. proc[c] = None
    BY <2>1 DEF OnOneCpu
  <2>3. CASE UNCHANGED <<state, chan, proc, ptlock>>
    BY <1>0, <2>1, <2>3 DEF OnOneCpu
  <2>4. ASSUME NEW p \in Reached(win[c]),
               proc' = [proc EXCEPT ![c] = p],
               state' = [state EXCEPT ![p] = "RUNNING"],
               ptlock' = p
        PROVE  OnOneCpu'
    <3>1. p \in Proc /\ state[p] = "RUNNABLE"
      BY DEF Reached, Runnable
    <3>2. \A d \in CPU : proc[d] # p
      BY <3>1 DEF OnOneCpu
    <3>3. QED
      BY <1>0, <2>1, <2>2, <2>4, <3>1, <3>2, InitSlot DEF OnOneCpu
  <2>5. QED
    BY <1>3, <2>3, <2>4 DEF SchedRun
<1>4. QED
  BY <1>1, <1>2, <1>3 DEF Scheduler

\* A step of a process.
LEMMA OneCpuProcess ==
  ASSUME TypeOK, OnOneCpu, EmbryoOwned, NEW p \in Proc, Step(p)
  PROVE  OnOneCpu'
<1>0. state \in [Proc -> States]
  BY DEF TypeOK, States
<1>1. SameRunning(Proc \ {p}) /\ state[p] = "RUNNING"
  BY StepStates DEF SameRunning
<1>2. CASE GivesUp(p)
  <2>1. Sched(p) /\ ptlock' = None
    BY <1>2 DEF GivesUp, Yield, Exit, WaitSleep, Sleep, Locks
  <2>2. state'[p] # "RUNNING"
    <3>1. CASE Exit(p)
      BY <3>1, WakeupEffect DEF Exit
    <3>2. CASE ~Exit(p)
      BY <1>0, <1>2, <3>2 DEF GivesUp, Yield, WaitSleep, Sleep
    <3>3. QED
      BY <3>1, <3>2
  <2>3. QED
    BY <1>1, <2>1, <2>2, CpuGivenUp
<1>3. CASE ~GivesUp(p)
  <2>1. UNCHANGED <<proc, spc>> /\ ptlock' \in {ptlock, None}
    BY <1>3, StepFields
  <2>2. state'[p] = "RUNNING"
    BY <1>3, StepStates DEF GivesUp
  <2>3. SameRunning(Proc)
    BY <1>1, <2>2 DEF SameRunning
  <2>4. QED
    BY <2>1, <2>3, CpusKept
<1>4. QED
  BY <1>2, <1>3

-----------------------------------------------------------------------------
(* The slots that fork() is filling. *)

\* A step in which no slot begins or ceases to be an EMBRYO, and nobody who
\* fills one dies or leaves fork().
LEMMA EmbryosKept ==
  ASSUME EmbryoOwned, UNCHANGED child,
         \A q \in Proc : state'[q] = "EMBRYO" <=> state[q] = "EMBRYO",
         \A q \in Proc : child[q] # None =>
           /\ state'[q] \in {"SLEEPING", "RUNNABLE", "RUNNING"}
           /\ pc'[q] \in Filling
  PROVE  EmbryoOwned'
BY DEF EmbryoOwned, Live, Filling

\* Who is not in the middle of fork() fills no slot.
LEMMA FillersFork ==
  ASSUME EmbryoOwned, NEW p \in Proc, child[p] # None
  PROVE  /\ pc[p] \in Filling
         /\ state[p] \in {"SLEEPING", "RUNNABLE", "RUNNING"}
BY DEF EmbryoOwned, Live, Filling

\* A step of a process.
LEMMA EmbryoProcess ==
  ASSUME TypeOK, EmbryoOwned, NEW p \in Proc, Step(p)
  PROVE  EmbryoOwned'
<1>0. /\ state \in [Proc -> States]
      /\ child \in [Proc -> Proc \cup {None}]
      /\ DOMAIN pc = Proc
  BY DEF TypeOK, States
<1>i. None \notin Proc
  BY InitSlot
<1>e. ASSUME child[p] \in Proc PROVE state[child[p]] = "EMBRYO"
  BY <1>e DEF EmbryoOwned
<1>1. CASE AllocProc(p)
  <2>1. PICK np \in Proc :
           /\ state[np] = "UNUSED"
           /\ state' = [state EXCEPT ![np] = "EMBRYO"]
           /\ child' = [child EXCEPT ![p] = np]
    BY <1>1 DEF AllocProc
  <2>2. /\ state[p] = "RUNNING" /\ pc[p] = "fork"
        /\ pc' = [pc EXCEPT ![p] = "copy"]
    BY <1>1 DEF AllocProc, Locks, Running
  <2>3. child[p] = None
    BY <2>2, FillersFork DEF Filling
  <2>4. \A q \in Proc : child[q] # np
    BY <2>1 DEF EmbryoOwned
  <2>5. QED
    <3>1. \A q \in Proc : state'[q] = "EMBRYO" <=> \E r \in Proc : child'[r] = q
      <4>1. state'[np] = "EMBRYO" /\ child'[p] = np
        BY <1>0, <2>1
      <4>2. ASSUME NEW q \in Proc \ {np}
            PROVE  state'[q] = "EMBRYO" <=> \E r \in Proc : child'[r] = q
        <5>1. state'[q] = state[q]
          BY <1>0, <2>1
        <5>2. \A r \in Proc : child'[r] = q <=> child[r] = q
          BY <1>0, <1>i, <2>1, <2>3
        <5>3. state[q] = "EMBRYO" <=> \E r \in Proc : child[r] = q
          BY DEF EmbryoOwned
        <5>4. QED
          BY <5>1, <5>2, <5>3
      <4>3. QED
        BY <4>1, <4>2
    <3>2. \A q, r \in Proc : child'[q] = child'[r] /\ q # r => child'[q] = None
      BY <1>0, <2>1, <2>4 DEF EmbryoOwned
    <3>3. \A q \in Proc : child'[q] # None =>
            /\ state'[q] \in {"SLEEPING", "RUNNABLE", "RUNNING"}
            /\ pc'[q] \in Filling
      BY <1>0, <2>1, <2>2, FillersFork DEF Filling
    <3>4. QED
      BY <3>1, <3>2, <3>3 DEF EmbryoOwned, Live, Filling
<1>2. CASE ForkFail(p) \/ ForkDone(p)
  <2>1. PICK s \in {"UNUSED", "RUNNABLE"} :
          /\ state' = [state EXCEPT ![child[p]] = s]
          /\ child' = [child EXCEPT ![p] = None]
    BY <1>2 DEF ForkFail, ForkDone
  <2>2. \/ pc' = [pc EXCEPT ![p] = "user"]
        \/ pc' = [pc EXCEPT ![p] = "user", ![child[p]] = "user"]
    BY <1>2 DEF ForkFail, ForkDone, Return
  <2>3. \A q, r \in Proc : child'[q] = child'[r] /\ q # r => child'[q] = None
    BY <1>0, <2>1 DEF EmbryoOwned
  <2>4. \A q \in Proc : child'[q] # None =>
            /\ state'[q] \in {"SLEEPING", "RUNNABLE", "RUNNING"}
            /\ pc'[q] \in Filling
    <3>1. ASSUME NEW q \in Proc, child'[q] # None
          PROVE  /\ state'[q] \in {"SLEEPING", "RUNNABLE", "RUNNING"}
                 /\ pc'[q] \in Filling
      <4>1. q # p /\ child[q] # None
        BY <1>0, <2>1, <3>1
      <4>2. q # child[p]
        BY <1>e, <4>1, FillersFork
      <4>3. state'[q] = state[q] /\ pc'[q] = pc[q]
        BY <1>0, <2>1, <2>2, <4>1, <4>2
      <4>4. QED
        BY <4>1, <4>3, FillersFork
    <3>2. QED
      BY <3>1
  <2>5. ASSUME NEW q \in Proc
        PROVE  state'[q] = "EMBRYO" <=> \E r \in Proc : child'[r] = q
    <3>1. state[q] = "EMBRYO" <=> \E r \in Proc : child[r] = q
      BY DEF EmbryoOwned
    <3>2. CASE q = child[p]
      <4>1. state'[q] # "EMBRYO"
        BY <1>0, <2>1, <3>2
      <4>2. \A r \in Proc : child'[r] # q
        BY <1>0, <1>i, <2>1, <3>2 DEF EmbryoOwned
      <4>3. QED
        BY <4>1, <4>2
    <3>3. CASE q # child[p]
      <4>1. state'[q] = state[q]
        BY <1>0, <2>1, <3>3
      <4>2. \A r \in Proc : child'[r] = q <=> child[r] = q
        BY <1>0, <1>i, <2>1, <3>3
      <4>3. QED
        BY <3>1, <4>1, <4>2
    <3>4. QED
      BY <3>2, <3>3
  <2>6. QED
    BY <2>3, <2>4, <2>5 DEF EmbryoOwned, Live, Filling
<1>3. CASE ~AllocProc(p) /\ ~ForkFail(p) /\ ~ForkDone(p)
  <2>1. UNCHANGED child
    BY <1>3, StepFields
  <2>2. \A q \in Proc : state'[q] = "EMBRYO" <=> state[q] = "EMBRYO"
    BY <1>3, StepStates
  <2>3. ASSUME NEW q \in Proc, child[q] # None
        PROVE  /\ state'[q] \in {"SLEEPING", "RUNNABLE", "RUNNING"}
               /\ pc'[q] \in Filling
    <3>1. CASE q # p
      BY <1>3, <2>3, <3>1, FillersFork, StepStates, StepFields
    <3>2. CASE q = p
      <4>1. Resume(p) \/ Yield(p) \/ ForkParent(p) \/ ForkTickets(p)
        BY <1>3, <2>3, <3>2, FillersFork
           DEF Step, Syscall, SetTickets, AllocProcFull, Exit, WaitReap, WaitFail,
               WaitSleep, SleepCheck, Sleep, Kill, Waits, Filling
      <4>2. pc'[p] \in Filling
        BY <1>0, <2>3, <3>2, <4>1, FillersFork
           DEF Resume, Yield, ForkParent, ForkTickets, Filling
      <4>3. state'[p] \in {"RUNNABLE", "RUNNING"}
        BY <1>0, <4>1, StepStates
           DEF Resume, Yield, ForkParent, ForkTickets, slots
      <4>4. QED
        BY <3>2, <4>2, <4>3
    <3>3. QED
      BY <3>1, <3>2
  <2>4. QED
    BY <2>1, <2>2, <2>3, EmbryosKept
<1>4. QED
  BY <1>1, <1>2, <1>3

\* A step of scheduler().
LEMMA EmbryoScheduler ==
  ASSUME TypeOK, EmbryoOwned, NEW c \in CPU, Scheduler(c)
  PROVE  EmbryoOwned'
<1>0. state \in [Proc -> States]
  BY DEF TypeOK, States
<1>1. /\ UNCHANGED <<pc, child>>
      /\ \/ state' = state
         \/ \E p \in Runnable : state' = [state EXCEPT ![p] = "RUNNING"]
  BY DEF Scheduler, SchedTotal, SchedDraw, SchedRun, slots, Reached
<1>2. QED
  BY <1>0, <1>1, FillersFork, EmbryosKept DEF Runnable

-----------------------------------------------------------------------------
(* Process ids. *)

\* A step of a process.
LEMMA PidsProcess ==
  ASSUME TypeOK, EmbryoOwned, PidsUnique, NEW p \in Proc, Step(p)
  PROVE  PidsUnique'
<1>0. /\ state \in [Proc -> States]
      /\ DOMAIN pid = Proc
      /\ \A q \in Proc : pid[q] \in Nat
      /\ nextpid \in Nat
  BY DEF TypeOK, States
<1>1. CASE AllocProc(p)
  <2>1. PICK np \in Proc : /\ state' = [state EXCEPT ![np] = "EMBRYO"]
                           /\ pid' = [pid EXCEPT ![np] = nextpid]
    BY <1>1 DEF AllocProc
  <2>2. nextpid' = nextpid + 1
    BY <1>1 DEF AllocProc
  <2>3. nextpid # 0
    BY <1>0 DEF PidsUnique
  <2>4. \A q \in Proc : pid'[q] = IF q = np THEN nextpid ELSE pid[q]
    BY <1>0, <2>1
  <2>5. \A q \in Proc : state'[q] # "UNUSED" => q = np \/ state[q] # "UNUSED"
    BY <1>0, <2>1
  <2>6. QED
    BY <1>0, <2>2, <2>3, <2>4, <2>5 DEF PidsUnique
<1>2. CASE WaitReap(p)
  <2>1. PICK q \in Proc : /\ state' = [state EXCEPT ![q] = "UNUSED"]
                          /\ pid' = [pid EXCEPT ![q] = 0]
    BY <1>2 DEF WaitReap, Children
  <2>2. nextpid' = nextpid
    BY <1>2 DEF WaitReap
  <2>3. \A r \in Proc : pid'[r] = IF r = q THEN 0 ELSE pid[r]
    BY <1>0, <2>1
  <2>4. \A r \in Proc : state'[r] # "UNUSED" => r # q /\ state[r] # "UNUSED"
    BY <1>0, <2>1
  <2>5. QED
    BY <1>0, <2>2, <2>3, <2>4 DEF PidsUnique
<1>3. CASE ~AllocProc(p) /\ ~WaitReap(p)
  <2>1. UNCHANGED <<pid, nextpid>>
    BY <1>3, StepFields
  <2>2. \A q \in Proc : state'[q] # "UNUSED" => state[q] # "UNUSED"
    BY <1>3, StepStates
  <2>3. QED
    BY <2>1, <2>2 DEF PidsUnique
<1>4. QED
  BY <1>1, <1>2, <1>3

-----------------------------------------------------------------------------
(* The tree of processes. *)

\* How far fork() has come with a slot: its parent is entered by the second
\* step.
ForkStages ==
  \A p \in Proc :
    /\ pc[p] \in Filling => child[p] # None
    /\ pc[p] = "copy" => parent[child[p]] = None
    /\ pc[p] \in {"inherit", "start"} => parent[child[p]] = p

\* init is alive and has no parent, and no process is its own parent.
Rooted ==
  /\ init \in Live
  /\ parent[init] = None
  /\ \A p \in Proc : parent[p] # p

\* A step of a process.
LEMMA StagesProcess ==
  ASSUME TypeOK, EmbryoOwned, ParentAlive, ForkStages, NEW p \in Proc, Step(p)
  PROVE  ForkStages'
<1>0. /\ state \in [Proc -> States]
      /\ child \in [Proc -> Proc \cup {None}]
      /\ DOMAIN pc = Proc /\ DOMAIN parent = Proc
  BY DEF TypeOK, States
<1>i. None \notin Proc
  BY InitSlot
<1>e. \A r \in Proc : pc[r] \in Filling =>
        /\ child[r] \in Proc
        /\ state[child[r]] = "EMBRYO"
        /\ child[r] # r
        /\ parent[child[r]] \in {None, r}
        /\ \A q \in Proc : child[q] = child[r] => q = r
  BY <1>0 DEF ForkStages, EmbryoOwned, Live, Filling
<1>1. CASE AllocProc(p)
  <2>1. PICK np \in Proc : /\ state[np] = "UNUSED"
                           /\ child' = [child EXCEPT ![p] = np]
    BY <1>1 DEF AllocProc
  <2>2. /\ pc' = [pc EXCEPT ![p] = "copy"]
        /\ UNCHANGED parent
    BY <1>1 DEF AllocProc
  <2>3. parent[np] = None
    BY <2>1 DEF ParentAlive, Free
  <2>4. QED
    BY <1>0, <1>i, <2>1, <2>2, <2>3 DEF ForkStages, Filling
<1>2. CASE ForkFail(p)
  <2>1. /\ child' = [child EXCEPT ![p] = None]
        /\ pc' = [pc EXCEPT ![p] = "user"]
        /\ UNCHANGED parent
    BY <1>2 DEF ForkFail, Return
  <2>2. QED
    BY <1>0, <2>1 DEF ForkStages, Filling
<1>3. CASE ForkParent(p)
  <2>1. /\ parent' = [parent EXCEPT ![child[p]] = p]
        /\ pc[p] = "copy" /\ pc' = [pc EXCEPT ![p] = "inherit"]
        /\ UNCHANGED child
    BY <1>3 DEF ForkParent
  <2>2. ASSUME NEW r \in Proc \ {p}, pc[r] \in Filling
        PROVE  parent'[child[r]] = parent[child[r]]
    BY <1>0, <1>e, <2>1, <2>2 DEF Filling
  <2>3. parent'[child[p]] = p
    BY <1>0, <1>e, <2>1 DEF Filling
  <2>4. QED
    BY <1>0, <2>1, <2>2, <2>3 DEF ForkStages, Filling
<1>4. CASE ForkTickets(p)
  <2>1. /\ pc[p] = "inherit" /\ pc' = [pc EXCEPT ![p] = "start"]
        /\ UNCHANGED <<parent, child>>
    BY <1>4 DEF ForkTickets
  <2>2. QED
    BY <1>0, <2>1 DEF ForkStages, Filling
<1>5. CASE ForkDone(p)
  <2>1. /\ child' = [child EXCEPT ![p] = None]
        /\ pc' = [pc EXCEPT ![p] = "user", ![child[p]] = "user"]
        /\ UNCHANGED parent
    BY <1>5 DEF ForkDone
  <2>2. pc'[p] = "user"
    BY <1>0, <2>1
  <2>3. \A r \in Proc \ {p} : /\ child'[r] = child[r]
                              /\ pc'[r] \in Filling => pc'[r] = pc[r]
    BY <1>0, <2>1 DEF Filling
  <2>4. QED
    BY <2>1, <2>2, <2>3 DEF ForkStages, Filling
<1>6. CASE Exit(p)
  <2>1. /\ UNCHANGED <<pc, child>>
        /\ pc[p] = "exit"
        /\ \A q \in Proc : parent[q] # p => parent'[q] = parent[q]
    BY <1>6 DEF Exit
  <2>2. \A r \in Proc : pc[r] \in Filling => parent'[child[r]] = parent[child[r]]
    BY <1>e, <1>i, <2>1 DEF Filling
  <2>3. QED
    BY <2>1, <2>2 DEF ForkStages, Filling
<1>7. CASE WaitReap(p)
  <2>1. PICK q \in Proc : /\ state[q] = "ZOMBIE"
                          /\ parent' = [parent EXCEPT ![q] = None]
    BY <1>7 DEF WaitReap, Children
  <2>2. /\ pc' = [pc EXCEPT ![p] = "user"]
        /\ UNCHANGED child
    BY <1>7 DEF WaitReap, Return
  <2>3. \A r \in Proc : pc[r] \in Filling => parent'[child[r]] = parent[child[r]]
    BY <1>0, <1>e, <2>1
  <2>4. QED
    BY <1>0, <2>2, <2>3 DEF ForkStages, Filling
<1>8. CASE Resume(p) \/ Yield(p) \/ Syscall(p) \/ SetTickets(p)
           \/ AllocProcFull(p) \/ WaitFail(p) \/ WaitSleep(p) \/ SleepCheck(p)
           \/ Sleep(p) \/ Kill(p)
  <2>1. UNCHANGED <<parent, child>>
    BY <1>8 DEF Resume, Yield, Syscall, SetTickets, AllocProcFull, WaitFail,
                WaitSleep, SleepCheck, Sleep, Kill, slots
  <2>2. pc' = pc \/ \E s : s \notin Filling /\ pc' = [pc EXCEPT ![p] = s]
    <3>1. ASSUME NEW call \in Calls \cup {"exit"}
          PROVE  call \notin Filling
      BY ProcAssumption DEF Filling
    <3>2. CASE Syscall(p)
      BY <3>1, <3>2 DEF Syscall
    <3>3. CASE ~Syscall(p)
      BY <1>8, <3>3 DEF Resume, Yield, SetTickets, AllocProcFull, WaitFail,
                        WaitSleep, SleepCheck, Sleep, Kill, Return, Filling
    <3>4. QED
      BY <3>2, <3>3
  <2>3. QED
    BY <1>0, <2>1, <2>2 DEF ForkStages, Filling
<1>9. QED
  BY <1>1, <1>2, <1>3, <1>4, <1>5, <1>6, <1>7, <1>8 DEF Step

\* A step that leaves the tree as it is, and everybody in it dead or alive.
LEMMA TreeKept ==
  ASSUME ParentAlive, Rooted, UNCHANGED parent,
         \A q \in Proc :
           /\ state'[q] = "UNUSED" <=> state[q] = "UNUSED"
           /\ state'[q] = "ZOMBIE" <=> state[q] = "ZOMBIE"
           /\ q \in Live <=> (q \in Live)'
  PROVE  ParentAlive' /\ Rooted'
<1>1. Live \subseteq Proc
  BY DEF Live
<1>2. Rooted'
  BY InitSlot DEF Rooted
<1>3. ASSUME NEW q \in Proc
      PROVE  /\ q \in Free' => parent'[q] = None
             /\ q \notin Free' /\ parent'[q] # None => parent'[q] \in Live'
             /\ q # init /\ (q \in Live \/ state[q] = "ZOMBIE")' => parent'[q] # None
  BY <1>1 DEF ParentAlive, Free
<1>4. QED
  BY <1>2, <1>3 DEF ParentAlive, Free

\* A step of a process.
LEMMA TreeProcess ==
  ASSUME TypeOK, EmbryoOwned, ForkStages, ParentAlive, Rooted, NEW p \in Proc, Step(p)
  PROVE  ParentAlive' /\ Rooted'
<1>0. /\ state \in [Proc -> States]
      /\ DOMAIN parent = Proc
      /\ \A q \in Proc : parent[q] \in Proc \cup {None}
  BY DEF TypeOK, States
<1>i. None \notin Proc /\ init \in Proc
  BY InitSlot
<1>p. p \in Live
  BY StepStates DEF Live
<1>e. ASSUME pc[p] \in Filling
      PROVE  /\ child[p] \in Proc
             /\ state[child[p]] = "EMBRYO"
  <2>1. child[p] \in Proc
    BY <1>e DEF ForkStages, TypeOK
  <2>2. QED
    BY <2>1 DEF EmbryoOwned
<1>1. CASE AllocProc(p)
  <2>1. PICK np \in Proc : /\ state[np] = "UNUSED"
                           /\ state' = [state EXCEPT ![np] = "EMBRYO"]
    BY <1>1 DEF AllocProc
  <2>2. UNCHANGED parent
    BY <1>1 DEF AllocProc
  <2>3. QED
    BY <1>0, <1>i, <2>1, <2>2 DEF ParentAlive, Rooted, Free, Live
<1>2. CASE ForkFail(p)
  <2>1. /\ state' = [state EXCEPT ![child[p]] = "UNUSED"]
        /\ pc[p] = "copy"
        /\ UNCHANGED parent
    BY <1>2 DEF ForkFail
  <2>2. parent[child[p]] = None
    BY <2>1 DEF ForkStages
  <2>3. QED
    BY <1>0, <1>i, <1>e, <2>1, <2>2 DEF ParentAlive, Rooted, Free, Live, Filling
<1>3. CASE ForkParent(p)
  <2>1. /\ parent' = [parent EXCEPT ![child[p]] = p]
        /\ pc[p] = "copy"
        /\ UNCHANGED state
    BY <1>3 DEF ForkParent
  <2>2. /\ child[p] \in Proc /\ state[child[p]] = "EMBRYO"
        /\ child[p] # p /\ child[p] # init
    BY <1>e, <1>p, <2>1 DEF Live, Filling, Rooted
  <2>3. QED
    BY <1>0, <1>i, <1>p, <2>1, <2>2 DEF ParentAlive, Rooted, Free, Live
<1>4. CASE ForkDone(p)
  <2>1. /\ state' = [state EXCEPT ![child[p]] = "RUNNABLE"]
        /\ pc[p] = "start"
        /\ UNCHANGED parent
    BY <1>4 DEF ForkDone
  <2>2. parent[child[p]] = p
    BY <2>1 DEF ForkStages
  <2>3. QED
    BY <1>0, <1>i, <1>e, <1>p, <2>1, <2>2 DEF ParentAlive, Rooted, Free, Live, Filling
<1>5. CASE Exit(p)
  <2>1. /\ p # init
        /\ parent' = [q \in Proc |-> IF parent[q] = p THEN init ELSE parent[q]]
        /\ \E channels : Wakeup1(channels, p, "ZOMBIE")
    BY <1>5 DEF Exit, Children
  <2>2. /\ state'[p] = "ZOMBIE"
        /\ \A q \in Proc \ {p} :
             \/ state'[q] = state[q]
             \/ state[q] = "SLEEPING" /\ state'[q] = "RUNNABLE"
    BY <2>1, WakeupEffect
  <2>3. \A q \in Proc \ {p} : /\ state'[q] = "UNUSED" <=> state[q] = "UNUSED"
                              /\ state'[q] = "ZOMBIE" <=> state[q] = "ZOMBIE"
                              /\ q \in Live <=> (q \in Live)'
    BY <2>2 DEF Live
  <2>4. \A q \in Proc : parent'[q] = IF parent[q] = p THEN init ELSE parent[q]
    BY <2>1
  <2>5. Rooted'
    BY <1>i, <2>1, <2>3, <2>4 DEF Rooted
  <2>6. \A q \in Free' : parent'[q] = None
    BY <1>i, <2>2, <2>3, <2>4 DEF ParentAlive, Free
  <2>7. \A q \in (Proc \ Free)' : parent'[q] # None => parent'[q] \in Live'
    <3>1. ASSUME NEW q \in Proc, state'[q] # "UNUSED", parent'[q] # None
          PROVE  parent'[q] \in Live'
      <4>1. q \notin Free
        BY <1>p, <2>3, <3>1 DEF Free, Live
      <4>2. CASE parent[q] = p
        BY <2>4, <2>5, <4>2 DEF Rooted
      <4>3. CASE parent[q] # p
        <5>1. parent'[q] = parent[q] /\ parent[q] \in Live
          BY <2>4, <3>1, <4>1, <4>3 DEF ParentAlive
        <5>2. parent[q] \in Proc \ {p}
          BY <1>0, <3>1, <4>3, <5>1
        <5>3. QED
          BY <2>3, <5>1, <5>2
      <4>4. QED
        BY <4>2, <4>3
    <3>2. QED
      BY <3>1 DEF Free
  <2>8. \A q \in Proc \ {init} : (q \in Live \/ state[q] = "ZOMBIE")' => parent'[q] # None
    <3>1. ASSUME NEW q \in Proc \ {init}, (q \in Live \/ state[q] = "ZOMBIE")'
          PROVE  parent'[q] # None
      <4>1. q \in Live \/ state[q] = "ZOMBIE"
        BY <1>p, <2>3, <3>1
      <4>2. parent[q] # None
        BY <4>1 DEF ParentAlive
      <4>3. QED
        BY <1>i, <2>4, <4>2
    <3>2. QED
      BY <3>1
  <2>9. QED
    BY <2>5, <2>6, <2>7, <2>8 DEF ParentAlive
<1>6. CASE WaitReap(p)
  <2>1. PICK q \in Proc : /\ state[q] = "ZOMBIE"
                          /\ state' = [state EXCEPT ![q] = "UNUSED"]
                          /\ parent' = [parent EXCEPT ![q] = None]
    BY <1>6 DEF WaitReap, Children
  <2>2. \A r \in Proc : /\ state'[r] = IF r = q THEN "UNUSED" ELSE state[r]
                        /\ parent'[r] = IF r = q THEN None ELSE parent[r]
    BY <1>0, <2>1
  <2>3. QED
    BY <1>0, <1>i, <2>1, <2>2 DEF ParentAlive, Rooted, Free, Live
<1>7. CASE ~AllocProc(p) /\ ~ForkFail(p) /\ ~ForkParent(p) /\ ~ForkDone(p)
           /\ ~Exit(p) /\ ~WaitReap(p)
  <2>1. UNCHANGED parent
    BY <1>7, StepFields
  <2>2. \A q \in Proc :
           /\ state'[q] = "UNUSED" <=> state[q] = "UNUSED"
           /\ state'[q] = "ZOMBIE" <=> state[q] = "ZOMBIE"
           /\ q \in Live <=> (q \in Live)'
    BY <1>7, StepStates DEF Live
  <2>3. QED
    BY <2>1, <2>2, TreeKept
<1>8. QED
  BY <1>1, <1>2, <1>3, <1>4, <1>5, <1>6, <1>7

-----------------------------------------------------------------------------
(* Sleepers. *)

\* Who sleeps in wait().
Waiter(p) == state[p] = "SLEEPING" /\ pc[p] = "waiting"

\* They sleep on themselves, which is where exit() looks for them.
SleepsOnItself == \A p \in Proc : Waiter(p) => chan[p] = p

\* Only a process that runs in wait() becomes a waiter.
LEMMA WaitersBefore ==
  ASSUME TypeOK, EmbryoOwned, NEW p \in Proc, Step(p)
  PROVE  \A q \in Proc : Waiter(q)' => Waiter(q) \/ (q = p /\ WaitSleep(p))
<1>1. ASSUME NEW q \in Proc \ {p}, Waiter(q)'
      PROVE  Waiter(q)
  <2>1. state[q] = "SLEEPING"
    BY <1>1, StepStates DEF Waiter
  <2>2. pc[q] = "waiting"
    BY <1>1, StepFields DEF Waiter
  <2>3. QED
    BY <2>1, <2>2 DEF Waiter
<1>2. ASSUME Waiter(p)'
      PROVE  WaitSleep(p)
  <2>1. WaitSleep(p) \/ Sleep(p)
    BY <1>2, StepStates DEF Waiter
  <2>2. ~Sleep(p)
    BY <1>2 DEF Sleep, Waiter, TypeOK
  <2>3. QED
    BY <2>1, <2>2
<1>3. QED
  BY <1>1, <1>2

\* A step of a process.
LEMMA SleepersProcess ==
  ASSUME TypeOK, EmbryoOwned, SleepsOnItself, NEW p \in Proc, Step(p)
  PROVE  SleepsOnItself'
<1>1. ASSUME NEW q \in Proc \ {p}, Waiter(q)'
      PROVE  chan'[q] = q
  <2>1. Waiter(q)
    BY <1>1, WaitersBefore
  <2>2. QED
    BY <2>1, StepFields DEF SleepsOnItself
<1>2. ASSUME Waiter(p)'
      PROVE  chan'[p] = p
  <2>1. Waiter(p) \/ WaitSleep(p)
    BY <1>2, WaitersBefore
  <2>2. ~Waiter(p)
    BY StepStates DEF Waiter
  <2>3. QED
    BY <2>1, <2>2 DEF WaitSleep, TypeOK
<1>3. QED
  BY <1>1, <1>2 DEF SleepsOnItself

\* WaitersHaveReason, said with Waiter.
LEMMA ReasonByWaiter ==
  WaitersHaveReason <=>
    \A p \in Proc : Waiter(p) => /\ \E q \in Proc : parent[q] = p
                                 /\ \A q \in Proc : parent[q] = p => state[q] # "ZOMBIE"
                                 /\ ~killed[p]
BY DEF WaitersHaveReason, Waiter, Children, NoZombieChild

\* A step that makes no waiter and no zombie, and leaves the tree as it is.
LEMMA ReasonKept ==
  ASSUME WaitersHaveReason, UNCHANGED parent,
         \A q \in Proc : Waiter(q)' => Waiter(q) /\ killed'[q] = killed[q],
         \A q \in Proc : state'[q] = "ZOMBIE" => state[q] = "ZOMBIE"
  PROVE  WaitersHaveReason'
BY DEF WaitersHaveReason, Waiter, Children, NoZombieChild

\* A step of a process.
LEMMA ReasonProcess ==
  ASSUME TypeOK, EmbryoOwned, ForkStages, ParentAlive, Rooted, SleepsOnItself,
         WaitersHaveReason, NEW p \in Proc, Step(p)
  PROVE  WaitersHaveReason'
<1>0. /\ state \in [Proc -> States]
      /\ DOMAIN parent = Proc /\ killed \in [Proc -> BOOLEAN]
      /\ \A q \in Proc : parent[q] \in Proc \cup {None}
  BY DEF TypeOK, States
<1>i. None \notin Proc /\ init \in Proc
  BY InitSlot
<1>w. \A r \in Proc :
        Waiter(r) => /\ \E q \in Proc : parent[q] = r
                     /\ \A q \in Proc : parent[q] = r => state[q] # "ZOMBIE"
                     /\ ~killed[r]
  BY ReasonByWaiter
<1>n. ~Waiter(p)
  BY StepStates DEF Waiter
<1>1. CASE ForkParent(p)
  <2>1. /\ parent' = [parent EXCEPT ![child[p]] = p]
        /\ pc[p] = "copy"
        /\ UNCHANGED <<state, killed>>
    BY <1>1 DEF ForkParent
  <2>2. /\ child[p] \in Proc
        /\ parent[child[p]] = None
    BY <2>1 DEF ForkStages, TypeOK, Filling
  <2>3. \A r \in Proc : Waiter(r)' => Waiter(r) /\ r # p
    <3>1. ~WaitSleep(p)
      BY <2>1 DEF WaitSleep, Waits
    <3>2. QED
      BY <1>n, <3>1, WaitersBefore
  <2>4. ASSUME NEW r \in Proc, r # p
        PROVE  \A q \in Proc : parent'[q] = r <=> parent[q] = r
    BY <1>0, <1>i, <2>1, <2>2, <2>4
  <2>5. QED
    BY <1>w, <2>1, <2>3, <2>4 DEF WaitersHaveReason, Waiter, Children, NoZombieChild
<1>2. CASE Exit(p)
  <2>1. DEFINE orphans == {q \in Proc : parent[q] = p}
               heir == IF \E q \in orphans : state[q] = "ZOMBIE" THEN {init} ELSE {}
  <2>2. /\ Wakeup1({parent[p]} \cup heir, p, "ZOMBIE")
        /\ UNCHANGED killed
        /\ \A q \in Proc : parent'[q] = IF parent[q] = p THEN init ELSE parent[q]
    BY <1>2 DEF Exit
  <2>3. SUFFICES ASSUME NEW r \in Proc, Waiter(r)'
                 PROVE  /\ \E q \in Proc : parent'[q] = r
                        /\ \A q \in Proc : parent'[q] = r => state'[q] # "ZOMBIE"
                        /\ ~killed'[r]
    BY DEF WaitersHaveReason, Waiter, Children, NoZombieChild
  <2>4. /\ Waiter(r) /\ r # p
        /\ chan[r] = r
    <3>1. Waiter(r)
      BY <1>2, <2>3, WaitersBefore DEF Exit, WaitSleep, Waits
    <3>2. QED
      BY <1>n, <3>1 DEF SleepsOnItself
  <2>5. r # parent[p] /\ r \notin heir
    <3>1. state'[r] # "RUNNABLE"
      BY <2>3 DEF Waiter
    <3>2. state[r] = "SLEEPING"
      BY <2>4 DEF Waiter
    <3>3. ASSUME NEW channels, Wakeup1(channels, p, "ZOMBIE")
          PROVE  r \notin channels
      BY <2>4, <3>1, <3>2, <3>3, WakeupEffect
    <3>4. r \notin {parent[p]} \cup heir
      BY <2>2, <3>3
    <3>5. QED
      BY <3>4
  <2>6. ASSUME NEW q \in Proc, parent'[q] = r
        PROVE  q # p /\ state[q] # "ZOMBIE"
    <3>1. CASE parent[q] = p
      <4>1. r = init
        BY <2>2, <2>6, <3>1
      <4>2. state[q] # "ZOMBIE"
        BY <2>5, <3>1, <4>1
      <4>3. QED
        BY <3>1, <4>2 DEF Rooted
    <3>2. CASE parent[q] # p
      <4>1. parent[q] = r
        BY <2>2, <2>6, <3>2
      <4>2. QED
        BY <1>w, <2>4, <2>5, <4>1
    <3>3. QED
      BY <3>1, <3>2
  <2>7. \A q \in Proc \ {p} : state'[q] = "ZOMBIE" => state[q] = "ZOMBIE"
    BY <2>2, WakeupEffect
  <2>8. \E q \in Proc : parent'[q] = r
    <3>1. PICK q \in Proc : parent[q] = r
      BY <1>w, <2>4
    <3>2. parent'[q] = r
      BY <2>2, <2>4, <3>1
    <3>3. QED
      BY <3>2
  <2>9. ~killed'[r]
    BY <1>w, <2>2, <2>4
  <2>10. QED
    BY <2>6, <2>7, <2>8, <2>9
<1>3. CASE WaitReap(p)
  <2>1. PICK q \in Proc : /\ state[q] = "ZOMBIE" /\ parent[q] = p
                          /\ state' = [state EXCEPT ![q] = "UNUSED"]
                          /\ parent' = [parent EXCEPT ![q] = None]
                          /\ killed' = [killed EXCEPT ![q] = FALSE]
    BY <1>3 DEF WaitReap, Children
  <2>2. \A r \in Proc : Waiter(r)' => Waiter(r) /\ r # p
    <3>1. ~WaitSleep(p)
      BY <2>1 DEF WaitSleep, Children, NoZombieChild
    <3>2. QED
      BY <1>n, <3>1, WaitersBefore
  <2>3. ASSUME NEW r \in Proc, r # p
        PROVE  \A s \in Proc : parent'[s] = r <=> parent[s] = r
    BY <1>0, <1>i, <2>1, <2>3
  <2>4. \A s \in Proc : state'[s] = "ZOMBIE" => state[s] = "ZOMBIE"
    BY <1>0, <2>1
  <2>5. \A s \in Proc : ~killed[s] => ~killed'[s]
    BY <1>0, <2>1
  <2>6. QED
    BY <1>w, <2>2, <2>3, <2>4, <2>5
       DEF WaitersHaveReason, Waiter, Children, NoZombieChild
<1>4. CASE WaitSleep(p)
  <2>1. /\ \E q \in Proc : parent[q] = p
        /\ \A q \in Proc : parent[q] = p => state[q] # "ZOMBIE"
        /\ ~killed[p]
        /\ UNCHANGED <<parent, killed>>
    BY <1>4 DEF WaitSleep, Children, NoZombieChild
  <2>2. \A q \in Proc : state'[q] = "ZOMBIE" => state[q] = "ZOMBIE"
    BY <1>0, <1>4 DEF WaitSleep
  <2>3. \A q \in Proc : Waiter(q)' => Waiter(q) \/ q = p
    BY WaitersBefore
  <2>4. QED
    BY <1>w, <2>1, <2>2, <2>3 DEF WaitersHaveReason, Waiter, Children, NoZombieChild
<1>5. CASE Kill(p)
  <2>1. \/ UNCHANGED <<state, killed>>
        \/ \E q \in Proc :
             /\ killed' = [killed EXCEPT ![q] = TRUE]
             /\ state' = [state EXCEPT ![q] = IF @ = "SLEEPING" THEN "RUNNABLE"
                                              ELSE @]
    BY <1>5 DEF Kill
  <2>2. \A q \in Proc : state'[q] = "SLEEPING" => killed'[q] = killed[q]
    BY <1>0, <2>1
  <2>3. \A q \in Proc : state'[q] = "ZOMBIE" => state[q] = "ZOMBIE"
    BY <1>0, <2>1
  <2>4. \A q \in Proc : Waiter(q)' => Waiter(q)
    BY <1>5, WaitersBefore DEF Kill, WaitSleep, Waits
  <2>5. QED
    BY <1>5, <2>2, <2>3, <2>4, ReasonKept DEF Kill, Waiter
<1>6. CASE ~ForkParent(p) /\ ~Exit(p) /\ ~WaitReap(p) /\ ~WaitSleep(p) /\ ~Kill(p)
  <2>1. UNCHANGED <<parent, killed>>
    BY <1>6, StepFields
  <2>2. \A q \in Proc : state'[q] = "ZOMBIE" => state[q] = "ZOMBIE"
    BY <1>6, StepStates
  <2>3. \A q \in Proc : Waiter(q)' => Waiter(q)
    BY <1>6, WaitersBefore
  <2>4. QED
    BY <2>1, <2>2, <2>3, ReasonKept
<1>7. QED
  BY <1>1, <1>2, <1>3, <1>4, <1>5, <1>6

-----------------------------------------------------------------------------
(* The steps that are not a process's: scheduler(), the timer, the panic. *)

\* No process takes these steps.
KernelStep == (\E c \in CPU : Scheduler(c)) \/ Tick \/ InitExits

\* The timer's wakeup.
LEMMA TickEffect ==
  ASSUME TypeOK, Wakeup1({Ticks}, None, "none")
  PROVE  \A q \in Proc :
           \/ state'[q] = state[q]
           \/ state[q] = "SLEEPING" /\ state'[q] = "RUNNABLE"
<1>1. \A q \in Proc : q # None
  BY InitSlot
<1>2. QED
  BY <1>1 DEF Wakeup1

\* What they do to the slots.
LEMMA KernelSteps ==
  ASSUME TypeOK, KernelStep
  PROVE  /\ UNCHANGED <<pid, parent, killed, nextpid, pc, child>>
         /\ \A q \in Proc : \/ state'[q] = state[q]
                            \/ state[q] = "SLEEPING" /\ state'[q] = "RUNNABLE"
                            \/ state[q] = "RUNNABLE" /\ state'[q] = "RUNNING"
         /\ \A q \in Proc : state'[q] = "SLEEPING" => chan'[q] = chan[q]
<1>0. DOMAIN state = Proc /\ DOMAIN chan = Proc
  BY DEF TypeOK
<1>1. CASE \E c \in CPU : Scheduler(c)
  <2>1. PICK c \in CPU : Scheduler(c)
    BY <1>1
  <2>2. CASE UNCHANGED slots
    BY <2>1, <2>2 DEF Scheduler, SchedTotal, SchedDraw, SchedRun, slots
  <2>3. CASE SchedRun(c)
    <3>1. \/ UNCHANGED <<state, chan>>
          \/ \E p \in Reached(win[c]) : /\ state' = [state EXCEPT ![p] = "RUNNING"]
                                        /\ chan' = [chan EXCEPT ![p] = None]
      BY <2>3 DEF SchedRun
    <3>2. \A p \in Reached(win[c]) : p \in Proc /\ state[p] = "RUNNABLE"
      BY DEF Reached, Runnable
    <3>3. UNCHANGED <<pid, parent, killed, nextpid, pc, child>>
      BY <2>3 DEF SchedRun
    <3>4. QED
      BY <1>0, <3>1, <3>2, <3>3
  <2>4. QED
    BY <2>1, <2>2, <2>3 DEF Scheduler, SchedTotal, SchedDraw
<1>2. CASE Tick
  <2>1. /\ Wakeup1({Ticks}, None, "none")
        /\ UNCHANGED <<pid, parent, killed, nextpid, pc, child, chan>>
    BY <1>2 DEF Tick
  <2>2. \A q \in Proc : \/ state'[q] = state[q]
                        \/ state[q] = "SLEEPING" /\ state'[q] = "RUNNABLE"
    BY <2>1, TickEffect
  <2>3. QED
    BY <2>1, <2>2
<1>3. CASE InitExits
  BY <1>3 DEF InitExits, slots
<1>4. QED
  BY <1>1, <1>2, <1>3 DEF KernelStep

\* They keep a process on one processor.
LEMMA OneCpuKernel ==
  ASSUME TypeOK, OnOneCpu, KernelStep
  PROVE  OnOneCpu'
<1>1. CASE \E c \in CPU : Scheduler(c)
  BY <1>1, OneCpuScheduler
<1>2. CASE Tick
  <2>1. Wakeup1({Ticks}, None, "none") /\ UNCHANGED <<proc, spc, ptlock>>
    BY <1>2 DEF Tick, cpus
  <2>2. SameRunning(Proc)
    BY <2>1, TickEffect DEF SameRunning
  <2>3. QED
    BY <2>1, <2>2, CpusKept
<1>3. CASE InitExits
  BY <1>3, CpusKept DEF InitExits, slots, cpus, SameRunning
<1>4. QED
  BY <1>1, <1>2, <1>3 DEF KernelStep

-----------------------------------------------------------------------------
(* The inductive invariant. *)

\* OnOneCpu and PidsUnique lean on EmbryoOwned: fork() frees or starts only the
\* slot it owns.  ParentAlive leans on ForkStages, which says whose child a slot
\* is while it is being filled, and on Rooted, which keeps init there to inherit;
\* WaitersHaveReason leans on all of them and on SleepsOnItself, since exit()
\* looks for its parent asleep on itself.
TableInv ==
  /\ TypeOK
  /\ OnOneCpu
  /\ EmbryoOwned
  /\ PidsUnique
  /\ ForkStages
  /\ ParentAlive
  /\ Rooted
  /\ SleepsOnItself
  /\ WaitersHaveReason

\* It holds at the start.
LEMMA TableInit == Init => TableInv
<1>1. SUFFICES ASSUME Init PROVE TableInv
  OBVIOUS
<1>i. init \in Proc /\ None \notin Proc /\ init # None
  BY InitSlot
<1>2. TypeOK
  BY <1>1, TypeInit
<1>3. /\ \A p \in Proc : /\ state[p] = IF p = init THEN "RUNNABLE" ELSE "UNUSED"
                         /\ pid[p] = IF p = init THEN 1 ELSE 0
                         /\ parent[p] = None
                         /\ pc[p] = "user"
                         /\ child[p] = None
      /\ \A c \in CPU : proc[c] = None /\ spc[c] = "loop"
      /\ nextpid = 2 /\ ptlock = None
  BY <1>1 DEF Init
<1>4. OnOneCpu
  BY <1>i, <1>3 DEF OnOneCpu
<1>5. EmbryoOwned
  BY <1>i, <1>3 DEF EmbryoOwned
<1>6. PidsUnique
  BY <1>3 DEF PidsUnique
<1>7. ForkStages
  BY <1>3 DEF ForkStages, Filling
<1>8. Rooted
  BY <1>i, <1>3 DEF Rooted, Live
<1>9. ParentAlive
  BY <1>3 DEF ParentAlive, Free, Live
<1>10. SleepsOnItself /\ WaitersHaveReason
  BY <1>3 DEF SleepsOnItself, WaitersHaveReason, Waiter
<1>11. QED
  BY <1>2, <1>4, <1>5, <1>6, <1>7, <1>8, <1>9, <1>10 DEF TableInv

\* Every step keeps it.
LEMMA TableStep == TableInv /\ [Next]_vars => TableInv'
<1>1. SUFFICES ASSUME TableInv, [Next]_vars PROVE TableInv'
  OBVIOUS
<1>2. TypeOK'
  BY <1>1, TypeStep DEF TableInv
<1>3. CASE \E p \in Proc : Step(p)
  BY <1>1, <1>2, <1>3, OneCpuProcess, EmbryoProcess, PidsProcess, StagesProcess,
     TreeProcess, SleepersProcess, ReasonProcess DEF TableInv
<1>4. CASE KernelStep
  <2>1. OnOneCpu'
    BY <1>1, <1>4, OneCpuKernel DEF TableInv
  <2>2. /\ UNCHANGED <<pid, parent, killed, nextpid, pc, child>>
        /\ \A q \in Proc : \/ state'[q] = state[q]
                           \/ state[q] = "SLEEPING" /\ state'[q] = "RUNNABLE"
                           \/ state[q] = "RUNNABLE" /\ state'[q] = "RUNNING"
        /\ \A q \in Proc : state'[q] = "SLEEPING" => chan'[q] = chan[q]
    BY <1>1, <1>4, KernelSteps DEF TableInv
  <2>3. EmbryoOwned'
    BY <1>1, <2>2, FillersFork, EmbryosKept DEF TableInv
  <2>4. PidsUnique'
    BY <1>1, <2>2 DEF TableInv, PidsUnique
  <2>5. ForkStages'
    BY <1>1, <2>2 DEF TableInv, ForkStages
  <2>6. ParentAlive' /\ Rooted'
    BY <1>1, <2>2, TreeKept DEF TableInv, Live
  <2>7. \A q \in Proc : Waiter(q)' => Waiter(q)
    BY <2>2 DEF Waiter
  <2>8. SleepsOnItself'
    BY <1>1, <2>2, <2>7 DEF TableInv, SleepsOnItself, Waiter
  <2>9. WaitersHaveReason'
    BY <1>1, <2>2, <2>7, ReasonKept DEF TableInv
  <2>10. QED
    BY <1>2, <2>1, <2>3, <2>4, <2>5, <2>6, <2>8, <2>9 DEF TableInv
<1>5. CASE UNCHANGED vars
  <2>1. UNCHANGED <<state, pid, parent, killed, chan, nextpid, pc, child, proc,
                    spc, ptlock>>
    BY <1>5 DEF vars, slots, cpus
  <2>2. OnOneCpu' /\ EmbryoOwned' /\ PidsUnique' /\ ForkStages'
    BY <1>1, <2>1
       DEF TableInv, OnOneCpu, EmbryoOwned, Live, PidsUnique, ForkStages
  <2>3. ParentAlive' /\ Rooted' /\ SleepsOnItself' /\ WaitersHaveReason'
    BY <1>1, <2>1
       DEF TableInv, ParentAlive, Free, Live, Rooted, SleepsOnItself, Waiter,
           WaitersHaveReason, Children, NoZombieChild
  <2>4. QED
    BY <1>2, <2>2, <2>3 DEF TableInv
<1>6. QED
  BY <1>1, <1>3, <1>4, <1>5 DEF Next, Works, Halted, KernelStep

\* The table is always consistent: one processor for a process, one fork() for
\* an EMBRYO, one pid for a slot, a living parent for every process, and a
\* reason to sleep for everybody who waits.
THEOREM TableCorrect == Spec => []TableInv
BY TableInit, TableStep, PTL DEF Spec

\* A process is on one processor at most, and on one exactly when it is RUNNING.
THEOREM OneCpuAlways == Spec => []OnOneCpu
<1>1. TableInv => OnOneCpu
  BY DEF TableInv
<1>2. QED
  BY <1>1, TableCorrect, PTL

\* Every slot that fork() is filling belongs to one fork() of a living process.
THEOREM EmbryoOwnedAlways == Spec => []EmbryoOwned
<1>1. TableInv => EmbryoOwned
  BY DEF TableInv
<1>2. QED
  BY <1>1, TableCorrect, PTL

\* No pid is given out twice.
THEOREM PidsUniqueAlways == Spec => []PidsUnique
<1>1. TableInv => PidsUnique
  BY DEF TableInv
<1>2. QED
  BY <1>1, TableCorrect, PTL

\* exit() leaves no orphan.
THEOREM ParentAliveAlways == Spec => []ParentAlive
<1>1. TableInv => ParentAlive
  BY DEF TableInv
<1>2. QED
  BY <1>1, TableCorrect, PTL

\* No wakeup of a process in wait() is lost.
THEOREM NoLostWakeup == Spec => []WaitersHaveReason
<1>1. TableInv => WaitersHaveReason
  BY DEF TableInv
<1>2. QED
  BY <1>1, TableCorrect, PTL

-----------------------------------------------------------------------------
(* Zombies. *)

\* A step leaves a zombie as it is, or its parent reaps it.
LEMMA ZombieStep == TableInv /\ [Next]_vars => [ZombieAction]_vars
<1>1. SUFFICES ASSUME TableInv, Next PROVE ZombieAction
  OBVIOUS
<1>2. SUFFICES ASSUME NEW q \in Proc, state[q] = "ZOMBIE"
               PROVE  \/ state'[q] = "ZOMBIE" /\ pid'[q] = pid[q]
                      \/ /\ state'[q] = "UNUSED"
                         /\ state[parent[q]] = "RUNNING"
                         /\ pc[parent[q]] \in {"wait", "waiting"}
  BY DEF ZombieAction
<1>t. TypeOK /\ EmbryoOwned
  BY <1>1 DEF TableInv
<1>3. ASSUME NEW p \in Proc, Step(p)
      PROVE  \/ state'[q] = "ZOMBIE" /\ pid'[q] = pid[q]
             \/ /\ state'[q] = "UNUSED"
                /\ state[parent[q]] = "RUNNING"
                /\ pc[parent[q]] \in {"wait", "waiting"}
  <2>1. state[p] = "RUNNING" /\ q # p
    BY <1>t, <1>2, <1>3, StepStates
  <2>2. CASE state'[q] # "ZOMBIE"
    <3>1. state'[q] = "UNUSED" /\ WaitReap(p) /\ parent[q] = p
      BY <1>t, <1>2, <1>3, <2>1, <2>2, StepStates
    <3>2. pc[p] \in {"wait", "waiting"}
      BY <3>1 DEF WaitReap, Waits
    <3>3. QED
      BY <2>1, <3>1, <3>2
  <2>3. CASE state'[q] = "ZOMBIE"
    <3>1. CASE AllocProc(p)
      <4>1. PICK np \in Proc : /\ state[np] = "UNUSED"
                               /\ pid' = [pid EXCEPT ![np] = nextpid]
        BY <3>1 DEF AllocProc
      <4>2. QED
        BY <1>t, <1>2, <2>3, <4>1 DEF TypeOK
    <3>2. CASE WaitReap(p)
      <4>1. PICK r \in Proc : /\ state' = [state EXCEPT ![r] = "UNUSED"]
                              /\ pid' = [pid EXCEPT ![r] = 0]
        BY <3>2 DEF WaitReap, Children
      <4>2. q # r
        BY <1>t, <2>3, <4>1 DEF TypeOK
      <4>3. QED
        BY <1>t, <2>3, <4>1, <4>2 DEF TypeOK
    <3>3. CASE ~AllocProc(p) /\ ~WaitReap(p)
      BY <1>t, <1>3, <2>3, <3>3, StepFields
    <3>4. QED
      BY <3>1, <3>2, <3>3
  <2>4. QED
    BY <2>2, <2>3
<1>4. CASE KernelStep
  BY <1>t, <1>2, <1>4, KernelSteps
<1>5. CASE UNCHANGED vars
  BY <1>2, <1>5 DEF vars, slots
<1>6. QED
  BY <1>1, <1>3, <1>4, <1>5 DEF Next, Works, Halted, KernelStep

\* A zombie stays one, with its pid, until its parent reaps it in wait().
THEOREM ZombiesWait == Spec => ZombieWaits
BY TableCorrect, ZombieStep, PTL DEF Spec, ZombieWaits

-----------------------------------------------------------------------------
(* The sums of the lottery. *)

\* The element that the fold takes from a set.
Taken(s) == CHOOSE x \in s : TRUE

\* f gives the sum of t over each of the sets in D, as the fold computes it.
Folds(f, t, D) ==
  f = [s \in D |-> IF s = {} THEN 0 ELSE t[Taken(s)] + f[s \ {Taken(s)}]]

\* Least number principle.
LEMMA LeastNumber ==
  ASSUME NEW N, N \subseteq Nat, N # {}
  PROVE  \E n \in N : \A k \in N : n <= k
<1> DEFINE R == OpToRel(<, Nat)
<1>1. PICK n \in N : \A k \in N : ~(<<k, n>> \in R)
  BY NatLessThanWellFounded, WFMin
<1>2. ASSUME NEW k \in N PROVE n <= k
  <2>1. ~(k < n)
    BY <1>1 DEF OpToRel
  <2>2. QED
    BY <2>1
<1>3. QED
  BY <1>2

\* The fold over a finite set has a value.
LEMMA FoldExists ==
  ASSUME NEW S, IsFiniteSet(S), NEW t
  PROVE  \E f : Folds(f, t, SUBSET S)
<1> DEFINE Small(n) == {s \in SUBSET S : Cardinality(s) <= n}
           None0 == {n \in Nat : ~\E f : Folds(f, t, Small(n))}
<1>1. \A s \in SUBSET S : IsFiniteSet(s) /\ Cardinality(s) \in Nat /\ Cardinality(s) <= Cardinality(S)
  BY FS_Subset, FS_CardinalityType
<1>2. ASSUME NEW s \in SUBSET S, s # {}
      PROVE  /\ Taken(s) \in s /\ s \ {Taken(s)} \in SUBSET S
             /\ Cardinality(s \ {Taken(s)}) = Cardinality(s) - 1
  <2>1. Taken(s) \in s
    BY <1>2 DEF Taken
  <2>2. QED
    BY <1>1, <2>1, FS_RemoveElement
<1>3. None0 = {}
  <2>1. SUFFICES ASSUME None0 # {} PROVE FALSE
    OBVIOUS
  <2>2. PICK n \in None0 : \A k \in None0 : n <= k
    BY <2>1, LeastNumber
  <2>3. n # 0
    <3>1. SUFFICES ASSUME n = 0 PROVE \E f : Folds(f, t, Small(n))
      BY <2>2
    <3>2. \A s \in Small(n) : s = {}
      BY <1>1, <3>1, FS_EmptySet
    <3>3. Folds([s \in Small(n) |-> 0], t, Small(n))
      BY <3>2 DEF Folds
    <3>4. QED
      BY <3>3
  <2>4. n \in Nat /\ n - 1 \in Nat /\ n - 1 \notin None0
    <3>1. n \in Nat /\ n - 1 \in Nat
      BY <2>2, <2>3
    <3>2. ~(n <= n - 1)
      BY <3>1
    <3>3. QED
      BY <2>2, <3>1, <3>2
  <2>5. PICK g : Folds(g, t, Small(n - 1))
    BY <2>4
  <2>6. PICK f : f = [s \in Small(n) |-> IF s = {} THEN 0 ELSE t[Taken(s)] + g[s \ {Taken(s)}]]
    OBVIOUS
  <2>7. \A s \in Small(n - 1) : s \in Small(n) /\ g[s] = f[s]
    <3>1. SUFFICES ASSUME NEW s \in Small(n - 1) PROVE s \in Small(n) /\ g[s] = f[s]
      OBVIOUS
    <3>2. s \in Small(n)
      BY <1>1, <2>4
    <3>3. g[s] = IF s = {} THEN 0 ELSE t[Taken(s)] + g[s \ {Taken(s)}]
      BY <2>5 DEF Folds
    <3>4. f[s] = IF s = {} THEN 0 ELSE t[Taken(s)] + g[s \ {Taken(s)}]
      BY <2>6, <3>2
    <3>5. QED
      BY <3>2, <3>3, <3>4
  <2>8. ASSUME NEW s \in Small(n), s # {} PROVE s \ {Taken(s)} \in Small(n - 1)
    BY <1>1, <1>2, <2>4, <2>8
  <2>9. Folds(f, t, Small(n))
    BY <2>6, <2>7, <2>8 DEF Folds
  <2>10. QED
    BY <2>2, <2>9
<1>4. Cardinality(S) \in Nat /\ Small(Cardinality(S)) = SUBSET S
  BY <1>1, FS_CardinalityType
<1>5. QED
  BY <1>3, <1>4

\* A statement about the subsets of a finite set holds of all if it holds of each whose
\* proper subsets it holds of.
LEMMA SubsetMin ==
  ASSUME NEW S, IsFiniteSet(S), NEW T, T \subseteq SUBSET S, T # {}
  PROVE  \E s \in T : \A r \in T : ~(r \subseteq s /\ r # s)
<1>1. \A s \in T : IsFiniteSet(s) /\ Cardinality(s) \in Nat
  BY FS_Subset, FS_CardinalityType
<1>2. PICK N : N = {Cardinality(s) : s \in T}
  OBVIOUS
<1>3. PICK n \in N : \A k \in N : n <= k
  <2>1. N \subseteq Nat /\ N # {}
    BY <1>1, <1>2
  <2>2. QED
    BY <2>1, LeastNumber
<1>4. PICK s \in T : Cardinality(s) = n
  BY <1>2, <1>3
<1>5. ASSUME NEW r \in T, r \subseteq s, r # s PROVE FALSE
  <2>1. Cardinality(r) < Cardinality(s)
    BY <1>1, <1>5, FS_Subset
  <2>2. Cardinality(s) <= Cardinality(r)
    BY <1>2, <1>3, <1>4, <1>5
  <2>3. QED
    BY <1>1, <2>1, <2>2
<1>6. QED
  BY <1>5

\* The sum over a set does not depend on the set that the fold starts from,
LEMMA FoldUnique ==
  ASSUME NEW S, IsFiniteSet(S), NEW t, NEW f, Folds(f, t, SUBSET S),
         NEW U \in SUBSET S, NEW g, Folds(g, t, SUBSET U)
  PROVE  g[U] = f[U]
<1>1. PICK T : T = {s \in SUBSET U : g[s] # f[s]}
  OBVIOUS
<1>2. SUFFICES ASSUME T # {} PROVE FALSE
  BY <1>1
<1>3. PICK s \in T : \A r \in T : ~(r \subseteq s /\ r # s)
  BY <1>1, <1>2, SubsetMin
<1>4. s \in SUBSET U /\ s \in SUBSET S /\ g[s] # f[s]
  BY <1>1, <1>3
<1>5. s # {}
  BY <1>4 DEF Folds
<1>6. Taken(s) \in s
  BY <1>5 DEF Taken
<1>7. g[s \ {Taken(s)}] = f[s \ {Taken(s)}]
  BY <1>1, <1>3, <1>4, <1>6
<1>8. g[s] = t[Taken(s)] + g[s \ {Taken(s)}] /\ f[s] = t[Taken(s)] + f[s \ {Taken(s)}]
  BY <1>4, <1>5 DEF Folds
<1>9. QED
  BY <1>4, <1>7, <1>8

\* nor on the order in which elements are taken,
Adds(f, t, S) ==
  /\ f[{}] = 0
  /\ \A s \in SUBSET S : f[s] \in Nat /\ \A x \in s : f[s] = t[x] + f[s \ {x}]

\* The fold adds the elements up in any order.
LEMMA FoldAdds ==
  ASSUME NEW S, IsFiniteSet(S), NEW t, \A x \in S : t[x] \in Nat, NEW f, Folds(f, t, SUBSET S)
  PROVE  Adds(f, t, S)
<1>1. PICK T : T = {s \in SUBSET S : ~(f[s] \in Nat /\ \A x \in s : f[s] = t[x] + f[s \ {x}])}
  OBVIOUS
<1>2. f[{}] = 0
  BY DEF Folds
<1>3. SUFFICES ASSUME T # {} PROVE FALSE
  BY <1>1, <1>2 DEF Adds
<1>4. PICK s \in T : \A r \in T : ~(r \subseteq s /\ r # s)
  <2>1. T \subseteq SUBSET S
    BY <1>1
  <2>2. QED
    BY <1>3, <2>1, SubsetMin
<1>5. s \in SUBSET S /\ s # {}
  <2>1. s \in SUBSET S /\ ~(f[s] \in Nat /\ \A x \in s : f[s] = t[x] + f[s \ {x}])
    BY <1>1, <1>4
  <2>2. CASE s = {}
    <3>1. f[s] \in Nat /\ \A x \in s : f[s] = t[x] + f[s \ {x}]
      BY <1>2, <2>2
    <3>2. QED
      BY <2>1, <3>1
  <2>3. QED
    BY <2>1, <2>2
<1>6. PICK y : y = Taken(s)
  OBVIOUS
<1>7. y \in s
  BY <1>5, <1>6 DEF Taken
<1>8. f[s] = t[y] + f[s \ {y}]
  BY <1>5, <1>6 DEF Folds
<1>9. ASSUME NEW r \in SUBSET S, r \subseteq s, r # s
      PROVE  f[r] \in Nat /\ \A x \in r : f[r] = t[x] + f[r \ {x}]
  BY <1>1, <1>4, <1>9
<1>10. f[s \ {y}] \in Nat /\ f[s] \in Nat
  <2>1. f[s \ {y}] \in Nat
    BY <1>5, <1>7, <1>9
  <2>2. t[y] \in Nat
    BY <1>5, <1>7
  <2>3. QED
    BY <1>8, <2>1, <2>2
<1>11. ASSUME NEW x \in s PROVE f[s] = t[x] + f[s \ {x}]
  <2>1. CASE x = y
    BY <1>8, <2>1
  <2>2. CASE x # y
    <3>1. f[s \ {y}] = t[x] + f[(s \ {y}) \ {x}]
      BY <1>5, <1>7, <1>9, <2>2
    <3>2. f[s \ {x}] = t[y] + f[(s \ {x}) \ {y}]
      BY <1>5, <1>7, <1>9, <2>2
    <3>3. PICK w : w = f[(s \ {y}) \ {x}]
      OBVIOUS
    <3>4. (s \ {y}) \ {x} = (s \ {x}) \ {y}
      OBVIOUS
    <3>5. w \in Nat /\ t[x] \in Nat /\ t[y] \in Nat
      <4>1. (s \ {y}) \ {x} \in SUBSET S /\ (s \ {y}) \ {x} \subseteq s /\ (s \ {y}) \ {x} # s
        BY <1>5, <1>7
      <4>2. QED
        BY <1>5, <1>7, <1>9, <3>3, <4>1
    <3>6. PICK v, u : v = f[s \ {y}] /\ u = f[s \ {x}]
      OBVIOUS
    <3>7. v = t[x] + w /\ u = t[y] + w /\ f[s] = t[y] + v
      BY <1>8, <3>1, <3>2, <3>3, <3>4, <3>6
    <3>8. f[s] = t[x] + u
      BY <3>5, <3>7
    <3>9. QED
      BY <3>6, <3>8
  <2>3. QED
    BY <2>1, <2>2
<1>12. QED
  BY <1>1, <1>4, <1>10, <1>11

\* and a larger set has no smaller sum.
LEMMA FoldGrows ==
  ASSUME NEW S, IsFiniteSet(S), NEW t, \A x \in S : t[x] \in Nat, NEW f, Folds(f, t, SUBSET S),
         NEW a \in SUBSET S, NEW b \in SUBSET S, a \subseteq b
  PROVE  f[a] <= f[b]
<1>1. PICK T : T = {s \in SUBSET S : a \subseteq s /\ ~(f[a] <= f[s])}
  OBVIOUS
<1>2. SUFFICES ASSUME T # {} PROVE FALSE
  BY <1>1
<1>3. PICK s \in T : \A r \in T : ~(r \subseteq s /\ r # s)
  BY <1>1, <1>2, SubsetMin
<1>4. s \in SUBSET S /\ a \subseteq s /\ ~(f[a] <= f[s])
  BY <1>1, <1>3
<1>5. \A r \in SUBSET S : f[r] \in Nat /\ \A x \in r : f[r] = t[x] + f[r \ {x}]
  <2>1. Adds(f, t, S)
    BY FoldAdds
  <2>2. QED
    BY <2>1 DEF Adds
<1>6. PICK x \in s : x \notin a
  <2>1. s # a
    BY <1>4, <1>5
  <2>2. QED
    BY <1>4, <2>1
<1>7. s \ {x} \in SUBSET S /\ f[s] = t[x] + f[s \ {x}] /\ t[x] \in Nat
  BY <1>4, <1>5, <1>6
<1>8. f[a] <= f[s \ {x}]
  BY <1>1, <1>3, <1>4, <1>6, <1>7
<1>9. f[a] \in Nat /\ f[s \ {x}] \in Nat
  BY <1>5, <1>7
<1>10. QED
  BY <1>4, <1>7, <1>8, <1>9

SumOf(t, s) == MapThenSumSet(LAMBDA p : t[p], s)

\* f gives the sums of t over the subsets of S: what the lottery needs to know of them.
IsSum(f, t, S) ==
  /\ f[{}] = 0
  /\ \A s \in SUBSET S : f[s] \in Nat /\ SumOf(t, s) = f[s]
  /\ \A a, b \in SUBSET S : a \subseteq b => f[a] <= f[b]

\* The sums that the lottery compares exist.
LEMMA SumFacts ==
  ASSUME NEW S, IsFiniteSet(S), NEW t, \A x \in S : t[x] \in Nat
  PROVE  \E f : IsSum(f, t, S)
<1>1. PICK f : Folds(f, t, SUBSET S)
  BY FoldExists
<1>2. ASSUME NEW s \in SUBSET S PROVE SumOf(t, s) = f[s]
  <2>1. IsFiniteSet(s)
    BY FS_Subset
  <2>2. PICK e : Folds(e, t, SUBSET s)
    BY <2>1, FoldExists
  <2>3. PICK g : g = CHOOSE e0 : Folds(e0, t, SUBSET s)
    OBVIOUS
  <2>4. Folds(g, t, SUBSET s)
    BY <2>2, <2>3
  <2>5. SumOf(t, s) = g[s]
    BY <2>3 DEF SumOf, MapThenSumSet, MapThenFoldSet, Folds, Taken
  <2>6. QED
    <3>1. g[s] = f[s]
      BY <1>1, <2>4, FoldUnique, SMTT(60)
    <3>2. QED
      BY <2>5, <3>1
<1>3. f[{}] = 0 /\ \A s \in SUBSET S : f[s] \in Nat
  BY <1>1, FoldAdds DEF Adds
<1>4. \A a, b \in SUBSET S : a \subseteq b => f[a] <= f[b]
  BY <1>1, FoldGrows
<1>5. QED
  BY <1>2, <1>3, <1>4 DEF IsSum

-----------------------------------------------------------------------------
(* The lottery on a machine with one processor. *)

\* The Makefile starts qemu with one (CPUS := 1).
OneProcessor == \A c, d \in CPU : c = d

\* What the CPU in the middle of a drawing knows of the sum of the tickets.
LotteryInv ==
  /\ NoDivisionByZero
  /\ \A c \in CPU : /\ spc[c] = "draw" => Total # 0
                    /\ spc[c] = "run" => win[c] < Total

\* A ticket is a number.
LEMMA TicketNat == Ticket \subseteq Nat
<1>1. NPROC * MaxTickets \in Nat
  BY ProcAssumption
<1>2. QED
  BY <1>1 DEF Ticket

\* The sums of the tickets, now and after a step that leaves the tickets alone.
LEMMA TotalFacts ==
  ASSUME TypeOK
  PROVE  \E f : /\ f[{}] = 0
                /\ \A s \in SUBSET Proc : f[s] \in Nat
                /\ \A a, b \in SUBSET Proc : a \subseteq b => f[a] <= f[b]
                /\ Total = f[Runnable]
                /\ \A p \in Proc : CountTo(p) = f[{q \in Runnable : q <= p}]
                /\ UNCHANGED tickets => Total' = f[Runnable']
<1>1. PICK t : t = tickets
  OBVIOUS
<1>2. IsFiniteSet(Proc) /\ \A x \in Proc : t[x] \in Nat
  <2>1. IsFiniteSet(Proc)
    BY ProcAssumption, FS_Interval DEF Proc
  <2>2. ASSUME NEW x \in Proc PROVE t[x] \in Nat
    <3>1. t[x] \in 0 .. MaxTickets
      BY <1>1 DEF TypeOK
    <3>2. QED
      BY <3>1, ProcAssumption
  <2>3. QED
    BY <2>1, <2>2
<1>3. PICK f : IsSum(f, t, Proc)
  BY <1>2, SumFacts
<1>4. Total = f[Runnable]
  <2>1. Total = SumOf(t, Runnable)
    BY <1>1 DEF SumOf, Total, MapThenSumSet, MapThenFoldSet
  <2>2. Runnable \in SUBSET Proc
    BY DEF Runnable
  <2>3. QED
    BY <1>3, <2>1, <2>2 DEF IsSum
<1>5. ASSUME NEW p \in Proc PROVE CountTo(p) = f[{q \in Runnable : q <= p}]
  <2>1. CountTo(p) = SumOf(t, {q \in Runnable : q <= p})
    BY <1>1 DEF SumOf, CountTo, MapThenSumSet, MapThenFoldSet
  <2>2. {q \in Runnable : q <= p} \in SUBSET Proc
    BY DEF Runnable
  <2>3. QED
    BY <1>3, <2>1, <2>2 DEF IsSum
<1>6. ASSUME UNCHANGED tickets PROVE Total' = f[Runnable']
  <2>1. Total' = SumOf(t, Runnable')
    BY <1>1, <1>6 DEF SumOf, Total, MapThenSumSet, MapThenFoldSet
  <2>2. Runnable' \in SUBSET Proc
    BY DEF Runnable
  <2>3. QED
    BY <1>3, <2>1, <2>2 DEF IsSum
<1>7. QED
  BY <1>3, <1>4, <1>5, <1>6 DEF IsSum

\* Who is not smaller than the tickets of all those who are RUNNABLE is reached.
LEMMA TotalReached ==
  ASSUME TypeOK, NEW w \in Nat, w < Total
  PROVE  Reached(w) # {}
<1>1. PICK f : /\ f[{}] = 0
               /\ \A s \in SUBSET Proc : f[s] \in Nat
               /\ Total = f[Runnable]
               /\ \A p \in Proc : CountTo(p) = f[{q \in Runnable : q <= p}]
  BY TotalFacts
<1>2. Runnable \in SUBSET Proc /\ Proc \subseteq Nat /\ IsFiniteSet(Runnable)
  <2>1. IsFiniteSet(Proc) /\ Runnable \in SUBSET Proc
    BY ProcAssumption, FS_Interval DEF Runnable, Proc
  <2>2. Proc \subseteq Nat
    BY ProcAssumption DEF Proc
  <2>3. QED
    BY <2>1, <2>2, FS_Subset
<1>3. Runnable # {}
  <2>1. Total # 0
    OBVIOUS
  <2>2. QED
    BY <1>1, <2>1
<1>4. PICK p \in Runnable : \A q \in Runnable : q <= p
  <2>1. PICK N : N = {n \in Nat : \A q \in Runnable : q <= n}
    OBVIOUS
  <2>2. NPROC \in N
    BY <1>2, <2>1, ProcAssumption DEF Proc
  <2>3. PICK n \in N : \A k \in N : n <= k
    BY <2>1, <2>2, LeastNumber
  <2>4. n \in Nat /\ \A q \in Runnable : q <= n
    BY <2>1, <2>3
  <2>5. n \in Runnable
    <3>1. SUFFICES ASSUME n \notin Runnable PROVE FALSE
      OBVIOUS
    <3>2. \A q \in Runnable : q \in Nat \ {0} /\ q < n
      BY <1>2, <2>4, <3>1 DEF Proc
    <3>3. n - 1 \in Nat /\ \A q \in Runnable : q <= n - 1
      BY <1>3, <2>4, <3>2
    <3>4. n <= n - 1
      BY <2>1, <2>3, <3>3
    <3>5. QED
      BY <2>4, <3>4
  <2>6. QED
    BY <2>4, <2>5
<1>5. {q \in Runnable : q <= p} = Runnable
  BY <1>4
<1>6. CountTo(p) = Total /\ Total \in Nat
  BY <1>1, <1>2, <1>4, <1>5
<1>7. QED
  BY <1>4, <1>6 DEF Reached

\* A step of the kernel on the only processor, in the middle of a drawing or not.
LEMMA LotteryStep ==
  ASSUME OneProcessor, TypeOK, OnOneCpu, LotteryInv, [Next]_vars
  PROVE  LotteryInv'
<1>1. CASE UNCHANGED vars
  <2>1. UNCHANGED <<state, tickets, spc, win, panicked>>
    BY <1>1 DEF vars, slots, cpus
  <2>2. Total' = Total
    <3>1. Runnable' = Runnable
      BY <2>1 DEF Runnable
    <3>2. QED
      BY <2>1, <3>1, TotalFacts
  <2>3. QED
    BY <2>1, <2>2 DEF LotteryInv, NoDivisionByZero
<1>2. ASSUME NEW p \in Proc, Step(p) PROVE LotteryInv'
  <2>1. Running(p)
    BY <1>2 DEF Step, Resume, Yield, Syscall, SetTickets, AllocProc, AllocProcFull, ForkFail,
                ForkParent, ForkTickets, ForkDone, Exit, WaitReap, WaitFail, WaitSleep,
                SleepCheck, Sleep, Kill, Locks, Waits
  <2>2. \A c \in CPU : spc[c] = "loop"
    <3>1. PICK c \in CPU : proc[c] = p
      BY <2>1 DEF Running, OnOneCpu
    <3>2. spc[c] = "loop"
      BY <3>1, InitSlot DEF OnOneCpu
    <3>3. QED
      BY <3>2 DEF OneProcessor
  <2>3. UNCHANGED <<spc, panicked>>
    BY <1>2 DEF Step, Resume, Yield, Syscall, SetTickets, AllocProc, AllocProcFull, ForkFail,
                ForkParent, ForkTickets, ForkDone, Exit, WaitReap, WaitFail, WaitSleep,
                SleepCheck, Sleep, Kill, Sched, cpus
  <2>4. QED
    BY <2>2, <2>3 DEF LotteryInv, NoDivisionByZero
<1>3. ASSUME NEW c \in CPU, Scheduler(c) PROVE LotteryInv'
  <2>1. \A d \in CPU : d = c
    BY DEF OneProcessor
  <2>2. CASE SchedTotal(c)
    <3>1. Total # 0 /\ UNCHANGED <<state, tickets, panicked>> /\ spc' = [spc EXCEPT ![c] = "draw"]
      BY <2>2 DEF SchedTotal, slots
    <3>2. Total' = Total
      <4>1. Runnable' = Runnable
        BY <3>1 DEF Runnable
      <4>2. QED
        BY <3>1, <4>1, TotalFacts
    <3>3. QED
      BY <2>1, <3>1, <3>2 DEF LotteryInv, NoDivisionByZero, TypeOK
  <2>3. CASE SchedDraw(c)
    <3>1. UNCHANGED <<state, tickets>> /\ spc[c] = "draw"
      BY <2>3 DEF SchedDraw, slots
    <3>2. Total # 0
      BY <3>1 DEF LotteryInv
    <3>3. PICK w \in Ticket : w < Total /\ win' = [win EXCEPT ![c] = w]
      BY <2>3, <3>2 DEF SchedDraw
    <3>4. spc' = [spc EXCEPT ![c] = "run"] /\ UNCHANGED panicked
      BY <2>3, <3>2 DEF SchedDraw
    <3>5. Total' = Total
      <4>1. Runnable' = Runnable
        BY <3>1 DEF Runnable
      <4>2. QED
        BY <3>1, <4>1, TotalFacts
    <3>6. QED
      BY <2>1, <3>3, <3>4, <3>5 DEF LotteryInv, NoDivisionByZero, TypeOK
  <2>4. CASE SchedRun(c)
    <3>1. spc' = [spc EXCEPT ![c] = "loop"] /\ UNCHANGED panicked
      BY <2>4 DEF SchedRun
    <3>2. QED
      BY <2>1, <3>1 DEF LotteryInv, NoDivisionByZero, TypeOK
  <2>5. QED
    BY <1>3, <2>2, <2>3, <2>4 DEF Scheduler
<1>4. CASE Tick
  <2>1. UNCHANGED <<tickets, spc, win, panicked>> /\ Wakeup1({Ticks}, None, "none")
    BY <1>4 DEF Tick, cpus
  <2>2. Runnable \subseteq Runnable' /\ Runnable \in SUBSET Proc /\ Runnable' \in SUBSET Proc
    <3>1. \A q \in Proc : \/ state'[q] = state[q]
                          \/ state[q] = "SLEEPING" /\ state'[q] = "RUNNABLE"
      BY <2>1, TickEffect
    <3>2. QED
      BY <3>1 DEF Runnable
  <2>3. PICK f : /\ \A s \in SUBSET Proc : f[s] \in Nat
                 /\ \A a, b \in SUBSET Proc : a \subseteq b => f[a] <= f[b]
                 /\ Total = f[Runnable] /\ Total' = f[Runnable']
    BY <2>1, TotalFacts
  <2>4. Total \in Nat /\ Total' \in Nat /\ Total <= Total'
    BY <2>2, <2>3
  <2>5. ASSUME NEW c \in CPU
        PROVE  /\ spc'[c] = "draw" => Total' # 0
               /\ spc'[c] = "run" => win'[c] < Total'
    <3>1. win[c] \in Nat
      BY TicketNat DEF TypeOK
    <3>2. QED
      BY <2>1, <2>4, <3>1 DEF LotteryInv
  <2>6. QED
    BY <2>1, <2>5 DEF LotteryInv, NoDivisionByZero
<1>5. CASE InitExits
  <2>1. UNCHANGED <<state, tickets, spc, win>> /\ panicked' = "init exiting"
    BY <1>5 DEF InitExits, slots, cpus
  <2>2. Total' = Total
    <3>1. Runnable' = Runnable
      BY <2>1 DEF Runnable
    <3>2. QED
      BY <2>1, <3>1, TotalFacts
  <2>3. QED
    BY <2>1, <2>2 DEF LotteryInv, NoDivisionByZero
<1>6. QED
  BY <1>1, <1>2, <1>3, <1>4, <1>5 DEF Next, Works, Halted

\* On one processor no drawing divides by zero and each has a winner: between the three counts
\* of the tickets only the timer may step in, and it makes the sum larger.
THEOREM EveryDrawingWins ==
  ASSUME OneProcessor
  PROVE  Spec => []DrawingHasWinner
<1>1. Init => LotteryInv
  BY DEF Init, LotteryInv, NoDivisionByZero
<1>2. TypeOK /\ OnOneCpu /\ LotteryInv /\ [Next]_vars => LotteryInv'
  BY LotteryStep
<1>3. TypeOK /\ LotteryInv => DrawingHasWinner
  <2>1. SUFFICES ASSUME TypeOK, LotteryInv, NEW c \in CPU, spc[c] = "run"
                 PROVE  Reached(win[c]) # {}
    BY DEF DrawingHasWinner, LotteryInv
  <2>2. win[c] \in Nat /\ win[c] < Total
    BY <2>1, TicketNat DEF TypeOK, LotteryInv
  <2>3. QED
    BY <2>1, <2>2, TotalReached
<1>4. QED
  BY <1>1, <1>2, <1>3, TypeCorrect, OneCpuAlways, PTL DEF Spec

-----------------------------------------------------------------------------
(* The pages of a process: Paging. *)

\* An entry of the table of pages.
Entry == [state : {"NOTUSED", "PHYSMEMORY", "SWAPFILE"}, va : Page \cup {-1}, offset : Nat \cup {-1}]

\* The type of the record of the process.
ProcType ==
  [sz : 0 .. MaxPages, pte : [Page -> {"none", "P", "PG"}], mem : [Page -> Val],
   table : [Slot -> Entry], list : Seq(Slot), nmem : Nat, nfile : Nat,
   swapFile : BOOLEAN, file : Seq(Val), stopped : {"no", "overrun", "fault"}, headPrev : BOOLEAN,
   want : [Page -> Val], shrunk : BOOLEAN]

\* The entries that are in the file.
Swapped(r) == {s \in Slot : r.table[s].state = "SWAPFILE"}

\* The list of the pages in memory: what is on it, and that it has nothing twice.
On(l, s) == \E i \in 1 .. Len(l) : l[i] = s
Distinct(l) == \A i, j \in 1 .. Len(l) : l[i] = l[j] => i = j

\* The list has the pages in memory, the counters count, and the file has room for what it holds.
ListInv(r) ==
  Distinct(r.list) /\ \A s \in Slot : r.table[s].state = "PHYSMEMORY" <=> On(r.list, s)

FileInv(r) ==
  /\ r.nfile = Cardinality(Swapped(r))
  /\ r.nfile <= Len(r.file)
  /\ r.nfile > 0 => r.swapFile /\ r.list # <<>>

CountInv(r) == r.nmem = Len(r.list) /\ r.nmem <= MAX_PSYC_PAGES

\* An entry is for a page, and no two entries have the same page.
EntryInv(r) ==
  /\ \A s \in Slot : r.table[s].state = "NOTUSED" => r.table[s].va = -1
  /\ \A s \in Slot : r.table[s].state = "PHYSMEMORY" =>
       r.table[s].va \in Page /\ r.pte[r.table[s].va] = "P" /\ r.table[s].offset = -1
  /\ \A s \in Slot : r.table[s].state = "SWAPFILE" =>
       r.table[s].va \in Page /\ r.pte[r.table[s].va] = "PG" /\ r.table[s].offset \in 0 .. Len(r.file) - 1
  /\ \A s, t \in Slot : r.table[s].va = r.table[t].va /\ r.table[s].va # -1 => s = t

\* The pages of D are mapped, and one that is not present has its entry.
PteInv(r, D) ==
  /\ \A a \in Page : r.pte[a] # "none" <=> a \in D
  /\ \A a \in Page : r.pte[a] = "PG" => \E s \in Swapped(r) : r.table[s].va = a

\* In the middle of sbrk D is not yet, or no longer, what sz says it is.
PageInv(r, D) ==
  /\ r \in ProcType /\ r.headPrev = FALSE
  /\ ListInv(r) /\ FileInv(r) /\ CountInv(r) /\ EntryInv(r) /\ PteInv(r, D)

\* Every entry stands for a page of its own.
Full(r) ==
  \A s \in Slot : r.table[s].va \in Page /\ \A t \in Slot : r.table[s].va = r.table[t].va => s = t

\* The offsets in use differ and are below num_pages_in_file, which is where the next page
\* goes, and every page holds what was stored in it.
Contents(r, D) ==
  /\ \A s, t \in Swapped(r) : r.table[s].offset = r.table[t].offset => s = t
  /\ \A s \in Swapped(r) : r.table[s].offset < r.nfile /\ r.file[r.table[s].offset + 1] = r.want[r.table[s].va]
  /\ \A a \in Page : r.pte[a] = "P" => r.mem[a] = r.want[a]
  /\ \A a \in Page : a \notin D => r.want[a] = 0

-----------------------------------------------------------------------------
\* The least number of a set, as Min gives it, is in the set.
LEMMA MinIn ==
  ASSUME NEW N, N \subseteq Nat, N # {}
  PROVE  Min(N) \in N
<1>1. \E n \in N : \A k \in N : n <= k
  BY LeastNumber
<1>2. QED
  BY <1>1 DEF Min

\* Unlinking takes one page from the list,
LEMMA Unlinked ==
  ASSUME NEW l \in Seq(Slot), Distinct(l), NEW s, On(l, s), NEW u, u = updateListPointers(l, s)
  PROVE  /\ u \in Seq(Slot) /\ Len(u) = Len(l) - 1 /\ Distinct(u)
         /\ \A t : On(u, t) <=> On(l, t) /\ t # s
<1>1. PICK i : i \in DOMAIN l /\ l[i] = s /\ i = CHOOSE k \in DOMAIN l : l[k] = s
  BY DEF On
<1>2. u = SubSeq(l, 1, i - 1) \o SubSeq(l, i + 1, Len(l))
  BY <1>1 DEF updateListPointers, RemoveAt
<1>3. PICK x, y : x = SubSeq(l, 1, i - 1) /\ y = SubSeq(l, i + 1, Len(l))
  OBVIOUS
<1>4. i \in 1 .. Len(l)
  BY <1>1
<1>5. x \in Seq(Slot) /\ Len(x) = i - 1 /\ \A k \in 1 .. i - 1 : x[k] = l[k]
  BY <1>3, <1>4
<1>6. y \in Seq(Slot) /\ Len(y) = Len(l) - i /\ \A k \in 1 .. Len(l) - i : y[k] = l[i + k]
  BY <1>3, <1>4
<1>7. /\ u \in Seq(Slot) /\ Len(u) = Len(x) + Len(y)
      /\ \A k \in 1 .. Len(x) + Len(y) : u[k] = IF k <= Len(x) THEN x[k] ELSE y[k - Len(x)]
  <2>1. u = x \o y
    BY <1>2, <1>3
  <2>2. x \in Seq(Slot) /\ y \in Seq(Slot)
    BY <1>5, <1>6
  <2>3. QED
    BY <2>1, <2>2, ConcatProperties
<1>8. Len(u) = Len(l) - 1 /\ \A k \in 1 .. Len(u) : u[k] = IF k < i THEN l[k] ELSE l[k + 1]
  <2>1. PICK n : n = Len(l) /\ n \in Nat /\ i \in 1 .. n
    BY <1>4
  <2>2. Len(x) = i - 1 /\ Len(y) = n - i /\ Len(u) = n - 1
    BY <1>5, <1>6, <1>7, <2>1
  <2>3. ASSUME NEW k \in 1 .. n - 1 PROVE u[k] = IF k < i THEN l[k] ELSE l[k + 1]
    <3>1. k \in 1 .. Len(x) + Len(y)
      BY <2>1, <2>2
    <3>2. CASE k < i
      <4>1. k <= Len(x) /\ k \in 1 .. i - 1
        BY <2>1, <2>2, <3>2
      <4>2. QED
        BY <1>5, <1>7, <3>1, <3>2, <4>1
    <3>3. CASE ~(k < i)
      <4>1. ~(k <= Len(x)) /\ k - Len(x) = k - (i - 1) /\ k - (i - 1) \in 1 .. n - i
        BY <2>1, <2>2, <3>3
      <4>2. u[k] = y[k - (i - 1)]
        BY <1>7, <3>1, <4>1
      <4>3. y[k - (i - 1)] = l[i + (k - (i - 1))] /\ i + (k - (i - 1)) = k + 1
        BY <1>6, <2>1, <4>1
      <4>4. QED
        BY <3>3, <4>2, <4>3
    <3>4. QED
      BY <3>2, <3>3
  <2>4. QED
    BY <2>1, <2>2, <2>3
<1>9. Distinct(u)
  <2>1. SUFFICES ASSUME NEW j \in 1 .. Len(u), NEW k \in 1 .. Len(u), u[j] = u[k] PROVE j = k
    BY DEF Distinct
  <2>2. PICK a, b : /\ a = (IF j < i THEN j ELSE j + 1) /\ b = (IF k < i THEN k ELSE k + 1)
                    /\ u[j] = l[a] /\ u[k] = l[b]
    BY <1>8
  <2>3. a \in 1 .. Len(l) /\ b \in 1 .. Len(l) /\ (a = b => j = k)
    BY <1>4, <1>8, <2>2
  <2>4. QED
    BY <2>1, <2>2, <2>3 DEF Distinct
<1>10. ASSUME NEW t, On(u, t) PROVE On(l, t) /\ t # s
  <2>1. PICK k \in 1 .. Len(u) : u[k] = t
    BY <1>10 DEF On
  <2>2. PICK j : j \in 1 .. Len(l) /\ j # i /\ l[j] = t
    <3>1. k \in 1 .. Len(l) /\ k + 1 \in 1 .. Len(l)
      BY <1>4, <1>8, <2>1
    <3>2. CASE k < i
      BY <1>8, <2>1, <3>1, <3>2
    <3>3. CASE ~(k < i)
      <4>1. l[k + 1] = t /\ k + 1 # i
        BY <1>4, <1>8, <2>1, <3>3
      <4>2. QED
        BY <3>1, <4>1
    <3>4. QED
      BY <3>2, <3>3
  <2>3. QED
    BY <1>1, <1>4, <2>2 DEF On, Distinct
<1>11. ASSUME NEW t, On(l, t), t # s PROVE On(u, t)
  <2>1. PICK k \in 1 .. Len(l) : l[k] = t /\ k # i
    BY <1>1, <1>11 DEF On
  <2>2. CASE k < i
    BY <1>4, <1>8, <2>1, <2>2 DEF On
  <2>3. CASE k > i
    <3>1. k - 1 \in 1 .. Len(u) /\ u[k - 1] = t
      BY <1>4, <1>8, <2>1, <2>3
    <3>2. QED
      BY <3>1 DEF On
  <2>4. QED
    BY <1>4, <2>1, <2>2, <2>3
<1>12. QED
  BY <1>7, <1>8, <1>9, <1>10, <1>11

\* and appending puts one on it.
IsLinked(u, l, s) ==
  /\ u \in Seq(Slot) /\ Len(u) = Len(l) + 1 /\ Distinct(u)
  /\ \A t : On(u, t) <=> On(l, t) \/ t = s

\* The list after a page has been appended.
LEMMA Linked ==
  ASSUME NEW l, l \in Seq(Slot), Distinct(l), NEW s, s \in Slot, ~On(l, s)
  PROVE  IsLinked(Append(l, s), l, s)
<1> DEFINE u == Append(l, s)
<1>1. u \in Seq(Slot) /\ Len(u) = Len(l) + 1
  OBVIOUS
<1>2. \A k \in 1 .. Len(u) : u[k] = IF k <= Len(l) THEN l[k] ELSE s
  OBVIOUS
<1>3. Distinct(u)
  BY <1>1, <1>2 DEF Distinct, On
<1>4. ASSUME NEW t PROVE On(u, t) <=> On(l, t) \/ t = s
  <2>1. On(l, t) => On(u, t)
    BY <1>1, <1>2 DEF On
  <2>2. On(u, s)
    <3>1. Len(u) \in 1 .. Len(u) /\ u[Len(u)] = s
      BY <1>1, <1>2
    <3>2. QED
      BY <3>1 DEF On
  <2>3. On(u, t) => On(l, t) \/ t = s
    BY <1>1, <1>2 DEF On
  <2>4. QED
    BY <2>1, <2>2, <2>3
<1>5. QED
  BY <1>1, <1>3, <1>4 DEF IsLinked

\* A list without repetitions is as long as the set of what is on it.
LEMMA ListCard ==
  ASSUME NEW l \in Seq(Slot), Distinct(l)
  PROVE  ToSet(l) = {s \in Slot : On(l, s)} /\ Len(l) = Cardinality(ToSet(l))
<1>1. ToSet(l) = {s \in Slot : On(l, s)}
  BY DEF ToSet, On
<1>2. IsFiniteSet(1 .. Len(l)) /\ Cardinality(1 .. Len(l)) = Len(l)
  <2>1. Len(l) \in Nat
    OBVIOUS
  <2>2. QED
    BY <2>1, FS_Interval
<1>3. ExistsBijection(1 .. Len(l), ToSet(l))
  <2>1. l \in [1 .. Len(l) -> ToSet(l)]
    BY DEF ToSet
  <2>2. l \in Bijection(1 .. Len(l), ToSet(l))
    BY <2>1 DEF ToSet, Distinct, Bijection, Injection, Surjection, IsInjective
  <2>3. QED
    BY <2>2 DEF ExistsBijection
<1>4. QED
  BY <1>1, <1>2, <1>3, FS_Bijection

\* What the constants are.
LEMMA PagingBasics ==
  /\ MAX_PSYC_PAGES \in Nat /\ MAX_TOTAL_PAGES \in Nat /\ MaxPages \in Nat
  /\ MAX_PSYC_PAGES > 1 /\ MAX_TOTAL_PAGES > MAX_PSYC_PAGES
  /\ Page \subseteq Nat /\ Slot \subseteq Nat /\ -1 \notin Page /\ 0 \in Val /\ 0 \in Slot
  /\ IsFiniteSet(Slot) /\ Cardinality(Slot) = MAX_TOTAL_PAGES
<1>1. /\ MAX_PSYC_PAGES \in Nat /\ MAX_TOTAL_PAGES \in Nat /\ MaxPages \in Nat
      /\ MAX_PSYC_PAGES > 1 /\ MAX_TOTAL_PAGES > MAX_PSYC_PAGES
      /\ 0 \in Val
  BY PagingAssumption
<1>2. Page \subseteq Nat /\ Slot \subseteq Nat /\ -1 \notin Page /\ 0 \in Slot
  BY <1>1 DEF Page, Slot
<1>3. IsFiniteSet(Slot) /\ Cardinality(Slot) = MAX_TOTAL_PAGES
  <2>1. PICK n : n = MAX_TOTAL_PAGES - 1 /\ n \in Nat
    BY <1>1
  <2>2. IsFiniteSet(0 .. n) /\ Cardinality(0 .. n) = n + 1
    BY <2>1, FS_Interval
  <2>3. QED
    BY <1>1, <2>1, <2>2 DEF Slot
<1>4. QED
  BY <1>1, <1>2, <1>3

\* Writing a page to the swap file changes that page of the file, or adds it at the end.
IsWritten(g, f, o, v) ==
  /\ g \in Seq(Val) /\ Len(g) >= Len(f) /\ Len(g) > o /\ g[o + 1] = v
  /\ \A i \in 1 .. Len(f) : i # o + 1 => g[i] = f[i]

\* It stays a file, wherever the page is written,
LEMMA FileType ==
  ASSUME NEW f, f \in Seq(Val), NEW o, o \in Nat, NEW v, v \in Val
  PROVE  WriteAt(f, o, v) \in Seq(Val)
<1>1. CASE o < Len(f)
  <2>1. WriteAt(f, o, v) = [f EXCEPT ![o + 1] = v] /\ o + 1 \in 1 .. Len(f)
    BY <1>1 DEF WriteAt
  <2>2. QED
    BY <2>1
<1>2. CASE ~(o < Len(f))
  <2>1. WriteAt(f, o, v) = Append(f, v)
    BY <1>2 DEF WriteAt
  <2>2. QED
    BY <2>1
<1>3. QED
  BY <1>1, <1>2

\* and has the page.
LEMMA Written ==
  ASSUME NEW f, f \in Seq(Val), NEW o, o \in 0 .. Len(f), NEW v, v \in Val
  PROVE  IsWritten(WriteAt(f, o, v), f, o, v)
<1> DEFINE g == WriteAt(f, o, v)
<1> SUFFICES /\ g \in Seq(Val) /\ Len(g) >= Len(f) /\ Len(g) > o /\ g[o + 1] = v
             /\ \A i \in 1 .. Len(f) : i # o + 1 => g[i] = f[i]
  BY DEF IsWritten
<1>1. CASE o < Len(f)
  <2>1. g = [f EXCEPT ![o + 1] = v] /\ o + 1 \in 1 .. Len(f)
    BY <1>1 DEF WriteAt
  <2>2. QED
    BY <1>1, <2>1
<1>2. CASE ~(o < Len(f))
  <2>1. g = Append(f, v) /\ o = Len(f)
    BY <1>2 DEF WriteAt
  <2>2. QED
    BY <2>1
<1>3. QED
  BY <1>1, <1>2

\* An entry of the table is st for page a at offset o, and the others are as they were.
EntrySet(w, r, s, st, a, o) ==
  /\ w.table[s].state = st /\ w.table[s].va = a /\ w.table[s].offset = o
  /\ \A t \in Slot : t # s => w.table[t] = r.table[t]

\* The fields of the record after a page has been written to the file,
LEMMA WriteFields ==
  ASSUME NEW r \in ProcType, NEW s \in Slot, NEW a \in Page, a = r.table[s].va,
         NEW o, o = (IF r.table[s].offset > -1 THEN r.table[s].offset ELSE r.nfile),
         o \in Nat, NEW w, w = WritePageToFile(r, s)
  PROVE  /\ w \in ProcType /\ w.sz = r.sz /\ w.pte = r.pte /\ w.mem = r.mem /\ w.list = r.list
         /\ w.nmem = r.nmem /\ w.nfile = r.nfile + 1 /\ w.swapFile = r.swapFile
         /\ w.file = WriteAt(r.file, o, r.mem[a]) /\ w.stopped = r.stopped /\ w.headPrev = r.headPrev /\ w.want = r.want
         /\ w.shrunk = r.shrunk /\ EntrySet(w, r, s, "SWAPFILE", a, o)
<1>1. PICK f : f = WriteAt(r.file, o, r.mem[a])
  OBVIOUS
<1>2. f \in Seq(Val)
  <2>1. r.file \in Seq(Val) /\ r.mem[a] \in Val
    BY DEF ProcType
  <2>2. QED
    BY <1>1, <2>1, FileType
<1>3. PICK e : e = [state |-> "SWAPFILE", va |-> a, offset |-> o]
  OBVIOUS
<1>4. e \in Entry /\ e.state = "SWAPFILE" /\ e.va = a /\ e.offset = o
  BY <1>3 DEF Entry
<1>5. PICK b : b = [r.table EXCEPT ![s] = e]
  OBVIOUS
<1>6. b \in [Slot -> Entry] /\ b[s] = e /\ \A t \in Slot : t # s => b[t] = r.table[t]
  BY <1>4, <1>5 DEF ProcType
<1>10. w = [r EXCEPT !.file = f, !.table = b, !.nfile = @ + 1]
  BY <1>1, <1>3, <1>5 DEF WritePageToFile
<1>7. /\ w.sz = r.sz /\ w.pte = r.pte /\ w.mem = r.mem /\ w.list = r.list
      /\ w.nmem = r.nmem /\ w.nfile = r.nfile + 1 /\ w.swapFile = r.swapFile
      /\ w.file = f /\ w.stopped = r.stopped /\ w.headPrev = r.headPrev /\ w.want = r.want
      /\ w.shrunk = r.shrunk /\ w.table = b
  BY <1>10 DEF ProcType
<1>8. w \in ProcType
  <2>1. PICK n : n = r.nfile + 1 /\ n \in Nat
    BY DEF ProcType
  <2>2. w = [r EXCEPT !.file = f, !.table = b, !.nfile = n]
    BY <1>10, <2>1
  <2>3. QED
    BY <1>2, <1>6, <2>1, <2>2 DEF ProcType
<1>9. QED
  BY <1>1, <1>4, <1>6, <1>7, <1>8 DEF EntrySet

\* What is on the list when it has left the memory.
OutList(r, s) == IF r.headPrev THEN <<s>> ELSE updateListPointers(r.list, s)

\* and after it has also left the memory,
IsOut(w, r, s, a, o) ==
  /\ w \in ProcType /\ w.sz = r.sz /\ w.pte = [r.pte EXCEPT ![a] = "PG"]
  /\ w.mem = [r.mem EXCEPT ![a] = 0] /\ w.list = OutList(r, s)
  /\ w.nmem = r.nmem - 1 /\ w.nfile = r.nfile + 1 /\ w.swapFile = r.swapFile
  /\ w.file = WriteAt(r.file, o, r.mem[a]) /\ w.stopped = r.stopped /\ w.headPrev = FALSE /\ w.want = r.want
  /\ w.shrunk = r.shrunk /\ EntrySet(w, r, s, "SWAPFILE", a, o)

\* MemoryToSwapFile, field by field.
LEMMA OutFields ==
  ASSUME NEW r, r \in ProcType, NEW s, s \in Slot, NEW a, a \in Page, a = r.table[s].va,
         NEW o, o = (IF r.table[s].offset > -1 THEN r.table[s].offset ELSE r.nfile),
         o \in Nat, r.nmem > 0, On(r.list, s), Distinct(r.list)
  PROVE  IsOut(MemoryToSwapFile(r, s), r, s, a, o)
<1> DEFINE w == MemoryToSwapFile(r, s)
<1>1. PICK x : x = WritePageToFile(r, s)
  OBVIOUS
<1>2. /\ x \in ProcType /\ x.sz = r.sz /\ x.pte = r.pte /\ x.mem = r.mem /\ x.list = r.list
      /\ x.nmem = r.nmem /\ x.nfile = r.nfile + 1 /\ x.swapFile = r.swapFile
      /\ x.file = WriteAt(r.file, o, r.mem[a]) /\ x.stopped = r.stopped /\ x.headPrev = r.headPrev /\ x.want = r.want
      /\ x.shrunk = r.shrunk /\ EntrySet(x, r, s, "SWAPFILE", a, o)
  BY <1>1, WriteFields
<1>3. PICK l, n, p, q : /\ l = OutList(r, s) /\ n = r.nmem - 1
                        /\ p = [r.pte EXCEPT ![a] = "PG"] /\ q = [r.mem EXCEPT ![a] = 0]
  OBVIOUS
<1>4. l \in Seq(Slot) /\ n \in Nat /\ p \in [Page -> {"none", "P", "PG"}] /\ q \in [Page -> Val]
  <2>1. l \in Seq(Slot)
    <3>1. r.list \in Seq(Slot)
      BY DEF ProcType
    <3>2. <<s>> \in Seq(Slot)
      OBVIOUS
    <3>3. updateListPointers(r.list, s) \in Seq(Slot)
      BY <3>1, Unlinked
    <3>4. QED
      BY <1>3, <3>2, <3>3 DEF OutList
  <2>2. n \in Nat /\ p \in [Page -> {"none", "P", "PG"}] /\ q \in [Page -> Val]
    BY <1>3, PagingBasics DEF ProcType
  <2>3. QED
    BY <2>1, <2>2
<1>5. w = [x EXCEPT !.list = l, !.headPrev = FALSE, !.nmem = n, !.pte = p, !.mem = q]
  <2>1. w = [x EXCEPT !.list = IF r.headPrev THEN <<s>> ELSE updateListPointers(@, s),
                      !.headPrev = FALSE, !.nmem = @ - 1, !.pte[a] = "PG", !.mem[a] = 0]
    BY <1>1 DEF MemoryToSwapFile
  <2>2. /\ OutList(x, s) = l /\ x.nmem - 1 = n
        /\ [x.pte EXCEPT ![a] = "PG"] = p /\ [x.mem EXCEPT ![a] = 0] = q
    BY <1>2, <1>3 DEF OutList
  <2>3. (IF r.headPrev THEN <<s>> ELSE updateListPointers(x.list, s)) = l
    BY <1>2, <1>3 DEF OutList
  <2>4. QED
    BY <1>2, <2>1, <2>2, <2>3 DEF ProcType
<1>6. /\ w.sz = x.sz /\ w.pte = p /\ w.mem = q /\ w.list = l /\ w.nmem = n /\ w.nfile = x.nfile
      /\ w.swapFile = x.swapFile /\ w.file = x.file /\ w.stopped = x.stopped /\ w.headPrev = FALSE /\ w.want = x.want
      /\ w.shrunk = x.shrunk /\ w.table = x.table
  BY <1>2, <1>5 DEF ProcType
<1>7. w \in ProcType
  BY <1>2, <1>4, <1>5 DEF ProcType
<1>8. QED
  BY <1>2, <1>3, <1>6, <1>7 DEF EntrySet, IsOut

\* after it has come back,
IsIn(w, r, s, a) ==
  /\ w \in ProcType /\ w.sz = r.sz /\ w.pte = [r.pte EXCEPT ![a] = "P"]
  /\ w.mem = [r.mem EXCEPT ![a] = r.file[r.table[s].offset + 1]] /\ w.list = Append(r.list, s)
  /\ w.nmem = r.nmem + 1 /\ w.nfile = r.nfile - 1 /\ w.swapFile = r.swapFile
  /\ w.file = r.file /\ w.stopped = r.stopped /\ w.headPrev = r.headPrev /\ w.want = r.want
  /\ w.shrunk = r.shrunk /\ EntrySet(w, r, s, "PHYSMEMORY", a, -1)

\* FileToMemory, field by field.
LEMMA InFields ==
  ASSUME NEW r, r \in ProcType, NEW s, s \in Slot, NEW a, a \in Page, a = r.table[s].va,
         r.table[s].offset \in 0 .. Len(r.file) - 1, r.nfile > 0
  PROVE  IsIn(FileToMemory(r, s), r, s, a)
<1> DEFINE w == FileToMemory(r, s)
<1>1. PICK e : e = [state |-> "PHYSMEMORY", va |-> a, offset |-> -1]
  OBVIOUS
<1>2. e \in Entry /\ e.state = "PHYSMEMORY" /\ e.va = a /\ e.offset = -1
  BY <1>1 DEF Entry
<1>3. PICK b : b = [r.table EXCEPT ![s] = e]
  OBVIOUS
<1>4. b \in [Slot -> Entry] /\ b[s] = e /\ \A t \in Slot : t # s => b[t] = r.table[t]
  BY <1>2, <1>3 DEF ProcType
<1>5. PICK l, n, k, p, q : /\ l = Append(r.list, s) /\ n = r.nmem + 1 /\ k = r.nfile - 1
                           /\ p = [r.pte EXCEPT ![a] = "P"]
                           /\ q = [r.mem EXCEPT ![a] = r.file[r.table[s].offset + 1]]
  OBVIOUS
<1>6. /\ l \in Seq(Slot) /\ n \in Nat /\ k \in Nat /\ p \in [Page -> {"none", "P", "PG"}]
      /\ q \in [Page -> Val]
  <2>1. r.file[r.table[s].offset + 1] \in Val
    <3>1. PICK i : i = r.table[s].offset + 1 /\ i \in 1 .. Len(r.file)
      BY DEF ProcType
    <3>2. QED
      BY <3>1 DEF ProcType
  <2>2. QED
    BY <1>5, <2>1 DEF ProcType
<1>7. w = [r EXCEPT !.pte = p, !.mem = q, !.nmem = n, !.nfile = k, !.table = b, !.list = l]
  BY <1>1, <1>3, <1>5 DEF FileToMemory, ProcType
<1>8. /\ w.sz = r.sz /\ w.pte = p /\ w.mem = q /\ w.list = l /\ w.nmem = n /\ w.nfile = k
      /\ w.swapFile = r.swapFile /\ w.file = r.file /\ w.stopped = r.stopped /\ w.headPrev = r.headPrev /\ w.want = r.want
      /\ w.shrunk = r.shrunk /\ w.table = b
  BY <1>7 DEF ProcType
<1>9. w \in ProcType
  BY <1>4, <1>6, <1>7 DEF ProcType
<1>10. QED
  BY <1>2, <1>4, <1>5, <1>8, <1>9 DEF EntrySet, IsIn

\* Linking a page behind the last one puts it at the end; if it was on the list already, what
\* followed it is lost.
IsLinkedLast(u, l, s) ==
  /\ u \in Seq(Slot) /\ Len(u) > 0 /\ Distinct(u)
  /\ \A t : On(u, t) => On(l, t) \/ t = s
  /\ ~On(l, s) => u = Append(l, s)
  /\ Len(l) > 0 => u[1] = l[1]
  /\ Len(l) > 0 /\ s # l[1] => Len(u) > 1

\* The list after that.
LEMMA LinkedLast ==
  ASSUME NEW l, l \in Seq(Slot), Distinct(l), NEW s, s \in Slot
  PROVE  IsLinkedLast(LinkLast(l, s), l, s)
<1>1. PICK u : u = LinkLast(l, s)
  OBVIOUS
<1>2. s \in ToSet(l) <=> On(l, s)
  BY DEF ToSet, On
<1>3. CASE ~On(l, s)
  <2>1. u = Append(l, s)
    BY <1>1, <1>2, <1>3 DEF LinkLast
  <2>2. IsLinked(u, l, s)
    BY <1>3, <2>1, Linked
  <2>3. Len(l) > 0 => u[1] = l[1]
    BY <2>1
  <2>4. u \in Seq(Slot) /\ Len(u) = Len(l) + 1 /\ Distinct(u) /\ \A t : On(u, t) <=> On(l, t) \/ t = s
    BY <2>2 DEF IsLinked
  <2>5. Len(l) \in Nat
    OBVIOUS
  <2>6. QED
    BY <1>1, <2>1, <2>3, <2>4, <2>5 DEF IsLinkedLast
<1>4. CASE On(l, s)
  <2>1. PICK i : i = CHOOSE k \in DOMAIN l : l[k] = s
    OBVIOUS
  <2>2. i \in 1 .. Len(l) /\ l[i] = s
    BY <1>4, <2>1 DEF On
  <2>3. u = SubSeq(l, 1, i)
    BY <1>1, <1>2, <1>4, <2>1 DEF LinkLast
  <2>4. u \in Seq(Slot) /\ Len(u) = i /\ \A k \in 1 .. i : u[k] = l[k]
    BY <2>2, <2>3
  <2>5. Distinct(u)
    BY <2>2, <2>4 DEF Distinct
  <2>6. \A t : On(u, t) => On(l, t)
    BY <2>2, <2>4 DEF On
  <2>7. u[1] = l[1] /\ Len(u) > 0
    BY <2>2, <2>4
  <2>8. s # l[1] => Len(u) > 1
    BY <2>2, <2>4
  <2>9. QED
    BY <1>1, <1>4, <2>4, <2>5, <2>6, <2>7, <2>8 DEF IsLinkedLast
<1>5. QED
  BY <1>3, <1>4

\* The record after a page has got the entry s,
AddAt(r, a, s) ==
  [r EXCEPT !.table[s] = [state |-> "PHYSMEMORY", va |-> a, offset |-> -1],
            !.nmem = @ + 1, !.list = LinkLast(@, s),
            !.headPrev = @ \/ (r.list # <<>> /\ s = Head(r.list))]

IsAdded(w, r, s, a) ==
  /\ w \in ProcType /\ w.sz = r.sz /\ w.pte = r.pte /\ w.mem = r.mem
  /\ w.list = LinkLast(r.list, s) /\ w.nmem = r.nmem + 1 /\ w.nfile = r.nfile
  /\ w.swapFile = r.swapFile /\ w.file = r.file /\ w.stopped = r.stopped
  /\ w.headPrev <=> (r.headPrev \/ (r.list # <<>> /\ s = Head(r.list)))
  /\ w.want = r.want /\ w.shrunk = r.shrunk /\ EntrySet(w, r, s, "PHYSMEMORY", a, -1)

\* field by field.
LEMMA AddFields ==
  ASSUME NEW r, r \in ProcType, Distinct(r.list), NEW s, s \in Slot, NEW a, a \in Page
  PROVE  IsAdded(AddAt(r, a, s), r, s, a)
<1> DEFINE w == AddAt(r, a, s)
<1>1. PICK e : e = [state |-> "PHYSMEMORY", va |-> a, offset |-> -1]
  OBVIOUS
<1>2. e \in Entry /\ e.state = "PHYSMEMORY" /\ e.va = a /\ e.offset = -1
  BY <1>1 DEF Entry
<1>3. PICK b : b = [r.table EXCEPT ![s] = e]
  OBVIOUS
<1>4. b \in [Slot -> Entry] /\ b[s] = e /\ \A t \in Slot : t # s => b[t] = r.table[t]
  BY <1>2, <1>3 DEF ProcType
<1>5. PICK l, n : l = LinkLast(r.list, s) /\ n = r.nmem + 1
  OBVIOUS
<1>6. l \in Seq(Slot) /\ n \in Nat
  <2>1. r.list \in Seq(Slot) /\ r.nmem \in Nat
    BY DEF ProcType
  <2>2. IsLinkedLast(l, r.list, s)
    BY <1>5, <2>1, LinkedLast
  <2>3. QED
    BY <1>5, <2>1, <2>2 DEF IsLinkedLast
<1>7. PICK h : h = (r.headPrev \/ (r.list # <<>> /\ s = Head(r.list)))
  OBVIOUS
<1>8. h \in BOOLEAN /\ (h <=> (r.headPrev \/ (r.list # <<>> /\ s = Head(r.list))))
  <2>1. r.headPrev \in BOOLEAN
    BY DEF ProcType
  <2>2. QED
    BY <1>7, <2>1
<1>9. w = [r EXCEPT !.table = b, !.nmem = n, !.list = l, !.headPrev = h]
  BY <1>1, <1>3, <1>5, <1>7 DEF AddAt, ProcType
<1>10. /\ w.sz = r.sz /\ w.pte = r.pte /\ w.mem = r.mem /\ w.list = l /\ w.nmem = n /\ w.nfile = r.nfile
       /\ w.swapFile = r.swapFile /\ w.file = r.file /\ w.stopped = r.stopped /\ w.headPrev = h /\ w.want = r.want
       /\ w.shrunk = r.shrunk /\ w.table = b
  BY <1>9 DEF ProcType
<1>11. w \in ProcType
  BY <1>4, <1>6, <1>8, <1>9 DEF ProcType
<1>12. QED
  BY <1>2, <1>4, <1>5, <1>8, <1>10, <1>11 DEF EntrySet, IsAdded

\* The sets of entries are finite.
LEMMA SwappedFinite ==
  ASSUME NEW r
  PROVE  Swapped(r) \subseteq Slot /\ IsFiniteSet(Swapped(r)) /\ Cardinality(Swapped(r)) \in Nat
<1>1. Swapped(r) \subseteq Slot
  BY DEF Swapped
<1>2. QED
  BY <1>1, PagingBasics, FS_Subset, FS_CardinalityType

\* What the invariant says of the page at the head of the list.
LEMMA HeadFacts ==
  ASSUME NEW r, NEW D, PageInv(r, D), r.nmem > 0, NEW s, s = Head(r.list)
  PROVE  /\ s \in Slot /\ On(r.list, s) /\ r.table[s].state = "PHYSMEMORY" /\ r.table[s].va \in Page /\ r.pte[r.table[s].va] = "P" /\ r.table[s].offset = -1
<1>1. r.list \in Seq(Slot) /\ Len(r.list) = r.nmem
  BY DEF PageInv, ProcType, CountInv
<1>2. s = r.list[1] /\ s \in Slot /\ 1 \in 1 .. Len(r.list)
  BY <1>1
<1>3. On(r.list, s)
  BY <1>2 DEF On
<1>4. QED
  BY <1>2, <1>3 DEF PageInv, ListInv, EntryInv

\* A page leaves for the file: the table still matches, and the page keeps its contents.
LEMMA OutKeeps ==
  ASSUME NEW r, NEW D, PageInv(r, D), r.nmem > 1, r.swapFile,
         NEW s, s = Head(r.list), NEW w, w = MemoryToSwapFile(r, s)
  PROVE  /\ PageInv(w, D) /\ w.nmem = r.nmem - 1 /\ w.nfile = r.nfile + 1
         /\ w.sz = r.sz /\ w.stopped = r.stopped /\ w.shrunk = r.shrunk
         /\ \A a \in Page : (w.pte[a] = "none" <=> r.pte[a] = "none")
         /\ Contents(r, D) => Contents(w, D)
<1>1. PICK a, o : a = r.table[s].va /\ o = r.nfile
  OBVIOUS
<1>2. /\ s \in Slot /\ On(r.list, s) /\ r.table[s].state = "PHYSMEMORY" /\ a \in Page /\ r.pte[a] = "P" /\ r.table[s].offset = -1 /\ r.nmem > 0
  <2>1. r.nmem > 0
    BY DEF PageInv, ProcType
  <2>2. QED
    BY <1>1, <2>1, HeadFacts
<1>3. /\ r \in ProcType /\ r.list \in Seq(Slot) /\ Distinct(r.list) /\ r.file \in Seq(Val)
      /\ r.nfile \in Nat /\ o \in 0 .. Len(r.file) /\ o \in Nat /\ r.nmem \in Nat /\ r.mem[a] \in Val
      /\ r.pte \in [Page -> {"none", "P", "PG"}] /\ r.mem \in [Page -> Val]
  BY <1>1, <1>2 DEF PageInv, ProcType, ListInv, FileInv
<1>18. IsOut(w, r, s, a, o)
  <2>1. o = IF r.table[s].offset > -1 THEN r.table[s].offset ELSE r.nfile
    BY <1>1, <1>2
  <2>2. /\ r \in ProcType /\ s \in Slot /\ a \in Page /\ a = r.table[s].va /\ o \in Nat
        /\ r.nmem > 0 /\ On(r.list, s) /\ Distinct(r.list)
    BY <1>1, <1>2, <1>3
  <2>3. QED
    BY <2>1, <2>2, OutFields
<1>4. /\ w \in ProcType /\ w.sz = r.sz /\ w.pte = [r.pte EXCEPT ![a] = "PG"]
      /\ w.mem = [r.mem EXCEPT ![a] = 0] /\ w.list = updateListPointers(r.list, s)
      /\ w.nmem = r.nmem - 1 /\ w.nfile = r.nfile + 1 /\ w.swapFile = r.swapFile
      /\ w.file = WriteAt(r.file, o, r.mem[a]) /\ w.stopped = r.stopped /\ w.headPrev = FALSE /\ w.want = r.want
      /\ w.shrunk = r.shrunk /\ EntrySet(w, r, s, "SWAPFILE", a, o)
  <2>1. r.headPrev = FALSE
    BY DEF PageInv
  <2>2. QED
    BY <1>18, <2>1 DEF IsOut, OutList
<1>5. /\ w.file \in Seq(Val) /\ Len(w.file) >= Len(r.file) /\ Len(w.file) > o /\ w.file[o + 1] = r.mem[a]
      /\ \A i \in 1 .. Len(r.file) : i # o + 1 => w.file[i] = r.file[i]
  <2>1. IsWritten(WriteAt(r.file, o, r.mem[a]), r.file, o, r.mem[a])
    BY <1>3, Written
  <2>2. w.file = WriteAt(r.file, o, r.mem[a])
    BY <1>4
  <2>3. QED
    BY <2>1, <2>2 DEF IsWritten
<1>6. /\ w.list \in Seq(Slot) /\ Len(w.list) = Len(r.list) - 1 /\ Distinct(w.list)
      /\ \A t : On(w.list, t) <=> On(r.list, t) /\ t # s
  <2>1. PICK l, u : l = r.list /\ u = w.list
    OBVIOUS
  <2>2. l \in Seq(Slot) /\ Distinct(l) /\ On(l, s) /\ u = updateListPointers(l, s)
    BY <1>2, <1>3, <1>4, <2>1
  <2>3. u \in Seq(Slot) /\ Len(u) = Len(l) - 1 /\ Distinct(u) /\ \A t : On(u, t) <=> On(l, t) /\ t # s
    BY <2>2, Unlinked
  <2>4. QED
    BY <2>1, <2>3
<1>7. /\ w.table[s].state = "SWAPFILE" /\ w.table[s].va = a /\ w.table[s].offset = o
      /\ \A t \in Slot : t # s => w.table[t] = r.table[t]
  BY <1>4 DEF EntrySet
<1>8. /\ w.pte[a] = "PG" /\ w.mem[a] = 0
      /\ \A b \in Page : b # a => w.pte[b] = r.pte[b] /\ w.mem[b] = r.mem[b]
  BY <1>2, <1>3, <1>4
<1>9. ListInv(w)
  BY <1>2, <1>6, <1>7 DEF ListInv, PageInv
<1>10. CountInv(w)
  <2>1. r.nmem = Len(r.list) /\ r.nmem <= MAX_PSYC_PAGES /\ r.nmem \in Nat /\ MAX_PSYC_PAGES \in Nat
    BY <1>3, PagingBasics DEF PageInv, CountInv
  <2>2. w.nmem = r.nmem - 1 /\ Len(w.list) = Len(r.list) - 1
    BY <1>4, <1>6
  <2>3. QED
    BY <2>1, <2>2 DEF CountInv
<1>11. Swapped(w) = Swapped(r) \cup {s} /\ s \notin Swapped(r)
  BY <1>2, <1>7 DEF Swapped
<1>12. FileInv(w)
  <2>1. Cardinality(Swapped(w)) = Cardinality(Swapped(r)) + 1
    BY <1>11, SwappedFinite, FS_AddElement
  <2>2. r.nfile = Cardinality(Swapped(r))
    BY DEF PageInv, FileInv
  <2>3. w.nfile <= Len(w.file)
    BY <1>1, <1>3, <1>4, <1>5
  <2>4. w.list # <<>>
    <3>1. Len(r.list) = r.nmem
      BY DEF PageInv, CountInv
    <3>2. Len(w.list) > 0
      BY <1>3, <1>6, <3>1
    <3>3. QED
      BY <3>2
  <2>5. QED
    BY <1>4, <2>1, <2>2, <2>3, <2>4 DEF FileInv
<1>13. EntryInv(w)
  <2>1. EntryInv(r)
    BY DEF PageInv
  <2>2. \A t \in Slot : t # s /\ r.table[t].va = a => FALSE
    BY <1>1, <1>2, <2>1, PagingBasics DEF EntryInv
  <2>3. ASSUME NEW t \in Slot, w.table[t].state = "NOTUSED" PROVE w.table[t].va = -1
    BY <1>7, <2>1, <2>3 DEF EntryInv
  <2>4. ASSUME NEW t \in Slot, w.table[t].state = "PHYSMEMORY"
        PROVE  w.table[t].va \in Page /\ w.pte[w.table[t].va] = "P" /\ w.table[t].offset = -1
    <3>1. t # s /\ w.table[t] = r.table[t]
      BY <1>7, <2>4
    <3>2. r.table[t].va \in Page /\ r.pte[r.table[t].va] = "P" /\ r.table[t].offset = -1
      BY <2>1, <2>4, <3>1 DEF EntryInv
    <3>3. r.table[t].va # a /\ r.table[t].va \in Page
      BY <2>2, <3>1, <3>2
    <3>4. QED
      BY <1>8, <3>1, <3>2, <3>3
  <2>5. ASSUME NEW t \in Slot, w.table[t].state = "SWAPFILE"
        PROVE  w.table[t].va \in Page /\ w.pte[w.table[t].va] = "PG" /\ w.table[t].offset \in 0 .. Len(w.file) - 1
    <3>1. CASE t = s
      <4>1. w.table[t].va = a /\ w.table[t].offset = o /\ w.pte[a] = "PG"
        BY <1>7, <1>8, <3>1
      <4>2. a \in Page
        BY <1>2
      <4>3. o \in 0 .. Len(w.file) - 1
        BY <1>3, <1>5
      <4>4. QED
        BY <4>1, <4>2, <4>3
    <3>2. CASE t # s
      <4>1. w.table[t] = r.table[t]
        BY <1>7, <3>2
      <4>2. r.table[t].va \in Page /\ r.pte[r.table[t].va] = "PG" /\ r.table[t].offset \in 0 .. Len(r.file) - 1
        BY <2>1, <2>5, <4>1 DEF EntryInv
      <4>3. r.table[t].va # a /\ r.table[t].va \in Page
        BY <2>2, <3>2, <4>2
      <4>4. r.table[t].offset \in 0 .. Len(w.file) - 1
        BY <1>3, <1>5, <4>2
      <4>5. QED
        BY <1>8, <4>1, <4>2, <4>3, <4>4
    <3>3. QED
      BY <3>1, <3>2
  <2>6. \A t \in Slot : w.table[t].va = r.table[t].va
    BY <1>1, <1>7
  <2>7. \A t, u \in Slot : w.table[t].va = w.table[u].va /\ w.table[t].va # -1 => t = u
    BY <2>1, <2>6 DEF EntryInv
  <2>8. QED
    BY <2>3, <2>4, <2>5, <2>7 DEF EntryInv
<1>14. \A b \in Page : w.pte[b] = "none" <=> r.pte[b] = "none"
  BY <1>2, <1>8
<1>15. PteInv(w, D)
  <2>1. PteInv(r, D)
    BY DEF PageInv
  <2>2. \A b \in Page : w.pte[b] # "none" <=> b \in D
    BY <1>14, <2>1 DEF PteInv
  <2>3. ASSUME NEW b \in Page, w.pte[b] = "PG" PROVE \E t \in Swapped(w) : w.table[t].va = b
    <3>1. CASE b = a
      BY <1>7, <1>11, <3>1
    <3>2. CASE b # a
      <4>1. PICK t \in Swapped(r) : r.table[t].va = b
        BY <1>8, <2>1, <2>3, <3>2 DEF PteInv
      <4>2. t \in Slot /\ t # s
        BY <1>11, <4>1, SwappedFinite
      <4>3. QED
        BY <1>7, <1>11, <4>1, <4>2
    <3>3. QED
      BY <3>1, <3>2
  <2>4. QED
    BY <2>2, <2>3 DEF PteInv
<1>16. ASSUME Contents(r, D) PROVE Contents(w, D)
  <2>1. \A t \in Swapped(r) : /\ t \in Slot /\ t # s /\ w.table[t] = r.table[t]
                              /\ r.table[t].offset < r.nfile /\ r.table[t].offset \in 0 .. Len(r.file) - 1
                              /\ r.file[r.table[t].offset + 1] = r.want[r.table[t].va]
    <3>1. \A t \in Swapped(r) : t \in Slot /\ t # s /\ w.table[t] = r.table[t]
      BY <1>7, <1>11, SwappedFinite
    <3>2. \A t \in Swapped(r) : r.table[t].offset \in 0 .. Len(r.file) - 1
      BY <3>1 DEF PageInv, EntryInv, Swapped
    <3>3. QED
      BY <1>16, <3>1, <3>2 DEF Contents
  <2>2. \A t, u \in Swapped(w) : w.table[t].offset = w.table[u].offset => t = u
    <3>1. \A t, u \in Swapped(r) : r.table[t].offset = r.table[u].offset => t = u
      BY <1>16 DEF Contents
    <3>2. \A t \in Swapped(r) : w.table[t].offset # o
      BY <1>1, <2>1
    <3>3. QED
      BY <1>7, <1>11, <2>1, <3>1, <3>2
  <2>3. ASSUME NEW t \in Swapped(w)
        PROVE  w.table[t].offset < w.nfile /\ w.file[w.table[t].offset + 1] = w.want[w.table[t].va]
    <3>1. CASE t = s
      <4>1. r.mem[a] = r.want[a]
        BY <1>2, <1>16 DEF Contents
      <4>2. QED
        <5>1. w.table[t].offset = o /\ w.table[t].va = a
          BY <1>7, <3>1
        <5>2. o < w.nfile
          BY <1>1, <1>3, <1>4
        <5>3. w.file[o + 1] = w.want[a]
          BY <1>4, <1>5, <4>1
        <5>4. QED
          BY <5>1, <5>2, <5>3
    <3>2. CASE t # s
      <4>1. t \in Swapped(r)
        BY <1>11, <3>2
      <4>2. PICK x : /\ x = r.table[t].offset /\ x < r.nfile /\ x \in 0 .. Len(r.file) - 1
                     /\ w.table[t] = r.table[t] /\ r.file[x + 1] = r.want[r.table[t].va]
        BY <2>1, <4>1
      <4>3. x + 1 \in 1 .. Len(r.file) /\ x + 1 # o + 1 /\ x < r.nfile + 1
        BY <1>1, <1>3, <4>2
      <4>4. w.file[x + 1] = r.file[x + 1]
        BY <1>5, <4>3
      <4>5. x < w.nfile
        BY <1>4, <4>3
      <4>6. w.table[t].offset = x /\ w.file[x + 1] = w.want[w.table[t].va]
        BY <1>4, <4>2, <4>4
      <4>7. QED
        BY <4>5, <4>6
    <3>3. QED
      BY <3>1, <3>2
  <2>4. \A b \in Page : w.pte[b] = "P" => w.mem[b] = w.want[b]
    BY <1>4, <1>8, <1>16 DEF Contents
  <2>5. \A b \in Page : b \notin D => w.want[b] = 0
    BY <1>4, <1>16 DEF Contents
  <2>6. QED
    BY <2>2, <2>3, <2>4, <2>5 DEF Contents
<1>17. QED
  BY <1>4, <1>9, <1>10, <1>12, <1>13, <1>14, <1>15, <1>16 DEF PageInv

\* Creating the swap file.
LEMMA FileCreated ==
  ASSUME NEW r, NEW D, PageInv(r, D), ~r.swapFile,
         NEW w, w = [r EXCEPT !.swapFile = TRUE, !.file = <<>>]
  PROVE  /\ PageInv(w, D) /\ w.nmem = r.nmem /\ w.swapFile /\ w.list = r.list /\ w.pte = r.pte
         /\ w.sz = r.sz /\ w.stopped = r.stopped /\ w.shrunk = r.shrunk
         /\ Contents(r, D) => Contents(w, D)
<1>1. r \in ProcType /\ r.nfile = 0
  BY DEF PageInv, ProcType, FileInv
<1>2. PICK f : f = <<>> /\ f \in Seq(Val) /\ Len(f) = 0
  <2>1. <<>> \in Seq(Val) /\ Len(<<>>) = 0
    OBVIOUS
  <2>2. QED
    BY <2>1
<1>3. w = [r EXCEPT !.swapFile = TRUE, !.file = f]
  BY <1>2
<1>4. /\ w.sz = r.sz /\ w.pte = r.pte /\ w.mem = r.mem /\ w.list = r.list /\ w.nmem = r.nmem /\ w.nfile = r.nfile
      /\ w.swapFile = TRUE /\ w.file = f /\ w.stopped = r.stopped /\ w.headPrev = r.headPrev /\ w.want = r.want
      /\ w.shrunk = r.shrunk /\ w.table = r.table
  BY <1>1, <1>3 DEF ProcType
<1>5. w \in ProcType
  BY <1>1, <1>2, <1>3 DEF ProcType
<1>6. Swapped(w) = {} /\ Swapped(r) = {}
  <2>1. Swapped(w) = Swapped(r)
    BY <1>4 DEF Swapped
  <2>2. Cardinality(Swapped(r)) = 0
    BY <1>1 DEF PageInv, FileInv
  <2>3. QED
    BY <2>1, <2>2, SwappedFinite, FS_EmptySet
<1>7. ListInv(w) /\ CountInv(w) /\ PteInv(w, D)
  <2>1. ListInv(w) /\ CountInv(w)
    BY <1>4 DEF PageInv, ListInv, CountInv
  <2>2. PteInv(w, D)
    BY <1>4, <1>6 DEF PageInv, PteInv
  <2>3. QED
    BY <2>1, <2>2
<1>8. FileInv(w)
  <2>1. Cardinality(Swapped(w)) = 0
    BY <1>6, FS_EmptySet
  <2>2. w.nfile = 0 /\ Len(w.file) = 0
    BY <1>1, <1>2, <1>4
  <2>3. QED
    BY <2>1, <2>2 DEF FileInv
<1>9. EntryInv(w)
  <2>1. \A s \in Slot : w.table[s].state # "SWAPFILE"
    BY <1>6 DEF Swapped
  <2>2. EntryInv(r)
    BY DEF PageInv
  <2>3. QED
    BY <1>4, <2>1, <2>2 DEF EntryInv
<1>10. Contents(r, D) => Contents(w, D)
  BY <1>4, <1>6 DEF Contents
<1>11. QED
  BY <1>4, <1>5, <1>7, <1>8, <1>9, <1>10 DEF PageInv

\* There is room for a page, and all matches as before.
IsRoom(w, r, D) ==
  /\ PageInv(w, D) /\ w.nmem < MAX_PSYC_PAGES
  /\ w.sz = r.sz /\ w.stopped = r.stopped /\ w.shrunk = r.shrunk
  /\ Contents(r, D) => Contents(w, D)

\* The first half of a round of allocuvm: the first page of the list leaves when memory is full.
LEMMA RoomMade ==
  ASSUME NEW r, NEW D, PageInv(r, D)
  PROVE  IsRoom(MakeRoom(r), r, D)
<1>1. /\ r.nmem \in Nat /\ r.nfile \in Nat /\ r.nmem <= MAX_PSYC_PAGES /\ MAX_PSYC_PAGES \in Nat
      /\ MAX_PSYC_PAGES > 1 /\ MAX_TOTAL_PAGES \in Nat /\ MAX_TOTAL_PAGES > MAX_PSYC_PAGES
      /\ r.swapFile \in BOOLEAN
  BY PagingBasics DEF PageInv, ProcType, CountInv
<1>2. CASE r.nmem # MAX_PSYC_PAGES
  <2>1. MakeRoom(r) = r
    BY <1>2 DEF MakeRoom
  <2>2. QED
    BY <1>1, <1>2, <2>1 DEF IsRoom
<1>3. CASE r.nmem = MAX_PSYC_PAGES
  <2>1. PICK x : /\ x = (IF r.nfile # MAX_TOTAL_PAGES - MAX_PSYC_PAGES /\ ~r.swapFile
                         THEN [r EXCEPT !.swapFile = TRUE, !.file = <<>>] ELSE r)
    OBVIOUS
  <2>2. /\ PageInv(x, D) /\ x.nmem = r.nmem /\ x.swapFile /\ x.list = r.list /\ x.pte = r.pte
        /\ x.sz = r.sz /\ x.stopped = r.stopped /\ x.shrunk = r.shrunk
        /\ Contents(r, D) => Contents(x, D)
    <3>1. CASE r.nfile # MAX_TOTAL_PAGES - MAX_PSYC_PAGES /\ ~r.swapFile
      <4>1. x = [r EXCEPT !.swapFile = TRUE, !.file = <<>>]
        BY <2>1, <3>1
      <4>2. QED
        BY <3>1, <4>1, FileCreated
    <3>2. CASE ~(r.nfile # MAX_TOTAL_PAGES - MAX_PSYC_PAGES /\ ~r.swapFile)
      <4>1. x = r
        BY <2>1, <3>2
      <4>2. r.swapFile
        BY <1>1, <3>2 DEF PageInv, FileInv
      <4>3. QED
        BY <4>1, <4>2
    <3>3. QED
      BY <3>1, <3>2
  <2>3. PICK s, w : s = Head(x.list) /\ w = MemoryToSwapFile(x, s)
    OBVIOUS
  <2>4. MakeRoom(r) = w
    BY <1>3, <2>1, <2>2, <2>3 DEF MakeRoom
  <2>5. x.nmem > 1
    BY <1>1, <1>3, <2>2
  <2>6. /\ PageInv(w, D) /\ w.nmem = x.nmem - 1
        /\ w.sz = x.sz /\ w.stopped = x.stopped /\ w.shrunk = x.shrunk
        /\ Contents(x, D) => Contents(w, D)
    BY <2>2, <2>3, <2>5, OutKeeps
  <2>7. w.nmem < MAX_PSYC_PAGES
    BY <1>1, <1>3, <2>2, <2>6
  <2>8. QED
    BY <2>2, <2>4, <2>6, <2>7 DEF IsRoom
<1>4. QED
  BY <1>2, <1>3

-----------------------------------------------------------------------------

\* A page that has no entry gets a free one.
LEMMA AddKeeps ==
  ASSUME NEW r, NEW D, PageInv(r, D), r.nmem < MAX_PSYC_PAGES,
         NEW a \in Page, r.pte[a] = "P", \A s \in Slot : r.table[s].va # a,
         NEW s \in Slot, r.table[s].state = "NOTUSED", NEW w, w = AddAt(r, a, s)
  PROVE  /\ PageInv(w, D) /\ w.sz = r.sz /\ w.stopped = r.stopped /\ w.shrunk = r.shrunk
         /\ Contents(r, D) => Contents(w, D)
<1>1. /\ r \in ProcType /\ r.list \in Seq(Slot) /\ Distinct(r.list) /\ r.nmem \in Nat /\ r.nfile \in Nat
      /\ r.nmem = Len(r.list) /\ a \in Page
  BY DEF PageInv, ProcType, ListInv, CountInv
<1>2. /\ w \in ProcType /\ w.sz = r.sz /\ w.pte = r.pte /\ w.mem = r.mem
      /\ w.list = Append(r.list, s) /\ w.nmem = r.nmem + 1 /\ w.nfile = r.nfile
      /\ w.swapFile = r.swapFile /\ w.file = r.file /\ w.stopped = r.stopped /\ w.headPrev = FALSE
      /\ w.want = r.want /\ w.shrunk = r.shrunk /\ EntrySet(w, r, s, "PHYSMEMORY", a, -1)
  <2>1. IsAdded(w, r, s, a)
    BY <1>1, AddFields
  <2>2. ~On(r.list, s) /\ r.headPrev = FALSE
    BY DEF PageInv, ListInv
  <2>3. LinkLast(r.list, s) = Append(r.list, s)
    BY <1>1, <2>2, LinkedLast DEF IsLinkedLast
  <2>4. r.list # <<>> => s # Head(r.list)
    BY <1>1, <2>2 DEF On
  <2>5. w.headPrev = FALSE
    BY <2>1, <2>2, <2>4 DEF IsAdded
  <2>6. QED
    BY <2>1, <2>3, <2>5 DEF IsAdded
<1>3. /\ w.table[s].state = "PHYSMEMORY" /\ w.table[s].va = a /\ w.table[s].offset = -1
      /\ \A t \in Slot : t # s => w.table[t] = r.table[t]
  BY <1>2 DEF EntrySet
<1>4. /\ w.list \in Seq(Slot) /\ Len(w.list) = Len(r.list) + 1 /\ Distinct(w.list)
      /\ \A t : On(w.list, t) <=> On(r.list, t) \/ t = s
  <2>1. ~On(r.list, s)
    BY DEF PageInv, ListInv
  <2>2. QED
    BY <1>1, <1>2, <2>1, Linked DEF IsLinked
<1>5. ListInv(w)
  BY <1>3, <1>4 DEF ListInv, PageInv
<1>6. CountInv(w)
  BY <1>1, <1>2, <1>4, PagingBasics DEF CountInv
<1>7. Swapped(w) = Swapped(r) /\ \A t \in Swapped(r) : t \in Slot /\ t # s /\ w.table[t] = r.table[t]
  BY <1>3 DEF Swapped
<1>8. FileInv(w)
  <2>1. w.list # <<>>
    BY <1>1, <1>4
  <2>2. QED
    BY <1>2, <1>7, <2>1 DEF FileInv, PageInv
<1>9. EntryInv(w)
  <2>1. EntryInv(r)
    BY DEF PageInv
  <2>2. ASSUME NEW t \in Slot, w.table[t].state = "NOTUSED" PROVE w.table[t].va = -1
    BY <1>3, <2>1, <2>2 DEF EntryInv
  <2>3. ASSUME NEW t \in Slot, w.table[t].state = "PHYSMEMORY"
        PROVE  w.table[t].va \in Page /\ w.pte[w.table[t].va] = "P" /\ w.table[t].offset = -1
    BY <1>2, <1>3, <2>1, <2>3 DEF EntryInv
  <2>4. ASSUME NEW t \in Slot, w.table[t].state = "SWAPFILE"
        PROVE  w.table[t].va \in Page /\ w.pte[w.table[t].va] = "PG" /\ w.table[t].offset \in 0 .. Len(w.file) - 1
    BY <1>2, <1>3, <2>1, <2>4 DEF EntryInv
  <2>5. \A t, u \in Slot : w.table[t].va = w.table[u].va /\ w.table[t].va # -1 => t = u
    BY <1>3, <2>1 DEF EntryInv
  <2>6. QED
    BY <2>2, <2>3, <2>4, <2>5 DEF EntryInv
<1>10. PteInv(w, D)
  BY <1>2, <1>7 DEF PteInv, PageInv
<1>11. Contents(r, D) => Contents(w, D)
  BY <1>2, <1>7 DEF Contents
<1>12. QED
  BY <1>2, <1>5, <1>6, <1>8, <1>9, <1>10, <1>11 DEF PageInv

\* When no entry is free, every entry stands for a page.
LEMMA FullTable ==
  ASSUME NEW r, NEW D, PageInv(r, D), \A s \in Slot : r.table[s].state # "NOTUSED"
  PROVE  Full(r)
<1>1. \A s \in Slot : r.table[s].state \in {"NOTUSED", "PHYSMEMORY", "SWAPFILE"}
  BY DEF PageInv, ProcType, Entry
<1>2. \A s \in Slot : r.table[s].va \in Page
  BY <1>1 DEF PageInv, EntryInv
<1>3. QED
  BY <1>2, PagingBasics DEF PageInv, EntryInv, Full

\* What a round of the loop in allocuvm leaves of r: either the new page has its entry, or all
\* entries are taken.
IsGrown(w, r, D, E) ==
  /\ w \in ProcType /\ w.sz = r.sz /\ w.shrunk = r.shrunk /\ w.stopped \in {"no", "overrun"}
  /\ w.stopped = "overrun" => Full(w)
  /\ w.stopped = "no" => PageInv(w, E) /\ (Contents(r, D) => Contents(w, E))

\* AddNewPageToPhysicalMemory for a page without an entry.
LEMMA NewPageAdded ==
  ASSUME NEW r, NEW D, PageInv(r, D), r.nmem < MAX_PSYC_PAGES,
         NEW a \in Page, r.pte[a] = "P", \A s \in Slot : r.table[s].va # a, r.stopped = "no"
  PROVE  IsGrown(AddNewPage(r, a), r, D, D)
<1>1. PICK same, unused : /\ same = {s \in Slot : r.table[s].va = a}
                          /\ unused = {s \in Slot : r.table[s].state = "NOTUSED"}
  OBVIOUS
<1>2. same = {}
  BY <1>1
<1>3. r \in ProcType /\ r.list \in Seq(Slot) /\ r.nfile \in Nat
  BY DEF PageInv, ProcType
<1>4. ASSUME NEW s \in Slot, r.table[s].state = "NOTUSED", AddNewPage(r, a) = AddAt(r, a, s)
      PROVE  IsGrown(AddNewPage(r, a), r, D, D)
  <2>1. PICK w : w = AddAt(r, a, s)
    OBVIOUS
  <2>2. /\ PageInv(w, D) /\ w.sz = r.sz /\ w.stopped = r.stopped /\ w.shrunk = r.shrunk
        /\ Contents(r, D) => Contents(w, D)
    BY <1>4, <2>1, AddKeeps
  <2>3. w \in ProcType
    BY <2>2 DEF PageInv
  <2>4. QED
    BY <1>4, <2>1, <2>2, <2>3 DEF IsGrown
<1>5. CASE r.list = <<>>
  <2>1. AddNewPage(r, a) = AddAt(r, a, 0)
    BY <1>5 DEF AddNewPage, AddAt
  <2>2. r.table[0].state = "NOTUSED"
    <3>1. ~On(r.list, 0)
      BY <1>5 DEF On
    <3>2. 0 \notin Swapped(r)
      <4>1. Cardinality(Swapped(r)) = 0
        BY <1>3, <1>5 DEF PageInv, FileInv
      <4>2. QED
        BY <4>1, SwappedFinite, FS_EmptySet
    <3>3. r.table[0].state \in {"NOTUSED", "PHYSMEMORY", "SWAPFILE"}
      BY <1>3, PagingBasics DEF ProcType, Entry
    <3>4. QED
      BY <3>1, <3>2, <3>3, PagingBasics DEF PageInv, ListInv, Swapped
  <2>3. QED
    BY <1>4, <2>1, <2>2, PagingBasics
<1>6. CASE r.list # <<>> /\ unused # {}
  <2>1. PICK s : s = Min(unused)
    OBVIOUS
  <2>2. s \in unused
    BY <1>1, <1>6, <2>1, MinIn, PagingBasics
  <2>3. AddNewPage(r, a) = AddAt(r, a, s)
    <3>1. PICK x : x = AddNewPage(r, a)
      OBVIOUS
    <3>2. x = CASE r.list = <<>> -> AddAt(r, a, 0)
                [] r.list # <<>> /\ same # {} -> AddAt(r, a, Min(same))
                [] r.list # <<>> /\ same = {} /\ unused # {} -> AddAt(r, a, Min(unused))
                [] OTHER -> [r EXCEPT !.stopped = "overrun"]
      BY <1>1, <3>1 DEF AddNewPage, AddAt
    <3>3. QED
      BY <1>2, <1>6, <2>1, <3>1, <3>2
  <2>4. QED
    BY <1>1, <1>4, <2>2, <2>3
<1>7. CASE r.list # <<>> /\ unused = {}
  <2>1. PICK w : w = [r EXCEPT !.stopped = "overrun"]
    OBVIOUS
  <2>2. AddNewPage(r, a) = w
    <3>1. PICK x : x = AddNewPage(r, a)
      OBVIOUS
    <3>2. x = CASE r.list = <<>> -> AddAt(r, a, 0)
                [] r.list # <<>> /\ same # {} -> AddAt(r, a, Min(same))
                [] r.list # <<>> /\ same = {} /\ unused # {} -> AddAt(r, a, Min(unused))
                [] OTHER -> w
      BY <1>1, <2>1, <3>1 DEF AddNewPage, AddAt
    <3>3. QED
      BY <1>2, <1>7, <3>1, <3>2
  <2>3. w \in ProcType /\ w.sz = r.sz /\ w.shrunk = r.shrunk /\ w.table = r.table /\ w.stopped = "overrun"
    BY <1>3, <2>1 DEF ProcType
  <2>4. Full(w)
    BY <1>1, <1>7, <2>3, FullTable DEF Full
  <2>5. QED
    BY <2>2, <2>3, <2>4 DEF IsGrown
<1>8. QED
  BY <1>5, <1>6, <1>7

\* The table entries of pages that are not mapped.
LEMMA EntryMapped ==
  ASSUME NEW r, NEW D, PageInv(r, D), NEW s \in Slot, r.table[s].va # -1
  PROVE  /\ r.table[s].va \in Page /\ r.table[s].va \in D
         /\ \/ r.table[s].state = "PHYSMEMORY" /\ r.pte[r.table[s].va] = "P"
            \/ r.table[s].state = "SWAPFILE" /\ r.pte[r.table[s].va] = "PG"
<1>1. r.table[s].state \in {"NOTUSED", "PHYSMEMORY", "SWAPFILE"}
  BY DEF PageInv, ProcType, Entry
<1>2. PICK a : a = r.table[s].va
  OBVIOUS
<1>3. /\ a \in Page
      /\ \/ r.table[s].state = "PHYSMEMORY" /\ r.pte[a] = "P"
         \/ r.table[s].state = "SWAPFILE" /\ r.pte[a] = "PG"
  BY <1>1, <1>2 DEF PageInv, EntryInv
<1>4. a \in Page /\ a \in D
  BY <1>3 DEF PageInv, PteInv
<1>5. QED
  BY <1>2, <1>3, <1>4

\* A new page is mapped that has no entry yet.
IsMapped(w, r, D, a) ==
  /\ PageInv(w, D \cup {a}) /\ w.pte[a] = "P" /\ \A s \in Slot : w.table[s].va # a
  /\ w.nmem = r.nmem /\ w.sz = r.sz /\ w.stopped = r.stopped /\ w.shrunk = r.shrunk
  /\ Contents(r, D) => Contents(w, D \cup {a})

\* mappages in allocuvm.
LEMMA Mapped ==
  ASSUME NEW r, NEW D, PageInv(r, D), NEW a \in Page, a \notin D,
         NEW w, w = [r EXCEPT !.pte[a] = "P", !.mem[a] = 0]
  PROVE  IsMapped(w, r, D, a)
<1>1. PICK p, q : p = [r.pte EXCEPT ![a] = "P"] /\ q = [r.mem EXCEPT ![a] = 0]
  OBVIOUS
<1>2. /\ r \in ProcType /\ p \in [Page -> {"none", "P", "PG"}] /\ q \in [Page -> Val] /\ p[a] = "P" /\ q[a] = 0
      /\ \A b \in Page : b # a => p[b] = r.pte[b] /\ q[b] = r.mem[b]
  BY <1>1, PagingBasics DEF PageInv, ProcType
<1>3. w = [r EXCEPT !.pte = p, !.mem = q]
  BY <1>1, <1>2 DEF ProcType
<1>4. /\ w.sz = r.sz /\ w.pte = p /\ w.mem = q /\ w.list = r.list /\ w.nmem = r.nmem /\ w.nfile = r.nfile
      /\ w.swapFile = r.swapFile /\ w.file = r.file /\ w.stopped = r.stopped /\ w.headPrev = r.headPrev /\ w.want = r.want
      /\ w.shrunk = r.shrunk /\ w.table = r.table
  BY <1>2, <1>3 DEF ProcType
<1>5. w \in ProcType
  BY <1>2, <1>3 DEF ProcType
<1>6. \A s \in Slot : r.table[s].va # a
  <2>1. SUFFICES ASSUME NEW s \in Slot, r.table[s].va = a PROVE FALSE
    OBVIOUS
  <2>2. r.table[s].va # -1
    BY <2>1, PagingBasics
  <2>3. QED
    BY <2>1, <2>2, EntryMapped
<1>7. Swapped(w) = Swapped(r) /\ Swapped(r) \subseteq Slot
  BY <1>4 DEF Swapped
<1>8. ListInv(w) /\ CountInv(w) /\ FileInv(w)
  BY <1>4, <1>7 DEF PageInv, ListInv, CountInv, FileInv
<1>9. EntryInv(w)
  <2>1. EntryInv(r)
    BY DEF PageInv
  <2>2. \A s \in Slot : r.table[s].va \in Page => w.pte[r.table[s].va] = r.pte[r.table[s].va]
    BY <1>2, <1>4, <1>6
  <2>3. QED
    BY <1>4, <2>1, <2>2 DEF EntryInv
<1>10. PteInv(w, D \cup {a})
  BY <1>2, <1>4, <1>7 DEF PageInv, PteInv
<1>11. ASSUME Contents(r, D) PROVE Contents(w, D \cup {a})
  <2>1. r.want[a] = 0
    BY <1>11 DEF Contents
  <2>2. \A b \in Page : w.pte[b] = "P" => w.mem[b] = w.want[b]
    BY <1>2, <1>4, <1>11, <2>1 DEF Contents
  <2>3. QED
    BY <1>4, <1>7, <1>11, <2>2 DEF Contents
<1>12. QED
  BY <1>2, <1>4, <1>5, <1>6, <1>8, <1>9, <1>10, <1>11 DEF PageInv, IsMapped

\* A round of the loop of allocuvm for sbrk.
LEMMA GrowKeeps ==
  ASSUME NEW r, NEW D, PageInv(r, D), r.stopped = "no", NEW a \in Page, a \notin D
  PROVE  IsGrown(Grow(r, a), r, D, D \cup {a})
<1>1. PICK x : x = MakeRoom(r)
  OBVIOUS
<1>2. /\ PageInv(x, D) /\ x.nmem < MAX_PSYC_PAGES
      /\ x.sz = r.sz /\ x.stopped = r.stopped /\ x.shrunk = r.shrunk
      /\ Contents(r, D) => Contents(x, D)
  <2>1. IsRoom(x, r, D)
    BY <1>1, RoomMade
  <2>2. QED
    BY <2>1 DEF IsRoom
<1>3. PICK y : y = [x EXCEPT !.pte[a] = "P", !.mem[a] = 0]
  OBVIOUS
<1>4. /\ PageInv(y, D \cup {a}) /\ y.pte[a] = "P" /\ \A s \in Slot : y.table[s].va # a
      /\ y.nmem = x.nmem /\ y.sz = x.sz /\ y.stopped = x.stopped /\ y.shrunk = x.shrunk
      /\ Contents(x, D) => Contents(y, D \cup {a})
  <2>1. IsMapped(y, x, D, a)
    BY <1>2, <1>3, Mapped
  <2>2. QED
    BY <2>1 DEF IsMapped
<1>5. PICK w : w = AddNewPage(y, a)
  OBVIOUS
<1>6. IsGrown(w, y, D \cup {a}, D \cup {a})
  <2>1. y.nmem < MAX_PSYC_PAGES /\ y.stopped = "no"
    BY <1>2, <1>4
  <2>2. QED
    BY <1>4, <1>5, <2>1, NewPageAdded
<1>7. Grow(r, a) = w
  BY <1>1, <1>3, <1>5 DEF Grow
<1>8. QED
  BY <1>2, <1>4, <1>6, <1>7 DEF IsGrown

-----------------------------------------------------------------------------
(* The loop of exec.  The entries of the table and the page table of the old image no longer  *)
(* match, but the entries stay those of different pages, and what is on the list is in use.   *)

\* An entry is free when it has no page, and no two entries have the same page.
OwnEntries(r) ==
  /\ \A s \in Slot : r.table[s].state = "NOTUSED" <=> r.table[s].va = -1
  /\ \A s, t \in Slot : r.table[s].va = r.table[t].va /\ r.table[s].va # -1 => s = t

\* Pages of the old image D stay mapped, and all are in memory as long as none has been written
\* to the file.
Loading(r, D) ==
  /\ r \in ProcType /\ OwnEntries(r) /\ r.nmem <= MAX_PSYC_PAGES
  /\ Distinct(r.list) /\ \A s \in Slot : On(r.list, s) => r.table[s].state # "NOTUSED"
  /\ \A a \in D : r.pte[a] # "none"
  /\ r.nfile = 0 => \A a \in Page : r.pte[a] # "PG"

\* The page at the head may go to the file as long as none has gone there.  Before memory is
\* full there is a second one on the list, unless the head has been linked again.
Listed(r) ==
  /\ Len(r.list) > 0
  /\ r.nfile = 0 => HeadPresent(r)
  /\ r.nmem = MAX_PSYC_PAGES => r.headPrev \/ Len(r.list) > 1

\* No page is in the table yet.
Unlisted(r) == r.list = <<>> /\ r.nmem = 0 /\ r.nfile = 0 /\ \A s \in Slot : r.table[s].state = "NOTUSED"

\* What a round of the loop leaves.
IsLoaded(w, D) ==
  /\ w \in ProcType
  /\ w.stopped = "overrun" => Full(w)
  /\ w.stopped = "fault" => w.nfile > 0
  /\ w.stopped = "no" => Loading(w, D) /\ Listed(w)

\* When exec begins all matches.
LEMMA LoadBegins ==
  ASSUME NEW r, NEW D, D \subseteq Page, PageInv(r, D)
  PROVE  Loading(r, D) /\ (Listed(r) \/ Unlisted(r))
<1>1. /\ r \in ProcType /\ r.list \in Seq(Slot) /\ Distinct(r.list) /\ r.nmem \in Nat /\ r.nfile \in Nat
      /\ r.nmem = Len(r.list) /\ r.nmem <= MAX_PSYC_PAGES /\ MAX_PSYC_PAGES \in Nat /\ MAX_PSYC_PAGES > 1
  BY PagingBasics DEF PageInv, ProcType, ListInv, CountInv
<1>2. OwnEntries(r)
  <2>1. \A s \in Slot : r.table[s].state = "NOTUSED" => r.table[s].va = -1
    BY DEF PageInv, EntryInv
  <2>2. \A s \in Slot : r.table[s].va = -1 => r.table[s].state = "NOTUSED"
    <3>1. \A s \in Slot : r.table[s].state \in {"NOTUSED", "PHYSMEMORY", "SWAPFILE"}
      BY <1>1 DEF ProcType, Entry
    <3>2. QED
      BY <3>1, PagingBasics DEF PageInv, EntryInv
  <2>3. QED
    BY <2>1, <2>2 DEF OwnEntries, PageInv, EntryInv
<1>3. \A s \in Slot : On(r.list, s) => r.table[s].state # "NOTUSED"
  BY DEF PageInv, ListInv
<1>4. \A a \in D : r.pte[a] # "none"
  BY DEF PageInv, PteInv
<1>5. r.nfile = 0 => Swapped(r) = {}
  <2>1. r.nfile = Cardinality(Swapped(r))
    BY DEF PageInv, FileInv
  <2>2. QED
    BY <2>1, SwappedFinite, FS_EmptySet
<1>6. r.nfile = 0 => \A a \in Page : r.pte[a] # "PG"
  BY <1>5 DEF PageInv, PteInv
<1>7. Loading(r, D)
  BY <1>1, <1>2, <1>3, <1>4, <1>6 DEF Loading
<1>8. CASE r.nmem > 0
  <2>1. r.pte[r.table[Head(r.list)].va] = "P"
    BY <1>8, HeadFacts
  <2>2. Len(r.list) > 0 /\ (r.nmem = MAX_PSYC_PAGES => Len(r.list) > 1)
    BY <1>1, <1>8
  <2>3. QED
    BY <1>7, <2>1, <2>2 DEF Listed, HeadPresent
<1>9. CASE r.nmem = 0
  <2>1. r.list = <<>>
    <3>1. r.list \in Seq(Slot) /\ Len(r.list) = 0
      BY <1>1, <1>9
    <3>2. QED
      BY <3>1, EmptySeq
  <2>2. r.nfile = 0
    BY <1>1, <2>1 DEF PageInv, FileInv
  <2>3. \A s \in Slot : ~On(r.list, s)
    BY <2>1 DEF On
  <2>4. \A s \in Slot : r.table[s].state # "PHYSMEMORY" /\ r.table[s].state # "SWAPFILE"
    BY <1>5, <2>2, <2>3 DEF PageInv, ListInv, Swapped
  <2>5. \A s \in Slot : r.table[s].state \in {"NOTUSED", "PHYSMEMORY", "SWAPFILE"}
    BY <1>1 DEF ProcType, Entry
  <2>6. QED
    BY <1>7, <1>9, <2>1, <2>2, <2>4, <2>5 DEF Unlisted
<1>10. QED
  BY <1>1, <1>8, <1>9

\* What there is when a page has left for the file.
IsEvicted(w, D) ==
  /\ Loading(w, D) /\ w.stopped = "no" /\ w.nmem < MAX_PSYC_PAGES /\ w.nfile > 0 /\ Len(w.list) > 0

\* The first half of a round when memory is full.
LEMMA EvictKeeps ==
  ASSUME NEW r, NEW D, D \subseteq Page, Loading(r, D), Listed(r), HeadPresent(r), r.nmem = MAX_PSYC_PAGES,
         r.stopped = "no"
  PROVE  IsEvicted(MakeRoom(r), D)
<1>1. /\ r \in ProcType /\ r.list \in Seq(Slot) /\ Distinct(r.list) /\ r.nmem \in Nat /\ r.nfile \in Nat
      /\ MAX_PSYC_PAGES \in Nat /\ MAX_PSYC_PAGES > 1 /\ Len(r.list) > 0 /\ OwnEntries(r)
      /\ r.headPrev \/ Len(r.list) > 1
  BY PagingBasics DEF Loading, Listed, ProcType
<1>2. PICK x : x = (IF r.nfile # MAX_TOTAL_PAGES - MAX_PSYC_PAGES /\ ~r.swapFile
                    THEN [r EXCEPT !.swapFile = TRUE, !.file = <<>>] ELSE r)
  OBVIOUS
<1>3. /\ x \in ProcType /\ x.list = r.list /\ x.table = r.table /\ x.pte = r.pte /\ x.nmem = r.nmem
      /\ x.nfile = r.nfile /\ x.stopped = r.stopped /\ x.headPrev = r.headPrev
  <2>1. CASE x = r
    BY <1>1, <2>1
  <2>2. CASE x = [r EXCEPT !.swapFile = TRUE, !.file = <<>>]
    <3>1. PICK f : f = <<>> /\ f \in Seq(Val)
      <4>1. <<>> \in Seq(Val)
        OBVIOUS
      <4>2. QED
        BY <4>1
    <3>2. x = [r EXCEPT !.swapFile = TRUE, !.file = f]
      BY <2>2, <3>1
    <3>3. QED
      BY <1>1, <3>1, <3>2 DEF ProcType
  <2>3. QED
    BY <1>2, <2>1, <2>2
<1>4. PICK s, a, o, w : /\ s = Head(x.list) /\ a = x.table[s].va /\ w = MemoryToSwapFile(x, s)
                        /\ o = IF x.table[s].offset > -1 THEN x.table[s].offset ELSE x.nfile
  OBVIOUS
<1>5. MakeRoom(r) = w
  BY <1>1, <1>2, <1>3, <1>4 DEF MakeRoom
<1>6. s \in Slot /\ On(x.list, s) /\ s = r.list[1]
  <2>1. s = r.list[1] /\ 1 \in 1 .. Len(r.list)
    BY <1>1, <1>3, <1>4
  <2>2. QED
    BY <1>1, <1>3, <2>1 DEF On
<1>7. r.table[s].state # "NOTUSED" /\ a \in Page
  <2>1. r.table[s].state # "NOTUSED"
    BY <1>3, <1>6 DEF Loading
  <2>2. r.table[s].va # -1
    BY <1>1, <1>6, <2>1 DEF OwnEntries
  <2>3. r.table[s].va \in Page \cup {-1}
    BY <1>1, <1>6 DEF ProcType, Entry
  <2>4. QED
    BY <1>3, <1>4, <2>1, <2>2, <2>3
<1>8. o \in Nat
  <2>1. x.table[s].offset \in Nat \cup {-1} /\ x.nfile \in Nat
    BY <1>3, <1>6 DEF ProcType, Entry
  <2>2. QED
    BY <1>4, <2>1
<1>9. IsOut(w, x, s, a, o)
  <2>1. x.nmem > 0 /\ Distinct(x.list)
    BY <1>1, <1>3
  <2>2. QED
    BY <1>3, <1>4, <1>6, <1>7, <1>8, <2>1, OutFields
<1>10. /\ w \in ProcType /\ w.pte = [r.pte EXCEPT ![a] = "PG"] /\ w.list = OutList(r, s)
       /\ w.nmem = r.nmem - 1 /\ w.nfile = r.nfile + 1 /\ w.stopped = "no"
       /\ EntrySet(w, r, s, "SWAPFILE", a, o)
  <2>1. OutList(x, s) = OutList(r, s)
    BY <1>3 DEF OutList
  <2>2. QED
    BY <1>3, <1>9, <2>1 DEF IsOut, EntrySet
<1>11. /\ w.table[s].state = "SWAPFILE" /\ w.table[s].va = a /\ a = r.table[s].va
       /\ \A t \in Slot : t # s => w.table[t] = r.table[t]
  BY <1>3, <1>4, <1>10 DEF EntrySet
<1>12. OwnEntries(w)
  <2>1. \A t \in Slot : w.table[t].va = r.table[t].va
    BY <1>11
  <2>2. \A t \in Slot : w.table[t].state = "NOTUSED" <=> r.table[t].state = "NOTUSED"
    BY <1>7, <1>11
  <2>3. QED
    BY <1>1, <2>1, <2>2 DEF OwnEntries
<1>13. Distinct(w.list) /\ Len(w.list) > 0 /\ \A t \in Slot : On(w.list, t) => On(r.list, t)
  <2>1. CASE r.headPrev
    <3>1. w.list = <<s>>
      BY <1>10, <2>1 DEF OutList
    <3>2. Len(w.list) = 1 /\ w.list[1] = s
      BY <3>1
    <3>3. QED
      BY <1>3, <1>6, <3>2 DEF Distinct, On
  <2>2. CASE ~r.headPrev
    <3>1. PICK l, u : l = r.list /\ u = updateListPointers(l, s)
      OBVIOUS
    <3>2. l \in Seq(Slot) /\ Distinct(l) /\ On(l, s) /\ w.list = u
      BY <1>1, <1>3, <1>6, <1>10, <2>2, <3>1 DEF OutList
    <3>3. u \in Seq(Slot) /\ Len(u) = Len(l) - 1 /\ Distinct(u) /\ \A t : On(u, t) <=> On(l, t) /\ t # s
      BY <3>1, <3>2, Unlinked
    <3>4. Len(l) > 1 /\ Len(l) \in Nat
      BY <1>1, <2>2, <3>1, <3>2
    <3>5. QED
      BY <3>1, <3>2, <3>3, <3>4
  <2>3. QED
    BY <2>1, <2>2
<1>14. \A t \in Slot : On(w.list, t) => w.table[t].state # "NOTUSED"
  <2>1. \A t \in Slot : On(r.list, t) => r.table[t].state # "NOTUSED"
    BY DEF Loading
  <2>2. QED
    BY <1>11, <1>13, <2>1
<1>15. \A b \in D : w.pte[b] # "none"
  <2>1. r.pte \in [Page -> {"none", "P", "PG"}] /\ \A b \in D : r.pte[b] # "none"
    BY <1>1 DEF ProcType, Loading
  <2>2. QED
    BY <1>7, <1>10, <2>1
<1>16. w.nmem < MAX_PSYC_PAGES /\ w.nmem <= MAX_PSYC_PAGES /\ w.nfile > 0 /\ w.nfile # 0
  BY <1>1, <1>10
<1>17. QED
  BY <1>5, <1>10, <1>12, <1>13, <1>14, <1>15, <1>16 DEF IsEvicted, Loading

\* AddNewPageToPhysicalMemory, for a page that has an entry or gets one,
LEMMA LinkKeeps ==
  ASSUME NEW r, NEW D, Loading(r, D), r.nmem < MAX_PSYC_PAGES, r.stopped = "no", NEW a \in Page, NEW s \in Slot,
         Listed(r) \/ (Len(r.list) > 0 /\ r.nfile > 0) \/ (Unlisted(r) /\ r.pte[a] = "P"),
         r.table[s].va = a \/ (r.table[s].va = -1 /\ \A t \in Slot : r.table[t].va # a)
  PROVE  IsLoaded(AddAt(r, a, s), D)
<1>1. PICK w, l : w = AddAt(r, a, s) /\ l = r.list
  OBVIOUS
<1>2. /\ r \in ProcType /\ l \in Seq(Slot) /\ Distinct(l) /\ r.nmem \in Nat /\ r.nfile \in Nat /\ OwnEntries(r)
      /\ MAX_PSYC_PAGES \in Nat /\ MAX_PSYC_PAGES > 1 /\ a # -1
  BY <1>1, PagingBasics DEF Loading, ProcType
<1>3. IsAdded(w, r, s, a)
  BY <1>1, <1>2, AddFields
<1>4. /\ w \in ProcType /\ w.pte = r.pte /\ w.list = LinkLast(l, s) /\ w.nmem = r.nmem + 1 /\ w.nfile = r.nfile
      /\ w.stopped = "no"
  BY <1>1, <1>3 DEF IsAdded
<1>5. w.headPrev <=> (r.headPrev \/ (l # <<>> /\ s = Head(l)))
  BY <1>1, <1>3 DEF IsAdded
<1>6. /\ w.table[s].state = "PHYSMEMORY" /\ w.table[s].va = a
      /\ \A t \in Slot : t # s => w.table[t] = r.table[t]
  BY <1>3 DEF IsAdded, EntrySet
<1>7. IsLinkedLast(w.list, l, s)
  BY <1>2, <1>4, LinkedLast
<1>8. /\ w.list \in Seq(Slot) /\ Len(w.list) > 0 /\ Distinct(w.list)
      /\ \A t : On(w.list, t) => On(l, t) \/ t = s
      /\ ~On(l, s) => w.list = Append(l, s)
      /\ Len(l) > 0 => w.list[1] = l[1]
      /\ Len(l) > 0 /\ s # l[1] => Len(w.list) > 1
  BY <1>7 DEF IsLinkedLast
<1>9. \A t \in Slot : t # s => r.table[t].va # a
  BY <1>2 DEF OwnEntries
<1>10. OwnEntries(w)
  <2>1. \A t \in Slot : w.table[t].state = "NOTUSED" <=> w.table[t].va = -1
    BY <1>2, <1>6 DEF OwnEntries
  <2>2. \A t, u \in Slot : w.table[t].va = w.table[u].va /\ w.table[t].va # -1 => t = u
    BY <1>2, <1>6, <1>9 DEF OwnEntries
  <2>3. QED
    BY <2>1, <2>2 DEF OwnEntries
<1>11. \A t \in Slot : On(w.list, t) => w.table[t].state # "NOTUSED"
  <2>1. \A t \in Slot : On(l, t) => r.table[t].state # "NOTUSED"
    BY <1>1 DEF Loading
  <2>2. QED
    BY <1>6, <1>8, <2>1
<1>12. Loading(w, D)
  <2>1. w.nmem <= MAX_PSYC_PAGES
    BY <1>2, <1>4
  <2>2. /\ \A b \in D : w.pte[b] # "none"
        /\ w.nfile = 0 => \A b \in Page : w.pte[b] # "PG"
    BY <1>4 DEF Loading
  <2>3. QED
    BY <1>4, <1>8, <1>10, <1>11, <2>1, <2>2 DEF Loading
<1>13. w.nmem = MAX_PSYC_PAGES => w.headPrev \/ Len(w.list) > 1
  <2>1. CASE Len(l) > 0
    <3>1. Head(l) = l[1] /\ l # <<>>
      BY <1>2, <2>1
    <3>2. QED
      BY <1>5, <1>8, <2>1, <3>1
  <2>2. CASE ~(Len(l) > 0)
    <3>1. Unlisted(r)
      BY <1>1, <2>2 DEF Listed
    <3>2. w.nmem = 1
      BY <1>4, <3>1 DEF Unlisted
    <3>3. QED
      BY <1>2, <3>2
  <2>3. QED
    BY <2>1, <2>2
<1>14. w.nfile = 0 => HeadPresent(w)
  <2>1. SUFFICES ASSUME w.nfile = 0 PROVE w.pte[w.table[Head(w.list)].va] = "P"
    BY DEF HeadPresent
  <2>2. Head(w.list) = w.list[1] /\ w.list[1] \in Slot
    BY <1>8
  <2>3. CASE Len(l) > 0
    <3>1. l[1] \in Slot /\ Head(l) = l[1] /\ Head(w.list) = l[1]
      BY <1>2, <1>8, <2>2, <2>3
    <3>2. Listed(r)
      <4>1. l # <<>>
        BY <1>2, <2>3
      <4>2. QED
        BY <1>1, <1>2, <1>4, <2>1, <4>1 DEF Unlisted
    <3>3. r.pte[r.table[l[1]].va] = "P"
      BY <1>1, <1>4, <2>1, <3>1, <3>2 DEF Listed, HeadPresent
    <3>4. r.table[l[1]].va # -1
      <4>1. On(l, l[1])
        <5>1. 1 \in 1 .. Len(l)
          BY <1>2, <2>3
        <5>2. QED
          BY <5>1 DEF On
      <4>2. r.table[l[1]].state # "NOTUSED"
        BY <1>1, <3>1, <4>1 DEF Loading
      <4>3. QED
        BY <1>2, <3>1, <4>2 DEF OwnEntries
    <3>5. w.table[l[1]].va = r.table[l[1]].va
      BY <1>6, <3>1, <3>4
    <3>6. QED
      BY <1>4, <3>1, <3>3, <3>5
  <2>4. CASE ~(Len(l) > 0)
    <3>1. Unlisted(r) /\ r.pte[a] = "P"
      BY <1>1, <2>4 DEF Listed
    <3>2. w.list[1] = s
      <4>1. ~On(l, s)
        BY <1>2, <2>4 DEF On
      <4>2. w.list = Append(l, s) /\ Len(l) = 0
        BY <1>2, <1>8, <2>4, <4>1
      <4>3. QED
        BY <1>2, <4>2
    <3>3. QED
      BY <1>4, <1>6, <2>2, <3>1, <3>2
  <2>5. QED
    BY <2>3, <2>4
<1>15. Listed(w)
  BY <1>8, <1>13, <1>14 DEF Listed
<1>16. QED
  BY <1>1, <1>4, <1>12, <1>15 DEF IsLoaded

\* and for one that gets none.
LEMMA PageLoaded ==
  ASSUME NEW r, NEW D, Loading(r, D), r.nmem < MAX_PSYC_PAGES, r.stopped = "no", NEW a \in Page,
         Listed(r) \/ (Len(r.list) > 0 /\ r.nfile > 0) \/ (Unlisted(r) /\ r.pte[a] = "P")
  PROVE  IsLoaded(AddNewPage(r, a), D)
<1>1. PICK same, unused, w, e : /\ same = {s \in Slot : r.table[s].va = a}
                                /\ unused = {s \in Slot : r.table[s].state = "NOTUSED"}
                                /\ w = AddNewPage(r, a) /\ e = [r EXCEPT !.stopped = "overrun"]
  OBVIOUS
<1>2. w = CASE r.list = <<>> -> AddAt(r, a, 0)
            [] r.list # <<>> /\ same # {} -> AddAt(r, a, Min(same))
            [] r.list # <<>> /\ same = {} /\ unused # {} -> AddAt(r, a, Min(unused))
            [] OTHER -> e
  BY <1>1 DEF AddNewPage, AddAt
<1>3. r \in ProcType /\ r.list \in Seq(Slot) /\ OwnEntries(r) /\ Slot \subseteq Nat /\ 0 \in Slot
  BY PagingBasics DEF Loading, ProcType
<1>4. CASE r.list = <<>>
  <2>1. w = AddAt(r, a, 0)
    BY <1>2, <1>4
  <2>2. Unlisted(r)
    <3>1. Len(r.list) = 0
      BY <1>4
    <3>2. QED
      BY <3>1 DEF Listed
  <2>3. \A t \in Slot : r.table[t].va = -1
    BY <1>3, <2>2 DEF Unlisted, OwnEntries
  <2>4. \A t \in Slot : r.table[t].va # a
    BY <2>3, PagingBasics
  <2>5. IsLoaded(AddAt(r, a, 0), D)
    BY <1>3, <2>3, <2>4, LinkKeeps
  <2>6. QED
    BY <1>1, <2>1, <2>5
<1>5. CASE r.list # <<>> /\ same # {}
  <2>1. PICK s : s = Min(same)
    OBVIOUS
  <2>2. s \in same
    BY <1>1, <1>3, <1>5, <2>1, MinIn
  <2>3. w = AddAt(r, a, s)
    BY <1>2, <1>5, <2>1
  <2>4. s \in Slot /\ r.table[s].va = a
    BY <1>1, <2>2
  <2>5. IsLoaded(AddAt(r, a, s), D)
    BY <2>4, LinkKeeps
  <2>6. QED
    BY <1>1, <2>3, <2>5
<1>6. CASE r.list # <<>> /\ same = {} /\ unused # {}
  <2>1. PICK s : s = Min(unused)
    OBVIOUS
  <2>2. s \in unused
    BY <1>1, <1>3, <1>6, <2>1, MinIn
  <2>3. w = AddAt(r, a, s)
    BY <1>2, <1>6, <2>1
  <2>4. s \in Slot /\ r.table[s].va = -1 /\ \A t \in Slot : r.table[t].va # a
    BY <1>1, <1>3, <1>6, <2>2 DEF OwnEntries
  <2>5. IsLoaded(AddAt(r, a, s), D)
    BY <2>4, LinkKeeps
  <2>6. QED
    BY <1>1, <2>3, <2>5
<1>7. CASE r.list # <<>> /\ same = {} /\ unused = {}
  <2>1. w = e
    BY <1>2, <1>7
  <2>2. e \in ProcType /\ e.table = r.table /\ e.stopped = "overrun"
    BY <1>1, <1>3 DEF ProcType
  <2>3. \A s \in Slot : r.table[s].va # -1 /\ r.table[s].va \in Page \cup {-1}
    BY <1>1, <1>3, <1>7 DEF OwnEntries, ProcType, Entry
  <2>4. Full(e)
    BY <1>3, <2>2, <2>3 DEF OwnEntries, Full
  <2>5. QED
    BY <1>1, <2>1, <2>2, <2>4 DEF IsLoaded
<1>8. QED
  BY <1>4, <1>5, <1>6, <1>7

\* A round of the loop.
LEMMA LoadKeeps ==
  ASSUME NEW r, NEW D, D \subseteq Page, Loading(r, D), r.stopped = "no", NEW a \in Page,
         Listed(r) \/ (Unlisted(r) /\ a \in D)
  PROVE  IsLoaded(Load(r, a), D)
<1>1. r \in ProcType /\ r.nmem \in Nat /\ r.nfile \in Nat /\ r.nmem <= MAX_PSYC_PAGES /\ MAX_PSYC_PAGES \in Nat
  BY PagingBasics DEF Loading, ProcType
<1>2. CASE r.nmem # MAX_PSYC_PAGES
  <2>1. Load(r, a) = AddNewPage(r, a)
    BY <1>2 DEF Load, MakeRoom
  <2>2. r.nmem < MAX_PSYC_PAGES
    BY <1>1, <1>2
  <2>3. ASSUME Unlisted(r), a \in D PROVE r.pte[a] = "P"
    <3>1. r.pte[a] # "none" /\ r.pte[a] # "PG" /\ r.pte[a] \in {"none", "P", "PG"}
      BY <1>1, <2>3 DEF Loading, Unlisted, ProcType
    <3>2. QED
      BY <3>1
  <2>4. QED
    BY <2>1, <2>2, <2>3, PageLoaded
<1>3. CASE r.nmem = MAX_PSYC_PAGES /\ ~HeadPresent(r)
  <2>1. PICK w : w = [r EXCEPT !.stopped = "fault"]
    OBVIOUS
  <2>2. Load(r, a) = w
    BY <1>3, <2>1 DEF Load
  <2>3. w \in ProcType /\ w.nfile = r.nfile /\ w.stopped = "fault"
    BY <1>1, <2>1 DEF ProcType
  <2>4. r.nfile > 0
    <3>1. ~Unlisted(r)
      BY <1>3, PagingBasics DEF Unlisted
    <3>2. QED
      BY <1>1, <1>3, <3>1 DEF Listed
  <2>5. QED
    BY <2>2, <2>3, <2>4 DEF IsLoaded
<1>4. CASE r.nmem = MAX_PSYC_PAGES /\ HeadPresent(r)
  <2>1. PICK x : x = MakeRoom(r)
    OBVIOUS
  <2>2. Listed(r)
    BY <1>4, PagingBasics DEF Unlisted
  <2>3. IsEvicted(x, D)
    BY <1>4, <2>1, <2>2, EvictKeeps
  <2>4. IsLoaded(AddNewPage(x, a), D)
    BY <2>3, PageLoaded DEF IsEvicted
  <2>5. Load(r, a) = AddNewPage(x, a)
    BY <1>4, <2>1 DEF Load
  <2>6. QED
    BY <2>4, <2>5
<1>5. QED
  BY <1>2, <1>3, <1>4

-----------------------------------------------------------------------------
\* The page table entry of a page is cleared.
Freed(r, a) == [r EXCEPT !.pte[a] = "none", !.mem[a] = 0]

IsFreed(w, r, a) ==
  /\ w \in ProcType /\ w.sz = r.sz /\ w.list = r.list /\ w.nmem = r.nmem /\ w.nfile = r.nfile
  /\ w.swapFile = r.swapFile /\ w.file = r.file /\ w.stopped = r.stopped /\ w.headPrev = r.headPrev /\ w.want = r.want
  /\ w.shrunk = r.shrunk /\ w.table = r.table /\ w.pte[a] = "none"
  /\ \A b \in Page : b # a => w.pte[b] = r.pte[b]

\* The record without a page table entry, field by field.
LEMMA FreedFields ==
  ASSUME NEW r, r \in ProcType, NEW a, a \in Page
  PROVE  IsFreed(Freed(r, a), r, a)
<1> DEFINE w == Freed(r, a)
<1>1. PICK p, q : p = [r.pte EXCEPT ![a] = "none"] /\ q = [r.mem EXCEPT ![a] = 0]
  OBVIOUS
<1>2. /\ p \in [Page -> {"none", "P", "PG"}] /\ q \in [Page -> Val] /\ p[a] = "none"
      /\ \A b \in Page : b # a => p[b] = r.pte[b]
  BY <1>1, PagingBasics DEF ProcType
<1>3. w = [r EXCEPT !.pte = p, !.mem = q]
  BY <1>1 DEF ProcType, Freed
<1>4. /\ w.sz = r.sz /\ w.pte = p /\ w.list = r.list /\ w.nmem = r.nmem /\ w.nfile = r.nfile
      /\ w.swapFile = r.swapFile /\ w.file = r.file /\ w.stopped = r.stopped /\ w.headPrev = r.headPrev /\ w.want = r.want
      /\ w.shrunk = r.shrunk /\ w.table = r.table
  BY <1>3 DEF ProcType
<1>5. w \in ProcType
  BY <1>2, <1>3 DEF ProcType
<1>6. QED
  BY <1>2, <1>4, <1>5 DEF IsFreed

\* What a round of the loop in deallocuvm leaves of r: page a is gone.
IsShrunk(w, r, D) ==
  /\ PageInv(w, D) /\ w.sz = r.sz /\ w.stopped = r.stopped /\ w.shrunk = r.shrunk /\ w.want = r.want

\* A page without an entry goes.
LEMMA ShrinkUnlisted ==
  ASSUME NEW r, NEW D, PageInv(r, D), NEW a \in Page, r.pte[a] = "P",
         \A s \in Slot : r.table[s].va # a, NEW w, w = Freed(r, a)
  PROVE  IsShrunk(w, r, D \ {a})
<1>1. r \in ProcType
  BY DEF PageInv
<1>2. /\ w \in ProcType /\ w.sz = r.sz /\ w.list = r.list /\ w.nmem = r.nmem /\ w.nfile = r.nfile
      /\ w.swapFile = r.swapFile /\ w.file = r.file /\ w.stopped = r.stopped /\ w.headPrev = r.headPrev /\ w.want = r.want
      /\ w.shrunk = r.shrunk /\ w.table = r.table /\ w.pte[a] = "none"
      /\ \A b \in Page : b # a => w.pte[b] = r.pte[b]
  BY <1>1, FreedFields DEF IsFreed
<1>3. Swapped(w) = Swapped(r) /\ Swapped(r) \subseteq Slot
  BY <1>2 DEF Swapped
<1>4. ListInv(w) /\ CountInv(w) /\ FileInv(w)
  BY <1>2, <1>3 DEF PageInv, ListInv, CountInv, FileInv
<1>5. EntryInv(w)
  <2>1. EntryInv(r)
    BY DEF PageInv
  <2>2. \A s \in Slot : r.table[s].va \in Page => w.pte[r.table[s].va] = r.pte[r.table[s].va]
    BY <1>2
  <2>3. QED
    BY <1>2, <2>1, <2>2 DEF EntryInv
<1>6. PteInv(w, D \ {a})
  BY <1>2, <1>3 DEF PageInv, PteInv
<1>7. QED
  BY <1>2, <1>4, <1>5, <1>6 DEF PageInv, IsShrunk

\* The entry of a page, when there is one, is the only one.
LEMMA TheEntry ==
  ASSUME NEW r, NEW D, PageInv(r, D), NEW a \in Page,
         NEW E, E = {s \in Slot : r.table[s].va = a}, E # {}, NEW s, s = Min(E)
  PROVE  /\ s \in Slot /\ r.table[s].va = a /\ a \in Page /\ a \in D /\ \A t \in Slot : r.table[t].va = a => t = s
         /\ \/ r.table[s].state = "PHYSMEMORY" /\ r.pte[a] = "P"
            \/ r.table[s].state = "SWAPFILE" /\ r.pte[a] = "PG"
<1>1. s \in E
  BY MinIn, PagingBasics
<1>2. s \in Slot /\ r.table[s].va = a /\ r.table[s].va # -1
  BY <1>1, PagingBasics
<1>3. \A t \in Slot : r.table[t].va = a => t = s
  BY <1>2 DEF PageInv, EntryInv
<1>4. QED
  BY <1>2, <1>3, EntryMapped

\* A page in the file goes.
LEMMA ShrinkSwapped ==
  ASSUME NEW r, NEW D, PageInv(r, D), NEW a \in Page, r.pte[a] = "PG",
         NEW s, s = Min({t \in Slot : r.table[t].va = a}),
         NEW w, w = [Freed(r, a) EXCEPT !.nfile = @ - 1, !.table[s] = NotUsed]
  PROVE  IsShrunk(w, r, D \ {a})
<1>1. PICK x : x = Freed(r, a)
  OBVIOUS
<1>2. r \in ProcType /\ r.nfile \in Nat
  BY DEF PageInv, ProcType
<1>3. /\ x \in ProcType /\ x.sz = r.sz /\ x.list = r.list /\ x.nmem = r.nmem /\ x.nfile = r.nfile
      /\ x.swapFile = r.swapFile /\ x.file = r.file /\ x.stopped = r.stopped /\ x.headPrev = r.headPrev /\ x.want = r.want
      /\ x.shrunk = r.shrunk /\ x.table = r.table /\ x.pte[a] = "none"
      /\ \A b \in Page : b # a => x.pte[b] = r.pte[b]
  BY <1>1, <1>2, FreedFields DEF IsFreed
<1>4. /\ s \in Slot /\ r.table[s].va = a /\ a \in Page /\ a \in D /\ \A t \in Slot : r.table[t].va = a => t = s
      /\ r.table[s].state = "SWAPFILE"
  <2>1. PICK E : E = {t \in Slot : r.table[t].va = a}
    OBVIOUS
  <2>2. E # {}
    BY <2>1, SwappedFinite DEF PageInv, PteInv
  <2>3. QED
    BY <2>1, <2>2, TheEntry
<1>5. Swapped(r) \subseteq Slot /\ s \in Swapped(r) /\ Cardinality(Swapped(r)) = r.nfile /\ r.nfile > 0
  <2>1. s \in Swapped(r)
    BY <1>4 DEF Swapped
  <2>2. Cardinality(Swapped(r)) = r.nfile
    BY DEF PageInv, FileInv
  <2>3. r.nfile # 0
    BY <2>1, <2>2, SwappedFinite, FS_EmptySet
  <2>4. QED
    BY <1>2, <2>1, <2>2, <2>3, SwappedFinite
<1>6. PICK e, n : e = NotUsed /\ n = r.nfile - 1
  OBVIOUS
<1>7. e \in Entry /\ n \in Nat /\ e.state = "NOTUSED" /\ e.va = -1
  BY <1>2, <1>5, <1>6 DEF Entry, NotUsed
<1>8. PICK b : b = [r.table EXCEPT ![s] = e]
  OBVIOUS
<1>9. b \in [Slot -> Entry] /\ b[s] = e /\ \A t \in Slot : t # s => b[t] = r.table[t]
  BY <1>2, <1>4, <1>7, <1>8 DEF ProcType
<1>10. w = [x EXCEPT !.nfile = n, !.table = b]
  BY <1>1, <1>3, <1>6, <1>8 DEF ProcType
<1>11. /\ w.sz = r.sz /\ w.list = r.list /\ w.nmem = r.nmem /\ w.nfile = n
       /\ w.swapFile = r.swapFile /\ w.file = r.file /\ w.stopped = r.stopped /\ w.headPrev = r.headPrev /\ w.want = r.want
       /\ w.shrunk = r.shrunk /\ w.table = b /\ w.pte = x.pte
  BY <1>3, <1>10 DEF ProcType
<1>12. w \in ProcType
  BY <1>3, <1>7, <1>9, <1>10 DEF ProcType
<1>13. Swapped(w) = Swapped(r) \ {s}
  BY <1>7, <1>9, <1>11 DEF Swapped
<1>14. ListInv(w) /\ CountInv(w)
  <2>1. CountInv(w)
    BY <1>11 DEF PageInv, CountInv
  <2>2. ListInv(w)
    BY <1>4, <1>7, <1>9, <1>11 DEF PageInv, ListInv
  <2>3. QED
    BY <2>1, <2>2
<1>15. FileInv(w)
  <2>1. Cardinality(Swapped(w)) = Cardinality(Swapped(r)) - 1
    <3>1. PICK A : A = Swapped(r)
      OBVIOUS
    <3>2. IsFiniteSet(A) /\ s \in A
      BY <1>5, <3>1, SwappedFinite
    <3>3. Cardinality(A \ {s}) = Cardinality(A) - 1
      BY <3>2, FS_RemoveElement
    <3>4. QED
      BY <1>13, <3>1, <3>3
  <2>2. r.nfile <= Len(r.file) /\ r.swapFile /\ r.list # <<>> /\ Len(r.file) \in Nat
    BY <1>2, <1>5 DEF PageInv, FileInv, ProcType
  <2>3. w.nfile = Cardinality(Swapped(w))
    BY <1>5, <1>6, <1>11, <2>1
  <2>4. w.nfile <= Len(w.file)
    BY <1>2, <1>6, <1>11, <2>2
  <2>5. QED
    BY <1>11, <2>2, <2>3, <2>4 DEF FileInv
<1>16. EntryInv(w)
  <2>1. EntryInv(r)
    BY DEF PageInv
  <2>2. ASSUME NEW t \in Slot, t # s
        PROVE  w.table[t] = r.table[t] /\ (r.table[t].va \in Page => w.pte[r.table[t].va] = r.pte[r.table[t].va])
    BY <1>3, <1>4, <1>9, <1>11, <2>2
  <2>3. w.table[s].state = "NOTUSED" /\ w.table[s].va = -1
    BY <1>7, <1>9, <1>11
  <2>4. ASSUME NEW t \in Slot, w.table[t].state = "NOTUSED" PROVE w.table[t].va = -1
    BY <2>1, <2>2, <2>3, <2>4 DEF EntryInv
  <2>5. ASSUME NEW t \in Slot, w.table[t].state = "PHYSMEMORY"
        PROVE  w.table[t].va \in Page /\ w.pte[w.table[t].va] = "P" /\ w.table[t].offset = -1
    BY <2>1, <2>2, <2>3, <2>5 DEF EntryInv
  <2>6. ASSUME NEW t \in Slot, w.table[t].state = "SWAPFILE"
        PROVE  w.table[t].va \in Page /\ w.pte[w.table[t].va] = "PG" /\ w.table[t].offset \in 0 .. Len(w.file) - 1
    BY <1>11, <2>1, <2>2, <2>3, <2>6 DEF EntryInv
  <2>7. \A t, u \in Slot : w.table[t].va = w.table[u].va /\ w.table[t].va # -1 => t = u
    BY <2>1, <2>2, <2>3 DEF EntryInv
  <2>8. QED
    BY <2>4, <2>5, <2>6, <2>7 DEF EntryInv
<1>17. PteInv(w, D \ {a})
  <2>1. PteInv(r, D)
    BY DEF PageInv
  <2>2. \A c \in Page : w.pte[c] # "none" <=> c \in D \ {a}
    BY <1>3, <1>11, <2>1 DEF PteInv
  <2>3. ASSUME NEW c \in Page, w.pte[c] = "PG" PROVE \E t \in Swapped(w) : w.table[t].va = c
    <3>1. c # a /\ r.pte[c] = "PG"
      BY <1>3, <1>11, <2>3
    <3>2. PICK t \in Swapped(r) : r.table[t].va = c
      BY <2>1, <3>1 DEF PteInv
    <3>3. t # s /\ t \in Slot
      BY <1>4, <1>5, <3>1, <3>2
    <3>4. QED
      BY <1>9, <1>11, <1>13, <3>2, <3>3
  <2>4. QED
    BY <2>2, <2>3 DEF PteInv
<1>18. QED
  BY <1>11, <1>12, <1>14, <1>15, <1>16, <1>17 DEF PageInv, IsShrunk

\* The record without the entry s of page a, which was in memory.
Cleared(r, a, s) == [Freed(r, a) EXCEPT !.nmem = IF @ > 0 THEN @ - 1 ELSE @, !.table[s] = NotUsed]

IsCleared(d, r, a, s) ==
  /\ d \in ProcType /\ d.sz = r.sz /\ d.list = r.list /\ d.nmem = r.nmem - 1 /\ d.nfile = r.nfile
  /\ d.swapFile = r.swapFile /\ d.file = r.file /\ d.stopped = r.stopped /\ d.headPrev = r.headPrev /\ d.want = r.want
  /\ d.shrunk = r.shrunk /\ d.table[s].state = "NOTUSED" /\ d.table[s].va = -1
  /\ \A t \in Slot : t # s => d.table[t] = r.table[t]
  /\ d.pte[a] = "none" /\ \A b \in Page : b # a => d.pte[b] = r.pte[b]

\* The record without the entry of a page in memory, field by field.
LEMMA ClearedFields ==
  ASSUME NEW r, r \in ProcType, NEW a, a \in Page, NEW s, s \in Slot, r.nmem > 0
  PROVE  IsCleared(Cleared(r, a, s), r, a, s)
<1>1. PICK x, d : x = Freed(r, a) /\ d = Cleared(r, a, s)
  OBVIOUS
<1>2. /\ x \in ProcType /\ x.sz = r.sz /\ x.list = r.list /\ x.nmem = r.nmem /\ x.nfile = r.nfile
      /\ x.swapFile = r.swapFile /\ x.file = r.file /\ x.stopped = r.stopped /\ x.headPrev = r.headPrev /\ x.want = r.want
      /\ x.shrunk = r.shrunk /\ x.table = r.table /\ x.pte[a] = "none"
      /\ \A b \in Page : b # a => x.pte[b] = r.pte[b]
  BY <1>1, FreedFields DEF IsFreed
<1>3. PICK e, n : e = NotUsed /\ n = r.nmem - 1
  OBVIOUS
<1>4. e \in Entry /\ n \in Nat /\ e.state = "NOTUSED" /\ e.va = -1
  BY <1>3 DEF Entry, NotUsed, ProcType
<1>5. PICK b : b = [r.table EXCEPT ![s] = e]
  OBVIOUS
<1>6. b \in [Slot -> Entry] /\ b[s] = e /\ \A t \in Slot : t # s => b[t] = r.table[t]
  BY <1>4, <1>5 DEF ProcType
<1>7. d = [x EXCEPT !.nmem = n, !.table = b]
  <2>1. d = [x EXCEPT !.nmem = IF @ > 0 THEN @ - 1 ELSE @, !.table[s] = e]
    BY <1>1, <1>3 DEF Cleared
  <2>2. (IF x.nmem > 0 THEN x.nmem - 1 ELSE x.nmem) = n
    BY <1>2, <1>3
  <2>3. d = [x EXCEPT !.nmem = n, !.table[s] = e]
    BY <1>2, <2>1, <2>2 DEF ProcType
  <2>4. QED
    BY <1>2, <1>5, <2>3 DEF ProcType
<1>8. /\ d.sz = r.sz /\ d.list = r.list /\ d.nmem = n /\ d.nfile = r.nfile
      /\ d.swapFile = r.swapFile /\ d.file = r.file /\ d.stopped = r.stopped /\ d.headPrev = r.headPrev /\ d.want = r.want
      /\ d.shrunk = r.shrunk /\ d.table = b /\ d.pte = x.pte
  BY <1>2, <1>7 DEF ProcType
<1>9. d \in ProcType
  BY <1>2, <1>4, <1>6, <1>7 DEF ProcType
<1>10. QED
  BY <1>1, <1>2, <1>3, <1>4, <1>6, <1>8, <1>9 DEF IsCleared

\* The record with another list.
IsRelinked(w, r, l) ==
  /\ w \in ProcType /\ w.sz = r.sz /\ w.list = l /\ w.nmem = r.nmem /\ w.nfile = r.nfile
  /\ w.swapFile = r.swapFile /\ w.file = r.file /\ w.stopped = r.stopped /\ w.headPrev = r.headPrev /\ w.want = r.want
  /\ w.shrunk = r.shrunk /\ w.table = r.table /\ w.pte = r.pte

\* It differs in the list alone.
LEMMA Relinked ==
  ASSUME NEW r, r \in ProcType, NEW l, l \in Seq(Slot)
  PROVE  IsRelinked([r EXCEPT !.list = l], r, l)
<1>1. PICK w : w = [r EXCEPT !.list = l]
  OBVIOUS
<1>2. /\ w.sz = r.sz /\ w.list = l /\ w.nmem = r.nmem /\ w.nfile = r.nfile
      /\ w.swapFile = r.swapFile /\ w.file = r.file /\ w.stopped = r.stopped /\ w.headPrev = r.headPrev /\ w.want = r.want
      /\ w.shrunk = r.shrunk /\ w.table = r.table /\ w.pte = r.pte
  BY <1>1 DEF ProcType
<1>3. w \in ProcType
  BY <1>1 DEF ProcType
<1>4. QED
  BY <1>1, <1>2, <1>3 DEF IsRelinked

\* A page in memory goes, and no page is in the file.
LEMMA DeleteKeeps ==
  ASSUME NEW r, NEW D, PageInv(r, D), NEW a \in Page,
         NEW s \in Slot, r.table[s].va = a, r.table[s].state = "PHYSMEMORY", r.nfile = 0,
         NEW d, d = Cleared(r, a, s), NEW w, w = [d EXCEPT !.list = updateListPointers(@, s)]
  PROVE  IsShrunk(w, r, D \ {a})
<1>1. /\ r \in ProcType /\ r.list \in Seq(Slot) /\ Distinct(r.list) /\ On(r.list, s) /\ r.nmem = Len(r.list)
      /\ r.nmem \in Nat /\ r.nmem > 0
  <2>1. /\ r \in ProcType /\ r.list \in Seq(Slot) /\ Distinct(r.list) /\ On(r.list, s) /\ r.nmem = Len(r.list)
        /\ r.nmem \in Nat
    BY DEF PageInv, ProcType, ListInv, CountInv
  <2>2. QED
    BY <2>1 DEF On
<1>2. /\ d \in ProcType /\ d.sz = r.sz /\ d.list = r.list /\ d.nmem = r.nmem - 1 /\ d.nfile = r.nfile
      /\ d.swapFile = r.swapFile /\ d.file = r.file /\ d.stopped = r.stopped /\ d.headPrev = r.headPrev /\ d.want = r.want
      /\ d.shrunk = r.shrunk /\ d.table[s].state = "NOTUSED" /\ d.table[s].va = -1
      /\ \A t \in Slot : t # s => d.table[t] = r.table[t]
      /\ d.pte[a] = "none" /\ \A b \in Page : b # a => d.pte[b] = r.pte[b]
  <2>1. IsCleared(d, r, a, s)
    BY <1>1, ClearedFields
  <2>2. QED
    BY <2>1 DEF IsCleared
<1>3. PICK l : l = updateListPointers(r.list, s)
  OBVIOUS
<1>4. /\ l \in Seq(Slot) /\ Len(l) = Len(r.list) - 1 /\ Distinct(l)
      /\ \A t : On(l, t) <=> On(r.list, t) /\ t # s
  BY <1>1, <1>3, Unlinked
<1>5. /\ w \in ProcType /\ w.sz = r.sz /\ w.list = l /\ w.nmem = d.nmem /\ w.nfile = r.nfile
      /\ w.swapFile = r.swapFile /\ w.file = r.file /\ w.stopped = r.stopped /\ w.headPrev = r.headPrev /\ w.want = r.want
      /\ w.shrunk = r.shrunk /\ w.table = d.table /\ w.pte = d.pte
  <2>1. w = [d EXCEPT !.list = l]
    BY <1>2, <1>3 DEF ProcType
  <2>2. IsRelinked(w, d, l)
    BY <1>2, <1>4, <2>1, Relinked
  <2>3. QED
    BY <1>2, <2>2 DEF IsRelinked
<1>6. Swapped(w) = {} /\ Swapped(r) = {}
  <2>1. Cardinality(Swapped(r)) = 0
    BY DEF PageInv, FileInv
  <2>2. Swapped(r) = {}
    BY <2>1, SwappedFinite, FS_EmptySet
  <2>3. QED
    BY <1>2, <1>5, <2>2 DEF Swapped
<1>7. ListInv(w) /\ CountInv(w)
  <2>1. CountInv(w)
    BY <1>1, <1>2, <1>4, <1>5, PagingBasics DEF PageInv, CountInv
  <2>2. ListInv(w)
    BY <1>2, <1>4, <1>5 DEF PageInv, ListInv
  <2>3. QED
    BY <2>1, <2>2
<1>8. FileInv(w)
  <2>1. Cardinality(Swapped(w)) = 0
    BY <1>6, FS_EmptySet
  <2>2. QED
    BY <1>5, <2>1 DEF PageInv, FileInv
<1>9. \A t \in Slot : r.table[t].va = a => t = s
  BY PagingBasics DEF PageInv, EntryInv
<1>10. EntryInv(w)
  <2>1. EntryInv(r)
    BY DEF PageInv
  <2>2. ASSUME NEW t \in Slot, t # s
        PROVE  w.table[t] = r.table[t] /\ (r.table[t].va \in Page => w.pte[r.table[t].va] = r.pte[r.table[t].va])
    BY <1>2, <1>5, <1>9, <2>2
  <2>3. w.table[s].state = "NOTUSED" /\ w.table[s].va = -1
    BY <1>2, <1>5
  <2>4. ASSUME NEW t \in Slot, w.table[t].state = "NOTUSED" PROVE w.table[t].va = -1
    BY <2>1, <2>2, <2>3, <2>4 DEF EntryInv
  <2>5. ASSUME NEW t \in Slot, w.table[t].state = "PHYSMEMORY"
        PROVE  w.table[t].va \in Page /\ w.pte[w.table[t].va] = "P" /\ w.table[t].offset = -1
    BY <2>1, <2>2, <2>3, <2>5 DEF EntryInv
  <2>6. \A t \in Slot : w.table[t].state # "SWAPFILE"
    BY <1>6 DEF Swapped
  <2>7. \A t, u \in Slot : w.table[t].va = w.table[u].va /\ w.table[t].va # -1 => t = u
    BY <2>1, <2>2, <2>3 DEF EntryInv
  <2>8. QED
    BY <2>4, <2>5, <2>6, <2>7 DEF EntryInv
<1>11. PteInv(w, D \ {a})
  BY <1>2, <1>5, <1>6 DEF PageInv, PteInv
<1>12. QED
  BY <1>5, <1>7, <1>8, <1>10, <1>11 DEF PageInv, IsShrunk

\* A page in memory goes, and the first one of the table that is in the file comes back.
LEMMA DeleteSwapsIn ==
  ASSUME NEW r, NEW D, PageInv(r, D), NEW a \in Page,
         NEW s \in Slot, r.table[s].va = a, r.table[s].state = "PHYSMEMORY",
         NEW d, d = Cleared(r, a, s), NEW t \in Slot, r.table[t].state = "SWAPFILE",
         NEW b, b = FileToMemory(d, t), NEW w, w = [b EXCEPT !.list = updateListPointers(@, s)]
  PROVE  IsShrunk(w, r, D \ {a})
<1>1. /\ r \in ProcType /\ r.list \in Seq(Slot) /\ Distinct(r.list) /\ On(r.list, s) /\ r.nmem = Len(r.list)
      /\ r.nmem \in Nat /\ r.nmem > 0 /\ r.nfile \in Nat /\ r.file \in Seq(Val)
  <2>1. /\ r \in ProcType /\ r.list \in Seq(Slot) /\ Distinct(r.list) /\ On(r.list, s) /\ r.nmem = Len(r.list)
        /\ r.nmem \in Nat /\ r.nfile \in Nat /\ r.file \in Seq(Val)
    BY DEF PageInv, ProcType, ListInv, CountInv
  <2>2. QED
    BY <2>1 DEF On
<1>2. /\ d \in ProcType /\ d.sz = r.sz /\ d.list = r.list /\ d.nmem = r.nmem - 1 /\ d.nfile = r.nfile
      /\ d.swapFile = r.swapFile /\ d.file = r.file /\ d.stopped = r.stopped /\ d.headPrev = r.headPrev /\ d.want = r.want
      /\ d.shrunk = r.shrunk /\ d.table[s].state = "NOTUSED" /\ d.table[s].va = -1
      /\ \A u \in Slot : u # s => d.table[u] = r.table[u]
      /\ d.pte[a] = "none" /\ \A c \in Page : c # a => d.pte[c] = r.pte[c]
  <2>1. IsCleared(d, r, a, s)
    BY <1>1, ClearedFields
  <2>2. QED
    BY <2>1 DEF IsCleared
<1>3. EntryInv(r) /\ PteInv(r, D)
  BY DEF PageInv
<1>4. PICK c : c = r.table[t].va
  OBVIOUS
<1>5. /\ t # s /\ d.table[t] = r.table[t] /\ c \in Page /\ c # a /\ r.pte[c] = "PG" /\ r.pte[a] = "P"
      /\ r.table[t].offset \in 0 .. Len(r.file) - 1 /\ ~On(r.list, t)
  <2>1. t # s /\ d.table[t] = r.table[t]
    BY <1>2
  <2>2. c \in Page /\ r.pte[c] = "PG" /\ r.table[t].offset \in 0 .. Len(r.file) - 1
    BY <1>3, <1>4 DEF EntryInv
  <2>3. r.pte[a] = "P"
    BY <1>3 DEF EntryInv
  <2>4. ~On(r.list, t)
    BY DEF PageInv, ListInv
  <2>5. QED
    BY <2>1, <2>2, <2>3, <2>4
<1>6. Swapped(r) \subseteq Slot /\ t \in Swapped(r) /\ Cardinality(Swapped(r)) = r.nfile /\ r.nfile > 0
  <2>1. t \in Swapped(r)
    BY DEF Swapped
  <2>2. Cardinality(Swapped(r)) = r.nfile
    BY DEF PageInv, FileInv
  <2>3. r.nfile # 0
    BY <2>1, <2>2, SwappedFinite, FS_EmptySet
  <2>4. QED
    BY <1>1, <2>1, <2>2, <2>3, SwappedFinite
<1>7. /\ b \in ProcType /\ b.sz = d.sz /\ b.pte = [d.pte EXCEPT ![c] = "P"] /\ b.list = Append(d.list, t)
      /\ b.nmem = d.nmem + 1 /\ b.nfile = d.nfile - 1 /\ b.swapFile = d.swapFile
      /\ b.file = d.file /\ b.stopped = d.stopped /\ b.headPrev = d.headPrev /\ b.want = d.want
      /\ b.shrunk = d.shrunk /\ EntrySet(b, d, t, "PHYSMEMORY", c, -1)
  <2>1. d.table[t].offset \in 0 .. Len(d.file) - 1 /\ d.nfile > 0 /\ c = d.table[t].va
    BY <1>2, <1>4, <1>5, <1>6
  <2>2. IsIn(b, d, t, c)
    BY <1>2, <1>5, <2>1, InFields
  <2>3. QED
    BY <2>2 DEF IsIn
<1>8. /\ b.table[t].state = "PHYSMEMORY" /\ b.table[t].va = c /\ b.table[t].offset = -1
      /\ \A u \in Slot : u # t => b.table[u] = d.table[u]
  BY <1>7 DEF EntrySet
<1>9. /\ b.pte[c] = "P" /\ b.pte[a] = "none" /\ \A e \in Page : e # a /\ e # c => b.pte[e] = r.pte[e]
  <2>1. d.pte \in [Page -> {"none", "P", "PG"}]
    BY <1>2 DEF ProcType
  <2>2. QED
    BY <1>2, <1>5, <1>7, <2>1
<1>10. PICK k, l : k = Append(r.list, t) /\ l = updateListPointers(k, s)
  OBVIOUS
<1>11. /\ k \in Seq(Slot) /\ Len(k) = Len(r.list) + 1 /\ Distinct(k)
       /\ \A u : On(k, u) <=> On(r.list, u) \/ u = t
  <2>1. r.list \in Seq(Slot) /\ Distinct(r.list) /\ ~On(r.list, t) /\ k = Append(r.list, t)
    BY <1>1, <1>5, <1>10
  <2>2. IsLinked(k, r.list, t)
    BY <2>1, Linked
  <2>3. QED
    BY <2>2 DEF IsLinked
<1>12. /\ l \in Seq(Slot) /\ Len(l) = Len(k) - 1 /\ Distinct(l)
       /\ \A u : On(l, u) <=> On(k, u) /\ u # s
  <2>1. On(k, s)
    BY <1>1, <1>11
  <2>2. QED
    BY <1>10, <1>11, <2>1, Unlinked
<1>13. /\ w \in ProcType /\ w.sz = r.sz /\ w.list = l /\ w.nmem = b.nmem /\ w.nfile = b.nfile
       /\ w.swapFile = r.swapFile /\ w.file = r.file /\ w.stopped = r.stopped /\ w.headPrev = r.headPrev /\ w.want = r.want
       /\ w.shrunk = r.shrunk /\ w.table = b.table /\ w.pte = b.pte
  <2>1. w = [b EXCEPT !.list = l]
    BY <1>2, <1>7, <1>10 DEF ProcType
  <2>2. IsRelinked(w, b, l)
    BY <1>7, <1>12, <2>1, Relinked
  <2>3. QED
    BY <1>2, <1>7, <2>2 DEF IsRelinked
<1>14. /\ w.table[s].state = "NOTUSED" /\ w.table[s].va = -1
       /\ w.table[t].state = "PHYSMEMORY" /\ w.table[t].va = c /\ w.table[t].offset = -1
       /\ \A u \in Slot : u # s /\ u # t => w.table[u] = r.table[u]
  BY <1>2, <1>5, <1>8, <1>13
<1>15. Swapped(w) = Swapped(r) \ {t}
  BY <1>5, <1>14 DEF Swapped
<1>16. ListInv(w) /\ CountInv(w)
  <2>1. w.nmem = r.nmem /\ Len(w.list) = Len(r.list)
    BY <1>1, <1>2, <1>7, <1>11, <1>12, <1>13
  <2>2. CountInv(w)
    BY <2>1 DEF PageInv, CountInv
  <2>3. \A u : On(w.list, u) <=> (On(r.list, u) \/ u = t) /\ u # s
    BY <1>11, <1>12, <1>13
  <2>4. \A u \in Slot : r.table[u].state = "PHYSMEMORY" <=> On(r.list, u)
    BY DEF PageInv, ListInv
  <2>5. ASSUME NEW u \in Slot PROVE w.table[u].state = "PHYSMEMORY" <=> On(w.list, u)
    BY <1>5, <1>14, <2>3, <2>4
  <2>6. QED
    BY <1>12, <1>13, <2>2, <2>5 DEF ListInv
<1>17. FileInv(w)
  <2>1. Cardinality(Swapped(w)) = r.nfile - 1
    <3>1. PICK A : A = Swapped(r)
      OBVIOUS
    <3>2. IsFiniteSet(A) /\ t \in A
      BY <1>6, <3>1, SwappedFinite
    <3>3. Cardinality(A \ {t}) = Cardinality(A) - 1
      BY <3>2, FS_RemoveElement
    <3>4. QED
      BY <1>6, <1>15, <3>1, <3>3
  <2>2. r.nfile <= Len(r.file) /\ r.swapFile /\ Len(r.file) \in Nat
    BY <1>1, <1>6 DEF PageInv, FileInv
  <2>3. w.nfile = r.nfile - 1
    BY <1>2, <1>7, <1>13
  <2>4. w.list # <<>>
    <3>1. Len(w.list) > 0
      BY <1>1, <1>11, <1>12, <1>13
    <3>2. QED
      BY <3>1
  <2>5. w.nfile <= Len(w.file)
    BY <1>1, <1>13, <2>2, <2>3
  <2>6. QED
    BY <1>13, <2>1, <2>2, <2>3, <2>4, <2>5 DEF FileInv
<1>18. \A u \in Slot : (r.table[u].va = a => u = s) /\ (r.table[u].va = c => u = t)
  BY <1>3, <1>4, <1>5, PagingBasics DEF EntryInv
<1>19. EntryInv(w)
  <2>1. ASSUME NEW u \in Slot, u # s, u # t
        PROVE  w.table[u] = r.table[u] /\ (r.table[u].va \in Page => w.pte[r.table[u].va] = r.pte[r.table[u].va])
    BY <1>9, <1>13, <1>14, <1>18, <2>1
  <2>2. w.pte[c] = "P"
    BY <1>9, <1>13
  <2>3. ASSUME NEW u \in Slot, w.table[u].state = "NOTUSED" PROVE w.table[u].va = -1
    BY <1>3, <1>14, <2>1, <2>3 DEF EntryInv
  <2>4. ASSUME NEW u \in Slot, w.table[u].state = "PHYSMEMORY"
        PROVE  w.table[u].va \in Page /\ w.pte[w.table[u].va] = "P" /\ w.table[u].offset = -1
    BY <1>3, <1>5, <1>14, <2>1, <2>2, <2>4 DEF EntryInv
  <2>5. ASSUME NEW u \in Slot, w.table[u].state = "SWAPFILE"
        PROVE  w.table[u].va \in Page /\ w.pte[w.table[u].va] = "PG" /\ w.table[u].offset \in 0 .. Len(w.file) - 1
    BY <1>3, <1>13, <1>14, <2>1, <2>5 DEF EntryInv
  <2>6. \A u, v \in Slot : w.table[u].va = w.table[v].va /\ w.table[u].va # -1 => u = v
    BY <1>3, <1>14, <1>18, <2>1 DEF EntryInv
  <2>7. QED
    BY <2>3, <2>4, <2>5, <2>6 DEF EntryInv
<1>20. PteInv(w, D \ {a})
  <2>1. \A e \in Page : w.pte[e] # "none" <=> e \in D \ {a}
    BY <1>3, <1>5, <1>9, <1>13 DEF PteInv
  <2>2. ASSUME NEW e \in Page, w.pte[e] = "PG" PROVE \E u \in Swapped(w) : w.table[u].va = e
    <3>1. e # a /\ e # c /\ r.pte[e] = "PG"
      BY <1>9, <1>13, <2>2
    <3>2. PICK u \in Swapped(r) : r.table[u].va = e
      BY <1>3, <3>1 DEF PteInv
    <3>3. u \in Slot /\ u # s /\ u # t
      BY <1>4, <1>6, <3>1, <3>2
    <3>4. QED
      BY <1>14, <1>15, <3>2, <3>3
  <2>3. QED
    BY <2>1, <2>2 DEF PteInv
<1>21. QED
  BY <1>13, <1>16, <1>17, <1>19, <1>20 DEF PageInv, IsShrunk

\* A round of the loop of deallocuvm takes its page away and changes nothing when there is none.
LEMMA ShrinkKeeps ==
  ASSUME NEW r, NEW D, PageInv(r, D), NEW a \in Page
  PROVE  IsShrunk(Shrink(r, a), r, D \ {a}) /\ (a \notin D => Shrink(r, a) = r)
<1>1. PICK E, x, w : E = {s \in Slot : r.table[s].va = a} /\ x = Freed(r, a) /\ w = Shrink(r, a)
  OBVIOUS
<1>2. w = CASE r.pte[a] = "P" -> IF E = {} THEN x ELSE DeletePage(x, Min(E))
            [] r.pte[a] = "PG" -> [x EXCEPT !.nfile = @ - 1, !.table[Min(E)] = NotUsed]
            [] OTHER -> r
  BY <1>1 DEF Shrink, Freed
<1>3. r \in ProcType /\ r.pte[a] \in {"none", "P", "PG"} /\ (r.pte[a] # "none" <=> a \in D)
  BY DEF PageInv, ProcType, PteInv
<1>4. CASE r.pte[a] = "none"
  <2>1. w = r
    BY <1>2, <1>4
  <2>2. PteInv(r, D \ {a})
    BY <1>4 DEF PageInv, PteInv
  <2>3. QED
    BY <1>1, <2>1, <2>2 DEF PageInv, IsShrunk
<1>5. CASE r.pte[a] = "PG"
  <2>1. PICK s : s = Min(E)
    OBVIOUS
  <2>2. w = [x EXCEPT !.nfile = @ - 1, !.table[s] = NotUsed]
    BY <1>2, <1>5, <2>1
  <2>3. QED
    BY <1>1, <1>3, <1>5, <2>1, <2>2, ShrinkSwapped
<1>6. CASE r.pte[a] = "P" /\ E = {}
  <2>1. w = x
    BY <1>2, <1>6
  <2>2. \A s \in Slot : r.table[s].va # a
    BY <1>1, <1>6
  <2>3. QED
    BY <1>1, <1>3, <1>6, <2>1, <2>2, ShrinkUnlisted
<1>7. CASE r.pte[a] = "P" /\ E # {}
  <2>1. PICK s : s = Min(E)
    OBVIOUS
  <2>2. s \in Slot /\ r.table[s].va = a /\ r.table[s].state = "PHYSMEMORY"
    BY <1>1, <1>7, <2>1, TheEntry
  <2>3. PICK d : d = Cleared(r, a, s)
    OBVIOUS
  <2>4. w = DeletePage(x, s)
    BY <1>2, <1>7, <2>1
  <2>5. x.nfile = r.nfile /\ x.table = r.table
    BY <1>1, <1>3, FreedFields DEF IsFreed
  <2>6. PICK B : B = {t \in Slot : r.table[t].state = "SWAPFILE"}
    OBVIOUS
  <2>7. B = Swapped(r)
    BY <2>6 DEF Swapped
  <2>8. PICK b : b = IF r.nfile > 0 /\ B # {} THEN FileToMemory(d, Min(B)) ELSE d
    OBVIOUS
  <2>9. w = [b EXCEPT !.list = updateListPointers(@, s)]
    BY <1>1, <2>3, <2>4, <2>5, <2>6, <2>8 DEF DeletePage, Cleared
  <2>10. IsShrunk(w, r, D \ {a})
    <3>1. CASE r.nfile > 0 /\ B # {}
      <4>1. PICK t : t = Min(B)
        OBVIOUS
      <4>2. t \in B
        BY <2>6, <3>1, <4>1, MinIn, PagingBasics
      <4>3. t \in Slot /\ r.table[t].state = "SWAPFILE" /\ b = FileToMemory(d, t)
        BY <2>6, <2>8, <3>1, <4>1, <4>2
      <4>4. QED
        BY <2>2, <2>3, <2>9, <4>3, DeleteSwapsIn
    <3>2. CASE ~(r.nfile > 0 /\ B # {})
      <4>1. r.nfile = 0
        <5>1. r.nfile = Cardinality(Swapped(r)) /\ r.nfile \in Nat
          BY DEF PageInv, FileInv, ProcType
        <5>2. QED
          BY <2>7, <3>2, <5>1, FS_EmptySet
      <4>2. b = d
        BY <2>8, <3>2
      <4>3. QED
        BY <2>2, <2>3, <2>9, <4>1, <4>2, DeleteKeeps
    <3>3. QED
      BY <3>1, <3>2
  <2>11. QED
    BY <1>1, <1>3, <1>7, <2>10
<1>8. QED
  BY <1>3, <1>4, <1>5, <1>6, <1>7

-----------------------------------------------------------------------------

\* Two pages change places.
IsSwapped(w, r, D) ==
  /\ PageInv(w, D) /\ w.sz = r.sz /\ w.stopped = r.stopped /\ w.shrunk = r.shrunk
  /\ Contents(r, D) => Contents(w, D)

\* A page fault: the first page of the list leaves, and the faulting one comes back, to the
\* other's place in the file.
LEMMA SwapKeeps ==
  ASSUME NEW r, NEW D, PageInv(r, D), NEW a \in Page, r.pte[a] = "PG"
  PROVE  IsSwapped(SwapPages(r, a), r, D)
<1>1. /\ r \in ProcType /\ r.list \in Seq(Slot) /\ Distinct(r.list) /\ r.nmem = Len(r.list)
      /\ r.nmem \in Nat /\ r.nfile \in Nat /\ r.file \in Seq(Val) /\ EntryInv(r) /\ PteInv(r, D)
  BY DEF PageInv, ProcType, ListInv, CountInv
<1>2. PICK E, out, in : E = {s \in Slot : r.table[s].va = a} /\ out = Head(r.list) /\ in = Min(E)
  OBVIOUS
<1>3. /\ in \in Slot /\ r.table[in].va = a /\ a \in Page /\ a \in D /\ \A t \in Slot : r.table[t].va = a => t = in
      /\ r.table[in].state = "SWAPFILE"
  <2>1. E # {}
    BY <1>1, <1>2, SwappedFinite DEF PteInv
  <2>2. QED
    BY <1>2, <2>1, TheEntry
<1>4. Swapped(r) \subseteq Slot /\ in \in Swapped(r) /\ r.nfile > 0 /\ r.nmem > 0
  <2>1. in \in Swapped(r)
    BY <1>3 DEF Swapped
  <2>2. Cardinality(Swapped(r)) = r.nfile
    BY DEF PageInv, FileInv
  <2>3. r.nfile # 0
    BY <2>1, <2>2, SwappedFinite, FS_EmptySet
  <2>4. r.list # <<>>
    BY <1>1, <2>3 DEF PageInv, FileInv
  <2>5. QED
    BY <1>1, <2>1, <2>3, <2>4, SwappedFinite
<1>5. PICK b, o : b = r.table[out].va /\ o = r.table[in].offset
  OBVIOUS
<1>6. /\ out \in Slot /\ On(r.list, out) /\ r.table[out].state = "PHYSMEMORY" /\ b \in Page /\ r.pte[b] = "P" /\ r.table[out].offset = -1
  BY <1>2, <1>4, <1>5, HeadFacts
<1>7. in # out /\ a # b /\ o \in 0 .. Len(r.file) - 1 /\ ~On(r.list, in)
  <2>1. in # out /\ a # b
    BY <1>3, <1>6
  <2>2. o \in 0 .. Len(r.file) - 1
    BY <1>1, <1>3, <1>5 DEF EntryInv
  <2>3. ~On(r.list, in)
    BY <1>3 DEF PageInv, ListInv
  <2>4. QED
    BY <2>1, <2>2, <2>3
<1>8. PICK x : x = [r EXCEPT !.table[out].offset = o]
  OBVIOUS
<1>9. /\ x \in ProcType /\ x.sz = r.sz /\ x.pte = r.pte /\ x.mem = r.mem /\ x.list = r.list /\ x.nmem = r.nmem
      /\ x.nfile = r.nfile /\ x.swapFile = r.swapFile /\ x.file = r.file /\ x.stopped = r.stopped /\ x.headPrev = r.headPrev
      /\ x.want = r.want /\ x.shrunk = r.shrunk
      /\ x.table[out].va = b /\ x.table[out].offset = o /\ \A t \in Slot : t # out => x.table[t] = r.table[t]
  <2>1. PICK e : e = [r.table[out] EXCEPT !.offset = o]
    OBVIOUS
  <2>2. e \in Entry /\ e.va = b /\ e.offset = o
    <3>1. PICK d : d = r.table[out]
      OBVIOUS
    <3>2. d \in Entry /\ d.va = b
      BY <1>1, <1>5, <1>6, <3>1 DEF ProcType
    <3>3. o \in Nat
      BY <1>1, <1>7
    <3>4. e = [d EXCEPT !.offset = o]
      BY <2>1, <3>1
    <3>5. QED
      BY <3>2, <3>3, <3>4 DEF Entry
  <2>3. PICK c : c = [r.table EXCEPT ![out] = e]
    OBVIOUS
  <2>4. c \in [Slot -> Entry] /\ c[out] = e /\ \A t \in Slot : t # out => c[t] = r.table[t]
    BY <1>1, <1>6, <2>2, <2>3 DEF ProcType
  <2>5. x = [r EXCEPT !.table = c]
    BY <1>1, <1>8, <2>1, <2>3 DEF ProcType
  <2>6. /\ x.sz = r.sz /\ x.pte = r.pte /\ x.mem = r.mem /\ x.list = r.list /\ x.nmem = r.nmem
        /\ x.nfile = r.nfile /\ x.swapFile = r.swapFile /\ x.file = r.file /\ x.stopped = r.stopped /\ x.headPrev = r.headPrev
        /\ x.want = r.want /\ x.shrunk = r.shrunk /\ x.table = c
    BY <1>1, <2>5 DEF ProcType
  <2>7. x \in ProcType
    BY <1>1, <2>4, <2>5 DEF ProcType
  <2>8. QED
    BY <2>2, <2>4, <2>6, <2>7
<1>10. PICK y : y = FileToMemory(x, in)
  OBVIOUS
<1>11. /\ y \in ProcType /\ y.sz = x.sz /\ y.pte = [x.pte EXCEPT ![a] = "P"]
       /\ y.mem = [x.mem EXCEPT ![a] = x.file[x.table[in].offset + 1]] /\ y.list = Append(x.list, in)
       /\ y.nmem = x.nmem + 1 /\ y.nfile = x.nfile - 1 /\ y.swapFile = x.swapFile
       /\ y.file = x.file /\ y.stopped = x.stopped /\ y.headPrev = x.headPrev /\ y.want = x.want
       /\ y.shrunk = x.shrunk /\ EntrySet(y, x, in, "PHYSMEMORY", a, -1)
  <2>1. x.table[in] = r.table[in]
    BY <1>3, <1>7, <1>9
  <2>2. x.table[in].offset \in 0 .. Len(x.file) - 1 /\ x.nfile > 0 /\ a = x.table[in].va
    BY <1>3, <1>4, <1>5, <1>7, <1>9, <2>1
  <2>3. IsIn(y, x, in, a)
    BY <1>3, <1>9, <1>10, <2>2, InFields
  <2>4. QED
    BY <2>3 DEF IsIn
<1>12. /\ y.table[in].state = "PHYSMEMORY" /\ y.table[in].va = a /\ y.table[in].offset = -1
       /\ y.table[out].va = b /\ y.table[out].offset = o
       /\ \A t \in Slot : t # in /\ t # out => y.table[t] = r.table[t]
  BY <1>6, <1>7, <1>9, <1>11 DEF EntrySet
<1>13. /\ y.list \in Seq(Slot) /\ Len(y.list) = Len(r.list) + 1 /\ Distinct(y.list)
       /\ \A t : On(y.list, t) <=> On(r.list, t) \/ t = in
  <2>1. y.list = Append(r.list, in)
    BY <1>9, <1>11
  <2>2. IsLinked(y.list, r.list, in)
    BY <1>1, <1>3, <1>7, <2>1, Linked
  <2>3. QED
    BY <2>2 DEF IsLinked
<1>14. PICK w : w = MemoryToSwapFile(y, out)
  OBVIOUS
<1>15. SwapPages(r, a) = w
  <2>1. x = [r EXCEPT !.table[out].offset = r.table[in].offset]
    BY <1>5, <1>8
  <2>2. QED
    BY <1>2, <1>10, <1>14, <2>1 DEF SwapPages
<1>16. /\ w \in ProcType /\ w.sz = y.sz /\ w.pte = [y.pte EXCEPT ![b] = "PG"]
       /\ w.mem = [y.mem EXCEPT ![b] = 0] /\ w.list = updateListPointers(y.list, out)
       /\ w.nmem = y.nmem - 1 /\ w.nfile = y.nfile + 1 /\ w.swapFile = y.swapFile
       /\ w.file = WriteAt(y.file, o, y.mem[b]) /\ w.stopped = y.stopped /\ w.headPrev = FALSE /\ w.want = y.want
       /\ w.shrunk = y.shrunk /\ EntrySet(w, y, out, "SWAPFILE", b, o)
  <2>1. o = (IF y.table[out].offset > -1 THEN y.table[out].offset ELSE y.nfile)
    BY <1>7, <1>12
  <2>2. /\ y \in ProcType /\ out \in Slot /\ b \in Page /\ b = y.table[out].va /\ o \in 0 .. Len(y.file)
        /\ y.nmem > 0 /\ On(y.list, out) /\ Distinct(y.list)
    BY <1>1, <1>6, <1>7, <1>9, <1>11, <1>12, <1>13
  <2>3. IsOut(w, y, out, b, o)
    BY <1>14, <2>1, <2>2, OutFields
  <2>4. y.headPrev = FALSE
    BY <1>9, <1>11 DEF PageInv
  <2>5. QED
    BY <2>3, <2>4 DEF IsOut, OutList
<1>17. /\ w.table[out].state = "SWAPFILE" /\ w.table[out].va = b /\ w.table[out].offset = o
       /\ w.table[in].state = "PHYSMEMORY" /\ w.table[in].va = a /\ w.table[in].offset = -1
       /\ \A t \in Slot : t # in /\ t # out => w.table[t] = r.table[t]
  BY <1>3, <1>7, <1>12, <1>16 DEF EntrySet
<1>18. /\ w.list \in Seq(Slot) /\ Len(w.list) = Len(r.list) /\ Distinct(w.list)
       /\ \A t : On(w.list, t) <=> (On(r.list, t) \/ t = in) /\ t # out
  <2>1. On(y.list, out)
    BY <1>6, <1>13
  <2>2. /\ w.list \in Seq(Slot) /\ Len(w.list) = Len(y.list) - 1 /\ Distinct(w.list)
        /\ \A t : On(w.list, t) <=> On(y.list, t) /\ t # out
    BY <1>13, <1>16, <2>1, Unlinked
  <2>3. QED
    BY <1>1, <1>13, <2>2
<1>19. /\ w.pte[a] = "P" /\ w.pte[b] = "PG" /\ w.mem[a] = r.file[o + 1]
       /\ \A c \in Page : c # a /\ c # b => w.pte[c] = r.pte[c] /\ w.mem[c] = r.mem[c]
  <2>1. r.pte \in [Page -> {"none", "P", "PG"}] /\ r.mem \in [Page -> Val]
    BY <1>1 DEF ProcType
  <2>2. x.table[in].offset = o
    BY <1>3, <1>5, <1>7, <1>9
  <2>3. y.pte = [r.pte EXCEPT ![a] = "P"] /\ y.mem = [r.mem EXCEPT ![a] = r.file[o + 1]]
    BY <1>9, <1>11, <2>2
  <2>4. y.pte \in [Page -> {"none", "P", "PG"}] /\ y.mem \in [Page -> Val]
    BY <1>11 DEF ProcType
  <2>5. QED
    BY <1>6, <1>7, <1>16, <2>1, <2>3, <2>4
<1>20. /\ w.sz = r.sz /\ w.nmem = r.nmem /\ w.nfile = r.nfile /\ w.swapFile = r.swapFile
       /\ w.stopped = r.stopped /\ w.headPrev = FALSE /\ w.want = r.want /\ w.shrunk = r.shrunk
  BY <1>1, <1>9, <1>11, <1>16
<1>21. /\ w.file \in Seq(Val) /\ Len(w.file) >= Len(r.file) /\ w.file[o + 1] = r.mem[b]
       /\ \A i \in 1 .. Len(r.file) : i # o + 1 => w.file[i] = r.file[i]
  <2>1. y.mem[b] = r.mem[b] /\ r.mem[b] \in Val /\ y.file = r.file
    <3>1. r.mem \in [Page -> Val]
      BY <1>1 DEF ProcType
    <3>2. QED
      BY <1>6, <1>7, <1>9, <1>11, <3>1
  <2>2. w.file = WriteAt(r.file, o, r.mem[b])
    BY <1>16, <2>1
  <2>3. r.file \in Seq(Val) /\ o \in 0 .. Len(r.file) /\ r.mem[b] \in Val
    <3>1. r.file \in Seq(Val) /\ Len(r.file) \in Nat
      BY <1>1 DEF ProcType
    <3>2. QED
      BY <1>7, <2>1, <3>1
  <2>4. IsWritten(w.file, r.file, o, r.mem[b])
    BY <2>2, <2>3, Written
  <2>5. QED
    BY <2>4 DEF IsWritten
<1>22. Swapped(w) = (Swapped(r) \ {in}) \cup {out} /\ out \notin Swapped(r)
  BY <1>3, <1>6, <1>7, <1>17 DEF Swapped
<1>23. ListInv(w) /\ CountInv(w)
  <2>1. CountInv(w)
    BY <1>1, <1>18, <1>20 DEF PageInv, CountInv
  <2>2. \A t \in Slot : r.table[t].state = "PHYSMEMORY" <=> On(r.list, t)
    BY DEF PageInv, ListInv
  <2>3. ASSUME NEW t \in Slot PROVE w.table[t].state = "PHYSMEMORY" <=> On(w.list, t)
    BY <1>7, <1>17, <1>18, <2>2
  <2>4. QED
    BY <1>18, <2>1, <2>3 DEF ListInv
<1>24. FileInv(w)
  <2>1. Cardinality(Swapped(w)) = r.nfile
    <3>1. PICK A, B : A = Swapped(r) /\ B = A \ {in}
      OBVIOUS
    <3>2. IsFiniteSet(A) /\ in \in A /\ Cardinality(A) = r.nfile
      BY <1>4, <3>1, SwappedFinite DEF PageInv, FileInv
    <3>3. IsFiniteSet(B) /\ Cardinality(B) = Cardinality(A) - 1
      BY <3>1, <3>2, FS_RemoveElement
    <3>4. Cardinality(B \cup {out}) = Cardinality(B) + 1
      <4>1. out \notin B
        BY <1>22, <3>1
      <4>2. QED
        BY <3>3, <4>1, FS_AddElement
    <3>5. QED
      BY <1>1, <1>22, <3>1, <3>2, <3>3, <3>4
  <2>2. r.nfile <= Len(r.file) /\ r.swapFile
    BY <1>4 DEF PageInv, FileInv
  <2>3. w.list # <<>>
    BY <1>1, <1>4, <1>18
  <2>4. w.nfile <= Len(w.file)
    BY <1>1, <1>20, <1>21, <2>2
  <2>5. QED
    BY <1>20, <2>1, <2>2, <2>3, <2>4 DEF FileInv
<1>25. \A t \in Slot : (r.table[t].va = a => t = in) /\ (r.table[t].va = b => t = out)
  BY <1>1, <1>3, <1>5, <1>6, PagingBasics DEF EntryInv
<1>26. EntryInv(w)
  <2>1. ASSUME NEW t \in Slot, t # in, t # out
        PROVE  w.table[t] = r.table[t] /\ (r.table[t].va \in Page => w.pte[r.table[t].va] = r.pte[r.table[t].va])
    BY <1>17, <1>19, <1>25, <2>1
  <2>2. ASSUME NEW t \in Slot, w.table[t].state = "NOTUSED" PROVE w.table[t].va = -1
    BY <1>1, <1>17, <2>1, <2>2 DEF EntryInv
  <2>3. ASSUME NEW t \in Slot, w.table[t].state = "PHYSMEMORY"
        PROVE  w.table[t].va \in Page /\ w.pte[w.table[t].va] = "P" /\ w.table[t].offset = -1
    BY <1>1, <1>3, <1>17, <1>19, <2>1, <2>3 DEF EntryInv
  <2>4. ASSUME NEW t \in Slot, w.table[t].state = "SWAPFILE"
        PROVE  w.table[t].va \in Page /\ w.pte[w.table[t].va] = "PG" /\ w.table[t].offset \in 0 .. Len(w.file) - 1
    <3>1. \A z \in 0 .. Len(r.file) - 1 : z \in 0 .. Len(w.file) - 1
      BY <1>1, <1>21
    <3>2. CASE t = out
      BY <1>6, <1>7, <1>17, <1>19, <3>1, <3>2
    <3>3. CASE t # out
      <4>1. t # in
        BY <1>17, <2>4
      <4>2. QED
        BY <1>1, <2>1, <2>4, <3>1, <3>3, <4>1 DEF EntryInv
    <3>4. QED
      BY <3>2, <3>3
  <2>5. \A t \in Slot : w.table[t].va = r.table[t].va
    BY <1>3, <1>5, <1>17
  <2>6. \A t, u \in Slot : w.table[t].va = w.table[u].va /\ w.table[t].va # -1 => t = u
    BY <1>1, <2>5 DEF EntryInv
  <2>7. QED
    BY <2>2, <2>3, <2>4, <2>6 DEF EntryInv
<1>27. PteInv(w, D)
  <2>1. \A c \in Page : w.pte[c] # "none" <=> r.pte[c] # "none"
    BY <1>6, <1>19
  <2>2. ASSUME NEW c \in Page, w.pte[c] = "PG" PROVE \E t \in Swapped(w) : w.table[t].va = c
    <3>1. CASE c = b
      BY <1>17, <1>22, <3>1
    <3>2. CASE c # b
      <4>1. c # a /\ r.pte[c] = "PG"
        BY <1>19, <2>2, <3>2
      <4>2. PICK t \in Swapped(r) : r.table[t].va = c
        BY <1>1, <4>1 DEF PteInv
      <4>3. t \in Slot /\ t # in /\ t # out
        BY <1>3, <1>4, <1>22, <4>1, <4>2
      <4>4. QED
        BY <1>17, <1>22, <4>2, <4>3
    <3>3. QED
      BY <3>1, <3>2
  <2>3. QED
    BY <1>1, <2>1, <2>2 DEF PteInv
<1>28. ASSUME Contents(r, D) PROVE Contents(w, D)
  <2>1. \A t, u \in Swapped(r) : r.table[t].offset = r.table[u].offset => t = u
    BY <1>28 DEF Contents
  <2>2. \A t \in Swapped(r) : r.table[t].offset < r.nfile /\ r.file[r.table[t].offset + 1] = r.want[r.table[t].va]
    BY <1>28 DEF Contents
  <2>3. \A t \in Swapped(w) : t # out =>
          t \in Slot /\ t \in Swapped(r) /\ t # in /\ w.table[t] = r.table[t]
    BY <1>4, <1>17, <1>22
  <2>4. \A t, u \in Swapped(w) : w.table[t].offset = w.table[u].offset => t = u
    <3>1. \A t \in Swapped(w) : t # out => w.table[t].offset # o
      BY <1>4, <1>5, <2>1, <2>3
    <3>2. QED
      BY <1>17, <2>1, <2>3, <3>1
  <2>5. ASSUME NEW t \in Swapped(w)
        PROVE  w.table[t].offset < w.nfile /\ w.file[w.table[t].offset + 1] = w.want[w.table[t].va]
    <3>1. CASE t = out
      <4>1. r.mem[b] = r.want[b]
        BY <1>6, <1>28 DEF Contents
      <4>2. o < r.nfile
        BY <1>4, <1>5, <2>2
      <4>3. w.table[t].offset = o /\ w.table[t].va = b
        BY <1>17, <3>1
      <4>4. w.file[o + 1] = w.want[b]
        BY <1>20, <1>21, <4>1
      <4>5. QED
        BY <1>20, <4>2, <4>3, <4>4
    <3>2. CASE t # out
      <4>1. t \in Slot /\ t \in Swapped(r) /\ t # in /\ w.table[t] = r.table[t]
        BY <2>3, <3>2
      <4>2. PICK z : z = r.table[t].offset
        OBVIOUS
      <4>3. z # o /\ z < r.nfile /\ r.file[z + 1] = r.want[r.table[t].va]
        BY <1>4, <1>5, <2>1, <2>2, <4>1, <4>2
      <4>4. z \in 0 .. Len(r.file) - 1
        BY <1>1, <4>1, <4>2 DEF EntryInv, Swapped
      <4>5. z + 1 \in 1 .. Len(r.file) /\ z + 1 # o + 1
        BY <1>1, <1>7, <4>3, <4>4
      <4>6. w.file[z + 1] = r.file[z + 1]
        BY <1>21, <4>5
      <4>7. w.table[t].offset = z /\ w.file[z + 1] = w.want[w.table[t].va] /\ z < w.nfile
        BY <1>20, <4>1, <4>2, <4>3, <4>6
      <4>8. QED
        BY <4>7
    <3>3. QED
      BY <3>1, <3>2
  <2>6. ASSUME NEW c \in Page, w.pte[c] = "P" PROVE w.mem[c] = w.want[c]
    <3>1. CASE c = a
      BY <1>3, <1>4, <1>5, <1>19, <1>20, <2>2, <3>1
    <3>2. CASE c # a
      BY <1>19, <1>20, <1>28, <2>6, <3>2 DEF Contents
    <3>3. QED
      BY <3>1, <3>2
  <2>7. \A c \in Page : c \notin D => w.want[c] = 0
    BY <1>20, <1>28 DEF Contents
  <2>8. QED
    BY <2>4, <2>5, <2>6, <2>7 DEF Contents
<1>29. QED
  BY <1>15, <1>16, <1>20, <1>23, <1>24, <1>26, <1>27, <1>28 DEF PageInv, IsSwapped

-----------------------------------------------------------------------------
(* The loops of allocuvm, deallocuvm and loaduvm. *)

\* One round of the loop of each kind.
Round(kind, r, a) == IF kind = "grow" THEN Grow(r, a) ELSE IF kind = "load" THEN Load(r, a) ELSE Shrink(r, a)

\* The recursive function that a fold over the sequence q is defined by.
Rounds(f, kind, r, q, T) ==
  f = [s \in T |-> IF s = {} THEN r ELSE Round(kind, f[s \ {Max(s)}], q[Max(s)])]

\* A set of numbers with an upper bound has a largest one.
LEMMA MaxIn ==
  ASSUME NEW n \in Nat, NEW s, s \subseteq 1 .. n, s # {}
  PROVE  Max(s) \in s /\ \A x \in s : x <= Max(s)
<1>1. PICK N : N = {n - x : x \in s}
  OBVIOUS
<1>2. N \subseteq Nat /\ N # {}
  <2>1. \A x \in s : n - x \in Nat
    OBVIOUS
  <2>2. QED
    BY <1>1, <2>1
<1>3. PICK k \in N : \A j \in N : k <= j
  BY <1>2, LeastNumber
<1>4. PICK x \in s : k = n - x
  BY <1>1
<1>5. \A y \in s : x >= y
  BY <1>1, <1>3, <1>4
<1>6. Max(s) \in s /\ \A y \in s : Max(s) >= y
  BY <1>5 DEF Max
<1>7. \A y \in s : y \in Int
  OBVIOUS
<1>8. QED
  BY <1>6, <1>7

\* The recursive function of a loop exists: there is one for the sets whose largest number is at
\* most k, for every k.
LEMMA RoundsExist ==
  ASSUME NEW kind, NEW r, NEW q, NEW n \in Nat
  PROVE  \E f : Rounds(f, kind, r, q, SUBSET (1 .. n))
<1> DEFINE Low(k) == {s \in SUBSET (1 .. n) : s = {} \/ Max(s) <= k}
           Without == {k \in Nat : ~\E f : Rounds(f, kind, r, q, Low(k))}
<1>1. ASSUME NEW s \in SUBSET (1 .. n), s # {}
      PROVE  /\ Max(s) \in s /\ Max(s) \in 1 .. n /\ s \ {Max(s)} \in SUBSET (1 .. n)
             /\ s \ {Max(s)} # {} => Max(s \ {Max(s)}) <= Max(s) - 1
  <2>1. Max(s) \in s /\ \A x \in s : x <= Max(s)
    BY <1>1, MaxIn
  <2>2. Max(s) \in 1 .. n
    BY <2>1
  <2>3. ASSUME s \ {Max(s)} # {} PROVE Max(s \ {Max(s)}) <= Max(s) - 1
    <3>1. PICK t, x : t = s \ {Max(s)} /\ x = Max(t)
      OBVIOUS
    <3>2. t \subseteq 1 .. n /\ t # {}
      BY <2>3, <3>1
    <3>3. x \in t
      BY <3>1, <3>2, MaxIn
    <3>4. x \in s /\ x # Max(s) /\ x \in 1 .. n
      BY <3>1, <3>3
    <3>5. x <= Max(s)
      BY <2>1, <3>4
    <3>6. x <= Max(s) - 1
      BY <2>2, <3>4, <3>5
    <3>7. QED
      BY <3>1, <3>6
  <2>4. QED
    BY <2>1, <2>2, <2>3
<1>2. Without = {}
  <2>1. SUFFICES ASSUME Without # {} PROVE FALSE
    OBVIOUS
  <2>2. PICK k \in Without : \A j \in Without : k <= j
    BY <2>1, LeastNumber
  <2>3. k # 0
    <3>1. SUFFICES ASSUME k = 0 PROVE \E f : Rounds(f, kind, r, q, Low(k))
      BY <2>2
    <3>2. ASSUME NEW s \in Low(k), s # {} PROVE FALSE
      <4>1. s \in SUBSET (1 .. n) /\ Max(s) <= 0
        BY <3>1, <3>2
      <4>2. PICK x : x = Max(s)
        OBVIOUS
      <4>3. x \in 1 .. n /\ x <= 0
        BY <1>1, <3>2, <4>1, <4>2
      <4>4. QED
        BY <4>3
    <3>3. Rounds([s \in Low(k) |-> r], kind, r, q, Low(k))
      BY <3>2 DEF Rounds
    <3>4. QED
      BY <3>3
  <2>4. k \in Nat /\ k - 1 \in Nat /\ k - 1 \notin Without
    <3>1. k \in Nat /\ k - 1 \in Nat
      BY <2>2, <2>3
    <3>2. ~(k <= k - 1)
      BY <3>1
    <3>3. QED
      BY <2>2, <3>1, <3>2
  <2>5. PICK g : Rounds(g, kind, r, q, Low(k - 1))
    BY <2>4
  <2>6. PICK f : f = [s \in Low(k) |-> IF s = {} THEN r ELSE Round(kind, g[s \ {Max(s)}], q[Max(s)])]
    OBVIOUS
  <2>7. ASSUME NEW s \in Low(k - 1) PROVE s \in Low(k) /\ g[s] = f[s]
    <3>1. s \in Low(k)
      <4>1. s \in SUBSET (1 .. n) /\ (s = {} \/ Max(s) <= k - 1)
        OBVIOUS
      <4>2. CASE s = {}
        BY <4>1, <4>2
      <4>3. CASE s # {}
        <5>1. PICK x : x = Max(s)
          OBVIOUS
        <5>2. x \in 1 .. n /\ x <= k - 1
          BY <1>1, <4>1, <4>3, <5>1
        <5>3. x <= k
          BY <2>4, <5>2
        <5>4. QED
          BY <4>1, <5>1, <5>3
      <4>4. QED
        BY <4>2, <4>3
    <3>2. g[s] = IF s = {} THEN r ELSE Round(kind, g[s \ {Max(s)}], q[Max(s)])
      BY <2>5 DEF Rounds
    <3>3. f[s] = IF s = {} THEN r ELSE Round(kind, g[s \ {Max(s)}], q[Max(s)])
      BY <2>6, <3>1
    <3>4. QED
      BY <3>1, <3>2, <3>3
  <2>8. ASSUME NEW s \in Low(k), s # {} PROVE s \ {Max(s)} \in Low(k - 1)
    <3>1. Max(s) <= k /\ Max(s) \in 1 .. n /\ s \ {Max(s)} \in SUBSET (1 .. n)
      BY <1>1, <2>8
    <3>2. s \ {Max(s)} = {} \/ Max(s \ {Max(s)}) <= Max(s) - 1
      BY <1>1, <2>8
    <3>3. CASE s \ {Max(s)} = {}
      BY <3>1, <3>3
    <3>4. CASE s \ {Max(s)} # {}
      <4>1. PICK t, x : t = s \ {Max(s)} /\ x = Max(t)
        OBVIOUS
      <4>2. t \subseteq 1 .. n /\ t # {}
        BY <3>1, <3>4, <4>1
      <4>3. x \in 1 .. n
        BY <4>1, <4>2, MaxIn
      <4>4. x <= k - 1
        BY <2>4, <3>1, <3>2, <3>4, <4>1, <4>3
      <4>5. QED
        BY <3>1, <4>1, <4>4
    <3>5. QED
      BY <3>3, <3>4
  <2>9. Rounds(f, kind, r, q, Low(k))
    <3>1. ASSUME NEW s \in Low(k)
          PROVE  f[s] = IF s = {} THEN r ELSE Round(kind, f[s \ {Max(s)}], q[Max(s)])
      <4>1. f[s] = IF s = {} THEN r ELSE Round(kind, g[s \ {Max(s)}], q[Max(s)])
        BY <2>6
      <4>2. s # {} => g[s \ {Max(s)}] = f[s \ {Max(s)}]
        BY <2>7, <2>8
      <4>3. QED
        BY <4>1, <4>2
    <3>2. f = [s \in Low(k) |-> f[s]]
      BY <2>6
    <3>3. QED
      BY <3>1, <3>2 DEF Rounds
  <2>10. QED
    BY <2>2, <2>9
<1>3. Low(n) = SUBSET (1 .. n)
  <2>1. ASSUME NEW s \in SUBSET (1 .. n) PROVE s = {} \/ Max(s) <= n
    <3>1. PICK x : x = Max(s)
      OBVIOUS
    <3>2. s # {} => x \in 1 .. n
      BY <1>1, <3>1
    <3>3. QED
      BY <3>1, <3>2
  <2>2. QED
    BY <2>1
<1>4. QED
  BY <1>2, <1>3

\* g[i] is what i rounds make of r, the first of them for the page from.
IsLoop(kind, g, r, from, n) ==
  g[0] = r /\ \A i \in 0 .. n - 1 : g[i + 1] = Round(kind, g[i], from + i)

\* Its values for the sets 1 .. i are what i rounds make of the record.
LEMMA LoopOfRounds ==
  ASSUME NEW kind, NEW r, NEW from \in Int, NEW to \in Int, to >= from,
         NEW q, q = Pages(from, to), NEW f, Rounds(f, kind, r, q, SUBSET DOMAIN q)
  PROVE  \E g : IsLoop(kind, g, r, from, to - from) /\ f[DOMAIN q] = g[to - from]
<1>1. PICK n : n = to - from
  OBVIOUS
<1>2. n \in Nat /\ DOMAIN q = 1 .. n /\ \A i \in 1 .. n : q[i] = from + i - 1
  BY <1>1 DEF Pages
<1>3. PICK g : g = [i \in 0 .. n |-> f[1 .. i]]
  OBVIOUS
<1>4. g[0] = r
  <2>1. 1 .. 0 = {} /\ {} \in SUBSET (1 .. n) /\ 0 \in 0 .. n
    BY <1>2
  <2>2. f[{}] = r
    BY <1>2, <2>1 DEF Rounds
  <2>3. QED
    BY <1>3, <2>1, <2>2
<1>5. ASSUME NEW i \in 0 .. n - 1 PROVE g[i + 1] = Round(kind, g[i], from + i)
  <2>1. PICK s : s = 1 .. i + 1
    OBVIOUS
  <2>2. i \in Nat /\ i + 1 \in 1 .. n /\ i \in 0 .. n /\ i + 1 \in 0 .. n
    BY <1>2
  <2>3. s \in SUBSET (1 .. n) /\ s # {} /\ i + 1 \in s
    <3>1. i + 1 \in s
      BY <2>1, <2>2
    <3>2. \A x \in s : x \in 1 .. n
      BY <1>2, <2>1, <2>2
    <3>3. QED
      BY <3>1, <3>2
  <2>4. Max(s) = i + 1
    <3>1. Max(s) \in s /\ \A x \in s : x <= Max(s)
      BY <1>2, <2>3, MaxIn
    <3>2. i + 1 <= Max(s) /\ Max(s) \in 1 .. i + 1
      BY <2>1, <2>3, <3>1
    <3>3. QED
      BY <2>2, <3>2
  <2>5. s \ {i + 1} = 1 .. i
    BY <2>1, <2>2
  <2>6. f[s] = Round(kind, f[1 .. i], q[i + 1])
    BY <1>2, <2>3, <2>4, <2>5 DEF Rounds
  <2>7. q[i + 1] = from + i
    BY <1>2, <2>2
  <2>8. g[i + 1] = f[s] /\ g[i] = f[1 .. i]
    BY <1>3, <2>1, <2>2
  <2>9. QED
    BY <2>6, <2>7, <2>8
<1>6. f[DOMAIN q] = g[n]
  BY <1>2, <1>3
<1>7. QED
  BY <1>1, <1>4, <1>5, <1>6 DEF IsLoop

\* FoldLeft runs through the loop.
GrowRounds(f, r, q, T) == f = [s \in T |-> IF s = {} THEN r ELSE Grow(f[s \ {Max(s)}], q[Max(s)])]
LoadRounds(f, r, q, T) == f = [s \in T |-> IF s = {} THEN r ELSE Load(f[s \ {Max(s)}], q[Max(s)])]
ShrinkRounds(f, r, q, T) == f = [s \in T |-> IF s = {} THEN r ELSE Shrink(f[s \ {Max(s)}], q[Max(s)])]

\* The loop of allocuvm for sbrk,
LEMMA GrowLoop ==
  ASSUME NEW r, NEW from \in Int, NEW to \in Int, to >= from
  PROVE  \E g : IsLoop("grow", g, r, from, to - from) /\ FoldLeft(Grow, r, Pages(from, to)) = g[to - from]
<1>1. PICK q, T : q = Pages(from, to) /\ T = SUBSET DOMAIN q
  OBVIOUS
<1>2. \A x, y : Round("grow", x, y) = Grow(x, y)
  BY DEF Round
<1>3. \A f : GrowRounds(f, r, q, T) <=> Rounds(f, "grow", r, q, T)
  BY <1>2 DEF GrowRounds, Rounds
<1>4. \E f : GrowRounds(f, r, q, T)
  <2>1. to - from \in Nat /\ T = SUBSET (1 .. to - from)
    BY <1>1 DEF Pages
  <2>2. \E f : Rounds(f, "grow", r, q, T)
    BY <2>1, RoundsExist
  <2>3. QED
    BY <1>3, <2>2
<1>5. PICK h : h = CHOOSE f : GrowRounds(f, r, q, T)
  OBVIOUS
<1>6. Rounds(h, "grow", r, q, T)
  BY <1>3, <1>4, <1>5
<1>7. FoldLeft(Grow, r, q) = h[DOMAIN q]
  BY <1>1, <1>5 DEF FoldLeft, MapThenFoldSet, GrowRounds
<1>8. QED
  BY <1>1, <1>6, <1>7, LoopOfRounds

\* the one for exec,
LEMMA LoadLoop ==
  ASSUME NEW r, NEW from \in Int, NEW to \in Int, to >= from
  PROVE  \E g : IsLoop("load", g, r, from, to - from) /\ FoldLeft(Load, r, Pages(from, to)) = g[to - from]
<1>1. PICK q, T : q = Pages(from, to) /\ T = SUBSET DOMAIN q
  OBVIOUS
<1>2. \A x, y : Round("load", x, y) = Load(x, y)
  BY DEF Round
<1>3. \A f : LoadRounds(f, r, q, T) <=> Rounds(f, "load", r, q, T)
  BY <1>2 DEF LoadRounds, Rounds
<1>4. \E f : LoadRounds(f, r, q, T)
  <2>1. to - from \in Nat /\ T = SUBSET (1 .. to - from)
    BY <1>1 DEF Pages
  <2>2. \E f : Rounds(f, "load", r, q, T)
    BY <2>1, RoundsExist
  <2>3. QED
    BY <1>3, <2>2
<1>5. PICK h : h = CHOOSE f : LoadRounds(f, r, q, T)
  OBVIOUS
<1>6. Rounds(h, "load", r, q, T)
  BY <1>3, <1>4, <1>5
<1>7. FoldLeft(Load, r, q) = h[DOMAIN q]
  BY <1>1, <1>5 DEF FoldLeft, MapThenFoldSet, LoadRounds
<1>8. QED
  BY <1>1, <1>6, <1>7, LoopOfRounds

\* and the one of deallocuvm.
LEMMA ShrinkLoop ==
  ASSUME NEW r, NEW from \in Int, NEW to \in Int, to >= from
  PROVE  \E g : IsLoop("shrink", g, r, from, to - from) /\ FoldLeft(Shrink, r, Pages(from, to)) = g[to - from]
<1>1. PICK q, T : q = Pages(from, to) /\ T = SUBSET DOMAIN q
  OBVIOUS
<1>2. \A x, y : Round("shrink", x, y) = Shrink(x, y)
  BY DEF Round
<1>3. \A f : ShrinkRounds(f, r, q, T) <=> Rounds(f, "shrink", r, q, T)
  BY <1>2 DEF ShrinkRounds, Rounds
<1>4. \E f : ShrinkRounds(f, r, q, T)
  <2>1. to - from \in Nat /\ T = SUBSET (1 .. to - from)
    BY <1>1 DEF Pages
  <2>2. \E f : Rounds(f, "shrink", r, q, T)
    BY <2>1, RoundsExist
  <2>3. QED
    BY <1>3, <2>2
<1>5. PICK h : h = CHOOSE f : ShrinkRounds(f, r, q, T)
  OBVIOUS
<1>6. Rounds(h, "shrink", r, q, T)
  BY <1>3, <1>4, <1>5
<1>7. FoldLeft(Shrink, r, q) = h[DOMAIN q]
  BY <1>1, <1>5 DEF FoldLeft, MapThenFoldSet, ShrinkRounds
<1>8. QED
  BY <1>1, <1>6, <1>7, LoopOfRounds

\* allocuvm: n rounds from the first address after the image or above it.
LEMMA GrowLoopKeeps ==
  ASSUME NEW r, NEW from \in Nat, NEW n \in Nat, from + n <= MaxPages,
         PageInv(r, 0 .. from - 1), r.stopped = "no", NEW g, IsLoop("grow", g, r, from, n)
  PROVE  IsGrown(g[n], r, 0 .. from - 1, 0 .. from + n - 1)
<1> DEFINE D(i) == 0 .. from + i - 1
           Bad == {i \in 0 .. n : ~IsGrown(g[i], r, D(0), D(i))}
<1>1. SUFFICES ASSUME Bad # {} PROVE FALSE
  <2>1. n \in 0 .. n /\ D(0) = 0 .. from - 1
    BY PagingBasics
  <2>2. QED
    BY <2>1
<1>2. PICK i \in Bad : \A j \in Bad : i <= j
  <2>1. Bad \subseteq Nat
    OBVIOUS
  <2>2. QED
    BY <1>1, <2>1, LeastNumber
<1>3. /\ from \in Nat /\ i \in 0 .. n /\ MaxPages \in Nat
      /\ D(0) = 0 .. from - 1
  BY PagingBasics
<1>4. i # 0
  <2>1. SUFFICES ASSUME i = 0 PROVE IsGrown(g[i], r, D(0), D(i))
    BY <1>2
  <2>2. g[i] = r
    BY <2>1 DEF IsLoop
  <2>3. r \in ProcType
    BY DEF PageInv
  <2>4. QED
    BY <1>3, <2>1, <2>2, <2>3 DEF IsGrown
<1>5. PICK j : j = i - 1
  OBVIOUS
<1>6. j \in 0 .. n - 1 /\ i = j + 1 /\ j \in 0 .. n /\ j \notin Bad
  <2>1. j \in 0 .. n - 1 /\ i = j + 1 /\ j \in 0 .. n /\ ~(i <= j)
    BY <1>3, <1>4, <1>5
  <2>2. QED
    BY <1>2, <2>1
<1>7. PICK x, w, a : x = g[j] /\ w = g[i] /\ a = from + j
  OBVIOUS
<1>8. w = Grow(x, a)
  BY <1>6, <1>7 DEF IsLoop, Round
<1>9. IsGrown(x, r, D(0), D(j))
  BY <1>6, <1>7
<1>10. CASE x.stopped # "no"
  <2>1. w = x
    BY <1>8, <1>10 DEF Grow
  <2>2. IsGrown(w, r, D(0), D(i))
    BY <1>9, <1>10, <2>1 DEF IsGrown
  <2>3. QED
    BY <1>2, <1>7, <2>2
<1>11. CASE x.stopped = "no"
  <2>1. PageInv(x, D(j)) /\ (Contents(r, D(0)) => Contents(x, D(j))) /\ x.sz = r.sz /\ x.shrunk = r.shrunk
    BY <1>9, <1>11 DEF IsGrown
  <2>2. a \in Page /\ a \notin D(j)
    BY <1>3, <1>6, <1>7 DEF Page
  <2>3. D(j) \cup {a} = D(i)
    BY <1>3, <1>6, <1>7
  <2>4. IsGrown(Grow(x, a), x, D(j), D(j) \cup {a})
    BY <1>11, <2>1, <2>2, GrowKeeps
  <2>5. IsGrown(w, x, D(j), D(i))
    BY <1>8, <2>3, <2>4
  <2>6. IsGrown(w, r, D(0), D(i))
    BY <2>1, <2>5 DEF IsGrown
  <2>7. QED
    BY <1>2, <1>7, <2>6
<1>12. QED
  BY <1>10, <1>11

\* exec: n rounds from the first page.
LEMMA LoadLoopKeeps ==
  ASSUME NEW r, NEW D, D \subseteq Page, 0 \in D, PageInv(r, D), r.stopped = "no",
         NEW n \in Nat, n > 0, n <= MaxPages, NEW g, IsLoop("load", g, r, 0, n)
  PROVE  IsLoaded(g[n], D)
<1> DEFINE Bad == {i \in 1 .. n : ~IsLoaded(g[i], D)}
<1>1. SUFFICES ASSUME Bad # {} PROVE FALSE
  <2>1. n \in 1 .. n
    OBVIOUS
  <2>2. QED
    BY <2>1
<1>2. PICK i \in Bad : \A j \in Bad : i <= j
  <2>1. Bad \subseteq Nat
    OBVIOUS
  <2>2. QED
    BY <1>1, <2>1, LeastNumber
<1>3. i \in 1 .. n
  OBVIOUS
<1>4. PICK j, x, w : j = i - 1 /\ x = g[j] /\ w = g[i]
  OBVIOUS
<1>5. j \in 0 .. n - 1 /\ i = j + 1 /\ j \in Nat /\ 0 + j = j /\ j \in Page
  BY <1>3, <1>4, PagingBasics DEF Page
<1>6. w = Load(x, j)
  BY <1>4, <1>5 DEF IsLoop, Round
<1>7. CASE j = 0
  <2>1. x = r
    BY <1>4, <1>7 DEF IsLoop
  <2>2. Loading(r, D) /\ (Listed(r) \/ Unlisted(r))
    BY LoadBegins
  <2>3. IsLoaded(Load(r, j), D)
    BY <1>5, <1>7, <2>2, LoadKeeps
  <2>4. QED
    BY <1>2, <1>4, <1>6, <2>1, <2>3
<1>8. CASE j # 0
  <2>1. IsLoaded(x, D)
    <3>1. j \in 1 .. n /\ ~(i <= j)
      BY <1>3, <1>5, <1>8
    <3>2. j \notin Bad
      BY <1>2, <3>1
    <3>3. QED
      BY <1>4, <3>1, <3>2
  <2>2. CASE x.stopped # "no"
    <3>1. w = x
      BY <1>6, <2>2 DEF Load
    <3>2. QED
      BY <1>2, <1>4, <2>1, <3>1
  <2>3. CASE x.stopped = "no"
    <3>1. Loading(x, D) /\ Listed(x)
      BY <2>1, <2>3 DEF IsLoaded
    <3>2. IsLoaded(Load(x, j), D)
      BY <1>5, <2>3, <3>1, LoadKeeps
    <3>3. QED
      BY <1>2, <1>4, <1>6, <3>2
  <2>4. QED
    BY <2>2, <2>3
<1>9. QED
  BY <1>7, <1>8

\* The path and the arguments: the kernel may need a page of the old image that is in the file.
LEMMA CopyKeeps ==
  ASSUME NEW x, NEW D, IsLoaded(x, D), D \subseteq Page, NEW a \in D
  PROVE  IsLoaded(CopyArguments(x, a), D)
<1>1. PICK w : w = CopyArguments(x, a)
  OBVIOUS
<1>2. CASE x.stopped # "no" \/ x.pte[a] = "P"
  <2>1. w = x
    BY <1>1, <1>2 DEF CopyArguments
  <2>2. QED
    BY <1>1, <2>1
<1>3. CASE x.stopped = "no" /\ x.pte[a] # "P"
  <2>1. x \in ProcType /\ Loading(x, D) /\ x.nfile \in Nat
    BY <1>3 DEF IsLoaded, ProcType
  <2>2. x.nfile > 0
    <3>1. x.pte[a] = "PG"
      BY <1>3, <2>1 DEF Loading, ProcType
    <3>2. QED
      BY <2>1, <3>1 DEF Loading
  <2>3. w = x \/ w = [x EXCEPT !.stopped = "fault"]
    BY <1>1 DEF CopyArguments
  <2>4. CASE w = x
    BY <1>1, <2>4
  <2>5. CASE w = [x EXCEPT !.stopped = "fault"]
    <3>1. w \in ProcType /\ w.nfile = x.nfile /\ w.stopped = "fault"
      BY <2>1, <2>5 DEF ProcType
    <3>2. QED
      BY <1>1, <2>2, <3>1 DEF IsLoaded
  <2>6. QED
    BY <2>3, <2>4, <2>5
<1>4. QED
  BY <1>2, <1>3

IsPassed(w, r, D, F) == IsShrunk(w, r, D \ F) /\ (D \cap F = {} => w = r)

\* deallocuvm: n rounds from any page; pages that are not mapped are passed over.
LEMMA ShrinkLoopKeeps ==
  ASSUME NEW r, NEW from \in Nat, NEW n \in Nat, from + n <= MaxPages, NEW D,
         PageInv(r, D), NEW g, IsLoop("shrink", g, r, from, n)
  PROVE  IsPassed(g[n], r, D, from .. from + n - 1)
<1> DEFINE F(i) == from .. from + i - 1
           Holds(i) == IsShrunk(g[i], r, D \ F(i)) /\ (D \cap F(i) = {} => g[i] = r)
           Bad == {i \in 0 .. n : ~Holds(i)}
<1>1. SUFFICES ASSUME Bad # {} PROVE FALSE
  <2>1. n \in 0 .. n
    OBVIOUS
  <2>2. QED
    BY <2>1 DEF IsPassed
<1>2. PICK i \in Bad : \A j \in Bad : i <= j
  <2>1. Bad \subseteq Nat
    OBVIOUS
  <2>2. QED
    BY <1>1, <2>1, LeastNumber
<1>3. i \in 0 .. n
  OBVIOUS
<1>4. i # 0
  <2>1. SUFFICES ASSUME i = 0 PROVE Holds(i)
    BY <1>2
  <2>2. g[i] = r
    BY <2>1 DEF IsLoop
  <2>3. F(i) = {}
    BY <2>1
  <2>4. D \ F(i) = D
    BY <2>3
  <2>5. QED
    BY <2>2, <2>4 DEF IsShrunk
<1>5. PICK j : j = i - 1
  OBVIOUS
<1>6. j \in 0 .. n - 1 /\ i = j + 1 /\ j \in 0 .. n /\ j \notin Bad
  <2>1. j \in 0 .. n - 1 /\ i = j + 1 /\ j \in 0 .. n /\ ~(i <= j)
    BY <1>3, <1>4, <1>5
  <2>2. QED
    BY <1>2, <2>1
<1>7. PICK x, w, a : x = g[j] /\ w = g[i] /\ a = from + j
  OBVIOUS
<1>8. w = Shrink(x, a)
  BY <1>6, <1>7 DEF IsLoop, Round
<1>9. IsShrunk(x, r, D \ F(j)) /\ (D \cap F(j) = {} => x = r)
  BY <1>6, <1>7
<1>10. a \in Page /\ F(i) = F(j) \cup {a}
  BY <1>3, <1>6, <1>7, PagingBasics DEF Page
<1>11. PageInv(x, D \ F(j))
  BY <1>9 DEF IsShrunk
<1>12. IsShrunk(Shrink(x, a), x, (D \ F(j)) \ {a}) /\ (a \notin D \ F(j) => Shrink(x, a) = x)
  BY <1>10, <1>11, ShrinkKeeps
<1>13. (D \ F(j)) \ {a} = D \ F(i)
  BY <1>10
<1>14. IsShrunk(w, x, D \ F(i)) /\ (a \notin D \ F(j) => w = x)
  BY <1>8, <1>12, <1>13
<1>15. IsShrunk(w, r, D \ F(i))
  BY <1>9, <1>14 DEF IsShrunk
<1>16. D \cap F(i) = {} => w = r
  BY <1>9, <1>10, <1>14
<1>17. QED
  BY <1>2, <1>7, <1>15, <1>16

-----------------------------------------------------------------------------
(* What a system call or an access leaves. *)

\* What of the record PageInv is about is the same.
Alike(w, r) ==
  /\ w.pte = r.pte /\ w.table = r.table /\ w.list = r.list /\ w.nmem = r.nmem /\ w.nfile = r.nfile
  /\ w.swapFile = r.swapFile /\ w.file = r.file /\ w.headPrev = r.headPrev

\* The pages still match.
LEMMA AlikeKeeps ==
  ASSUME NEW r, NEW D, PageInv(r, D), NEW w, w \in ProcType, Alike(w, r)
  PROVE  PageInv(w, D) /\ (w.mem = r.mem /\ w.want = r.want /\ Contents(r, D) => Contents(w, D))
<1>1. /\ w.pte = r.pte /\ w.table = r.table /\ w.list = r.list /\ w.nmem = r.nmem /\ w.nfile = r.nfile
      /\ w.swapFile = r.swapFile /\ w.file = r.file /\ w.headPrev = r.headPrev
  BY DEF Alike
<1>2. Swapped(w) = Swapped(r)
  BY <1>1 DEF Swapped
<1>3. ListInv(w)
  BY <1>1 DEF PageInv, ListInv
<1>4. FileInv(w)
  BY <1>1, <1>2 DEF PageInv, FileInv
<1>5. CountInv(w)
  BY <1>1 DEF PageInv, CountInv
<1>6. EntryInv(w)
  BY <1>1 DEF PageInv, EntryInv
<1>7. PteInv(w, D)
  BY <1>1, <1>2 DEF PageInv, PteInv
<1>8. w.mem = r.mem /\ w.want = r.want /\ Contents(r, D) => Contents(w, D)
  BY <1>1, <1>2 DEF Contents
<1>9. QED
  BY <1>1, <1>3, <1>4, <1>5, <1>6, <1>7, <1>8 DEF PageInv

\* The part of the invariant that is about the record.
RecordInv(w) ==
  /\ w \in ProcType
  /\ w.stopped = "overrun" => Full(w)
  /\ w.stopped = "fault" => w.nfile > 0
  /\ w.stopped = "no" => /\ w.sz > 0 /\ PageInv(w, 0 .. w.sz - 1)
                         /\ ~w.shrunk => Contents(w, 0 .. w.sz - 1)

\* The type of the fields.
LEMMA SizeFacts ==
  ASSUME NEW r, r \in ProcType
  PROVE  /\ r.sz \in 0 .. MaxPages /\ r.sz \in Nat /\ r.stopped \in {"no", "overrun", "fault"} /\ r.shrunk \in BOOLEAN
         /\ MaxPages \in Nat
         /\ r.mem \in [Page -> Val] /\ r.want \in [Page -> Val] /\ r.pte \in [Page -> {"none", "P", "PG"}]
BY PagingBasics DEF ProcType

\* The program begins with pages of zeros that are not in the table.
LEMMA FreshInv ==
  ASSUME NEW n \in Images
  PROVE  RecordInv(Fresh(n))
<1>1. PICK w : w = Fresh(n)
  OBVIOUS
<1>2. PICK p, z, t : /\ p = [a \in Page |-> IF a < n THEN "P" ELSE "none"]
                     /\ z = [a \in Page |-> 0] /\ t = [s \in Slot |-> NotUsed]
  OBVIOUS
<1>3. /\ w.sz = n /\ w.pte = p /\ w.mem = z /\ w.table = t /\ w.list = <<>> /\ w.nmem = 0
      /\ w.nfile = 0 /\ w.swapFile = FALSE /\ w.file = <<>> /\ w.stopped = "no" /\ w.headPrev = FALSE /\ w.want = z /\ w.shrunk = FALSE
  BY <1>1, <1>2 DEF Fresh
<1>4. /\ MaxPages \in Nat /\ n \in Nat /\ n > 0 /\ MaxPages >= n /\ 0 \in Val /\ -1 \notin Page
      /\ Page = 0 .. MaxPages - 1
  BY PagingBasics, PagingAssumption DEF Page
<1>5. p \in [Page -> {"none", "P", "PG"}] /\ z \in [Page -> Val] /\ t \in [Slot -> Entry]
  <2>1. NotUsed \in Entry
    BY DEF NotUsed, Entry
  <2>2. QED
    BY <1>2, <1>4, <2>1
<1>6. w \in ProcType
  <2>1. <<>> \in Seq(Slot) /\ <<>> \in Seq(Val)
    OBVIOUS
  <2>2. n \in 0 .. MaxPages /\ 0 \in Nat
    BY <1>4
  <2>3. QED
    BY <1>1, <1>2, <1>5, <2>1, <2>2 DEF Fresh, ProcType
<1>7. \A s \in Slot : w.table[s].state = "NOTUSED" /\ w.table[s].va = -1 /\ w.table[s].offset = -1
  BY <1>2, <1>3 DEF NotUsed
<1>8. Swapped(w) = {} /\ Len(w.list) = 0 /\ Len(w.file) = 0
  BY <1>3, <1>7 DEF Swapped
<1>9. ListInv(w)
  BY <1>3, <1>7, <1>8 DEF ListInv, Distinct, On
<1>10. FileInv(w)
  <2>1. Cardinality(Swapped(w)) = 0
    BY <1>8, FS_EmptySet
  <2>2. QED
    BY <1>3, <1>8, <2>1 DEF FileInv
<1>11. CountInv(w)
  BY <1>3, <1>8, PagingBasics DEF CountInv
<1>12. EntryInv(w)
  BY <1>7 DEF EntryInv
<1>13. PteInv(w, 0 .. n - 1)
  <2>1. ASSUME NEW a \in Page
        PROVE  (w.pte[a] # "none" <=> a \in 0 .. n - 1) /\ w.pte[a] # "PG"
    BY <1>2, <1>3, <1>4
  <2>2. QED
    BY <2>1 DEF PteInv
<1>14. Contents(w, 0 .. n - 1)
  <2>1. \A a \in Page : w.mem[a] = 0 /\ w.want[a] = 0
    BY <1>2, <1>3
  <2>2. QED
    BY <1>8, <2>1 DEF Contents
<1>15. QED
  BY <1>1, <1>3, <1>4, <1>6, <1>9, <1>10, <1>11, <1>12, <1>13, <1>14 DEF RecordInv, PageInv

\* The program stores to a page that is in memory.
LEMMA StoreKeeps ==
  ASSUME NEW r, RecordInv(r), r.stopped = "no", NEW a \in Page, NEW v \in Val, r.pte[a] = "P",
         NEW w, w = [r EXCEPT !.mem[a] = v, !.want[a] = v]
  PROVE  RecordInv(w)
<1>1. r \in ProcType /\ PageInv(r, 0 .. r.sz - 1) /\ r.sz > 0
  BY DEF RecordInv
<1>2. PICK x, y : x = [r.mem EXCEPT ![a] = v] /\ y = [r.want EXCEPT ![a] = v]
  OBVIOUS
<1>3. /\ w.mem = x /\ w.want = y /\ Alike(w, r) /\ w.sz = r.sz /\ w.stopped = r.stopped /\ w.shrunk = r.shrunk
  BY <1>1, <1>2 DEF ProcType, Alike
<1>4. /\ r.mem \in [Page -> Val] /\ r.want \in [Page -> Val] /\ x \in [Page -> Val] /\ y \in [Page -> Val]
      /\ x[a] = v /\ y[a] = v /\ \A b \in Page : b # a => x[b] = r.mem[b] /\ y[b] = r.want[b]
  BY <1>1, <1>2, SizeFacts
<1>5. w \in ProcType
  <2>1. w = [r EXCEPT !.mem = x, !.want = y]
    BY <1>1, <1>2 DEF ProcType
  <2>2. QED
    BY <1>1, <1>4, <2>1 DEF ProcType
<1>6. PageInv(w, 0 .. r.sz - 1)
  BY <1>1, <1>3, <1>5, AlikeKeeps
<1>7. PICK D : D = 0 .. r.sz - 1
  OBVIOUS
<1>8. a \in D
  BY <1>1, <1>7 DEF PageInv, PteInv
<1>9. ASSUME Contents(r, D) PROVE Contents(w, D)
  <2>1. Swapped(w) = Swapped(r) /\ w.table = r.table /\ w.file = r.file /\ w.nfile = r.nfile /\ w.pte = r.pte
    BY <1>3 DEF Swapped, Alike
  <2>2. ASSUME NEW s \in Swapped(r) PROVE r.table[s].va \in Page /\ r.table[s].va # a
    <3>1. s \in Slot /\ r.table[s].state = "SWAPFILE"
      BY DEF Swapped
    <3>2. r.table[s].va \in Page /\ r.pte[r.table[s].va] = "PG"
      BY <1>1, <3>1 DEF PageInv, EntryInv
    <3>3. QED
      BY <3>2, PagingBasics
  <2>3. /\ \A s, t \in Swapped(w) : w.table[s].offset = w.table[t].offset => s = t
        /\ \A s \in Swapped(w) : w.table[s].offset < w.nfile
    BY <1>9, <2>1 DEF Contents
  <2>4. \A s \in Swapped(w) : w.file[w.table[s].offset + 1] = w.want[w.table[s].va]
    <3>1. SUFFICES ASSUME NEW s \in Swapped(r) PROVE r.file[r.table[s].offset + 1] = y[r.table[s].va]
      BY <1>3, <2>1
    <3>2. r.file[r.table[s].offset + 1] = r.want[r.table[s].va]
      BY <1>9 DEF Contents
    <3>3. QED
      BY <1>4, <2>2, <3>2
  <2>5. \A b \in Page : w.pte[b] = "P" => w.mem[b] = w.want[b]
    BY <1>3, <1>4, <1>9, <2>1 DEF Contents
  <2>6. \A b \in Page : b \notin D => w.want[b] = 0
    BY <1>3, <1>4, <1>8, <1>9 DEF Contents
  <2>7. QED
    BY <2>3, <2>4, <2>5, <2>6 DEF Contents
<1>10. QED
  BY <1>1, <1>3, <1>5, <1>6, <1>7, <1>9 DEF RecordInv

\* A parent of a fork, or its child, has nothing in its file.
LEMMA ForkKeeps ==
  ASSUME NEW r, RecordInv(r), r.stopped = "no", \A a \in Page : r.pte[a] # "PG",
         NEW w, w = [r EXCEPT !.file = <<>>]
  PROVE  RecordInv(w)
<1>1. r \in ProcType /\ PageInv(r, 0 .. r.sz - 1) /\ r.sz > 0
  BY DEF RecordInv
<1>2. PICK D : D = 0 .. r.sz - 1
  OBVIOUS
<1>3. /\ w.pte = r.pte /\ w.table = r.table /\ w.list = r.list /\ w.nmem = r.nmem /\ w.nfile = r.nfile
      /\ w.swapFile = r.swapFile /\ w.file = <<>> /\ w.mem = r.mem /\ w.want = r.want
      /\ w.sz = r.sz /\ w.stopped = r.stopped /\ w.shrunk = r.shrunk
  BY <1>1 DEF ProcType
<1>4. w \in ProcType
  <2>1. <<>> \in Seq(Val)
    OBVIOUS
  <2>2. QED
    BY <1>1, <2>1 DEF ProcType
<1>5. Swapped(r) = {} /\ Swapped(w) = {}
  <2>1. ASSUME NEW s \in Slot PROVE r.table[s].state # "SWAPFILE"
    <3>1. r.table[s].state = "SWAPFILE" => r.table[s].va \in Page /\ r.pte[r.table[s].va] = "PG"
      BY <1>1, PagingBasics DEF PageInv, EntryInv
    <3>2. QED
      BY <3>1
  <2>2. QED
    BY <1>3, <2>1 DEF Swapped
<1>6. r.nfile = 0
  BY <1>1, <1>5, FS_EmptySet DEF PageInv, FileInv
<1>7. ListInv(w) /\ CountInv(w)
  BY <1>1, <1>3 DEF PageInv, ListInv, CountInv
<1>8. FileInv(w)
  <2>1. Len(w.file) = 0 /\ Cardinality(Swapped(w)) = 0
    BY <1>3, <1>5, FS_EmptySet
  <2>2. QED
    BY <1>3, <1>6, <2>1 DEF FileInv
<1>9. EntryInv(w)
  <2>1. \A s \in Slot : w.table[s].state # "SWAPFILE"
    BY <1>5 DEF Swapped
  <2>2. QED
    BY <1>1, <1>3, <2>1 DEF PageInv, EntryInv
<1>10. PteInv(w, D)
  BY <1>1, <1>2, <1>3 DEF PageInv, PteInv
<1>11. Contents(r, D) => Contents(w, D)
  BY <1>3, <1>5 DEF Contents
<1>12. QED
  BY <1>1, <1>2, <1>3, <1>4, <1>7, <1>8, <1>9, <1>10, <1>11 DEF RecordInv, PageInv

\* A page comes in again, for another.
LEMMA FaultKeeps ==
  ASSUME NEW r, RecordInv(r), r.stopped = "no", NEW a \in Page, r.pte[a] = "PG"
  PROVE  RecordInv(SwapPages(r, a))
<1>1. PICK D, w : D = 0 .. r.sz - 1 /\ w = SwapPages(r, a)
  OBVIOUS
<1>2. PageInv(r, D) /\ r.sz > 0 /\ (~r.shrunk => Contents(r, D))
  BY <1>1 DEF RecordInv
<1>3. IsSwapped(SwapPages(r, a), r, D)
  BY <1>2, SwapKeeps, PagingBasics
<1>4. PageInv(w, D) /\ w.sz = r.sz /\ w.stopped = r.stopped /\ w.shrunk = r.shrunk
      /\ (Contents(r, D) => Contents(w, D))
  BY <1>1, <1>3 DEF IsSwapped
<1>5. w \in ProcType
  BY <1>4 DEF PageInv
<1>6. RecordInv(w)
  BY <1>1, <1>2, <1>4, <1>5 DEF RecordInv
<1>7. QED
  BY <1>1, <1>6

\* sbrk grows: every page of the loop is mapped above the old size.
LEMMA GrownBy ==
  ASSUME NEW r, RecordInv(r), r.stopped = "no", NEW n \in Nat, r.sz + n <= MaxPages
  PROVE  IsGrown(FoldLeft(Grow, r, Pages(r.sz, r.sz + n)), r, 0 .. r.sz - 1, 0 .. r.sz + n - 1)
<1>1. PICK from, to : from = r.sz /\ to = r.sz + n
  OBVIOUS
<1>2. r \in ProcType /\ PageInv(r, 0 .. from - 1) /\ r.sz > 0
  BY <1>1 DEF RecordInv
<1>3. from \in Nat /\ from \in Int /\ to \in Int /\ to >= from /\ to - from = n /\ to = from + n
      /\ from + n <= MaxPages
  BY <1>1, <1>2, SizeFacts
<1>4. PICK g : IsLoop("grow", g, r, from, to - from) /\ FoldLeft(Grow, r, Pages(from, to)) = g[to - from]
  BY <1>3, GrowLoop
<1>5. IsLoop("grow", g, r, from, n) /\ FoldLeft(Grow, r, Pages(from, to)) = g[n]
  BY <1>3, <1>4
<1>6. IsGrown(g[n], r, 0 .. from - 1, 0 .. from + n - 1)
  BY <1>2, <1>3, <1>5, GrowLoopKeeps
<1>7. QED
  BY <1>1, <1>5, <1>6

\* sbrk grows the process, unless its table is full.
LEMMA SbrkGrowKeeps ==
  ASSUME NEW r, RecordInv(r), r.stopped = "no", NEW n \in Nat, r.sz + n <= MaxPages,
         NEW w, w = [FoldLeft(Grow, r, Pages(r.sz, r.sz + n)) EXCEPT !.sz = @ + n]
  PROVE  RecordInv(w)
<1>1. PICK x : x = FoldLeft(Grow, r, Pages(r.sz, r.sz + n))
  OBVIOUS
<1>2. PICK D, E : D = 0 .. r.sz - 1 /\ E = 0 .. r.sz + n - 1
  OBVIOUS
<1>3. IsGrown(x, r, D, E)
  BY <1>1, <1>2, GrownBy
<1>4. /\ x \in ProcType /\ x.sz = r.sz /\ x.shrunk = r.shrunk /\ x.stopped \in {"no", "overrun"}
      /\ x.stopped = "overrun" => Full(x)
      /\ x.stopped = "no" => PageInv(x, E) /\ (Contents(r, D) => Contents(x, E))
  BY <1>3 DEF IsGrown
<1>5. r \in ProcType /\ r.sz > 0 /\ (~r.shrunk => Contents(r, D))
  BY <1>2 DEF RecordInv
<1>6. r.sz + n \in 0 .. MaxPages /\ r.sz + n > 0
  BY <1>5, SizeFacts
<1>7. w = [x EXCEPT !.sz = r.sz + n]
  BY <1>1, <1>4 DEF ProcType
<1>8. /\ w \in ProcType /\ Alike(w, x) /\ w.mem = x.mem /\ w.want = x.want /\ w.sz = r.sz + n
      /\ w.stopped = x.stopped /\ w.headPrev = x.headPrev /\ w.shrunk = x.shrunk
  BY <1>4, <1>6, <1>7 DEF ProcType, Alike
<1>9. x.stopped = "no" => PageInv(w, E) /\ (Contents(x, E) => Contents(w, E))
  BY <1>4, <1>8, AlikeKeeps
<1>10. Full(x) => Full(w)
  BY <1>8 DEF Alike, Full
<1>11. 0 .. w.sz - 1 = E
  <2>1. w.sz = r.sz + n /\ r.sz \in Nat
    BY <1>5, <1>8, SizeFacts
  <2>2. QED
    BY <1>2, <2>1
<1>12. ASSUME w.stopped = "no" PROVE PageInv(w, E) /\ (~w.shrunk => Contents(w, E))
  BY <1>4, <1>5, <1>8, <1>9, <1>12
<1>13. (w.stopped = "overrun" => Full(w)) /\ w.stopped # "fault"
  BY <1>4, <1>8, <1>10
<1>14. QED
  BY <1>6, <1>8, <1>11, <1>12, <1>13 DEF RecordInv

\* The pages of a sbrk that fails go again: with their entries goes what else was moved
\* between memory and the file for them.
LEMMA SbrkFailsKeeps ==
  ASSUME NEW r, RecordInv(r), r.stopped = "no", NEW n \in Nat, r.sz + n <= MaxPages, NEW k \in 0 .. n - 1,
         NEW x, x = FoldLeft(Grow, r, Pages(r.sz, r.sz + k)),
         NEW w, w = IF x.stopped # "no" THEN x
                    ELSE [FoldLeft(Shrink, MakeRoom(x), Pages(r.sz, r.sz + n)) EXCEPT !.shrunk = @ \/ k > 0]
  PROVE  RecordInv(w)
<1>1. PICK D, E : D = 0 .. r.sz - 1 /\ E = 0 .. r.sz + k - 1
  OBVIOUS
<1>2. r \in ProcType /\ r.sz > 0 /\ (~r.shrunk => Contents(r, D)) /\ PageInv(r, D)
  BY <1>1 DEF RecordInv
<1>3. k \in Nat /\ r.sz + k <= MaxPages /\ r.sz \in Nat
  BY <1>2, SizeFacts
<1>4. IsGrown(x, r, D, E)
  BY <1>1, <1>3, GrownBy
<1>5. /\ x \in ProcType /\ x.sz = r.sz /\ x.shrunk = r.shrunk /\ x.stopped \in {"no", "overrun"}
      /\ x.stopped = "overrun" => Full(x)
      /\ x.stopped = "no" => PageInv(x, E) /\ (Contents(r, D) => Contents(x, E))
  BY <1>4 DEF IsGrown
<1>6. CASE x.stopped # "no"
  BY <1>5, <1>6 DEF RecordInv
<1>7. CASE x.stopped = "no"
  <2>1. PICK y, z, from, to : /\ y = MakeRoom(x) /\ z = FoldLeft(Shrink, y, Pages(from, to))
                              /\ from = r.sz /\ to = r.sz + n
    OBVIOUS
  <2>2. IsRoom(MakeRoom(x), x, E)
    BY <1>5, <1>7, RoomMade, PagingBasics
  <2>3. /\ PageInv(y, E) /\ y.sz = x.sz /\ y.stopped = x.stopped /\ y.shrunk = x.shrunk
        /\ Contents(x, E) => Contents(y, E)
    BY <2>1, <2>2 DEF IsRoom
  <2>4. from \in Nat /\ from \in Int /\ to \in Int /\ to >= from /\ to - from = n /\ from + n <= MaxPages
    BY <1>3, <2>1
  <2>5. PICK g : IsLoop("shrink", g, y, from, to - from) /\ FoldLeft(Shrink, y, Pages(from, to)) = g[to - from]
    BY <2>4, ShrinkLoop
  <2>6. IsLoop("shrink", g, y, from, n) /\ z = g[n]
    BY <2>1, <2>4, <2>5
  <2>7. PICK F : F = from .. from + n - 1
    OBVIOUS
  <2>8. IsShrunk(g[n], y, E \ (from .. from + n - 1)) /\ (E \cap (from .. from + n - 1) = {} => g[n] = y)
    <3>1. IsPassed(g[n], y, E, from .. from + n - 1)
      BY <2>3, <2>4, <2>6, ShrinkLoopKeeps
    <3>2. QED
      BY <3>1 DEF IsPassed
  <2>9. E \ F = D
    BY <1>1, <1>3, <2>1, <2>4, <2>7
  <2>10. /\ PageInv(z, D) /\ z.sz = y.sz /\ z.stopped = y.stopped /\ z.shrunk = y.shrunk
         /\ E \cap F = {} => z = y
    BY <2>6, <2>7, <2>8, <2>9 DEF IsShrunk
  <2>11. PICK c \in BOOLEAN : c <=> z.shrunk \/ k > 0
    OBVIOUS
  <2>12. w = [z EXCEPT !.shrunk = c]
    <3>1. z.shrunk \in BOOLEAN
      BY <2>10, SizeFacts DEF PageInv
    <3>2. w = [z EXCEPT !.shrunk = @ \/ k > 0]
      BY <1>7, <2>1
    <3>3. (z.shrunk \/ k > 0) = c
      BY <2>11, <3>1
    <3>4. QED
      BY <3>2, <3>3
  <2>13. z \in ProcType
    BY <2>10 DEF PageInv
  <2>14. /\ w \in ProcType /\ Alike(w, z) /\ w.mem = z.mem /\ w.want = z.want /\ w.sz = z.sz
         /\ w.stopped = z.stopped /\ w.headPrev = z.headPrev /\ w.shrunk = c
    BY <2>12, <2>13 DEF ProcType, Alike
  <2>15. PageInv(w, D) /\ (Contents(z, D) => Contents(w, D))
    BY <2>10, <2>14, AlikeKeeps
  <2>16. ASSUME ~w.shrunk PROVE Contents(z, D)
    <3>1. k = 0 /\ ~r.shrunk
      BY <1>3, <1>5, <2>3, <2>10, <2>11, <2>14, <2>16
    <3>2. E = D /\ E \cap F = {}
      BY <1>1, <1>3, <2>1, <2>4, <2>7, <3>1
    <3>3. Contents(x, E)
      BY <1>2, <1>5, <1>7, <3>1
    <3>4. Contents(y, E)
      BY <2>3, <3>3
    <3>5. QED
      BY <2>10, <3>2, <3>4
  <2>17. w.sz = r.sz /\ w.stopped = "no"
    BY <1>5, <1>7, <2>3, <2>10, <2>14
  <2>18. QED
    BY <1>1, <1>2, <2>14, <2>15, <2>16, <2>17 DEF RecordInv
<1>8. QED
  BY <1>6, <1>7

GivenBack(r, n) ==
  [FoldLeft(Shrink, r, Pages(r.sz - n, r.sz)) EXCEPT
     !.sz = @ - n, !.shrunk = TRUE,
     !.want = [a \in Page |-> IF a < r.sz - n THEN @[a] ELSE 0]]

\* sbrk gives back: the pages from the new size on go, and what was stored in them is
\* forgotten.
LEMMA SbrkShrinkKeeps ==
  ASSUME NEW r, RecordInv(r), r.stopped = "no", NEW n \in Nat, r.sz - n > 0, NEW w, w = GivenBack(r, n)
  PROVE  RecordInv(w)
<1>1. PICK D, from, to, z : /\ D = 0 .. r.sz - 1 /\ from = r.sz - n /\ to = r.sz
                            /\ z = FoldLeft(Shrink, r, Pages(from, to))
  OBVIOUS
<1>2. r \in ProcType /\ r.sz > 0 /\ PageInv(r, D)
  BY <1>1 DEF RecordInv
<1>3. /\ r.sz \in 0 .. MaxPages /\ from \in Nat /\ from \in Int /\ to \in Int /\ to >= from /\ to - from = n
      /\ from + n <= MaxPages /\ from + n = r.sz /\ from \in 0 .. MaxPages /\ from > 0
  <2>1. r.sz \in 0 .. MaxPages /\ MaxPages \in Nat /\ n \in Nat
    BY <1>2, SizeFacts
  <2>2. from = r.sz - n /\ to = r.sz /\ from > 0
    BY <1>1
  <2>3. QED
    BY <2>1, <2>2
<1>4. PICK g : IsLoop("shrink", g, r, from, to - from) /\ FoldLeft(Shrink, r, Pages(from, to)) = g[to - from]
  BY <1>3, ShrinkLoop
<1>5. IsLoop("shrink", g, r, from, n) /\ z = g[n]
  BY <1>1, <1>3, <1>4
<1>6. IsShrunk(g[n], r, D \ (from .. from + n - 1))
  <2>1. IsPassed(g[n], r, D, from .. from + n - 1)
    BY <1>2, <1>3, <1>5, ShrinkLoopKeeps, PagingBasics
  <2>2. QED
    BY <2>1 DEF IsPassed
<1>7. D \ (from .. from + n - 1) = 0 .. from - 1
  <2>1. \A a : a \in D \ (from .. from + n - 1) <=> a \in 0 .. from - 1
    <3>1. PICK e : e = r.sz
      OBVIOUS
    <3>2. D = 0 .. e - 1 /\ from + n = e /\ e \in Nat /\ n \in Nat /\ from \in Nat
      BY <1>1, <1>3, <3>1
    <3>3. from .. from + n - 1 = from .. e - 1 /\ from <= e
      BY <3>2
    <3>4. QED
      BY <3>2, <3>3
  <2>2. QED
    BY <2>1
<1>8. PageInv(z, 0 .. from - 1) /\ z.sz = r.sz /\ z.stopped = r.stopped
  BY <1>5, <1>6, <1>7 DEF IsShrunk
<1>9. z \in ProcType
  BY <1>8 DEF PageInv
<1>10. PICK y : y = [a \in Page |-> IF a < from THEN z.want[a] ELSE 0]
  OBVIOUS
<1>11. y \in [Page -> Val]
  BY <1>9, <1>10, SizeFacts, PagingBasics
<1>12. w = [z EXCEPT !.sz = from, !.shrunk = TRUE, !.want = y]
  <2>1. z.sz - n = from
    BY <1>1, <1>8
  <2>2. QED
    BY <1>1, <1>9, <1>10, <2>1 DEF ProcType, GivenBack
<1>13. w \in ProcType /\ Alike(w, z) /\ w.sz = from /\ w.shrunk = TRUE /\ w.stopped = z.stopped
  BY <1>3, <1>9, <1>11, <1>12 DEF ProcType, Alike
<1>14. PageInv(w, 0 .. from - 1)
  BY <1>8, <1>13, AlikeKeeps
<1>15. QED
  BY <1>3, <1>8, <1>13, <1>14 DEF RecordInv

\* An exec that does not come to its new image stops the process: it has written past the table,
\* or the kernel needs a page that is not there.
LEMMA ExecKeeps ==
  ASSUME NEW r, RecordInv(r), r.stopped = "no", NEW n \in Images, NEW a \in Page, a < r.sz,
         NEW x, x = CopyArguments(FoldLeft(Load, r, Pages(0, n)), a), x.stopped # "no"
  PROVE  RecordInv(x)
<1>1. PICK D : D = 0 .. r.sz - 1
  OBVIOUS
<1>2. r \in ProcType /\ r.sz > 0 /\ PageInv(r, D)
  BY <1>1 DEF RecordInv
<1>3. r.sz \in Nat /\ r.sz <= MaxPages /\ MaxPages \in Nat
  BY <1>2, SizeFacts, PagingBasics
<1>4. D \subseteq Page /\ 0 \in D /\ a \in D
  BY <1>1, <1>2, <1>3 DEF Page
<1>5. n \in Nat /\ n > 0 /\ n <= MaxPages /\ n \in Int /\ 0 \in Int /\ n >= 0 /\ n - 0 = n
  BY PagingAssumption
<1>6. PICK g : IsLoop("load", g, r, 0, n - 0) /\ FoldLeft(Load, r, Pages(0, n)) = g[n - 0]
  BY <1>5, LoadLoop
<1>7. IsLoop("load", g, r, 0, n) /\ FoldLeft(Load, r, Pages(0, n)) = g[n]
  BY <1>5, <1>6
<1>8. IsLoaded(g[n], D)
  BY <1>2, <1>4, <1>5, <1>7, LoadLoopKeeps
<1>9. IsLoaded(CopyArguments(g[n], a), D)
  BY <1>4, <1>8, CopyKeeps
<1>10. IsLoaded(x, D)
  BY <1>7, <1>9
<1>11. QED
  BY <1>10 DEF RecordInv, IsLoaded

-----------------------------------------------------------------------------
\* The inductive invariant of the process and its pages.
PageTableInv == RecordInv(m) /\ image \in Images /\ copyPanicked \in BOOLEAN

\* The invariant holds of a program that exec has just loaded,
LEMMA PagingInit0 == PagingInit => PageTableInv
BY FreshInv DEF PagingInit, PageTableInv

\* and every access and every system call keeps it.
LEMMA PagingStep == PageTableInv /\ [PagingNext]_pagingVars => PageTableInv'
<1> SUFFICES ASSUME PageTableInv, [PagingNext]_pagingVars PROVE PageTableInv'
  OBVIOUS
<1> PICK r, w : r = m /\ w = m'
  OBVIOUS
<1>1. RecordInv(r) /\ image \in Images /\ copyPanicked \in BOOLEAN
  BY DEF PageTableInv
<1>2. SUFFICES RecordInv(w) /\ image' \in Images /\ copyPanicked' \in BOOLEAN
  BY DEF PageTableInv, RecordInv, PageInv, ListInv, Distinct, On, FileInv, CountInv, EntryInv, PteInv, Contents, Swapped
<1>3. CASE UNCHANGED pagingVars
  BY <1>1, <1>3 DEF pagingVars
<1>4. ASSUME NEW a \in Page, PageFault(a) PROVE RecordInv(w) /\ image' \in Images /\ copyPanicked' \in BOOLEAN
  BY <1>1, <1>4, FaultKeeps DEF PageFault, Runs
<1>5. ASSUME NEW a \in Page, NEW v \in Val, Store(a, v) PROVE RecordInv(w) /\ image' \in Images /\ copyPanicked' \in BOOLEAN
  BY <1>1, <1>5, StoreKeeps DEF Store, Runs
<1>6. ASSUME NEW n \in 1 .. MaxPages, SbrkGrow(n) PROVE RecordInv(w) /\ image' \in Images /\ copyPanicked' \in BOOLEAN
  <2>1. n \in Nat /\ r.sz + n <= MaxPages /\ r.stopped = "no"
    BY <1>6 DEF SbrkGrow, Runs
  <2>2. w = [FoldLeft(Grow, r, Pages(r.sz, r.sz + n)) EXCEPT !.sz = @ + n]
    BY <1>6 DEF SbrkGrow
  <2>3. RecordInv(w)
    BY <1>1, <2>1, <2>2, SbrkGrowKeeps
  <2>4. QED
    BY <1>1, <1>6, <2>3 DEF SbrkGrow
<1>7. ASSUME NEW n \in 1 .. MaxPages, SbrkShrink(n) PROVE RecordInv(w) /\ image' \in Images /\ copyPanicked' \in BOOLEAN
  <2>1. n \in Nat /\ r.sz - n > 0 /\ r.stopped = "no"
    <3>1. image \in Nat /\ image >= 1
      BY <1>1, PagingAssumption
    <3>2. r.sz \in Nat
      BY <1>1, SizeFacts DEF RecordInv
    <3>3. r.sz - n >= image /\ r.stopped = "no"
      BY <1>7 DEF SbrkShrink, Runs
    <3>4. QED
      BY <3>1, <3>2, <3>3
  <2>2. w = GivenBack(r, n)
    BY <1>7 DEF SbrkShrink, GivenBack
  <2>3. RecordInv(w)
    BY <1>1, <2>1, <2>2, SbrkShrinkKeeps
  <2>4. QED
    BY <1>1, <1>7, <2>3 DEF SbrkShrink
<1>8. ASSUME NEW n \in 1 .. MaxPages, NEW k \in 0 .. n - 1, SbrkFails(n, k)
      PROVE  RecordInv(w) /\ image' \in Images /\ copyPanicked' \in BOOLEAN
  <2>1. n \in Nat /\ r.sz + n <= MaxPages /\ r.stopped = "no"
    BY <1>8 DEF SbrkFails, Runs
  <2>2. PICK x : x = FoldLeft(Grow, r, Pages(r.sz, r.sz + k))
    OBVIOUS
  <2>3. w = IF x.stopped # "no" THEN x
            ELSE [FoldLeft(Shrink, MakeRoom(x), Pages(r.sz, r.sz + n)) EXCEPT !.shrunk = @ \/ k > 0]
    BY <1>8, <2>2 DEF SbrkFails
  <2>4. RecordInv(w)
    BY <1>1, <2>1, <2>2, <2>3, SbrkFailsKeeps
  <2>5. QED
    BY <1>1, <1>8, <2>4 DEF SbrkFails
<1>9. ASSUME Fork PROVE RecordInv(w) /\ image' \in Images /\ copyPanicked' \in BOOLEAN
  <2>1. CASE \E a \in Page : r.pte[a] = "PG"
    BY <1>1, <1>9, <2>1 DEF Fork
  <2>2. CASE ~\E a \in Page : r.pte[a] = "PG"
    BY <1>1, <1>9, <2>2, ForkKeeps DEF Fork, Runs
  <2>3. QED
    BY <2>1, <2>2
<1>10. ASSUME NEW n \in Images, NEW a \in Page, Exec(n, a)
       PROVE  RecordInv(w) /\ image' \in Images /\ copyPanicked' \in BOOLEAN
  <2>1. PICK x : x = CopyArguments(FoldLeft(Load, r, Pages(0, n)), a)
    OBVIOUS
  <2>2. r.stopped = "no" /\ a < r.sz /\ copyPanicked' = copyPanicked
    BY <1>10 DEF Exec, Runs
  <2>3. IF x.stopped = "no" THEN w = Fresh(n) /\ image' = n ELSE w = x /\ image' = image
    BY <1>10, <2>1 DEF Exec
  <2>4. CASE x.stopped # "no"
    <3>1. RecordInv(x)
      BY <1>1, <2>1, <2>2, <2>4, ExecKeeps
    <3>2. QED
      BY <1>1, <2>2, <2>3, <2>4, <3>1
  <2>5. CASE x.stopped = "no"
    BY <1>1, <2>2, <2>3, <2>5, FreshInv
  <2>6. QED
    BY <2>4, <2>5
<1>11. QED
  BY <1>3, <1>4, <1>5, <1>6, <1>7, <1>8, <1>9, <1>10 DEF PagingNext

\* What the invariant says is what the runs check.
LEMMA PagingInvHolds == PageTableInv => PagingInv /\ UnshrunkKeepsContents
<1> SUFFICES ASSUME PageTableInv PROVE PagingInv /\ UnshrunkKeepsContents
  OBVIOUS
<1>1. /\ m \in ProcType /\ image \in Images /\ copyPanicked \in BOOLEAN
      /\ m.stopped = "overrun" => Full(m)
      /\ m.stopped = "fault" => m.nfile > 0
  BY DEF PageTableInv, RecordInv
<1>2. PagingTypeOK
  BY <1>1 DEF PagingTypeOK, ProcType, Entry
<1>3. OverrunOnlyWhenFull /\ FaultOnlyWhenSwapping
  BY <1>1 DEF OverrunOnlyWhenFull, FaultOnlyWhenSwapping, Full
<1>4. CASE m.stopped # "no"
  BY <1>2, <1>3, <1>4 DEF PagingInv, TableMatches, UnshrunkKeepsContents, ContentsKept
<1>5. CASE m.stopped = "no"
  <2>1. PICK D : D = 0 .. m.sz - 1
    OBVIOUS
  <2>2. PageInv(m, D) /\ (~m.shrunk => Contents(m, D)) /\ m.sz \in Nat
    BY <1>1, <1>5, <2>1, SizeFacts DEF PageTableInv, RecordInv
  <2>3. /\ m.list \in Seq(Slot) /\ Distinct(m.list)
        /\ \A s \in Slot : m.table[s].state = "PHYSMEMORY" <=> On(m.list, s)
    BY <1>1, <2>2 DEF PageInv, ListInv, ProcType
  <2>4. ToSet(m.list) = In("PHYSMEMORY") /\ Len(m.list) = Cardinality(ToSet(m.list))
    <3>1. Len(m.list) = Cardinality(ToSet(m.list))
      BY <2>3, ListCard
    <3>2. ToSet(m.list) \subseteq Slot /\ \A s : s \in ToSet(m.list) <=> On(m.list, s)
      BY <2>3 DEF ToSet, On
    <3>3. QED
      BY <2>3, <3>1, <3>2 DEF In
  <2>5. Swapped(m) = In("SWAPFILE")
    BY DEF Swapped, In
  <2>6. /\ m.nmem = Len(m.list) /\ m.nmem <= MAX_PSYC_PAGES
        /\ m.nfile = Cardinality(In("SWAPFILE")) /\ (m.nfile > 0 => m.swapFile /\ m.list # <<>>)
    BY <2>2, <2>5 DEF PageInv, CountInv, FileInv
  <2>7. /\ \A s \in In("PHYSMEMORY") : m.pte[m.table[s].va] = "P" /\ m.table[s].offset = -1
        /\ \A s \in In("SWAPFILE") : m.pte[m.table[s].va] = "PG" /\ m.table[s].offset \in 0 .. Len(m.file) - 1
        /\ \A s, t \in Slot : m.table[s].va = m.table[t].va /\ m.table[s].va # -1 => s = t
    BY <2>2 DEF PageInv, EntryInv, In
  <2>8. \A a \in Page : m.pte[a] = "PG" => \E s \in In("SWAPFILE") : m.table[s].va = a
    BY <2>2, <2>5 DEF PageInv, PteInv
  <2>9. \A a \in Page : m.pte[a] # "none" <=> a < m.sz
    BY <2>1, <2>2, PagingBasics DEF PageInv, PteInv
  <2>10. TableMatches
    <3>1. m.headPrev = FALSE
      BY <2>2 DEF PageInv
    <3>2. QED
      BY <2>4, <2>6, <2>7, <2>8, <2>9, <3>1 DEF TableMatches
  <2>11. UnshrunkKeepsContents
    BY <2>2, <2>5 DEF UnshrunkKeepsContents, ContentsKept, Contents
  <2>12. QED
    BY <1>2, <1>3, <2>10, <2>11 DEF PagingInv
<1>6. QED
  BY <1>4, <1>5

\* The inductive invariant holds after every access, system call and fork.  Its lemmas go
\* through every round of the loops of sbrk, where the list, the counters and the tables agree
\* all the time, and of exec, where they need not: there the entries stay those of different
\* pages, and no page is missing before one has been written to the file (vm.c, exec.c).
THEOREM PagingCorrect == PagingSpec => []PageTableInv
BY PagingInit0, PagingStep, PTL DEF PagingSpec

\* PagingInv: between two calls the list, the counters, the page table and the table of pages
\* agree.  A process writes past its table only when every entry stands for a page of its own,
\* and its exec may need a page that is not there only when pages are in the file (vm.c, exec.c).
THEOREM PagesMatchTable == PagingSpec => []PagingInv
BY PagingCorrect, PagingInvHolds, PTL

\* UnshrunkKeepsContents: until sbrk has given pages back, each page holds what the program stored
\* in it last, however often it went to the swap file and came back (vm.c, trap.c).
THEOREM ContentsKeptUntilSbrk == PagingSpec => []UnshrunkKeepsContents
BY PagingCorrect, PagingInvHolds, PTL

=============================================================================
