------------------------- MODULE KernelLocksProofs -------------------------
(***************************************************************************)
(* Proofs about the spin locks, the interrupts and the context switches of *)
(* the kernel, for any sets of CPUs and processes.                         *)
(*                                                                         *)
(* The argument is that of a type system.  What a CPU holds and where its  *)
(* thread is make a context; every operation leads from a context in which *)
(* it is allowed to another one; and all code that a thread can still have *)
(* to do leads from the context of its CPU to that of its end: user code,  *)
(* or the top of the loop of scheduler().                                  *)
(***************************************************************************)
EXTENDS KernelLocks, FiniteSetTheorems, SequenceTheorems, TLAPS

-----------------------------------------------------------------------------
(* Contexts. *)

\* held: the locks of the CPU;  irq: in an interrupt handler, so that interrupts are
\* off under the first lock;  known: whether they are, which scheduler() does not know
\* after a process has come back to it;  st: the process runs, or has changed its
\* state to leave the CPU; the scheduler has no process, has chosen one, or one has
\* left it;  who: c->proc.
Ctx ==
  {a \in [held : SUBSET Lock, irq : BOOLEAN, known : BOOLEAN,
          st : {"run", "stop", "none", "chosen", "left"}, who : Proc \cup {Nobody}] :
     /\ a.st \notin {"run", "none"} => "ptable" \in a.held
     /\ a.held = {} /\ a.irq => a.known
     /\ a.who = Nobody <=> a.st = "none"}

Operation ==
  {"acquire", "release", "loop", "sleep", "wakeup", "yield", "sched", "intena",
   "sti", "pick", "swtch", "idle", "preempt", "iret"}
    \X (Lock \cup Proc \cup {"", "on", "off"})

\* The order of the locks. scheduler() takes tickslock under ptable.lock.
Ordered(l, a) ==
  \/ a.held = {}
  \/ a.held \in {{"ticks"}, {"other"}} /\ l = "ptable"
  \/ a.held = {"ptable"} /\ l = "leaf"
  \/ a.held = {"ptable"} /\ l = "ticks" /\ a.st \in {"chosen", "left"}

\* From a to b with the locks h and the state s; what is known may be forgotten.
Becomes(a, b, h, s) ==
  /\ a.irq => a.known
  /\ b.held = h /\ b.st = s /\ b.irq = a.irq /\ b.who = a.who /\ (b.known => a.known)

Stays(a, b) == Becomes(a, b, a.held, a.st)

Running(a, h) == a.st = "run" /\ a.held = h /\ a.known

OfLocks(op, l, a, b) ==
  \/ op = "acquire" /\ l \in Lock /\ Ordered(l, a) /\ Becomes(a, b, a.held \cup {l}, a.st)
  \/ op = "release" /\ l \in a.held /\ Becomes(a, b, a.held \ {l}, a.st)

OfProcesses(op, x, a, b) ==
  \/ op = "loop" /\ x \in {"ticks", "other"} /\ Running(a, {x}) /\ Stays(a, b)
  \/ op = "sleep" /\ x \in Lock /\ Running(a, {"ptable"}) /\ Becomes(a, b, a.held, "stop")
  \/ op = "yield" /\ Running(a, {"ptable"}) /\ Becomes(a, b, a.held, "stop")
  \/ /\ op = "sched" /\ a.held = {"ptable"} /\ a.st = "stop" /\ a.known
     /\ Becomes(a, b, a.held, "run") /\ b.known
  \/ /\ op = "intena" /\ a.held = {"ptable"} /\ a.st = "run"
     /\ x = (IF a.irq THEN "off" ELSE "on")
     /\ b.held = a.held /\ b.st = a.st /\ b.irq = a.irq /\ b.who = a.who /\ b.known
  \/ op = "wakeup" /\ "ptable" \in a.held /\ a.st \in {"run", "none"} /\ Stays(a, b)

\* The contexts of scheduler(), without and with a process.
Idling(h, k) == [held |-> h, irq |-> FALSE, known |-> k, st |-> "none", who |-> Nobody]
Has(p, s, k) == [held |-> {"ptable"}, irq |-> FALSE, known |-> k, st |-> s, who |-> p]
Away(p) == Has(p, "left", FALSE)

OfScheduler(op, x, a, b) ==
  \/ op = "sti" /\ a \in {Idling({}, TRUE), Idling({}, FALSE)} /\ b = Idling({}, TRUE)
  \/ op = "pick" /\ a = Idling({"ptable"}, TRUE) /\ b = Idling({}, FALSE)
  \/ op = "swtch" /\ x \in Proc /\ a = Has(x, "chosen", TRUE) /\ b = Away(x)
  \/ op = "idle" /\ a.who \in Proc /\ a = Away(a.who) /\ b = Idling({"ptable"}, FALSE)

OfInterrupts(op, a, b) ==
  /\ a.held = {} /\ a.irq /\ b.held = {} /\ b.st = a.st /\ b.who = a.who
  /\ \/ op = "preempt" /\ b.irq
     \/ op = "iret" /\ ~b.irq

Step(o, a, b) ==
  \/ OfLocks(o[1], o[2], a, b)
  \/ OfProcesses(o[1], o[2], a, b)
  \/ OfScheduler(o[1], o[2], a, b)
  \/ OfInterrupts(o[1], a, b)

\* s is allowed from a on and ends in b; H[i] is the context before s[i]. Only an
\* interrupt leads into a handler, so that no operation of s does.
Path(s, H, a, b) ==
  /\ H \in [1 .. Len(s) + 1 -> Ctx]
  /\ H[1] = a /\ H[Len(s) + 1] = b
  /\ \A i \in 1 .. Len(s) : Step(s[i], H[i], H[i + 1])
  /\ \A i, j \in 1 .. Len(s) + 1 : i <= j /\ H[j].irq => H[i].irq

Leads(s, a, b) == s \in Seq(Operation) /\ \E H : Path(s, H, a, b)

\* User code of t, or the top of the loop of scheduler().
End(t) ==
  IF t \in Proc
  THEN [held |-> {}, irq |-> FALSE, known |-> TRUE, st |-> "run", who |-> t]
  ELSE Idling({}, FALSE)

-----------------------------------------------------------------------------
(* The inductive invariant. *)

Thread == Cpu \cup Proc

Spins(t) == todo[t] # <<>> /\ todo[t][1][1] = "spin"

\* What is ahead of a thread; who spins has still to acquire.
Ahead(t) ==
  IF Spins(t) THEN <<Acquire(todo[t][1][2])>> \o Tail(todo[t]) ELSE todo[t]

\* The context of a CPU.
Fits(c, a) ==
  /\ a.held = {l \in Lock : cpu[l] = c}
  /\ ncli[c] = Cardinality(a.held) + (IF Spins(cur[c]) THEN 1 ELSE 0)
  /\ IF a.held = {} /\ ~Spins(cur[c])
     THEN a.known => (c \in on <=> ~a.irq)
     ELSE c \notin on /\ (a.known => (c \in intena <=> ~a.irq))
  /\ a.who = proc[c] /\ cur[c] = IF a.st \in {"run", "stop"} THEN a.who ELSE c
  /\ a.who \in Proc => (state[a.who] = "RUNNING" <=> a.st \in {"run", "chosen"})

OnCpu(c) == \E a \in Ctx : Fits(c, a) /\ Leads(Ahead(cur[c]), a, End(cur[c]))

\* scheduler() while a process runs on its CPU.
SchedulerAway(c) ==
  cur[c] # c => ~Spins(c) /\ Leads(todo[c], Away(cur[c]), End(c))

\* A process that runs nowhere goes on with ptable.lock, which scheduler() hands it.
Ready(a, p) == a.held = {"ptable"} /\ a.st = "run" /\ a.who = p /\ (a.known => ~a.irq)

ProcessAway(p) ==
  (\A c \in Cpu : cur[c] # p) =>
     ~Spins(p) /\ \E a \in Ctx : Ready(a, p) /\ Leads(todo[p], a, End(p))

Todo == Seq({"spin", "acquire", "release", "loop", "sleep", "wakeup", "yield", "sched",
             "intena", "sti", "pick", "swtch", "idle", "preempt", "iret"}
              \X (Lock \cup Proc \cup {"", "on", "off"}))

LocksTyped ==
  /\ TypeOK /\ ~panicked
  /\ todo \in [Thread -> Todo]
  /\ \A l \in Lock : l \in locked <=> cpu[l] # Nobody
  /\ \A c, d \in Cpu : proc[c] = proc[d] /\ proc[c] # Nobody => c = d

KernelInv ==
  /\ LocksTyped
  /\ \A c \in Cpu : OnCpu(c) /\ SchedulerAway(c)
  /\ \A p \in Proc : ProcessAway(p)

-----------------------------------------------------------------------------
(* Paths. *)

LEMMA LeadsNowhere ==
  ASSUME NEW a \in Ctx, NEW b
  PROVE  Leads(<<>>, a, b) <=> a = b
<1>1. ASSUME a = b
      PROVE  Path(<<>>, [i \in 1 .. 1 |-> a], a, b)
  BY <1>1 DEF Path
<1>2. ASSUME NEW H, Path(<<>>, H, a, b)
      PROVE  a = b
  BY <1>2 DEF Path
<1>3. QED
  BY <1>1, <1>2, EmptySeq DEF Leads

LEMMA LeadsThere ==
  ASSUME NEW s, NEW a, NEW b, Leads(s, a, b)
  PROVE  a \in Ctx /\ b \in Ctx /\ s \in Seq(Operation)
<1>1. PICK H : Path(s, H, a, b)
  BY DEF Leads
<1>2. Len(s) \in Nat
  BY LenProperties DEF Leads
<1>3. 1 \in 1 .. Len(s) + 1 /\ Len(s) + 1 \in 1 .. Len(s) + 1
  BY <1>2
<1>4. QED
  BY <1>1, <1>3 DEF Path, Leads

\* A path is cut after its first operation.
LEMMA LeadsOn ==
  ASSUME NEW s, NEW a, NEW c, Leads(s, a, c), s # <<>>
  PROVE  \E b \in Ctx : Step(s[1], a, b) /\ Leads(Tail(s), b, c)
<1>1. PICK H : Path(s, H, a, c)
  BY DEF Leads
<1>2. /\ s \in Seq(Operation) /\ Len(s) \in Nat \ {0}
      /\ Tail(s) \in Seq(Operation) /\ Len(Tail(s)) = Len(s) - 1
      /\ \A i \in 1 .. Len(s) - 1 : Tail(s)[i] = s[i + 1]
  BY EmptySeq, HeadTailProperties DEF Leads
<1> DEFINE G == [i \in 1 .. Len(s) |-> H[i + 1]]
<1>3. \A i \in 1 .. Len(s) : i + 1 \in 1 .. Len(s) + 1 /\ H[i + 1] \in Ctx
  BY <1>1, <1>2 DEF Path
<1>4. Step(s[1], a, H[2]) /\ H[2] \in Ctx
  <2>1. 1 \in 1 .. Len(s)
    BY <1>2
  <2>2. QED
    BY <1>1, <1>3, <2>1 DEF Path
<1>5. Path(Tail(s), G, H[2], c)
  <2>1. Len(Tail(s)) + 1 = Len(s) /\ 1 \in 1 .. Len(s) /\ Len(s) \in 1 .. Len(s)
    BY <1>2
  <2>2. G \in [1 .. Len(s) -> Ctx] /\ G[1] = H[2] /\ G[Len(s)] = c
    BY <1>1, <1>3, <2>1 DEF Path
  <2>3. \A i \in 1 .. Len(s) - 1 : Step(Tail(s)[i], G[i], G[i + 1])
    <3> TAKE i \in 1 .. Len(s) - 1
    <3>1. i \in 1 .. Len(s) /\ i + 1 \in 1 .. Len(s)
      BY <1>2
    <3>2. Step(s[i + 1], H[i + 1], H[(i + 1) + 1])
      BY <1>1, <3>1 DEF Path
    <3>3. QED
      BY <1>2, <3>1, <3>2
  <2>4. \A i, j \in 1 .. Len(s) : i <= j /\ G[j].irq => G[i].irq
    <3> TAKE i, j \in 1 .. Len(s)
    <3>1. i <= j /\ H[j + 1].irq => H[i + 1].irq
      BY <1>1, <1>2, <1>3 DEF Path
    <3>2. QED
      BY <3>1
  <2>5. QED
    BY <1>2, <2>1, <2>2, <2>3, <2>4 DEF Path
<1>6. QED
  BY <1>2, <1>4, <1>5 DEF Leads

\* Two paths make one.
LEMMA LeadsThrough ==
  ASSUME NEW s, NEW t, NEW a, NEW b, NEW c, Leads(s, a, b), Leads(t, b, c)
  PROVE  Leads(s \o t, a, c)
<1>1. PICK G : Path(s, G, a, b)
  BY DEF Leads
<1>2. PICK H : Path(t, H, b, c)
  BY DEF Leads
<1> DEFINE m == Len(s)
           n == Len(t)
           K == [i \in 1 .. m + n + 1 |-> IF i <= m THEN G[i] ELSE H[i - m]]
<1>3. /\ s \in Seq(Operation) /\ t \in Seq(Operation) /\ m \in Nat /\ n \in Nat
      /\ s \o t \in Seq(Operation) /\ Len(s \o t) = m + n
      /\ \A i \in 1 .. m + n : (s \o t)[i] = IF i <= m THEN s[i] ELSE t[i - m]
  BY LenProperties, ConcatProperties DEF Leads
<1>4. /\ G \in [1 .. m + 1 -> Ctx] /\ G[1] = a /\ G[m + 1] = b
      /\ \A i \in 1 .. m : Step(s[i], G[i], G[i + 1])
      /\ \A i, j \in 1 .. m + 1 : i <= j /\ G[j].irq => G[i].irq
  BY <1>1 DEF Path
<1>5. /\ H \in [1 .. n + 1 -> Ctx] /\ H[1] = b /\ H[n + 1] = c
      /\ \A i \in 1 .. n : Step(t[i], H[i], H[i + 1])
      /\ \A i, j \in 1 .. n + 1 : i <= j /\ H[j].irq => H[i].irq
  BY <1>2 DEF Path
<1> HIDE DEF m, n
<1>6. K \in [1 .. m + n + 1 -> Ctx]
  <2>1. \A i \in 1 .. m + n + 1 : IF i <= m THEN i \in 1 .. m + 1 ELSE i - m \in 1 .. n + 1
    BY <1>3
  <2>2. QED
    BY <1>4, <1>5, <2>1
<1>7. \A i \in 1 .. m + 1 : K[i] = G[i]
  BY <1>3, <1>4, <1>5
<1>8. \A i \in 1 .. n + 1 : K[m + i] = H[i]
  BY <1>3, <1>4, <1>5
<1>9. K[1] = a /\ K[m + n + 1] = c
  BY <1>3, <1>4, <1>5, <1>7, <1>8
<1>10. \A i \in 1 .. m + n : Step((s \o t)[i], K[i], K[i + 1])
  <2> TAKE i \in 1 .. m + n
  <2>1. CASE i <= m
    <3>1. i \in 1 .. m /\ i \in 1 .. m + 1 /\ i + 1 \in 1 .. m + 1
      BY <1>3, <2>1
    <3>2. QED
      BY <1>3, <1>4, <1>7, <2>1, <3>1
  <2>2. CASE ~(i <= m)
    <3>1. PICK k \in 1 .. n : i = m + k /\ i - m = k /\ i + 1 = m + (k + 1)
      <4>1. i - m \in 1 .. n /\ i = m + (i - m) /\ i + 1 = m + ((i - m) + 1)
        BY <1>3, <2>2
      <4>2. QED
        BY <4>1
    <3>2. K[i] = H[k] /\ K[i + 1] = H[k + 1]
      BY <1>3, <1>8, <3>1
    <3>3. QED
      BY <1>3, <1>5, <2>2, <3>1, <3>2
  <2>3. QED
    BY <2>1, <2>2
<1>11. \A i, j \in 1 .. m + n + 1 : i <= j /\ K[j].irq => K[i].irq
  <2> TAKE i, j \in 1 .. m + n + 1
  <2> SUFFICES ASSUME i <= j, K[j].irq PROVE K[i].irq
    OBVIOUS
  <2>1. CASE j <= m + 1
    <3>1. i \in 1 .. m + 1 /\ j \in 1 .. m + 1
      BY <1>3, <2>1
    <3>2. QED
      BY <1>4, <1>7, <3>1
  <2>2. CASE i > m
    <3>1. i - m \in 1 .. n + 1 /\ j - m \in 1 .. n + 1 /\ i - m <= j - m
          /\ m + (i - m) = i /\ m + (j - m) = j
      BY <1>3, <2>2
    <3>2. K[m + (i - m)] = H[i - m] /\ K[m + (j - m)] = H[j - m]
      BY <1>8, <3>1
    <3>3. QED
      BY <1>5, <3>1, <3>2
  <2>3. CASE j > m + 1 /\ i <= m
    <3>1. j - m \in 1 .. n + 1 /\ 1 \in 1 .. n + 1 /\ 1 <= j - m /\ m + (j - m) = j
          /\ i \in 1 .. m + 1 /\ m + 1 \in 1 .. m + 1 /\ i <= m + 1
      BY <1>3, <2>3
    <3>2. K[j] = H[j - m] /\ K[i] = G[i]
      BY <1>7, <1>8, <3>1
    <3>3. H[1].irq
      BY <1>5, <3>1, <3>2
    <3>4. G[m + 1].irq
      BY <1>4, <1>5, <3>3
    <3>5. QED
      BY <1>4, <3>1, <3>2, <3>4
  <2>4. QED
    BY <1>3, <2>1, <2>2, <2>3
<1>12. Path(s \o t, K, a, c)
  <2>1. (m + n) + 1 = m + n + 1
    BY <1>3
  <2>2. QED
    BY <1>3, <1>6, <1>9, <1>10, <1>11, <2>1 DEF Path
<1>13. QED
  BY <1>3, <1>12 DEF Leads

\* Only an interrupt leads into a handler.
LEMMA NoHandlerAhead ==
  ASSUME NEW s, NEW a, NEW b, Leads(s, a, b), NEW i \in DOMAIN s, s[i] = Do("iret")
  PROVE  a.irq
<1>1. PICK H : Path(s, H, a, b)
  BY DEF Leads
<1>2. Len(s) \in Nat /\ i \in 1 .. Len(s)
  BY LenProperties DEF Leads
<1>3. i \in 1 .. Len(s) + 1 /\ 1 \in 1 .. Len(s) + 1 /\ 1 <= i
  BY <1>2
<1>4. Step(s[i], H[i], H[i + 1])
  BY <1>1, <1>2 DEF Path
<1>5. H[i].irq
  <2>1. Do("iret")[1] = "iret"
    BY DEF Do
  <2>2. QED
    BY <1>4, <2>1 DEF Step, OfLocks, OfProcesses, OfScheduler, OfInterrupts
<1>6. QED
  BY <1>1, <1>3, <1>5 DEF Path

-----------------------------------------------------------------------------
(* The code of the kernel. *)

\* An operation in front of a path.
LEMMA LeadsFrom ==
  ASSUME NEW s \in Seq(Operation), s # <<>>, NEW a \in Ctx, NEW b \in Ctx, NEW c,
         Step(s[1], a, b), b.irq => a.irq, Leads(Tail(s), b, c)
  PROVE  Leads(s, a, c)
<1>1. PICK H : Path(Tail(s), H, b, c)
  BY DEF Leads
<1>2. /\ Len(s) \in Nat \ {0} /\ Len(Tail(s)) = Len(s) - 1
      /\ \A i \in 1 .. Len(s) - 1 : Tail(s)[i] = s[i + 1]
  BY EmptySeq, HeadTailProperties
<1> DEFINE n == Len(s)
           G == [i \in 1 .. n + 1 |-> IF i = 1 THEN a ELSE H[i - 1]]
<1>3. /\ H \in [1 .. n -> Ctx] /\ H[1] = b /\ H[n] = c
      /\ \A i \in 1 .. n - 1 : Step(s[i + 1], H[i], H[i + 1])
      /\ \A i, j \in 1 .. n : i <= j /\ H[j].irq => H[i].irq
  <2>1. Len(Tail(s)) + 1 = n
    BY <1>2
  <2>2. QED
    BY <1>1, <1>2, <2>1 DEF Path
<1>4. n \in Nat \ {0}
  BY <1>2
<1> HIDE DEF n
<1>5. G \in [1 .. n + 1 -> Ctx] /\ G[1] = a /\ G[n + 1] = c
  <2>1. \A i \in 1 .. n + 1 : i # 1 => i - 1 \in 1 .. n
    BY <1>4
  <2>2. (n + 1) - 1 = n /\ n + 1 # 1 /\ 1 \in 1 .. n + 1 /\ n + 1 \in 1 .. n + 1
    BY <1>4
  <2>3. QED
    BY <1>3, <2>1, <2>2
<1>6. \A i \in 1 .. n : Step(s[i], G[i], G[i + 1])
  <2> TAKE i \in 1 .. n
  <2>1. i \in 1 .. n + 1 /\ i + 1 \in 1 .. n + 1 /\ i + 1 # 1 /\ (i + 1) - 1 = i
    BY <1>4
  <2>2. G[i + 1] = H[i]
    BY <2>1
  <2>3. CASE i = 1
    BY <1>3, <1>5, <2>2, <2>3
  <2>4. CASE i # 1
    <3>1. i - 1 \in 1 .. n - 1 /\ (i - 1) + 1 = i
      BY <1>4, <2>4
    <3>2. Step(s[(i - 1) + 1], H[i - 1], H[(i - 1) + 1])
      BY <1>3, <3>1
    <3>3. G[i] = H[i - 1]
      BY <2>1, <2>4
    <3>4. QED
      BY <2>2, <3>1, <3>2, <3>3
  <2>5. QED
    BY <2>3, <2>4
<1>7. \A i, j \in 1 .. n + 1 : i <= j /\ G[j].irq => G[i].irq
  <2> TAKE i, j \in 1 .. n + 1
  <2> SUFFICES ASSUME i <= j, G[j].irq PROVE G[i].irq
    OBVIOUS
  <2>1. CASE j = 1
    BY <1>4, <2>1
  <2>2. CASE j # 1 /\ i = 1
    <3>1. 1 \in 1 .. n /\ j - 1 \in 1 .. n /\ 1 <= j - 1
      BY <1>4, <2>2
    <3>2. H[j - 1].irq
      BY <2>2
    <3>3. H[1].irq
      BY <1>3, <3>1, <3>2
    <3>4. QED
      BY <1>3, <1>5, <2>2, <3>3
  <2>3. CASE j # 1 /\ i # 1
    <3>1. i - 1 \in 1 .. n /\ j - 1 \in 1 .. n /\ i - 1 <= j - 1
      BY <1>4, <2>3
    <3>2. G[i] = H[i - 1] /\ G[j] = H[j - 1]
      BY <2>3
    <3>3. QED
      BY <1>3, <3>1, <3>2
  <2>4. QED
    BY <2>1, <2>2, <2>3
<1>8. Path(s, G, a, c)
  BY <1>5, <1>6, <1>7 DEF Path, n
<1>9. QED
  BY <1>8 DEF Leads

\* The same for sequences that are written out.
LEMMA Leads1 ==
  ASSUME NEW o \in Operation, NEW a \in Ctx, NEW b \in Ctx, Step(o, a, b), b.irq => a.irq
  PROVE  Leads(<<o>>, a, b)
<1> DEFINE s == <<o>>
<1>1. s \in Seq(Operation) /\ s # <<>> /\ s[1] = o /\ Tail(s) = <<>>
  OBVIOUS
<1> HIDE DEF s
<1>2. Leads(<<>>, b, b)
  BY LeadsNowhere
<1>3. Leads(s, a, b)
  BY <1>1, <1>2, LeadsFrom
<1>4. QED
  BY <1>3 DEF s

LEMMA Leads2 ==
  ASSUME NEW o \in Operation, NEW p \in Operation,
         NEW a \in Ctx, NEW b \in Ctx, NEW z, Step(o, a, b), b.irq => a.irq, Leads(<<p>>, b, z)
  PROVE  Leads(<<o, p>>, a, z)
<1> DEFINE s == <<o, p>>
<1>1. s \in Seq(Operation) /\ s # <<>> /\ s[1] = o /\ Tail(s) = <<p>>
  OBVIOUS
<1> HIDE DEF s
<1>2. Leads(s, a, z)
  BY <1>1, LeadsFrom
<1>3. QED
  BY <1>2 DEF s

LEMMA Leads3 ==
  ASSUME NEW o \in Operation, NEW p \in Operation, NEW q \in Operation,
         NEW a \in Ctx, NEW b \in Ctx, NEW z, Step(o, a, b), b.irq => a.irq, Leads(<<p, q>>, b, z)
  PROVE  Leads(<<o, p, q>>, a, z)
<1> DEFINE s == <<o, p, q>>
<1>1. s \in Seq(Operation) /\ s # <<>> /\ s[1] = o /\ Tail(s) = <<p, q>>
  OBVIOUS
<1> HIDE DEF s
<1>2. Leads(s, a, z)
  BY <1>1, LeadsFrom
<1>3. QED
  BY <1>2 DEF s

LEMMA Leads4 ==
  ASSUME NEW o \in Operation, NEW p \in Operation, NEW q \in Operation, NEW r \in Operation,
         NEW a \in Ctx, NEW b \in Ctx, NEW z, Step(o, a, b), b.irq => a.irq,
         Leads(<<p, q, r>>, b, z)
  PROVE  Leads(<<o, p, q, r>>, a, z)
<1> DEFINE s == <<o, p, q, r>>
<1>1. s \in Seq(Operation) /\ s # <<>> /\ s[1] = o /\ Tail(s) = <<p, q, r>>
  OBVIOUS
<1> HIDE DEF s
<1>2. Leads(s, a, z)
  BY <1>1, LeadsFrom
<1>3. QED
  BY <1>2 DEF s

LEMMA Leads5 ==
  ASSUME NEW o \in Operation, NEW p \in Operation, NEW q \in Operation, NEW r \in Operation,
         NEW t \in Operation,
         NEW a \in Ctx, NEW b \in Ctx, NEW z, Step(o, a, b), b.irq => a.irq,
         Leads(<<p, q, r, t>>, b, z)
  PROVE  Leads(<<o, p, q, r, t>>, a, z)
<1> DEFINE s == <<o, p, q, r, t>>
<1>1. s \in Seq(Operation) /\ s # <<>> /\ s[1] = o /\ Tail(s) = <<p, q, r, t>>
  OBVIOUS
<1> HIDE DEF s
<1>2. Leads(s, a, z)
  BY <1>1, LeadsFrom
<1>3. QED
  BY <1>2 DEF s

LEMMA Leads6 ==
  ASSUME NEW o \in Operation, NEW p \in Operation, NEW q \in Operation, NEW r \in Operation,
         NEW t \in Operation, NEW u \in Operation,
         NEW a \in Ctx, NEW b \in Ctx, NEW z, Step(o, a, b), b.irq => a.irq,
         Leads(<<p, q, r, t, u>>, b, z)
  PROVE  Leads(<<o, p, q, r, t, u>>, a, z)
<1> DEFINE s == <<o, p, q, r, t, u>>
<1>1. s \in Seq(Operation) /\ s # <<>> /\ s[1] = o /\ Tail(s) = <<p, q, r, t, u>>
  OBVIOUS
<1> HIDE DEF s
<1>2. Leads(s, a, z)
  BY <1>1, LeadsFrom
<1>3. QED
  BY <1>2 DEF s

LEMMA Leads7 ==
  ASSUME NEW o \in Operation, NEW p \in Operation, NEW q \in Operation, NEW r \in Operation,
         NEW t \in Operation, NEW u \in Operation, NEW v \in Operation,
         NEW a \in Ctx, NEW b \in Ctx, NEW z, Step(o, a, b), b.irq => a.irq,
         Leads(<<p, q, r, t, u, v>>, b, z)
  PROVE  Leads(<<o, p, q, r, t, u, v>>, a, z)
<1> DEFINE s == <<o, p, q, r, t, u, v>>
<1>1. s \in Seq(Operation) /\ s # <<>> /\ s[1] = o /\ Tail(s) = <<p, q, r, t, u, v>>
  OBVIOUS
<1> HIDE DEF s
<1>2. Leads(s, a, z)
  BY <1>1, LeadsFrom
<1>3. QED
  BY <1>2 DEF s

LEMMA OperationsAre ==
  /\ \A l \in Lock : /\ Acquire(l) \in Operation /\ Release(l) \in Operation
                     /\ <<"loop", l>> \in Operation /\ <<"sleep", l>> \in Operation
                     /\ <<"wakeup", l>> \in Operation
  /\ \A p \in Proc : <<"swtch", p>> \in Operation
  /\ \A v \in {"on", "off"} : <<"intena", v>> \in Operation
  /\ \A op \in {"yield", "sched", "sti", "pick", "idle", "preempt", "iret"} : Do(op) \in Operation
BY DEF Operation, Acquire, Release, Do

With(a, l) ==
  [held |-> a.held \cup {l}, irq |-> a.irq, known |-> a.known, st |-> a.st, who |-> a.who]

\* What acquire and release of a lock lead to, and what wakeup does.
LEMMA Brackets ==
  ASSUME NEW a \in Ctx, NEW l \in Lock, l \notin a.held, Ordered(l, a), a.irq => a.known
  PROVE  /\ With(a, l) \in Ctx /\ With(a, l).irq = a.irq /\ With(a, l).held = a.held \cup {l}
         /\ With(a, l).known = a.known /\ With(a, l).st = a.st /\ With(a, l).who = a.who
         /\ Step(Acquire(l), a, With(a, l)) /\ Step(Release(l), With(a, l), a)
<1> DEFINE b == With(a, l)
<1>1. /\ b \in [held : SUBSET Lock, irq : BOOLEAN, known : BOOLEAN,
                st : {"run", "stop", "none", "chosen", "left"}, who : Proc \cup {Nobody}]
      /\ b.irq = a.irq /\ b.held = a.held \cup {l} /\ b.known = a.known
      /\ b.st = a.st /\ b.who = a.who
  BY DEF Ctx, With
<1> HIDE DEF b
<1>2. b \in Ctx
  BY <1>1 DEF Ctx
<1>3. Step(Acquire(l), a, b)
  <2>1. OfLocks("acquire", l, a, b)
    BY <1>1 DEF OfLocks, Becomes, Ctx
  <2>2. QED
    BY <2>1 DEF Step, Acquire
<1>4. Step(Release(l), b, a)
  <2>1. b.held \ {l} = a.held
    BY <1>1
  <2>2. OfLocks("release", l, b, a)
    BY <1>1, <2>1 DEF OfLocks, Becomes, Ctx
  <2>3. QED
    BY <2>2 DEF Step, Release
<1>5. QED
  BY <1>1, <1>2, <1>3, <1>4 DEF b

LEMMA WakeupLeads ==
  ASSUME NEW a \in Ctx, NEW l \in Lock, "ptable" \notin a.held, Ordered("ptable", a),
         a.irq => a.known, a.st \in {"run", "none"}
  PROVE  Leads(WakeupOn(l), a, a)
<1> DEFINE b == With(a, "ptable")
<1>1. "ptable" \in Lock
  BY DEF Lock
<1>2. /\ b \in Ctx /\ b.irq = a.irq /\ b.held = a.held \cup {"ptable"} /\ b.known = a.known
      /\ b.st = a.st /\ b.who = a.who
      /\ Step(Acquire("ptable"), a, b) /\ Step(Release("ptable"), b, a)
  BY <1>1, Brackets
<1> HIDE DEF b
<1>3. Step(<<"wakeup", l>>, b, b)
  <2>1. OfProcesses("wakeup", l, b, b)
    BY <1>2 DEF OfProcesses, Stays, Becomes
  <2>2. QED
    BY <2>1 DEF Step
<1>4. /\ Acquire("ptable") \in Operation /\ <<"wakeup", l>> \in Operation
      /\ Release("ptable") \in Operation
  BY <1>1, OperationsAre
<1>5. Leads(<<Release("ptable")>>, b, a)
  BY <1>2, <1>4, Leads1
<1>6. Leads(<<<<"wakeup", l>>, Release("ptable")>>, b, a)
  BY <1>2, <1>3, <1>4, <1>5, Leads2
<1>7. Leads(<<Acquire("ptable"), <<"wakeup", l>>, Release("ptable")>>, a, a)
  BY <1>2, <1>4, <1>6, Leads3
<1>8. QED
  BY <1>7 DEF WakeupOn

\* The contexts of a process p that runs, with or without an interrupt.
In(p, h, i, s) == [held |-> h, irq |-> i, known |-> TRUE, st |-> s, who |-> p]

\* Out to the scheduler and back, with ptable.lock held.
LEMMA SwitchLeads ==
  ASSUME NEW p \in Proc, NEW i \in BOOLEAN
  PROVE  /\ In(p, {"ptable"}, i, "run") \in Ctx /\ In(p, {"ptable"}, i, "stop") \in Ctx
         /\ \A l \in Lock : Step(<<"sleep", l>>, In(p, {"ptable"}, i, "run"),
                                 In(p, {"ptable"}, i, "stop"))
         /\ Step(Do("yield"), In(p, {"ptable"}, i, "run"), In(p, {"ptable"}, i, "stop"))
         /\ Step(Do("sched"), In(p, {"ptable"}, i, "stop"), In(p, {"ptable"}, i, "run"))
<1> DEFINE a == In(p, {"ptable"}, i, "run")
           b == In(p, {"ptable"}, i, "stop")
<1>1. /\ a \in Ctx /\ b \in Ctx
      /\ a.held = {"ptable"} /\ a.irq = i /\ a.known /\ a.st = "run" /\ a.who = p
      /\ b.held = {"ptable"} /\ b.irq = i /\ b.known /\ b.st = "stop" /\ b.who = p
  BY CpuAssumption DEF In, Ctx, Lock
<1> HIDE DEF a, b
<1>2. ASSUME NEW l \in Lock
      PROVE  Step(<<"sleep", l>>, a, b)
  <2>1. OfProcesses("sleep", l, a, b)
    BY <1>1 DEF OfProcesses, Becomes, Running
  <2>2. QED
    BY <2>1 DEF Step
<1>3. Step(Do("yield"), a, b)
  <2>1. OfProcesses("yield", "", a, b)
    BY <1>1 DEF OfProcesses, Becomes, Running
  <2>2. QED
    BY <2>1 DEF Step, Do
<1>4. Step(Do("sched"), b, a)
  <2>1. OfProcesses("sched", "", b, a)
    BY <1>1 DEF OfProcesses, Becomes
  <2>2. QED
    BY <2>1 DEF Step, Do
<1>5. QED
  BY <1>1, <1>2, <1>3, <1>4 DEF a, b

\* The locks of a process in a system call or a handler.
LEMMA LocksOfProcess ==
  ASSUME NEW p \in Proc, NEW i \in BOOLEAN
  PROVE  /\ In(p, {}, i, "run") \in Ctx
         /\ \A l \in Lock : In(p, {l}, i, "run") \in Ctx
         /\ \A h \in SUBSET Lock : In(p, h, i, "run").irq = i
         /\ \A l \in Lock : /\ Step(Acquire(l), In(p, {}, i, "run"), In(p, {l}, i, "run"))
                            /\ Step(Release(l), In(p, {l}, i, "run"), In(p, {}, i, "run"))
<1>1. /\ In(p, {}, i, "run") \in Ctx
      /\ \A l \in Lock : In(p, {l}, i, "run") \in Ctx
      /\ \A h \in SUBSET Lock : In(p, h, i, "run").irq = i
  BY CpuAssumption DEF In, Ctx
<1>2. ASSUME NEW l \in Lock
      PROVE  /\ Step(Acquire(l), In(p, {}, i, "run"), In(p, {l}, i, "run"))
             /\ Step(Release(l), In(p, {l}, i, "run"), In(p, {}, i, "run"))
  <2> DEFINE a == In(p, {}, i, "run")
  <2>1. With(a, l) = In(p, {l}, i, "run")
    <3>1. {} \cup {l} = {l}
      OBVIOUS
    <3>2. QED
      BY <3>1 DEF With, In
  <2>2. l \notin a.held /\ Ordered(l, a) /\ a.known
    BY DEF In, Ordered
  <2>3. QED
    BY <1>1, <2>1, <2>2, Brackets
<1>3. QED
  BY <1>1, <1>2

\* sleep() gives the lock up and takes it back.
LEMMA SleepLeads ==
  ASSUME NEW p \in Proc, NEW i \in BOOLEAN, NEW l \in {"ticks", "other"}
  PROVE  Leads(SleepOn(l), In(p, {l}, i, "run"), In(p, {l}, i, "run"))
<1> DEFINE a == In(p, {l}, i, "run")
           b == In(p, {"ptable", l}, i, "run")
           c == In(p, {"ptable"}, i, "run")
           d == In(p, {"ptable"}, i, "stop")
           e == In(p, {}, i, "run")
<1>1. l \in Lock /\ "ptable" \in Lock /\ l # "ptable"
  BY DEF Lock
<1>2. /\ a \in Ctx /\ c \in Ctx /\ e \in Ctx
      /\ Step(Release("ptable"), c, e) /\ Step(Acquire(l), e, a)
  BY <1>1, LocksOfProcess
<1>3. d \in Ctx /\ Step(<<"sleep", l>>, c, d) /\ Step(Do("sched"), d, c)
  BY <1>1, SwitchLeads
<1>4. /\ a.held = {l} /\ a.irq = i /\ a.known /\ a.st = "run" /\ a.who = p
      /\ b.held = {"ptable", l} /\ b.irq = i /\ b.known /\ b.st = "run" /\ b.who = p
      /\ c.held = {"ptable"} /\ c.irq = i /\ c.known /\ c.st = "run" /\ c.who = p
      /\ d.irq = i /\ e.irq = i
  BY DEF In
<1>5. b \in Ctx /\ Step(Acquire("ptable"), a, b)
  <2>1. {l} \cup {"ptable"} = {"ptable", l}
    OBVIOUS
  <2>2. With(a, "ptable") = b
    BY <2>1 DEF With, In
  <2>3. Ordered("ptable", a) /\ "ptable" \notin a.held
    BY <1>1, <1>4 DEF Ordered
  <2>4. QED
    BY <1>1, <1>2, <1>4, <2>2, <2>3, Brackets
<1> HIDE DEF a, b, c, d, e
<1>6. Step(Release(l), b, c)
  <2>1. l \in b.held /\ c.held = b.held \ {l}
    BY <1>1, <1>4
  <2>2. OfLocks("release", l, b, c)
    BY <1>4, <2>1 DEF OfLocks, Becomes
  <2>3. QED
    BY <2>2 DEF Step, Release
<1>7. /\ Acquire("ptable") \in Operation /\ Release(l) \in Operation
      /\ <<"sleep", l>> \in Operation /\ Do("sched") \in Operation
      /\ Release("ptable") \in Operation /\ Acquire(l) \in Operation
  BY <1>1, OperationsAre
<1>8. Leads(<<Acquire(l)>>, e, a)
  BY <1>2, <1>4, <1>7, Leads1
<1>9. Leads(<<Release("ptable"), Acquire(l)>>, c, a)
  BY <1>2, <1>4, <1>7, <1>8, Leads2
<1>10. Leads(<<Do("sched"), Release("ptable"), Acquire(l)>>, d, a)
  BY <1>2, <1>3, <1>4, <1>7, <1>9, Leads3
<1>11. Leads(<<<<"sleep", l>>, Do("sched"), Release("ptable"), Acquire(l)>>, c, a)
  BY <1>2, <1>3, <1>4, <1>7, <1>10, Leads4
<1>12. Leads(<<Release(l), <<"sleep", l>>, Do("sched"), Release("ptable"), Acquire(l)>>, b, a)
  BY <1>2, <1>4, <1>5, <1>6, <1>7, <1>11, Leads5
<1>13. Leads(<<Acquire("ptable"), Release(l), <<"sleep", l>>, Do("sched"), Release("ptable"),
               Acquire(l)>>, a, a)
  BY <1>2, <1>4, <1>5, <1>7, <1>12, Leads6
<1>14. QED
  BY <1>13 DEF SleepOn, a

\* A process that is preempted comes back into its handler.
LEMMA YieldLeads ==
  ASSUME NEW p \in Proc, NEW i \in BOOLEAN
  PROVE  Leads(Yield, In(p, {}, i, "run"), In(p, {}, i, "run"))
<1> DEFINE a == In(p, {}, i, "run")
           b == In(p, {"ptable"}, i, "run")
           c == In(p, {"ptable"}, i, "stop")
<1>1. "ptable" \in Lock
  BY DEF Lock
<1>2. /\ a \in Ctx /\ b \in Ctx /\ a.irq = i /\ b.irq = i
      /\ Step(Acquire("ptable"), a, b) /\ Step(Release("ptable"), b, a)
  BY <1>1, LocksOfProcess
<1>3. c \in Ctx /\ c.irq = i /\ Step(Do("yield"), b, c) /\ Step(Do("sched"), c, b)
  BY SwitchLeads DEF In
<1> HIDE DEF a, b, c
<1>4. /\ Acquire("ptable") \in Operation /\ Do("yield") \in Operation
      /\ Do("sched") \in Operation /\ Release("ptable") \in Operation
  BY <1>1, OperationsAre
<1>5. Leads(<<Release("ptable")>>, b, a)
  BY <1>2, <1>4, Leads1
<1>6. Leads(<<Do("sched"), Release("ptable")>>, c, a)
  BY <1>2, <1>3, <1>4, <1>5, Leads2
<1>7. Leads(<<Do("yield"), Do("sched"), Release("ptable")>>, b, a)
  BY <1>2, <1>3, <1>4, <1>6, Leads3
<1>8. Leads(<<Acquire("ptable"), Do("yield"), Do("sched"), Release("ptable")>>, a, a)
  BY <1>2, <1>4, <1>7, Leads4
<1>9. QED
  BY <1>8 DEF Yield, a

\* Every system call leads back to user code.
LEMMA SyscallLeads ==
  ASSUME NEW p \in Proc, NEW s \in Syscall
  PROVE  Leads(s, End(p), End(p))
<1> DEFINE a == In(p, {}, FALSE, "run")
           t == In(p, {"ticks"}, FALSE, "run")
           o == In(p, {"other"}, FALSE, "run")
           l == In(p, {"leaf"}, FALSE, "run")
           b == In(p, {"ptable"}, FALSE, "run")
           c == In(p, {"ptable"}, FALSE, "stop")
<1>1. {"ptable", "ticks", "other", "leaf"} = Lock
  BY DEF Lock
<1>2. End(p) = a
  BY DEF End, In
<1>3. /\ a \in Ctx /\ t \in Ctx /\ o \in Ctx /\ l \in Ctx /\ b \in Ctx
      /\ Step(Acquire("ticks"), a, t) /\ Step(Release("ticks"), t, a)
      /\ Step(Acquire("other"), a, o) /\ Step(Release("other"), o, a)
      /\ Step(Acquire("leaf"), a, l) /\ Step(Release("leaf"), l, a)
      /\ Step(Acquire("ptable"), a, b) /\ Step(Release("ptable"), b, a)
  BY <1>1, LocksOfProcess
<1>4. c \in Ctx /\ Step(<<"sleep", "ptable">>, b, c) /\ Step(Do("sched"), c, b)
  BY <1>1, SwitchLeads
<1>5. ~a.irq /\ ~t.irq /\ ~o.irq /\ ~l.irq /\ ~b.irq /\ ~c.irq
  BY DEF In
<1>6. Step(<<"loop", "ticks">>, t, t) /\ Step(<<"loop", "other">>, o, o)
  BY DEF Step, OfProcesses, Running, Stays, Becomes, In
<1>7. Leads(WakeupOn("other"), o, o)
  <2>1. "ptable" \notin o.held /\ Ordered("ptable", o) /\ o.st = "run"
    BY DEF In, Ordered
  <2>2. QED
    BY <1>1, <1>3, <1>5, <2>1, WakeupLeads
<1>8. \E d \in Ctx : ~d.irq /\ Step(Acquire("leaf"), b, d) /\ Step(Release("leaf"), d, b)
  <2>1. "leaf" \notin b.held /\ Ordered("leaf", b)
    BY DEF In, Ordered
  <2>2. QED
    BY <1>1, <1>3, <1>5, <2>1, Brackets
<1> HIDE DEF a, t, o, l, b, c
<1>9. /\ \A k \in Lock : Acquire(k) \in Operation /\ Release(k) \in Operation
      /\ <<"loop", "ticks">> \in Operation /\ <<"loop", "other">> \in Operation
      /\ <<"sleep", "ptable">> \in Operation /\ Do("sched") \in Operation
  BY <1>1, OperationsAre
<1>10. Leads(<<Acquire("ticks"), <<"loop", "ticks">>, Release("ticks")>>, a, a)
  <2>1. Leads(<<Release("ticks")>>, t, a)
    BY <1>1, <1>3, <1>5, <1>9, Leads1
  <2>2. Leads(<<<<"loop", "ticks">>, Release("ticks")>>, t, a)
    BY <1>1, <1>3, <1>5, <1>6, <1>9, <2>1, Leads2
  <2>3. QED
    BY <1>1, <1>3, <1>5, <1>9, <2>2, Leads3
<1>11. Leads(<<Acquire("other"), <<"loop", "other">>>> \o WakeupOn("other")
               \o <<Release("other")>>, a, a)
  <2>1. Leads(<<Release("other")>>, o, a)
    BY <1>1, <1>3, <1>5, <1>9, Leads1
  <2>2. Leads(<<<<"loop", "other">>>>, o, o)
    BY <1>1, <1>3, <1>5, <1>6, <1>9, Leads1
  <2>3. Leads(<<Acquire("other"), <<"loop", "other">>>>, a, o)
    BY <1>1, <1>3, <1>5, <1>9, <2>2, Leads2
  <2>4. Leads(<<Acquire("other"), <<"loop", "other">>>> \o WakeupOn("other"), a, o)
    BY <1>7, <2>3, LeadsThrough
  <2>5. QED
    BY <2>1, <2>4, LeadsThrough
<1>12. Leads(<<Acquire("leaf"), Release("leaf")>>, a, a)
  <2>1. Leads(<<Release("leaf")>>, l, a)
    BY <1>1, <1>3, <1>5, <1>9, Leads1
  <2>2. QED
    BY <1>1, <1>3, <1>5, <1>9, <2>1, Leads2
<1>13. Leads(<<Acquire("ptable"), <<"sleep", "ptable">>, Do("sched"), Acquire("leaf"),
               Release("leaf"), Release("ptable")>>, a, a)
  <2>1. PICK d \in Ctx : ~d.irq /\ Step(Acquire("leaf"), b, d) /\ Step(Release("leaf"), d, b)
    BY <1>8
  <2>2. Leads(<<Release("ptable")>>, b, a)
    BY <1>1, <1>3, <1>5, <1>9, Leads1
  <2>3. Leads(<<Release("leaf"), Release("ptable")>>, d, a)
    BY <1>1, <1>3, <1>5, <1>9, <2>1, <2>2, Leads2
  <2>4. Leads(<<Acquire("leaf"), Release("leaf"), Release("ptable")>>, b, a)
    BY <1>1, <1>3, <1>5, <1>9, <2>1, <2>3, Leads3
  <2>5. Leads(<<Do("sched"), Acquire("leaf"), Release("leaf"), Release("ptable")>>, c, a)
    BY <1>1, <1>3, <1>4, <1>5, <1>9, <2>4, Leads4
  <2>6. Leads(<<<<"sleep", "ptable">>, Do("sched"), Acquire("leaf"), Release("leaf"),
                Release("ptable")>>, b, a)
    BY <1>1, <1>3, <1>4, <1>5, <1>9, <2>5, Leads5
  <2>7. QED
    BY <1>1, <1>3, <1>5, <1>9, <2>6, Leads6
<1>14. QED
  BY <1>2, <1>10, <1>11, <1>12, <1>13 DEF Syscall

\* The handlers, from the first instruction to the code that was interrupted.
Handling(a) == [held |-> {}, irq |-> TRUE, known |-> TRUE, st |-> a.st, who |-> a.who]

LEMMA HandlersLead ==
  ASSUME NEW a \in Ctx, a.held = {}, ~a.irq, NEW c
  PROVE  Leads(Timer(c), Handling(a), a) /\ Leads(Device, Handling(a), a)
<1> DEFINE h == Handling(a)
<1>1. {"ptable", "ticks", "other", "leaf"} = Lock
  BY DEF Lock
<1>2. /\ h \in Ctx /\ h.held = {} /\ h.irq /\ h.known /\ h.st = a.st /\ h.who = a.who
      /\ a.st \in {"run", "none"}
  BY DEF Handling, Ctx
<1> HIDE DEF h
<1>3. Step(Do("preempt"), h, h) /\ Step(Do("iret"), h, a)
  <2>1. OfInterrupts("preempt", h, h) /\ OfInterrupts("iret", h, a)
    BY <1>2 DEF OfInterrupts
  <2>2. QED
    BY <2>1 DEF Step, Do
<1>4. /\ \A l \in Lock : Acquire(l) \in Operation /\ Release(l) \in Operation
      /\ Do("preempt") \in Operation /\ Do("iret") \in Operation
  BY <1>1, OperationsAre
<1>5. Leads(<<Do("iret")>>, h, a)
  BY <1>2, <1>3, <1>4, Leads1
<1>6. Leads(<<Do("preempt"), Do("iret")>>, h, a)
  BY <1>2, <1>3, <1>4, <1>5, Leads2
<1>7. ASSUME NEW l \in {"ticks", "other"}
      PROVE  \E b \in Ctx : /\ b.irq /\ Step(Acquire(l), h, b) /\ Step(Release(l), b, h)
                            /\ Leads(WakeupOn(l), b, b)
  <2> DEFINE b == With(h, l)
  <2>1. l \in Lock /\ l \notin h.held /\ Ordered(l, h)
    BY <1>1, <1>2 DEF Ordered
  <2>2. /\ b \in Ctx /\ b.irq = h.irq /\ b.held = h.held \cup {l} /\ b.known = h.known
        /\ b.st = h.st /\ Step(Acquire(l), h, b) /\ Step(Release(l), b, h)
    BY <1>2, <2>1, Brackets
  <2> HIDE DEF b
  <2>3. b.held = {l}
    BY <1>2, <2>2
  <2>4. "ptable" \notin b.held /\ Ordered("ptable", b) /\ b.st \in {"run", "none"}
    BY <1>2, <2>2, <2>3 DEF Ordered
  <2>5. Leads(WakeupOn(l), b, b)
    BY <1>2, <2>1, <2>2, <2>4, WakeupLeads
  <2>6. QED
    BY <1>2, <2>2, <2>5
<1>8. Leads(Timer(c), h, a)
  <2>1. PICK b \in Ctx : /\ b.irq /\ Step(Acquire("ticks"), h, b) /\ Step(Release("ticks"), b, h)
                         /\ Leads(WakeupOn("ticks"), b, b)
    BY <1>7
  <2>2. Leads(<<Acquire("ticks")>>, h, b) /\ Leads(<<Release("ticks")>>, b, h)
    BY <1>1, <1>2, <1>4, <2>1, Leads1
  <2>3. Leads(<<Acquire("ticks")>> \o WakeupOn("ticks"), h, b)
    BY <2>1, <2>2, LeadsThrough
  <2>4. Leads(<<Acquire("ticks")>> \o WakeupOn("ticks") \o <<Release("ticks")>>, h, h)
    BY <2>2, <2>3, LeadsThrough
  <2>5. Leads(<<>>, h, h)
    BY <1>2, LeadsNowhere
  <2>6. ASSUME NEW s, Leads(s, h, h)
        PROVE  Leads(s \o <<Do("preempt"), Do("iret")>>, h, a)
    BY <1>6, <2>6, LeadsThrough
  <2>7. CASE c = BootCpu
    BY <2>4, <2>6, <2>7 DEF Timer
  <2>8. CASE c # BootCpu
    BY <2>5, <2>6, <2>8 DEF Timer
  <2>9. QED
    BY <2>7, <2>8
<1>9. Leads(Device, h, a)
  <2>1. PICK b \in Ctx : /\ b.irq /\ Step(Acquire("other"), h, b) /\ Step(Release("other"), b, h)
                         /\ Leads(WakeupOn("other"), b, b)
    BY <1>7
  <2>2. Leads(<<Acquire("other")>>, h, b)
    BY <1>1, <1>2, <1>4, <2>1, Leads1
  <2>3. Leads(<<Acquire("other")>> \o WakeupOn("other"), h, b)
    BY <2>1, <2>2, LeadsThrough
  <2>4. Leads(<<Release("other"), Do("iret")>>, b, a)
    BY <1>1, <1>2, <1>4, <1>5, <2>1, Leads2
  <2>5. QED
    BY <2>3, <2>4, LeadsThrough DEF Device
<1>10. QED
  BY <1>8, <1>9 DEF h

\* scheduler(), without and with a process.
LEMMA SchedulerContexts ==
  ASSUME NEW k \in BOOLEAN
  PROVE  /\ Idling({}, k) \in Ctx /\ Idling({"ptable"}, k) \in Ctx
         /\ \A p \in Proc, s \in {"chosen", "left"} : Has(p, s, k) \in Ctx
         /\ Step(Acquire("ptable"), Idling({}, k), Idling({"ptable"}, k))
         /\ Step(Release("ptable"), Idling({"ptable"}, k), Idling({}, k))
<1>1. Idling({}, k) \in Ctx /\ Idling({"ptable"}, k) \in Ctx
  BY DEF Idling, Ctx, Lock
<1>2. \A p \in Proc, s \in {"chosen", "left"} : Has(p, s, k) \in Ctx
  BY CpuAssumption DEF Has, Ctx, Lock
<1>3. /\ Step(Acquire("ptable"), Idling({}, k), Idling({"ptable"}, k))
      /\ Step(Release("ptable"), Idling({"ptable"}, k), Idling({}, k))
  <2> DEFINE a == Idling({}, k)
  <2>1. With(a, "ptable") = Idling({"ptable"}, k)
    <3>1. {} \cup {"ptable"} = {"ptable"}
      OBVIOUS
    <3>2. QED
      BY <3>1 DEF With, Idling
  <2>2. "ptable" \in Lock /\ "ptable" \notin a.held /\ Ordered("ptable", a) /\ ~a.irq
    BY DEF Idling, Ordered, Lock
  <2>3. QED
    BY <1>1, <2>1, <2>2, Brackets
<1>4. QED
  BY <1>1, <1>2, <1>3

LEMMA RoundLeads == Leads(Round, Idling({}, FALSE), Idling({}, FALSE))
<1> DEFINE a == Idling({}, FALSE)
           b == Idling({}, TRUE)
           c == Idling({"ptable"}, TRUE)
<1>1. /\ a \in Ctx /\ b \in Ctx /\ c \in Ctx
      /\ Step(Acquire("ptable"), b, c) /\ Step(Release("ptable"), c, b)
  BY SchedulerContexts
<1>2. Step(Do("sti"), a, b) /\ Step(Do("pick"), c, a)
  <2>1. OfScheduler("sti", "", a, b) /\ OfScheduler("pick", "", c, a)
    BY DEF OfScheduler
  <2>2. QED
    BY <2>1 DEF Step, Do
<1>3. ~a.irq /\ ~b.irq /\ ~c.irq
  BY DEF Idling
<1> HIDE DEF a, b, c
<1>4. /\ Acquire("ptable") \in Operation /\ Release("ptable") \in Operation
      /\ Do("sti") \in Operation /\ Do("pick") \in Operation
  BY OperationsAre DEF Lock
<1>5. Leads(<<Do("pick")>>, c, a)
  BY <1>1, <1>2, <1>3, <1>4, Leads1
<1>6. Leads(<<Acquire("ptable"), Do("pick")>>, b, a)
  BY <1>1, <1>3, <1>4, <1>5, Leads2
<1>7. Leads(<<Release("ptable"), Acquire("ptable"), Do("pick")>>, c, a)
  BY <1>1, <1>3, <1>4, <1>6, Leads3
<1>8. Leads(<<Acquire("ptable"), Release("ptable"), Acquire("ptable"), Do("pick")>>, b, a)
  BY <1>1, <1>3, <1>4, <1>7, Leads4
<1>9. Leads(<<Do("sti"), Acquire("ptable"), Release("ptable"), Acquire("ptable"),
              Do("pick")>>, a, a)
  BY <1>1, <1>2, <1>3, <1>4, <1>8, Leads5
<1>10. QED
  BY <1>9 DEF Round, a

LEMMA RunLeads ==
  ASSUME NEW p \in Proc
  PROVE  Leads(Run(p), Has(p, "chosen", TRUE), Idling({}, FALSE))
<1> DEFINE a == Has(p, "chosen", TRUE)
           b == Has(p, "left", FALSE)
           c == Idling({"ptable"}, FALSE)
           d == Idling({}, FALSE)
<1>1. /\ a \in Ctx /\ b \in Ctx /\ c \in Ctx /\ d \in Ctx /\ Step(Release("ptable"), c, d)
  BY SchedulerContexts
<1>2. Step(<<"swtch", p>>, a, b) /\ Step(Do("idle"), b, c)
  <2>1. OfScheduler("swtch", p, a, b)
    BY DEF OfScheduler, Away
  <2>2. OfScheduler("idle", "", b, c)
    BY DEF OfScheduler, Away, Has
  <2>3. QED
    BY <2>1, <2>2 DEF Step, Do
<1>3. ~a.irq /\ ~b.irq /\ ~c.irq /\ ~d.irq
  BY DEF Idling, Has
<1>4. \A x \in {a, b} : \E y \in Ctx :
        ~y.irq /\ Step(Acquire("ticks"), x, y) /\ Step(Release("ticks"), y, x)
  <2> TAKE x \in {a, b}
  <2>1. x \in Ctx /\ x.held = {"ptable"} /\ x.st \in {"chosen", "left"} /\ ~x.irq
    <3>1. CASE x = a
      BY <1>1, <3>1 DEF Has
    <3>2. CASE x = b
      BY <1>1, <3>2 DEF Has
    <3>3. QED
      BY <3>1, <3>2
  <2>2. "ticks" \in Lock /\ "ticks" \notin x.held /\ Ordered("ticks", x)
    BY <2>1 DEF Ordered, Lock
  <2>3. QED
    BY <2>1, <2>2, Brackets
<1> HIDE DEF a, b, c, d
<1>5. /\ Acquire("ticks") \in Operation /\ Release("ticks") \in Operation
      /\ Release("ptable") \in Operation /\ <<"swtch", p>> \in Operation
      /\ Do("idle") \in Operation
  BY OperationsAre DEF Lock
<1>6. PICK t \in Ctx : ~t.irq /\ Step(Acquire("ticks"), a, t) /\ Step(Release("ticks"), t, a)
  BY <1>4
<1>7. PICK u \in Ctx : ~u.irq /\ Step(Acquire("ticks"), b, u) /\ Step(Release("ticks"), u, b)
  BY <1>4
<1>8. Leads(<<Release("ptable")>>, c, d)
  BY <1>1, <1>3, <1>5, Leads1
<1>9. Leads(<<Do("idle"), Release("ptable")>>, b, d)
  BY <1>1, <1>2, <1>3, <1>5, <1>8, Leads2
<1>10. Leads(<<Release("ticks"), Do("idle"), Release("ptable")>>, u, d)
  BY <1>1, <1>3, <1>5, <1>7, <1>9, Leads3
<1>11. Leads(<<Acquire("ticks"), Release("ticks"), Do("idle"), Release("ptable")>>, b, d)
  BY <1>1, <1>3, <1>5, <1>7, <1>10, Leads4
<1>12. Leads(<<<<"swtch", p>>, Acquire("ticks"), Release("ticks"), Do("idle"),
               Release("ptable")>>, a, d)
  BY <1>1, <1>2, <1>3, <1>5, <1>11, Leads5
<1>13. Leads(<<Release("ticks"), <<"swtch", p>>, Acquire("ticks"), Release("ticks"),
               Do("idle"), Release("ptable")>>, t, d)
  BY <1>1, <1>3, <1>5, <1>6, <1>12, Leads6
<1>14. Leads(<<Acquire("ticks"), Release("ticks"), <<"swtch", p>>, Acquire("ticks"),
               Release("ticks"), Do("idle"), Release("ptable")>>, a, d)
  BY <1>1, <1>3, <1>5, <1>6, <1>13, Leads7
<1>15. QED
  BY <1>14 DEF Run, a, d

-----------------------------------------------------------------------------
(* What a step of one CPU leaves alone. *)

\* A CPU runs its own scheduler() or the process it has.
LEMMA OneThread ==
  ASSUME KernelInv
  PROVE  /\ \A c \in Cpu : cur[c] = c \/ (cur[c] \in Proc /\ cur[c] = proc[c])
         /\ \A c, d \in Cpu : cur[c] = cur[d] => c = d
         /\ \A c, d \in Cpu : c # d => cur[c] # d
<1>1. ASSUME NEW c \in Cpu
      PROVE  cur[c] = c \/ (cur[c] \in Proc /\ cur[c] = proc[c])
  <2>1. PICK a \in Ctx : Fits(c, a)
    BY DEF KernelInv, OnCpu
  <2>2. CASE a.st \in {"run", "stop"}
    BY <2>1, <2>2 DEF Fits, Ctx
  <2>3. CASE a.st \notin {"run", "stop"}
    BY <2>1, <2>3 DEF Fits
  <2>4. QED
    BY <2>2, <2>3
<1>2. \A c, d \in Cpu : proc[c] = proc[d] /\ proc[c] # Nobody => c = d
  BY DEF KernelInv, LocksTyped
<1>3. QED
  BY <1>1, <1>2, CpuAssumption

\* The CPUs besides c keep their locks, their interrupts and their process.
Undisturbed(c) ==
  \A d \in Cpu \ {c} :
    /\ proc'[d] = proc[d] /\ ncli'[d] = ncli[d]
    /\ d \in on' <=> d \in on
    /\ d \in intena' <=> d \in intena
    /\ \A l \in Lock : cpu'[l] = d <=> cpu[l] = d
    /\ proc[d] \in Proc => (state'[proc[d]] = "RUNNING" <=> state[proc[d]] = "RUNNING")

LEMMA OthersStay ==
  ASSUME KernelInv, NEW c \in Cpu, NEW d \in Cpu, d # c, Undisturbed(c),
         cur'[d] = cur[d], todo'[cur[d]] = todo[cur[d]]
  PROVE  OnCpu(d)'
<1>1. PICK a \in Ctx : Fits(d, a) /\ Leads(Ahead(cur[d]), a, End(cur[d]))
  BY DEF KernelInv, OnCpu
<1>2. (Spins(cur[d])' <=> Spins(cur[d])) /\ Ahead(cur[d])' = Ahead(cur[d])
  BY DEF Spins, Ahead
<1>3. Fits(d, a)'
  <2>1. {l \in Lock : cpu'[l] = d} = {l \in Lock : cpu[l] = d}
    BY DEF Undisturbed
  <2>2. (a.held = {l \in Lock : cpu[l] = d})'
    BY <1>1, <2>1 DEF Fits
  <2>3. (ncli[d] = Cardinality(a.held) + (IF Spins(cur[d]) THEN 1 ELSE 0))'
    BY <1>1, <1>2 DEF Fits, Undisturbed
  <2>4. (IF a.held = {} /\ ~Spins(cur[d])
         THEN a.known => (d \in on <=> ~a.irq)
         ELSE d \notin on /\ (a.known => (d \in intena <=> ~a.irq)))'
    BY <1>1, <1>2 DEF Fits, Undisturbed
  <2>5. (a.who = proc[d] /\ cur[d] = IF a.st \in {"run", "stop"} THEN a.who ELSE d)'
    BY <1>1 DEF Fits, Undisturbed
  <2>6. (a.who \in Proc => (state[a.who] = "RUNNING" <=> a.st \in {"run", "chosen"}))'
    BY <1>1 DEF Fits, Undisturbed
  <2>7. QED
    BY <2>2, <2>3, <2>4, <2>5, <2>6 DEF Fits
<1>4. QED
  BY <1>1, <1>2, <1>3 DEF OnCpu

\* A step of the thread on c that does not switch to another.
LEMMA ThreadGoesOn ==
  ASSUME KernelInv, NEW c \in Cpu, LocksTyped', Undisturbed(c), cur' = cur,
         \A t \in Thread : t # cur[c] => todo'[t] = todo[t],
         OnCpu(c)'
  PROVE  KernelInv'
<1>1. ASSUME NEW d \in Cpu
      PROVE  OnCpu(d)' /\ SchedulerAway(d)'
  <2>1. d # c => OnCpu(d)'
    BY OneThread, OthersStay DEF Thread
  <2>2. cur[d] # d => d # cur[c]
    BY OneThread
  <2>3. cur[d] # d => todo'[d] = todo[d]
    BY <2>2 DEF Thread
  <2>4. SchedulerAway(d)'
    BY <2>3 DEF KernelInv, SchedulerAway, Spins
  <2>5. QED
    BY <2>1, <2>4
<1>2. ASSUME NEW p \in Proc
      PROVE  ProcessAway(p)'
  <2>1. (\A d \in Cpu : cur[d] # p) => todo'[p] = todo[p]
    BY DEF Thread
  <2>2. QED
    BY <2>1 DEF KernelInv, ProcessAway, Spins
<1>3. QED
  BY <1>1, <1>2 DEF KernelInv

\* What the thread on c may do next.
LEMMA NextOperation ==
  ASSUME KernelInv, NEW c \in Cpu, todo[cur[c]] # <<>>, ~Spins(cur[c])
  PROVE  \E a, b \in Ctx : /\ Fits(c, a) /\ Step(todo[cur[c]][1], a, b)
                           /\ Leads(todo[cur[c]], a, End(cur[c]))
                           /\ Leads(Rest(c), b, End(cur[c]))
<1>1. PICK a \in Ctx : Fits(c, a) /\ Leads(todo[cur[c]], a, End(cur[c]))
  BY DEF KernelInv, OnCpu, Ahead
<1>2. PICK b \in Ctx : Step(todo[cur[c]][1], a, b) /\ Leads(Tail(todo[cur[c]]), b, End(cur[c]))
  BY <1>1, LeadsOn
<1>3. QED
  BY <1>1, <1>2 DEF Rest

LEMMA PlansAre ==
  ASSUME NEW s \in Seq(Operation)
  PROVE  s \in Todo /\ (s # <<>> => s[1][1] # "spin")
<1>1. s \in Todo
  BY SeqMonotonic DEF Operation, Todo
<1>2. ASSUME s # <<>>
      PROVE  s[1][1] # "spin"
  <2>1. 1 \in 1 .. Len(s)
    BY <1>2, EmptySeq
  <2>2. s[1] \in Operation
    BY <2>1, ElementOfSeq
  <2>3. QED
    BY <2>2 DEF Operation
<1>3. QED
  BY <1>1, <1>2

\* The thread on c goes on with s.
LEMMA GoesOnWith ==
  ASSUME KernelInv, NEW c \in Cpu, NEW s \in Seq(Operation), Then(c, s), cur' = cur
  PROVE  /\ todo' \in [Thread -> Todo] /\ todo'[cur[c]] = s
         /\ \A t \in Thread : t # cur[c] => todo'[t] = todo[t]
         /\ ~Spins(cur[c])' /\ Ahead(cur[c])' = s
<1>1. cur[c] \in Thread /\ todo \in [Thread -> Todo]
  BY OneThread DEF KernelInv, LocksTyped, Thread
<1>2. s \in Todo /\ (s # <<>> => s[1][1] # "spin")
  BY PlansAre
<1>3. /\ todo' \in [Thread -> Todo] /\ todo'[cur[c]] = s
      /\ \A t \in Thread : t # cur[c] => todo'[t] = todo[t]
  BY <1>1, <1>2 DEF Then
<1>4. ~Spins(cur[c])' /\ Ahead(cur[c])' = s
  BY <1>2, <1>3 DEF Spins, Ahead
<1>5. QED
  BY <1>3, <1>4

LEMMA TypesHere ==
  ASSUME KernelInv
  PROVE  /\ cur \in [Cpu -> Cpu \cup Proc] /\ proc \in [Cpu -> Proc \cup {Nobody}]
         /\ state \in [Proc -> {"RUNNABLE", "RUNNING", "SLEEPING"}]
         /\ chan \in [Proc -> Lock \cup {""}]
         /\ on \subseteq Cpu /\ intena \subseteq Cpu /\ ncli \in [Cpu -> 0 .. 3]
         /\ locked \subseteq Lock /\ cpu \in [Lock -> Cpu \cup {Nobody}]
         /\ ~panicked /\ todo \in [Thread -> Todo]
         /\ \A l \in Lock : l \in locked <=> cpu[l] # Nobody
         /\ \A c, d \in Cpu : proc[c] = proc[d] /\ proc[c] # Nobody => c = d
BY DEF KernelInv, LocksTyped, TypeOK

\* From a to b with the same locks, and what that does to the processes.
Moves(c, a, b) ==
  /\ b.held = a.held /\ b.irq = a.irq /\ (b.known => a.known)
  /\ b.who = proc'[c] /\ cur[c] = IF b.st \in {"run", "stop"} THEN b.who ELSE c
  /\ b.who \in Proc => (state'[b.who] = "RUNNING" <=> b.st \in {"run", "chosen"})
  /\ proc' \in [Cpu -> Proc \cup {Nobody}]
  /\ \A d, e \in Cpu : proc'[d] = proc'[e] /\ proc'[d] # Nobody => d = e
  /\ state' \in [Proc -> {"RUNNABLE", "RUNNING", "SLEEPING"}]
  /\ chan' \in [Proc -> Lock \cup {""}]
  /\ \A d \in Cpu \ {c} :
       /\ proc'[d] = proc[d]
       /\ proc[d] \in Proc => (state'[proc[d]] = "RUNNING" <=> state[proc[d]] = "RUNNING")

\* A step that leaves the locks, the interrupts and the threads on the CPUs alone.
LEMMA StepInPlace ==
  ASSUME KernelInv, NEW c \in Cpu, NEW a \in Ctx, NEW b \in Ctx, NEW s,
         Fits(c, a), ~Spins(cur[c]), Leads(s, b, End(cur[c])), Then(c, s),
         UNCHANGED <<cur, intr, locks, panicked>>, Moves(c, a, b)
  PROVE  KernelInv'
<1>1. s \in Seq(Operation) /\ UNCHANGED <<cur, on, ncli, intena, locked, cpu, panicked>>
  BY LeadsThere DEF intr, locks
<1>2. /\ todo' \in [Thread -> Todo] /\ ~Spins(cur[c])' /\ Ahead(cur[c])' = s
      /\ \A t \in Thread : t # cur[c] => todo'[t] = todo[t]
  BY <1>1, GoesOnWith
<1>3. LocksTyped'
  <2>1. TypeOK'
    BY <1>1, TypesHere DEF TypeOK, Moves
  <2>2. \A d, e \in Cpu : proc'[d] = proc'[e] /\ proc'[d] # Nobody => d = e
    BY DEF Moves
  <2>3. \A l \in Lock : l \in locked' <=> cpu'[l] # Nobody
    BY <1>1, TypesHere
  <2>4. ~panicked'
    <3>1. panicked' = panicked
      BY <1>1
    <3>2. ~panicked
      BY TypesHere
    <3>3. QED
      BY <3>1, <3>2
  <2>5. QED
    BY <1>2, <2>1, <2>2, <2>3, <2>4 DEF LocksTyped
<1>4. Undisturbed(c)
  BY <1>1 DEF Undisturbed, Moves
<1>5. Fits(c, b)'
  BY <1>1, <1>2 DEF Fits, Moves
<1>6. OnCpu(c)'
  BY <1>1, <1>2, <1>5 DEF OnCpu
<1>7. QED
  BY <1>1, <1>2, <1>3, <1>4, <1>6, ThreadGoesOn

\* Processes and their states do not change.
LEMMA StaysInPlace ==
  ASSUME KernelInv, NEW c \in Cpu, NEW a \in Ctx, NEW b \in Ctx,
         Fits(c, a), b.held = a.held, b.irq = a.irq, b.known => a.known, b.st = a.st,
         b.who = a.who, UNCHANGED <<state, chan, proc>>
  PROVE  Moves(c, a, b)
BY TypesHere DEF Moves, Fits

-----------------------------------------------------------------------------
(* The steps that leave the locks and the interrupts alone. *)

LEMMA HeadIs ==
  ASSUME KernelInv, NEW c \in Cpu, NEW op, At(c, op), op # "spin"
  PROVE  /\ todo[cur[c]] # <<>> /\ ~Spins(cur[c]) /\ todo[cur[c]][1][1] = op
         /\ todo[cur[c]][1][2] = Arg(c)
BY DEF At, Spins, Arg

LEMMA LoopKeeps ==
  ASSUME KernelInv, NEW c \in Cpu, Loop(c)
  PROVE  KernelInv'
<1>1. At(c, "loop") /\ UNCHANGED <<cur, state, chan, proc, intr, locks, panicked>>
  BY DEF Loop
<1>2. /\ todo[cur[c]] # <<>> /\ ~Spins(cur[c]) /\ todo[cur[c]][1][1] = "loop"
      /\ todo[cur[c]][1][2] = Arg(c)
  BY <1>1, HeadIs
<1>3. PICK a, b \in Ctx : /\ Fits(c, a) /\ Step(todo[cur[c]][1], a, b)
                          /\ Leads(todo[cur[c]], a, End(cur[c]))
                          /\ Leads(Rest(c), b, End(cur[c]))
  BY <1>2, NextOperation
<1>4. Arg(c) \in {"ticks", "other"} /\ Running(a, {Arg(c)}) /\ Stays(a, b)
  BY <1>2, <1>3 DEF Step, OfLocks, OfProcesses, OfScheduler, OfInterrupts
<1>5. /\ a.st = "run" /\ a.held = {Arg(c)} /\ a.known /\ a.who \in Proc /\ a.irq \in BOOLEAN
      /\ b.held = a.held /\ b.st = a.st /\ b.irq = a.irq /\ b.who = a.who
  BY <1>4 DEF Running, Stays, Becomes, Ctx
<1>6. Leads(SleepOn(Arg(c)) \o todo[cur[c]], a, End(cur[c]))
  <2>1. a = In(a.who, {Arg(c)}, a.irq, "run")
    BY <1>5 DEF In, Ctx
  <2>2. Leads(SleepOn(Arg(c)), a, a)
    BY <1>4, <1>5, <2>1, SleepLeads
  <2>3. QED
    BY <1>3, <2>2, LeadsThrough
<1>7. Moves(c, a, b) /\ Moves(c, a, a)
  <2>1. UNCHANGED <<state, chan, proc>> /\ (b.known => a.known)
    BY <1>1, <1>5
  <2>2. QED
    BY <1>3, <1>5, <2>1, StaysInPlace
<1>8. CASE Then(c, Rest(c))
  BY <1>1, <1>2, <1>3, <1>7, <1>8, StepInPlace
<1>9. CASE Then(c, SleepOn(Arg(c)) \o todo[cur[c]])
  BY <1>1, <1>2, <1>3, <1>6, <1>7, <1>9, StepInPlace
<1>10. QED
  BY <1>8, <1>9 DEF Loop

\* sleep() and yield(): the state changes before the CPU is left.
LEMMA SleepKeeps ==
  ASSUME KernelInv, NEW c \in Cpu, Sleep(c) \/ GiveUp(c)
  PROVE  KernelInv'
<1>1. PICK op \in {"sleep", "yield"} : At(c, op)
  BY DEF Sleep, GiveUp
<1>2. /\ UNCHANGED <<cur, proc, intr, locks, panicked>> /\ Then(c, Rest(c))
      /\ \E s \in {"SLEEPING", "RUNNABLE"} : state' = [state EXCEPT ![cur[c]] = s]
      /\ chan' = chan \/ (op = "sleep" /\ chan' = [chan EXCEPT ![cur[c]] = Arg(c)])
  BY <1>1 DEF Sleep, GiveUp, At
<1>3. /\ todo[cur[c]] # <<>> /\ ~Spins(cur[c]) /\ todo[cur[c]][1][1] = op
      /\ todo[cur[c]][1][2] = Arg(c)
  BY <1>1, HeadIs
<1>4. PICK a, b \in Ctx : /\ Fits(c, a) /\ Step(todo[cur[c]][1], a, b)
                          /\ Leads(todo[cur[c]], a, End(cur[c]))
                          /\ Leads(Rest(c), b, End(cur[c]))
  BY <1>3, NextOperation
<1>5. /\ Running(a, {"ptable"}) /\ Becomes(a, b, a.held, "stop")
      /\ op = "sleep" => Arg(c) \in Lock
  BY <1>1, <1>3, <1>4 DEF Step, OfLocks, OfProcesses, OfScheduler, OfInterrupts
<1>6. /\ a.st = "run" /\ a.held = {"ptable"} /\ a.who \in Proc /\ b.held = a.held
      /\ b.st = "stop" /\ b.irq = a.irq /\ b.who = a.who /\ (b.known => a.known)
  BY <1>5 DEF Running, Becomes, Ctx
<1>7. cur[c] = a.who /\ proc[c] = a.who
  BY <1>4, <1>6 DEF Fits
<1>8. Moves(c, a, b)
  <2>1. /\ state' \in [Proc -> {"RUNNABLE", "RUNNING", "SLEEPING"}]
        /\ state'[a.who] # "RUNNING"
        /\ \A q \in Proc : q # a.who => state'[q] = state[q]
    <3>1. PICK s \in {"SLEEPING", "RUNNABLE"} : state' = [state EXCEPT ![cur[c]] = s]
      BY <1>2
    <3>2. QED
      BY <1>6, <1>7, <3>1, TypesHere
  <2>2. chan' \in [Proc -> Lock \cup {""}]
    BY <1>2, <1>5, <1>6, <1>7, TypesHere
  <2>3. \A d \in Cpu \ {c} : proc[d] \in Proc => proc[d] # a.who
    BY <1>7, TypesHere, CpuAssumption
  <2>4. QED
    BY <1>2, <1>6, <1>7, <2>1, <2>2, <2>3, TypesHere DEF Moves
<1>9. QED
  BY <1>2, <1>3, <1>4, <1>8, StepInPlace

\* wakeup() makes nobody run.
LEMMA WakeupKeeps ==
  ASSUME KernelInv, NEW c \in Cpu, Wakeup(c)
  PROVE  KernelInv'
<1>1. /\ At(c, "wakeup") /\ Then(c, Rest(c))
      /\ UNCHANGED <<cur, chan, proc, intr, locks, panicked>>
      /\ state' = [p \in Proc |->
           IF state[p] = "SLEEPING" /\ chan[p] \in {Arg(c), "ptable"} THEN "RUNNABLE" ELSE state[p]]
  BY DEF Wakeup
<1>2. /\ todo[cur[c]] # <<>> /\ ~Spins(cur[c]) /\ todo[cur[c]][1][1] = "wakeup"
      /\ todo[cur[c]][1][2] = Arg(c)
  BY <1>1, HeadIs
<1>3. PICK a, b \in Ctx : /\ Fits(c, a) /\ Step(todo[cur[c]][1], a, b)
                          /\ Leads(todo[cur[c]], a, End(cur[c]))
                          /\ Leads(Rest(c), b, End(cur[c]))
  BY <1>2, NextOperation
<1>4. Stays(a, b)
  BY <1>2, <1>3 DEF Step, OfLocks, OfProcesses, OfScheduler, OfInterrupts
<1>5. /\ b.held = a.held /\ b.st = a.st /\ b.irq = a.irq /\ b.who = a.who
      /\ b.known => a.known
  BY <1>4 DEF Stays, Becomes
<1>6. Moves(c, a, b)
  <2>1. /\ state' \in [Proc -> {"RUNNABLE", "RUNNING", "SLEEPING"}]
        /\ \A q \in Proc : state'[q] = "RUNNING" <=> state[q] = "RUNNING"
    BY <1>1, TypesHere
  <2>2. /\ a.who = proc[c] /\ cur[c] = IF a.st \in {"run", "stop"} THEN a.who ELSE c
        /\ a.who \in Proc => (state[a.who] = "RUNNING" <=> a.st \in {"run", "chosen"})
    BY <1>3 DEF Fits
  <2>3. QED
    BY <1>1, <1>5, <2>1, <2>2, TypesHere DEF Moves
<1>7. QED
  BY <1>1, <1>2, <1>3, <1>6, StepInPlace

\* scheduler() chooses a process that no CPU has: who is RUNNABLE and still on a CPU
\* holds ptable.lock there.
LEMMA PickKeeps ==
  ASSUME KernelInv, NEW c \in Cpu, Pick(c)
  PROVE  KernelInv'
<1>1. At(c, "pick") /\ UNCHANGED <<cur, chan, intr, locks, panicked>>
  BY DEF Pick
<1>2. /\ todo[cur[c]] # <<>> /\ ~Spins(cur[c]) /\ todo[cur[c]][1][1] = "pick"
      /\ todo[cur[c]][1][2] = Arg(c)
  BY <1>1, HeadIs
<1>3. PICK a, b \in Ctx : /\ Fits(c, a) /\ Step(todo[cur[c]][1], a, b)
                          /\ Leads(todo[cur[c]], a, End(cur[c]))
                          /\ Leads(Rest(c), b, End(cur[c]))
  BY <1>2, NextOperation
<1>4. a = Idling({"ptable"}, TRUE) /\ b = Idling({}, FALSE)
  BY <1>2, <1>3 DEF Step, OfLocks, OfProcesses, OfScheduler, OfInterrupts
<1>5. /\ a.held = {"ptable"} /\ a.irq = FALSE /\ a.known /\ a.st = "none" /\ a.who = Nobody
  BY <1>4 DEF Idling
<1>6. /\ cur[c] = c /\ proc[c] = Nobody /\ cpu["ptable"] = c
      /\ End(cur[c]) = Idling({}, FALSE)
  <2>1. cur[c] = c /\ proc[c] = Nobody /\ "ptable" \in {l \in Lock : cpu[l] = c}
    BY <1>3, <1>5 DEF Fits
  <2>2. QED
    BY <2>1, CpuAssumption DEF End
<1>7. ASSUME NEW p \in Proc, state[p] = "RUNNABLE", state' = [state EXCEPT ![p] = "RUNNING"],
             proc' = [proc EXCEPT ![c] = p], Then(c, Run(p))
      PROVE  KernelInv'
  <2> DEFINE e == Has(p, "chosen", TRUE)
  <2>1. /\ e \in Ctx /\ e.held = {"ptable"} /\ e.irq = FALSE /\ e.known /\ e.st = "chosen"
        /\ e.who = p
    BY SchedulerContexts DEF Has
  <2>2. Leads(Run(p), e, End(cur[c]))
    BY <1>6, RunLeads
  <2> HIDE DEF e
  <2>3. ASSUME NEW d \in Cpu, d # c
        PROVE  proc[d] # p
    <3> SUFFICES ASSUME proc[d] = p PROVE FALSE
      OBVIOUS
    <3>1. PICK f \in Ctx : Fits(d, f)
      BY DEF KernelInv, OnCpu
    <3>2. f.who = p /\ f.st \notin {"run", "chosen"} /\ f.st # "none"
      BY <1>7, <3>1, CpuAssumption DEF Fits, Ctx
    <3>3. "ptable" \in f.held
      BY <3>2 DEF Ctx
    <3>4. cpu["ptable"] = d
      BY <3>1, <3>3 DEF Fits
    <3>5. QED
      BY <1>6, <2>3, <3>4
  <2>4. Moves(c, a, e)
    <3>1. /\ state' \in [Proc -> {"RUNNABLE", "RUNNING", "SLEEPING"}] /\ state'[p] = "RUNNING"
          /\ \A q \in Proc : q # p => state'[q] = state[q]
      BY <1>7, TypesHere
    <3>2. /\ proc' \in [Cpu -> Proc \cup {Nobody}] /\ proc'[c] = p
          /\ \A d \in Cpu : d # c => proc'[d] = proc[d]
      BY <1>7, TypesHere
    <3>3. \A d, f \in Cpu : proc'[d] = proc'[f] /\ proc'[d] # Nobody => d = f
      BY <2>3, <3>2, TypesHere
    <3>4. chan' \in [Proc -> Lock \cup {""}]
      BY <1>1, TypesHere
    <3>5. QED
      BY <1>5, <1>6, <2>1, <2>3, <3>1, <3>2, <3>3, <3>4 DEF Moves
  <2>5. QED
    BY <1>1, <1>2, <1>3, <1>7, <2>1, <2>2, <2>4, StepInPlace
<1>8. ASSUME Then(c, <<Release("ptable")>>), UNCHANGED <<state, proc>>
      PROVE  KernelInv'
  <2>1. Step(Release("ptable"), a, Idling({}, FALSE))
    <3>1. OfLocks("release", "ptable", a, Idling({}, FALSE))
      BY <1>4 DEF OfLocks, Becomes, Idling
    <3>2. QED
      BY <3>1 DEF Step, Release
  <2>2. Release("ptable") \in Operation
    BY OperationsAre DEF Lock
  <2>3. ~(b.irq)
    BY <1>4 DEF Idling
  <2>4. Leads(<<Release("ptable")>>, a, b)
    BY <1>4, <2>1, <2>2, <2>3, Leads1
  <2>5. Leads(<<Release("ptable")>>, a, End(cur[c]))
    BY <1>4, <1>6, <2>4
  <2>6. Moves(c, a, a)
    BY <1>1, <1>3, <1>8, StaysInPlace
  <2>7. QED
    BY <1>1, <1>2, <1>3, <1>8, <2>5, <2>6, StepInPlace
<1>9. QED
  BY <1>7, <1>8 DEF Pick

LEMMA IdleKeeps ==
  ASSUME KernelInv, NEW c \in Cpu, Idle(c)
  PROVE  KernelInv'
<1>1. /\ At(c, "idle") /\ Then(c, Rest(c)) /\ proc' = [proc EXCEPT ![c] = Nobody]
      /\ UNCHANGED <<cur, state, chan, intr, locks, panicked>>
  BY DEF Idle
<1>2. /\ todo[cur[c]] # <<>> /\ ~Spins(cur[c]) /\ todo[cur[c]][1][1] = "idle"
      /\ todo[cur[c]][1][2] = Arg(c)
  BY <1>1, HeadIs
<1>3. PICK a, b \in Ctx : /\ Fits(c, a) /\ Step(todo[cur[c]][1], a, b)
                          /\ Leads(todo[cur[c]], a, End(cur[c]))
                          /\ Leads(Rest(c), b, End(cur[c]))
  BY <1>2, NextOperation
<1>4. a.who \in Proc /\ a = Away(a.who) /\ b = Idling({"ptable"}, FALSE)
  BY <1>2, <1>3 DEF Step, OfLocks, OfProcesses, OfScheduler, OfInterrupts
<1>5. /\ a.held = {"ptable"} /\ a.irq = FALSE /\ a.st = "left"
      /\ b.held = {"ptable"} /\ b.irq = FALSE /\ ~b.known /\ b.st = "none" /\ b.who = Nobody
  BY <1>4 DEF Away, Has, Idling
<1>6. cur[c] = c
  BY <1>3, <1>5 DEF Fits
<1>7. Moves(c, a, b)
  <2>1. /\ proc' \in [Cpu -> Proc \cup {Nobody}] /\ proc'[c] = Nobody
        /\ \A d \in Cpu : d # c => proc'[d] = proc[d]
    BY <1>1, TypesHere
  <2>2. \A d, e \in Cpu : proc'[d] = proc'[e] /\ proc'[d] # Nobody => d = e
    BY <2>1, TypesHere
  <2>3. state' = state /\ chan' = chan
    BY <1>1
  <2>4. QED
    BY <1>5, <1>6, <2>1, <2>2, <2>3, TypesHere, CpuAssumption DEF Moves
<1>8. QED
  BY <1>1, <1>2, <1>3, <1>7, StepInPlace

\* A thread that has nothing ahead.
LEMMA AtEnd ==
  ASSUME KernelInv, NEW c \in Cpu, todo[cur[c]] = <<>>
  PROVE  \E a \in Ctx : Fits(c, a) /\ a = End(cur[c]) /\ ~Spins(cur[c])
<1>1. ~Spins(cur[c])
  BY DEF Spins
<1>2. PICK a \in Ctx : Fits(c, a) /\ Leads(todo[cur[c]], a, End(cur[c]))
  BY <1>1 DEF KernelInv, OnCpu, Ahead
<1>3. a = End(cur[c])
  BY <1>2, LeadsNowhere
<1>4. QED
  BY <1>1, <1>2, <1>3

LEMMA RestartKeeps ==
  ASSUME KernelInv, NEW c \in Cpu, SchedulerLoops(c) \/ SystemCall(c)
  PROVE  KernelInv'
<1>1. todo[cur[c]] = <<>> /\ UNCHANGED <<cur, state, chan, proc, intr, locks, panicked>>
  BY DEF SchedulerLoops, SystemCall
<1>2. PICK a \in Ctx : Fits(c, a) /\ a = End(cur[c]) /\ ~Spins(cur[c])
  BY <1>1, AtEnd
<1>3. Moves(c, a, a)
  BY <1>1, <1>2, StaysInPlace
<1>4. \E s : Then(c, s) /\ Leads(s, a, a)
  <2>1. CASE SchedulerLoops(c)
    <3>1. Then(c, Round) /\ cur[c] = c
      BY <2>1 DEF SchedulerLoops
    <3>2. a = Idling({}, FALSE)
      BY <1>2, <3>1, CpuAssumption DEF End
    <3>3. QED
      BY <3>1, <3>2, RoundLeads
  <2>2. CASE SystemCall(c)
    <3>1. PICK s \in Syscall : Then(c, s)
      BY <2>2 DEF SystemCall
    <3>2. cur[c] \in Proc
      BY <2>2 DEF SystemCall
    <3>3. QED
      BY <1>2, <3>1, <3>2, SyscallLeads
  <2>3. QED
    BY <2>1, <2>2
<1>5. QED
  BY <1>1, <1>2, <1>3, <1>4, StepInPlace

\* Only a process is preempted; scheduler() has none when its interrupts are on.
LEMMA PreemptKeeps ==
  ASSUME KernelInv, NEW c \in Cpu, Preempt(c)
  PROVE  KernelInv'
<1>1. At(c, "preempt") /\ UNCHANGED <<cur, state, chan, proc, intr, locks, panicked>>
  BY DEF Preempt
<1>2. /\ todo[cur[c]] # <<>> /\ ~Spins(cur[c]) /\ todo[cur[c]][1][1] = "preempt"
      /\ todo[cur[c]][1][2] = Arg(c)
  BY <1>1, HeadIs
<1>3. PICK a, b \in Ctx : /\ Fits(c, a) /\ Step(todo[cur[c]][1], a, b)
                          /\ Leads(todo[cur[c]], a, End(cur[c]))
                          /\ Leads(Rest(c), b, End(cur[c]))
  BY <1>2, NextOperation
<1>4. OfInterrupts("preempt", a, b)
  BY <1>2, <1>3 DEF Step, OfLocks, OfProcesses, OfScheduler, OfInterrupts
<1>5. /\ a.held = {} /\ a.irq = TRUE /\ a.known = TRUE /\ b.held = {} /\ b.irq = TRUE
      /\ b.known = TRUE /\ b.st = a.st /\ b.who = a.who /\ a.st \in {"run", "none"}
  BY <1>4 DEF OfInterrupts, Ctx
<1>6. Moves(c, a, b)
  BY <1>1, <1>3, <1>5, StaysInPlace
<1>7. CASE proc[c] # Nobody /\ state[proc[c]] = "RUNNING"
  <2>1. a.who = proc[c] /\ a.who \in Proc /\ a.st = "run"
    BY <1>3, <1>5, <1>7, TypesHere DEF Fits, Ctx
  <2>2. b = In(a.who, {}, TRUE, "run")
    BY <1>5, <2>1 DEF Ctx, In
  <2>3. Leads(Yield, b, b)
    BY <2>1, <2>2, YieldLeads
  <2>4. Leads(Yield \o Rest(c), b, End(cur[c]))
    BY <1>3, <2>3, LeadsThrough
  <2>5. Then(c, Yield \o Rest(c))
    BY <1>7 DEF Preempt
  <2>6. QED
    BY <1>1, <1>2, <1>3, <1>6, <2>4, <2>5, StepInPlace
<1>8. CASE ~(proc[c] # Nobody /\ state[proc[c]] = "RUNNING")
  <2>1. Then(c, Rest(c))
    BY <1>8 DEF Preempt
  <2>2. QED
    BY <1>1, <1>2, <1>3, <1>6, <2>1, StepInPlace
<1>9. QED
  BY <1>7, <1>8

-----------------------------------------------------------------------------
(* Locks and interrupts. *)

\* A step of the thread on c that changes the locks or the interrupts of c.
LEMMA StepOfLocks ==
  ASSUME KernelInv, NEW c \in Cpu, NEW b \in Ctx, NEW s,
         Leads(s, b, End(cur[c])), Then(c, s), UNCHANGED <<cur, state, chan, proc, panicked>>,
         on' \subseteq Cpu, intena' \subseteq Cpu, ncli' \in [Cpu -> 0 .. 3],
         locked' \subseteq Lock, cpu' \in [Lock -> Cpu \cup {Nobody}],
         \A l \in Lock : l \in locked' <=> cpu'[l] # Nobody,
         Undisturbed(c), ~Spins(cur[c])' => Fits(c, b)'
  PROVE  KernelInv'
<1>1. s \in Seq(Operation) /\ UNCHANGED <<cur, state, chan, proc>>
  BY LeadsThere
<1>2. /\ todo' \in [Thread -> Todo] /\ ~Spins(cur[c])' /\ Ahead(cur[c])' = s
      /\ \A t \in Thread : t # cur[c] => todo'[t] = todo[t]
  BY <1>1, GoesOnWith
<1>3. LocksTyped'
  <2>1. TypeOK'
    BY <1>1, TypesHere DEF TypeOK
  <2>2. \A d, e \in Cpu : proc'[d] = proc'[e] /\ proc'[d] # Nobody => d = e
    BY <1>1, TypesHere
  <2>3. ~panicked'
    <3>1. panicked' = panicked
      OBVIOUS
    <3>2. ~panicked
      BY TypesHere
    <3>3. QED
      BY <3>1, <3>2
  <2>4. QED
    BY <1>2, <2>1, <2>2, <2>3 DEF LocksTyped
<1>4. OnCpu(c)'
  BY <1>1, <1>2 DEF OnCpu
<1>5. QED
  BY <1>1, <1>2, <1>3, <1>4, ThreadGoesOn

LEMMA StiKeeps ==
  ASSUME KernelInv, NEW c \in Cpu, Sti(c)
  PROVE  KernelInv'
<1>1. /\ At(c, "sti") /\ Then(c, Rest(c)) /\ on' = on \cup {c}
      /\ UNCHANGED <<cur, state, chan, proc, ncli, intena, locked, cpu, panicked>>
  BY DEF Sti, locks
<1>2. /\ todo[cur[c]] # <<>> /\ ~Spins(cur[c]) /\ todo[cur[c]][1][1] = "sti"
      /\ todo[cur[c]][1][2] = Arg(c)
  BY <1>1, HeadIs
<1>3. PICK a, b \in Ctx : /\ Fits(c, a) /\ Step(todo[cur[c]][1], a, b)
                          /\ Leads(todo[cur[c]], a, End(cur[c]))
                          /\ Leads(Rest(c), b, End(cur[c]))
  BY <1>2, NextOperation
<1>4. a \in {Idling({}, TRUE), Idling({}, FALSE)} /\ b = Idling({}, TRUE)
  BY <1>2, <1>3 DEF Step, OfLocks, OfProcesses, OfScheduler, OfInterrupts
<1>5. /\ a.held = {} /\ a.irq = FALSE /\ a.st = "none" /\ a.who = Nobody
      /\ b.held = {} /\ b.irq = FALSE /\ b.known /\ b.st = "none" /\ b.who = Nobody
  BY <1>4 DEF Idling
<1>6. ~Spins(cur[c])' => Fits(c, b)'
  BY <1>1, <1>2, <1>3, <1>5, TypesHere, CpuAssumption DEF Fits
<1>7. Undisturbed(c)
  BY <1>1 DEF Undisturbed
<1>8. QED
  BY <1>1, <1>3, <1>6, <1>7, TypesHere, StepOfLocks

LEMMA IretKeeps ==
  ASSUME KernelInv, NEW c \in Cpu, Iret(c)
  PROVE  KernelInv'
<1>1. /\ At(c, "iret") /\ Then(c, Rest(c)) /\ on' = on \cup {c}
      /\ UNCHANGED <<cur, state, chan, proc, ncli, intena, locked, cpu, panicked>>
  BY DEF Iret, locks
<1>2. /\ todo[cur[c]] # <<>> /\ ~Spins(cur[c]) /\ todo[cur[c]][1][1] = "iret"
      /\ todo[cur[c]][1][2] = Arg(c)
  BY <1>1, HeadIs
<1>3. PICK a, b \in Ctx : /\ Fits(c, a) /\ Step(todo[cur[c]][1], a, b)
                          /\ Leads(todo[cur[c]], a, End(cur[c]))
                          /\ Leads(Rest(c), b, End(cur[c]))
  BY <1>2, NextOperation
<1>4. OfInterrupts("iret", a, b)
  BY <1>2, <1>3 DEF Step, OfLocks, OfProcesses, OfScheduler, OfInterrupts
<1>5. /\ a.held = {} /\ b.held = {} /\ b.irq = FALSE /\ b.st = a.st /\ b.who = a.who
  BY <1>4 DEF OfInterrupts, Ctx
<1>6. ~Spins(cur[c])' => Fits(c, b)'
  BY <1>1, <1>2, <1>3, <1>5, TypesHere DEF Fits
<1>7. Undisturbed(c)
  BY <1>1 DEF Undisturbed
<1>8. QED
  BY <1>1, <1>3, <1>6, <1>7, TypesHere, StepOfLocks

\* Interrupts come where no lock is held and no other handler runs.
LEMMA InterruptKeeps ==
  ASSUME KernelInv, NEW c \in Cpu, Interrupt(c)
  PROVE  KernelInv'
<1>1. /\ c \in on /\ on' = on \ {c}
      /\ UNCHANGED <<cur, state, chan, proc, ncli, intena, locked, cpu, panicked>>
  BY DEF Interrupt, locks
<1>2. PICK h \in {Timer(c), Device} : Then(c, h \o todo[cur[c]])
  BY DEF Interrupt
<1>3. PICK a \in Ctx : Fits(c, a) /\ Leads(Ahead(cur[c]), a, End(cur[c]))
  BY DEF KernelInv, OnCpu
<1>4. a.held = {} /\ ~Spins(cur[c]) /\ (a.known => a.irq = FALSE)
  BY <1>1, <1>3 DEF Fits, Ctx
<1>5. a.irq = FALSE /\ a.st \in {"run", "none"}
  BY <1>4 DEF Ctx
<1>6. Leads(todo[cur[c]], a, End(cur[c]))
  BY <1>3, <1>4 DEF Ahead
<1> DEFINE b == Handling(a)
<1>7. /\ b.held = {} /\ b.irq = TRUE /\ b.known = TRUE /\ b.st = a.st /\ b.who = a.who
  BY DEF Handling
<1> HIDE DEF b
<1>8. Leads(h, b, a)
  BY <1>4, <1>5, HandlersLead DEF b
<1>9. b \in Ctx
  BY <1>8, LeadsThere
<1>10. Leads(h \o todo[cur[c]], b, End(cur[c]))
  BY <1>6, <1>8, LeadsThrough
<1>11. ~Spins(cur[c])' => Fits(c, b)'
  BY <1>1, <1>3, <1>4, <1>7, TypesHere DEF Fits
<1>12. Undisturbed(c)
  BY <1>1 DEF Undisturbed
<1>13. QED
  BY <1>1, <1>2, <1>9, <1>10, <1>11, <1>12, TypesHere, StepOfLocks

\* intena comes from the stack of the process that returns from sched.
LEMMA SchedReturnsKeeps ==
  ASSUME KernelInv, NEW c \in Cpu, SchedReturns(c)
  PROVE  KernelInv'
<1>1. /\ At(c, "intena") /\ Then(c, Rest(c))
      /\ intena' = IF Arg(c) = "on" THEN intena \cup {c} ELSE intena \ {c}
      /\ UNCHANGED <<cur, state, chan, proc, on, ncli, locked, cpu, panicked>>
  BY DEF SchedReturns, locks
<1>2. /\ todo[cur[c]] # <<>> /\ ~Spins(cur[c]) /\ todo[cur[c]][1][1] = "intena"
      /\ todo[cur[c]][1][2] = Arg(c)
  BY <1>1, HeadIs
<1>3. PICK a, b \in Ctx : /\ Fits(c, a) /\ Step(todo[cur[c]][1], a, b)
                          /\ Leads(todo[cur[c]], a, End(cur[c]))
                          /\ Leads(Rest(c), b, End(cur[c]))
  BY <1>2, NextOperation
<1>4. /\ a.held = {"ptable"} /\ a.st = "run" /\ Arg(c) = (IF a.irq THEN "off" ELSE "on")
      /\ b.held = a.held /\ b.st = a.st /\ b.irq = a.irq /\ b.who = a.who /\ b.known
  BY <1>2, <1>3 DEF Step, OfLocks, OfProcesses, OfScheduler, OfInterrupts
<1>5. (c \in intena' <=> ~b.irq) /\ intena' \subseteq Cpu
  BY <1>1, <1>4, TypesHere
<1>6. ~Spins(cur[c])' => Fits(c, b)'
  BY <1>1, <1>2, <1>3, <1>4, <1>5, TypesHere DEF Fits
<1>7. Undisturbed(c)
  BY <1>1 DEF Undisturbed
<1>8. QED
  BY <1>1, <1>3, <1>5, <1>6, <1>7, TypesHere, StepOfLocks

-----------------------------------------------------------------------------
(* acquire and release. *)

\* How many locks a CPU holds.
LEMMA HeldAre ==
  /\ \A h \in SUBSET Lock : IsFiniteSet(h) /\ Cardinality(h) \in Nat
  /\ \A l : Cardinality({l}) = 1
  /\ Cardinality({}) = 0
<1>1. IsFiniteSet(Lock)
  <2>1. IsFiniteSet({"ptable"})
    BY FS_Singleton
  <2>2. IsFiniteSet({"ptable"} \cup {"ticks"})
    BY <2>1, FS_AddElement
  <2>3. IsFiniteSet(({"ptable"} \cup {"ticks"}) \cup {"other"})
    BY <2>2, FS_AddElement
  <2>4. IsFiniteSet((({"ptable"} \cup {"ticks"}) \cup {"other"}) \cup {"leaf"})
    BY <2>3, FS_AddElement
  <2>5. Lock = (({"ptable"} \cup {"ticks"}) \cup {"other"}) \cup {"leaf"}
    BY DEF Lock
  <2>6. QED
    BY <2>4, <2>5
<1>2. QED
  BY <1>1, FS_Subset, FS_CardinalityType, FS_Singleton, FS_EmptySet

\* A lock is acquired with at most one other held.
LEMMA AcquireIs ==
  ASSUME NEW l, NEW a \in Ctx, NEW b \in Ctx, Step(Acquire(l), a, b)
  PROVE  /\ l \in Lock /\ Ordered(l, a) /\ Becomes(a, b, a.held \cup {l}, a.st)
         /\ l \notin a.held /\ a.held \in SUBSET Lock /\ Cardinality(a.held) \in 0 .. 1
<1>1. Acquire(l)[1] = "acquire" /\ Acquire(l)[2] = l
  BY DEF Acquire
<1>2. l \in Lock /\ Ordered(l, a) /\ Becomes(a, b, a.held \cup {l}, a.st)
  BY <1>1 DEF Step, OfLocks, OfProcesses, OfScheduler, OfInterrupts
<1>3. l \notin a.held
  BY <1>2 DEF Ordered
<1>4. a.held \in SUBSET Lock
  BY DEF Ctx
<1>5. Cardinality(a.held) \in 0 .. 1
  <2>1. a.held \in {{}, {"ticks"}, {"other"}, {"ptable"}}
    BY <1>2 DEF Ordered
  <2>2. CASE a.held = {}
    BY <2>2, HeldAre
  <2>3. ASSUME NEW k, a.held = {k}
        PROVE  Cardinality(a.held) \in 0 .. 1
    <3>1. Cardinality({k}) = 1
      BY HeldAre
    <3>2. QED
      BY <2>3, <3>1
  <2>4. QED
    BY <2>1, <2>2, <2>3
<1>6. QED
  BY <1>2, <1>3, <1>4, <1>5

LEMMA ConsIs ==
  ASSUME NEW S, NEW x \in S, NEW s \in Seq(S)
  PROVE  /\ Tail(<<x>> \o s) = s /\ (<<x>> \o s)[1] = x /\ <<x>> \o s # <<>>
         /\ <<x>> \o s \in Seq(S)
BY ConcatProperties, HeadTailProperties, SeqEqual, LenProperties

LEMMA HeadAndTail ==
  ASSUME NEW S, NEW s \in Seq(S), s # <<>>
  PROVE  s[1] \in S /\ Tail(s) \in Seq(S) /\ s = <<s[1]>> \o Tail(s)
<1>1. s[1] \in S /\ Tail(s) \in Seq(S)
  BY EmptySeq, ElementOfSeq, HeadTailProperties
<1>2. s = <<s[1]>> \o Tail(s)
  <2>1. Len(s) \in Nat \ {0} /\ Len(s) \in 1 .. Len(s)
    BY EmptySeq, LenProperties
  <2>2. s = SubSeq(s, 1, Len(s)) /\ Tail(s) = SubSeq(s, 2, Len(s))
    BY SubSeqFull, TailIsSubSeq
  <2>3. SubSeq(s, 1, Len(s)) = <<s[1]>> \o SubSeq(s, 1 + 1, Len(s))
    BY <2>1, SubSeqRecursiveFirst
  <2>4. QED
    BY <2>2, <2>3
<1>3. QED
  BY <1>1, <1>2

\* What a CPU that spins will do once it has the lock.
LEMMA NextAcquire ==
  ASSUME KernelInv, NEW c \in Cpu, Spins(cur[c])
  PROVE  \E a, b \in Ctx : /\ Fits(c, a) /\ Step(Acquire(Arg(c)), a, b)
                           /\ Leads(<<Acquire(Arg(c))>> \o Rest(c), a, End(cur[c]))
                           /\ Leads(Rest(c), b, End(cur[c]))
<1> DEFINE s == <<Acquire(Arg(c))>> \o Rest(c)
<1>1. PICK a \in Ctx : Fits(c, a) /\ Leads(s, a, End(cur[c]))
  BY DEF KernelInv, OnCpu, Ahead, Arg, Rest
<1>2. Tail(s) = Rest(c) /\ s[1] = Acquire(Arg(c)) /\ s # <<>>
  <2>1. cur[c] \in Thread /\ todo \in [Thread -> Todo] /\ todo[cur[c]] # <<>>
    BY OneThread, TypesHere DEF Thread, Spins
  <2>2. \E S : Rest(c) \in Seq(S) /\ Acquire(Arg(c)) \in S
    <3>1. PICK S : Todo = Seq(S)
      BY DEF Todo
    <3>2. Rest(c) \in Seq(S)
      BY <2>1, <3>1, HeadAndTail DEF Rest
    <3>3. Rest(c) \in Seq(S \cup {Acquire(Arg(c))})
      BY <3>2, SeqMonotonic
    <3>4. QED
      BY <3>3
  <2>3. QED
    BY <2>2, ConsIs
<1> HIDE DEF s
<1>3. PICK b \in Ctx : Step(s[1], a, b) /\ Leads(Tail(s), b, End(cur[c]))
  BY <1>1, <1>2, LeadsOn
<1>4. QED
  BY <1>1, <1>2, <1>3 DEF s

\* acquire() up to the loop: the lock is not held yet, and interrupts go off.
LEMMA AcquireStartsKeeps ==
  ASSUME KernelInv, NEW c \in Cpu, AcquireStarts(c)
  PROVE  KernelInv'
<1> DEFINE t == cur[c]
           l == Arg(c)
           s == <<<<"spin", l>>>> \o Rest(c)
<1>1. At(c, "acquire")
  BY DEF AcquireStarts
<1>2. /\ todo[t] # <<>> /\ ~Spins(t) /\ todo[t][1][1] = "acquire"
      /\ todo[t][1][2] = l
  BY <1>1, HeadIs
<1>3. PICK a, b \in Ctx : /\ Fits(c, a) /\ Step(todo[t][1], a, b)
                          /\ Leads(todo[t], a, End(t))
                          /\ Leads(Rest(c), b, End(t))
  BY <1>2, NextOperation
<1>4. todo[t] \in Seq(Operation) /\ todo[t][1] \in Operation /\ todo[t][1] = Acquire(l)
  <2>1. todo[t] \in Seq(Operation) /\ todo[t][1] \in Operation
    BY <1>2, <1>3, HeadAndTail, LeadsThere
  <2>2. ASSUME NEW A, NEW B, NEW x \in A \X B
        PROVE  x = <<x[1], x[2]>>
    OBVIOUS
  <2>3. todo[t][1] = <<todo[t][1][1], todo[t][1][2]>>
    BY <2>1, <2>2 DEF Operation
  <2>4. QED
    BY <1>2, <2>1, <2>3 DEF Acquire
<1>5. l \in Lock /\ l \notin a.held /\ a.held \in SUBSET Lock /\ Cardinality(a.held) \in 0 .. 1
  BY <1>3, <1>4, AcquireIs
<1>6. ~Holding(c, l)
  BY <1>3, <1>5 DEF Fits, Holding
<1>7. Pushcli(c) /\ Then(c, s) /\ UNCHANGED <<cur, state, chan, proc, locked, cpu, panicked>>
  BY <1>6 DEF AcquireStarts, locks
<1>8. t \in Thread /\ todo \in [Thread -> Todo]
  BY OneThread, TypesHere DEF Thread
<1>9. s \in Todo /\ s # <<>> /\ s[1] = <<"spin", l>> /\ Tail(s) = Tail(todo[t])
  <2>1. <<"spin", l>> \in {"spin", "acquire", "release", "loop", "sleep", "wakeup", "yield",
             "sched", "intena", "sti", "pick", "swtch", "idle", "preempt", "iret"}
               \X (Lock \cup Proc \cup {"", "on", "off"})
    BY <1>5
  <2>2. Rest(c) \in Todo
    BY <1>4, <1>2, HeadAndTail, PlansAre DEF Rest
  <2>3. PICK S : Todo = Seq(S) /\ <<"spin", l>> \in S
    BY <2>1 DEF Todo
  <2>4. QED
    BY <2>2, <2>3, ConsIs DEF Rest
<1>10. /\ todo' \in [Thread -> Todo] /\ todo'[t] = s
       /\ \A u \in Thread : u # t => todo'[u] = todo[u]
  BY <1>7, <1>8, <1>9 DEF Then
<1> HIDE DEF s
<1>11. Spins(t)' /\ Ahead(t)' = todo[t]
  <2>1. Spins(t)'
    BY <1>7, <1>9, <1>10 DEF Spins
  <2>2. todo[t] = <<Acquire(l)>> \o Tail(todo[t])
    BY <1>2, <1>4, HeadAndTail
  <2>3. todo'[t][1][2] = l /\ Tail(todo'[t]) = Tail(todo[t])
    BY <1>9, <1>10
  <2>4. QED
    BY <1>7, <1>9, <2>1, <2>2, <2>3 DEF Ahead
<1>12. /\ ncli[c] = Cardinality(a.held) /\ ncli' \in [Cpu -> 0 .. 3] /\ ncli'[c] = ncli[c] + 1
       /\ \A d \in Cpu : d # c => ncli'[d] = ncli[d]
  <2>1. ncli[c] = Cardinality(a.held) + 0
    BY <1>2, <1>3 DEF Fits
  <2>2. ncli \in [Cpu -> 0 .. 3] /\ ncli' = [ncli EXCEPT ![c] = @ + 1]
    BY <1>7, TypesHere DEF Pushcli
  <2>3. QED
    BY <1>5, <2>1, <2>2
<1>13. /\ on' = on \ {c} /\ intena' \subseteq Cpu
       /\ intena' = IF ncli[c] > 0 THEN intena
                    ELSE IF c \in on THEN intena \cup {c} ELSE intena \ {c}
  BY <1>7, TypesHere DEF Pushcli
<1>14. LocksTyped'
  <2>1. TypeOK'
    BY <1>7, <1>12, <1>13, TypesHere DEF TypeOK
  <2>2. ~panicked'
    <3>1. panicked' = panicked
      BY <1>7
    <3>2. ~panicked
      BY TypesHere
    <3>3. QED
      BY <3>1, <3>2
  <2>3. \A d, e \in Cpu : proc'[d] = proc'[e] /\ proc'[d] # Nobody => d = e
    BY <1>7, TypesHere
  <2>4. \A k \in Lock : k \in locked' <=> cpu'[k] # Nobody
    BY <1>7, TypesHere
  <2>5. QED
    BY <1>10, <2>1, <2>2, <2>3, <2>4 DEF LocksTyped
<1>15. Undisturbed(c)
  BY <1>7, <1>12, <1>13 DEF Undisturbed
<1>16. Fits(c, a)'
  <2>1. a.held = {} => ncli[c] = 0
    BY <1>12, HeldAre
  <2>2. a.held # {} => ncli[c] > 0
    BY <1>5, <1>12, HeldAre, FS_EmptySet, FS_Subset
  <2>3. (c \notin on /\ (a.known => (c \in intena <=> ~a.irq)))'
    <3>1. c \notin on'
      BY <1>13
    <3>2. CASE a.held = {}
      BY <1>2, <1>3, <1>13, <2>1, <3>1, <3>2 DEF Fits
    <3>3. CASE a.held # {}
      BY <1>2, <1>3, <1>13, <2>2, <3>1, <3>3 DEF Fits
    <3>4. QED
      BY <3>2, <3>3
  <2>4. (ncli[c] = Cardinality(a.held) + (IF Spins(cur[c]) THEN 1 ELSE 0))'
    BY <1>7, <1>11, <1>12
  <2>5. QED
    BY <1>3, <1>7, <1>11, <2>3, <2>4 DEF Fits
<1>17. OnCpu(c)'
  BY <1>3, <1>7, <1>11, <1>16 DEF OnCpu
<1>18. QED
  BY <1>7, <1>10, <1>14, <1>15, <1>17, ThreadGoesOn

LEMMA HeldChange ==
  ASSUME NEW h \in SUBSET Lock, NEW l \in Lock
  PROVE  /\ Cardinality(h) \in Nat /\ (Cardinality(h) = 0 <=> h = {})
         /\ l \notin h => Cardinality(h \cup {l}) = Cardinality(h) + 1
         /\ l \in h => Cardinality(h \ {l}) = Cardinality(h) - 1
<1>1. IsFiniteSet(h) /\ Cardinality(h) \in Nat
  BY HeldAre
<1>2. QED
  BY <1>1, FS_EmptySet, FS_AddElement, FS_RemoveElement

LEMMA SpinKeeps ==
  ASSUME KernelInv, NEW c \in Cpu, Spin(c)
  PROVE  KernelInv'
<1> DEFINE l == Arg(c)
<1>1. /\ Spins(cur[c]) /\ l \notin locked
      /\ locked' = locked \cup {l} /\ cpu' = [cpu EXCEPT ![l] = c]
      /\ Then(c, Rest(c)) /\ UNCHANGED <<cur, state, chan, proc, on, ncli, intena, panicked>>
  BY DEF Spin, At, Spins, intr
<1>2. PICK a, b \in Ctx : /\ Fits(c, a) /\ Step(Acquire(l), a, b)
                          /\ Leads(<<Acquire(l)>> \o Rest(c), a, End(cur[c]))
                          /\ Leads(Rest(c), b, End(cur[c]))
  BY <1>1, NextAcquire
<1>3. /\ l \in Lock /\ Becomes(a, b, a.held \cup {l}, a.st)
      /\ l \notin a.held /\ a.held \in SUBSET Lock
  BY <1>2, AcquireIs
<1> HIDE DEF l
<1>4. /\ b.held = a.held \cup {l} /\ b.st = a.st /\ b.irq = a.irq /\ b.who = a.who
      /\ b.known => a.known
  BY <1>3 DEF Becomes
<1>5. /\ cpu[l] = Nobody /\ cpu' \in [Lock -> Cpu \cup {Nobody}] /\ cpu'[l] = c
      /\ \A k \in Lock : k # l => cpu'[k] = cpu[k]
      /\ locked' \subseteq Lock /\ \A k \in Lock : k \in locked' <=> cpu'[k] # Nobody
  BY <1>1, <1>3, TypesHere, CpuAssumption
<1>6. Undisturbed(c)
  BY <1>1, <1>5, CpuAssumption DEF Undisturbed
<1>7. ASSUME ~Spins(cur[c])'
      PROVE  Fits(c, b)'
  <2>1. (b.held = {k \in Lock : cpu[k] = c})'
    BY <1>2, <1>3, <1>4, <1>5 DEF Fits
  <2>2. (ncli[c] = Cardinality(b.held) + (IF Spins(cur[c]) THEN 1 ELSE 0))'
    <3>1. ncli[c] = Cardinality(a.held) + 1
      BY <1>1, <1>2 DEF Fits
    <3>2. Cardinality(b.held) = Cardinality(a.held) + 1 /\ Cardinality(a.held) \in Nat
      BY <1>3, <1>4, HeldChange
    <3>3. QED
      BY <1>1, <1>7, <3>1, <3>2
  <2>3. b.held # {} /\ (c \notin on /\ (b.known => (c \in intena <=> ~b.irq)))'
    BY <1>1, <1>2, <1>4 DEF Fits
  <2>4. QED
    BY <1>1, <1>2, <1>4, <2>1, <2>2, <2>3 DEF Fits
<1>8. QED
  BY <1>1, <1>2, <1>5, <1>6, <1>7, TypesHere, StepOfLocks

\* release() with popcli(): the last lock brings back what intena remembers.
LEMMA ReleaseKeeps ==
  ASSUME KernelInv, NEW c \in Cpu, ReleaseLock(c)
  PROVE  KernelInv'
<1> DEFINE l == Arg(c)
<1>1. At(c, "release")
  BY DEF ReleaseLock
<1>2. /\ todo[cur[c]] # <<>> /\ ~Spins(cur[c]) /\ todo[cur[c]][1][1] = "release"
      /\ todo[cur[c]][1][2] = l
  BY <1>1, HeadIs
<1>3. PICK a, b \in Ctx : /\ Fits(c, a) /\ Step(todo[cur[c]][1], a, b)
                          /\ Leads(todo[cur[c]], a, End(cur[c]))
                          /\ Leads(Rest(c), b, End(cur[c]))
  BY <1>2, NextOperation
<1>4. l \in a.held /\ Becomes(a, b, a.held \ {l}, a.st)
  BY <1>2, <1>3 DEF Step, OfLocks, OfProcesses, OfScheduler, OfInterrupts
<1>5. /\ b.held = a.held \ {l} /\ b.st = a.st /\ b.irq = a.irq /\ b.who = a.who
      /\ b.known => a.known
  BY <1>4 DEF Becomes
<1>6. a.held \in SUBSET Lock /\ l \in Lock
  BY <1>4 DEF Ctx
<1>7. /\ Cardinality(a.held) \in Nat /\ Cardinality(b.held) = Cardinality(a.held) - 1
      /\ a.held # {} /\ (Cardinality(b.held) = 0 <=> b.held = {})
      /\ Cardinality(b.held) \in Nat
  BY <1>4, <1>5, <1>6, HeldChange
<1>8. ncli[c] = Cardinality(a.held) /\ c \notin on /\ (a.known => (c \in intena <=> ~a.irq))
  <2>1. ncli[c] = Cardinality(a.held) + 0
    BY <1>2, <1>3 DEF Fits
  <2>2. QED
    BY <1>3, <1>7, <2>1 DEF Fits
<1>9. Holding(c, l) /\ ncli[c] # 0
  <2>1. cpu[l] = c
    BY <1>3, <1>4, <1>6 DEF Fits
  <2>2. l \in locked
    BY <1>6, <2>1, TypesHere, CpuAssumption
  <2>3. QED
    BY <1>7, <1>8, <2>1, <2>2 DEF Holding
<1>10. /\ locked' = locked \ {l} /\ cpu' = [cpu EXCEPT ![l] = Nobody]
       /\ ncli' = [ncli EXCEPT ![c] = @ - 1]
       /\ on' = IF ncli[c] = 1 /\ c \in intena THEN on \cup {c} ELSE on
       /\ Then(c, Rest(c)) /\ UNCHANGED <<cur, state, chan, proc, intena, panicked>>
  BY <1>8, <1>9 DEF ReleaseLock
<1> HIDE DEF l
<1>11. /\ cpu[l] = c /\ cpu' \in [Lock -> Cpu \cup {Nobody}] /\ cpu'[l] = Nobody
       /\ \A k \in Lock : k # l => cpu'[k] = cpu[k]
       /\ locked' \subseteq Lock /\ \A k \in Lock : k \in locked' <=> cpu'[k] # Nobody
  BY <1>6, <1>9, <1>10, TypesHere DEF Holding
<1>12. /\ ncli' \in [Cpu -> 0 .. 3] /\ ncli'[c] = Cardinality(b.held)
       /\ \A d \in Cpu : d # c => ncli'[d] = ncli[d]
  <2>1. ncli \in [Cpu -> 0 .. 3] /\ ncli[c] \in 0 .. 3
    BY TypesHere
  <2>2. ncli[c] - 1 = Cardinality(b.held) /\ ncli[c] - 1 \in 0 .. 3
    BY <1>7, <1>8, <2>1
  <2>3. QED
    BY <1>10, <2>1, <2>2
<1>13. Undisturbed(c)
  BY <1>6, <1>10, <1>11, <1>12, CpuAssumption DEF Undisturbed
<1>14. ASSUME ~Spins(cur[c])'
       PROVE  Fits(c, b)'
  <2>1. (b.held = {k \in Lock : cpu[k] = c})'
    BY <1>3, <1>5, <1>6, <1>11, CpuAssumption DEF Fits
  <2>2. (ncli[c] = Cardinality(b.held) + (IF Spins(cur[c]) THEN 1 ELSE 0))'
    BY <1>7, <1>12, <1>14
  <2>3. IF b.held = {}
        THEN b.known => (c \in on' <=> ~b.irq)
        ELSE c \notin on' /\ (b.known => (c \in intena' <=> ~b.irq))
    <3>1. b.held = {} <=> ncli[c] = 1
      BY <1>7, <1>8
    <3>2. CASE b.held = {}
      BY <1>5, <1>8, <1>10, <3>1, <3>2
    <3>3. CASE b.held # {}
      BY <1>5, <1>8, <1>10, <3>1, <3>3
    <3>4. QED
      BY <3>2, <3>3
  <2>4. QED
    BY <1>3, <1>5, <1>10, <1>14, <2>1, <2>2, <2>3 DEF Fits
<1>15. on' \subseteq Cpu /\ intena' \subseteq Cpu
  BY <1>10, TypesHere
<1>16. QED
  BY <1>3, <1>10, <1>11, <1>12, <1>13, <1>14, <1>15, StepOfLocks

-----------------------------------------------------------------------------
(* The switches between a process and scheduler(). *)

LEMMA ThreadChanges ==
  ASSUME KernelInv, NEW c \in Cpu, NEW t, NEW u, u = cur[c], t # u,
         cur' = [cur EXCEPT ![c] = t], \A v \in Thread : v # u => todo'[v] = todo[v],
         LocksTyped', Undisturbed(c), OnCpu(c)', SchedulerAway(c)', u \in Proc => ProcessAway(u)'
  PROVE  KernelInv'
<1>1. /\ cur'[c] = t /\ \A d \in Cpu : d # c => cur'[d] = cur[d]
  BY TypesHere
<1>2. ASSUME NEW d \in Cpu
      PROVE  OnCpu(d)' /\ SchedulerAway(d)'
  <2>1. CASE d = c
    BY <2>1
  <2>2. CASE d # c
    <3>1. cur'[d] = cur[d] /\ todo'[cur[d]] = todo[cur[d]] /\ todo'[d] = todo[d]
      BY <1>1, <2>2, OneThread DEF Thread
    <3>2. OnCpu(d)'
      BY <2>2, <3>1, OthersStay
    <3>3. SchedulerAway(d)'
      BY <3>1 DEF KernelInv, SchedulerAway, Spins
    <3>4. QED
      BY <3>2, <3>3
  <2>3. QED
    BY <2>1, <2>2
<1>3. ASSUME NEW p \in Proc
      PROVE  ProcessAway(p)'
  <2>1. CASE p = u
    BY <2>1
  <2>2. CASE p # u
    <3>1. todo'[p] = todo[p]
      BY <2>2 DEF Thread
    <3>2. (\A d \in Cpu : cur'[d] # p) => (\A d \in Cpu : cur[d] # p)
      BY <1>1, <2>2
    <3>3. QED
      BY <3>1, <3>2 DEF KernelInv, ProcessAway, Spins
  <2>3. QED
    BY <2>1, <2>2
<1>4. QED
  BY <1>2, <1>3 DEF KernelInv

\* sched(): the checks pass, and intena waits on the stack of the process.
LEMMA SchedKeeps ==
  ASSUME KernelInv, NEW c \in Cpu, NEW p, p = cur[c], Sched(c)
  PROVE  KernelInv'
<1> DEFINE o == <<"intena", IF c \in intena THEN "on" ELSE "off">>
           s == <<o>> \o Rest(c)
<1>1. At(c, "sched")
  BY DEF Sched
<1>2. /\ todo[p] # <<>> /\ ~Spins(p) /\ todo[p][1][1] = "sched"
  BY <1>1, HeadIs
<1>3. PICK a, b \in Ctx : /\ Fits(c, a) /\ Step(todo[p][1], a, b)
                          /\ Leads(todo[p], a, End(p))
                          /\ Leads(Rest(c), b, End(p))
  BY <1>2, NextOperation
<1>4. /\ a.held = {"ptable"} /\ a.st = "stop" /\ a.known
      /\ Becomes(a, b, a.held, "run") /\ b.known
  BY <1>2, <1>3 DEF Step, OfLocks, OfProcesses, OfScheduler, OfInterrupts
<1>5. /\ b.held = {"ptable"} /\ b.st = "run" /\ b.irq = a.irq /\ b.who = a.who
      /\ a.who \in Proc /\ a.irq \in BOOLEAN
  BY <1>4 DEF Becomes, Ctx
<1>6. /\ p = a.who /\ proc[c] = p /\ p \in Proc /\ p # c /\ state[p] # "RUNNING" /\ c \notin on
      /\ (c \in intena <=> ~a.irq)
  BY <1>3, <1>4, <1>5, CpuAssumption DEF Fits
<1>7. ncli[c] = 1 /\ Holding(c, "ptable")
  <2>1. ncli[c] = Cardinality(a.held) + 0
    BY <1>2, <1>3 DEF Fits
  <2>2. "ptable" \in Lock /\ cpu["ptable"] = c
    BY <1>3, <1>4 DEF Fits
  <2>3. Cardinality({"ptable"}) = 1
    BY HeldAre
  <2>4. "ptable" \in locked
    BY <2>2, TypesHere, CpuAssumption
  <2>5. QED
    BY <1>4, <2>1, <2>2, <2>3, <2>4 DEF Holding
<1>8. /\ Then(c, s) /\ cur' = [cur EXCEPT ![c] = c]
      /\ UNCHANGED <<state, chan, proc, on, ncli, intena, locked, cpu, panicked>>
  BY <1>6, <1>7 DEF Sched, intr, locks
<1> DEFINE e == [held |-> {"ptable"}, irq |-> a.irq, known |-> FALSE, st |-> "run", who |-> p]
<1>9. /\ e.held = {"ptable"} /\ e.irq = a.irq /\ e.known = FALSE /\ e.st = "run" /\ e.who = p
      /\ e \in Ctx
  BY <1>5, <1>6, CpuAssumption DEF Ctx, Lock
<1> HIDE DEF e
<1>10. o \in Operation /\ Step(o, e, b)
  <2>1. o \in Operation
    BY OperationsAre
  <2>2. o[1] = "intena" /\ o[2] = (IF e.irq THEN "off" ELSE "on")
    BY <1>6, <1>9
  <2> HIDE DEF o
  <2>3. OfProcesses(o[1], o[2], e, b)
    BY <1>4, <1>5, <1>6, <1>9, <2>2 DEF OfProcesses
  <2>4. QED
    BY <2>1, <2>3 DEF Step
<1> HIDE DEF o
<1>11. /\ s \in Seq(Operation) /\ s # <<>> /\ s[1] = o /\ Tail(s) = Rest(c)
  BY <1>3, <1>10, ConsIs, LeadsThere
<1> HIDE DEF s
<1>12. Leads(s, e, End(p))
  <2>1. b.irq => e.irq
    BY <1>5, <1>9
  <2>2. Step(s[1], e, b) /\ Leads(Tail(s), b, End(p)) /\ e \in Ctx
    BY <1>3, <1>9, <1>10, <1>11
  <2>3. QED
    BY <1>11, <2>1, <2>2, LeadsFrom
<1>13. /\ todo' \in [Thread -> Todo] /\ todo'[p] = s
       /\ \A u \in Thread : u # p => todo'[u] = todo[u]
  BY <1>6, <1>8, <1>11, PlansAre, TypesHere DEF Then, Thread
<1>14. cur'[c] = c /\ (\A d \in Cpu : d # c => cur'[d] = cur[d]) /\ c \in Thread
  BY <1>8, TypesHere DEF Thread
<1>15. LocksTyped'
  <2>1. TypeOK'
    BY <1>8, TypesHere DEF TypeOK
  <2>2. ~panicked'
    <3>1. panicked' = panicked
      BY <1>8
    <3>2. ~panicked
      BY TypesHere
    <3>3. QED
      BY <3>1, <3>2
  <2>3. /\ \A d, f \in Cpu : proc'[d] = proc'[f] /\ proc'[d] # Nobody => d = f
        /\ \A k \in Lock : k \in locked' <=> cpu'[k] # Nobody
    BY <1>8, TypesHere
  <2>4. QED
    BY <1>13, <2>1, <2>2, <2>3 DEF LocksTyped
<1>16. Undisturbed(c)
  BY <1>8 DEF Undisturbed
<1>17. ~Spins(c) /\ Leads(todo[c], Away(p), End(c))
  BY <1>6 DEF KernelInv, SchedulerAway
<1>18. todo'[c] = todo[c] /\ ~Spins(c)' /\ Ahead(c)' = todo[c]
  <2>1. todo'[c] = todo[c]
    BY <1>6, <1>13, <1>14
  <2>2. QED
    BY <1>17, <2>1 DEF Spins, Ahead
<1>19. OnCpu(c)'
  <2> DEFINE z == Away(p)
  <2>1. /\ z.held = {"ptable"} /\ z.known = FALSE /\ z.st = "left" /\ z.who = p
    BY DEF Away, Has
  <2>2. z \in Ctx /\ Leads(todo[c], z, End(c))
    BY <1>17, LeadsThere
  <2> HIDE DEF z
  <2>3. Fits(c, z)'
    <3>1. (z.held = {k \in Lock : cpu[k] = c})'
      BY <1>3, <1>4, <1>8, <2>1 DEF Fits
    <3>2. (ncli[c] = Cardinality(z.held) + (IF Spins(cur[c]) THEN 1 ELSE 0))'
      <4>1. Cardinality({"ptable"}) = 1
        BY HeldAre
      <4>2. QED
        BY <1>7, <1>8, <1>14, <1>18, <2>1, <4>1
    <3>3. QED
      BY <1>6, <1>8, <1>14, <2>1, <3>1, <3>2 DEF Fits
  <2>4. QED
    BY <1>14, <1>18, <2>2, <2>3 DEF OnCpu
<1>20. SchedulerAway(c)'
  BY <1>14 DEF SchedulerAway
<1>21. ProcessAway(p)'
  <2>1. ~Spins(p)'
    BY <1>11, <1>13, PlansAre DEF Spins
  <2>2. Ready(e, p)
    BY <1>9 DEF Ready
  <2>3. QED
    BY <1>9, <1>12, <1>13, <2>1, <2>2 DEF ProcessAway
<1>22. QED
  BY <1>6, <1>8, <1>13, <1>15, <1>16, <1>19, <1>20, <1>21, ThreadChanges

\* swtch() to the process that was chosen: it goes on where it called sched().
LEMMA SwtchKeeps ==
  ASSUME KernelInv, NEW c \in Cpu, NEW p, p = Arg(c), Swtch(c)
  PROVE  KernelInv'
<1>1. /\ At(c, "swtch") /\ Then(c, Rest(c)) /\ cur' = [cur EXCEPT ![c] = p]
      /\ UNCHANGED <<state, chan, proc, on, ncli, intena, locked, cpu, panicked>>
  BY DEF Swtch, intr, locks
<1>2. /\ todo[cur[c]] # <<>> /\ ~Spins(cur[c]) /\ todo[cur[c]][1][1] = "swtch"
      /\ todo[cur[c]][1][2] = p
  BY <1>1, HeadIs
<1>3. PICK a, b \in Ctx : /\ Fits(c, a) /\ Step(todo[cur[c]][1], a, b)
                          /\ Leads(todo[cur[c]], a, End(cur[c]))
                          /\ Leads(Rest(c), b, End(cur[c]))
  BY <1>2, NextOperation
<1>4. p \in Proc /\ a = Has(p, "chosen", TRUE) /\ b = Away(p)
  BY <1>2, <1>3 DEF Step, OfLocks, OfProcesses, OfScheduler, OfInterrupts
<1>5. /\ a.held = {"ptable"} /\ a.irq = FALSE /\ a.known = TRUE /\ a.st = "chosen" /\ a.who = p
  BY <1>4 DEF Has
<1>6. /\ cur[c] = c /\ proc[c] = p /\ p # c /\ state[p] = "RUNNING" /\ c \notin on /\ c \in intena
      /\ a.held = {k \in Lock : cpu[k] = c}
  BY <1>3, <1>4, <1>5, CpuAssumption DEF Fits
<1>7. \A d \in Cpu : cur[d] # p
  <2> TAKE d \in Cpu
  <2>1. p # Nobody /\ d # p
    BY <1>4, CpuAssumption
  <2>2. proc[d] = p => d = c
    BY <1>6, <2>1, TypesHere
  <2>3. cur[d] = d \/ cur[d] = proc[d]
    BY OneThread
  <2>4. QED
    BY <1>6, <2>1, <2>2, <2>3
<1>8. PICK e \in Ctx : Ready(e, p) /\ Leads(todo[p], e, End(p))
  BY <1>4, <1>7 DEF KernelInv, ProcessAway
<1>9. ~Spins(p)
  BY <1>4, <1>7 DEF KernelInv, ProcessAway
<1>10. /\ e.held = {"ptable"} /\ e.st = "run" /\ e.who = p /\ (e.known => ~e.irq)
  BY <1>8 DEF Ready
<1>11. cur'[c] = p /\ \A d \in Cpu : d # c => cur'[d] = cur[d]
  BY <1>1, TypesHere
<1>12. Rest(c) \in Seq(Operation)
  BY <1>3, LeadsThere
<1>13. /\ todo' \in [Thread -> Todo] /\ todo'[c] = Rest(c)
       /\ \A u \in Thread : u # c => todo'[u] = todo[u]
  BY <1>1, <1>6, <1>12, PlansAre, TypesHere DEF Then, Thread
<1>14. LocksTyped'
  <2>1. TypeOK'
    BY <1>1, <1>4, TypesHere DEF TypeOK
  <2>2. ~panicked'
    <3>1. panicked' = panicked
      BY <1>1
    <3>2. ~panicked
      BY TypesHere
    <3>3. QED
      BY <3>1, <3>2
  <2>3. /\ \A d, f \in Cpu : proc'[d] = proc'[f] /\ proc'[d] # Nobody => d = f
        /\ \A k \in Lock : k \in locked' <=> cpu'[k] # Nobody
    BY <1>1, TypesHere
  <2>4. QED
    BY <1>13, <2>1, <2>2, <2>3 DEF LocksTyped
<1>15. Undisturbed(c)
  BY <1>1 DEF Undisturbed
<1>16. todo'[p] = todo[p] /\ ~Spins(p)' /\ Ahead(p)' = todo[p]
  <2>1. todo'[p] = todo[p]
    BY <1>4, <1>6, <1>13 DEF Thread
  <2>2. QED
    BY <1>9, <2>1 DEF Spins, Ahead
<1>17. OnCpu(c)'
  <2>1. (e.held = {k \in Lock : cpu[k] = c})'
    BY <1>1, <1>5, <1>6, <1>10
  <2>2. (ncli[c] = Cardinality(e.held) + (IF Spins(cur[c]) THEN 1 ELSE 0))'
    <3>1. ncli[c] = Cardinality(a.held) + 0
      BY <1>2, <1>3 DEF Fits
    <3>2. QED
      BY <1>1, <1>5, <1>10, <1>11, <1>16, <3>1
  <2>3. Fits(c, e)'
    BY <1>1, <1>4, <1>6, <1>10, <1>11, <2>1, <2>2 DEF Fits
  <2>4. QED
    BY <1>8, <1>11, <1>16, <2>3 DEF OnCpu
<1>18. SchedulerAway(c)'
  <2>1. ~Spins(c)'
    BY <1>12, <1>13, PlansAre DEF Spins
  <2>2. QED
    BY <1>3, <1>4, <1>6, <1>11, <1>13, <2>1 DEF SchedulerAway
<1>19. cur[c] \notin Proc
  BY <1>6, CpuAssumption
<1>20. QED
  BY <1>1, <1>6, <1>13, <1>14, <1>15, <1>17, <1>18, <1>19, ThreadChanges

-----------------------------------------------------------------------------
(* The invariant. *)

LEMMA KernelInvInit ==
  ASSUME Init
  PROVE  KernelInv
<1>1. /\ cur = [c \in Cpu |-> c] /\ state = [p \in Proc |-> "RUNNABLE"]
      /\ chan = [p \in Proc |-> ""] /\ proc = [c \in Cpu |-> Nobody]
      /\ on = {} /\ ncli = [c \in Cpu |-> 0] /\ intena = {}
      /\ locked = {} /\ cpu = [l \in Lock |-> Nobody] /\ ~panicked
      /\ todo = [t \in Thread |-> IF t \in Cpu THEN Round ELSE <<Release("ptable")>>]
  BY DEF Init, Thread
<1> DEFINE z == Idling({}, FALSE)
<1>2. /\ z.held = {} /\ z.irq = FALSE /\ z.known = FALSE /\ z.st = "none" /\ z.who = Nobody
      /\ z \in Ctx /\ Leads(Round, z, z)
  BY RoundLeads, SchedulerContexts DEF Idling
<1> HIDE DEF z
<1>3. Round \in Todo /\ Round # <<>> /\ Round[1][1] # "spin"
  BY <1>2, LeadsThere, PlansAre DEF Round
<1>4. <<Release("ptable")>> \in Todo /\ Release("ptable")[1] # "spin"
  <2>1. Release("ptable") \in Operation
    BY OperationsAre DEF Lock
  <2>2. <<Release("ptable")>> \in Seq(Operation)
    BY <2>1
  <2>3. QED
    BY <2>2, PlansAre DEF Release
<1>5. LocksTyped
  <2>1. TypeOK
    <3>1. ncli \in [Cpu -> 0 .. 3] /\ cur \in [Cpu -> Cpu \cup Proc]
      <4>1. 0 \in 0 .. 3 /\ \A c \in Cpu : c \in Cpu \cup Proc
        OBVIOUS
      <4>2. ncli \in [Cpu -> 0 .. 3]
        BY <1>1, <4>1
      <4>3. cur \in [Cpu -> Cpu \cup Proc]
        BY <1>1, <4>1
      <4>4. QED
        BY <4>2, <4>3
    <3>2. /\ proc \in [Cpu -> Proc \cup {Nobody}] /\ chan \in [Proc -> Lock \cup {""}]
          /\ state \in [Proc -> {"RUNNABLE", "RUNNING", "SLEEPING"}]
          /\ cpu \in [Lock -> Cpu \cup {Nobody}]
      BY <1>1
    <3>3. QED
      BY <1>1, <3>1, <3>2 DEF TypeOK
  <2>2. todo \in [Thread -> Todo]
    BY <1>1, <1>3, <1>4
  <2>3. QED
    BY <1>1, <2>1, <2>2 DEF LocksTyped
<1>6. ASSUME NEW c \in Cpu
      PROVE  OnCpu(c) /\ SchedulerAway(c)
  <2>1. cur[c] = c /\ todo[c] = Round /\ ~Spins(c)
    BY <1>1, <1>3 DEF Spins, Thread
  <2>2. Fits(c, z)
    <3>1. z.held = {l \in Lock : cpu[l] = c}
      BY <1>1, <1>2, CpuAssumption
    <3>2. ncli[c] = Cardinality(z.held) + (IF Spins(cur[c]) THEN 1 ELSE 0)
      <4>1. Cardinality(z.held) = 0
        BY <1>2, HeldAre
      <4>2. ncli[c] = 0
        BY <1>1
      <4>3. QED
        BY <2>1, <4>1, <4>2
    <3>3. QED
      BY <1>1, <1>2, <2>1, <3>1, <3>2, CpuAssumption DEF Fits
  <2>3. End(c) = z
    BY CpuAssumption DEF End, z
  <2>4. QED
    BY <1>2, <2>1, <2>2, <2>3 DEF OnCpu, SchedulerAway, Ahead
<1>7. ASSUME NEW p \in Proc
      PROVE  ProcessAway(p)
  <2> DEFINE a == In(p, {"ptable"}, FALSE, "run")
             b == In(p, {}, FALSE, "run")
  <2>1. todo[p] = <<Release("ptable")>> /\ ~Spins(p)
    BY <1>1, <1>4, CpuAssumption DEF Spins, Thread
  <2>2. a \in Ctx /\ b \in Ctx /\ Step(Release("ptable"), a, b) /\ ~b.irq
    BY LocksOfProcess DEF Lock
  <2>3. Ready(a, p)
    BY DEF Ready, In
  <2>4. b = End(p)
    BY DEF End, In
  <2> HIDE DEF a, b
  <2>5. Leads(<<Release("ptable")>>, a, End(p))
    BY <2>2, <2>4, Leads1, OperationsAre DEF Lock
  <2>6. QED
    BY <2>1, <2>2, <2>3, <2>5 DEF ProcessAway
<1>8. QED
  BY <1>5, <1>6, <1>7 DEF KernelInv

\* Every operation of every CPU keeps the invariant.
LEMMA KernelStep ==
  ASSUME KernelInv, [Next]_vars
  PROVE  KernelInv'
<1>1. CASE UNCHANGED vars
  <2>1. UNCHANGED <<cur, todo, state, chan, proc, on, ncli, intena, locked, cpu, panicked>>
    BY <1>1 DEF vars, threads, intr, locks
  <2>2. LocksTyped'
    <3>1. TypeOK' <=> TypeOK
      BY <2>1 DEF TypeOK
    <3>2. panicked' <=> panicked
      BY <2>1
    <3>3. QED
      BY <2>1, <3>1, <3>2 DEF KernelInv, LocksTyped
  <2>3. ASSUME NEW t
        PROVE  (Spins(t)' <=> Spins(t)) /\ Ahead(t)' = Ahead(t)
    BY <2>1 DEF Spins, Ahead
  <2>4. ASSUME NEW c \in Cpu
        PROVE  OnCpu(c)' /\ SchedulerAway(c)'
    <3>1. PICK a \in Ctx : Fits(c, a) /\ Leads(Ahead(cur[c]), a, End(cur[c]))
      BY DEF KernelInv, OnCpu
    <3>2. Fits(c, a)'
      BY <2>1, <2>3, <3>1 DEF Fits
    <3>3. Ahead(cur[c])' = Ahead(cur[c])
      BY <2>1 DEF Ahead, Spins
    <3>4. QED
      BY <2>1, <2>3, <3>1, <3>2, <3>3 DEF KernelInv, OnCpu, SchedulerAway
  <2>5. ASSUME NEW p \in Proc
        PROVE  ProcessAway(p)'
    BY <2>1, <2>3 DEF KernelInv, ProcessAway
  <2>6. QED
    BY <2>2, <2>4, <2>5 DEF KernelInv
<1>2. CASE Next
  <2>1. PICK c \in Cpu :
          \/ AcquireStarts(c) \/ Spin(c) \/ ReleaseLock(c)
          \/ Loop(c) \/ Sleep(c) \/ GiveUp(c) \/ Wakeup(c)
          \/ Sched(c) \/ SchedReturns(c)
          \/ Sti(c) \/ Pick(c) \/ Swtch(c) \/ Idle(c)
          \/ SchedulerLoops(c) \/ SystemCall(c)
          \/ Interrupt(c) \/ Preempt(c) \/ Iret(c)
    BY <1>2 DEF Next
  <2>2. CASE AcquireStarts(c) \/ Spin(c) \/ ReleaseLock(c)
    BY <2>2, AcquireStartsKeeps, SpinKeeps, ReleaseKeeps
  <2>3. CASE Loop(c) \/ Sleep(c) \/ GiveUp(c) \/ Wakeup(c)
    BY <2>3, LoopKeeps, SleepKeeps, WakeupKeeps
  <2>4. CASE Sched(c) \/ SchedReturns(c) \/ Swtch(c)
    BY <2>4, SchedKeeps, SchedReturnsKeeps, SwtchKeeps
  <2>5. CASE Sti(c) \/ Pick(c) \/ Idle(c)
    BY <2>5, StiKeeps, PickKeeps, IdleKeeps
  <2>6. CASE SchedulerLoops(c) \/ SystemCall(c)
    BY <2>6, RestartKeeps
  <2>7. CASE Interrupt(c) \/ Preempt(c) \/ Iret(c)
    BY <2>7, InterruptKeeps, PreemptKeeps, IretKeeps
  <2>8. QED
    BY <2>1, <2>2, <2>3, <2>4, <2>5, <2>6, <2>7
<1>3. QED
  BY <1>1, <1>2

\* Every thread of every CPU has only code ahead that the locks, the interrupts and the
\* process of its CPU allow, whatever interrupts it and wherever it is switched to
\* (spinlock.c, proc.c, trap.c).
THEOREM KernelCorrect == Spec => []KernelInv
<1>1. Init => KernelInv
  BY KernelInvInit
<1>2. KernelInv /\ [Next]_vars => KernelInv'
  BY KernelStep
<1>3. QED
  BY <1>1, <1>2, PTL DEF Spec

LEMMA LocksHold ==
  ASSUME KernelInv
  PROVE  LocksInv
<1>1. ASSUME NEW c \in Cpu
      PROVE  /\ ncli[c] = Cardinality({l \in Lock : cpu[l] = c}) + (IF At(c, "spin") THEN 1 ELSE 0)
             /\ ncli[c] > 0 => c \notin on
  <2>1. PICK a \in Ctx : Fits(c, a)
    BY DEF KernelInv, OnCpu
  <2>2. At(c, "spin") <=> Spins(cur[c])
    BY TypesHere DEF At, Spins
  <2>3. ncli[c] = Cardinality(a.held) + (IF Spins(cur[c]) THEN 1 ELSE 0)
    BY <2>1 DEF Fits
  <2>4. ncli[c] > 0 => a.held # {} \/ Spins(cur[c])
    <3>1. Cardinality({}) = 0
      BY HeldAre
    <3>2. QED
      BY <2>3, <3>1
  <2>5. QED
    BY <2>1, <2>2, <2>3, <2>4 DEF Fits
<1>2. LockDiscipline
  BY <1>1, OneThread, TypesHere DEF LockDiscipline
<1>3. ASSUME NEW c \in Cpu, cur[c] \in Proc, todo[cur[c]] = <<>>
      PROVE  c \in on
  <2>1. PICK a \in Ctx : Fits(c, a) /\ a = End(cur[c]) /\ ~Spins(cur[c])
    BY <1>3, AtEnd
  <2>2. a.held = {} /\ a.irq = FALSE /\ a.known = TRUE
    BY <1>3, <2>1 DEF End
  <2>3. QED
    BY <2>1, <2>2 DEF Fits
<1>4. ASSUME NEW c \in Cpu, NEW i \in DOMAIN todo[cur[c]], todo[cur[c]][i] = Do("iret")
      PROVE  c \notin on
  <2> SUFFICES ASSUME c \in on PROVE FALSE
    OBVIOUS
  <2>1. PICK a \in Ctx : Fits(c, a) /\ Leads(Ahead(cur[c]), a, End(cur[c]))
    BY DEF KernelInv, OnCpu
  <2>2. a.held = {} /\ ~Spins(cur[c]) /\ (a.known => ~a.irq)
    BY <2>1 DEF Fits
  <2>3. Leads(todo[cur[c]], a, End(cur[c]))
    BY <2>1, <2>2 DEF Ahead
  <2>4. a.irq
    BY <1>4, <2>3, NoHandlerAhead
  <2>5. QED
    BY <2>2, <2>4 DEF Ctx
<1>5. InterruptsRestored
  BY <1>3, <1>4 DEF InterruptsRestored
<1>6. QED
  BY <1>2, <1>5 DEF LocksInv, KernelInv, LocksTyped

\* No panic of acquire, release or sched is reached, ncli counts the locks of a CPU,
\* interrupts are off while it has or awaits one, no thread runs twice, and interrupts
\* come back exactly when user code does, for any number of CPUs and processes.
THEOREM LocksAreKept == Spec => []LocksInv
<1>1. KernelInv => LocksInv
  BY LocksHold
<1>2. QED
  BY <1>1, KernelCorrect, PTL

\* What a CPU that waits has, and what it waits for.
LEMMA WaitsIs ==
  ASSUME KernelInv, NEW c \in Cpu, NEW d \in Cpu, Waits(c, d)
  PROVE  \E a \in Ctx : /\ Ordered(Arg(c), a) /\ a.held = {l \in Lock : cpu[l] = c}
                        /\ Arg(c) \in Lock /\ cpu[Arg(c)] = d
                        /\ a.st \notin {"run", "stop"} => cur[c] = c
<1>1. Spins(cur[c]) /\ cpu[Arg(c)] = d
  BY DEF Waits, At, Spins
<1>2. PICK a, b \in Ctx : Fits(c, a) /\ Step(Acquire(Arg(c)), a, b)
  BY <1>1, NextAcquire
<1>3. QED
  BY <1>1, <1>2, AcquireIs DEF Fits

LEMMA DeadlockNeedsScheduler ==
  ASSUME KernelInv
  PROVE  NoOtherDeadlock
<1> SUFFICES ASSUME NEW c \in Cpu, NEW d \in Cpu, Waits(c, d), Waits(d, c)
             PROVE  SchedulerWantsTicks(c) \/ SchedulerWantsTicks(d)
  BY DEF NoOtherDeadlock
<1> DEFINE l == Arg(c)
           k == Arg(d)
<1>1. PICK a \in Ctx : /\ Ordered(l, a) /\ a.held = {x \in Lock : cpu[x] = c}
                       /\ l \in Lock /\ cpu[l] = d
                       /\ a.st \notin {"run", "stop"} => cur[c] = c
  BY WaitsIs
<1>2. PICK b \in Ctx : /\ Ordered(k, b) /\ b.held = {x \in Lock : cpu[x] = d}
                       /\ k \in Lock /\ cpu[k] = c
                       /\ b.st \notin {"run", "stop"} => cur[d] = d
  BY WaitsIs
<1>3. At(c, "spin") /\ At(d, "spin")
  BY DEF Waits
<1> HIDE DEF l, k
<1>4. k \in a.held /\ l \in b.held
  BY <1>1, <1>2
<1>5. \/ a.held = {"ptable"} /\ l = "ticks" /\ a.st \in {"chosen", "left"}
      \/ b.held = {"ptable"} /\ k = "ticks" /\ b.st \in {"chosen", "left"}
  BY <1>1, <1>2, <1>4 DEF Ordered
<1>6. CASE a.held = {"ptable"} /\ l = "ticks" /\ a.st \in {"chosen", "left"}
  <2>1. cur[c] = c /\ cpu["ptable"] = c
    BY <1>1, <1>6
  <2>2. QED
    BY <1>3, <1>6, <2>1 DEF SchedulerWantsTicks, l
<1>7. CASE b.held = {"ptable"} /\ k = "ticks" /\ b.st \in {"chosen", "left"}
  <2>1. cur[d] = d /\ cpu["ptable"] = d
    BY <1>2, <1>7
  <2>2. QED
    BY <1>3, <1>7, <2>1 DEF SchedulerWantsTicks, k
<1>8. QED
  BY <1>5, <1>6, <1>7

\* Two CPUs that wait for each other's lock: one of them is in scheduler() and asks for
\* tickslock with ptable.lock held (proc.c:425, 432), the deadlock that is in the code;
\* there is no other, for any number of CPUs.
THEOREM NoOtherDeadlockEver == Spec => []NoOtherDeadlock
<1>1. KernelInv => NoOtherDeadlock
  BY DeadlockNeedsScheduler
<1>2. QED
  BY <1>1, KernelCorrect, PTL

=============================================================================
