-------------------------------- MODULE Pipe --------------------------------
(***************************************************************************)
(* A pipe of xv6 (pipe.c), used by several readers and writers that        *)
(* inherited its two ends, with sleep, wakeup and kill (proc.c) and the    *)
(* count of references that decides when an end is closed (fileclose).     *)
(*                                                                         *)
(* What a call does while it holds p->lock is one step, but for the moment *)
(* between its last test of killed and sleep(): kill() does not take       *)
(* p->lock and may come in between.  sleep() gives the lock up only with   *)
(* ptable.lock, so that a wakeup of a pipe call cannot.                    *)
(***************************************************************************)
EXTENDS Integers, Sequences, FiniteSets

CONSTANTS Reader, Writer,  \* processes with the reading, the writing end
          Byte,
          String,          \* what a call may write
          ReadSize,        \* how much a call may ask for
          PIPESIZE,
          Wrap             \* the counters are uint: 2^32

ASSUME PipeAssumption ==
  /\ Reader \cap Writer = {}
  /\ String \subseteq Seq(Byte) \ {<<>>} /\ ReadSize \subseteq Nat \ {0}
  /\ PIPESIZE \in Nat \ {0} /\ Wrap \in Nat
  /\ Wrap % PIPESIZE = 0 /\ Wrap > PIPESIZE

VARIABLES
  data, nread, nwrite,
  readopen, writeopen,
  freed,   \* the page of the pipe has gone back to kalloc
  pc,      \* where each process is
  rest,    \* what a writer's call has still to write
  got,     \* what the last read returned
  ret,     \* "busy" during a call, and how the last one ended
  killed

pipe == <<data, nread, nwrite>>
ends == <<readopen, writeopen, freed>>
vars == <<pipe, ends, pc, rest, got, ret, killed>>

Proc == Reader \cup Writer

Init ==
  /\ data \in {[i \in 0 .. PIPESIZE - 1 |-> b] : b \in Byte}
  /\ nread = 0 /\ nwrite = 0
  /\ readopen = TRUE /\ writeopen = TRUE /\ freed = FALSE
  /\ pc = [p \in Proc |-> "user"]
  /\ rest = [w \in Writer |-> <<>>]
  /\ got = [r \in Reader |-> <<>>]
  /\ ret = [p \in Proc |-> "none"]
  /\ killed = {}

\* p->lock is kept from the last test to sleep().
LockFree == \A p \in Proc : pc[p] # "dozing"

Wakeup(S, c) == [p \in Proc |-> IF p \in S /\ c[p] = "asleep" THEN "call" ELSE c[p]]

Count == (nwrite - nread) % Wrap

-----------------------------------------------------------------------------
WriteCall(w) ==
  /\ pc[w] = "user" /\ w \notin killed
  /\ \E s \in String : rest' = [rest EXCEPT ![w] = s]
  /\ pc' = [pc EXCEPT ![w] = "call"] /\ ret' = [ret EXCEPT ![w] = "busy"]
  /\ UNCHANGED <<pipe, ends, got, killed>>

\* mutant: full is nwrite - nread >= PIPESIZE, on counters that wrap
RoomUnsigned == IF nwrite - nread >= PIPESIZE THEN 0 ELSE PIPESIZE - (nwrite - nread)

\* How many rounds of the loop go by before nwrite == nread + PIPESIZE.
Room == PIPESIZE - Count

\* mutant: readers are woken only when the call is over
StopsUnheard(w) ==
  \/ /\ rest'[w] = <<>>
     /\ pc' = Wakeup(Reader, [pc EXCEPT ![w] = "user"]) /\ ret' = [ret EXCEPT ![w] = "ok"]
  \/ /\ rest'[w] # <<>> /\ (~readopen \/ w \in killed)
     /\ pc' = [pc EXCEPT ![w] = "user"] /\ ret' = [ret EXCEPT ![w] = "fail"]
  \/ /\ rest'[w] # <<>> /\ readopen /\ w \notin killed
     /\ pc' = [pc EXCEPT ![w] = "dozing"] /\ UNCHANGED ret

\* All is written; or the pipe is full, and the call fails or goes to sleep.
Stops(w) ==
  \/ /\ rest'[w] = <<>>
     /\ pc' = Wakeup(Reader, [pc EXCEPT ![w] = "user"]) /\ ret' = [ret EXCEPT ![w] = "ok"]
  \/ /\ rest'[w] # <<>> /\ (~readopen \/ w \in killed)
     /\ pc' = [pc EXCEPT ![w] = "user"] /\ ret' = [ret EXCEPT ![w] = "fail"]
  \/ /\ rest'[w] # <<>> /\ readopen /\ w \notin killed
     /\ pc' = Wakeup(Reader, [pc EXCEPT ![w] = "dozing"]) /\ UNCHANGED ret

\* pipewrite, from acquire() or a return of sleep() to the end or the next sleep.
PipeWrite(w) ==
  LET k == IF Len(rest[w]) < Room THEN Len(rest[w]) ELSE Room
      Index(j) == (nwrite + j - 1) % PIPESIZE
  IN /\ pc[w] = "call" /\ LockFree
     /\ data' = [i \in DOMAIN data |->
                   IF \E j \in 1 .. k : i = Index(j)
                   THEN rest[w][CHOOSE j \in 1 .. k : i = Index(j)] ELSE data[i]]
     /\ nwrite' = (nwrite + k) % Wrap
     /\ rest' = [rest EXCEPT ![w] = SubSeq(@, k + 1, Len(@))]
     /\ Stops(w)
     /\ UNCHANGED <<nread, ends, got, killed>>

-----------------------------------------------------------------------------
ReadCall(r) ==
  /\ pc[r] = "user" /\ r \notin killed
  /\ pc' = [pc EXCEPT ![r] = "call"] /\ ret' = [ret EXCEPT ![r] = "busy"]
  /\ got' = [got EXCEPT ![r] = <<>>]
  /\ UNCHANGED <<pipe, ends, rest, killed>>

\* The first loop of piperead: nothing to read yet.
PipeReadWaits(r) ==
  /\ pc[r] = "call" /\ LockFree
  /\ nread = nwrite /\ writeopen
  /\ IF r \in killed
     THEN pc' = [pc EXCEPT ![r] = "user"] /\ ret' = [ret EXCEPT ![r] = "fail"]
     ELSE pc' = [pc EXCEPT ![r] = "dozing"] /\ UNCHANGED ret
  /\ UNCHANGED <<pipe, ends, rest, got, killed>>

\* The second loop of piperead, for n bytes.
PipeRead(r, n) ==
  LET k == IF n < Count THEN n ELSE Count
  IN /\ pc[r] = "call" /\ LockFree
     /\ nread # nwrite \/ ~writeopen
     /\ got' = [got EXCEPT ![r] = [i \in 1 .. k |-> data[(nread + i - 1) % PIPESIZE]]]
     /\ nread' = (nread + k) % Wrap
     /\ pc' = Wakeup(Writer, [pc EXCEPT ![r] = "user"])
     /\ ret' = [ret EXCEPT ![r] = IF k = 0 THEN "end" ELSE "ok"]
     /\ UNCHANGED <<data, nwrite, ends, rest, killed>>

-----------------------------------------------------------------------------
Sleep(p) ==
  /\ pc[p] = "dozing"
  /\ pc' = [pc EXCEPT ![p] = "asleep"]
  /\ UNCHANGED <<pipe, ends, rest, got, ret, killed>>

\* kill: a sleeper becomes RUNNABLE.
Kill(p) ==
  /\ pc[p] # "gone" /\ p \notin killed
  /\ killed' = killed \cup {p}
  /\ pc' = Wakeup({p}, pc)
  /\ UNCHANGED <<pipe, ends, rest, got, ret>>

Side(p) == IF p \in Reader THEN Reader ELSE Writer

\* fileclose, by close() or exit(): the last reference closes the end.
FileClose(p) ==
  /\ pc[p] = "user"
  /\ LET last == \A q \in Side(p) \ {p} : pc[q] \in {"closing", "gone"}
     IN pc' = [pc EXCEPT ![p] = IF last THEN "closing" ELSE "gone"]
  /\ UNCHANGED <<pipe, ends, rest, got, ret, killed>>

\* mutant: the other side is not woken
PipeCloseSilent(p) ==
  /\ pc[p] = "closing" /\ LockFree
  /\ IF p \in Writer THEN writeopen' = FALSE /\ UNCHANGED readopen
     ELSE readopen' = FALSE /\ UNCHANGED writeopen
  /\ pc' = [pc EXCEPT ![p] = "gone"]
  /\ freed' = (~readopen' /\ ~writeopen')
  /\ UNCHANGED <<pipe, rest, got, ret, killed>>

PipeClose(p) ==
  /\ pc[p] = "closing" /\ LockFree
  /\ IF p \in Writer THEN writeopen' = FALSE /\ UNCHANGED readopen
     ELSE readopen' = FALSE /\ UNCHANGED writeopen
  /\ pc' = Wakeup(Proc \ Side(p), [pc EXCEPT ![p] = "gone"])
  /\ freed' = (~readopen' /\ ~writeopen')
  /\ UNCHANGED <<pipe, rest, got, ret, killed>>

-----------------------------------------------------------------------------
Goes(p) ==
  \/ p \in Writer /\ PipeWrite(p)
  \/ p \in Reader /\ (PipeReadWaits(p) \/ \E n \in ReadSize : PipeRead(p, n))
  \/ Sleep(p) \/ PipeClose(p)

Next ==
  \/ \E w \in Writer : WriteCall(w)
  \/ \E r \in Reader : ReadCall(r)
  \/ \E p \in Proc : Goes(p) \/ Kill(p) \/ FileClose(p)

Spec == Init /\ [][Next]_vars

\* A call in the kernel goes on, and a killed process exits.
Fairness == \A p \in Proc : WF_vars(Goes(p)) /\ WF_vars(p \in killed /\ FileClose(p))

FairSpec == Spec /\ Fairness

-----------------------------------------------------------------------------
TypeOK ==
  /\ data \in [0 .. PIPESIZE - 1 -> Byte]
  /\ nread \in 0 .. Wrap - 1 /\ nwrite \in 0 .. Wrap - 1
  /\ readopen \in BOOLEAN /\ writeopen \in BOOLEAN /\ freed \in BOOLEAN
  /\ pc \in [Proc -> {"user", "call", "dozing", "asleep", "closing", "gone"}]
  /\ rest \in [Writer -> Seq(Byte)]
  /\ got \in [Reader -> Seq(Byte)]
  /\ ret \in [Proc -> {"none", "busy", "ok", "end", "fail"}]
  /\ killed \subseteq Proc

\* A killed writer that has filled the pipe returns -1 without a wakeup
\* (pipe.c:86-88): the one way to leave readers asleep on bytes.
GaveUp == \E w \in Writer \cap killed : ret[w] = "fail"

\* No other wakeup is lost: a reader sleeps on an empty pipe that may still be
\* written to, a writer on a full one that may still be read; and the page is
\* not given back while a process can touch it.
SleepersHaveReason ==
  /\ TypeOK
  /\ \A r \in Reader : pc[r] \in {"dozing", "asleep"} =>
       writeopen /\ (nread = nwrite \/ GaveUp)
  /\ \A w \in Writer : pc[w] \in {"dozing", "asleep"} => Count = PIPESIZE /\ readopen
  /\ Count <= PIPESIZE
  /\ freed => \A p \in Proc : pc[p] = "gone"

\* The pipe implements a queue of bytes.
Queue == INSTANCE ByteQueue
  WITH queue <- [i \in 1 .. Count |-> data[(nread + i - 1) % PIPESIZE]],
       readers <- readopen, writers <- writeopen, Capacity <- PIPESIZE

ByteQueueSpec == Queue!Spec

\* Once the other end is closed every call returns, those that sleep included.
HangUpEndsCalls ==
  /\ \A r \in Reader : ret[r] = "busy" /\ ~writeopen ~> ret[r] # "busy"
  /\ \A w \in Writer : ret[w] = "busy" /\ ~readopen ~> ret[w] # "busy"

=============================================================================
