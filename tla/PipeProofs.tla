----------------------------- MODULE PipeProofs -----------------------------
(***************************************************************************)
(* Proofs about pipes, for any readers, writers, strings and sizes: the    *)
(* size of the buffer divides that of the counters, as 512 divides 2^32.   *)
(***************************************************************************)
EXTENDS Pipe, SequenceTheorems, TLAPS

USE DEF pipe, ends

-----------------------------------------------------------------------------
(* Arithmetic of the counters and of the places in the buffer. *)

\* Quotient and remainder are unique.
LEMMA ModUnique ==
  ASSUME NEW W \in Nat \ {0}, NEW x \in Int, NEW q \in Int, NEW r \in 0 .. W - 1,
         x = q * W + r
  PROVE  x % W = r
OBVIOUS

\* They exist.
LEMMA ModExists ==
  ASSUME NEW W \in Nat \ {0}, NEW x \in Int
  PROVE  /\ x \div W \in Int /\ x % W \in 0 .. W - 1
         /\ x = (x \div W) * W + (x % W)
<1>1. x = W * (x \div W) + (x % W)
  OBVIOUS
<1>2. x \div W \in Int /\ x % W \in 0 .. W - 1
  OBVIOUS
<1>3. QED
  BY <1>1, <1>2

\* Numbers less than W apart have different remainders.
LEMMA ModDistinct ==
  ASSUME NEW W \in Nat \ {0}, NEW x \in Int, NEW y \in Int, x < y, y < x + W
  PROVE  x % W # y % W
<1> DEFINE a == x \div W
           b == y \div W
<1>1. /\ a \in Int /\ b \in Int
      /\ x = a * W + (x % W) /\ y = b * W + (y % W)
      /\ x % W \in 0 .. W - 1 /\ y % W \in 0 .. W - 1
  BY ModExists
<1> HIDE DEF a, b
<1>2. SUFFICES ASSUME x % W = y % W PROVE FALSE
  OBVIOUS
<1>3. y - x = b * W - a * W
  BY <1>1, <1>2
<1>4. y - x = (b - a) * W
  BY <1>1, <1>3
<1>5. b - a >= 1 => (b - a) * W >= W
  BY <1>1
<1>6. b - a <= 0 => (b - a) * W <= 0
  BY <1>1
<1>7. QED
  BY <1>1, <1>4, <1>5, <1>6

\* A multiple of W more has the same remainder.
LEMMA ModMultiple ==
  ASSUME NEW W \in Nat \ {0}, NEW x \in Int, NEW m \in Int
  PROVE  (x + m * W) % W = x % W
<1> DEFINE a == x \div W
<1>1. a \in Int /\ x = a * W + (x % W) /\ x % W \in 0 .. W - 1
  BY ModExists
<1> HIDE DEF a
<1>2. x + m * W = (a + m) * W + (x % W) /\ a + m \in Int /\ x + m * W \in Int
  BY <1>1
<1>3. QED
  BY <1>1, <1>2, ModUnique

\* A counter that has wrapped names the same place.
LEMMA WrapSamePlace ==
  ASSUME NEW x \in Int
  PROVE  (x + Wrap) % PIPESIZE = x % PIPESIZE
<1> DEFINE m == Wrap \div PIPESIZE
<1>1. PIPESIZE \in Nat \ {0} /\ Wrap \in Int /\ Wrap % PIPESIZE = 0
  BY PipeAssumption DEF PipeAssumption
<1>2. m \in Int /\ Wrap = m * PIPESIZE + (Wrap % PIPESIZE)
  BY <1>1, ModExists
<1> HIDE DEF m
<1>3. Wrap = m * PIPESIZE
  BY <1>1, <1>2
<1>4. QED
  BY <1>1, <1>2, <1>3, ModMultiple

\* The bytes between two counters.
CountOf(nw, nr) == (nw - nr) % Wrap

LEMMA CountIs == Count = CountOf(nwrite, nread) /\ Count' = CountOf(nwrite', nread')
BY DEF Count, CountOf

\* The counter of the writer is that of the reader and the bytes between, or that
\* wrapped round.
LEMMA CountSplits ==
  ASSUME NEW nw \in 0 .. Wrap - 1, NEW nr \in 0 .. Wrap - 1
  PROVE  /\ CountOf(nw, nr) \in 0 .. Wrap - 1
         /\ nw = nr + CountOf(nw, nr) \/ nw = nr + CountOf(nw, nr) - Wrap
<1>1. Wrap \in Nat \ {0}
  BY PipeAssumption DEF PipeAssumption
<1>2. CASE nw >= nr
  <2>1. nw - nr = 0 * Wrap + (nw - nr) /\ nw - nr \in 0 .. Wrap - 1
    BY <1>1, <1>2
  <2>2. CountOf(nw, nr) = nw - nr
    BY <1>1, <2>1, ModUnique DEF CountOf
  <2>3. QED
    BY <1>1, <2>1, <2>2
<1>3. CASE nw < nr
  <2>1. nw - nr = (-1) * Wrap + (nw - nr + Wrap) /\ nw - nr + Wrap \in 0 .. Wrap - 1
    BY <1>1, <1>3
  <2>2. CountOf(nw, nr) = nw - nr + Wrap
    BY <1>1, <2>1, ModUnique DEF CountOf
  <2>3. QED
    BY <1>1, <2>1, <2>2
<1>4. QED
  BY <1>1, <1>2, <1>3

\* A counter goes on, or wraps round.
LEMMA CounterGoes ==
  ASSUME NEW n \in 0 .. Wrap - 1, NEW k \in 0 .. Wrap - 1
  PROVE  /\ (n + k) % Wrap \in 0 .. Wrap - 1
         /\ (n + k) % Wrap = n + k \/ (n + k) % Wrap = n + k - Wrap
<1>1. Wrap \in Nat \ {0}
  BY PipeAssumption DEF PipeAssumption
<1>2. CASE n + k < Wrap
  BY <1>1, <1>2
<1>3. CASE n + k >= Wrap
  BY <1>1, <1>3
<1>4. QED
  BY <1>1, <1>2, <1>3

\* What is written comes to the bytes between the counters, what is read leaves them.
LEMMA CountGoes ==
  ASSUME NEW nw \in 0 .. Wrap - 1, NEW nr \in 0 .. Wrap - 1, NEW k \in Nat
  PROVE  /\ CountOf(nw, nr) + k < Wrap
              => CountOf((nw + k) % Wrap, nr) = CountOf(nw, nr) + k
         /\ k <= CountOf(nw, nr)
              => CountOf(nw, (nr + k) % Wrap) = CountOf(nw, nr) - k
<1>1. Wrap \in Nat \ {0}
  BY PipeAssumption DEF PipeAssumption
<1> DEFINE c == CountOf(nw, nr)
<1>2. c \in 0 .. Wrap - 1 /\ (nw = nr + c \/ nw = nr + c - Wrap)
  BY CountSplits
<1> HIDE DEF c
<1>3. ASSUME c + k < Wrap PROVE CountOf((nw + k) % Wrap, nr) = c + k
  <2> DEFINE mw == (nw + k) % Wrap
             e == CountOf(mw, nr)
  <2>1. mw \in 0 .. Wrap - 1 /\ (mw = nw + k \/ mw = nw + k - Wrap)
    BY <1>1, <1>2, <1>3, CounterGoes
  <2> HIDE DEF mw
  <2>2. e \in 0 .. Wrap - 1 /\ (mw = nr + e \/ mw = nr + e - Wrap)
    BY <2>1, CountSplits
  <2> HIDE DEF e
  <2>3. e = c + k
    BY <1>1, <1>2, <1>3, <2>1, <2>2
  <2>4. QED
    BY <2>3 DEF e, mw
<1>4. ASSUME k <= c PROVE CountOf(nw, (nr + k) % Wrap) = c - k
  <2> DEFINE mr == (nr + k) % Wrap
             e == CountOf(nw, mr)
  <2>1. mr \in 0 .. Wrap - 1 /\ (mr = nr + k \/ mr = nr + k - Wrap)
    BY <1>1, <1>2, <1>4, CounterGoes
  <2> HIDE DEF mr
  <2>2. e \in 0 .. Wrap - 1 /\ (nw = mr + e \/ nw = mr + e - Wrap)
    BY <2>1, CountSplits
  <2> HIDE DEF e
  <2>3. e = c - k
    BY <1>1, <1>2, <1>4, <2>1, <2>2
  <2>4. QED
    BY <2>3 DEF e, mr
<1>5. QED
  BY <1>3, <1>4 DEF c

-----------------------------------------------------------------------------
(* The inductive invariant. *)

InCall == {"call", "dozing", "asleep"}

\* A call is in progress in the kernel, and nowhere else.
CallsMatch == \A p \in Proc : ret[p] = "busy" <=> pc[p] \in InCall

\* Who closes an end is the last to have it; a closed end is nobody's.
EndsMatch ==
  /\ \A p \in Proc : pc[p] = "closing" => \A q \in Side(p) \ {p} : pc[q] = "gone"
  /\ ~readopen => \A r \in Reader : pc[r] = "gone"
  /\ ~writeopen => \A w \in Writer : pc[w] = "gone"
  /\ freed => ~readopen /\ ~writeopen

PipeInv == SleepersHaveReason /\ CallsMatch /\ EndsMatch

\* An empty pipe, open at both ends, and no call.
LEMMA PipeInit == Init => PipeInv
<1> SUFFICES ASSUME Init PROVE PipeInv
  OBVIOUS
<1>1. PIPESIZE \in Nat \ {0} /\ Wrap \in Nat \ {0}
  BY PipeAssumption DEF PipeAssumption
<1>2. data \in [0 .. PIPESIZE - 1 -> Byte]
  BY DEF Init
<1>3. TypeOK
  BY <1>1, <1>2, EmptySeq DEF Init, TypeOK
<1>4. Count = 0
  BY <1>1 DEF Init, Count
<1>5. SleepersHaveReason
  BY <1>1, <1>3, <1>4 DEF Init, SleepersHaveReason, Proc
<1>6. CallsMatch /\ EndsMatch
  BY DEF Init, CallsMatch, EndsMatch, InCall, Proc
<1>7. QED
  BY <1>5, <1>6 DEF PipeInv

-----------------------------------------------------------------------------
(* What one call moves. *)

\* How many bytes pipewrite() writes before it stops.
Written(w) == IF Len(rest[w]) < Room THEN Len(rest[w]) ELSE Room

Place(j) == (nwrite + j - 1) % PIPESIZE

\* The buffer afterwards.
Buffer(w) ==
  [i \in DOMAIN data |->
     IF \E j \in 1 .. Written(w) : i = Place(j)
     THEN rest[w][CHOOSE j \in 1 .. Written(w) : i = Place(j)] ELSE data[i]]

\* It writes all of its string, or fills the pipe.
LEMMA WriteFacts ==
  ASSUME PipeInv, NEW w \in Writer, PipeWrite(w)
  PROVE  /\ Written(w) \in 0 .. Len(rest[w]) /\ Count + Written(w) <= PIPESIZE
         /\ Count \in Nat /\ rest[w] \in Seq(Byte) /\ Len(rest[w]) \in Nat
         /\ nwrite' \in 0 .. Wrap - 1 /\ Count' = Count + Written(w)
         /\ data' = Buffer(w)
         /\ rest' = [rest EXCEPT ![w] = SubSeq(@, Written(w) + 1, Len(@))]
         /\ rest'[w] \in Seq(Byte)
         /\ rest'[w] # <<>> => Count' = PIPESIZE
         /\ Stops(w) /\ UNCHANGED <<nread, ends, got, killed>>
<1> DEFINE k == Written(w)
<1>1. /\ PIPESIZE \in Nat \ {0} /\ Wrap \in Nat /\ PIPESIZE < Wrap
      /\ TypeOK /\ Count <= PIPESIZE
  BY PipeAssumption DEF PipeAssumption, PipeInv, SleepersHaveReason
<1>2. nwrite \in 0 .. Wrap - 1 /\ nread \in 0 .. Wrap - 1 /\ rest[w] \in Seq(Byte)
  BY <1>1 DEF TypeOK
<1>3. Count \in Nat /\ Len(rest[w]) \in Nat
  <2>1. Count \in 0 .. Wrap - 1
    BY <1>2, CountSplits, CountIs
  <2>2. Len(rest[w]) \in Nat
    BY <1>2, LenProperties
  <2>3. QED
    BY <1>1, <2>1, <2>2
<1>4. k \in 0 .. Len(rest[w]) /\ Count + k <= PIPESIZE /\ (k # Len(rest[w]) => Count + k = PIPESIZE)
  BY <1>1, <1>3 DEF Written, Room
<1>5. /\ nwrite' = (nwrite + k) % Wrap
      /\ rest' = [rest EXCEPT ![w] = SubSeq(@, k + 1, Len(@))]
      /\ Stops(w) /\ UNCHANGED <<nread, ends, got, killed>>
  BY DEF PipeWrite, Written
<1>6. data' = Buffer(w)
  BY DEF PipeWrite, Written, Buffer, Place
<1> HIDE DEF k
<1>7. nwrite' \in 0 .. Wrap - 1 /\ Count' = Count + k
  <2>1. k \in 0 .. Wrap - 1
    BY <1>1, <1>3, <1>4
  <2>2. CountOf((nwrite + k) % Wrap, nread) = CountOf(nwrite, nread) + k
    BY <1>1, <1>2, <1>3, <1>4, CountGoes, CountIs
  <2>3. QED
    BY <1>2, <1>5, <2>1, <2>2, CounterGoes, CountIs
<1>8. rest'[w] = SubSeq(rest[w], k + 1, Len(rest[w]))
  BY <1>1, <1>5 DEF TypeOK
<1>9. rest'[w] \in Seq(Byte)
  <2>1. \A i \in k + 1 .. Len(rest[w]) : rest[w][i] \in Byte
    BY <1>2, <1>3, <1>4, ElementOfSeq
  <2>2. QED
    BY <1>3, <1>4, <1>8, <2>1, SubSeqProperties
<1>10. rest'[w] # <<>> => Count' = PIPESIZE
  <2>1. k = Len(rest[w]) => rest'[w] = <<>>
    BY <1>3, <1>8, SubSeqEmpty
  <2>2. QED
    BY <1>4, <1>7, <2>1
<1>11. QED
  BY <1>2, <1>3, <1>4, <1>5, <1>6, <1>7, <1>9, <1>10 DEF k

\* How many of n bytes piperead() reads.
ReadOf(n) == IF n < Count THEN n ELSE Count

\* It reads what there is, nothing only when the pipe is empty.
LEMMA ReadFacts ==
  ASSUME PipeInv, NEW r \in Reader, NEW n \in ReadSize, PipeRead(r, n)
  PROVE  /\ ReadOf(n) \in 0 .. Count /\ Count \in Nat
         /\ ReadOf(n) = 0 => Count = 0 /\ ~writeopen
         /\ nread' \in 0 .. Wrap - 1 /\ Count' = Count - ReadOf(n)
         /\ got' = [got EXCEPT ![r] =
                      [i \in 1 .. ReadOf(n) |-> data[(nread + i - 1) % PIPESIZE]]]
         /\ got'[r] \in Seq(Byte)
         /\ pc' = Wakeup(Writer, [pc EXCEPT ![r] = "user"])
         /\ ret' = [ret EXCEPT ![r] = IF ReadOf(n) = 0 THEN "end" ELSE "ok"]
         /\ nread = nwrite => ~writeopen
         /\ UNCHANGED <<data, nwrite, ends, rest, killed>>
<1> DEFINE k == ReadOf(n)
<1>1. PIPESIZE \in Nat \ {0} /\ Wrap \in Nat /\ PIPESIZE < Wrap /\ TypeOK /\ n \in Nat \ {0}
  BY PipeAssumption DEF PipeAssumption, PipeInv, SleepersHaveReason
<1>2. nwrite \in 0 .. Wrap - 1 /\ nread \in 0 .. Wrap - 1
  BY <1>1 DEF TypeOK
<1>3. Count \in 0 .. Wrap - 1 /\ (nwrite = nread + Count \/ nwrite = nread + Count - Wrap)
  BY <1>2, CountSplits, CountIs
<1>4. k \in 0 .. Count /\ k \in 0 .. Wrap - 1 /\ (k = 0 => Count = 0)
  BY <1>1, <1>3 DEF ReadOf
<1>5. /\ got' = [got EXCEPT ![r] = [i \in 1 .. k |-> data[(nread + i - 1) % PIPESIZE]]]
      /\ nread' = (nread + k) % Wrap
      /\ pc' = Wakeup(Writer, [pc EXCEPT ![r] = "user"])
      /\ ret' = [ret EXCEPT ![r] = IF k = 0 THEN "end" ELSE "ok"]
      /\ nread # nwrite \/ ~writeopen
      /\ UNCHANGED <<data, nwrite, ends, rest, killed>>
  BY DEF PipeRead, ReadOf
<1> HIDE DEF k
<1>6. nread' \in 0 .. Wrap - 1 /\ Count' = Count - k
  <2>1. CountOf(nwrite, (nread + k) % Wrap) = CountOf(nwrite, nread) - k
    BY <1>2, <1>3, <1>4, CountGoes, CountIs
  <2>2. QED
    BY <1>2, <1>4, <1>5, <2>1, CounterGoes, CountIs
<1>7. k = 0 => Count = 0 /\ ~writeopen
  BY <1>1, <1>2, <1>3, <1>4, <1>5
<1>8. got'[r] \in Seq(Byte)
  <2>1. got'[r] = [i \in 1 .. k |-> data[(nread + i - 1) % PIPESIZE]]
    BY <1>1, <1>5 DEF TypeOK
  <2>2. \A i \in 1 .. k : (nread + i - 1) % PIPESIZE \in 0 .. PIPESIZE - 1
    BY <1>1, <1>2, <1>4, ModExists
  <2>3. got'[r] \in [1 .. k -> Byte]
    BY <1>1, <2>1, <2>2 DEF TypeOK
  <2>4. QED
    BY <1>4, <2>3, SeqDef
<1>9. QED
  BY <1>3, <1>4, <1>5, <1>6, <1>7, <1>8 DEF k

-----------------------------------------------------------------------------
(* The invariant is kept. *)

\* wakeup() changes nothing but sleepers, who go round their loop again.
LEMMA WakeupIs ==
  ASSUME NEW S, NEW c
  PROVE  /\ \A p \in Proc : Wakeup(S, c)[p] = c[p] \/ (c[p] = "asleep" /\ Wakeup(S, c)[p] = "call")
         /\ \A p \in Proc \cap S : Wakeup(S, c)[p] # "asleep"
         /\ \A p \in Proc \ S : Wakeup(S, c)[p] = c[p]
         /\ DOMAIN Wakeup(S, c) = Proc
         /\ c \in [Proc -> {"user", "call", "dozing", "asleep", "closing", "gone"}]
              => Wakeup(S, c) \in [Proc -> {"user", "call", "dozing", "asleep", "closing", "gone"}]
BY DEF Wakeup

\* The ends are told apart.
LEMMA Sides ==
  /\ \A r \in Reader : r \in Proc /\ r \notin Writer /\ Side(r) = Reader
  /\ \A w \in Writer : w \in Proc /\ w \notin Reader /\ Side(w) = Writer
  /\ \A p \in Proc : p \in Reader \/ p \in Writer
  /\ \A p \in Proc : \A q \in Side(p) : q \in Proc
BY PipeAssumption DEF PipeAssumption, Proc, Side

\* What is left of the invariant when pc and ret change together.
LEMMA KeepsCalls ==
  ASSUME CallsMatch, TypeOK, NEW p \in Proc, NEW a, NEW S, NEW b,
         pc' = Wakeup(S, [pc EXCEPT ![p] = a]), ret' = [ret EXCEPT ![p] = b],
         b = "busy" <=> a \in InCall
  PROVE  CallsMatch'
<1> DEFINE c == [pc EXCEPT ![p] = a]
<1>1. \A q \in Proc : c[q] = IF q = p THEN a ELSE pc[q]
  BY DEF TypeOK
<1>2. \A q \in Proc : ret'[q] = IF q = p THEN b ELSE ret[q]
  BY DEF TypeOK
<1> HIDE DEF c
<1>3. pc' = Wakeup(S, c)
  BY DEF c
<1>4. \A q \in Proc : pc'[q] = c[q] \/ (c[q] = "asleep" /\ pc'[q] = "call")
  BY <1>3, WakeupIs
<1>5. \A q \in Proc : pc'[q] \in InCall <=> c[q] \in InCall
  BY <1>4 DEF InCall
<1>6. QED
  BY <1>1, <1>2, <1>5 DEF CallsMatch

\* The ends stay in order while nobody closes one.
LEMMA KeepsEnds ==
  ASSUME EndsMatch, UNCHANGED ends,
         \A q \in Proc : /\ pc[q] = "gone" => pc'[q] = "gone"
                         /\ pc'[q] = "closing" => pc[q] = "closing"
  PROVE  EndsMatch'
<1>1. ASSUME NEW p \in Proc, pc'[p] = "closing", NEW q \in Side(p) \ {p} PROVE pc'[q] = "gone"
  BY <1>1, Sides DEF EndsMatch
<1>2. /\ ~readopen => \A r \in Reader : pc'[r] = "gone"
      /\ ~writeopen => \A w \in Writer : pc'[w] = "gone"
  BY Sides DEF EndsMatch
<1>3. QED
  BY <1>1, <1>2 DEF EndsMatch

\* While a process is in a call its end is open, and the page in use.
LEMMA CallerHasEnd ==
  ASSUME PipeInv, NEW p \in Proc, pc[p] # "gone"
  PROVE  /\ p \in Reader => readopen
         /\ p \in Writer => writeopen
         /\ ~freed
BY Sides DEF PipeInv, EndsMatch

\* A writer in a call stops, having woken the readers or failed.
LEMMA StopsIs ==
  ASSUME TypeOK, NEW w \in Writer, pc[w] = "call", LockFree, Stops(w)
  PROVE  /\ pc' \in [Proc -> {"user", "call", "dozing", "asleep", "closing", "gone"}]
         /\ ret' \in [Proc -> {"none", "busy", "ok", "end", "fail"}]
         /\ \A q \in Proc \ {w} : pc'[q] = pc[q] \/ (pc[q] = "asleep" /\ pc'[q] = "call")
         /\ \A q \in Proc \ {w} : ret'[q] = ret[q]
         /\ pc'[w] \in {"user", "dozing"}
         /\ pc'[w] = "dozing" => rest'[w] # <<>> /\ readopen /\ ret' = ret
         /\ pc'[w] = "user" => ret'[w] \in {"ok", "fail"}
         /\ \/ \A r \in Reader : pc'[r] \notin {"dozing", "asleep"}
            \/ ret'[w] = "fail" /\ (~readopen \/ w \in killed)
<1>1. w \in Proc /\ w \notin Reader /\ Reader \subseteq Proc
  BY Sides
<1>2. \A q \in Proc : pc[q] # "dozing"
  BY DEF LockFree
<1>3. ASSUME NEW a \in {"user", "dozing"}, pc' = Wakeup(Reader, [pc EXCEPT ![w] = a])
      PROVE  /\ pc' \in [Proc -> {"user", "call", "dozing", "asleep", "closing", "gone"}]
             /\ \A q \in Proc \ {w} : pc'[q] = pc[q] \/ (pc[q] = "asleep" /\ pc'[q] = "call")
             /\ pc'[w] = a
             /\ \A r \in Reader : pc'[r] \notin {"dozing", "asleep"}
  <2> DEFINE c == [pc EXCEPT ![w] = a]
  <2>1. /\ c \in [Proc -> {"user", "call", "dozing", "asleep", "closing", "gone"}]
        /\ c[w] = a /\ \A q \in Proc \ {w} : c[q] = pc[q]
    BY <1>1 DEF TypeOK
  <2> HIDE DEF c
  <2>2. pc' = Wakeup(Reader, c)
    BY <1>3 DEF c
  <2>3. /\ \A q \in Proc : pc'[q] = c[q] \/ (c[q] = "asleep" /\ pc'[q] = "call")
        /\ \A r \in Reader : pc'[r] # "asleep"
        /\ pc' \in [Proc -> {"user", "call", "dozing", "asleep", "closing", "gone"}]
    BY <1>1, <2>1, <2>2, WakeupIs
  <2>4. QED
    BY <1>1, <1>2, <2>1, <2>3
<1>4. ASSUME NEW b \in {"ok", "fail"}, ret' = [ret EXCEPT ![w] = b]
      PROVE  /\ ret' \in [Proc -> {"none", "busy", "ok", "end", "fail"}]
             /\ ret'[w] = b /\ \A q \in Proc \ {w} : ret'[q] = ret[q]
  BY <1>1, <1>4 DEF TypeOK
<1>5. CASE rest'[w] = <<>> /\ pc' = Wakeup(Reader, [pc EXCEPT ![w] = "user"])
           /\ ret' = [ret EXCEPT ![w] = "ok"]
  BY <1>3, <1>4, <1>5
<1>6. CASE /\ ~readopen \/ w \in killed
           /\ pc' = [pc EXCEPT ![w] = "user"] /\ ret' = [ret EXCEPT ![w] = "fail"]
  <2>1. /\ pc' \in [Proc -> {"user", "call", "dozing", "asleep", "closing", "gone"}]
        /\ pc'[w] = "user" /\ \A q \in Proc \ {w} : pc'[q] = pc[q]
    BY <1>1, <1>6 DEF TypeOK
  <2>2. QED
    BY <1>4, <1>6, <2>1
<1>7. CASE /\ rest'[w] # <<>> /\ readopen
           /\ pc' = Wakeup(Reader, [pc EXCEPT ![w] = "dozing"]) /\ ret' = ret
  BY <1>3, <1>7 DEF TypeOK
<1>8. QED
  BY <1>5, <1>6, <1>7 DEF Stops

\* pipewrite() keeps the invariant: who sleeps on an empty pipe is woken, but by a
\* writer that gives up, and the writer sleeps on a full one.
LEMMA PipeWriteStep ==
  ASSUME PipeInv, NEW w \in Writer, PipeWrite(w)
  PROVE  PipeInv'
<1>1. TypeOK /\ PIPESIZE \in Nat \ {0} /\ w \in Proc /\ pc[w] = "call" /\ LockFree
  BY PipeAssumption, Sides DEF PipeAssumption, PipeInv, SleepersHaveReason, PipeWrite
<1>2. /\ Written(w) \in 0 .. Len(rest[w]) /\ Count + Written(w) <= PIPESIZE
      /\ Count \in Nat /\ rest[w] \in Seq(Byte) /\ Len(rest[w]) \in Nat
      /\ nwrite' \in 0 .. Wrap - 1 /\ Count' = Count + Written(w)
      /\ data' = Buffer(w)
      /\ rest' = [rest EXCEPT ![w] = SubSeq(@, Written(w) + 1, Len(@))]
      /\ rest'[w] \in Seq(Byte)
      /\ rest'[w] # <<>> => Count' = PIPESIZE
      /\ Stops(w) /\ UNCHANGED <<nread, ends, got, killed>>
  BY WriteFacts
<1>3. /\ pc' \in [Proc -> {"user", "call", "dozing", "asleep", "closing", "gone"}]
      /\ ret' \in [Proc -> {"none", "busy", "ok", "end", "fail"}]
      /\ \A q \in Proc \ {w} : pc'[q] = pc[q] \/ (pc[q] = "asleep" /\ pc'[q] = "call")
      /\ \A q \in Proc \ {w} : ret'[q] = ret[q]
      /\ pc'[w] \in {"user", "dozing"}
      /\ pc'[w] = "dozing" => rest'[w] # <<>> /\ readopen /\ ret' = ret
      /\ pc'[w] = "user" => ret'[w] \in {"ok", "fail"}
      /\ \/ \A r \in Reader : pc'[r] \notin {"dozing", "asleep"}
         \/ ret'[w] = "fail" /\ (~readopen \/ w \in killed)
  BY <1>1, <1>2, StopsIs
<1>4. data' \in [0 .. PIPESIZE - 1 -> Byte]
  <2>1. ASSUME NEW i \in 0 .. PIPESIZE - 1 PROVE Buffer(w)[i] \in Byte
    <3>1. ASSUME NEW j \in 1 .. Written(w) PROVE rest[w][j] \in Byte
      BY <1>2, ElementOfSeq
    <3>2. QED
      BY <1>1, <3>1 DEF Buffer, TypeOK
  <2>2. DOMAIN Buffer(w) = 0 .. PIPESIZE - 1
    BY <1>1 DEF Buffer, TypeOK
  <2>3. Buffer(w) = [i \in 0 .. PIPESIZE - 1 |-> Buffer(w)[i]]
    BY <2>2 DEF Buffer
  <2>4. QED
    BY <1>2, <2>1, <2>3
<1>5. rest' \in [Writer -> Seq(Byte)]
  BY <1>1, <1>2 DEF TypeOK
<1>6. TypeOK'
  BY <1>1, <1>2, <1>3, <1>4, <1>5 DEF TypeOK
<1>7. ASSUME NEW r \in Reader, pc'[r] \in {"dozing", "asleep"}
      PROVE  writeopen' /\ GaveUp'
  <2>1. ret'[w] = "fail" /\ (~readopen \/ w \in killed) /\ r # w /\ r \in Proc
    BY <1>3, <1>7, Sides
  <2>2. pc[r] # "gone"
    BY <1>3, <1>7, <2>1
  <2>3. readopen /\ writeopen
    BY <1>1, <2>1, <2>2, CallerHasEnd
  <2>4. QED
    BY <1>2, <2>1, <2>3 DEF GaveUp
<1>8. ASSUME NEW v \in Writer, pc'[v] \in {"dozing", "asleep"}
      PROVE  Count' = PIPESIZE /\ readopen'
  <2>1. CASE v = w
    BY <1>2, <1>3, <1>8, <2>1
  <2>2. CASE v # w
    <3>1. v \in Proc /\ pc[v] \in {"dozing", "asleep"}
      BY <1>3, <1>8, <2>2, Sides
    <3>2. Count = PIPESIZE /\ readopen
      BY <3>1 DEF PipeInv, SleepersHaveReason
    <3>3. QED
      BY <1>1, <1>2, <3>2
  <2>3. QED
    BY <2>1, <2>2
<1>9. ~freed /\ ~freed'
  BY <1>1, <1>2, CallerHasEnd
<1>10. SleepersHaveReason'
  BY <1>2, <1>6, <1>7, <1>8, <1>9 DEF SleepersHaveReason
<1>11. CallsMatch'
  <2>1. \A q \in Proc \ {w} : pc'[q] \in InCall <=> pc[q] \in InCall
    BY <1>3 DEF InCall
  <2>2. ret[w] = "busy"
    BY <1>1 DEF PipeInv, CallsMatch, InCall
  <2>3. QED
    BY <1>3, <2>1, <2>2 DEF PipeInv, CallsMatch, InCall
<1>12. EndsMatch'
  BY <1>1, <1>2, <1>3, KeepsEnds DEF PipeInv
<1>13. QED
  BY <1>10, <1>11, <1>12 DEF PipeInv

\* A call enters the kernel, returns from it or dozes off in it: nobody else moves.
LEMMA OneMovesStep ==
  ASSUME PipeInv, NEW p \in Proc, NEW a \in {"user", "call", "dozing", "asleep"},
         pc[p] \notin {"closing", "gone"}, pc' = [pc EXCEPT ![p] = a],
         ret' \in [Proc -> {"none", "busy", "ok", "end", "fail"}],
         \A q \in Proc \ {p} : ret'[q] = ret[q],
         ret'[p] = "busy" <=> a \in InCall,
         p \in killed => ret'[p] = ret[p] \/ ret'[p] = "fail",
         rest' \in [Writer -> Seq(Byte)], got' \in [Reader -> Seq(Byte)],
         a \in {"dozing", "asleep"} =>
           /\ p \in Reader => writeopen /\ (nread = nwrite \/ GaveUp)
           /\ p \in Writer => Count = PIPESIZE /\ readopen,
         UNCHANGED <<pipe, ends, killed>>
  PROVE  PipeInv'
<1>1. TypeOK /\ SleepersHaveReason /\ CallsMatch /\ EndsMatch
  BY DEF PipeInv, SleepersHaveReason
<1>2. pc'[p] = a /\ \A q \in Proc \ {p} : pc'[q] = pc[q]
  BY <1>1 DEF TypeOK
<1>3. TypeOK'
  BY <1>1 DEF TypeOK
<1>4. Count' = Count /\ (GaveUp => GaveUp')
  <2>1. ASSUME NEW w \in Writer \cap killed, ret[w] = "fail" PROVE ret'[w] = "fail"
    BY <2>1, Sides
  <2>2. QED
    BY <2>1 DEF Count, GaveUp
<1>5. ASSUME NEW r \in Reader, pc'[r] \in {"dozing", "asleep"}
      PROVE  writeopen' /\ (nread' = nwrite' \/ GaveUp')
  BY <1>1, <1>2, <1>4, <1>5, Sides DEF SleepersHaveReason
<1>6. ASSUME NEW w \in Writer, pc'[w] \in {"dozing", "asleep"}
      PROVE  Count' = PIPESIZE /\ readopen'
  BY <1>1, <1>2, <1>4, <1>6, Sides DEF SleepersHaveReason
<1>7. freed' => \A q \in Proc : pc'[q] = "gone"
  BY <1>1 DEF SleepersHaveReason
<1>8. SleepersHaveReason'
  BY <1>1, <1>3, <1>4, <1>5, <1>6, <1>7 DEF SleepersHaveReason
<1>9. CallsMatch'
  BY <1>1, <1>2 DEF CallsMatch
<1>10. EndsMatch'
  BY <1>1, <1>2, KeepsEnds
<1>11. QED
  BY <1>8, <1>9, <1>10 DEF PipeInv

LEMMA WriteCallStep ==
  ASSUME PipeInv, NEW w \in Writer, WriteCall(w)
  PROVE  PipeInv'
<1>1. TypeOK /\ w \in Proc
  BY Sides DEF PipeInv, SleepersHaveReason
<1>2. PICK s \in String : rest' = [rest EXCEPT ![w] = s]
  BY DEF WriteCall
<1>3. s \in Seq(Byte)
  BY PipeAssumption DEF PipeAssumption
<1>4. rest' \in [Writer -> Seq(Byte)]
  BY <1>1, <1>2, <1>3 DEF TypeOK
<1>5. /\ pc[w] = "user" /\ w \notin killed /\ pc' = [pc EXCEPT ![w] = "call"]
      /\ ret' = [ret EXCEPT ![w] = "busy"] /\ UNCHANGED <<pipe, ends, got, killed>>
  BY DEF WriteCall
<1>6. /\ ret' \in [Proc -> {"none", "busy", "ok", "end", "fail"}]
      /\ ret'[w] = "busy" /\ \A q \in Proc \ {w} : ret'[q] = ret[q]
  BY <1>1, <1>5 DEF TypeOK
<1>7. QED
  BY <1>1, <1>4, <1>5, <1>6, OneMovesStep DEF InCall, TypeOK

LEMMA ReadCallStep ==
  ASSUME PipeInv, NEW r \in Reader, ReadCall(r)
  PROVE  PipeInv'
<1>1. TypeOK /\ r \in Proc
  BY Sides DEF PipeInv, SleepersHaveReason
<1>2. got' \in [Reader -> Seq(Byte)]
  BY <1>1, EmptySeq DEF TypeOK, ReadCall
<1>3. /\ pc[r] = "user" /\ r \notin killed /\ pc' = [pc EXCEPT ![r] = "call"]
      /\ ret' = [ret EXCEPT ![r] = "busy"] /\ UNCHANGED <<pipe, ends, rest, killed>>
  BY DEF ReadCall
<1>4. /\ ret' \in [Proc -> {"none", "busy", "ok", "end", "fail"}]
      /\ ret'[r] = "busy" /\ \A q \in Proc \ {r} : ret'[q] = ret[q]
  BY <1>1, <1>3 DEF TypeOK
<1>5. QED
  BY <1>1, <1>2, <1>3, <1>4, OneMovesStep DEF InCall, TypeOK

\* A reader goes to sleep on an empty pipe that may still be written to.
LEMMA PipeReadWaitsStep ==
  ASSUME PipeInv, NEW r \in Reader, PipeReadWaits(r)
  PROVE  PipeInv'
<1>1. TypeOK /\ r \in Proc /\ r \notin Writer
  BY Sides DEF PipeInv, SleepersHaveReason
<1>2. /\ pc[r] = "call" /\ nread = nwrite /\ writeopen
      /\ UNCHANGED <<pipe, ends, rest, got, killed>>
  BY DEF PipeReadWaits
<1>3. CASE pc' = [pc EXCEPT ![r] = "user"] /\ ret' = [ret EXCEPT ![r] = "fail"]
  <2>1. /\ ret' \in [Proc -> {"none", "busy", "ok", "end", "fail"}]
        /\ ret'[r] = "fail" /\ \A q \in Proc \ {r} : ret'[q] = ret[q]
    BY <1>1, <1>3 DEF TypeOK
  <2>2. QED
    BY <1>1, <1>2, <1>3, <2>1, OneMovesStep DEF InCall, TypeOK
<1>4. CASE pc' = [pc EXCEPT ![r] = "dozing"] /\ ret' = ret
  <2>1. ret[r] = "busy"
    BY <1>1, <1>2 DEF PipeInv, CallsMatch, InCall
  <2>2. QED
    BY <1>1, <1>2, <1>4, <2>1, OneMovesStep DEF InCall, TypeOK
<1>5. QED
  BY <1>3, <1>4 DEF PipeReadWaits

\* Who dozes falls asleep, for the reason it had.
LEMMA SleepStep ==
  ASSUME PipeInv, NEW p \in Proc, Sleep(p)
  PROVE  PipeInv'
<1>1. TypeOK /\ SleepersHaveReason /\ CallsMatch
  BY DEF PipeInv, SleepersHaveReason
<1>2. /\ pc[p] = "dozing" /\ pc' = [pc EXCEPT ![p] = "asleep"]
      /\ UNCHANGED <<pipe, ends, rest, got, ret, killed>>
  BY DEF Sleep
<1>3. ret[p] = "busy"
  BY <1>1, <1>2 DEF CallsMatch, InCall
<1>4. /\ p \in Reader => writeopen /\ (nread = nwrite \/ GaveUp)
      /\ p \in Writer => Count = PIPESIZE /\ readopen
  BY <1>1, <1>2 DEF SleepersHaveReason
<1>5. QED
  BY <1>1, <1>2, <1>3, <1>4, OneMovesStep DEF InCall, TypeOK

\* kill() wakes a sleeper, and takes nobody's reason to sleep away.
LEMMA KillStep ==
  ASSUME PipeInv, NEW p \in Proc, Kill(p)
  PROVE  PipeInv'
<1>1. TypeOK /\ SleepersHaveReason /\ CallsMatch /\ EndsMatch
  BY DEF PipeInv, SleepersHaveReason
<1>2. /\ killed' = killed \cup {p} /\ pc[p] # "gone" /\ pc' = Wakeup({p}, pc)
      /\ UNCHANGED <<pipe, ends, rest, got, ret>>
  BY DEF Kill
<1>3. /\ \A q \in Proc : pc'[q] = pc[q] \/ (pc[q] = "asleep" /\ pc'[q] = "call")
      /\ pc' \in [Proc -> {"user", "call", "dozing", "asleep", "closing", "gone"}]
  BY <1>1, <1>2, WakeupIs DEF TypeOK
<1>4. TypeOK'
  BY <1>1, <1>2, <1>3 DEF TypeOK
<1>5. Count' = Count /\ (GaveUp => GaveUp')
  BY <1>2 DEF Count, GaveUp
<1>6. \A q \in Proc : pc'[q] \in {"dozing", "asleep"} => pc[q] \in {"dozing", "asleep"}
  BY <1>3
<1>7. SleepersHaveReason'
  BY <1>1, <1>2, <1>3, <1>4, <1>5, <1>6, Sides DEF SleepersHaveReason
<1>8. CallsMatch'
  BY <1>1, <1>2, <1>3 DEF CallsMatch, InCall
<1>9. EndsMatch'
  BY <1>1, <1>2, <1>3, KeepsEnds
<1>10. QED
  BY <1>7, <1>8, <1>9 DEF PipeInv

\* piperead() wakes every writer.
LEMMA PipeReadStep ==
  ASSUME PipeInv, NEW r \in Reader, NEW n \in ReadSize, PipeRead(r, n)
  PROVE  PipeInv'
<1>1. TypeOK /\ SleepersHaveReason /\ CallsMatch /\ EndsMatch /\ r \in Proc /\ r \notin Writer
  BY Sides DEF PipeInv, SleepersHaveReason
<1>2. /\ ReadOf(n) \in 0 .. Count /\ Count \in Nat
      /\ ReadOf(n) = 0 => Count = 0 /\ ~writeopen
      /\ nread' \in 0 .. Wrap - 1 /\ Count' = Count - ReadOf(n)
      /\ got' = [got EXCEPT ![r] =
                   [i \in 1 .. ReadOf(n) |-> data[(nread + i - 1) % PIPESIZE]]]
      /\ got'[r] \in Seq(Byte)
      /\ pc' = Wakeup(Writer, [pc EXCEPT ![r] = "user"])
      /\ ret' = [ret EXCEPT ![r] = IF ReadOf(n) = 0 THEN "end" ELSE "ok"]
      /\ nread = nwrite => ~writeopen
      /\ UNCHANGED <<data, nwrite, ends, rest, killed>>
  BY ReadFacts
<1>3. pc[r] = "call" /\ \A q \in Proc : pc[q] # "dozing"
  BY DEF PipeRead, LockFree
<1>4. /\ \A q \in Proc \ {r} : pc'[q] = pc[q] \/ (pc[q] = "asleep" /\ pc'[q] = "call")
      /\ pc'[r] = "user"
      /\ \A w \in Writer : pc'[w] \notin {"dozing", "asleep"}
      /\ pc' \in [Proc -> {"user", "call", "dozing", "asleep", "closing", "gone"}]
  <2> DEFINE c == [pc EXCEPT ![r] = "user"]
  <2>1. /\ c \in [Proc -> {"user", "call", "dozing", "asleep", "closing", "gone"}]
        /\ c[r] = "user" /\ \A q \in Proc \ {r} : c[q] = pc[q]
    BY <1>1 DEF TypeOK
  <2> HIDE DEF c
  <2>2. pc' = Wakeup(Writer, c)
    BY <1>2 DEF c
  <2>3. /\ \A q \in Proc : pc'[q] = c[q] \/ (c[q] = "asleep" /\ pc'[q] = "call")
        /\ \A w \in Writer : pc'[w] # "asleep"
        /\ pc' \in [Proc -> {"user", "call", "dozing", "asleep", "closing", "gone"}]
    BY <2>1, <2>2, WakeupIs, Sides
  <2>4. QED
    BY <1>1, <1>3, <2>1, <2>3, Sides
<1>5. /\ ret' \in [Proc -> {"none", "busy", "ok", "end", "fail"}]
      /\ ret'[r] \in {"end", "ok"} /\ \A q \in Proc \ {r} : ret'[q] = ret[q]
  BY <1>1, <1>2 DEF TypeOK
<1>6. got' \in [Reader -> Seq(Byte)]
  BY <1>1, <1>2 DEF TypeOK
<1>7. TypeOK'
  BY <1>1, <1>2, <1>4, <1>5, <1>6 DEF TypeOK
<1>8. ASSUME NEW q \in Reader, pc'[q] \in {"dozing", "asleep"}
      PROVE  writeopen' /\ GaveUp'
  <2>1. q \in Proc /\ q # r /\ pc[q] \in {"dozing", "asleep"}
    BY <1>4, <1>8, Sides
  <2>2. writeopen /\ GaveUp
    BY <1>1, <1>2, <2>1 DEF SleepersHaveReason
  <2>3. GaveUp'
    BY <1>1, <1>2, <1>5, <2>2, Sides DEF GaveUp
  <2>4. QED
    BY <1>2, <2>2, <2>3
<1>9. Count' <= PIPESIZE
  BY <1>1, <1>2, PipeAssumption DEF SleepersHaveReason, PipeAssumption
<1>10. ~freed'
  BY <1>1, <1>2, <1>3, CallerHasEnd
<1>11. SleepersHaveReason'
  BY <1>4, <1>7, <1>8, <1>9, <1>10 DEF SleepersHaveReason
<1>12. CallsMatch'
  BY <1>1, <1>3, <1>4, <1>5 DEF CallsMatch, InCall
<1>13. EndsMatch'
  BY <1>1, <1>2, <1>3, <1>4, KeepsEnds
<1>14. QED
  BY <1>11, <1>12, <1>13 DEF PipeInv

\* fileclose() lets go of an end, and only the last one closes it.
LEMMA FileCloseStep ==
  ASSUME PipeInv, NEW p \in Proc, FileClose(p)
  PROVE  PipeInv'
<1>1. TypeOK /\ SleepersHaveReason /\ CallsMatch /\ EndsMatch
  BY DEF PipeInv, SleepersHaveReason
<1>2. /\ pc[p] = "user" /\ UNCHANGED <<pipe, ends, rest, got, ret, killed>>
      /\ \/ /\ \A q \in Side(p) \ {p} : pc[q] \in {"closing", "gone"}
            /\ pc' = [pc EXCEPT ![p] = "closing"]
         \/ pc' = [pc EXCEPT ![p] = "gone"]
  BY DEF FileClose
<1>3. /\ pc'[p] \in {"closing", "gone"} /\ \A q \in Proc \ {p} : pc'[q] = pc[q]
      /\ pc' \in [Proc -> {"user", "call", "dozing", "asleep", "closing", "gone"}]
  BY <1>1, <1>2 DEF TypeOK
<1>4. TypeOK'
  BY <1>1, <1>2, <1>3 DEF TypeOK
<1>5. Count' = Count /\ GaveUp' = GaveUp
  BY <1>2 DEF Count, GaveUp
<1>6. \A q \in Proc : pc'[q] \in {"dozing", "asleep"} => pc[q] \in {"dozing", "asleep"}
  BY <1>3
<1>7. ~freed' /\ ~freed
  BY <1>2, CallerHasEnd
<1>8. SleepersHaveReason'
  BY <1>1, <1>2, <1>4, <1>5, <1>6, <1>7, Sides DEF SleepersHaveReason
<1>9. CallsMatch'
  BY <1>1, <1>2, <1>3 DEF CallsMatch, InCall
<1>10. EndsMatch'
  <2>1. ASSUME NEW q \in Proc, pc'[q] = "closing", NEW t \in Side(q) \ {q}
        PROVE  pc'[t] = "gone"
    <3>1. t \in Proc /\ q \in Side(t) /\ Side(t) = Side(q)
      BY <2>1, Sides
    <3>2. CASE q = p
      <4>1. pc[t] \in {"closing", "gone"} /\ pc'[t] = pc[t]
        BY <1>1, <1>2, <1>3, <2>1, <3>1, <3>2 DEF TypeOK
      <4>2. pc[t] # "closing"
        BY <1>1, <1>2, <2>1, <3>1, <3>2 DEF EndsMatch
      <4>3. QED
        BY <4>1, <4>2
    <3>3. CASE q # p
      <4>1. pc[q] = "closing" /\ pc[t] = "gone"
        BY <1>1, <1>3, <2>1, <3>3 DEF EndsMatch
      <4>2. QED
        BY <1>2, <1>3, <3>1, <4>1
    <3>4. QED
      BY <3>2, <3>3
  <2>2. /\ ~readopen => \A r \in Reader : pc'[r] = "gone"
        /\ ~writeopen => \A w \in Writer : pc'[w] = "gone"
    BY <1>1, <1>2, <1>3, Sides DEF EndsMatch
  <2>3. QED
    BY <1>1, <1>2, <2>1, <2>2 DEF EndsMatch
<1>11. QED
  BY <1>8, <1>9, <1>10 DEF PipeInv

\* pipeclose() wakes the other end, and gives the page back when nobody is left.
LEMMA PipeCloseStep ==
  ASSUME PipeInv, NEW p \in Proc, PipeClose(p)
  PROVE  PipeInv'
<1>1. TypeOK /\ SleepersHaveReason /\ CallsMatch /\ EndsMatch
  BY DEF PipeInv, SleepersHaveReason
<1>2. /\ pc[p] = "closing" /\ \A q \in Proc : pc[q] # "dozing"
      /\ \/ p \in Writer /\ writeopen' = FALSE /\ readopen' = readopen
         \/ p \in Reader /\ readopen' = FALSE /\ writeopen' = writeopen
      /\ pc' = Wakeup(Proc \ Side(p), [pc EXCEPT ![p] = "gone"])
      /\ freed' = (~readopen' /\ ~writeopen')
      /\ UNCHANGED <<pipe, rest, got, ret, killed>>
  BY Sides DEF PipeClose, LockFree
<1>3. /\ \A q \in Proc \ {p} : pc'[q] = pc[q] \/ (pc[q] = "asleep" /\ pc'[q] = "call")
      /\ pc'[p] = "gone" /\ \A q \in Proc \ Side(p) : pc'[q] # "asleep"
      /\ pc' \in [Proc -> {"user", "call", "dozing", "asleep", "closing", "gone"}]
  <2> DEFINE c == [pc EXCEPT ![p] = "gone"]
  <2>1. /\ c \in [Proc -> {"user", "call", "dozing", "asleep", "closing", "gone"}]
        /\ c[p] = "gone" /\ \A q \in Proc \ {p} : c[q] = pc[q]
    BY <1>1 DEF TypeOK
  <2> HIDE DEF c
  <2>2. pc' = Wakeup(Proc \ Side(p), c)
    BY <1>2 DEF c
  <2>3. /\ \A q \in Proc : pc'[q] = c[q] \/ (c[q] = "asleep" /\ pc'[q] = "call")
        /\ \A q \in Proc \ Side(p) : pc'[q] # "asleep"
        /\ pc' \in [Proc -> {"user", "call", "dozing", "asleep", "closing", "gone"}]
    BY <2>1, <2>2, WakeupIs
  <2>4. QED
    BY <2>1, <2>3
<1>4. \A q \in Side(p) : q \in Proc /\ pc'[q] = "gone"
  BY <1>1, <1>2, <1>3, Sides DEF EndsMatch
<1>5. TypeOK'
  BY <1>1, <1>2, <1>3 DEF TypeOK
<1>6. Count' = Count /\ GaveUp' = GaveUp
  BY <1>2 DEF Count, GaveUp
<1>7. \A q \in Proc : pc'[q] \notin {"dozing", "asleep"}
  BY <1>2, <1>3, <1>4
<1>8. /\ ~readopen' => \A r \in Reader : pc'[r] = "gone"
      /\ ~writeopen' => \A w \in Writer : pc'[w] = "gone"
  <2>1. CASE p \in Writer
    <3>1. \A w \in Writer : pc'[w] = "gone"
      BY <1>4, <2>1, Sides
    <3>2. readopen' = readopen /\ \A r \in Reader : r \in Proc /\ r # p
      BY <1>2, <2>1, Sides
    <3>3. QED
      BY <1>1, <1>3, <3>1, <3>2 DEF EndsMatch
  <2>2. CASE p \in Reader
    <3>1. \A r \in Reader : pc'[r] = "gone"
      BY <1>4, <2>2, Sides
    <3>2. writeopen' = writeopen /\ \A w \in Writer : w \in Proc /\ w # p
      BY <1>2, <2>2, Sides
    <3>3. QED
      BY <1>1, <1>3, <3>1, <3>2 DEF EndsMatch
  <2>3. QED
    BY <2>1, <2>2, Sides
<1>9. SleepersHaveReason'
  BY <1>1, <1>2, <1>5, <1>6, <1>7, <1>8, Sides DEF SleepersHaveReason
<1>10. CallsMatch'
  BY <1>1, <1>2, <1>3 DEF CallsMatch, InCall
<1>11. EndsMatch'
  <2>1. ASSUME NEW q \in Proc, pc'[q] = "closing", NEW t \in Side(q) \ {q}
        PROVE  pc'[t] = "gone"
    BY <1>1, <1>2, <1>3, <2>1, Sides DEF EndsMatch
  <2>2. QED
    BY <1>2, <1>8, <2>1 DEF EndsMatch
<1>12. QED
  BY <1>9, <1>10, <1>11 DEF PipeInv

-----------------------------------------------------------------------------
(* The theorems. *)

\* Every step of a pipe keeps its invariant.
LEMMA PipeStep == PipeInv /\ [Next]_vars => PipeInv'
<1> SUFFICES ASSUME PipeInv, [Next]_vars PROVE PipeInv'
  OBVIOUS
<1>1. ASSUME NEW p \in Proc, Goes(p) PROVE PipeInv'
  BY <1>1, PipeWriteStep, PipeReadWaitsStep, PipeReadStep, SleepStep, PipeCloseStep DEF Goes
<1>2. ASSUME UNCHANGED vars PROVE PipeInv'
  BY <1>2 DEF vars, PipeInv, SleepersHaveReason, TypeOK, CallsMatch, EndsMatch, Count, GaveUp
<1>3. QED
  BY <1>1, <1>2, WriteCallStep, ReadCallStep, KillStep, FileCloseStep DEF Next

\* The invariant of a pipe, which the refinement rests on too.
THEOREM PipeCorrect == Spec => []PipeInv
BY PipeInit, PipeStep, PTL DEF Spec

\* No wakeup of pipe.c is lost, but for the one a killed writer owes; the bytes in
\* the pipe never exceed PIPESIZE, whether or not its counters have wrapped; and the
\* page is given back only when nobody can touch it.
THEOREM NoLostWakeup == Spec => []SleepersHaveReason
<1>1. PipeInv => SleepersHaveReason
  BY DEF PipeInv
<1>2. QED
  BY <1>1, PipeCorrect, PTL

-----------------------------------------------------------------------------
(* The pipe implements a queue of bytes. *)

\* The bytes of a buffer that are between the counters, the oldest first.
QueueOf(d, n, c) == [i \in 1 .. c |-> d[(n + i - 1) % PIPESIZE]]

LEMMA QueueSeq ==
  ASSUME NEW d \in [0 .. PIPESIZE - 1 -> Byte], NEW n \in Int, NEW c \in Nat
  PROVE  /\ QueueOf(d, n, c) \in Seq(Byte) /\ Len(QueueOf(d, n, c)) = c
         /\ \A i \in 1 .. c : QueueOf(d, n, c)[i] = d[(n + i - 1) % PIPESIZE]
<1>1. PIPESIZE \in Nat \ {0}
  BY PipeAssumption DEF PipeAssumption
<1>2. \A i \in 1 .. c : (n + i - 1) % PIPESIZE \in 0 .. PIPESIZE - 1
  BY <1>1, ModExists
<1>3. QueueOf(d, n, c) \in [1 .. c -> Byte]
  BY <1>2 DEF QueueOf
<1>4. QueueOf(d, n, c) \in Seq(Byte)
  BY <1>3, SeqDef
<1>5. Len(QueueOf(d, n, c)) = c
  BY <1>3, <1>4, LenProperties
<1>6. QED
  BY <1>4, <1>5 DEF QueueOf

\* What has been read leaves the front of the queue.
LEMMA QueueRead ==
  ASSUME NEW d \in [0 .. PIPESIZE - 1 -> Byte], NEW n \in Int, NEW m \in Int, NEW c \in Nat,
         NEW k \in 0 .. c, m = n + k \/ m = n + k - Wrap
  PROVE  /\ QueueOf(d, n, k) = SubSeq(QueueOf(d, n, c), 1, k)
         /\ QueueOf(d, m, c - k) = SubSeq(QueueOf(d, n, c), k + 1, c)
<1> DEFINE q == QueueOf(d, n, c)
<1>1. /\ q \in Seq(Byte) /\ Len(q) = c
      /\ \A i \in 1 .. c : q[i] \in Byte /\ q[i] = d[(n + i - 1) % PIPESIZE]
  BY QueueSeq, ElementOfSeq
<1> HIDE DEF q
<1>2. Wrap \in Nat /\ k \in Nat /\ c - k \in Nat
  BY PipeAssumption DEF PipeAssumption
<1>3. QueueOf(d, n, k) = SubSeq(q, 1, k)
  <2>1. /\ SubSeq(q, 1, k) \in Seq(Byte) /\ Len(SubSeq(q, 1, k)) = k
        /\ \A i \in 1 .. k : SubSeq(q, 1, k)[i] = q[i]
    BY <1>1, SubSeqProperties
  <2>2. /\ QueueOf(d, n, k) \in Seq(Byte) /\ Len(QueueOf(d, n, k)) = k
        /\ \A i \in 1 .. k : QueueOf(d, n, k)[i] = d[(n + i - 1) % PIPESIZE]
    BY <1>2, QueueSeq
  <2>3. QED
    BY <1>1, <2>1, <2>2, SeqEqual
<1>4. QueueOf(d, m, c - k) = SubSeq(q, k + 1, c)
  <2>1. /\ SubSeq(q, k + 1, c) \in Seq(Byte) /\ Len(SubSeq(q, k + 1, c)) = c - k
        /\ \A i \in 1 .. c - k : SubSeq(q, k + 1, c)[i] = q[k + 1 + i - 1]
    BY <1>1, SubSeqProperties
  <2>2. /\ QueueOf(d, m, c - k) \in Seq(Byte) /\ Len(QueueOf(d, m, c - k)) = c - k
        /\ \A i \in 1 .. c - k : QueueOf(d, m, c - k)[i] = d[(m + i - 1) % PIPESIZE]
    BY <1>2, QueueSeq
  <2>3. ASSUME NEW i \in 1 .. c - k
        PROVE  (m + i - 1) % PIPESIZE = (n + (k + i) - 1) % PIPESIZE
    <3>1. CASE m = n + k
      <4>1. m + i - 1 = n + (k + i) - 1
        BY <3>1
      <4>2. QED
        BY <4>1
    <3>2. CASE m = n + k - Wrap
      <4>1. m + i - 1 + Wrap = n + (k + i) - 1 /\ m + i - 1 \in Int
        BY <1>2, <3>2
      <4>2. (m + i - 1 + Wrap) % PIPESIZE = (m + i - 1) % PIPESIZE
        BY <4>1, WrapSamePlace
      <4>3. QED
        BY <4>1, <4>2
    <3>3. QED
      BY <3>1, <3>2
  <2>4. \A i \in 1 .. c - k : k + i \in 1 .. c /\ k + 1 + i - 1 = k + i
    OBVIOUS
  <2>5. ASSUME NEW i \in 1 .. c - k PROVE QueueOf(d, m, c - k)[i] = SubSeq(q, k + 1, c)[i]
    <3>1. QueueOf(d, m, c - k)[i] = d[(n + (k + i) - 1) % PIPESIZE]
      BY <2>2, <2>3
    <3>2. SubSeq(q, k + 1, c)[i] = q[k + i]
      BY <2>1, <2>4
    <3>3. q[k + i] = d[(n + (k + i) - 1) % PIPESIZE]
      BY <1>1, <2>4
    <3>4. QED
      BY <3>1, <3>2, <3>3
  <2>6. QED
    BY <2>1, <2>2, <2>5, SeqEqual
<1>5. QED
  BY <1>3, <1>4 DEF q

\* The buffer when the first k bytes of a string have gone into it.
BufferOf(d, m, s, k) ==
  [i \in 0 .. PIPESIZE - 1 |->
     IF \E j \in 1 .. k : i = (m + j - 1) % PIPESIZE
     THEN s[CHOOSE j \in 1 .. k : i = (m + j - 1) % PIPESIZE] ELSE d[i]]

\* What has been written joins the queue at its end, and overwrites nothing in it.
LEMMA QueueWritten ==
  ASSUME NEW d \in [0 .. PIPESIZE - 1 -> Byte],
         NEW n \in Int, NEW m \in Int, NEW c \in Nat, m = n + c \/ m = n + c - Wrap,
         NEW s \in Seq(Byte), NEW k \in 0 .. Len(s), c + k <= PIPESIZE,
         BufferOf(d, m, s, k) \in [0 .. PIPESIZE - 1 -> Byte]
  PROVE  QueueOf(BufferOf(d, m, s, k), n, c + k) = QueueOf(d, n, c) \o SubSeq(s, 1, k)
<1> DEFINE e == BufferOf(d, m, s, k)
<1>e. /\ e \in [0 .. PIPESIZE - 1 -> Byte]
      /\ e = [i \in 0 .. PIPESIZE - 1 |->
                IF \E j \in 1 .. k : i = (m + j - 1) % PIPESIZE
                THEN s[CHOOSE j \in 1 .. k : i = (m + j - 1) % PIPESIZE] ELSE d[i]]
  BY DEF BufferOf
<1> HIDE DEF e
<1>1. PIPESIZE \in Nat \ {0} /\ Wrap \in Nat /\ Len(s) \in Nat /\ k \in Nat /\ c + k \in Nat
  BY PipeAssumption, LenProperties DEF PipeAssumption
<1>2. ASSUME NEW j \in 1 .. k PROVE (m + j - 1) % PIPESIZE = (n + (c + j) - 1) % PIPESIZE
  <2>1. CASE m = n + c
    <3>1. m + j - 1 = n + (c + j) - 1
      BY <2>1
    <3>2. QED
      BY <3>1
  <2>2. CASE m = n + c - Wrap
    <3>1. m + j - 1 + Wrap = n + (c + j) - 1 /\ m + j - 1 \in Int
      BY <1>1, <2>2
    <3>2. (m + j - 1 + Wrap) % PIPESIZE = (m + j - 1) % PIPESIZE
      BY <3>1, WrapSamePlace
    <3>3. QED
      BY <3>1, <3>2
  <2>3. QED
    BY <2>1, <2>2
<1>3. ASSUME NEW i \in 1 .. c + k, NEW j \in 1 .. c + k,
             (n + i - 1) % PIPESIZE = (n + j - 1) % PIPESIZE
      PROVE  i = j
  <2>1. CASE i < j
    <3>1. n + i - 1 \in Int /\ n + j - 1 \in Int /\ n + i - 1 < n + j - 1
          /\ n + j - 1 < n + i - 1 + PIPESIZE
      BY <1>1, <2>1
    <3>2. QED
      BY <1>1, <1>3, <3>1, ModDistinct
  <2>2. CASE j < i
    <3>1. n + i - 1 \in Int /\ n + j - 1 \in Int /\ n + j - 1 < n + i - 1
          /\ n + i - 1 < n + j - 1 + PIPESIZE
      BY <1>1, <2>2
    <3>2. QED
      BY <1>1, <1>3, <3>1, ModDistinct
  <2>3. QED
    BY <2>1, <2>2
<1>4. \A i \in 1 .. c + k : (n + i - 1) % PIPESIZE \in 0 .. PIPESIZE - 1
  BY <1>1, ModExists
<1>5. ASSUME NEW i \in 1 .. c PROVE e[(n + i - 1) % PIPESIZE] = d[(n + i - 1) % PIPESIZE]
  <2>1. ASSUME NEW j \in 1 .. k PROVE (n + i - 1) % PIPESIZE # (m + j - 1) % PIPESIZE
    <3>1. i \in 1 .. c + k /\ c + j \in 1 .. c + k /\ i # c + j
      BY <1>1
    <3>2. (n + i - 1) % PIPESIZE # (n + (c + j) - 1) % PIPESIZE
      BY <1>3, <3>1
    <3>3. QED
      BY <1>2, <3>2
  <2>2. (n + i - 1) % PIPESIZE \in 0 .. PIPESIZE - 1
    BY <1>1, <1>4
  <2>3. QED
    BY <1>e, <2>1, <2>2
<1>6. ASSUME NEW j \in 1 .. k PROVE e[(n + (c + j) - 1) % PIPESIZE] = s[j]
  <2> DEFINE x == (n + (c + j) - 1) % PIPESIZE
  <2>1. c + j \in 1 .. c + k
    BY <1>1
  <2>2. x \in 0 .. PIPESIZE - 1 /\ x = (m + j - 1) % PIPESIZE
    BY <1>2, <1>4, <2>1
  <2>3. ASSUME NEW t \in 1 .. k, x = (m + t - 1) % PIPESIZE PROVE t = j
    <3>1. c + t \in 1 .. c + k /\ x = (n + (c + t) - 1) % PIPESIZE
      BY <1>1, <1>2, <2>3
    <3>2. c + t = c + j
      BY <1>3, <2>1, <3>1
    <3>3. QED
      BY <1>1, <3>2
  <2> HIDE DEF x
  <2>4. (CHOOSE t \in 1 .. k : x = (m + t - 1) % PIPESIZE) = j
    BY <2>2, <2>3
  <2>5. e[x] = s[j]
    BY <1>e, <2>2, <2>4
  <2>6. QED
    BY <2>5 DEF x
<1> DEFINE q == QueueOf(d, n, c)
           u == SubSeq(s, 1, k)
           r == QueueOf(e, n, c + k)
<1>7. /\ q \in Seq(Byte) /\ Len(q) = c
      /\ \A i \in 1 .. c : q[i] = d[(n + i - 1) % PIPESIZE]
  BY QueueSeq
<1>8. /\ r \in Seq(Byte) /\ Len(r) = c + k
      /\ \A i \in 1 .. c + k : r[i] = e[(n + i - 1) % PIPESIZE]
  BY <1>1, <1>e, QueueSeq
<1>9. u \in Seq(Byte) /\ Len(u) = k /\ \A j \in 1 .. k : u[j] = s[j]
  <2>1. \A j \in 1 .. k : s[j] \in Byte
    BY <1>1, ElementOfSeq
  <2>2. QED
    BY <1>1, <2>1, SubSeqProperties
<1> HIDE DEF q, u, r
<1>10. /\ q \o u \in Seq(Byte) /\ Len(q \o u) = c + k
       /\ \A i \in 1 .. c + k : (q \o u)[i] = IF i <= c THEN q[i] ELSE u[i - c]
  BY <1>7, <1>9, ConcatProperties
<1>11. ASSUME NEW i \in 1 .. c + k PROVE r[i] = (q \o u)[i]
  <2> c + k \in Nat /\ i \in Nat /\ (i <= c \/ i > c)
    BY <1>1
  <2>1. CASE i <= c
    <3>1. i \in 1 .. c
      BY <2>1
    <3>2. r[i] = d[(n + i - 1) % PIPESIZE]
      BY <1>5, <1>8, <3>1
    <3>3. QED
      BY <1>7, <1>10, <2>1, <3>1, <3>2
  <2>2. CASE i > c
    <3>1. i - c \in 1 .. k /\ c + (i - c) = i
      BY <1>1, <2>2
    <3>2. e[(n + i - 1) % PIPESIZE] = s[i - c]
      BY <1>6, <3>1
    <3>3. r[i] = s[i - c]
      BY <1>8, <3>2
    <3>4. (q \o u)[i] = u[i - c] /\ u[i - c] = s[i - c]
      BY <1>9, <1>10, <2>2, <3>1
    <3>5. QED
      BY <3>3, <3>4
  <2>3. QED
    BY <2>1, <2>2
<1>12. r = q \o u
  BY <1>8, <1>10, <1>11, SeqEqual
<1>13. QED
  BY <1>12 DEF e, q, u, r

\* What the refinement maps the queue to, before and after a step.
LEMMA QueueIs ==
  /\ QueueOf(data, nread, Count) = [i \in 1 .. Count |-> data[(nread + i - 1) % PIPESIZE]]
  /\ QueueOf(data', nread', Count') =
       [i \in 1 .. Count |-> data[(nread + i - 1) % PIPESIZE]]'
BY DEF QueueOf

\* pipewrite() puts the next bytes of its string into the queue.
LEMMA WriteIsPut ==
  ASSUME PipeInv, PipeInv', NEW w \in Writer, PipeWrite(w)
  PROVE  Queue!Put(w, Written(w))
<1> DEFINE k == Written(w)
<1>1. TypeOK /\ data' \in [0 .. PIPESIZE - 1 -> Byte] /\ w \in Proc /\ pc[w] = "call"
  BY Sides DEF PipeInv, SleepersHaveReason, TypeOK, PipeWrite
<1>2. /\ k \in 0 .. Len(rest[w]) /\ Count + k <= PIPESIZE
      /\ Count \in Nat /\ rest[w] \in Seq(Byte) /\ Count' = Count + k
      /\ data' = Buffer(w)
      /\ rest' = [rest EXCEPT ![w] = SubSeq(@, k + 1, Len(@))]
      /\ Stops(w) /\ UNCHANGED <<nread, ends, got, killed>>
  BY WriteFacts
<1>3. data' = BufferOf(data, nwrite, rest[w], k)
  BY <1>1, <1>2 DEF Buffer, Place, TypeOK, BufferOf
<1> HIDE DEF k
<1>4. nwrite = nread + Count \/ nwrite = nread + Count - Wrap
  BY <1>1, CountSplits, CountIs DEF TypeOK
<1>5. /\ data \in [0 .. PIPESIZE - 1 -> Byte] /\ nread \in Int /\ nwrite \in Int
  BY <1>1 DEF TypeOK
<1>6. QueueOf(data', nread, Count + k) = QueueOf(data, nread, Count) \o SubSeq(rest[w], 1, k)
  <2>1. BufferOf(data, nwrite, rest[w], k) \in [0 .. PIPESIZE - 1 -> Byte]
    BY <1>1, <1>3
  <2>2. QueueOf(BufferOf(data, nwrite, rest[w], k), nread, Count + k)
          = QueueOf(data, nread, Count) \o SubSeq(rest[w], 1, k)
    BY <1>2, <1>4, <1>5, <2>1, QueueWritten
  <2>3. QED
    BY <1>3, <2>2
<1>7. QueueOf(data', nread', Count') = QueueOf(data, nread, Count) \o SubSeq(rest[w], 1, k)
  BY <1>2, <1>6
<1>8. Len(QueueOf(data, nread, Count)) = Count
  BY <1>2, <1>5, QueueSeq
<1>9. ret[w] = "busy"
  BY <1>1 DEF PipeInv, CallsMatch, InCall
<1>10. \/ rest'[w] # <<>> /\ UNCHANGED ret
       \/ rest'[w] = <<>> /\ ret' = [ret EXCEPT ![w] = "ok"]
       \/ /\ rest'[w] # <<>> /\ (~readopen \/ w \in killed)
          /\ ret' = [ret EXCEPT ![w] = "fail"]
  BY <1>2 DEF Stops
<1>11. Queue!Put(w, k)
  BY <1>2, <1>7, <1>8, <1>9, <1>10, QueueIs DEF Queue!Put
<1>12. QED
  BY <1>11 DEF k

\* piperead() takes bytes from the front of the queue, or reports the end.
LEMMA ReadIsGet ==
  ASSUME PipeInv, NEW r \in Reader, NEW n \in ReadSize, PipeRead(r, n)
  PROVE  Queue!Get(r, ReadOf(n))
<1> DEFINE k == ReadOf(n)
           q == QueueOf(data, nread, Count)
<1>1. TypeOK /\ r \in Proc /\ pc[r] = "call" /\ Wrap \in Nat
  BY PipeAssumption, Sides DEF PipeAssumption, PipeInv, SleepersHaveReason, PipeRead
<1>2. /\ k \in 0 .. Count /\ Count \in Nat
      /\ k = 0 => Count = 0 /\ ~writeopen
      /\ nread' \in 0 .. Wrap - 1 /\ Count' = Count - k
      /\ got' = [got EXCEPT ![r] = [i \in 1 .. k |-> data[(nread + i - 1) % PIPESIZE]]]
      /\ ret' = [ret EXCEPT ![r] = IF k = 0 THEN "end" ELSE "ok"]
      /\ UNCHANGED <<data, nwrite, ends, rest, killed>>
  BY ReadFacts
<1> HIDE DEF k
<1>3. nread' = nread + k \/ nread' = nread + k - Wrap
  <2>1. nwrite = nread + Count \/ nwrite = nread + Count - Wrap
    BY <1>1, CountSplits, CountIs DEF TypeOK
  <2>2. nwrite = nread' + Count' \/ nwrite = nread' + Count' - Wrap
    BY <1>1, <1>2, CountSplits, CountIs DEF TypeOK
  <2>3. nread \in 0 .. Wrap - 1 /\ nwrite \in 0 .. Wrap - 1
    BY <1>1 DEF TypeOK
  <2>4. nread' = (nread + k) % Wrap
    BY DEF PipeRead, ReadOf, k
  <2>5. k \in 0 .. Wrap - 1
    BY <1>1, <1>2, <2>3, CountSplits, CountIs
  <2>6. QED
    BY <2>3, <2>4, <2>5, CounterGoes
<1>4. data \in [0 .. PIPESIZE - 1 -> Byte] /\ nread \in Int /\ nread' \in Int
  BY <1>1, <1>2 DEF TypeOK
<1>5. /\ QueueOf(data, nread, k) = SubSeq(q, 1, k)
      /\ QueueOf(data, nread', Count - k) = SubSeq(q, k + 1, Count)
  BY <1>2, <1>3, <1>4, QueueRead
<1>6. Len(q) = Count
  BY <1>2, <1>4, QueueSeq
<1>7. QueueOf(data', nread', Count') = SubSeq(q, k + 1, Len(q))
  BY <1>2, <1>5, <1>6
<1>8. got' = [got EXCEPT ![r] = SubSeq(q, 1, k)]
  BY <1>2, <1>5 DEF QueueOf
<1>9. ret[r] = "busy"
  BY <1>1 DEF PipeInv, CallsMatch, InCall
<1>10. k = 0 => q = <<>> /\ ~writeopen
  <2>1. q \in Seq(Byte)
    BY <1>2, <1>4, QueueSeq
  <2>2. QED
    BY <1>2, <1>6, <2>1, EmptySeq
<1> HIDE DEF q
<1>11. q = [i \in 1 .. Count |-> data[(nread + i - 1) % PIPESIZE]]
  BY QueueIs DEF q
<1>12. Queue!Get(r, k)
  BY <1>2, <1>7, <1>8, <1>9, <1>10, <1>11, QueueIs DEF Queue!Get
<1>13. QED
  BY <1>12 DEF k

\* Each step of the pipe is a step of the queue, or none.
LEMMA AbstractStep == PipeInv /\ PipeInv' /\ [Next]_vars => [Queue!Next]_(Queue!vars)
<1> SUFFICES ASSUME PipeInv, PipeInv', [Next]_vars PROVE [Queue!Next]_(Queue!vars)
  OBVIOUS
<1>1. TypeOK /\ TypeOK' /\ CallsMatch
  BY DEF PipeInv, SleepersHaveReason
<1>b. data \in [0 .. PIPESIZE - 1 -> Byte] /\ nread \in Int
  BY <1>1, PipeAssumption DEF TypeOK, PipeAssumption
<1>2. ASSUME UNCHANGED <<pipe, rest, got, ret, readopen, writeopen, killed>>
      PROVE  UNCHANGED Queue!vars
  BY <1>2 DEF Queue!vars, Count
<1>3. ASSUME NEW w \in Writer, WriteCall(w) PROVE Queue!StartWrite(w)
  <2>1. PICK s \in String : rest' = [rest EXCEPT ![w] = s]
    BY <1>3 DEF WriteCall
  <2>2. s \in Seq(Byte) /\ s # <<>>
    BY PipeAssumption DEF PipeAssumption
  <2>3. rest'[w] = s
    BY <1>1, <2>1 DEF TypeOK
  <2>4. ret[w] # "busy"
    BY <1>1, <1>3, Sides DEF CallsMatch, WriteCall, InCall
  <2>5. ret' = [ret EXCEPT ![w] = "busy"] /\ UNCHANGED <<pipe, got, ends, killed>>
    BY <1>3 DEF WriteCall
  <2>6. QED
    BY <2>1, <2>2, <2>3, <2>4, <2>5 DEF Queue!StartWrite, Count
<1>4. ASSUME NEW r \in Reader, ReadCall(r) PROVE Queue!StartRead(r)
  <2>1. ret[r] # "busy"
    BY <1>1, <1>4, Sides DEF CallsMatch, ReadCall, InCall
  <2>2. QED
    BY <1>4, <2>1 DEF ReadCall, Queue!StartRead, Count
<1>5. ASSUME NEW w \in Writer, PipeWrite(w) PROVE Queue!Next
  <2>1. Queue!Put(w, Written(w))
    BY <1>5, WriteIsPut
  <2>2. Written(w) \in 0 .. Len(rest[w])
    BY <1>5, WriteFacts
  <2>3. \E k \in 0 .. Len(rest[w]) : Queue!Put(w, k)
    BY <2>1, <2>2 DEF Queue!Put
  <2>4. QED
    BY <2>3 DEF Queue!Next
<1>6. ASSUME NEW r \in Reader, PipeReadWaits(r)
      PROVE  Queue!FailRead(r) \/ UNCHANGED Queue!vars
  <2>1. /\ pc[r] = "call" /\ nread = nwrite
        /\ UNCHANGED <<pipe, ends, rest, got, killed>>
    BY <1>6 DEF PipeReadWaits
  <2>2. ret[r] = "busy"
    BY <1>1, <2>1, Sides DEF CallsMatch, InCall
  <2>3. CASE r \in killed /\ ret' = [ret EXCEPT ![r] = "fail"]
    <3>1. Count = 0
      BY <1>1, <2>1, PipeAssumption DEF TypeOK, PipeAssumption, Count
    <3>2. QueueOf(data, nread, Count) = <<>>
      <4>1. /\ QueueOf(data, nread, Count) \in Seq(Byte)
            /\ Len(QueueOf(data, nread, Count)) = 0
        BY <1>b, <3>1, QueueSeq
      <4>2. QED
        BY <4>1, EmptySeq
    <3>3. UNCHANGED Count
      BY <2>1 DEF Count
    <3>4. QED
      BY <2>1, <2>2, <2>3, <3>2, <3>3, QueueIs DEF Queue!FailRead
  <2>4. CASE UNCHANGED ret
    BY <1>2, <2>1, <2>4
  <2>5. QED
    BY <1>6, <2>3, <2>4 DEF PipeReadWaits
<1>7. ASSUME NEW r \in Reader, NEW n \in ReadSize, PipeRead(r, n) PROVE Queue!Next
  <2>1. Queue!Get(r, ReadOf(n))
    BY <1>7, ReadIsGet
  <2>2. ReadOf(n) \in 0 .. Count /\ Count \in Nat
    BY <1>7, ReadFacts
  <2>3. Len(QueueOf(data, nread, Count)) = Count
    BY <1>b, <2>2, QueueSeq
  <2>4. ReadOf(n) \in 0 .. Len([i \in 1 .. Count |-> data[(nread + i - 1) % PIPESIZE]])
    BY <2>2, <2>3, QueueIs
  <2>5. \E k \in 0 .. Len([i \in 1 .. Count |-> data[(nread + i - 1) % PIPESIZE]]) :
          Queue!Get(r, k)
    BY <2>1, <2>4 DEF Queue!Get
  <2>6. QED
    BY <2>5 DEF Queue!Next
<1>8. ASSUME NEW p \in Proc, Sleep(p) PROVE UNCHANGED Queue!vars
  BY <1>2, <1>8 DEF Sleep
<1>9. ASSUME NEW p \in Proc, Kill(p) PROVE Queue!Kill(p)
  BY <1>9 DEF Kill, Queue!Kill, Count
<1>10. ASSUME NEW p \in Proc, FileClose(p) PROVE UNCHANGED Queue!vars
  BY <1>2, <1>10 DEF FileClose
<1>11. ASSUME NEW p \in Proc, PipeClose(p) PROVE Queue!HangUp
  <2>1. /\ pc[p] = "closing" /\ UNCHANGED <<pipe, rest, got, ret, killed>>
        /\ \/ p \in Writer /\ writeopen' = FALSE /\ readopen' = readopen
           \/ p \in Reader /\ readopen' = FALSE /\ writeopen' = writeopen
    BY <1>11, Sides DEF PipeClose
  <2>2. \A q \in Side(p) : ret[q] # "busy"
    BY <2>1, Sides DEF PipeInv, EndsMatch, CallsMatch, InCall
  <2>3. UNCHANGED Count
    BY <2>1 DEF Count
  <2>4. QED
    BY <2>1, <2>2, <2>3, Sides DEF Queue!HangUp
<1>12. ASSUME UNCHANGED vars PROVE UNCHANGED Queue!vars
  BY <1>2, <1>12 DEF vars
<1>13. Proc = Queue!Proc
  BY DEF Proc, Queue!Proc
<1>14. QED
  BY <1>3, <1>4, <1>5, <1>6, <1>7, <1>8, <1>9, <1>10, <1>11, <1>12, <1>13
     DEF Next, Goes, Queue!Next

\* Bytes come out of a pipe in the order in which they went in, each of them once,
\* whoever reads and writes, also when the counters wrap; a call fails, and a read
\* reports the end, only when it may.
THEOREM ImplementsByteQueue == Spec => ByteQueueSpec
<1>1. Init => Queue!Init
  <2> SUFFICES ASSUME Init PROVE Queue!Init
    OBVIOUS
  <2>1. PIPESIZE \in Nat \ {0} /\ Wrap \in Nat \ {0}
    BY PipeAssumption DEF PipeAssumption
  <2>2. data \in [0 .. PIPESIZE - 1 -> Byte] /\ nread = 0
    BY DEF Init
  <2>3. Count = 0
    BY <2>1 DEF Init, Count
  <2>4. /\ QueueOf(data, nread, Count) \in Seq(Byte)
        /\ Len(QueueOf(data, nread, Count)) = 0
    BY <2>2, <2>3, QueueSeq
  <2>5. QueueOf(data, nread, Count) = <<>>
    BY <2>4, EmptySeq
  <2>6. QED
    BY <2>5, QueueIs DEF Init, Queue!Init, Proc, Queue!Proc
<1>2. QED
  BY <1>1, PipeCorrect, AbstractStep, PTL DEF Spec, ByteQueueSpec, Queue!Spec
=============================================================================
