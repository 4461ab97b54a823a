------------------------- MODULE BufferCacheProofs -------------------------
(***************************************************************************)
(* Proofs about the buffer cache and the disk driver, for any processes,   *)
(* blocks, contents and number of buffers.                                 *)
(***************************************************************************)
EXTENDS BufferCache, FiniteSetTheorems, SequenceTheorems, TLAPS

USE DEF cached, drive

-----------------------------------------------------------------------------
(* The inductive invariant. *)

\* Where a process can be.
States == {"out", "lock", "waits", "iderw", "io", "done", "held", "put"}

\* A process uses a buffer, of some block, from bget() to the end of brelse(); the
\* holder of a sleep lock uses the buffer that the lock is in.
UsersMatch ==
  /\ \A x \in Buf : IsFiniteSet(Users(x))
  /\ \A p \in Proc : /\ pc[p] = "out" <=> buf[p] = 0
                     /\ pc[p] # "out" => block[buf[p]] # Nobody
  /\ \A x \in Buf : lock[x] # Nobody => buf[lock[x]] = x
  /\ \A i \in DOMAIN idequeue : lock[idequeue[i]] # Nobody

\* What the flags of a buffer mean.
FlagsMatch ==
  /\ dirty \subseteq valid
  /\ \A x \in valid : /\ block[x] # Nobody
                      /\ x \notin dirty => data[x] = disk[block[x]]
  /\ \A p \in Proc : /\ pc[p] \in {"held", "done"} => buf[p] \in valid
                     /\ pc[p] = "done" => buf[p] \notin dirty

BufferInv == CacheInv /\ UsersMatch /\ FlagsMatch

-----------------------------------------------------------------------------
(* The list of buffers. *)

\* A set of positions that is not empty has a last one.
LEMMA MaxExists ==
  ASSUME NEW S \in SUBSET Buf, S # {}
  PROVE  Max(S) \in S /\ \A y \in S : Max(S) >= y
<1> DEFINE Above(x) == {y \in S : y > x}
           U == {Above(x) : x \in S}
           R == StrictSubsetOrdering(S)
<1>1. NBUF \in Nat /\ \A x \in S : x \in Nat
  BY BufferAssumption DEF BufferAssumption, Buf
<1>2. IsFiniteSet(S)
  <2>1. IsFiniteSet(Buf)
    BY <1>1, FS_Interval DEF Buf
  <2>2. QED
    BY <2>1, FS_Subset
<1>3. U \subseteq FiniteSubsetsOf(S) /\ U # {}
  <2>1. \A x \in S : Above(x) \in SUBSET S /\ IsFiniteSet(Above(x))
    BY <1>2, FS_Subset
  <2>2. QED
    BY <2>1 DEF FiniteSubsetsOf
<1>4. PICK A \in U : \A B \in U : <<B, A>> \notin R
  BY <1>3, FS_StrictSubsetOrderingWellFounded, WFMin
<1>5. PICK m \in S : A = Above(m)
  OBVIOUS
<1>6. ASSUME NEW y \in S PROVE m >= y
  <2>1. SUFFICES ASSUME y > m PROVE FALSE
    BY <1>1
  <2>2. Above(y) \subseteq Above(m) /\ y \in Above(m) /\ y \notin Above(y)
    BY <1>1, <2>1
  <2>3. <<Above(y), Above(m)>> \in R
    BY <2>2 DEF StrictSubsetOrdering
  <2>4. QED
    BY <1>4, <1>5, <2>3
<1>7. QED
  BY <1>6 DEF Max

\* brelse() keeps every buffer in the list.
LEMMA MoveToFrontKeeps ==
  ASSUME list \in [Buf -> Buf], ToSet(list) = Buf, NEW x \in Buf
  PROVE  MoveToFront(x) \in [Buf -> Buf] /\ ToSet(MoveToFront(x)) = Buf
<1> DEFINE l == MoveToFront(x)
<1>1. NBUF \in Nat \ {0} /\ \A i \in Buf : i # 1 => i - 1 \in Buf
  BY BufferAssumption DEF BufferAssumption, Buf
<1>2. l \in [Buf -> Buf]
  BY <1>1 DEF MoveToFront
<1>3. ASSUME NEW y \in Buf PROVE \E i \in Buf : l[i] = y
  <2>1. PICK j \in Buf : list[j] = y
    BY DEF ToSet
  <2>2. CASE y = x
    <3>1. 1 \in Buf /\ l[1] = x
      BY <1>1 DEF MoveToFront, Buf
    <3>2. QED
      BY <2>2, <3>1
  <2>3. CASE y # x /\ \E k \in j .. NBUF : list[k] = x
    <3>1. PICK k \in j .. NBUF : list[k] = x
      BY <2>3
    <3>2. k # j
      BY <2>1, <2>3, <3>1
    <3>3. PICK n \in Buf : n # 1 /\ n - 1 = j /\ k \in n .. NBUF
      BY <1>1, <3>1, <3>2 DEF Buf
    <3>4. l[n] = list[n - 1]
      BY <3>1, <3>3 DEF MoveToFront
    <3>5. QED
      BY <2>1, <3>3, <3>4
  <2>4. CASE y # x /\ ~ \E k \in j .. NBUF : list[k] = x
    <3>1. j # 1
      BY <1>1, <2>4 DEF ToSet, Buf
    <3>2. l[j] = list[j]
      BY <2>4, <3>1 DEF MoveToFront
    <3>3. QED
      BY <2>1, <3>2
  <2>5. QED
    BY <2>2, <2>3, <2>4
<1>4. QED
  BY <1>2, <1>3 DEF ToSet

\* A sequence without its first element, as used for the queue of the disk.
LEMMA TailIs ==
  ASSUME NEW s \in Seq(Buf), s # <<>>
  PROVE  /\ Head(s) = s[1] /\ Head(s) \in Buf /\ Tail(s) \in Seq(Buf)
         /\ Len(s) \in Nat \ {0} /\ Len(Tail(s)) = Len(s) - 1
         /\ DOMAIN s = 1 .. Len(s) /\ DOMAIN Tail(s) = 1 .. Len(s) - 1
         /\ \A i \in 1 .. Len(s) - 1 : Tail(s)[i] = s[i + 1]
<1>1. Head(s) \in Buf /\ Tail(s) \in Seq(Buf) /\ Len(Tail(s)) = Len(s) - 1
      /\ \A i \in 1 .. Len(Tail(s)) : Tail(s)[i] = s[i + 1]
  BY HeadTailProperties
<1>2. Len(s) \in Nat \ {0} /\ DOMAIN s = 1 .. Len(s)
      /\ DOMAIN Tail(s) = 1 .. Len(Tail(s))
  BY <1>1, EmptySeq, LenProperties
<1>3. Head(s) = s[1]
  OBVIOUS
<1>4. QED
  BY <1>1, <1>2, <1>3

\* A sequence with one element more.
LEMMA AppendIs ==
  ASSUME NEW s \in Seq(Buf), NEW x \in Buf
  PROVE  /\ Append(s, x) \in Seq(Buf) /\ Append(s, x) # <<>>
         /\ Len(s) \in Nat /\ Len(Append(s, x)) = Len(s) + 1
         /\ DOMAIN s = 1 .. Len(s) /\ DOMAIN Append(s, x) = 1 .. Len(s) + 1
         /\ \A i \in 1 .. Len(s) : Append(s, x)[i] = s[i]
         /\ Append(s, x)[Len(s) + 1] = x
         /\ Head(Append(s, x)) = IF s = <<>> THEN x ELSE Head(s)
<1>1. /\ Append(s, x) \in Seq(Buf) /\ Len(Append(s, x)) = Len(s) + 1
      /\ \A i \in 1 .. Len(s) : Append(s, x)[i] = s[i]
      /\ Append(s, x)[Len(s) + 1] = x
  BY AppendProperties
<1>2. Len(s) \in Nat /\ DOMAIN s = 1 .. Len(s) /\ DOMAIN Append(s, x) = 1 .. Len(s) + 1
  BY <1>1, LenProperties
<1>3. Append(s, x) # <<>>
  BY <1>1, <1>2, EmptySeq
<1>4. Head(Append(s, x)) = Append(s, x)[1]
  OBVIOUS
<1>5. CASE s = <<>>
  BY <1>1, <1>2, <1>3, <1>4, <1>5, EmptySeq
<1>6. CASE s # <<>>
  BY <1>1, <1>2, <1>3, <1>4, <1>6, TailIs
<1>7. QED
  BY <1>1, <1>2, <1>3, <1>5, <1>6

-----------------------------------------------------------------------------
(* The invariant is kept. *)

LEMMA BufferInit == Init => BufferInv
<1> SUFFICES ASSUME Init PROVE BufferInv
  OBVIOUS
<1>1. NBUF \in Nat \ {0} /\ Nobody \notin Proc /\ \A x \in Buf : x # 0 /\ x \in Nat
  BY BufferAssumption DEF BufferAssumption, Buf
<1>2. list \in [Buf -> Buf] /\ ToSet(list) = Buf
  <2>1. \A i \in Buf : NBUF + 1 - i \in Buf /\ NBUF + 1 - (NBUF + 1 - i) = i
    BY <1>1 DEF Buf
  <2>2. list \in [Buf -> Buf] /\ \A i \in Buf : list[NBUF + 1 - i] = i
    BY <2>1 DEF Init
  <2>3. QED
    BY <2>1, <2>2 DEF ToSet
<1>3. TypeOK
  BY <1>1, <1>2, EmptySeq DEF Init, TypeOK
<1>4. \A x \in Buf : Users(x) = {} /\ IsFiniteSet(Users(x)) /\ Cardinality(Users(x)) = 0
  BY FS_EmptySet DEF Init, Users
<1>5. OneBufferPerBlock
  BY <1>2, <1>4 DEF Init, OneBufferPerBlock
<1>6. DOMAIN idequeue = {}
  BY DEF Init
<1>7. WaitersHaveReason
  BY <1>1, <1>6 DEF Init, WaitersHaveReason, Holds
<1>8. UsersMatch /\ FlagsMatch
  BY <1>4, <1>6 DEF Init, UsersMatch, FlagsMatch
<1>9. QED
  BY <1>3, <1>5, <1>7, <1>8 DEF BufferInv, CacheInv

\* A process that is new to a buffer, or leaves it.
LEMMA UsersJoin ==
  ASSUME NEW p \in Proc, NEW x \in Buf, pc \in [Proc -> States], buf \in [Proc -> Buf \cup {0}],
         pc[p] = "out", UsersMatch,
         pc' = [pc EXCEPT ![p] = "lock"], buf' = [buf EXCEPT ![p] = x]
  PROVE  /\ p \notin Users(x) /\ Users(x)' = Users(x) \cup {p}
         /\ \A y \in Buf \ {x} : Users(y)' = Users(y)
         /\ \A y \in Buf : IsFiniteSet(Users(y)) /\ IsFiniteSet(Users(y)')
         /\ Cardinality(Users(x)') = Cardinality(Users(x)) + 1
<1>1. buf[p] = 0 /\ \A y \in Buf : IsFiniteSet(Users(y))
  BY DEF UsersMatch
<1>2. p \notin Users(x) /\ Users(x)' = Users(x) \cup {p}
  BY <1>1 DEF Users
<1>3. \A y \in Buf \ {x} : Users(y)' = Users(y)
  BY <1>1 DEF Users
<1>4. IsFiniteSet(Users(x)') /\ Cardinality(Users(x)') = Cardinality(Users(x)) + 1
  BY <1>1, <1>2, FS_AddElement
<1>5. QED
  BY <1>1, <1>2, <1>3, <1>4

LEMMA UsersLeave ==
  ASSUME NEW p \in Proc, NEW x \in Buf, pc \in [Proc -> States], buf \in [Proc -> Buf \cup {0}],
         pc[p] # "out", buf[p] = x, UsersMatch,
         pc' = [pc EXCEPT ![p] = "out"], buf' = [buf EXCEPT ![p] = 0]
  PROVE  /\ p \in Users(x) /\ Users(x)' = Users(x) \ {p}
         /\ \A y \in Buf \ {x} : Users(y)' = Users(y)
         /\ \A y \in Buf : IsFiniteSet(Users(y)) /\ IsFiniteSet(Users(y)')
         /\ Cardinality(Users(x)) \in Nat \ {0}
         /\ Cardinality(Users(x)') = Cardinality(Users(x)) - 1
<1>1. \A y \in Buf : IsFiniteSet(Users(y))
  BY DEF UsersMatch
<1>2. p \in Users(x) /\ Users(x)' = Users(x) \ {p}
  BY DEF Users
<1>3. \A y \in Buf \ {x} : Users(y)' = Users(y)
  BY DEF Users
<1>4. IsFiniteSet(Users(x)') /\ Cardinality(Users(x)') = Cardinality(Users(x)) - 1
  BY <1>1, <1>2, FS_RemoveElement
<1>5. Cardinality(Users(x)) \in Nat \ {0}
  BY <1>1, <1>2, FS_CardinalityType, FS_EmptySet
<1>6. QED
  BY <1>1, <1>2, <1>3, <1>4, <1>5

\* While nobody starts or stops using a buffer, its users are the same.
LEMMA UsersStay ==
  ASSUME buf' = buf, \A p \in Proc : pc'[p] = "out" <=> pc[p] = "out"
  PROVE  \A x \in Buf : Users(x)' = Users(x)
BY DEF Users

\* A buffer without references has no users, no holder and no request.
LEMMA UnusedIsFree ==
  ASSUME BufferInv, NEW x \in Buf, refcnt[x] = 0
  PROVE  /\ Users(x) = {} /\ lock[x] = Nobody
         /\ \A p \in Proc : buf[p] # x
         /\ \A i \in DOMAIN idequeue : idequeue[i] # x
<1> USE DEF BufferInv, CacheInv
<1>1. Users(x) = {}
  BY FS_EmptySet DEF OneBufferPerBlock, UsersMatch
<1>2. x # 0
  BY BufferAssumption DEF BufferAssumption, Buf
<1>3. \A p \in Proc : buf[p] # x
  BY <1>1, <1>2 DEF Users, UsersMatch
<1>4. lock[x] = Nobody
  BY <1>3 DEF UsersMatch, TypeOK
<1>5. QED
  BY <1>1, <1>3, <1>4 DEF UsersMatch

\* What the invariant says of a process that uses a buffer.
LEMMA UserHas ==
  ASSUME BufferInv, NEW p \in Proc, pc[p] # "out"
  PROVE  /\ buf[p] \in Buf /\ buf[p] # 0 /\ block[buf[p]] \in Block
         /\ Holds(p) <=> lock[buf[p]] = p
         /\ pc[p] = "io" <=> lock[buf[p]] = p /\ Contains(idequeue, buf[p])
         /\ \A q \in Proc : lock[buf[p]] = q => buf[q] = buf[p] /\ Holds(q)
<1> USE DEF BufferInv, CacheInv
<1>1. buf[p] \in Buf /\ buf[p] # 0 /\ block[buf[p]] \in Block
  BY DEF TypeOK, UsersMatch
<1>2. \A q \in Proc : lock[buf[p]] = q => buf[q] = buf[p]
  BY <1>1, BufferAssumption DEF UsersMatch, BufferAssumption
<1>3. QED
  BY <1>1, <1>2 DEF WaitersHaveReason

\* Who queues a buffer holds it; a buffer that is not locked is not queued.
LEMMA QueuedIsLocked ==
  ASSUME BufferInv, NEW x \in Buf, Contains(idequeue, x)
  PROVE  lock[x] \in Proc /\ buf[lock[x]] = x /\ pc[lock[x]] = "io"
<1> USE DEF BufferInv, CacheInv
<1>1. lock[x] # Nobody
  <2>1. PICK i \in 1 .. Len(idequeue) : idequeue[i] = x
    BY DEF Contains
  <2>2. i \in DOMAIN idequeue
    BY <2>1 DEF TypeOK
  <2>3. QED
    BY <2>1, <2>2 DEF UsersMatch
<1>2. lock[x] \in Proc /\ buf[lock[x]] = x
  BY <1>1 DEF TypeOK, UsersMatch
<1>3. x # 0
  BY BufferAssumption DEF BufferAssumption, Buf
<1>4. QED
  BY <1>2, <1>3 DEF WaitersHaveReason

\* The states of a process and their type, as every step keeps them.
LEMMA StatesOK ==
  ASSUME BufferInv
  PROVE  pc \in [Proc -> States] /\ buf \in [Proc -> Buf \cup {0}]
         /\ (\A x \in Buf : x # 0) /\ Nobody \notin Proc /\ Nobody \notin Block
<1>1. pc \in [Proc -> States] /\ buf \in [Proc -> Buf \cup {0}]
  BY DEF BufferInv, CacheInv, TypeOK, States
<1>2. QED
  BY <1>1, BufferAssumption DEF BufferAssumption, Buf

LEMMA BgetHitKeeps ==
  ASSUME BufferInv, NEW p \in Proc, NEW b \in Block, BgetHit(p, b)
  PROVE  BufferInv'
<1> USE DEF BufferInv, CacheInv
<1>1. PICK x \in Buf : /\ block[x] = b
                       /\ refcnt' = [refcnt EXCEPT ![x] = @ + 1]
                       /\ buf' = [buf EXCEPT ![p] = x]
  BY DEF BgetHit
<1>2. /\ pc[p] = "out" /\ pc' = [pc EXCEPT ![p] = "lock"] /\ ~panicked
      /\ UNCHANGED <<list, block, data, valid, dirty, lock, drive, panicked>>
  BY DEF BgetHit
<1>3. /\ \A y \in Buf \ {x} : Users(y)' = Users(y)
      /\ \A y \in Buf : IsFiniteSet(Users(y)')
      /\ Cardinality(Users(x)') = Cardinality(Users(x)) + 1
  BY <1>1, <1>2, StatesOK, UsersJoin
<1>4. buf[p] = 0 /\ \A y \in Buf : lock[y] # p
  BY <1>2, StatesOK DEF UsersMatch
<1>5. TypeOK'
  BY <1>1, <1>2 DEF TypeOK
<1>6. OneBufferPerBlock'
  BY <1>1, <1>2, <1>3 DEF OneBufferPerBlock, TypeOK
<1>7. \A q \in Proc : /\ Holds(q)' <=> Holds(q)
                      /\ pc'[q] = "waits" => pc[q] = "waits" /\ q # p
                      /\ pc'[q] = "io" <=> pc[q] = "io"
                      /\ q # p => buf'[q] = buf[q]
  BY <1>1, <1>2, StatesOK DEF Holds
<1>8. buf'[p] = x /\ ~Holds(p) /\ pc[p] # "io"
  BY <1>1, <1>2, StatesOK DEF Holds
<1>9. WaitersHaveReason'
  BY <1>1, <1>2, <1>4, <1>7, <1>8 DEF WaitersHaveReason
<1>10. UsersMatch'
  <2>1. \A q \in Proc : /\ pc'[q] = "out" <=> buf'[q] = 0
                        /\ pc'[q] # "out" => block'[buf'[q]] # Nobody
    BY <1>1, <1>2, StatesOK DEF UsersMatch
  <2>2. \A y \in Buf : lock'[y] # Nobody => buf'[lock'[y]] = y
    BY <1>2, <1>4, <1>7 DEF UsersMatch, TypeOK
  <2>3. QED
    BY <1>2, <1>3, <2>1, <2>2 DEF UsersMatch
<1>11. FlagsMatch'
  BY <1>1, <1>2, StatesOK DEF FlagsMatch
<1>12. QED
  BY <1>5, <1>6, <1>9, <1>10, <1>11

LEMMA BgetRecycleKeeps ==
  ASSUME BufferInv, NEW p \in Proc, NEW b \in Block, BgetRecycle(p, b)
  PROVE  BufferInv'
<1> USE DEF BufferInv, CacheInv
<1>1. PICK x \in Buf : /\ refcnt[x] = 0 /\ x \notin dirty
                       /\ block' = [block EXCEPT ![x] = b]
                       /\ valid' = valid \ {x} /\ dirty' = dirty \ {x}
                       /\ refcnt' = [refcnt EXCEPT ![x] = 1]
                       /\ buf' = [buf EXCEPT ![p] = x]
                       /\ pc' = [pc EXCEPT ![p] = "lock"]
  <2>1. Unused \subseteq Buf /\ Unused # {}
    BY DEF BgetRecycle, Unused
  <2>2. Max(Unused) \in Unused
    BY <2>1, MaxExists
  <2>3. list[Max(Unused)] \in Buf
    BY <2>1, <2>2 DEF TypeOK
  <2>4. QED
    BY <2>2, <2>3 DEF BgetRecycle, Unused
<1>2. /\ pc[p] = "out" /\ ~panicked /\ \A y \in Buf : block[y] # b
      /\ UNCHANGED <<list, data, lock, drive, panicked>>
  BY DEF BgetRecycle
<1>3. /\ Users(x) = {} /\ lock[x] = Nobody /\ \A q \in Proc : buf[q] # x
      /\ \A i \in DOMAIN idequeue : idequeue[i] # x
  BY <1>1, UnusedIsFree
<1>4. /\ \A y \in Buf \ {x} : Users(y)' = Users(y)
      /\ \A y \in Buf : IsFiniteSet(Users(y)')
      /\ Cardinality(Users(x)') = Cardinality(Users(x)) + 1
  BY <1>1, <1>2, StatesOK, UsersJoin
<1>5. buf[p] = 0 /\ \A y \in Buf : lock[y] # p
  BY <1>2, StatesOK DEF UsersMatch
<1>6. TypeOK'
  BY <1>1, <1>2 DEF TypeOK
<1>7. OneBufferPerBlock'
  <2>1. Cardinality(Users(x)') = 1
    BY <1>3, <1>4, FS_EmptySet
  <2>2. \A y, z \in Buf : block'[y] = block'[z] /\ block'[y] # Nobody => y = z
    BY <1>1, <1>2 DEF OneBufferPerBlock, TypeOK
  <2>3. QED
    BY <1>1, <1>2, <1>4, <2>1, <2>2 DEF OneBufferPerBlock, TypeOK
<1>8. \A q \in Proc : /\ Holds(q)' <=> Holds(q)
                      /\ pc'[q] = "waits" => pc[q] = "waits" /\ q # p
                      /\ pc'[q] = "io" <=> pc[q] = "io"
                      /\ q # p => buf'[q] = buf[q]
  BY <1>1, <1>2, StatesOK DEF Holds
<1>9. buf'[p] = x /\ ~Holds(p) /\ pc[p] # "io"
  BY <1>1, <1>2, StatesOK DEF Holds
<1>10. WaitersHaveReason'
  BY <1>1, <1>2, <1>5, <1>8, <1>9 DEF WaitersHaveReason
<1>11. UsersMatch'
  <2>1. \A q \in Proc : /\ pc'[q] = "out" <=> buf'[q] = 0
                        /\ pc'[q] # "out" => block'[buf'[q]] # Nobody
    BY <1>1, <1>2, <1>3, StatesOK DEF UsersMatch, TypeOK
  <2>2. \A y \in Buf : lock'[y] # Nobody => buf'[lock'[y]] = y
    BY <1>2, <1>5, <1>8 DEF UsersMatch, TypeOK
  <2>3. QED
    BY <1>2, <1>4, <2>1, <2>2 DEF UsersMatch
<1>12. FlagsMatch'
  <2>1. \A y \in valid' : block'[y] = block[y] /\ y \in valid
    BY <1>1 DEF TypeOK
  <2>2. \A q \in Proc : pc'[q] \in {"held", "done"} => buf'[q] = buf[q] /\ pc'[q] = pc[q]
                                                      /\ buf[q] # x
    BY <1>1, <1>2, <1>3, StatesOK
  <2>3. QED
    BY <1>1, <1>2, <2>1, <2>2 DEF FlagsMatch
<1>13. QED
  BY <1>6, <1>7, <1>10, <1>11, <1>12

LEMMA BgetPanicKeeps ==
  ASSUME BufferInv, NEW p \in Proc, NEW b \in Block, BgetPanic(p, b)
  PROVE  BufferInv'
<1>1. panicked' = TRUE
      /\ UNCHANGED <<cached, data, valid, dirty, lock, drive, pc, buf>>
  BY DEF BgetPanic
<1>2. TypeOK'
  BY <1>1 DEF BufferInv, CacheInv, TypeOK
<1>3. OneBufferPerBlock' /\ WaitersHaveReason' /\ UsersMatch' /\ FlagsMatch'
  BY <1>1 DEF BufferInv, CacheInv, OneBufferPerBlock, WaitersHaveReason, UsersMatch,
              FlagsMatch, Users, Holds
<1>4. QED
  BY <1>2, <1>3 DEF BufferInv, CacheInv

-----------------------------------------------------------------------------
(* The invariant is kept by the sleep lock. *)

LEMMA AcquireSleepKeeps ==
  ASSUME BufferInv, NEW p \in Proc, AcquireSleep(p)
  PROVE  BufferInv'
<1> USE DEF BufferInv, CacheInv
<1> DEFINE x == buf[p]
<1>1. /\ pc[p] = "lock" /\ ~panicked
      /\ UNCHANGED <<cached, data, valid, dirty, drive, buf, panicked>>
  BY DEF AcquireSleep
<1>2. /\ x \in Buf /\ x # 0 /\ ~Holds(p) /\ lock[x] # p
      /\ pc[p] # "io" /\ pc[p] # "out"
  BY <1>1, UserHas DEF Holds
<1>3. CASE lock[x] # Nobody
  <2>1. pc' = [pc EXCEPT ![p] = "waits"] /\ lock' = lock
    BY <1>3 DEF AcquireSleep
  <2>2. TypeOK'
    BY <1>1, <2>1 DEF TypeOK
  <2>3. \A y \in Buf : Users(y)' = Users(y)
    BY <1>1, <1>2, <2>1, StatesOK, UsersStay
  <2>4. OneBufferPerBlock'
    BY <1>1, <2>3 DEF OneBufferPerBlock
  <2>5. \A q \in Proc : /\ Holds(q)' <=> Holds(q)
                        /\ pc'[q] = "waits" => pc[q] = "waits" \/ q = p
                        /\ pc'[q] = "io" <=> pc[q] = "io"
                        /\ pc'[q] = "out" <=> pc[q] = "out"
    BY <1>1, <2>1, StatesOK DEF Holds
  <2>6. WaitersHaveReason'
    BY <1>1, <1>3, <2>1, <2>5 DEF WaitersHaveReason
  <2>7. UsersMatch'
    BY <1>1, <2>1, <2>3, <2>5 DEF UsersMatch
  <2>8. FlagsMatch'
    BY <1>1, <2>1, StatesOK DEF FlagsMatch
  <2>9. QED
    BY <2>2, <2>4, <2>6, <2>7, <2>8
<1>4. CASE lock[x] = Nobody
  <2> DEFINE next == IF x \in valid THEN "held" ELSE "iderw"
  <2>1. pc' = [pc EXCEPT ![p] = next] /\ lock' = [lock EXCEPT ![x] = p]
    BY <1>4 DEF AcquireSleep
  <2>2. TypeOK'
    <3>1. pc' \in [Proc -> {"out", "lock", "waits", "iderw", "io", "done", "held", "put"}]
      BY <2>1 DEF TypeOK
    <3>2. QED
      BY <1>1, <2>1, <3>1 DEF TypeOK
  <2>3. \A y \in Buf : Users(y)' = Users(y)
    BY <1>1, <1>2, <2>1, StatesOK, UsersStay
  <2>4. OneBufferPerBlock'
    BY <1>1, <2>3 DEF OneBufferPerBlock
  <2>5. \A q \in Proc : /\ Holds(q)' <=> Holds(q) \/ q = p
                        /\ pc'[q] = "waits" => pc[q] = "waits"
                        /\ pc'[q] = "io" <=> pc[q] = "io"
                        /\ pc'[q] = "out" <=> pc[q] = "out"
    BY <1>1, <2>1, StatesOK DEF Holds
  <2>6. \A y \in Buf \cup {0} : \A q \in Proc :
          y # 0 /\ lock'[y] = q <=> IF y = x THEN q = p ELSE y # 0 /\ lock[y] = q
    BY <1>2, <2>1 DEF TypeOK
  <2>7. ~Contains(idequeue, x)
    BY <1>2, <1>4, StatesOK, QueuedIsLocked
  <2>8. \A q \in Proc : Holds(q)' <=> buf'[q] # 0 /\ lock'[buf'[q]] = q
    <3> TAKE q \in Proc
    <3>1. buf[q] \in Buf \cup {0} /\ buf'[q] = buf[q] /\ buf'[p] = x
      BY <1>1, StatesOK
    <3>2. Holds(q) => buf[q] # x
      BY <1>4, StatesOK DEF WaitersHaveReason
    <3>3. Holds(q) <=> buf[q] # 0 /\ lock[buf[q]] = q
      BY DEF WaitersHaveReason
    <3>4. QED
      BY <1>2, <2>5, <2>6, <3>1, <3>2, <3>3
  <2>9. \A q \in Proc :
          pc'[q] = "io" <=> buf'[q] # 0 /\ lock'[buf'[q]] = q /\ Contains(idequeue', buf'[q])
    <3> TAKE q \in Proc
    <3>1. buf[q] \in Buf \cup {0} /\ buf'[q] = buf[q] /\ idequeue' = idequeue
      BY <1>1, StatesOK
    <3>2. pc[q] = "io" <=> buf[q] # 0 /\ lock[buf[q]] = q /\ Contains(idequeue, buf[q])
      BY DEF WaitersHaveReason
    <3>3. QED
      BY <2>5, <2>6, <2>7, <3>1, <3>2
  <2>10. \A y \in Buf : lock[y] # Nobody => lock'[y] # Nobody
    BY <2>1, StatesOK DEF TypeOK
  <2>11. \A q \in Proc : pc'[q] = "waits" => lock'[buf'[q]] # Nobody
    BY <1>1, <2>5, <2>10, UserHas DEF WaitersHaveReason
  <2>12. \A i \in DOMAIN idequeue : idequeue[i] \in Buf
    BY DEF TypeOK
  <2>13. WaitersHaveReason'
    BY <1>1, <2>8, <2>9, <2>10, <2>11 DEF WaitersHaveReason, TypeOK
  <2>14. UsersMatch'
    <3>1. \A y \in Buf : lock'[y] # Nobody => buf'[lock'[y]] = y
      BY <1>1, <2>1 DEF UsersMatch, TypeOK
    <3>2. QED
      BY <1>1, <2>3, <2>5, <2>10, <2>12, <3>1 DEF UsersMatch
  <2>15. FlagsMatch'
    <3>1. \A q \in Proc : pc'[q] \in {"held", "done"} =>
                          pc'[q] = pc[q] \/ (q = p /\ x \in valid /\ pc'[q] = "held")
      BY <2>1, StatesOK
    <3>2. QED
      BY <1>1, <3>1 DEF FlagsMatch
  <2>16. QED
    BY <2>2, <2>4, <2>13, <2>14, <2>15
<1>5. QED
  BY <1>3, <1>4

LEMMA ReleaseSleepKeeps ==
  ASSUME BufferInv, NEW p \in Proc, ReleaseSleep(p)
  PROVE  BufferInv'
<1> USE DEF BufferInv, CacheInv
<1> DEFINE x == buf[p]
<1>1. /\ pc[p] = "held" /\ ~panicked
      /\ lock' = [lock EXCEPT ![x] = Nobody]
      /\ pc' = [q \in Proc |-> IF q = p THEN "put"
                  ELSE IF pc[q] = "waits" /\ buf[q] = x THEN "lock" ELSE pc[q]]
      /\ UNCHANGED <<cached, data, valid, dirty, drive, buf, panicked>>
  BY DEF ReleaseSleep
<1>2. x \in Buf /\ x # 0 /\ lock[x] = p /\ ~Contains(idequeue, x)
  BY <1>1, UserHas DEF Holds
<1>3. TypeOK'
  BY <1>1 DEF TypeOK
<1>4. \A q \in Proc : /\ Holds(q)' <=> Holds(q) /\ q # p
                      /\ pc'[q] = "waits" => pc[q] = "waits" /\ buf[q] # x
                      /\ pc'[q] = "io" <=> pc[q] = "io"
                      /\ pc'[q] = "out" <=> pc[q] = "out"
                      /\ pc'[q] \in {"held", "done"} => pc'[q] = pc[q]
  BY <1>1 DEF Holds
<1>5. \A y \in Buf : Users(y)' = Users(y)
  BY <1>1, <1>4, UsersStay
<1>6. OneBufferPerBlock'
  BY <1>1, <1>5 DEF OneBufferPerBlock
<1>7. \A y \in Buf : lock'[y] = IF y = x THEN Nobody ELSE lock[y]
  BY <1>1 DEF TypeOK
<1>8. \A q \in Proc : buf[q] \in Buf \cup {0} /\ buf'[q] = buf[q] /\ q # Nobody
  BY <1>1, StatesOK
<1>9. \A q \in Proc : Holds(q)' <=> buf'[q] # 0 /\ lock'[buf'[q]] = q
  <2> TAKE q \in Proc
  <2>1. Holds(q) <=> buf[q] # 0 /\ lock[buf[q]] = q
    BY DEF WaitersHaveReason
  <2>2. CASE buf[q] = x
    BY <1>2, <1>4, <1>7, <1>8, <2>1, <2>2
  <2>3. CASE buf[q] # x
    BY <1>2, <1>4, <1>7, <1>8, <2>1, <2>3
  <2>4. QED
    BY <2>2, <2>3
<1>10. \A q \in Proc :
         pc'[q] = "io" <=> buf'[q] # 0 /\ lock'[buf'[q]] = q /\ Contains(idequeue', buf'[q])
  <2> TAKE q \in Proc
  <2>1. /\ pc[q] = "io" <=> buf[q] # 0 /\ lock[buf[q]] = q /\ Contains(idequeue, buf[q])
        /\ idequeue' = idequeue
    BY <1>1 DEF WaitersHaveReason
  <2>2. QED
    BY <1>2, <1>4, <1>7, <1>8, <2>1
<1>11. \A q \in Proc : pc'[q] = "waits" => lock'[buf'[q]] # Nobody
  BY <1>4, <1>7, <1>8, UserHas DEF WaitersHaveReason
<1>12. \A i \in DOMAIN idequeue : idequeue[i] \in Buf /\ idequeue[i] # x
  BY <1>2 DEF Contains, TypeOK
<1>13. started # 0 => started \in Buf /\ started # x
  <2>1. idequeue # <<>> => 1 \in DOMAIN idequeue /\ Head(idequeue) = idequeue[1]
    BY TailIs DEF TypeOK
  <2>2. QED
    BY <1>12, <2>1 DEF WaitersHaveReason
<1>14. WaitersHaveReason'
  BY <1>1, <1>7, <1>9, <1>10, <1>11, <1>13 DEF WaitersHaveReason
<1>15. UsersMatch'
  BY <1>1, <1>4, <1>5, <1>7, <1>12 DEF UsersMatch
<1>16. FlagsMatch'
  BY <1>1, <1>4 DEF FlagsMatch
<1>17. QED
  BY <1>3, <1>6, <1>14, <1>15, <1>16

LEMMA BrelseKeeps ==
  ASSUME BufferInv, NEW p \in Proc, Brelse(p)
  PROVE  BufferInv'
<1> USE DEF BufferInv, CacheInv
<1>1. PICK x \in Buf :
      /\ x = buf[p] /\ pc[p] = "put" /\ ~panicked
      /\ refcnt' = [refcnt EXCEPT ![x] = @ - 1]
      /\ list' = IF refcnt'[x] = 0 THEN MoveToFront(x) ELSE list
      /\ pc' = [pc EXCEPT ![p] = "out"] /\ buf' = [buf EXCEPT ![p] = 0]
      /\ UNCHANGED <<block, data, valid, dirty, lock, drive, panicked>>
  BY UserHas DEF Brelse
<1>2. x # 0 /\ ~Holds(p) /\ lock[x] # p /\ pc[p] # "io" /\ pc[p] # "out"
  BY <1>1, UserHas DEF Holds
<1>3. /\ \A y \in Buf \ {x} : Users(y)' = Users(y)
      /\ \A y \in Buf : IsFiniteSet(Users(y)')
      /\ Cardinality(Users(x)) \in Nat \ {0}
      /\ Cardinality(Users(x)') = Cardinality(Users(x)) - 1
  BY <1>1, <1>2, StatesOK, UsersLeave
<1>4. refcnt[x] \in Nat \ {0} /\ refcnt'[x] = refcnt[x] - 1
  BY <1>1, <1>2, <1>3 DEF OneBufferPerBlock, TypeOK
<1>5. list' \in [Buf -> Buf] /\ ToSet(list') = Buf
  BY <1>1, <1>2, MoveToFrontKeeps DEF TypeOK, OneBufferPerBlock
<1>6. TypeOK'
  <2>1. refcnt' \in [Buf -> Nat]
    BY <1>1, <1>4 DEF TypeOK
  <2>2. QED
    BY <1>1, <1>5, <2>1 DEF TypeOK
<1>7. OneBufferPerBlock'
  <2>1. \A y \in Buf : refcnt'[y] = Cardinality(Users(y)')
    <3> TAKE y \in Buf
    <3>1. CASE y = x
      BY <1>3, <1>4, <3>1 DEF OneBufferPerBlock
    <3>2. CASE y # x
      BY <1>1, <1>3, <3>2 DEF OneBufferPerBlock, TypeOK
    <3>3. QED
      BY <3>1, <3>2
  <2>2. QED
    BY <1>1, <1>5, <2>1 DEF OneBufferPerBlock
<1>8. \A q \in Proc : /\ Holds(q)' <=> Holds(q)
                      /\ pc'[q] = "waits" => pc[q] = "waits" /\ q # p
                      /\ pc'[q] = "io" <=> pc[q] = "io"
                      /\ pc'[q] \in {"held", "done"} => pc'[q] = pc[q] /\ q # p
                      /\ buf'[q] = IF q = p THEN 0 ELSE buf[q]
  BY <1>1, <1>2, StatesOK DEF Holds
<1>9. \A y \in Buf : lock[y] # p
  BY <1>1, <1>2, StatesOK DEF UsersMatch
<1>10. WaitersHaveReason'
  BY <1>1, <1>2, <1>8 DEF WaitersHaveReason
<1>11. UsersMatch'
  <2>1. \A q \in Proc : /\ pc'[q] = "out" <=> buf'[q] = 0
                        /\ pc'[q] # "out" => block'[buf'[q]] # Nobody
    BY <1>1, <1>2, StatesOK DEF UsersMatch
  <2>2. \A y \in Buf : lock'[y] # Nobody => buf'[lock'[y]] = y
    BY <1>1, <1>8, <1>9 DEF UsersMatch, TypeOK
  <2>3. QED
    BY <1>1, <1>3, <2>1, <2>2 DEF UsersMatch
<1>12. FlagsMatch'
  BY <1>1, <1>8 DEF FlagsMatch
<1>13. QED
  BY <1>6, <1>7, <1>10, <1>11, <1>12

-----------------------------------------------------------------------------
(* The invariant is kept by the holder of a buffer and by the disk. *)

\* The disk is at work on a buffer that is in the queue.
LEMMA StartedIsQueued ==
  ASSUME BufferInv, started # 0
  PROVE  /\ idequeue # <<>> /\ started = Head(idequeue) /\ started \in Buf
         /\ Contains(idequeue, started)
<1> USE DEF BufferInv, CacheInv
<1>1. idequeue # <<>> /\ started = Head(idequeue) /\ idequeue \in Seq(Buf)
  BY DEF WaitersHaveReason, TypeOK
<1>2. Head(idequeue) = idequeue[1] /\ 1 \in 1 .. Len(idequeue) /\ Head(idequeue) \in Buf
  BY <1>1, TailIs
<1>3. QED
  BY <1>1, <1>2 DEF Contains

\* New data in a buffer that its holder then keeps, or sends to the disk.
LEMMA WriteKeeps ==
  ASSUME BufferInv, NEW p \in Proc, NEW v \in Val, NEW x \in Buf, x = buf[p],
         ~panicked, pc[p] = "held",
         data' = [data EXCEPT ![x] = v], dirty' = dirty \cup {x},
         pc' = pc \/ pc' = [pc EXCEPT ![p] = "iderw"],
         UNCHANGED <<cached, valid, lock, drive, buf, panicked>>
  PROVE  BufferInv'
<1> USE DEF BufferInv, CacheInv
<1>1. /\ x # 0 /\ block[x] \in Block /\ lock[x] = p /\ ~Contains(idequeue, x)
      /\ x \in valid
  BY UserHas DEF Holds, FlagsMatch
<1>2. TypeOK'
  BY DEF TypeOK
<1>3. \A q \in Proc : /\ Holds(q)' <=> Holds(q)
                      /\ pc'[q] = "waits" <=> pc[q] = "waits"
                      /\ pc'[q] = "io" <=> pc[q] = "io"
                      /\ pc'[q] = "out" <=> pc[q] = "out"
                      /\ pc'[q] \in {"held", "done"} => pc'[q] = pc[q]
  BY StatesOK DEF Holds
<1>4. \A y \in Buf : Users(y)' = Users(y)
  BY <1>3, UsersStay
<1>5. OneBufferPerBlock'
  BY <1>4 DEF OneBufferPerBlock
<1>6. started # 0 => started \in Buf /\ started # x
  BY <1>1, StartedIsQueued
<1>7. started # 0 /\ started \in dirty' => started \in dirty /\ data'[started] = data[started]
  BY <1>6 DEF TypeOK
<1>8. WaitersHaveReason'
  BY <1>3, <1>7 DEF WaitersHaveReason
<1>9. UsersMatch'
  BY <1>3, <1>4 DEF UsersMatch
<1>10. FlagsMatch'
  <2>1. \A y \in valid : y \notin dirty' => data'[y] = data[y]
    BY DEF TypeOK
  <2>2. \A q \in Proc : pc'[q] = "done" => pc[q] = "done" /\ buf[q] # x
    <3> TAKE q \in Proc
    <3>1. SUFFICES ASSUME pc[q] = "done", buf[q] = x PROVE FALSE
      BY <1>3
    <3>2. lock[x] = q
      BY <3>1, UserHas DEF Holds
    <3>3. QED
      BY <1>1, <3>1, <3>2
  <2>3. QED
    BY <1>1, <1>3, <2>1, <2>2 DEF FlagsMatch
<1>11. QED
  BY <1>2, <1>5, <1>8, <1>9, <1>10

LEMMA LogWriteKeeps ==
  ASSUME BufferInv, NEW p \in Proc, NEW v \in Val, LogWrite(p, v) \/ Bwrite(p, v)
  PROVE  BufferInv'
<1>1. pc[p] = "held"
  BY DEF LogWrite, Bwrite
<1>2. PICK x \in Buf : x = buf[p]
  BY <1>1, UserHas
<1>3. QED
  BY <1>2, WriteKeeps DEF LogWrite, Bwrite

LEMMA IderwDoneKeeps ==
  ASSUME BufferInv, NEW p \in Proc, IderwDone(p)
  PROVE  BufferInv'
<1> USE DEF BufferInv, CacheInv
<1>1. /\ pc[p] = "done" /\ buf[p] \in valid \ dirty
      /\ pc' = [pc EXCEPT ![p] = "held"]
      /\ UNCHANGED <<cached, data, valid, dirty, lock, drive, buf, panicked>>
  BY DEF IderwDone, FlagsMatch
<1>2. \A q \in Proc : /\ Holds(q)' <=> Holds(q)
                      /\ pc'[q] = "waits" <=> pc[q] = "waits"
                      /\ pc'[q] = "io" <=> pc[q] = "io"
                      /\ pc'[q] = "out" <=> pc[q] = "out"
                      /\ pc'[q] \in {"held", "done"} => pc'[q] = pc[q] \/ (q = p /\ pc'[q] = "held")
  BY <1>1, StatesOK DEF Holds
<1>3. \A y \in Buf : Users(y)' = Users(y)
  BY <1>1, <1>2, UsersStay
<1>4. TypeOK'
  BY <1>1 DEF TypeOK
<1>5. OneBufferPerBlock'
  BY <1>1, <1>3 DEF OneBufferPerBlock
<1>6. WaitersHaveReason'
  BY <1>1, <1>2 DEF WaitersHaveReason
<1>7. UsersMatch'
  BY <1>1, <1>2, <1>3 DEF UsersMatch
<1>8. FlagsMatch'
  BY <1>1, <1>2 DEF FlagsMatch
<1>9. QED
  BY <1>4, <1>5, <1>6, <1>7, <1>8

\* The queue of the disk when a buffer joins it and when its first one leaves.
LEMMA QueueGrows ==
  ASSUME NEW s \in Seq(Buf), NEW x \in Buf, ~Contains(s, x),
         \A i, j \in DOMAIN s : s[i] = s[j] => i = j
  PROVE  LET t == Append(s, x)
         IN /\ \A i, j \in DOMAIN t : t[i] = t[j] => i = j
            /\ \A y : Contains(t, y) <=> Contains(s, y) \/ y = x
            /\ \A i \in DOMAIN t : t[i] = x \/ \E j \in DOMAIN s : t[i] = s[j]
<1> DEFINE t == Append(s, x)
<1>1. /\ Len(s) \in Nat /\ DOMAIN s = 1 .. Len(s) /\ DOMAIN t = 1 .. Len(s) + 1
      /\ \A i \in 1 .. Len(s) : t[i] = s[i]
      /\ t[Len(s) + 1] = x /\ Len(t) = Len(s) + 1
  BY AppendIs
<1> HIDE DEF t
<1>2. \A i \in 1 .. Len(s) + 1 : i \in 1 .. Len(s) \/ i = Len(s) + 1
  BY <1>1
<1>3. \A i \in 1 .. Len(s) : s[i] # x
  BY DEF Contains
<1>4. \A i, j \in DOMAIN t : t[i] = t[j] => i = j
  BY <1>1, <1>2, <1>3
<1>5. ASSUME NEW y PROVE Contains(t, y) <=> Contains(s, y) \/ y = x
  <2>1. Len(s) + 1 \in 1 .. Len(s) + 1 /\ \A i \in 1 .. Len(s) : i \in 1 .. Len(s) + 1
    BY <1>1
  <2>2. QED
    BY <1>1, <1>2, <2>1 DEF Contains
<1>6. \A i \in DOMAIN t : t[i] = x \/ \E j \in DOMAIN s : t[i] = s[j]
  BY <1>1, <1>2
<1>7. QED
  BY <1>4, <1>5, <1>6 DEF t

LEMMA QueueShrinks ==
  ASSUME NEW s \in Seq(Buf), s # <<>>,
         \A i, j \in DOMAIN s : s[i] = s[j] => i = j
  PROVE  LET t == Tail(s)
         IN /\ \A i, j \in DOMAIN t : t[i] = t[j] => i = j
            /\ \A y : Contains(t, y) <=> Contains(s, y) /\ y # Head(s)
            /\ \A i \in DOMAIN t : t[i] # Head(s) /\ \E j \in DOMAIN s : t[i] = s[j]
<1> DEFINE t == Tail(s)
<1>1. /\ Head(s) = s[1] /\ Len(s) \in Nat \ {0} /\ DOMAIN s = 1 .. Len(s)
      /\ Len(t) = Len(s) - 1 /\ DOMAIN t = 1 .. Len(s) - 1
      /\ \A i \in 1 .. Len(s) - 1 : t[i] = s[i + 1]
  BY TailIs
<1> HIDE DEF t
<1>2. \A i \in 1 .. Len(s) - 1 : i + 1 \in 1 .. Len(s) /\ i + 1 # 1
  BY <1>1
<1>3. \A i \in 1 .. Len(s) : i = 1 \/ \E k \in 1 .. Len(s) - 1 : i = k + 1
  <2> TAKE i \in 1 .. Len(s)
  <2>1. i # 1 => i - 1 \in 1 .. Len(s) - 1 /\ i = (i - 1) + 1
    BY <1>1
  <2>2. QED
    BY <2>1
<1>4. \A i, j \in DOMAIN t : t[i] = t[j] => i = j
  <2> TAKE i, j \in DOMAIN t
  <2>1. t[i] = t[j] => i + 1 = j + 1
    BY <1>1, <1>2
  <2>2. QED
    BY <1>1, <2>1
<1>5. \A i \in DOMAIN t : t[i] # Head(s) /\ \E j \in DOMAIN s : t[i] = s[j]
  <2> TAKE i \in DOMAIN t
  <2>1. PICK n \in 1 .. Len(s) : n = i + 1 /\ n # 1 /\ t[i] = s[n]
    BY <1>1, <1>2
  <2>2. s[n] # s[1]
    BY <1>1, <2>1
  <2>3. QED
    BY <1>1, <2>1, <2>2
<1>6. ASSUME NEW y PROVE Contains(t, y) <=> Contains(s, y) /\ y # Head(s)
  <2>1. ASSUME NEW i \in 1 .. Len(s), s[i] = y, y # Head(s)
        PROVE  \E k \in 1 .. Len(t) : t[k] = y
    BY <1>1, <1>3, <2>1
  <2>2. QED
    BY <1>1, <1>5, <2>1 DEF Contains
<1>7. QED
  BY <1>4, <1>5, <1>6 DEF t

LEMMA IderwKeeps ==
  ASSUME BufferInv, NEW p \in Proc, Iderw(p)
  PROVE  BufferInv'
<1> USE DEF BufferInv, CacheInv
<1>1. PICK x \in Buf :
      /\ x = buf[p] /\ pc[p] = "iderw" /\ ~panicked
      /\ idequeue' = Append(idequeue, x)
      /\ IF idequeue = <<>> THEN Idestart(x) ELSE UNCHANGED <<started, sent>>
      /\ pc' = [pc EXCEPT ![p] = "io"]
      /\ UNCHANGED <<cached, data, valid, dirty, lock, disk, buf, panicked>>
  BY UserHas DEF Iderw
<1>2. x # 0 /\ lock[x] = p /\ ~Contains(idequeue, x)
  BY <1>1, UserHas DEF Holds
<1>3. idequeue \in Seq(Buf) /\ \A i, j \in DOMAIN idequeue : idequeue[i] = idequeue[j] => i = j
  BY DEF TypeOK, WaitersHaveReason
<1>4. /\ \A i, j \in DOMAIN idequeue' : idequeue'[i] = idequeue'[j] => i = j
      /\ \A y : Contains(idequeue', y) <=> Contains(idequeue, y) \/ y = x
      /\ \A i \in DOMAIN idequeue' : idequeue'[i] = x \/ \E j \in DOMAIN idequeue : idequeue'[i] = idequeue[j]
  BY <1>1, <1>2, <1>3, QueueGrows
<1>5. /\ idequeue' \in Seq(Buf) /\ idequeue' # <<>>
      /\ Head(idequeue') = IF idequeue = <<>> THEN x ELSE Head(idequeue)
  BY <1>1, <1>3, AppendIs
<1>6. /\ started' = Head(idequeue') /\ (started' \in dirty => sent' = data[started'])
      /\ started' = x \/ (started' = started /\ started # 0)
  <2>1. CASE idequeue = <<>>
    <3>1. started' = x /\ sent' = data[x]
      BY <1>1, <2>1 DEF Idestart
    <3>2. QED
      BY <1>5, <2>1, <3>1
  <2>2. CASE idequeue # <<>>
    <3>1. started' = started /\ sent' = sent
      BY <1>1, <2>2
    <3>2. started = Head(idequeue) /\ started # 0
      BY <1>3, <2>2, TailIs, StatesOK DEF WaitersHaveReason
    <3>3. QED
      BY <1>5, <2>2, <3>1, <3>2 DEF WaitersHaveReason
  <2>3. QED
    BY <2>1, <2>2
<1>7. TypeOK'
  <2>1. started' \in Buf \cup {0} /\ sent' \in Val
    BY <1>1 DEF Idestart, TypeOK
  <2>2. QED
    BY <1>1, <1>5, <2>1 DEF TypeOK
<1>8. \A q \in Proc : /\ Holds(q)' <=> Holds(q)
                      /\ pc'[q] = "waits" <=> pc[q] = "waits"
                      /\ pc'[q] = "io" <=> pc[q] = "io" \/ q = p
                      /\ pc'[q] = "out" <=> pc[q] = "out"
                      /\ pc'[q] \in {"held", "done"} => pc'[q] = pc[q]
  BY <1>1, StatesOK DEF Holds
<1>9. \A y \in Buf : Users(y)' = Users(y)
  BY <1>1, <1>8, UsersStay
<1>10. OneBufferPerBlock'
  BY <1>1, <1>9 DEF OneBufferPerBlock
<1>11. \A q \in Proc :
         pc'[q] = "io" <=> buf'[q] # 0 /\ lock'[buf'[q]] = q /\ Contains(idequeue', buf'[q])
  <2> TAKE q \in Proc
  <2>1. /\ pc[q] = "io" <=> buf[q] # 0 /\ lock[buf[q]] = q /\ Contains(idequeue, buf[q])
        /\ buf'[q] = buf[q] /\ lock' = lock
    BY <1>1 DEF WaitersHaveReason
  <2>2. Contains(idequeue', buf[q]) <=> Contains(idequeue, buf[q]) \/ buf[q] = x
    BY <1>4
  <2>3. QED
    BY <1>1, <1>2, <1>8, <2>1, <2>2
<1>12. WaitersHaveReason'
  <2>1. \A q \in Proc : /\ Holds(q)' <=> buf'[q] # 0 /\ lock'[buf'[q]] = q
                        /\ pc'[q] = "waits" => lock'[buf'[q]] # Nobody
    BY <1>1, <1>8 DEF WaitersHaveReason
  <2>2. lock'[started'] # Nobody /\ (started' \in dirty' => sent' = data'[started'])
    BY <1>1, <1>2, <1>6, StatesOK DEF WaitersHaveReason
  <2>3. QED
    BY <1>4, <1>5, <1>6, <1>11, <2>1, <2>2 DEF WaitersHaveReason
<1>13. UsersMatch'
  <2>1. \A i \in DOMAIN idequeue' : lock'[idequeue'[i]] # Nobody
    BY <1>1, <1>2, <1>4, StatesOK DEF UsersMatch
  <2>2. QED
    BY <1>1, <1>8, <1>9, <2>1 DEF UsersMatch
<1>14. FlagsMatch'
  BY <1>1, <1>8 DEF FlagsMatch
<1>15. QED
  BY <1>7, <1>10, <1>12, <1>13, <1>14

\* What the interrupt of the disk does: its first request was of a block that no
\* other buffer has, and after it the buffer has the contents of the disk.
LEMMA IdeintrDoes ==
  ASSUME BufferInv, Ideintr, NEW x \in Buf, x = Head(idequeue)
  PROVE  /\ idequeue # <<>> /\ started = x
         /\ block[x] \in Block /\ lock[x] \in Proc /\ pc[lock[x]] = "io" /\ buf[lock[x]] = x
         /\ \A y \in Buf : y # x => block[y] # block[x]
         /\ data' = IF x \in dirty THEN data ELSE [data EXCEPT ![x] = disk[block[x]]]
         /\ disk' = IF x \in dirty THEN [disk EXCEPT ![block[x]] = data[x]] ELSE disk
         /\ disk'[block[x]] = data'[x]
         /\ valid' = valid \cup {x} /\ dirty' = dirty \ {x}
         /\ pc' = [pc EXCEPT ![lock[x]] = "done"]
         /\ idequeue' = Tail(idequeue) /\ UNCHANGED <<cached, lock, buf, panicked>>
<1> USE DEF BufferInv, CacheInv
<1>1. /\ idequeue # <<>> /\ started = x
      /\ valid' = valid \cup {x} /\ dirty' = dirty \ {x}
      /\ pc' = [p \in Proc |-> IF pc[p] = "io" /\ buf[p] = x THEN "done" ELSE pc[p]]
      /\ idequeue' = Tail(idequeue) /\ UNCHANGED <<cached, lock, buf, panicked>>
  BY DEF Ideintr, WaitersHaveReason
<1>2. Contains(idequeue, x) /\ x # 0
  BY <1>1, StatesOK, StartedIsQueued
<1>3. lock[x] \in Proc /\ pc[lock[x]] = "io" /\ buf[lock[x]] = x
  BY <1>2, QueuedIsLocked
<1>4. block[x] \in Block
  BY <1>3, UserHas
<1>5. \A y \in Buf : y # x => block[y] # block[x]
  BY <1>4, StatesOK DEF OneBufferPerBlock
<1>6. x \in dirty => sent = data[x]
  BY <1>1, <1>2 DEF WaitersHaveReason
<1>7. /\ data' = IF x \in dirty THEN data ELSE [data EXCEPT ![x] = disk[block[x]]]
      /\ disk' = IF x \in dirty THEN [disk EXCEPT ![block[x]] = data[x]] ELSE disk
  BY <1>1, <1>6 DEF Ideintr
<1>8. disk'[block[x]] = data'[x]
  BY <1>4, <1>7 DEF TypeOK
<1>9. pc' = [pc EXCEPT ![lock[x]] = "done"]
  <2>1. \A q \in Proc : pc[q] = "io" /\ buf[q] = x <=> q = lock[x]
    BY <1>2, <1>3 DEF WaitersHaveReason
  <2>2. QED
    BY <1>1, <2>1, StatesOK
<1>10. QED
  BY <1>1, <1>3, <1>4, <1>5, <1>7, <1>8, <1>9

LEMMA IdeintrKeeps ==
  ASSUME BufferInv, Ideintr
  PROVE  BufferInv'
<1> USE DEF BufferInv, CacheInv
<1>1. PICK x \in Buf : x = Head(idequeue)
  BY TailIs DEF Ideintr, TypeOK
<1>2. PICK h \in Proc : h = lock[x]
  BY <1>1, IdeintrDoes
<1>3. /\ idequeue # <<>> /\ idequeue \in Seq(Buf) /\ started = x
      /\ block[x] \in Block /\ pc[h] = "io" /\ buf[h] = x
      /\ \A y \in Buf : y # x => block[y] # block[x]
      /\ disk'[block[x]] = data'[x]
      /\ valid' = valid \cup {x} /\ dirty' = dirty \ {x}
      /\ pc' = [pc EXCEPT ![h] = "done"]
      /\ idequeue' = Tail(idequeue) /\ UNCHANGED <<cached, lock, buf, panicked>>
  BY <1>1, <1>2, IdeintrDoes DEF TypeOK
<1>4. /\ data' = IF x \in dirty THEN data ELSE [data EXCEPT ![x] = disk[block[x]]]
      /\ disk' = IF x \in dirty THEN [disk EXCEPT ![block[x]] = data[x]] ELSE disk
  BY <1>1, IdeintrDoes
<1>5. /\ \A i, j \in DOMAIN idequeue : idequeue[i] = idequeue[j] => i = j
      /\ Tail(idequeue) \in Seq(Buf)
  BY <1>3, TailIs DEF WaitersHaveReason
<1>6. /\ \A i, j \in DOMAIN idequeue' : idequeue'[i] = idequeue'[j] => i = j
      /\ \A y : Contains(idequeue', y) <=> Contains(idequeue, y) /\ y # x
      /\ \A i \in DOMAIN idequeue' : idequeue'[i] # x /\ \E j \in DOMAIN idequeue : idequeue'[i] = idequeue[j]
  BY <1>1, <1>3, <1>5, QueueShrinks
<1>7. /\ started' = IF idequeue' = <<>> THEN 0 ELSE Head(idequeue')
      /\ sent' = IF idequeue' = <<>> THEN sent ELSE data[Head(idequeue')]
  BY DEF Ideintr, Idestart
<1>8. idequeue' # <<>> => /\ Head(idequeue') \in Buf /\ Head(idequeue') # x
                          /\ lock[Head(idequeue')] # Nobody
  <2>1. SUFFICES ASSUME idequeue' # <<>>
                 PROVE  /\ Head(idequeue') \in Buf /\ Head(idequeue') # x
                        /\ lock[Head(idequeue')] # Nobody
    OBVIOUS
  <2>2. 1 \in DOMAIN idequeue' /\ Head(idequeue') = idequeue'[1] /\ Head(idequeue') \in Buf
    BY <1>3, <1>5, <2>1, TailIs
  <2>3. QED
    BY <1>6, <2>2 DEF UsersMatch
<1>9. \A y \in Buf : y # x => data'[y] = data[y]
  BY <1>4 DEF TypeOK
<1>10. \A y \in Buf : y # x /\ block[y] # Nobody => disk'[block[y]] = disk[block[y]]
  BY <1>3, <1>4 DEF TypeOK
<1>11. TypeOK'
  <2>1. data' \in [Buf -> Val] /\ disk' \in [Block -> Val]
    BY <1>3, <1>4 DEF TypeOK
  <2>2. started' \in Buf \cup {0} /\ sent' \in Val
    BY <1>7, <1>8 DEF TypeOK
  <2>3. QED
    BY <1>3, <1>5, <2>1, <2>2 DEF TypeOK
<1>12. \A q \in Proc : /\ Holds(q)' <=> Holds(q)
                       /\ pc'[q] = "waits" <=> pc[q] = "waits"
                       /\ pc'[q] = "io" <=> pc[q] = "io" /\ q # h
                       /\ pc'[q] = "out" <=> pc[q] = "out"
                       /\ pc'[q] \in {"held", "done"} => pc'[q] = pc[q] \/ q = h
  BY <1>3, StatesOK DEF Holds
<1>13. \A y \in Buf : Users(y)' = Users(y)
  BY <1>3, <1>12, UsersStay
<1>14. OneBufferPerBlock'
  BY <1>3, <1>13 DEF OneBufferPerBlock
<1>15. \A q \in Proc :
         pc'[q] = "io" <=> buf'[q] # 0 /\ lock'[buf'[q]] = q /\ Contains(idequeue', buf'[q])
  <2> TAKE q \in Proc
  <2>1. /\ pc[q] = "io" <=> buf[q] # 0 /\ lock[buf[q]] = q /\ Contains(idequeue, buf[q])
        /\ buf'[q] = buf[q] /\ lock' = lock
    BY <1>3 DEF WaitersHaveReason
  <2>2. Contains(idequeue', buf[q]) <=> Contains(idequeue, buf[q]) /\ buf[q] # x
    BY <1>6
  <2>3. QED
    BY <1>2, <1>3, <1>12, <2>1, <2>2
<1>16. WaitersHaveReason'
  <2>1. \A q \in Proc : /\ Holds(q)' <=> buf'[q] # 0 /\ lock'[buf'[q]] = q
                        /\ pc'[q] = "waits" => lock'[buf'[q]] # Nobody
    BY <1>3, <1>12 DEF WaitersHaveReason
  <2>2. started' # 0 => /\ lock'[started'] # Nobody
                        /\ started' \in dirty' => sent' = data'[started']
    BY <1>3, <1>7, <1>8, <1>9
  <2>3. QED
    BY <1>6, <1>7, <1>15, <2>1, <2>2 DEF WaitersHaveReason
<1>17. UsersMatch'
  <2>1. \A i \in DOMAIN idequeue' : lock'[idequeue'[i]] # Nobody
    BY <1>3, <1>6 DEF UsersMatch
  <2>2. QED
    BY <1>3, <1>12, <1>13, <2>1 DEF UsersMatch
<1>18. FlagsMatch'
  <2>1. \A y \in valid' : block'[y] # Nobody /\ (y \notin dirty' => data'[y] = disk'[block'[y]])
    <3> TAKE y \in valid'
    <3>1. CASE y = x
      BY <1>3, <3>1, StatesOK
    <3>2. CASE y # x
      BY <1>3, <1>9, <1>10, <3>2 DEF FlagsMatch, TypeOK
    <3>3. QED
      BY <3>1, <3>2
  <2>2. \A q \in Proc : /\ pc'[q] \in {"held", "done"} => buf'[q] \in valid'
                        /\ pc'[q] = "done" => buf'[q] \notin dirty'
    BY <1>3, <1>12 DEF FlagsMatch
  <2>3. dirty' \subseteq valid'
    BY <1>3 DEF FlagsMatch
  <2>4. QED
    BY <2>1, <2>2, <2>3 DEF FlagsMatch
<1>19. QED
  BY <1>11, <1>14, <1>16, <1>17, <1>18

LEMMA BufferStep == BufferInv /\ [Next]_vars => BufferInv'
<1> SUFFICES ASSUME BufferInv, [Next]_vars PROVE BufferInv'
  OBVIOUS
<1>1. ASSUME NEW p \in Proc, NEW b \in Block, Bget(p, b) PROVE BufferInv'
  BY <1>1, BgetHitKeeps, BgetRecycleKeeps, BgetPanicKeeps DEF Bget
<1>2. ASSUME NEW p \in Proc, NEW v \in Val, LogWrite(p, v) \/ Bwrite(p, v) PROVE BufferInv'
  BY <1>2, LogWriteKeeps
<1>3. ASSUME NEW p \in Proc,
             AcquireSleep(p) \/ ReleaseSleep(p) \/ Brelse(p) \/ Iderw(p) \/ IderwDone(p)
      PROVE  BufferInv'
  BY <1>3, AcquireSleepKeeps, ReleaseSleepKeeps, BrelseKeeps, IderwKeeps, IderwDoneKeeps
<1>4. CASE Ideintr
  BY <1>4, IdeintrKeeps
<1>5. CASE UNCHANGED vars
  <2>1. TypeOK'
    BY <1>5 DEF vars, BufferInv, CacheInv, TypeOK
  <2>2. OneBufferPerBlock' /\ WaitersHaveReason' /\ UsersMatch' /\ FlagsMatch'
    BY <1>5 DEF vars, BufferInv, CacheInv, OneBufferPerBlock, WaitersHaveReason,
                UsersMatch, FlagsMatch, Users, Holds
  <2>3. QED
    BY <2>1, <2>2 DEF BufferInv, CacheInv
<1>6. QED
  BY <1>1, <1>2, <1>3, <1>4, <1>5 DEF Next

\* Every state of the buffer cache and the disk driver satisfies the inductive
\* invariant: the users, the flags and the queue are what the code takes them for.
THEOREM BufferCorrect == Spec => []BufferInv
<1>1. Init => BufferInv
  BY BufferInit
<1>2. BufferInv /\ [Next]_vars => BufferInv'
  BY BufferStep
<1>3. QED
  BY <1>1, <1>2, PTL DEF Spec

\* bget() never has two buffers for one block or loses one from the list, counts
\* its references right, one process at a time holds a sleep lock, whoever sleeps in
\* acquiresleep() or iderw() has somebody to wake it, and a request that the disk is
\* at work on carries the data of its buffer.
THEOREM CacheIsConsistent == Spec => []CacheInv
<1>1. BufferInv => CacheInv
  BY DEF BufferInv
<1>2. QED
  BY <1>1, BufferCorrect, PTL

-----------------------------------------------------------------------------
(* The store of blocks. *)

\* What a reader of each block sees, and who has the block locked, from the parts of
\* the cache they depend on.
Contents(dk, bk, dt, vd) ==
  [b \in Block |-> IF {x \in vd : bk[x] = b} = {} THEN dk[b]
                   ELSE dt[CHOOSE x \in {x \in vd : bk[x] = b} : TRUE]]
Holders(bk, lk) ==
  [b \in Block |-> IF \E x \in Buf : bk[x] = b THEN lk[CHOOSE x \in Buf : bk[x] = b] ELSE Nobody]

\* Of no block are there two buffers.
Unshared(bk) == \A x, y \in Buf : bk[x] = bk[y] /\ bk[x] # Nobody => x = y

LEMMA ContentsIs ==
  ASSUME NEW dk, NEW bk, NEW dt, NEW vd \in SUBSET Buf, Unshared(bk)
  PROVE  /\ DOMAIN Contents(dk, bk, dt, vd) = Block
         /\ Contents(dk, bk, dt, vd) = [b \in Block |-> Contents(dk, bk, dt, vd)[b]]
         /\ \A x \in vd : bk[x] \in Block => Contents(dk, bk, dt, vd)[bk[x]] = dt[x]
         /\ \A b \in Block : (\A x \in vd : bk[x] # b) => Contents(dk, bk, dt, vd)[b] = dk[b]
<1> DEFINE C == Contents(dk, bk, dt, vd)
           Of(b) == {x \in vd : bk[x] = b}
<1>1. C = [b \in Block |-> IF Of(b) = {} THEN dk[b] ELSE dt[CHOOSE x \in Of(b) : TRUE]]
  BY DEF Contents
<1>2. ASSUME NEW x \in vd, bk[x] \in Block PROVE C[bk[x]] = dt[x]
  <2>1. Of(bk[x]) = {x}
    BY <1>2, BufferAssumption DEF BufferAssumption, Unshared
  <2>2. (CHOOSE y \in Of(bk[x]) : TRUE) = x
    BY <2>1
  <2> HIDE DEF Of
  <2>3. QED
    BY <1>1, <1>2, <2>1, <2>2
<1>3. ASSUME NEW b \in Block, \A x \in vd : bk[x] # b PROVE C[b] = dk[b]
  <2>1. Of(b) = {}
    BY <1>3
  <2> HIDE DEF Of
  <2>2. QED
    BY <1>1, <2>1
<1>4. DOMAIN C = Block /\ C = [b \in Block |-> C[b]]
  BY <1>1
<1>5. QED
  BY <1>2, <1>3, <1>4

LEMMA HoldersIs ==
  ASSUME NEW bk, NEW lk, Unshared(bk)
  PROVE  /\ DOMAIN Holders(bk, lk) = Block
         /\ Holders(bk, lk) = [b \in Block |-> Holders(bk, lk)[b]]
         /\ \A x \in Buf : bk[x] \in Block => Holders(bk, lk)[bk[x]] = lk[x]
         /\ \A b \in Block : (\A x \in Buf : bk[x] # b) => Holders(bk, lk)[b] = Nobody
<1> DEFINE H == Holders(bk, lk)
<1>1. ASSUME NEW x \in Buf, bk[x] \in Block PROVE H[bk[x]] = lk[x]
  <2>1. (CHOOSE y \in Buf : bk[y] = bk[x]) = x
    BY <1>1, BufferAssumption DEF BufferAssumption, Unshared
  <2>2. QED
    BY <1>1, <2>1 DEF Holders
<1>2. \A b \in Block : (\A x \in Buf : bk[x] # b) => H[b] = Nobody
  BY DEF Holders
<1>3. DOMAIN H = Block /\ H = [b \in Block |-> H[b]]
  BY DEF Holders
<1>4. QED
  BY <1>1, <1>2, <1>3

\* The variables of the store.
Seen == Contents(disk, block, data, valid)
Unsaved == {block[x] : x \in dirty}
Owner == Holders(block, lock)

\* What they are in a state of the invariant.
StoreMatches ==
  /\ DOMAIN Seen = Block /\ Seen = [b \in Block |-> Seen[b]]
  /\ \A x \in valid : block[x] \in Block /\ Seen[block[x]] = data[x]
  /\ \A b \in Block : (\A x \in dirty : block[x] # b) => Seen[b] = disk[b]
  /\ DOMAIN Owner = Block /\ Owner = [b \in Block |-> Owner[b]]
  /\ \A x \in Buf : block[x] \in Block => Owner[block[x]] = lock[x]
  /\ \A b \in Block : (\A x \in Buf : block[x] # b) => Owner[b] = Nobody

LEMMA StoreIs == BufferInv => StoreMatches
<1> SUFFICES ASSUME BufferInv PROVE StoreMatches
  OBVIOUS
<1> USE DEF BufferInv, CacheInv
<1>1. Unshared(block) /\ valid \in SUBSET Buf /\ \A x \in valid : block[x] \in Block
  BY DEF Unshared, OneBufferPerBlock, TypeOK, FlagsMatch
<1>2. /\ DOMAIN Seen = Block /\ Seen = [b \in Block |-> Seen[b]]
      /\ \A x \in valid : Seen[block[x]] = data[x]
      /\ \A b \in Block : (\A x \in valid : block[x] # b) => Seen[b] = disk[b]
  BY <1>1, ContentsIs DEF Seen
<1>3. ASSUME NEW b \in Block, \A x \in dirty : block[x] # b PROVE Seen[b] = disk[b]
  <2>1. CASE \E x \in valid : block[x] = b
    <3>1. PICK x \in valid : block[x] = b
      BY <2>1
    <3>2. QED
      BY <1>2, <1>3, <3>1 DEF FlagsMatch
  <2>2. CASE \A x \in valid : block[x] # b
    BY <1>2, <2>2
  <2>3. QED
    BY <2>1, <2>2
<1>4. /\ DOMAIN Owner = Block /\ Owner = [b \in Block |-> Owner[b]]
      /\ \A x \in Buf : block[x] \in Block => Owner[block[x]] = lock[x]
      /\ \A b \in Block : (\A x \in Buf : block[x] # b) => Owner[b] = Nobody
  BY <1>1, HoldersIs DEF Owner
<1>5. QED
  BY <1>1, <1>2, <1>3, <1>4 DEF StoreMatches

LEMMA StoreIsAfter == BufferInv' => StoreMatches'
BY StoreIs, PTL

\* The expressions of the refinement mapping are these.
LEMMA MappingIs ==
  /\ [b \in Block |-> IF HasBlock(b) = {} THEN disk[b]
                      ELSE data[CHOOSE x \in HasBlock(b) : TRUE]] = Seen
  /\ [b \in Block |-> IF HasBlock(b) = {} THEN disk[b]
                      ELSE data[CHOOSE x \in HasBlock(b) : TRUE]]' = Seen'
  /\ [b \in Block |-> IF \E x \in Buf : block[x] = b
                      THEN lock[CHOOSE x \in Buf : block[x] = b] ELSE Nobody] = Owner
  /\ [b \in Block |-> IF \E x \in Buf : block[x] = b
                      THEN lock[CHOOSE x \in Buf : block[x] = b] ELSE Nobody]' = Owner'
BY DEF Seen, Owner, Contents, Holders, HasBlock

\* Steps that leave the contents and the locks of the buffers alone.
LEMMA QuietStep ==
  ASSUME UNCHANGED <<block, data, valid, dirty, lock, disk>>
  PROVE  UNCHANGED <<Seen, disk, Unsaved, Owner>>
BY DEF Seen, Unsaved, Owner

\* A buffer that bget() recycles is clean: the disk has what is dropped.
LEMMA RecycleStep ==
  ASSUME BufferInv, BufferInv', NEW p \in Proc, NEW b \in Block, BgetRecycle(p, b)
  PROVE  UNCHANGED <<Seen, disk, Unsaved, Owner>>
<1>1. PICK x \in Buf : /\ refcnt[x] = 0 /\ x \notin dirty
                       /\ block' = [block EXCEPT ![x] = b]
                       /\ valid' = valid \ {x} /\ dirty' = dirty \ {x}
  <2>1. Unused \subseteq Buf /\ Unused # {}
    BY DEF BgetRecycle, Unused
  <2>2. Max(Unused) \in Unused /\ list[Max(Unused)] \in Buf
    BY <2>1, MaxExists DEF BufferInv, CacheInv, TypeOK
  <2>3. QED
    BY <2>2 DEF BgetRecycle, Unused
<1>2. /\ \A y \in Buf : block[y] # b
      /\ UNCHANGED <<data, lock, disk>>
  BY DEF BgetRecycle
<1>3. lock[x] = Nobody
  BY <1>1, UnusedIsFree
<1>4. StoreMatches /\ StoreMatches'
  BY StoreIs, StoreIsAfter
<1>5. dirty' = dirty /\ \A y \in Buf : y # x => block'[y] = block[y]
  BY <1>1 DEF BufferInv, CacheInv, TypeOK
<1>6. /\ block \in [Buf -> Block \cup {Nobody}] /\ valid \subseteq Buf /\ dirty \subseteq valid
      /\ Unshared(block) /\ block'[x] = b
  BY <1>1 DEF BufferInv, CacheInv, TypeOK, OneBufferPerBlock, FlagsMatch, Unshared
<1>7. Unsaved' = Unsaved
  BY <1>1, <1>5, <1>6 DEF Unsaved
<1>8. ASSUME NEW c \in Block PROVE Seen'[c] = Seen[c]
  <2>1. CASE \E y \in dirty : block[y] = c
    <3>1. PICK y \in dirty : block[y] = c
      BY <2>1
    <3>2. y \in valid /\ y \in valid' /\ block'[y] = c
      BY <1>1, <1>5, <1>6, <3>1
    <3>3. QED
      BY <1>2, <1>4, <3>1, <3>2 DEF StoreMatches
  <2>2. CASE \A y \in dirty : block[y] # c
    <3>1. \A y \in dirty' : block'[y] # c
      BY <1>1, <1>5, <1>6, <2>2
    <3>2. QED
      BY <1>2, <1>4, <2>2, <3>1 DEF StoreMatches
  <2>3. QED
    BY <2>1, <2>2
<1>9. ASSUME NEW c \in Block PROVE Owner'[c] = Owner[c]
  <2>1. CASE c = b
    <3>1. Owner[c] = Nobody
      BY <1>2, <1>4, <2>1 DEF StoreMatches
    <3>2. Owner'[c] = lock'[x]
      BY <1>4, <1>6, <2>1 DEF StoreMatches
    <3>3. QED
      BY <1>2, <1>3, <3>1, <3>2
  <2>2. CASE c # b /\ \E y \in Buf : y # x /\ block[y] = c
    <3>1. PICK y \in Buf : y # x /\ block[y] = c /\ block'[y] = c
      BY <1>5, <2>2
    <3>2. QED
      BY <1>2, <1>4, <3>1 DEF StoreMatches
  <2>3. CASE c # b /\ \A y \in Buf : y # x => block[y] # c
    <3>1. Owner[c] = Nobody
      <4>1. block[x] = c => Owner[c] = lock[x]
        BY <1>4 DEF StoreMatches
      <4>2. block[x] # c => \A y \in Buf : block[y] # c
        BY <2>3
      <4>3. QED
        BY <1>3, <1>4, <4>1, <4>2 DEF StoreMatches
    <3>2. \A y \in Buf : block'[y] # c
      BY <1>5, <1>6, <2>3
    <3>3. QED
      BY <1>4, <3>1, <3>2 DEF StoreMatches
  <2>4. QED
    BY <2>1, <2>2, <2>3
<1>10. Seen' = Seen /\ Owner' = Owner
  BY <1>4, <1>8, <1>9 DEF StoreMatches
<1>11. QED
  BY <1>2, <1>7, <1>10

\* A process that gets the sleep lock of a buffer takes its block, and when it
\* releases the lock it gives the block back.
LEMMA LockStep ==
  ASSUME BufferInv, BufferInv', NEW p \in Proc, NEW q \in Proc \cup {Nobody}, NEW x \in Buf,
         block[x] \in Block, lock' = [lock EXCEPT ![x] = q],
         UNCHANGED <<block, data, valid, dirty, disk>>
  PROVE  /\ Owner' = [Owner EXCEPT ![block[x]] = q]
         /\ UNCHANGED <<Seen, disk, Unsaved>>
<1>1. StoreMatches /\ StoreMatches'
  BY StoreIs, StoreIsAfter
<1>2. /\ Unshared(block) /\ block' = block
      /\ \A y \in Buf : lock'[y] = IF y = x THEN q ELSE lock[y]
  BY DEF Unshared, BufferInv, CacheInv, TypeOK, OneBufferPerBlock
<1>3. ASSUME NEW c \in Block PROVE Owner'[c] = IF c = block[x] THEN q ELSE Owner[c]
  <2>1. CASE \E y \in Buf : block[y] = c
    <3>1. PICK y \in Buf : block[y] = c
      BY <2>1
    <3>2. Owner'[c] = lock'[y] /\ Owner[c] = lock[y]
      BY <1>1, <1>2, <3>1 DEF StoreMatches
    <3>3. y = x <=> c = block[x]
      BY <1>2, <3>1, StatesOK DEF Unshared
    <3>4. QED
      BY <1>2, <3>2, <3>3
  <2>2. CASE \A y \in Buf : block[y] # c
    <3>1. Owner'[c] = Nobody /\ Owner[c] = Nobody
      BY <1>1, <1>2, <2>2 DEF StoreMatches
    <3>2. QED
      BY <2>2, <3>1
  <2>3. QED
    BY <2>1, <2>2
<1>4. Owner' = [Owner EXCEPT ![block[x]] = q]
  BY <1>1, <1>3 DEF StoreMatches
<1>5. QED
  BY <1>4 DEF Seen, Unsaved

\* New data in a buffer is new contents of its block, and not yet saved.
LEMMA WriteStep ==
  ASSUME BufferInv, BufferInv', NEW v \in Val, NEW x \in Buf, x \in valid,
         data' = [data EXCEPT ![x] = v], dirty' = dirty \cup {x},
         UNCHANGED <<block, valid, lock, disk>>
  PROVE  /\ Seen' = [Seen EXCEPT ![block[x]] = v]
         /\ Unsaved' = Unsaved \cup {block[x]}
         /\ UNCHANGED <<disk, Owner>>
<1>1. StoreMatches /\ StoreMatches'
  BY StoreIs, StoreIsAfter
<1>2. /\ Unshared(block) /\ block' = block /\ block[x] \in Block
      /\ \A y \in Buf : data'[y] = IF y = x THEN v ELSE data[y]
      /\ valid \subseteq Buf /\ dirty \subseteq valid
  BY <1>1 DEF Unshared, BufferInv, CacheInv, TypeOK, OneBufferPerBlock, FlagsMatch, StoreMatches
<1>3. ASSUME NEW c \in Block PROVE Seen'[c] = IF c = block[x] THEN v ELSE Seen[c]
  <2>1. CASE \E y \in valid : block[y] = c
    <3>1. PICK y \in valid : block[y] = c
      BY <2>1
    <3>2. Seen'[c] = data'[y] /\ Seen[c] = data[y]
      BY <1>1, <1>2, <3>1 DEF StoreMatches
    <3>3. y = x <=> c = block[x]
      BY <1>2, <3>1, StatesOK DEF Unshared
    <3>4. QED
      BY <1>2, <3>1, <3>2, <3>3
  <2>2. CASE \A y \in valid : block[y] # c
    <3>1. (\A y \in dirty : block[y] # c) /\ (\A y \in dirty' : block'[y] # c)
      BY <1>2, <2>2
    <3>2. Seen'[c] = disk'[c] /\ Seen[c] = disk[c]
      BY <1>1, <3>1 DEF StoreMatches
    <3>3. QED
      BY <2>2, <3>2
  <2>3. QED
    BY <2>1, <2>2
<1>4. Seen' = [Seen EXCEPT ![block[x]] = v]
  BY <1>1, <1>3 DEF StoreMatches
<1>5. Unsaved' = Unsaved \cup {block[x]}
  BY <1>2 DEF Unsaved
<1>6. QED
  BY <1>4, <1>5 DEF Owner

\* The interrupt saves the contents of a dirty block; a block that it reads had
\* these contents before.
LEMMA InterruptStep ==
  ASSUME BufferInv, BufferInv', Ideintr, NEW x \in Buf, x = Head(idequeue)
  PROVE  /\ UNCHANGED <<Seen, Owner>>
         /\ block[x] \in Block /\ lock[x] \in Proc /\ Owner[block[x]] = lock[x]
         /\ \/ UNCHANGED <<disk, Unsaved>>
            \/ /\ block[x] \in Unsaved /\ Unsaved' = Unsaved \ {block[x]}
               /\ disk' = [disk EXCEPT ![block[x]] = Seen[block[x]]]
<1>1. StoreMatches /\ StoreMatches'
  BY StoreIs, StoreIsAfter
<1>2. /\ block[x] \in Block /\ lock[x] \in Proc
      /\ \A y \in Buf : y # x => block[y] # block[x]
      /\ disk'[block[x]] = data'[x]
      /\ valid' = valid \cup {x} /\ dirty' = dirty \ {x}
      /\ UNCHANGED <<block, lock>>
  BY IdeintrDoes
<1>3. /\ data' = IF x \in dirty THEN data ELSE [data EXCEPT ![x] = disk[block[x]]]
      /\ disk' = IF x \in dirty THEN [disk EXCEPT ![block[x]] = data[x]] ELSE disk
  BY IdeintrDoes
<1>4. valid \subseteq Buf /\ dirty \subseteq valid /\ data \in [Buf -> Val] /\ disk \in [Block -> Val]
  BY DEF BufferInv, CacheInv, TypeOK, FlagsMatch
<1>5. Owner' = Owner /\ Owner[block[x]] = lock[x]
  BY <1>1, <1>2 DEF Owner, StoreMatches
<1>6. ASSUME NEW c \in Block PROVE Seen'[c] = Seen[c]
  <2>1. CASE c = block[x]
    <3>1. Seen'[c] = data'[x]
      BY <1>1, <1>2, <2>1 DEF StoreMatches
    <3>2. x \in dirty => Seen[c] = data[x] /\ data'[x] = data[x]
      BY <1>1, <1>3, <1>4, <2>1 DEF StoreMatches
    <3>3. x \notin dirty => Seen[c] = disk[c] /\ data'[x] = disk[c]
      <4>1. SUFFICES ASSUME x \notin dirty PROVE Seen[c] = disk[c] /\ data'[x] = disk[c]
        OBVIOUS
      <4>2. \A y \in dirty : block[y] # c
        BY <1>2, <1>4, <2>1, <4>1
      <4>3. QED
        BY <1>1, <1>3, <1>4, <2>1, <4>1, <4>2 DEF StoreMatches
    <3>4. QED
      BY <3>1, <3>2, <3>3
  <2>2. CASE c # block[x] /\ \E y \in dirty : block[y] = c
    <3>1. PICK y \in dirty : block[y] = c /\ y # x
      BY <2>2
    <3>2. Seen[c] = data[y] /\ Seen'[c] = data'[y]
      BY <1>1, <1>2, <1>4, <3>1 DEF StoreMatches
    <3>3. QED
      BY <1>3, <1>4, <3>1, <3>2
  <2>3. CASE c # block[x] /\ \A y \in dirty : block[y] # c
    <3>1. Seen[c] = disk[c] /\ Seen'[c] = disk'[c]
      BY <1>1, <1>2, <2>3 DEF StoreMatches
    <3>2. QED
      BY <1>2, <1>3, <1>4, <2>3, <3>1
  <2>4. QED
    BY <2>1, <2>2, <2>3
<1>7. Seen' = Seen
  BY <1>1, <1>6 DEF StoreMatches
<1>8. CASE x \in dirty
  <2>1. block[x] \in Unsaved /\ Unsaved' = Unsaved \ {block[x]}
    BY <1>2, <1>4, <1>8 DEF Unsaved
  <2>2. Seen[block[x]] = data[x]
    BY <1>1, <1>4, <1>8 DEF StoreMatches
  <2>3. QED
    BY <1>2, <1>3, <1>5, <1>7, <1>8, <2>1, <2>2
<1>9. CASE x \notin dirty
  <2>1. dirty' = dirty
    BY <1>2, <1>9
  <2>2. QED
    BY <1>2, <1>3, <1>5, <1>7, <1>9, <2>1 DEF Unsaved
<1>10. QED
  BY <1>8, <1>9

LEMMA StoreSteps ==
  ASSUME NEW p \in Proc, NEW b \in Block, Store!Take(p, b) \/ Store!Sync(p, b) \/ Store!Give(p, b)
  PROVE  Store!Next
BY DEF Store!Next, Store!Take, Store!Sync, Store!Give

\* Each step of the cache and the disk is a step of the store, or none.
LEMMA AbstractStep == BufferInv /\ BufferInv' /\ [Next]_vars => [Store!Next]_(Store!vars)
<1> SUFFICES ASSUME BufferInv, BufferInv', [Next]_vars PROVE [Store!Next]_(Store!vars)
  OBVIOUS
<1>1. ASSUME UNCHANGED <<Seen, disk, Unsaved, Owner>> PROVE UNCHANGED Store!vars
  BY <1>1, MappingIs DEF Store!vars, Unsaved
<1>2. ASSUME NEW p \in Proc, NEW b \in Block, Bget(p, b) PROVE UNCHANGED Store!vars
  <2>1. CASE BgetHit(p, b) \/ BgetPanic(p, b)
    BY <1>1, <2>1, QuietStep DEF BgetHit, BgetPanic
  <2>2. CASE BgetRecycle(p, b)
    BY <1>1, <2>2, RecycleStep
  <2>3. QED
    BY <1>2, <2>1, <2>2 DEF Bget
<1>3. ASSUME NEW p \in Proc, NEW v \in Val, LogWrite(p, v) \/ Bwrite(p, v)
      PROVE  Store!Next
  <2>1. pc[p] = "held"
    BY <1>3 DEF LogWrite, Bwrite
  <2>2. PICK x \in Buf : x = buf[p] /\ x \in valid /\ lock[x] = p
    BY <2>1, UserHas DEF BufferInv, FlagsMatch, Holds
  <2>3. block[x] \in Block /\ Owner[block[x]] = p
    BY <2>1, <2>2, UserHas, StoreIs DEF StoreMatches
  <2>4. /\ data' = [data EXCEPT ![x] = v] /\ dirty' = dirty \cup {x}
        /\ UNCHANGED <<block, valid, lock, disk>>
    BY <1>3, <2>2 DEF LogWrite, Bwrite
  <2>5. /\ Seen' = [Seen EXCEPT ![block[x]] = v]
        /\ Unsaved' = Unsaved \cup {block[x]}
        /\ UNCHANGED <<disk, Owner>>
    BY <2>2, <2>4, WriteStep
  <2>6. Store!Write(p, block[x], v)
    BY <2>3, <2>5, MappingIs DEF Store!Write, Unsaved
  <2>7. QED
    BY <2>3, <2>6 DEF Store!Next
<1>4. ASSUME NEW p \in Proc, AcquireSleep(p) PROVE Store!Next \/ UNCHANGED Store!vars
  <2>1. pc[p] = "lock" /\ ~Holds(p)
    BY <1>4 DEF AcquireSleep, Holds
  <2>2. PICK x \in Buf : x = buf[p] /\ x # 0 /\ block[x] \in Block
    BY <2>1, UserHas
  <2>3. CASE lock[x] # Nobody
    BY <1>1, <1>4, <2>2, <2>3, QuietStep DEF AcquireSleep
  <2>4. CASE lock[x] = Nobody
    <3>1. lock' = [lock EXCEPT ![x] = p] /\ UNCHANGED <<block, data, valid, dirty, disk>>
      BY <1>4, <2>2, <2>4 DEF AcquireSleep
    <3>2. /\ Owner' = [Owner EXCEPT ![block[x]] = p]
          /\ UNCHANGED <<Seen, disk, Unsaved>>
      BY <2>2, <3>1, LockStep
    <3>3. Owner[block[x]] = Nobody
      BY <2>2, <2>4, StoreIs DEF StoreMatches
    <3>4. \A c \in Block : Owner[c] # p
      <4>1. \A y \in Buf : lock[y] # p
        BY <2>1, <2>2, <2>4, StatesOK DEF BufferInv, UsersMatch
      <4>2. QED
        BY <4>1, StatesOK, StoreIs DEF StoreMatches
    <3>5. PICK b \in Block : b = block[x]
      BY <2>2
    <3>6. Store!Take(p, b)
      BY <3>2, <3>3, <3>4, <3>5, MappingIs DEF Store!Take, Unsaved
    <3>7. QED
      BY <3>6, StoreSteps
  <2>5. QED
    BY <2>3, <2>4
<1>5. ASSUME NEW p \in Proc, ReleaseSleep(p) PROVE Store!Next
  <2>1. PICK x \in Buf : x = buf[p] /\ block[x] \in Block /\ lock[x] = p
    BY <1>5, UserHas DEF ReleaseSleep, Holds
  <2>2. lock' = [lock EXCEPT ![x] = Nobody] /\ UNCHANGED <<block, data, valid, dirty, disk>>
    BY <1>5, <2>1 DEF ReleaseSleep
  <2>3. /\ Owner' = [Owner EXCEPT ![block[x]] = Nobody]
        /\ UNCHANGED <<Seen, disk, Unsaved>>
    BY <2>1, <2>2, LockStep
  <2>4. Owner[block[x]] = p
    BY <2>1, StoreIs DEF StoreMatches
  <2>5. PICK b \in Block : b = block[x]
    BY <2>1
  <2>6. Store!Give(p, b)
    BY <2>3, <2>4, <2>5, MappingIs DEF Store!Give, Unsaved
  <2>7. QED
    BY <2>6, StoreSteps
<1>6. ASSUME NEW p \in Proc, Brelse(p) \/ Iderw(p) \/ IderwDone(p)
      PROVE  UNCHANGED Store!vars
  BY <1>1, <1>6, QuietStep DEF Brelse, Iderw, IderwDone
<1>7. ASSUME Ideintr PROVE Store!Next \/ UNCHANGED Store!vars
  <2>1. PICK x \in Buf : x = Head(idequeue)
    BY <1>7, TailIs DEF Ideintr, BufferInv, CacheInv, TypeOK
  <2>2. /\ UNCHANGED <<Seen, Owner>>
        /\ block[x] \in Block /\ lock[x] \in Proc /\ Owner[block[x]] = lock[x]
        /\ \/ UNCHANGED <<disk, Unsaved>>
           \/ /\ block[x] \in Unsaved /\ Unsaved' = Unsaved \ {block[x]}
              /\ disk' = [disk EXCEPT ![block[x]] = Seen[block[x]]]
    BY <1>7, <2>1, InterruptStep
  <2>3. CASE UNCHANGED <<disk, Unsaved>>
    BY <1>1, <2>2, <2>3
  <2>4. CASE /\ block[x] \in Unsaved /\ Unsaved' = Unsaved \ {block[x]}
             /\ disk' = [disk EXCEPT ![block[x]] = Seen[block[x]]]
    <3>1. PICK p \in Proc, b \in Block : p = lock[x] /\ b = block[x]
      BY <2>2
    <3>2. Store!Sync(p, b)
      BY <2>2, <2>4, <3>1, MappingIs DEF Store!Sync, Unsaved
    <3>3. QED
      BY <3>2, StoreSteps
  <2>5. QED
    BY <2>2, <2>3, <2>4
<1>8. CASE UNCHANGED vars
  BY <1>1, <1>8, QuietStep DEF vars
<1>9. QED
  BY <1>2, <1>3, <1>4, <1>5, <1>6, <1>7, <1>8 DEF Next

\* The cache and the driver are a store of blocks: what was written is read, by
\* whoever locks the block next and whichever buffers were recycled in between; the
\* disk gets it when the holder asks; and nobody else changes it.
THEOREM ImplementsBlockStore == Spec => BlockStoreSpec
<1>1. Init => Store!Init
  <2> SUFFICES ASSUME Init PROVE Store!Init
    OBVIOUS
  <2>1. StoreMatches
    BY BufferInit, StoreIs
  <2>2. dirty = {} /\ (\A x \in Buf : block[x] = Nobody) /\ disk \in [Block -> Val]
    BY DEF Init
  <2>3. \A c \in Block : Seen[c] = disk[c] /\ Owner[c] = Nobody
    BY <2>1, <2>2, BufferAssumption DEF StoreMatches, BufferAssumption
  <2>4. Seen = disk /\ Owner = [c \in Block |-> Nobody] /\ Unsaved = {}
    BY <2>1, <2>2, <2>3 DEF StoreMatches, Unsaved
  <2>5. QED
    BY <2>2, <2>4, MappingIs DEF Store!Init, Unsaved
<1>2. QED
  BY <1>1, BufferCorrect, AbstractStep, PTL DEF Spec, BlockStoreSpec, Store!Spec

=============================================================================
