----------------------------- MODULE LogProofs -----------------------------
(***************************************************************************)
(* Proofs about the write-ahead log, for any processes, blocks, contents,  *)
(* share of an operation and length of the log.                            *)
(***************************************************************************)
EXTENDS Log, FunctionTheorems, FiniteSetTheorems, SequenceTheorems, TLAPS

USE DEF media, bcache, log, calls

-----------------------------------------------------------------------------
(* The inductive invariant. *)

\* A header fits into its block and names no block twice.
HeaderOK(h) ==
  /\ Len(h) <= LOGSIZE
  /\ \A i, j \in 1 .. Len(h) : h[i] = h[j] => i = j

\* An operation has written at most its share, and holds one buffer, which it
\* has written, exactly while it enters it into the log.
CallsMatch ==
  \A p \in Proc :
    /\ IsFiniteSet(wrote[p]) /\ Cardinality(wrote[p]) <= MAXOPBLOCKS
    /\ op[p] = "append" <=> buf[p] # {}
    /\ buf[p] \subseteq wrote[p] /\ \A b, c \in buf[p] : b = c
    /\ wrote[p] # {} => p \in Active

\* What the machine has lost before its recovery has begun, or may not have yet.
DownMatches ==
  ~up => /\ phase \in {"read", "install"} /\ ~panicked /\ ~committing
         /\ outstanding = 0 /\ dirty = {} /\ cache = disk
         /\ \A p \in Proc : op[p] = "idle"
         /\ phase = "read" => lh = <<>>

\* How far commit() or recover_from_log() is: what the log blocks hold, which
\* header is on the disk, and what is installed already.
PhasesMatch ==
  /\ panicked => phase = "none"
  /\ phase = "read" => ~up
  /\ phase \in {"none", "log", "head", "finish"} => head = <<>>
  /\ phase = "finish" => lh = <<>>
  /\ phase = "log" => /\ tail \in 1 .. Len(lh)
                      /\ \A i \in 1 .. tail - 1 : logd[i] = cache[lh[i]]
  /\ phase = "head" => \A i \in 1 .. Len(lh) : logd[i] = cache[lh[i]]
  /\ phase = "install" =>
       /\ head = lh /\ tail \in 1 .. Len(lh) + 1
       /\ up => \A i \in 1 .. Len(lh) : logd[i] = cache[lh[i]]
       /\ \A i \in 1 .. tail - 1 : disk[lh[i]] = logd[i] /\ lh[i] \notin dirty

LogInv ==
  /\ TypeOK /\ SpaceReserved /\ CommitsAlone /\ PinnedWhileDirty
  /\ IsFiniteSet(Active) /\ HeaderOK(lh) /\ HeaderOK(head)
  /\ CallsMatch /\ DownMatches /\ PhasesMatch

\* The log and the buffers start empty, and nothing is in progress.
LEMMA LogInit == Init => LogInv
<1> SUFFICES ASSUME Init PROVE LogInv
  OBVIOUS
<1>1. TypeOK
  BY EmptySeq DEF Init, TypeOK, None
<1>2. Active = {} /\ Logged = {} /\ Len(lh) = 0
  BY DEF Init, Active, Logged
<1>3. IsFiniteSet(Active) /\ Cardinality(Active) = 0 /\ Cardinality(Logged) = 0
  BY <1>2, FS_EmptySet
<1>4. SpaceReserved
  BY <1>2, <1>3, LogAssumption DEF SpaceReserved
<1>5. CommitsAlone
  BY <1>2, <1>3 DEF Init, CommitsAlone
<1>6. PinnedWhileDirty
  BY <1>2 DEF Init, PinnedWhileDirty
<1>7. HeaderOK(lh) /\ HeaderOK(head)
  BY LogAssumption DEF Init, HeaderOK
<1>8. CallsMatch
  BY FS_EmptySet, LogAssumption DEF Init, CallsMatch, None
<1>9. DownMatches /\ PhasesMatch
  BY DEF Init, DownMatches, PhasesMatch
<1>10. QED
  BY <1>1, <1>3, <1>4, <1>5, <1>6, <1>7, <1>8, <1>9 DEF LogInv

-----------------------------------------------------------------------------
(* Counting what the operations have written. *)

\* The blocks of a sequence, one more when it is appended to.
LEMMA BlocksAppend ==
  ASSUME NEW s \in Seq(Block), NEW b \in Block
  PROVE  Blocks(Append(s, b)) = Blocks(s) \cup {b}
<1>1. /\ Append(s, b) \in Seq(Block) /\ Len(Append(s, b)) = Len(s) + 1 /\ Len(s) \in Nat
      /\ \A i \in 1 .. Len(s) : Append(s, b)[i] = s[i]
      /\ Append(s, b)[Len(s) + 1] = b
  BY AppendProperties, LenProperties
<1>2. 1 .. Len(s) + 1 = 1 .. Len(s) \cup {Len(s) + 1}
  BY <1>1
<1>3. QED
  BY <1>1, <1>2 DEF Blocks

\* A sequence has finitely many blocks, and they are blocks.
LEMMA BlocksFinite ==
  ASSUME NEW s \in Seq(Block)
  PROVE  IsFiniteSet(Blocks(s)) /\ Blocks(s) \subseteq Block
<1> DEFINE f == [i \in 1 .. Len(s) |-> s[i]]
<1>1. Len(s) \in Nat /\ \A i \in 1 .. Len(s) : s[i] \in Block
  BY LenProperties, ElementOfSeq
<1>2. IsFiniteSet(1 .. Len(s))
  BY <1>1, FS_Interval
<1>3. f \in Surjection(1 .. Len(s), Blocks(s))
  BY DEF Surjection, Blocks
<1>4. IsFiniteSet(Blocks(s))
  BY <1>2, <1>3, FS_Surjection
<1>5. QED
  BY <1>1, <1>4 DEF Blocks

\* The pairs that SpaceReserved counts, as an operator of the sets they come from.
LoggedOf(A, w, s) == {x \in A \X Block : x[2] \in w[x[1]] \cap Blocks(s)}

\* They are finitely many.
LEMMA LoggedFinite ==
  ASSUME NEW A, IsFiniteSet(A), NEW w, NEW s \in Seq(Block)
  PROVE  IsFiniteSet(LoggedOf(A, w, s)) /\ Cardinality(LoggedOf(A, w, s)) \in Nat
<1>1. IsFiniteSet(A \X Blocks(s))
  BY BlocksFinite, FS_Product
<1>2. LoggedOf(A, w, s) \in SUBSET (A \X Blocks(s))
  BY DEF LoggedOf
<1>3. QED
  BY <1>1, <1>2, FS_Subset, FS_CardinalityType

\* Before and after a step.
LEMMA LoggedIs ==
  Logged = LoggedOf(Active, wrote, lh) /\ Logged' = LoggedOf(Active', wrote', lh')
BY DEF Logged, LoggedOf, Blocks

\* Operations that keep to their shares have logged no more than those allow: the
\* pairs are mapped one to one to an operation and one of its MAXOPBLOCKS shares.
LEMMA LoggedBound ==
  ASSUME NEW A, IsFiniteSet(A), NEW s \in Seq(Block), NEW w,
         \A p \in A : IsFiniteSet(w[p]) /\ Cardinality(w[p]) <= MAXOPBLOCKS
  PROVE  Cardinality(LoggedOf(A, w, s)) <= Cardinality(A) * MAXOPBLOCKS
<1> DEFINE share == 1 .. MAXOPBLOCKS
           L == LoggedOf(A, w, s)
           into == [p \in A |-> CHOOSE f : f \in Injection(w[p], share)]
           g == [x \in L |-> <<x[1], into[x[1]][x[2]]>>]
<1>1. MAXOPBLOCKS \in Nat
  BY LogAssumption DEF LogAssumption
<1>2. ASSUME NEW p \in A PROVE \E f : f \in Injection(w[p], share)
  <2>1. Cardinality(w[p]) \in Nat /\ ExistsBijection(1 .. Cardinality(w[p]), w[p])
    BY FS_CardinalityType
  <2>2. PICK f : f \in Bijection(w[p], 1 .. Cardinality(w[p]))
    BY <2>1, Fun_ExistsBijSymmetric DEF ExistsBijection
  <2>3. f \in [w[p] -> 1 .. Cardinality(w[p])] /\ \A a, b \in w[p] : f[a] = f[b] => a = b
    BY <2>2 DEF Bijection, Injection, IsInjective
  <2>4. 1 .. Cardinality(w[p]) \subseteq share
    BY <1>1, <2>1
  <2>5. f \in [w[p] -> share]
    BY <2>3, <2>4
  <2>6. QED
    BY <2>3, <2>5 DEF Injection, IsInjective
<1>3. \A p \in A : into[p] \in Injection(w[p], share)
  BY <1>2
<1> HIDE DEF into
<1>4. \A p \in A : /\ into[p] \in [w[p] -> share]
                   /\ \A a, b \in w[p] : into[p][a] = into[p][b] => a = b
  BY <1>3 DEF Injection, IsInjective
<1>5. \A x \in L : x[1] \in A /\ x[2] \in w[x[1]] /\ x = <<x[1], x[2]>>
  BY DEF LoggedOf
<1>6. g \in [L -> A \X share] /\ \A x, y \in L : g[x] = g[y] => x = y
  <2>1. \A x \in L : into[x[1]][x[2]] \in share
    <3>1. SUFFICES ASSUME NEW x \in L PROVE into[x[1]][x[2]] \in share
      OBVIOUS
    <3>2. x[1] \in A /\ x[2] \in w[x[1]]
      BY <1>5
    <3>3. into[x[1]] \in [w[x[1]] -> share]
      BY <1>4, <3>2
    <3>4. QED
      BY <3>2, <3>3
  <2>2. g \in [L -> A \X share]
    BY <1>5, <2>1
  <2>3. ASSUME NEW x \in L, NEW y \in L, g[x] = g[y] PROVE x = y
    <3>1. <<x[1], into[x[1]][x[2]]>> = <<y[1], into[y[1]][y[2]]>>
      BY <2>3
    <3>2. x[1] = y[1] /\ into[x[1]][x[2]] = into[x[1]][y[2]]
      BY <3>1
    <3>3. x[1] \in A /\ x[2] \in w[x[1]] /\ y[2] \in w[x[1]]
      BY <1>5, <3>2
    <3>4. x[2] = y[2]
      BY <1>4, <3>2, <3>3
    <3>5. QED
      BY <1>5, <3>2, <3>4
  <2>4. QED
    BY <2>2, <2>3
<1>7. g \in Injection(L, A \X share)
  BY <1>6, Fun_IsInj
<1>8. IsFiniteSet(share) /\ Cardinality(share) = MAXOPBLOCKS
  BY <1>1, FS_Interval
<1>9. /\ IsFiniteSet(A \X share)
      /\ Cardinality(A \X share) = Cardinality(A) * MAXOPBLOCKS
  BY <1>8, FS_Product
<1>10. QED
  BY <1>7, <1>9, FS_Injection

\* The header holds what is reserved.
LEMMA HeaderFits ==
  ASSUME NEW A, IsFiniteSet(A), NEW s \in Seq(Block), NEW w,
         \A p \in A : IsFiniteSet(w[p]) /\ Cardinality(w[p]) <= MAXOPBLOCKS,
         Len(s) + MAXOPBLOCKS * Cardinality(A) - Cardinality(LoggedOf(A, w, s)) <= LOGSIZE
  PROVE  Len(s) <= LOGSIZE
<1>1. MAXOPBLOCKS \in Nat /\ LOGSIZE \in Nat /\ Len(s) \in Nat
  BY LogAssumption, LenProperties DEF LogAssumption
<1>2. Cardinality(A) \in Nat /\ Cardinality(LoggedOf(A, w, s)) \in Nat
  BY LoggedFinite, FS_CardinalityType
<1>3. Cardinality(LoggedOf(A, w, s)) <= Cardinality(A) * MAXOPBLOCKS
  BY LoggedBound
<1>4. QED
  BY <1>1, <1>2, <1>3

-----------------------------------------------------------------------------
(* The system calls. *)

\* A process that is in no operation has written nothing.
LEMMA IdleWroteNothing ==
  ASSUME CallsMatch, NEW p \in Proc, p \notin Active
  PROVE  wrote[p] = {} /\ buf[p] = {}
BY DEF CallsMatch, Active

\* Who begins an operation finds room for it in the log.
LEMMA BeginOpStep ==
  ASSUME LogInv, NEW p \in Proc, BeginOp(p)
  PROVE  LogInv'
<1>1. TypeOK /\ Len(lh) \in Nat /\ LogAssumption
  BY LogAssumption, LenProperties DEF LogInv, TypeOK
<1>2. TypeOK'
  BY <1>1 DEF TypeOK, BeginOp
<1>3. p \notin Active /\ Active' = Active \cup {p}
  BY <1>1 DEF BeginOp, Active, TypeOK
<1>4. /\ IsFiniteSet(Active) /\ IsFiniteSet(Active')
      /\ Cardinality(Active) \in Nat
      /\ Cardinality(Active') = Cardinality(Active) + 1
  BY <1>3, FS_AddElement, FS_CardinalityType DEF LogInv
<1>5. outstanding = Cardinality(Active)
  BY DEF LogInv, CommitsAlone, BeginOp, Runs
<1>6. SpaceReserved'
  <2>1. Cardinality(Logged') \in Nat
    BY <1>2, <1>4, LoggedFinite, LoggedIs DEF TypeOK
  <2>2. Len(lh) + (outstanding + 1) * MAXOPBLOCKS <= LOGSIZE
    BY <1>1 DEF BeginOp, NoSpace, TypeOK, LogAssumption
  <2>3. lh' = lh
    BY DEF BeginOp
  <2>4. QED
    BY <1>1, <1>4, <1>5, <2>1, <2>2, <2>3 DEF SpaceReserved, TypeOK, LogAssumption
<1>7. CommitsAlone'
  BY <1>1, <1>4, <1>5 DEF LogInv, CommitsAlone, BeginOp, TypeOK, Runs
<1>8. QED
  BY <1>2, <1>3, <1>4, <1>6, <1>7
     DEF LogInv, BeginOp, Runs, PinnedWhileDirty, HeaderOK, CallsMatch, DownMatches, PhasesMatch,
         TypeOK, Blocks

\* A sleeping process, and one that wakes up, is in no operation.
LEMMA WakeupActive ==
  ASSUME TypeOK
  PROVE  \A p \in Proc : Wakeup(op)[p] \in {"active", "append"} <=> op[p] \in {"active", "append"}
BY DEF Wakeup, TypeOK

\* A process that sleeps, or goes round the loop again, changes nothing else.
LEMMA BeginOpSleepStep ==
  ASSUME LogInv, NEW p \in Proc, BeginOpSleep(p)
  PROVE  LogInv'
<1>1. TypeOK /\ TypeOK'
  BY DEF LogInv, TypeOK, BeginOpSleep
<1>2. Active' = Active
  BY <1>1 DEF BeginOpSleep, Active, TypeOK
<1>3. Logged' = Logged
  BY <1>2, LoggedIs DEF BeginOpSleep
<1>4. SpaceReserved' /\ HeaderOK(lh)' /\ HeaderOK(head)'
  BY <1>2, <1>3 DEF LogInv, SpaceReserved, BeginOpSleep, HeaderOK
<1>5. CommitsAlone' /\ CallsMatch'
  BY <1>1, <1>2 DEF LogInv, CommitsAlone, CallsMatch, BeginOpSleep, TypeOK
<1>6. PinnedWhileDirty'
  BY DEF LogInv, PinnedWhileDirty, BeginOpSleep, Blocks
<1>7. DownMatches' /\ PhasesMatch'
  BY DEF LogInv, DownMatches, PhasesMatch, BeginOpSleep, Runs
<1>8. QED
  BY <1>1, <1>2, <1>4, <1>5, <1>6, <1>7 DEF LogInv

\* A changed block is held until it is in the log, and counts once for its operation.
LEMMA ModifyStep ==
  ASSUME LogInv, NEW p \in Proc, NEW b \in Block, NEW v \in Val, Modify(p, b, v)
  PROVE  LogInv'
<1>1. TypeOK /\ LogAssumption
  BY LogAssumption DEF LogInv
<1>a. \/ op' = op /\ buf' = buf /\ wrote' = wrote /\ panicked' = TRUE
      \/ /\ op' = [op EXCEPT ![p] = "append"] /\ buf' = [buf EXCEPT ![p] = {b}]
         /\ wrote' = [wrote EXCEPT ![p] = @ \cup {b}] /\ panicked' = panicked
  BY DEF Modify
<1>c. cache' = [cache EXCEPT ![b] = v] /\ op[p] = "active"
      /\ UNCHANGED <<media, dirty, log, phase, tail, up>>
  BY DEF Modify
<1>b. TypeOK'
  <2>1. cache' \in [Block -> Val]
    BY <1>1, <1>c DEF TypeOK
  <2>2. /\ op' \in [Proc -> {"idle", "begin", "asleep", "active", "append", "commit"}]
        /\ buf' \in [Proc -> SUBSET Block] /\ wrote' \in [Proc -> SUBSET Block]
        /\ panicked' \in BOOLEAN
    <3>1. wrote[p] \cup {b} \in SUBSET Block /\ {b} \in SUBSET Block
      BY <1>1 DEF TypeOK
    <3>2. QED
      BY <1>1, <1>a, <3>1 DEF TypeOK
  <2>3. QED
    BY <1>1, <1>c, <2>1, <2>2 DEF TypeOK
<1>2. Active' = Active /\ p \in Active
  BY <1>1, <1>a DEF Modify, Active, TypeOK
<1>3. Active # {} /\ ~committing /\ phase = "none" /\ up /\ ~panicked
  BY <1>2 DEF LogInv, CommitsAlone, Modify, Runs
<1>4. SpaceReserved'
  <2>1. Logged \in SUBSET Logged'
    <3>1. \A q \in Proc : wrote[q] \subseteq wrote'[q]
      BY <1>1, <1>a DEF TypeOK
    <3>2. QED
      BY <1>2, <1>c, <3>1, LoggedIs DEF LoggedOf, Active
  <2>2. IsFiniteSet(Logged') /\ Cardinality(Logged') \in Nat /\ Cardinality(Logged) \in Nat
    BY <1>1, <1>2, <1>b, LoggedIs, LoggedFinite DEF LogInv, TypeOK
  <2>3. Cardinality(Logged) <= Cardinality(Logged')
    BY <2>1, <2>2, FS_Subset
  <2>4. Cardinality(Active) \in Nat /\ Len(lh) \in Nat
    BY <1>1, FS_CardinalityType, LenProperties DEF LogInv, TypeOK
  <2>5. QED
    BY <1>1, <1>2, <2>2, <2>3, <2>4 DEF LogInv, SpaceReserved, Modify, LogAssumption
<1>5. HeaderOK(lh)' /\ HeaderOK(head)'
  BY DEF LogInv, HeaderOK, Modify
<1>6. CommitsAlone'
  BY <1>1, <1>2, <1>3, <1>a DEF LogInv, CommitsAlone, Modify, TypeOK
<1>7. PinnedWhileDirty'
  <2>1. \A c \in Block : c # b => cache'[c] = cache[c]
    BY <1>1 DEF Modify, TypeOK
  <2>2. panicked' \/ \E q \in Proc : b \in buf'[q]
    BY <1>1, <1>a DEF TypeOK
  <2>3. panicked' \/ \A q \in Proc, c \in Block : c \in buf[q] => c = b \/ c \in buf'[q]
    BY <1>1, <1>3, <1>a DEF LogInv, CallsMatch, Modify, TypeOK
  <2>4. QED
    BY <1>3, <2>1, <2>2, <2>3 DEF LogInv, PinnedWhileDirty, Modify, Blocks
<1>8. CallsMatch'
  <2>1. IsFiniteSet(wrote[p] \cup {b})
    BY FS_AddElement DEF LogInv, CallsMatch
  <2>2. wrote'[p] # {} => p \in Active'
    BY <1>2
  <2>3. CASE wrote' = wrote /\ op' = op /\ buf' = buf
    BY <1>2, <2>3 DEF LogInv, CallsMatch
  <2>4. CASE ~panicked' /\ op' = [op EXCEPT ![p] = "append"]
    <3>1. /\ op'[p] = "append" /\ buf'[p] = {b} /\ wrote'[p] = wrote[p] \cup {b}
          /\ \A q \in Proc \ {p} : op'[q] = op[q] /\ buf'[q] = buf[q] /\ wrote'[q] = wrote[q]
      BY <1>1, <1>3, <1>a, <2>4 DEF TypeOK
    <3>2. Cardinality(wrote[p] \cup {b}) <= MAXOPBLOCKS
      BY DEF Modify
    <3>3. QED
      <4>1. ASSUME NEW q \in Proc, q # p
            PROVE  /\ IsFiniteSet(wrote'[q]) /\ Cardinality(wrote'[q]) <= MAXOPBLOCKS
                   /\ op'[q] = "append" <=> buf'[q] # {}
                   /\ buf'[q] \subseteq wrote'[q] /\ \A c, d \in buf'[q] : c = d
                   /\ wrote'[q] # {} => q \in Active'
        BY <1>2, <3>1, <4>1 DEF LogInv, CallsMatch
      <4>2. /\ IsFiniteSet(wrote'[p]) /\ Cardinality(wrote'[p]) <= MAXOPBLOCKS
            /\ op'[p] = "append" /\ buf'[p] # {}
            /\ buf'[p] \subseteq wrote'[p] /\ \A c, d \in buf'[p] : c = d
            /\ p \in Active'
        BY <1>2, <2>1, <3>1, <3>2
      <4>3. QED
        BY <4>1, <4>2 DEF CallsMatch
  <2>5. QED
    BY <1>3, <1>a, <2>3, <2>4
<1>9. DownMatches' /\ PhasesMatch'
  BY <1>3, <1>a DEF LogInv, DownMatches, PhasesMatch, Modify
<1>10. QED
  BY <1>1, <1>2, <1>b, <1>4, <1>5, <1>6, <1>7, <1>8, <1>9 DEF LogInv

\* A block enters the header once, and on the account of the operation.
LEMMA LogWriteStep ==
  ASSUME LogInv, NEW p \in Proc, LogWrite(p)
  PROVE  LogInv'
<1>1. PICK b \in buf[p] : Append1(p, b)
  BY DEF LogWrite
<1>2. TypeOK /\ b \in Block /\ b \in wrote[p] /\ LogAssumption
  BY LogAssumption DEF LogInv, TypeOK, CallsMatch
<1>3. /\ lh' \in Seq(Block)
      /\ Blocks(lh') = Blocks(lh) \cup {b}
  <2>1. CASE b \in Blocks(lh)
    BY <1>1, <1>2, <2>1 DEF Append1, TypeOK
  <2>2. CASE b \notin Blocks(lh)
    BY <1>1, <1>2, <2>2, BlocksAppend, AppendProperties DEF Append1, TypeOK
  <2>3. QED
    BY <2>1, <2>2
<1>4. TypeOK'
  BY <1>1, <1>2, <1>3 DEF TypeOK, LogWrite, Append1, None
<1>5. Active' = Active /\ p \in Active
  BY <1>2 DEF LogWrite, Active, TypeOK
<1>6. ~committing /\ phase = "none" /\ up /\ ~panicked
  BY <1>5 DEF LogInv, CommitsAlone, LogWrite, Runs
<1>7. /\ Len(lh) \in Nat /\ Cardinality(Active) \in Nat
      /\ IsFiniteSet(Logged) /\ Cardinality(Logged) \in Nat
      /\ IsFiniteSet(Logged') /\ Cardinality(Logged') \in Nat
  BY <1>2, <1>4, <1>5, LenProperties, LoggedIs, LoggedFinite, FS_CardinalityType
     DEF LogInv, TypeOK
<1>8. SpaceReserved'
  <2>1. CASE b \in Blocks(lh)
    <3>1. lh' = lh /\ Logged' = Logged
      BY <1>1, <1>5, <2>1, LoggedIs DEF Append1, LogWrite
    <3>2. QED
      BY <1>5, <3>1 DEF LogInv, SpaceReserved
  <2>2. CASE b \notin Blocks(lh)
    <3>1. Len(lh') = Len(lh) + 1
      BY <1>1, <1>2, <2>2, AppendProperties DEF Append1, TypeOK
    <3>2. /\ <<p, b>> \notin Logged
          /\ Logged \cup {<<p, b>>} \in SUBSET Logged'
      BY <1>2, <1>3, <1>5, <2>2, LoggedIs DEF Logged, LoggedOf, LogWrite
    <3>3. Cardinality(Logged \cup {<<p, b>>}) = Cardinality(Logged) + 1
      BY <1>7, <3>2, FS_AddElement
    <3>4. Cardinality(Logged) + 1 <= Cardinality(Logged')
      BY <1>7, <3>2, <3>3, FS_Subset
    <3>5. QED
      BY <1>2, <1>5, <1>7, <3>1, <3>4 DEF LogInv, SpaceReserved, LogAssumption
  <2>3. QED
    BY <2>1, <2>2
<1>9. HeaderOK(lh)' /\ HeaderOK(head)'
  <2>1. CASE b \in Blocks(lh)
    BY <1>1, <2>1 DEF LogInv, HeaderOK, Append1, LogWrite
  <2>2. CASE b \notin Blocks(lh)
    <3>1. /\ Len(lh') = Len(lh) + 1 /\ lh'[Len(lh) + 1] = b
          /\ \A i \in 1 .. Len(lh) : lh'[i] = lh[i] /\ lh[i] # b
      BY <1>1, <1>2, <2>2, AppendProperties DEF Append1, TypeOK, Blocks
    <3>2. Len(lh') <= LOGSIZE
      <4>1. \A q \in Active : IsFiniteSet(wrote[q]) /\ Cardinality(wrote[q]) <= MAXOPBLOCKS
        BY DEF LogInv, CallsMatch, Active
      <4>2. wrote' = wrote
        BY DEF LogWrite
      <4>3. QED
        BY <1>4, <1>5, <1>8, <4>1, <4>2, LoggedIs, HeaderFits DEF LogInv, SpaceReserved, TypeOK
    <3>3. QED
      BY <1>7, <3>1, <3>2 DEF LogInv, HeaderOK, LogWrite
  <2>3. QED
    BY <2>1, <2>2
<1>10. CommitsAlone'
  BY <1>2, <1>5, <1>6 DEF LogInv, CommitsAlone, LogWrite, TypeOK
<1>11. PinnedWhileDirty'
  <2>1. dirty' = dirty \cup {b} /\ cache' = cache /\ disk' = disk
    BY <1>1 DEF Append1, LogWrite
  <2>2. \A q \in Proc, c \in Block : c \in buf[q] => c \in dirty' \/ c \in buf'[q]
    <3>1. \A q \in Proc \ {p} : buf'[q] = buf[q]
      BY <1>1, <1>2 DEF Append1, TypeOK
    <3>2. buf[p] = {b}
      BY <1>1 DEF LogInv, CallsMatch
    <3>3. QED
      BY <2>1, <3>1, <3>2
  <2>3. QED
    BY <1>3, <1>6, <1>9, <2>1, <2>2 DEF LogInv, PinnedWhileDirty, HeaderOK, LogWrite, Blocks
<1>12. CallsMatch'
  BY <1>1, <1>2, <1>5 DEF LogInv, CallsMatch, LogWrite, Append1, TypeOK, None
<1>13. DownMatches' /\ PhasesMatch'
  BY <1>6 DEF LogInv, DownMatches, PhasesMatch, LogWrite
<1>14. QED
  BY <1>4, <1>5, <1>8, <1>9, <1>10, <1>11, <1>12, <1>13 DEF LogInv

\* What leaves the account with an operation is at most its share.
LEMMA LoggedEnd ==
  ASSUME NEW A, IsFiniteSet(A), NEW s \in Seq(Block), NEW w, NEW v, NEW p \in A,
         IsFiniteSet(w[p]), Cardinality(w[p]) <= MAXOPBLOCKS,
         \A q \in A \ {p} : v[q] = w[q]
  PROVE  Cardinality(LoggedOf(A, w, s)) <= Cardinality(LoggedOf(A \ {p}, v, s)) + MAXOPBLOCKS
<1> DEFINE L == LoggedOf(A, w, s)
           W == w[p] \cap Blocks(s)
           T == {p} \X W
<1>1. LoggedOf(A \ {p}, v, s) = L \ T
  BY DEF LoggedOf
<1>2. IsFiniteSet(W) /\ Cardinality(W) <= Cardinality(w[p]) /\ Cardinality(W) \in Nat
  <2>1. W \in SUBSET w[p]
    OBVIOUS
  <2>2. QED
    BY <2>1, FS_Subset, FS_CardinalityType
<1>3. IsFiniteSet(T) /\ Cardinality(T) = Cardinality(W)
  <2>1. IsFiniteSet({p}) /\ Cardinality({p}) = 1
    BY FS_Singleton
  <2>2. IsFiniteSet(T) /\ Cardinality(T) = 1 * Cardinality(W)
    BY <1>2, <2>1, FS_Product
  <2>3. QED
    BY <1>2, <2>2
<1>4. /\ IsFiniteSet(L) /\ Cardinality(L) \in Nat
      /\ Cardinality(L \ T) = Cardinality(L) - Cardinality(L \cap T)
  BY LoggedFinite, FS_Difference
<1>5. Cardinality(L \cap T) <= Cardinality(T) /\ Cardinality(L \cap T) \in Nat
  <2>1. L \cap T \in SUBSET T
    OBVIOUS
  <2>2. QED
    BY <1>3, <2>1, FS_Subset, FS_CardinalityType
<1>6. Cardinality(w[p]) \in Nat /\ MAXOPBLOCKS \in Nat
  BY LogAssumption, FS_CardinalityType DEF LogAssumption
<1> HIDE DEF L, W, T
<1>7. Cardinality(L) <= Cardinality(L \ T) + MAXOPBLOCKS
  BY <1>2, <1>3, <1>4, <1>5, <1>6
<1>8. QED
  BY <1>1, <1>7 DEF L

\* The last operation to end commits, with the log as the operations left it;
\* another one gives its share back, but for what it has logged.
LEMMA EndOpStep ==
  ASSUME LogInv, NEW p \in Proc, EndOp(p)
  PROVE  LogInv'
<1>1. TypeOK /\ LogAssumption
  BY LogAssumption DEF LogInv
<1>2. p \in Active /\ IsFiniteSet(Active) /\ Cardinality(Active) \in Nat
  BY <1>1, FS_CardinalityType DEF LogInv, EndOp, Active
<1>3. /\ ~committing /\ phase = "none" /\ up /\ ~panicked
      /\ outstanding = Cardinality(Active)
  BY <1>2 DEF LogInv, CommitsAlone, EndOp, Runs
<1>4. /\ outstanding' = outstanding - 1 /\ wrote' = [wrote EXCEPT ![p] = {}]
      /\ UNCHANGED <<media, bcache, lh, buf, up, panicked>>
  BY <1>3 DEF EndOp
<1>5. \/ /\ outstanding' = 0 /\ committing' = TRUE
         /\ op' = [op EXCEPT ![p] = "commit"]
         /\ phase' = (IF lh = <<>> THEN "finish" ELSE "log") /\ tail' = 1
      \/ /\ outstanding' # 0 /\ op' = Wakeup([op EXCEPT ![p] = "idle"])
         /\ UNCHANGED <<committing, phase, tail>>
  BY <1>3 DEF EndOp
<1>6. Active' = Active \ {p}
  BY <1>1, <1>5 DEF Active, TypeOK, Wakeup
<1>7. IsFiniteSet(Active') /\ Cardinality(Active') = Cardinality(Active) - 1
  BY <1>2, <1>6, FS_RemoveElement
<1>8. outstanding' = Cardinality(Active') /\ outstanding' \in Nat
  BY <1>2, <1>3, <1>4, <1>7, FS_CardinalityType
<1>9. TypeOK'
  <2>1. wrote' \in [Proc -> SUBSET Block]
    BY <1>1, <1>4 DEF TypeOK
  <2>2. op' \in [Proc -> {"idle", "begin", "asleep", "active", "append", "commit"}]
    BY <1>1, <1>5 DEF TypeOK, Wakeup
  <2>3. committing' \in BOOLEAN /\ tail' \in Nat
        /\ phase' \in {"none", "log", "head", "install", "finish", "read"}
    <3>1. phase' \in {phase, "finish", "log"} /\ committing' \in {committing, TRUE}
          /\ tail' \in {tail, 1}
      BY <1>5
    <3>2. phase \in {"none", "log", "head", "install", "finish", "read"} /\ tail \in Nat
          /\ committing \in BOOLEAN
      BY <1>1 DEF TypeOK
    <3>3. committing' \in BOOLEAN
      BY <3>1, <3>2
    <3>4. tail' \in Nat
      BY <3>1, <3>2
    <3>5. phase' \in {"none", "log", "head", "install", "finish", "read"}
      BY <3>1, <3>2
    <3>6. QED
      BY <3>3, <3>4, <3>5
  <2>4. QED
    BY <1>1, <1>4, <1>8, <2>1, <2>2, <2>3 DEF TypeOK
<1>10. SpaceReserved'
  <2>1. Cardinality(Logged) <= Cardinality(Logged') + MAXOPBLOCKS
    <3>1. IsFiniteSet(wrote[p]) /\ Cardinality(wrote[p]) <= MAXOPBLOCKS
      BY DEF LogInv, CallsMatch
    <3>2. \A q \in Active \ {p} : wrote'[q] = wrote[q]
      BY <1>1, <1>4 DEF Active, TypeOK
    <3>3. Cardinality(LoggedOf(Active, wrote, lh))
            <= Cardinality(LoggedOf(Active \ {p}, wrote', lh)) + MAXOPBLOCKS
      BY <1>1, <1>2, <3>1, <3>2, LoggedEnd DEF TypeOK
    <3>4. QED
      BY <1>4, <1>6, <3>3, LoggedIs
  <2>2. Cardinality(Logged) \in Nat /\ Cardinality(Logged') \in Nat /\ Len(lh) \in Nat
    BY <1>1, <1>2, <1>4, <1>7, <1>9, LoggedFinite, LoggedIs, LenProperties DEF TypeOK
  <2>3. MAXOPBLOCKS * Cardinality(Active') = MAXOPBLOCKS * Cardinality(Active) - MAXOPBLOCKS
    BY <1>1, <1>2, <1>7 DEF LogAssumption
  <2>4. Len(lh) + MAXOPBLOCKS * Cardinality(Active) - Cardinality(Logged) <= LOGSIZE
    BY DEF LogInv, SpaceReserved
  <2>5. MAXOPBLOCKS * Cardinality(Active) \in Nat /\ MAXOPBLOCKS \in Nat /\ LOGSIZE \in Nat
    BY <1>1, <1>2 DEF LogAssumption
  <2>6. QED
    BY <1>4, <2>1, <2>2, <2>3, <2>4, <2>5 DEF SpaceReserved
<1>11. HeaderOK(lh)' /\ HeaderOK(head)' /\ PinnedWhileDirty'
  BY <1>4 DEF LogInv, HeaderOK, PinnedWhileDirty, Blocks
<1>12. CommitsAlone'
  <2>1. ASSUME outstanding' = 0 PROVE Active' = {}
    BY <1>7, <1>8, <2>1, FS_EmptySet
  <2>2. \A q \in Proc : op[q] # "commit"
    BY <1>3 DEF LogInv, CommitsAlone
  <2>3. \A q \in Proc : op'[q] = "commit" => q = p /\ committing'
    BY <1>1, <1>5, <2>2 DEF TypeOK, Wakeup
  <2>4. QED
    BY <1>3, <1>4, <1>5, <1>8, <2>1, <2>3 DEF CommitsAlone
<1>13. CallsMatch'
  <2>1. \A q \in Proc : op'[q] = "append" <=> op[q] = "append"
    BY <1>1, <1>5 DEF EndOp, TypeOK, Wakeup
  <2>2. wrote'[p] = {} /\ buf[p] = {} /\ \A q \in Proc \ {p} : wrote'[q] = wrote[q]
    BY <1>1, <1>4 DEF LogInv, CallsMatch, EndOp, TypeOK
  <2>3. IsFiniteSet(wrote'[p]) /\ Cardinality(wrote'[p]) <= MAXOPBLOCKS
    BY <1>1, <2>2, FS_EmptySet DEF LogAssumption
  <2>4. ASSUME NEW q \in Proc, q # p
        PROVE  /\ IsFiniteSet(wrote'[q]) /\ Cardinality(wrote'[q]) <= MAXOPBLOCKS
               /\ op'[q] = "append" <=> buf'[q] # {}
               /\ buf'[q] \subseteq wrote'[q] /\ \A c, d \in buf'[q] : c = d
               /\ wrote'[q] # {} => q \in Active'
    BY <1>4, <1>6, <2>1, <2>2, <2>4 DEF LogInv, CallsMatch
  <2>5. /\ op'[p] = "append" <=> buf'[p] # {}
        /\ buf'[p] \subseteq wrote'[p] /\ \A c, d \in buf'[p] : c = d
    BY <1>4, <2>1, <2>2 DEF EndOp
  <2>6. QED
    BY <2>2, <2>3, <2>4, <2>5 DEF CallsMatch
<1>14. DownMatches'
  BY <1>3, <1>4 DEF DownMatches
<1>15. PhasesMatch'
  <2>1. head = <<>>
    BY <1>3 DEF LogInv, PhasesMatch
  <2>2. lh # <<>> => 1 \in 1 .. Len(lh)
    BY <1>1, LenProperties, EmptySeq DEF TypeOK
  <2>3. QED
    BY <1>3, <1>4, <1>5, <2>1, <2>2 DEF PhasesMatch
<1>16. QED
  BY <1>7, <1>9, <1>10, <1>11, <1>12, <1>13, <1>14, <1>15 DEF LogInv

-----------------------------------------------------------------------------
(* commit and the recovery. *)

\* The reservations and the pinned blocks only depend on what a step of a commit
\* leaves alone.
LEMMA SameCalls ==
  ASSUME TypeOK, SpaceReserved, IsFiniteSet(Active), CallsMatch,
         UNCHANGED <<lh, calls>>
  PROVE  SpaceReserved' /\ IsFiniteSet(Active)' /\ CallsMatch' /\ HeaderOK(lh)' = HeaderOK(lh)
         /\ Active' = Active
BY DEF SpaceReserved, Active, CallsMatch, Logged, Blocks, HeaderOK

\* write_log copies the logged buffers, which nobody changes during a commit.
LEMMA WriteLogStep ==
  ASSUME LogInv, WriteLog
  PROVE  LogInv'
<1>1. TypeOK /\ HeaderOK(lh) /\ LogAssumption
  BY LogAssumption DEF LogInv
<1>2. /\ phase = "log" /\ head = <<>> /\ up /\ ~panicked /\ committing
      /\ tail \in 1 .. Len(lh) /\ Len(lh) \in Nat /\ tail \in Slot
      /\ \A i \in 1 .. tail - 1 : logd[i] = cache[lh[i]]
  BY <1>1, LenProperties
     DEF LogInv, PhasesMatch, DownMatches, CommitsAlone, WriteLog, TypeOK, HeaderOK, Slot, LogAssumption
<1>3. \A i \in 1 .. Len(lh) : lh[i] \in Block
  BY <1>1, ElementOfSeq DEF TypeOK
<1>4. /\ logd' \in [Slot -> Val] /\ logd'[tail] = cache[lh[tail]]
      /\ \A i \in Slot \ {tail} : logd'[i] = logd[i]
  BY <1>1, <1>2, <1>3 DEF WriteLog, TypeOK
<1>5. /\ UNCHANGED <<disk, head, bcache, log, calls, up, panicked>>
      /\ \/ tail = Len(lh) /\ phase' = "head" /\ tail' = 0
         \/ tail # Len(lh) /\ phase' = "log" /\ tail' = tail + 1
  BY <1>2 DEF WriteLog
<1>6. TypeOK'
  BY <1>1, <1>4, <1>5 DEF TypeOK
<1>7. \A i \in 1 .. tail : i \in Slot /\ logd'[i] = cache[lh[i]]
  BY <1>1, <1>2, <1>4 DEF HeaderOK, Slot, LogAssumption
<1>8. PhasesMatch'
  BY <1>2, <1>5, <1>7 DEF PhasesMatch
<1>9. SpaceReserved' /\ IsFiniteSet(Active)' /\ CallsMatch' /\ HeaderOK(lh)' /\ HeaderOK(head)'
      /\ Active' = Active
  BY <1>1, <1>5, SameCalls DEF LogInv, HeaderOK
<1>10. CommitsAlone' /\ PinnedWhileDirty' /\ DownMatches'
  BY <1>2, <1>5, <1>9 DEF LogInv, CommitsAlone, PinnedWhileDirty, DownMatches, Blocks
<1>11. QED
  BY <1>6, <1>8, <1>9, <1>10 DEF LogInv

\* write_head commits: the log blocks hold the buffers.
LEMMA WriteHeadStep ==
  ASSUME LogInv, WriteHead
  PROVE  LogInv'
<1>1. TypeOK /\ HeaderOK(lh)
  BY DEF LogInv
<1>2. phase = "head" /\ up /\ ~panicked /\ committing
      /\ Len(lh) \in Nat /\ \A i \in 1 .. Len(lh) : logd[i] = cache[lh[i]]
  BY <1>1, LenProperties DEF LogInv, PhasesMatch, DownMatches, CommitsAlone, WriteHead, TypeOK
<1>3. head' = lh /\ phase' = "install" /\ tail' = 1
      /\ UNCHANGED <<disk, logd, bcache, log, calls, up, panicked>>
  BY DEF WriteHead
<1>4. TypeOK'
  BY <1>1, <1>3 DEF TypeOK
<1>5. PhasesMatch'
  BY <1>2, <1>3 DEF PhasesMatch
<1>6. SpaceReserved' /\ IsFiniteSet(Active)' /\ CallsMatch' /\ HeaderOK(lh)' /\ HeaderOK(head)'
      /\ Active' = Active
  BY <1>1, <1>3, SameCalls DEF LogInv, HeaderOK
<1>7. CommitsAlone' /\ PinnedWhileDirty' /\ DownMatches'
  BY <1>2, <1>3, <1>6 DEF LogInv, CommitsAlone, PinnedWhileDirty, DownMatches, Blocks
<1>8. QED
  BY <1>4, <1>5, <1>6, <1>7 DEF LogInv

\* install_trans writes a block home; when the kernel is up its buffer holds the
\* same already.
LEMMA InstallFacts ==
  ASSUME LogInv, Install
  PROVE  /\ phase = "install" /\ ~panicked /\ head = lh /\ (up => committing)
         /\ tail \in 1 .. Len(lh) /\ tail \in Slot /\ lh[tail] \in Block
         /\ up => cache[lh[tail]] = logd[tail]
         /\ cache' = [cache EXCEPT ![lh[tail]] = logd[tail]]
         /\ disk' = [disk EXCEPT ![lh[tail]] = logd[tail]]
         /\ dirty' = dirty \ {lh[tail]} /\ tail' = tail + 1
         /\ UNCHANGED <<logd, head, log, calls, phase, up, panicked>>
<1>1. TypeOK /\ Len(lh) \in Nat /\ LogAssumption /\ Len(lh) <= LOGSIZE
  BY LogAssumption, LenProperties DEF LogInv, TypeOK, HeaderOK
<1>2. phase = "install" /\ head = lh /\ tail \in 1 .. Len(lh)
  BY <1>1 DEF LogInv, PhasesMatch, Install
<1>3. lh[tail] \in Block
  BY <1>1, <1>2, ElementOfSeq DEF TypeOK
<1>4. QED
  BY <1>1, <1>2, <1>3 DEF LogInv, PhasesMatch, CommitsAlone, Install, Slot, LogAssumption

LEMMA InstallStep ==
  ASSUME LogInv, Install
  PROVE  LogInv'
<1>1. TypeOK /\ HeaderOK(lh) /\ Len(lh) \in Nat
  BY LenProperties DEF LogInv, TypeOK
<1> DEFINE b == lh[tail]
<1>2. /\ phase = "install" /\ ~panicked /\ head = lh /\ (up => committing)
      /\ tail \in 1 .. Len(lh) /\ tail \in Slot /\ b \in Block
      /\ up => cache[b] = logd[tail]
      /\ cache' = [cache EXCEPT ![b] = logd[tail]] /\ disk' = [disk EXCEPT ![b] = logd[tail]]
      /\ dirty' = dirty \ {b} /\ tail' = tail + 1
      /\ UNCHANGED <<logd, head, log, calls, phase, up, panicked>>
  BY InstallFacts
<1> HIDE DEF b
<1>3. /\ cache' \in [Block -> Val] /\ disk' \in [Block -> Val]
      /\ cache'[b] = logd[tail] /\ disk'[b] = logd[tail]
      /\ \A c \in Block \ {b} : cache'[c] = cache[c] /\ disk'[c] = disk[c]
  BY <1>1, <1>2 DEF TypeOK
<1>4. TypeOK'
  BY <1>1, <1>2, <1>3 DEF TypeOK
<1>5. up => cache' = cache
  BY <1>1, <1>2 DEF TypeOK
<1>6. \A i \in 1 .. Len(lh) : lh[i] \in Block /\ (lh[i] = b => i = tail)
  BY <1>1, <1>2, ElementOfSeq DEF HeaderOK, TypeOK, b
<1>7. PhasesMatch'
  <2>1. /\ \A i \in 1 .. tail - 1 : disk[lh[i]] = logd[i] /\ lh[i] \notin dirty
        /\ up => \A i \in 1 .. Len(lh) : logd[i] = cache[lh[i]]
    <3>1. PhasesMatch /\ phase = "install"
      BY <1>2 DEF LogInv
    <3>2. QED
      BY <3>1 DEF PhasesMatch
  <2>2. \A i \in 1 .. tail : disk'[lh[i]] = logd[i] /\ lh[i] \notin dirty'
    BY <1>1, <1>2, <1>3, <1>6, <2>1 DEF b
  <2>3. tail' \in 1 .. Len(lh') + 1 /\ tail' - 1 = tail
    BY <1>1, <1>2
  <2>4. QED
    BY <1>2, <1>5, <2>1, <2>2, <2>3 DEF PhasesMatch
<1>8. SpaceReserved' /\ IsFiniteSet(Active)' /\ CallsMatch' /\ HeaderOK(lh)' /\ HeaderOK(head)'
      /\ Active' = Active
  BY <1>1, <1>2, SameCalls DEF LogInv, HeaderOK
<1>9. CommitsAlone'
  BY <1>2, <1>8 DEF LogInv, CommitsAlone
<1>10. PinnedWhileDirty'
  BY <1>2, <1>3, <1>5 DEF LogInv, PinnedWhileDirty, Blocks
<1>11. DownMatches'
  <2>1. ~up => cache' = disk'
    BY <1>2 DEF LogInv, DownMatches
  <2>2. QED
    BY <1>2, <2>1 DEF LogInv, DownMatches
<1>12. QED
  BY <1>4, <1>7, <1>8, <1>9, <1>10, <1>11 DEF LogInv

\* write_head with an empty header: everything is at home.
LEMMA ClearHeadStep ==
  ASSUME LogInv, ClearHead
  PROVE  LogInv'
<1>1. TypeOK /\ HeaderOK(lh) /\ Len(lh) \in Nat /\ LogAssumption /\ PhasesMatch
  BY LogAssumption, LenProperties DEF LogInv, TypeOK
<1>2. /\ phase = "install" /\ ~panicked /\ head = lh /\ (up => committing)
      /\ tail \in 1 .. Len(lh) + 1 /\ tail > Len(lh)
  BY <1>1 DEF LogInv, CommitsAlone, PhasesMatch, ClearHead
<1>3. /\ lh' = <<>> /\ head' = <<>> /\ tail' = 0 /\ up'
      /\ \/ up /\ phase' = "finish"
         \/ ~up /\ phase' = "none"
      /\ UNCHANGED <<disk, logd, bcache, outstanding, committing, calls, panicked>>
  BY DEF ClearHead
<1>4. TypeOK' /\ Blocks(lh') = {} /\ Len(lh') = 0 /\ HeaderOK(lh)' /\ HeaderOK(head)'
  BY <1>1, <1>3, EmptySeq DEF TypeOK, Blocks, HeaderOK, LogAssumption
<1>5. Active = {} /\ Active' = {} /\ outstanding = 0
  <2>1. CASE up
    BY <1>2, <1>3, <2>1, FS_EmptySet DEF LogInv, CommitsAlone, Active
  <2>2. CASE ~up
    BY <1>3, <2>2 DEF LogInv, DownMatches, Active
  <2>3. QED
    BY <2>1, <2>2
<1>6. Logged' = {} /\ IsFiniteSet(Active') /\ Cardinality(Active') = 0 /\ Cardinality(Logged') = 0
  BY <1>5, FS_EmptySet DEF Logged
<1>7. SpaceReserved'
  BY <1>1, <1>4, <1>6 DEF SpaceReserved, LogAssumption
<1>8. CallsMatch'
  BY <1>3, <1>5 DEF LogInv, CallsMatch
<1>9. CommitsAlone'
  <2>1. up' => (committing' <=> phase' # "none")
    BY <1>2, <1>3 DEF LogInv, DownMatches
  <2>2. QED
    BY <1>3, <1>5, <1>6, <2>1 DEF LogInv, CommitsAlone
<1>10. dirty = {} /\ \A c \in Block : cache[c] = disk[c]
  <2>1. CASE up
    <3>1. \A p \in Proc : buf[p] = {}
      BY <1>5 DEF LogInv, CallsMatch, Active
    <3>2. \A i \in 1 .. Len(lh) : logd[i] = cache[lh[i]] /\ disk[lh[i]] = logd[i]
      BY <1>1, <1>2, <2>1 DEF PhasesMatch
    <3>3. \A c \in Block : cache[c] = disk[c]
      BY <1>2, <2>1, <3>1, <3>2 DEF LogInv, PinnedWhileDirty, Blocks
    <3>4. dirty \subseteq Blocks(lh) /\ \A i \in 1 .. Len(lh) : lh[i] \notin dirty
      BY <1>1, <1>2, <2>1 DEF LogInv, PinnedWhileDirty, PhasesMatch
    <3>5. QED
      BY <3>3, <3>4 DEF Blocks
  <2>2. CASE ~up
    BY <2>2 DEF LogInv, DownMatches
  <2>3. QED
    BY <2>1, <2>2
<1>11. PinnedWhileDirty'
  BY <1>3, <1>4, <1>10 DEF PinnedWhileDirty
<1>12. DownMatches' /\ PhasesMatch'
  BY <1>2, <1>3 DEF DownMatches, PhasesMatch
<1>13. QED
  BY <1>4, <1>6, <1>7, <1>8, <1>9, <1>11, <1>12 DEF LogInv

\* The commit is over, and who waits for it goes on.
LEMMA CommitDoneStep ==
  ASSUME LogInv, NEW p \in Proc, CommitDone(p)
  PROVE  LogInv'
<1>1. TypeOK /\ LogAssumption
  BY LogAssumption DEF LogInv
<1>2. /\ committing /\ phase = "finish" /\ up /\ ~panicked
      /\ Active = {} /\ head = <<>> /\ \A q \in Proc : op[q] = "commit" => q = p
  BY DEF LogInv, CommitsAlone, PhasesMatch, CommitDone, Runs
<1>3. /\ committing' = FALSE /\ op' = Wakeup([op EXCEPT ![p] = "idle"])
      /\ phase' = "none" /\ tail' = 0
      /\ UNCHANGED <<media, bcache, lh, outstanding, buf, wrote, up, panicked>>
  BY DEF CommitDone
<1>4. TypeOK'
  <2>1. op' \in [Proc -> {"idle", "begin", "asleep", "active", "append", "commit"}]
    BY <1>1, <1>3 DEF TypeOK, Wakeup
  <2>2. QED
    BY <1>1, <1>3, <2>1 DEF TypeOK
<1>5. \A q \in Proc : /\ op[q] \notin {"active", "append"} /\ op'[q] \notin {"active", "append"}
                      /\ op'[q] # "commit"
  BY <1>1, <1>2, <1>3 DEF Active, TypeOK, Wakeup
<1>6. Active' = Active
  BY <1>2, <1>5 DEF Active
<1>7. SpaceReserved' /\ HeaderOK(lh)' /\ HeaderOK(head)'
  <2>1. Logged' = Logged
    BY <1>3, <1>6, LoggedIs
  <2>2. QED
    BY <1>3, <1>6, <2>1 DEF LogInv, SpaceReserved, HeaderOK
<1>8. CommitsAlone'
  BY <1>2, <1>3, <1>5, <1>6 DEF LogInv, CommitsAlone
<1>9. CallsMatch'
  BY <1>3, <1>5, <1>6 DEF LogInv, CallsMatch
<1>10. PinnedWhileDirty' /\ DownMatches'
  BY <1>2, <1>3 DEF LogInv, PinnedWhileDirty, DownMatches, Blocks
<1>11. PhasesMatch'
  BY <1>2, <1>3 DEF PhasesMatch
<1>12. QED
  BY <1>4, <1>6, <1>7, <1>8, <1>9, <1>10, <1>11 DEF LogInv

\* A buffer that is clean and free holds what the disk holds, so that its loss
\* changes nothing.
LEMMA RecycleStep ==
  ASSUME LogInv, NEW b \in Block, Recycle(b)
  PROVE  UNCHANGED vars
<1>1. cache[b] = disk[b]
  BY DEF LogInv, PinnedWhileDirty, Recycle, Runs
<1>2. cache' = cache
  BY <1>1 DEF LogInv, TypeOK, Recycle
<1>3. QED
  BY <1>2 DEF vars, Recycle

\* A crash leaves the disk, and nothing in progress.
LEMMA CrashStep ==
  ASSUME LogInv, Crash
  PROVE  LogInv'
<1>1. TypeOK /\ LogAssumption
  BY LogAssumption DEF LogInv
<1>2. /\ cache' = disk' /\ dirty' = {} /\ disk' = disk /\ head' = head /\ logd' = logd
      /\ lh' = <<>> /\ outstanding' = 0 /\ committing' = FALSE
      /\ op' = [p \in Proc |-> "idle"] /\ buf' = [p \in Proc |-> {}]
      /\ wrote' = [p \in Proc |-> {}]
      /\ phase' = "read" /\ tail' = 0 /\ ~up' /\ up' \in BOOLEAN /\ panicked' = FALSE
  BY DEF Crash, None
<1>3. TypeOK'
  BY <1>1, <1>2, EmptySeq DEF TypeOK
<1>4. Active' = {} /\ Len(lh') = 0 /\ Logged' = {}
  BY <1>2 DEF Active, Logged
<1>5. IsFiniteSet(Active') /\ Cardinality(Active') = 0 /\ Cardinality(Logged') = 0
  BY <1>4, FS_EmptySet
<1>6. SpaceReserved'
  BY <1>1, <1>4, <1>5 DEF SpaceReserved, LogAssumption
<1>7. HeaderOK(lh)' /\ HeaderOK(head)'
  BY <1>1, <1>2, <1>4 DEF LogInv, HeaderOK, LogAssumption
<1>8. CommitsAlone'
  BY <1>2, <1>4, <1>5 DEF CommitsAlone
<1>9. CallsMatch'
  BY <1>1, <1>2, FS_EmptySet DEF CallsMatch, LogAssumption
<1>10. PinnedWhileDirty' /\ DownMatches' /\ PhasesMatch'
  BY <1>2 DEF PinnedWhileDirty, DownMatches, PhasesMatch
<1>11. QED
  BY <1>3, <1>5, <1>6, <1>7, <1>8, <1>9, <1>10 DEF LogInv

\* The recovery takes over the header it finds.
LEMMA ReadHeadStep ==
  ASSUME LogInv, ReadHead
  PROVE  LogInv'
<1>1. TypeOK /\ LogAssumption /\ HeaderOK(head) /\ Len(head) \in Nat
  BY LogAssumption, LenProperties DEF LogInv, TypeOK
<1>2. /\ phase = "read" /\ ~up /\ ~panicked /\ ~committing /\ outstanding = 0 /\ dirty = {}
      /\ cache = disk /\ \A p \in Proc : op[p] = "idle"
  BY DEF LogInv, PhasesMatch, DownMatches, ReadHead
<1>3. /\ lh' = head /\ phase' = "install" /\ tail' = 1
      /\ UNCHANGED <<media, bcache, outstanding, committing, calls, up, panicked>>
  BY DEF ReadHead
<1>4. TypeOK'
  BY <1>1, <1>3 DEF TypeOK
<1>5. Active = {} /\ Active' = {} /\ Logged' = {}
  BY <1>2, <1>3 DEF Active, Logged
<1>6. IsFiniteSet(Active') /\ Cardinality(Active') = 0 /\ Cardinality(Logged') = 0
  BY <1>5, FS_EmptySet
<1>7. SpaceReserved' /\ HeaderOK(lh)' /\ HeaderOK(head)'
  BY <1>1, <1>3, <1>6 DEF SpaceReserved, HeaderOK, LogAssumption
<1>8. CommitsAlone' /\ CallsMatch' /\ PinnedWhileDirty' /\ DownMatches'
  BY <1>2, <1>3, <1>5, <1>6
     DEF LogInv, CommitsAlone, CallsMatch, PinnedWhileDirty, DownMatches
<1>9. PhasesMatch'
  BY <1>1, <1>2, <1>3 DEF PhasesMatch
<1>10. QED
  BY <1>4, <1>6, <1>7, <1>8, <1>9 DEF LogInv

-----------------------------------------------------------------------------
(* The theorems. *)

LEMMA LogStutter ==
  ASSUME LogInv, UNCHANGED vars
  PROVE  LogInv'
<1>1. Active' = Active /\ Logged' = Logged
  BY LoggedIs DEF vars, Active
<1>2. TypeOK' /\ SpaceReserved' /\ CommitsAlone' /\ PinnedWhileDirty'
  BY <1>1 DEF LogInv, vars, TypeOK, SpaceReserved, CommitsAlone, PinnedWhileDirty, Blocks
<1>3. QED
  BY <1>1, <1>2 DEF LogInv, vars, HeaderOK, CallsMatch, DownMatches, PhasesMatch

\* Every step of the log keeps its invariant.
LEMMA LogStep == LogInv /\ [Next]_vars => LogInv'
<1> SUFFICES ASSUME LogInv, [Next]_vars PROVE LogInv'
  OBVIOUS
<1>1. ASSUME NEW p \in Proc, Call(p) PROVE LogInv'
  BY <1>1, BeginOpStep, BeginOpSleepStep, ModifyStep, LogWriteStep, EndOpStep, CommitDoneStep
     DEF Call
<1>2. ASSUME Commit PROVE LogInv'
  BY <1>2, WriteLogStep, WriteHeadStep, InstallStep, ClearHeadStep, ReadHeadStep DEF Commit
<1>3. ASSUME NEW b \in Block, Recycle(b) PROVE LogInv'
  BY <1>3, RecycleStep, LogStutter
<1>4. CASE Crash
  BY <1>4, CrashStep
<1>5. CASE UNCHANGED vars
  BY <1>5, LogStutter
<1>6. QED
  BY <1>1, <1>2, <1>3, <1>4, <1>5 DEF Next

\* The invariant of the log, which all that follows rests on.
THEOREM LogCorrect == Spec => []LogInv
BY LogInit, LogStep, PTL DEF Spec

\* The disk, the log and the buffers hold what the types in log.c and bio.c say.
THEOREM TypeCorrect == Spec => []TypeOK
<1>1. LogInv => TypeOK
  BY DEF LogInv
<1>2. QED
  BY <1>1, LogCorrect, PTL

\* begin_op admits an operation only when the header can hold what all those in
\* progress may write: log_write() finds room.
THEOREM SpaceIsReserved == Spec => []SpaceReserved
<1>1. LogInv => SpaceReserved
  BY DEF LogInv
<1>2. QED
  BY <1>1, LogCorrect, PTL

\* commit() runs with no operation in progress, for one process at a time.
THEOREM CommitIsAlone == Spec => []CommitsAlone
<1>1. LogInv => CommitsAlone
  BY DEF LogInv
<1>2. QED
  BY <1>1, LogCorrect, PTL

\* A buffer that differs from the disk is pinned by B_DIRTY and the log, which
\* names every block once.
THEOREM DirtyIsPinned == Spec => []PinnedWhileDirty
<1>1. LogInv => PinnedWhileDirty
  BY DEF LogInv
<1>2. QED
  BY <1>1, LogCorrect, PTL

-----------------------------------------------------------------------------
(* The log implements an atomic disk. *)

\* What a recovery restores, as an operator of the header, the log and the disk.
RecoveredOf(h, l, d) ==
  [b \in Block |-> IF b \in Blocks(h)
                   THEN l[CHOOSE i \in 1 .. Len(h) : h[i] = b] ELSE d[b]]

\* Before and after a step.
LEMMA RecoveredIs ==
  Recovered = RecoveredOf(head, logd, disk) /\ Recovered' = RecoveredOf(head', logd', disk')
BY DEF Recovered, RecoveredOf, Blocks

\* A function that agrees with the log on the blocks of a committed header, and with
\* the disk on the others, is what a recovery restores.
LEMMA RecoveredUnique ==
  ASSUME NEW h \in Seq(Block), HeaderOK(h), NEW l, NEW d, NEW f \in [Block -> Val],
         \A i \in 1 .. Len(h) : f[h[i]] = l[i],
         \A b \in Block \ Blocks(h) : f[b] = d[b]
  PROVE  RecoveredOf(h, l, d) = f
<1>1. ASSUME NEW b \in Blocks(h) PROVE l[CHOOSE i \in 1 .. Len(h) : h[i] = b] = f[b]
  <2>1. PICK i \in 1 .. Len(h) : h[i] = b
    BY <1>1 DEF Blocks
  <2>2. /\ (CHOOSE j \in 1 .. Len(h) : h[j] = b) \in 1 .. Len(h)
        /\ h[CHOOSE j \in 1 .. Len(h) : h[j] = b] = b
    BY <2>1
  <2>3. QED
    BY <2>2
<1>2. QED
  BY <1>1 DEF RecoveredOf

\* With no header there is nothing to restore.
LEMMA RecoveredEmpty ==
  ASSUME NEW l, NEW d \in [Block -> Val]
  PROVE  RecoveredOf(<<>>, l, d) = d
BY DEF RecoveredOf, Blocks

\* What a recovery restores does not depend on the blocks it will install.
LEMMA RecoveredInstall ==
  ASSUME NEW h, NEW l, NEW d, NEW e,
         \A b \in Block \ Blocks(h) : d[b] = e[b]
  PROVE  RecoveredOf(h, l, d) = RecoveredOf(h, l, e)
BY DEF RecoveredOf

\* An installed header can go.
LEMMA RecoveredDone ==
  ASSUME NEW h \in Seq(Block), HeaderOK(h), NEW l, NEW d \in [Block -> Val],
         \A i \in 1 .. Len(h) : d[h[i]] = l[i]
  PROVE  RecoveredOf(h, l, d) = d
BY RecoveredUnique

\* Each step of the log is a step of the atomic disk, or none.
LEMMA AbstractStep == LogInv /\ LogInv' /\ [Next]_vars => [Abstract!Next]_(Abstract!vars)
<1> SUFFICES ASSUME LogInv, LogInv', [Next]_vars PROVE [Abstract!Next]_(Abstract!vars)
  OBVIOUS
<1> DEFINE fs == IF up THEN cache ELSE Recovered
<1>1. TypeOK
  BY DEF LogInv
<1>2. ASSUME UNCHANGED <<fs, Recovered, Active>> PROVE UNCHANGED Abstract!vars
  BY <1>2 DEF Abstract!vars
<1>3. ASSUME UNCHANGED media PROVE Recovered' = Recovered
  BY <1>3, RecoveredIs
<1>4. ASSUME NEW p \in Proc, BeginOp(p) PROVE Abstract!Begin(p)
  <2>1. p \notin Active /\ Active' = Active \cup {p}
    BY <1>1, <1>4 DEF BeginOp, Active, TypeOK
  <2>2. UNCHANGED <<fs, Recovered>>
    BY <1>3, <1>4 DEF BeginOp
  <2>3. QED
    BY <2>1, <2>2 DEF Abstract!Begin
<1>5. ASSUME NEW p \in Proc, BeginOpSleep(p) PROVE UNCHANGED Abstract!vars
  <2>1. Active' = Active
    BY <1>1, <1>5 DEF BeginOpSleep, Active, TypeOK
  <2>2. UNCHANGED <<fs, Recovered>>
    BY <1>3, <1>5 DEF BeginOpSleep
  <2>3. QED
    BY <1>2, <2>1, <2>2
<1>6. ASSUME NEW p \in Proc, NEW b \in Block, NEW v \in Val, Modify(p, b, v)
      PROVE  Abstract!Write(p, b, v)
  <2>1. op' = op \/ op' = [op EXCEPT ![p] = "append"]
    BY <1>6 DEF Modify
  <2>2. p \in Active /\ Active' = Active
    BY <1>1, <1>6, <2>1 DEF Modify, Active, TypeOK
  <2>3. up /\ up' /\ cache' = [cache EXCEPT ![b] = v] /\ Recovered' = Recovered
    BY <1>3, <1>6 DEF Modify, Runs
  <2>4. QED
    BY <2>2, <2>3 DEF Abstract!Write
<1>7. ASSUME NEW p \in Proc, LogWrite(p) PROVE UNCHANGED Abstract!vars
  <2>1. Active' = Active
    BY <1>1, <1>7 DEF LogWrite, Active, TypeOK
  <2>2. UNCHANGED <<fs, Recovered>>
    BY <1>3, <1>7 DEF LogWrite
  <2>3. QED
    BY <1>2, <2>1, <2>2
<1>8. ASSUME NEW p \in Proc, EndOp(p) PROVE Abstract!End(p)
  <2>1. p \in Active /\ ~committing
    BY <1>8 DEF LogInv, CommitsAlone, EndOp, Active
  <2>2. \/ op' = [op EXCEPT ![p] = "commit"]
        \/ op' = Wakeup([op EXCEPT ![p] = "idle"])
    BY <1>8, <2>1 DEF EndOp
  <2>3. Active' = Active \ {p}
    BY <1>1, <2>2 DEF Active, TypeOK, Wakeup
  <2>4. UNCHANGED <<fs, Recovered>>
    BY <1>3, <1>8 DEF EndOp
  <2>5. QED
    BY <2>3, <2>4 DEF Abstract!End
<1>9. ASSUME NEW p \in Proc, CommitDone(p) PROVE UNCHANGED Abstract!vars
  <2>1. op' = Wakeup([op EXCEPT ![p] = "idle"]) /\ op[p] = "commit"
    BY <1>9 DEF CommitDone
  <2>2. Active' = Active
    BY <1>1, <2>1 DEF Active, TypeOK, Wakeup
  <2>3. UNCHANGED <<fs, Recovered>>
    BY <1>3, <1>9 DEF CommitDone
  <2>4. QED
    BY <1>2, <2>2, <2>3
<1>10. ASSUME WriteLog PROVE UNCHANGED Abstract!vars
  <2>1. head = <<>> /\ up
    BY <1>10 DEF LogInv, PhasesMatch, DownMatches, WriteLog
  <2>2. UNCHANGED <<disk, head, cache, op, up>>
    BY <1>10 DEF WriteLog
  <2>3. Recovered = disk /\ Recovered' = disk
    BY <1>1, <2>1, <2>2, RecoveredIs, RecoveredEmpty DEF TypeOK
  <2>4. QED
    BY <1>2, <2>1, <2>2, <2>3 DEF Active
<1>11. ASSUME WriteHead PROVE Abstract!Commit
  <2>1. /\ phase = "head" /\ up /\ Active = {} /\ ~panicked
        /\ \A i \in 1 .. Len(lh) : cache[lh[i]] = logd[i]
    BY <1>11 DEF LogInv, PhasesMatch, DownMatches, CommitsAlone, WriteHead
  <2>2. /\ head' = lh /\ UNCHANGED <<disk, logd, cache, op, up>>
    BY <1>11 DEF WriteHead
  <2>3. \A b \in Block \ Blocks(lh) : cache[b] = disk[b]
    <3>1. \A p \in Proc : buf[p] = {}
      BY <2>1 DEF LogInv, CallsMatch, Active
    <3>2. QED
      BY <2>1, <3>1 DEF LogInv, PinnedWhileDirty
  <2>4. RecoveredOf(lh, logd, disk) = cache
    <3>1. HeaderOK(lh) /\ lh \in Seq(Block) /\ cache \in [Block -> Val]
      BY <1>1 DEF LogInv, TypeOK
    <3>2. QED
      BY <2>1, <2>3, <3>1, RecoveredUnique
  <2>5. Recovered' = cache
    BY <2>2, <2>4, RecoveredIs
  <2>6. Active' = Active
    BY <2>2 DEF Active
  <2>7. QED
    BY <2>1, <2>2, <2>5, <2>6 DEF Abstract!Commit
<1>12. ASSUME Install PROVE UNCHANGED Abstract!vars
  <2>1. /\ head = lh /\ tail \in 1 .. Len(lh) /\ lh[tail] \in Block
        /\ up => cache[lh[tail]] = logd[tail]
        /\ cache' = [cache EXCEPT ![lh[tail]] = logd[tail]]
        /\ disk' = [disk EXCEPT ![lh[tail]] = logd[tail]]
        /\ UNCHANGED <<logd, head, op, up>>
    BY <1>12, InstallFacts
  <2>2. up => cache' = cache
    BY <1>1, <2>1 DEF TypeOK
  <2>3. \A b \in Block \ Blocks(head) : disk'[b] = disk[b]
    BY <1>1, <2>1 DEF TypeOK, Blocks
  <2>4. RecoveredOf(head, logd, disk') = RecoveredOf(head, logd, disk)
    BY <2>3, RecoveredInstall
  <2>5. Recovered' = Recovered
    BY <2>1, <2>4, RecoveredIs
  <2>6. Active' = Active
    BY <2>1 DEF Active
  <2>7. QED
    BY <1>2, <2>1, <2>2, <2>5, <2>6
<1>13. ASSUME ClearHead PROVE UNCHANGED Abstract!vars
  <2>1. /\ head = lh /\ Len(lh) \in Nat /\ tail \in 1 .. Len(lh) + 1 /\ tail > Len(lh)
        /\ \A i \in 1 .. tail - 1 : disk[lh[i]] = logd[i]
    BY <1>1, <1>13, LenProperties DEF LogInv, PhasesMatch, ClearHead, TypeOK
  <2>2. head' = <<>> /\ up' /\ UNCHANGED <<disk, logd, cache, op>>
    BY <1>13 DEF ClearHead
  <2>3. \A i \in 1 .. Len(head) : disk[head[i]] = logd[i]
    BY <2>1
  <2>4. Recovered = disk
    <3>1. HeaderOK(head) /\ head \in Seq(Block) /\ disk \in [Block -> Val]
      BY <1>1 DEF LogInv, TypeOK
    <3>2. RecoveredOf(head, logd, disk) = disk
      BY <2>3, <3>1, RecoveredDone
    <3>3. QED
      BY <3>2, RecoveredIs
  <2>5. Recovered' = disk
    BY <1>1, <2>2, RecoveredEmpty, RecoveredIs DEF TypeOK
  <2>6. ~up => cache = disk
    BY DEF LogInv, DownMatches
  <2>7. QED
    BY <1>2, <2>2, <2>4, <2>5, <2>6 DEF Active
<1>14. ASSUME ReadHead PROVE UNCHANGED Abstract!vars
  <2>1. UNCHANGED <<media, cache, op, up>>
    BY <1>14 DEF ReadHead
  <2>2. QED
    BY <1>2, <1>3, <2>1 DEF Active
<1>15. ASSUME Crash PROVE Abstract!Crash
  <2>1. ~up' /\ op' = [p \in Proc |-> "idle"] /\ UNCHANGED media
    BY <1>15 DEF Crash
  <2>2. Active' = {}
    BY <2>1 DEF Active
  <2>3. QED
    BY <1>3, <2>1, <2>2 DEF Abstract!Crash
<1>16. ASSUME UNCHANGED vars PROVE UNCHANGED Abstract!vars
  BY <1>2, <1>3, <1>16 DEF vars, Active
<1>17. ASSUME NEW b \in Block, Recycle(b) PROVE UNCHANGED Abstract!vars
  BY <1>16, <1>17, RecycleStep
<1>18. QED
  BY <1>4, <1>5, <1>6, <1>7, <1>8, <1>9, <1>10, <1>11, <1>12, <1>13, <1>14, <1>15, <1>16, <1>17
     DEF Next, Call, Commit, Abstract!Next

\* A crash at any point of a commit or of a recovery loses or keeps every operation
\* as a whole: what a recovery restores changes only at write_head(), to what the
\* operations that have ended wrote.
THEOREM ImplementsAtomicDisk == Spec => AtomicDiskSpec
<1>1. Init => Abstract!Init
  <2> SUFFICES ASSUME Init PROVE Abstract!Init
    OBVIOUS
  <2>1. disk \in [Block -> Val] /\ head = <<>> /\ cache = disk /\ up /\ Active = {}
    BY DEF Init, Active
  <2>2. Recovered = disk
    BY <2>1, RecoveredIs, RecoveredEmpty
  <2>3. QED
    BY <2>1, <2>2 DEF Abstract!Init
<1>2. QED
  BY <1>1, LogCorrect, AbstractStep, PTL DEF Spec, AtomicDiskSpec, Abstract!Spec
=============================================================================
