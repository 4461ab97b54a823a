-------------------------- MODULE VipChannelProofs --------------------------
(***************************************************************************)
(* Proofs about the lock around the VIP channel, for any finite sets of    *)
(* left-to-right and right-to-left walkers.                                *)
(***************************************************************************)
EXTENDS VipChannel, FiniteSetTheorems, TLAPS

-----------------------------------------------------------------------------
(* Type correctness. *)

\* The initial state has the types.
LEMMA TypeInit == ChannelInit => TypeOK
BY DEF ChannelInit, TypeOK, LeftPc, RightPc

\* Every step keeps the types.
LEMMA TypeStep == TypeOK /\ [ChannelNext]_cvars => TypeOK'
<1>1. SUFFICES ASSUME TypeOK, [ChannelNext]_cvars PROVE TypeOK'
  OBVIOUS
<1>2. ASSUME NEW t \in Left, LeftArrive(t) \/ LeftEnter(t) \/ LeftLeave(t)
      PROVE TypeOK'
  <2>1. CASE LeftArrive(t)
    BY <1>1, <2>1 DEF TypeOK, Mutexes, LeftPc, LeftArrive
  <2>2. CASE LeftCount(t)
    BY <1>1, <2>2 DEF TypeOK, Mutexes, LeftPc, LeftCount
  <2>3. CASE LeftTakeDb(t)
    BY <1>1, <2>3 DEF TypeOK, Mutexes, LeftPc, LeftTakeDb
  <2>4. CASE LeftTakeExtra(t)
    BY <1>1, <2>4 DEF TypeOK, Mutexes, LeftPc, LeftTakeExtra
  <2>5. CASE LeftLeave(t)
    BY <1>1, <2>5 DEF TypeOK, Mutexes, LeftPc, LeftLeave
  <2>6. QED
    BY <1>2, <2>1, <2>2, <2>3, <2>4, <2>5 DEF LeftEnter
<1>3. ASSUME NEW t \in Right, RightArrive(t) \/ RightEnter(t) \/ RightLeave(t)
      PROVE TypeOK'
  <2>1. CASE RightArrive(t)
    BY <1>1, <2>1 DEF TypeOK, Mutexes, RightPc, RightArrive
  <2>2. CASE RightTakeDb(t)
    BY <1>1, <2>2 DEF TypeOK, Mutexes, RightPc, RightTakeDb
  <2>3. CASE RightCount(t)
    BY <1>1, <2>3 DEF TypeOK, Mutexes, RightPc, RightCount
  <2>4. CASE RightTakeExtra(t)
    BY <1>1, <2>4 DEF TypeOK, Mutexes, RightPc, RightTakeExtra
  <2>5. CASE RightLeave(t)
    BY <1>1, <2>5 DEF TypeOK, Mutexes, RightPc, RightLeave
  <2>6. QED
    BY <1>3, <2>1, <2>2, <2>3, <2>4, <2>5 DEF RightEnter
<1>4. CASE UNCHANGED cvars
  BY <1>1, <1>4 DEF TypeOK, cvars
<1>5. QED
  BY <1>1, <1>2, <1>3, <1>4 DEF ChannelNext

\* The counters are integers, locked is a set of mutexes and every thread is at one
\* of the places of its functions.
THEOREM TypeCorrect == ChannelSafetySpec => []TypeOK
BY TypeInit, TypeStep, PTL DEF ChannelSafetySpec

-----------------------------------------------------------------------------
(* Who is where after one thread has moved. *)

\* Threads of a finite direction at given places are finitely many.
LEMMA InFinite ==
  ASSUME NEW pcs
  PROVE  IsFiniteSet(LeftIn(pcs)) /\ IsFiniteSet(RightIn(pcs))
<1>1. LeftIn(pcs) \subseteq Left /\ RightIn(pcs) \subseteq Right
  BY DEF LeftIn, RightIn
<1>2. QED
  BY <1>1, ThreadsFinite, FS_Subset

\* A set that gains one new element, loses one, or keeps all of them has its
\* cardinality changed by one, minus one or zero.
LEMMA CardStep ==
  ASSUME NEW S, IsFiniteSet(S), NEW x
  PROVE  /\ x \notin S => Cardinality(S \cup {x}) = Cardinality(S) + 1
         /\ x \in S => Cardinality(S \ {x}) = Cardinality(S) - 1
         /\ Cardinality(S) \in Nat
         /\ Cardinality(S) = 0 <=> S = {}
         /\ x \in S => (Cardinality(S) = 1 <=> S = {x})
<1>1. x \notin S => Cardinality(S \cup {x}) = Cardinality(S) + 1
  BY FS_AddElement
<1>2. x \in S => Cardinality(S \ {x}) = Cardinality(S) - 1
  BY FS_RemoveElement
<1>3. Cardinality(S) \in Nat /\ (Cardinality(S) = 0 <=> S = {})
  BY FS_CardinalityType, FS_EmptySet
<1>4. x \in S => (Cardinality(S) = 1 <=> S = {x})
  <2>1. SUFFICES ASSUME x \in S PROVE Cardinality(S) = 1 <=> S = {x}
    OBVIOUS
  <2>2. IsFiniteSet(S \ {x}) /\ Cardinality(S \ {x}) = Cardinality(S) - 1
    BY <2>1, FS_RemoveElement
  <2>3. Cardinality(S \ {x}) = 0 <=> S \ {x} = {}
    BY <2>2, FS_EmptySet
  <2>4. QED
    BY <1>3, <2>1, <2>2, <2>3
<1>5. QED
  BY <1>1, <1>2, <1>3, <1>4
-----------------------------------------------------------------------------
(* The inductive invariant. *)

LeftCounted  == LeftIn({"wantDb", "wantExtra", "on"})
RightCounted == RightIn({"wantExtra", "on"})

\* What the counters tell a thread that is about to change them.
LEMMA CountersTell ==
  ASSUME ChannelInv
  PROVE  /\ rc = Cardinality(LeftCounted) /\ wc = Cardinality(RightCounted)
         /\ rc = 0 <=> LeftCounted = {}
         /\ wc = 0 <=> RightCounted = {}
         /\ \A t \in LeftCounted : rc = 1 <=> LeftCounted = {t}
         /\ \A t \in RightCounted : wc = 1 <=> RightCounted = {t}
         /\ rc \in Nat /\ wc \in Nat
<1>1. IsFiniteSet(LeftCounted) /\ IsFiniteSet(RightCounted)
  BY InFinite DEF LeftCounted, RightCounted
<1>2. rc = Cardinality(LeftCounted) /\ wc = Cardinality(RightCounted)
  BY DEF ChannelInv, CountersExact, LeftCounted, RightCounted
<1>3. QED
  BY <1>1, <1>2, CardStep

\* Every step of a left-to-right thread keeps the counters exact.
LEMMA LeftKeepsCounters ==
  ASSUME ChannelInv, NEW t \in Left,
         LeftArrive(t) \/ LeftEnter(t) \/ LeftLeave(t)
  PROVE  CountersExact'
<1> DEFINE L == LeftCounted
<1>1. /\ IsFiniteSet(L) /\ TypeOK
      /\ rc = Cardinality(L) /\ wc = Cardinality(RightCounted)
  BY InFinite, CountersTell DEF ChannelInv, LeftCounted
<1>2. UNCHANGED <<wc, right>>
  BY DEF LeftArrive, LeftEnter, LeftCount, LeftTakeDb, LeftTakeExtra, LeftLeave
<1>3. RightCounted' = RightCounted
  BY <1>2 DEF RightCounted, RightIn
<1>4. rc' = Cardinality(LeftCounted')
  <2>1. CASE LeftArrive(t)
    <3>1. t \notin L /\ L' = L \ {t} /\ rc' = rc
      BY <1>1, <2>1 DEF TypeOK, LeftArrive, LeftCounted, LeftIn
    <3>2. QED
      BY <1>1, <3>1
  <2>2. CASE LeftCount(t)
    <3>1. t \notin L /\ L' = L \cup {t} /\ rc' = rc + 1
      BY <1>1, <2>2 DEF TypeOK, LeftCount, LeftCounted, LeftIn
    <3>2. QED
      BY <1>1, <3>1, CardStep
  <2>3. CASE LeftTakeDb(t) \/ LeftTakeExtra(t)
    <3>1. t \in L /\ L' = L \cup {t} /\ rc' = rc
      BY <1>1, <2>3 DEF TypeOK, LeftTakeDb, LeftTakeExtra, LeftCounted, LeftIn
    <3>2. QED
      BY <1>1, <3>1
  <2>4. CASE LeftLeave(t)
    <3>1. t \in L /\ L' = L \ {t} /\ rc' = rc - 1
      BY <1>1, <2>4 DEF TypeOK, LeftLeave, LeftCounted, LeftIn
    <3>2. QED
      BY <1>1, <3>1, CardStep
  <2>5. QED
    BY <2>1, <2>2, <2>3, <2>4 DEF LeftEnter
<1>5. QED
  BY <1>1, <1>2, <1>3, <1>4 DEF CountersExact, LeftCounted, RightCounted

\* Every step of a right-to-left thread keeps the counters exact.
LEMMA RightKeepsCounters ==
  ASSUME ChannelInv, NEW t \in Right,
         RightArrive(t) \/ RightEnter(t) \/ RightLeave(t)
  PROVE  CountersExact'
<1> DEFINE R == RightCounted
<1>1. /\ IsFiniteSet(R) /\ TypeOK
      /\ rc = Cardinality(LeftCounted) /\ wc = Cardinality(R)
  BY InFinite, CountersTell DEF ChannelInv, RightCounted
<1>2. UNCHANGED <<rc, left>>
  BY DEF RightArrive, RightEnter, RightTakeDb, RightCount, RightTakeExtra,
         RightLeave
<1>3. LeftCounted' = LeftCounted
  BY <1>2 DEF LeftCounted, LeftIn
<1>4. wc' = Cardinality(RightCounted')
  <2>1. CASE RightArrive(t) \/ RightTakeDb(t)
    <3>1. t \notin R /\ R' = R \ {t} /\ wc' = wc
      BY <1>1, <2>1 DEF TypeOK, RightArrive, RightTakeDb, RightCounted, RightIn
    <3>2. QED
      BY <1>1, <3>1
  <2>2. CASE RightCount(t)
    <3>1. t \notin R /\ R' = R \cup {t} /\ wc' = wc + 1
      BY <1>1, <2>2 DEF TypeOK, RightCount, RightCounted, RightIn
    <3>2. QED
      BY <1>1, <3>1, CardStep
  <2>3. CASE RightTakeExtra(t)
    <3>1. t \in R /\ R' = R \cup {t} /\ wc' = wc
      BY <1>1, <2>3 DEF TypeOK, RightTakeExtra, RightCounted, RightIn
    <3>2. QED
      BY <1>1, <3>1
  <2>4. CASE RightLeave(t)
    <3>1. t \in R /\ R' = R \ {t} /\ wc' = wc - 1
      BY <1>1, <2>4 DEF TypeOK, RightLeave, RightCounted, RightIn
    <3>2. QED
      BY <1>1, <3>1, CardStep
  <2>5. QED
    BY <2>1, <2>2, <2>3, <2>4 DEF RightEnter
<1>5. QED
  BY <1>1, <1>2, <1>3, <1>4 DEF CountersExact, LeftCounted, RightCounted
\* The conjuncts that speak of locks and of who excludes whom.
Exclusion == LocksAccounted /\ OneNegotiator /\ OneDirection

\* Every step of a left-to-right thread keeps the locks accounted for.
LEMMA LeftKeepsExclusion ==
  ASSUME ChannelInv, NEW t \in Left,
         LeftArrive(t) \/ LeftEnter(t) \/ LeftLeave(t)
  PROVE  Exclusion'
<1>1. /\ TypeOK /\ LocksAccounted /\ OneNegotiator /\ OneDirection
  BY DEF ChannelInv
<1>2. /\ rc \in Nat
      /\ rc = 0 <=> LeftCounted = {}
      /\ \A s \in LeftCounted : rc = 1 <=> LeftCounted = {s}
  BY CountersTell
<1>3. CASE LeftArrive(t)
  <2>2. LocksAccounted'
    BY <1>1, <1>3 DEF TypeOK, Mutexes, LeftArrive, LocksAccounted,
       OneNegotiator, OneDirection, LeftIn, RightIn
  <2>3. OneNegotiator'
    BY <1>1, <1>3 DEF TypeOK, Mutexes, LeftArrive, LocksAccounted,
       OneNegotiator, OneDirection, LeftIn, RightIn
  <2>4. OneDirection'
    BY <1>1, <1>3 DEF TypeOK, Mutexes, LeftArrive, LocksAccounted,
       OneNegotiator, OneDirection, LeftIn, RightIn
  <2>5. QED
    BY <2>2, <2>3, <2>4 DEF Exclusion
<1>4. CASE LeftCount(t)
  <2>1. rc' = 1 <=> LeftCounted = {}
    BY <1>2, <1>4 DEF LeftCount
  <2>2. LocksAccounted'
    BY <1>1, <2>1, <1>4 DEF TypeOK, Mutexes, LeftCount, LeftCounted, LocksAccounted,
       OneNegotiator, OneDirection, LeftIn, RightIn
  <2>3. OneNegotiator'
    BY <1>1, <2>1, <1>4 DEF TypeOK, Mutexes, LeftCount, LeftCounted, LocksAccounted,
       OneNegotiator, OneDirection, LeftIn, RightIn
  <2>4. OneDirection'
    BY <1>1, <2>1, <1>4 DEF TypeOK, Mutexes, LeftCount, LeftCounted, LocksAccounted,
       OneNegotiator, OneDirection, LeftIn, RightIn
  <2>5. QED
    BY <2>2, <2>3, <2>4 DEF Exclusion
<1>5. CASE LeftTakeDb(t)
  <2>2. LocksAccounted'
    BY <1>1, <1>5 DEF TypeOK, Mutexes, LeftTakeDb, LocksAccounted,
       OneNegotiator, OneDirection, LeftIn, RightIn
  <2>3. OneNegotiator'
    BY <1>1, <1>5 DEF TypeOK, Mutexes, LeftTakeDb, LocksAccounted,
       OneNegotiator, OneDirection, LeftIn, RightIn
  <2>4. OneDirection'
    BY <1>1, <1>5 DEF TypeOK, Mutexes, LeftTakeDb, LocksAccounted,
       OneNegotiator, OneDirection, LeftIn, RightIn
  <2>5. QED
    BY <2>2, <2>3, <2>4 DEF Exclusion
<1>6. CASE LeftTakeExtra(t)
  <2>2. LocksAccounted'
    BY <1>1, <1>6 DEF TypeOK, Mutexes, LeftTakeExtra, LocksAccounted,
       OneNegotiator, OneDirection, LeftIn, RightIn
  <2>3. OneNegotiator'
    BY <1>1, <1>6 DEF TypeOK, Mutexes, LeftTakeExtra, LocksAccounted,
       OneNegotiator, OneDirection, LeftIn, RightIn
  <2>4. OneDirection'
    BY <1>1, <1>6 DEF TypeOK, Mutexes, LeftTakeExtra, LocksAccounted,
       OneNegotiator, OneDirection, LeftIn, RightIn
  <2>5. QED
    BY <2>2, <2>3, <2>4 DEF Exclusion
<1>7. CASE LeftLeave(t)
  <2>1. rc' = 0 <=> LeftCounted = {t}
    BY <1>1, <1>2, <1>7 DEF LeftLeave, LeftCounted, LeftIn
  <2>2. LocksAccounted'
    BY <1>1, <2>1, <1>7 DEF TypeOK, Mutexes, LeftLeave, LeftCounted, LocksAccounted,
       OneNegotiator, OneDirection, LeftIn, RightIn
  <2>3. OneNegotiator'
    BY <1>1, <2>1, <1>7 DEF TypeOK, Mutexes, LeftLeave, LeftCounted, LocksAccounted,
       OneNegotiator, OneDirection, LeftIn, RightIn
  <2>4. OneDirection'
    BY <1>1, <2>1, <1>7 DEF TypeOK, Mutexes, LeftLeave, LeftCounted, LocksAccounted,
       OneNegotiator, OneDirection, LeftIn, RightIn
  <2>5. QED
    BY <2>2, <2>3, <2>4 DEF Exclusion
<1>8. QED
  BY <1>3, <1>4, <1>5, <1>6, <1>7 DEF LeftEnter

\* Every step of a right-to-left thread keeps the locks accounted for.
LEMMA RightKeepsExclusion ==
  ASSUME ChannelInv, NEW t \in Right,
         RightArrive(t) \/ RightEnter(t) \/ RightLeave(t)
  PROVE  Exclusion'
<1>1. /\ TypeOK /\ LocksAccounted /\ OneNegotiator /\ OneDirection
  BY DEF ChannelInv
<1>2. /\ wc \in Nat
      /\ wc = 0 <=> RightCounted = {}
      /\ \A s \in RightCounted : wc = 1 <=> RightCounted = {s}
  BY CountersTell
<1>3. CASE RightArrive(t)
  <2>2. LocksAccounted'
    BY <1>1, <1>3 DEF TypeOK, Mutexes, RightArrive, LocksAccounted,
       OneNegotiator, OneDirection, LeftIn, RightIn
  <2>3. OneNegotiator'
    BY <1>1, <1>3 DEF TypeOK, Mutexes, RightArrive, LocksAccounted,
       OneNegotiator, OneDirection, LeftIn, RightIn
  <2>4. OneDirection'
    BY <1>1, <1>3 DEF TypeOK, Mutexes, RightArrive, LocksAccounted,
       OneNegotiator, OneDirection, LeftIn, RightIn
  <2>5. QED
    BY <2>2, <2>3, <2>4 DEF Exclusion
<1>4. CASE RightTakeDb(t)
  <2>2. LocksAccounted'
    BY <1>1, <1>4 DEF TypeOK, Mutexes, RightTakeDb, LocksAccounted,
       OneNegotiator, OneDirection, LeftIn, RightIn
  <2>3. OneNegotiator'
    BY <1>1, <1>4 DEF TypeOK, Mutexes, RightTakeDb, LocksAccounted,
       OneNegotiator, OneDirection, LeftIn, RightIn
  <2>4. OneDirection'
    BY <1>1, <1>4 DEF TypeOK, Mutexes, RightTakeDb, LocksAccounted,
       OneNegotiator, OneDirection, LeftIn, RightIn
  <2>5. QED
    BY <2>2, <2>3, <2>4 DEF Exclusion
<1>5. CASE RightCount(t)
  <2>1. wc' = 1 <=> RightCounted = {}
    BY <1>2, <1>5 DEF RightCount
  <2>2. LocksAccounted'
    BY <1>1, <2>1, <1>5 DEF TypeOK, Mutexes, RightCount, RightCounted, LocksAccounted,
       OneNegotiator, OneDirection, LeftIn, RightIn
  <2>3. OneNegotiator'
    BY <1>1, <2>1, <1>5 DEF TypeOK, Mutexes, RightCount, RightCounted, LocksAccounted,
       OneNegotiator, OneDirection, LeftIn, RightIn
  <2>4. OneDirection'
    BY <1>1, <2>1, <1>5 DEF TypeOK, Mutexes, RightCount, RightCounted, LocksAccounted,
       OneNegotiator, OneDirection, LeftIn, RightIn
  <2>5. QED
    BY <2>2, <2>3, <2>4 DEF Exclusion
<1>6. CASE RightTakeExtra(t)
  <2>2. LocksAccounted'
    BY <1>1, <1>6 DEF TypeOK, Mutexes, RightTakeExtra, LocksAccounted,
       OneNegotiator, OneDirection, LeftIn, RightIn
  <2>3. OneNegotiator'
    BY <1>1, <1>6 DEF TypeOK, Mutexes, RightTakeExtra, LocksAccounted,
       OneNegotiator, OneDirection, LeftIn, RightIn
  <2>4. OneDirection'
    BY <1>1, <1>6 DEF TypeOK, Mutexes, RightTakeExtra, LocksAccounted,
       OneNegotiator, OneDirection, LeftIn, RightIn
  <2>5. QED
    BY <2>2, <2>3, <2>4 DEF Exclusion
<1>7. CASE RightLeave(t)
  <2>1. wc' = 0 <=> RightCounted = {t}
    BY <1>1, <1>2, <1>7 DEF RightLeave, RightCounted, RightIn
  <2>2. LocksAccounted'
    BY <1>1, <2>1, <1>7 DEF TypeOK, Mutexes, RightLeave, RightCounted, LocksAccounted,
       OneNegotiator, OneDirection, LeftIn, RightIn
  <2>3. OneNegotiator'
    BY <1>1, <2>1, <1>7 DEF TypeOK, Mutexes, RightLeave, RightCounted, LocksAccounted,
       OneNegotiator, OneDirection, LeftIn, RightIn
  <2>4. OneDirection'
    BY <1>1, <2>1, <1>7 DEF TypeOK, Mutexes, RightLeave, RightCounted, LocksAccounted,
       OneNegotiator, OneDirection, LeftIn, RightIn
  <2>5. QED
    BY <2>2, <2>3, <2>4 DEF Exclusion
<1>8. QED
  BY <1>3, <1>4, <1>5, <1>6, <1>7 DEF RightEnter

\* ChannelInv is inductive.
LEMMA ChannelInvStep == ChannelInv /\ [ChannelNext]_cvars => ChannelInv'
<1>1. SUFFICES ASSUME ChannelInv, [ChannelNext]_cvars PROVE ChannelInv'
  OBVIOUS
<1>2. TypeOK'
  BY <1>1, TypeStep DEF ChannelInv
<1>3. CountersExact' /\ Exclusion'
  <2>1. CASE UNCHANGED cvars
    BY <1>1, <2>1 DEF cvars, ChannelInv, CountersExact, Exclusion,
       LocksAccounted, OneNegotiator, OneDirection, LeftIn, RightIn
  <2>2. CASE ChannelNext
    BY <1>1, <2>2, LeftKeepsCounters, RightKeepsCounters, LeftKeepsExclusion,
       RightKeepsExclusion DEF ChannelNext
  <2>3. QED
    BY <1>1, <2>1, <2>2
<1>4. QED
  BY <1>2, <1>3 DEF ChannelInv, Exclusion

LEMMA ChannelInvInit == ChannelInit => ChannelInv
<1>1. SUFFICES ASSUME ChannelInit PROVE ChannelInv
  OBVIOUS
<1>2. TypeOK
  BY <1>1, TypeInit
<1>3. \A pcs : "out" \notin pcs => LeftIn(pcs) = {} /\ RightIn(pcs) = {}
  BY <1>1 DEF ChannelInit, LeftIn, RightIn
<1>4. /\ LeftIn({"wantDb", "wantExtra", "on"}) = {}
      /\ LeftIn({"wantDb", "wantExtra"}) = {}
      /\ LeftIn({"wantExtra", "on"}) = {}
      /\ LeftIn({"on"}) = {}
      /\ RightIn({"wantExtra", "on"}) = {}
      /\ RightIn({"wantWc", "wantExtra"}) = {}
      /\ RightIn({"wantExtra"}) = {}
      /\ RightIn({"on"}) = {}
  BY <1>1 DEF ChannelInit, LeftIn, RightIn
<1>5. CountersExact
  BY <1>1, <1>4, FS_EmptySet DEF ChannelInit, CountersExact
<1>6. LocksAccounted /\ OneNegotiator /\ OneDirection
  BY <1>1, <1>4 DEF ChannelInit, LocksAccounted, OneNegotiator, OneDirection
<1>7. QED
  BY <1>2, <1>5, <1>6 DEF ChannelInv

\* Whoever uses the channel, the counters are exact, the four mutexes are held
\* by exactly those who are between lock and unlock, at most one walker of a
\* direction negotiates, and the walkway is used in one direction at a time.
THEOREM ChannelCorrect == ChannelSafetySpec => []ChannelInv
BY ChannelInvInit, ChannelInvStep, PTL DEF ChannelSafetySpec

\* The walkway is never used in both directions.
THEOREM OneDirectionAlways == ChannelSafetySpec => []OneDirection
BY ChannelCorrect, PTL DEF ChannelInv

-----------------------------------------------------------------------------
(* What a step may never do, and what the channel implements. *)

\* While the left-to-right direction owns mtx_db, nobody new passes it on the
\* right side and nobody joins those who walk right to left.
THEOREM LeftHasPriority == ChannelSafetySpec => LeftPriority
<1> DEFINE Step ==
      LeftIn({"wantExtra", "on"}) # {} =>
        /\ RightIn({"on"})' \subseteq RightIn({"on"})
        /\ RightIn({"wantDb"}) \subseteq RightIn({"wantDb"})'
<1>1. ChannelInv /\ [ChannelNext]_cvars => [Step]_cvars
  <2>1. SUFFICES ASSUME ChannelInv, ChannelNext,
                        LeftIn({"wantExtra", "on"}) # {}
                 PROVE  Step
    OBVIOUS
  <2>2. /\ "db" \in locked
        /\ RightIn({"wantWc", "wantExtra"}) = {}
        /\ TypeOK
    BY <2>1 DEF ChannelInv, LocksAccounted, OneNegotiator
  <2>3. CASE UNCHANGED right
    BY <2>3 DEF RightIn
  <2>4. ASSUME NEW t \in Right, RightArrive(t) \/ RightEnter(t) \/ RightLeave(t)
        PROVE  Step
    <3>1. RightArrive(t) \/ RightLeave(t)
      BY <2>2, <2>4 DEF RightEnter, RightTakeDb, RightCount, RightTakeExtra,
         RightIn
    <3>2. QED
      BY <2>2, <3>1 DEF RightArrive, RightLeave, RightIn, TypeOK
  <2>5. ASSUME NEW t \in Left, LeftArrive(t) \/ LeftEnter(t) \/ LeftLeave(t)
        PROVE  UNCHANGED right
    BY <2>5 DEF LeftArrive, LeftEnter, LeftCount, LeftTakeDb, LeftTakeExtra,
       LeftLeave
  <2>6. QED
    BY <2>1, <2>3, <2>4, <2>5 DEF ChannelNext
<1>2. QED
  BY <1>1, ChannelCorrect, PTL DEF ChannelSafetySpec, LeftPriority

\* Every behaviour of the channel is, with its walkers seen as the passengers
\* on it, a behaviour of the one-way walkway.
THEOREM ImplementsWalkway == ChannelSafetySpec => WalkwaySpec
<1>1. ChannelInit => Walkway!Init
  BY DEF ChannelInit, Walkway!Init, LeftIn, RightIn
<1>2. ChannelInv /\ [ChannelNext]_cvars => [Walkway!Next]_(Walkway!vars)
  <2>1. SUFFICES ASSUME ChannelInv, ChannelNext
                 PROVE  Walkway!Next \/ UNCHANGED Walkway!vars
    BY DEF cvars, Walkway!vars, LeftIn, RightIn
  <2>2. TypeOK /\ OneDirection /\ LocksAccounted /\ OneNegotiator
    BY <2>1 DEF ChannelInv
  <2>3. ASSUME NEW t \in Left, LeftArrive(t) \/ LeftTakeDb(t)
        PROVE  UNCHANGED Walkway!vars
    BY <2>2, <2>3 DEF LeftArrive, LeftTakeDb, Walkway!vars, LeftIn, RightIn,
       TypeOK
  <2>4. ASSUME NEW t \in Left, LeftCount(t)
        PROVE  Walkway!EnterLeft(t) \/ UNCHANGED Walkway!vars
    <3>1. CASE rc' = 1
      BY <2>2, <2>4, <3>1 DEF LeftCount, Walkway!vars, LeftIn, RightIn, TypeOK
    <3>2. CASE rc' # 1
      <4>1. LeftIn({"on"}) # {}
        BY <2>1, <2>2, <2>4, <3>2, CountersTell
           DEF LeftCount, LeftCounted, LocksAccounted, LeftIn
      <4>2. RightIn({"on"}) = {}
        BY <2>2, <4>1 DEF OneDirection
      <4>3. t \notin LeftIn({"on"}) /\ LeftIn({"on"})' = LeftIn({"on"}) \cup {t}
        BY <2>2, <2>4, <3>2 DEF LeftCount, LeftIn, TypeOK
      <4>4. RightIn({"on"})' = RightIn({"on"})
        BY <2>4 DEF LeftCount, RightIn
      <4>5. QED
        BY <4>2, <4>3, <4>4 DEF Walkway!EnterLeft
    <3>3. QED
      BY <3>1, <3>2
  <2>5. ASSUME NEW t \in Left, LeftTakeExtra(t)
        PROVE  Walkway!EnterLeft(t)
    <3>1. RightIn({"on"}) = {}
      BY <2>2, <2>5 DEF LeftTakeExtra, LocksAccounted
    <3>2. t \notin LeftIn({"on"}) /\ LeftIn({"on"})' = LeftIn({"on"}) \cup {t}
      BY <2>2, <2>5 DEF LeftTakeExtra, LeftIn, TypeOK
    <3>3. RightIn({"on"})' = RightIn({"on"})
      BY <2>5 DEF LeftTakeExtra, RightIn
    <3>4. QED
      BY <3>1, <3>2, <3>3 DEF Walkway!EnterLeft
  <2>6. ASSUME NEW t \in Left, LeftLeave(t)
        PROVE  Walkway!LeaveLeft(t)
    <3>1. t \in LeftIn({"on"}) /\ LeftIn({"on"})' = LeftIn({"on"}) \ {t}
      BY <2>2, <2>6 DEF LeftLeave, LeftIn, TypeOK
    <3>2. RightIn({"on"})' = RightIn({"on"})
      BY <2>6 DEF LeftLeave, RightIn
    <3>3. QED
      BY <3>1, <3>2 DEF Walkway!LeaveLeft
  <2>7. ASSUME NEW t \in Right, RightArrive(t) \/ RightTakeDb(t)
        PROVE  UNCHANGED Walkway!vars
    BY <2>2, <2>7 DEF RightArrive, RightTakeDb, Walkway!vars, LeftIn, RightIn,
       TypeOK
  <2>8. ASSUME NEW t \in Right, RightCount(t)
        PROVE  Walkway!EnterRight(t) \/ UNCHANGED Walkway!vars
    <3>1. CASE wc' = 1
      BY <2>2, <2>8, <3>1 DEF RightCount, Walkway!vars, LeftIn, RightIn, TypeOK
    <3>2. CASE wc' # 1
      <4>1. RightIn({"on"}) # {}
        BY <2>1, <2>2, <2>8, <3>2, CountersTell
           DEF RightCount, RightCounted, LocksAccounted, RightIn
      <4>2. LeftIn({"on"}) = {}
        BY <2>2, <4>1 DEF OneDirection
      <4>3. /\ t \notin RightIn({"on"})
            /\ RightIn({"on"})' = RightIn({"on"}) \cup {t}
        BY <2>2, <2>8, <3>2 DEF RightCount, RightIn, TypeOK
      <4>4. LeftIn({"on"})' = LeftIn({"on"})
        BY <2>8 DEF RightCount, LeftIn
      <4>5. QED
        BY <4>2, <4>3, <4>4 DEF Walkway!EnterRight
    <3>3. QED
      BY <3>1, <3>2
  <2>9. ASSUME NEW t \in Right, RightTakeExtra(t)
        PROVE  Walkway!EnterRight(t)
    <3>1. LeftIn({"on"}) = {}
      BY <2>2, <2>9 DEF RightTakeExtra, LocksAccounted
    <3>2. t \notin RightIn({"on"}) /\ RightIn({"on"})' = RightIn({"on"}) \cup {t}
      BY <2>2, <2>9 DEF RightTakeExtra, RightIn, TypeOK
    <3>3. LeftIn({"on"})' = LeftIn({"on"})
      BY <2>9 DEF RightTakeExtra, LeftIn
    <3>4. QED
      BY <3>1, <3>2, <3>3 DEF Walkway!EnterRight
  <2>10. ASSUME NEW t \in Right, RightLeave(t)
         PROVE  Walkway!LeaveRight(t)
    <3>1. t \in RightIn({"on"}) /\ RightIn({"on"})' = RightIn({"on"}) \ {t}
      BY <2>2, <2>10 DEF RightLeave, RightIn, TypeOK
    <3>2. LeftIn({"on"})' = LeftIn({"on"})
      BY <2>10 DEF RightLeave, LeftIn
    <3>3. QED
      BY <3>1, <3>2 DEF Walkway!LeaveRight
  <2>11. QED
    BY <2>1, <2>3, <2>4, <2>5, <2>6, <2>7, <2>8, <2>9, <2>10
       DEF ChannelNext, LeftEnter, RightEnter, Walkway!Next
<1>3. QED
  BY <1>1, <1>2, ChannelCorrect, PTL
     DEF ChannelSafetySpec, WalkwaySpec, Walkway!Spec
=============================================================================
