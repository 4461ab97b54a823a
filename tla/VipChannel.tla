----------------------------- MODULE VipChannel -----------------------------
(***************************************************************************)
(* The readers/writers lock around the VIP channel in 1705043_IPC.cpp.     *)
(*                                                                         *)
(* Left-to-right walkers (SendToVipChannel and SpecialSendToVipChannel)    *)
(* are counted in rc, right-to-left walkers (SendRightToLeft) in wc.  The  *)
(* first walker of a direction takes mtx_extradb for everybody of that     *)
(* direction and the last one gives it back; the first left-to-right       *)
(* walker also takes mtx_db, which every right-to-left walker passes       *)
(* through, so that nobody new enters from the right.                      *)
(*                                                                         *)
(* mtx_db and mtx_extradb are unlocked by another thread than the one that *)
(* locked them, so the four mutexes are modelled as what a default glibc   *)
(* mutex is to such a caller: a binary semaphore without an owner.         *)
(* A critical section of mtx_rc or mtx_wc that does not block is one step. *)
(***************************************************************************)
EXTENDS Integers, FiniteSets

CONSTANTS Left,    \* threads that walk left to right
          Right    \* threads that walk right to left

ASSUME ThreadsFinite == IsFiniteSet(Left) /\ IsFiniteSet(Right)

VARIABLES rc, wc,      \* the two counters
          locked,      \* those of the four mutexes that are locked
          left, right  \* where each thread is

cvars == <<rc, wc, locked, left, right>>

Mutexes == {"rc", "wc", "db", "extradb"}

LeftPc  == {"out", "wantRc", "wantDb", "wantExtra", "on"}
RightPc == {"out", "wantDb", "wantWc", "wantExtra", "on"}

ChannelInit ==
  /\ rc = 0 /\ wc = 0
  /\ locked = {}
  /\ left  = [t \in Left  |-> "out"]
  /\ right = [t \in Right |-> "out"]

-----------------------------------------------------------------------------
(* Left to right: SendToVipChannel, then its ...Thread. *)

LeftArrive(t) ==
  /\ left[t] = "out"
  /\ left' = [left EXCEPT ![t] = "wantRc"]
  /\ UNCHANGED <<rc, wc, locked, right>>

\* Mutant: the first one unlocks mtx_rc before it has taken the channel.
LeftCountUnlocksEarly(t) ==
  /\ left[t] = "wantRc"
  /\ "rc" \notin locked
  /\ rc' = rc + 1
  /\ left' = [left EXCEPT ![t] = IF rc' = 1 THEN "wantDb" ELSE "on"]
  /\ UNCHANGED <<wc, locked, right>>

\* lock(mtx_rc); rc++; the first one keeps mtx_rc while it takes the channel.
LeftCount(t) ==
  /\ left[t] = "wantRc"
  /\ "rc" \notin locked
  /\ rc' = rc + 1
  /\ locked' = IF rc' = 1 THEN locked \cup {"rc"} ELSE locked
  /\ left' = [left EXCEPT ![t] = IF rc' = 1 THEN "wantDb" ELSE "on"]
  /\ UNCHANGED <<wc, right>>

\* Mutant: the first one does not take mtx_db at all.
LeftTakeDbNotTaken(t) ==
  /\ left[t] = "wantDb"
  /\ left' = [left EXCEPT ![t] = "wantExtra"]
  /\ UNCHANGED <<rc, wc, locked, right>>

\* Mutant: the next thing the thread waits for is mtx_wc.
LeftTakeDbThenWc(t) ==
  /\ left[t] = "wantDb"
  /\ "db" \notin locked
  /\ locked' = locked \cup {"db"}
  /\ left' = [left EXCEPT ![t] = "wantWc"]
  /\ UNCHANGED <<rc, wc, right>>

LeftTakeDb(t) ==
  /\ left[t] = "wantDb"
  /\ "db" \notin locked
  /\ locked' = locked \cup {"db"}
  /\ left' = [left EXCEPT ![t] = "wantExtra"]
  /\ UNCHANGED <<rc, wc, right>>

\* Mutant: the first one takes mtx_db only.
LeftTakeExtraNotTaken(t) ==
  /\ left[t] = "wantExtra"
  /\ locked' = locked \ {"rc"}
  /\ left' = [left EXCEPT ![t] = "on"]
  /\ UNCHANGED <<rc, wc, right>>

\* Mutant: it gives mtx_db back at once, as the right side does.
LeftTakeExtraReleasesDb(t) ==
  /\ left[t] = "wantExtra"
  /\ "extradb" \notin locked
  /\ locked' = (locked \cup {"extradb"}) \ {"rc", "db"}
  /\ left' = [left EXCEPT ![t] = "on"]
  /\ UNCHANGED <<rc, wc, right>>

LeftTakeExtra(t) ==
  /\ left[t] = "wantExtra"
  /\ "extradb" \notin locked
  /\ locked' = (locked \cup {"extradb"}) \ {"rc"}
  /\ left' = [left EXCEPT ![t] = "on"]
  /\ UNCHANGED <<rc, wc, right>>

\* lock(mtx_rc); rc--; the last one opens mtx_extradb and mtx_db.
LeftLeave(t) ==
  /\ left[t] = "on"
  /\ "rc" \notin locked
  /\ rc' = rc - 1
  /\ locked' = IF rc' = 0 THEN locked \ {"extradb", "db"} ELSE locked
  /\ left' = [left EXCEPT ![t] = "out"]
  /\ UNCHANGED <<wc, right>>

-----------------------------------------------------------------------------
(* Right to left: SendRightToLeft, then its ...Thread. *)

RightArrive(t) ==
  /\ right[t] = "out"
  /\ right' = [right EXCEPT ![t] = "wantDb"]
  /\ UNCHANGED <<rc, wc, locked, left>>

RightTakeDb(t) ==
  /\ right[t] = "wantDb"
  /\ "db" \notin locked
  /\ locked' = locked \cup {"db"}
  /\ right' = [right EXCEPT ![t] = "wantWc"]
  /\ UNCHANGED <<rc, wc, left>>

\* lock(mtx_wc); wc++; the first one keeps mtx_wc and mtx_db for a moment.
RightCount(t) ==
  /\ right[t] = "wantWc"
  /\ "wc" \notin locked
  /\ wc' = wc + 1
  /\ locked' = IF wc' = 1 THEN locked \cup {"wc"} ELSE locked \ {"db"}
  /\ right' = [right EXCEPT ![t] = IF wc' = 1 THEN "wantExtra" ELSE "on"]
  /\ UNCHANGED <<rc, left>>

\* Mutant: the first one keeps mtx_wc.
RightTakeExtraKeepsWc(t) ==
  /\ right[t] = "wantExtra"
  /\ "extradb" \notin locked
  /\ locked' = (locked \cup {"extradb"}) \ {"db"}
  /\ right' = [right EXCEPT ![t] = "on"]
  /\ UNCHANGED <<rc, wc, left>>

RightTakeExtra(t) ==
  /\ right[t] = "wantExtra"
  /\ "extradb" \notin locked
  /\ locked' = (locked \cup {"extradb"}) \ {"wc", "db"}
  /\ right' = [right EXCEPT ![t] = "on"]
  /\ UNCHANGED <<rc, wc, left>>

\* lock(mtx_wc); wc--; the last one opens mtx_extradb.
RightLeave(t) ==
  /\ right[t] = "on"
  /\ "wc" \notin locked
  /\ wc' = wc - 1
  /\ locked' = IF wc' = 0 THEN locked \ {"extradb"} ELSE locked
  /\ right' = [right EXCEPT ![t] = "out"]
  /\ UNCHANGED <<rc, left>>

-----------------------------------------------------------------------------
\* What a thread does between arriving and being on the walkway.
LeftEnter(t)  == LeftCount(t) \/ LeftTakeDb(t) \/ LeftTakeExtra(t)
RightEnter(t) == RightTakeDb(t) \/ RightCount(t) \/ RightTakeExtra(t)

ChannelNext ==
  \/ \E t \in Left  : LeftArrive(t) \/ LeftEnter(t) \/ LeftLeave(t)
  \/ \E t \in Right : RightArrive(t) \/ RightEnter(t) \/ RightLeave(t)

ChannelSafetySpec == ChannelInit /\ [][ChannelNext]_cvars

\* A thread that is on the walkway or on its way in keeps running; nothing
\* makes a passenger arrive.
ChannelFairness ==
  /\ \A t \in Left  : WF_cvars(LeftEnter(t))  /\ WF_cvars(LeftLeave(t))
  /\ \A t \in Right : WF_cvars(RightEnter(t)) /\ WF_cvars(RightLeave(t))

ChannelSpec == ChannelSafetySpec /\ ChannelFairness
-----------------------------------------------------------------------------
(* Correctness. *)

TypeOK ==
  /\ rc \in Int /\ wc \in Int
  /\ locked \subseteq Mutexes
  /\ left \in [Left -> LeftPc]
  /\ right \in [Right -> RightPc]

LeftIn(pcs)  == {t \in Left  : left[t] \in pcs}
RightIn(pcs) == {t \in Right : right[t] \in pcs}

\* The counters count exactly the threads that have announced themselves and
\* not yet withdrawn, so that "the last one out" is recognised (lines 148, 305).
CountersExact ==
  /\ rc = Cardinality(LeftIn({"wantDb", "wantExtra", "on"}))
  /\ wc = Cardinality(RightIn({"wantExtra", "on"}))

\* A mutex is locked exactly while some thread is between its lock and its
\* unlock, although mtx_db and mtx_extradb change hands within a direction:
\* no lock leaks, and none is opened that another thread still relies on.
LocksAccounted ==
  /\ "rc" \in locked <=> LeftIn({"wantDb", "wantExtra"}) # {}
  /\ "wc" \in locked <=> RightIn({"wantExtra"}) # {}
  /\ "db" \in locked <=> \/ LeftIn({"wantExtra", "on"}) # {}
                         \/ RightIn({"wantWc", "wantExtra"}) # {}
  /\ "extradb" \in locked <=> LeftIn({"on"}) \cup RightIn({"on"}) # {}

\* Only the first walker of a direction negotiates for it: while he does he is
\* alone, and nobody of his direction walks (lines 162-165, 319-322); mtx_db
\* lets one walker from the right through at a time, and none while the
\* left-to-right direction owns it.
OneNegotiator ==
  /\ \A s, t \in LeftIn({"wantDb", "wantExtra"}) : s = t
  /\ \A s, t \in RightIn({"wantWc", "wantExtra"}) : s = t
  /\ LeftIn({"wantDb", "wantExtra"}) = {} \/ LeftIn({"on"}) = {}
  /\ RightIn({"wantExtra"}) = {} \/ RightIn({"on"}) = {}
  /\ LeftIn({"wantExtra", "on"}) = {} \/ RightIn({"wantWc", "wantExtra"}) = {}

\* The walkway carries people in one direction at a time: what mtx_extradb is
\* for (lines 164, 320).
OneDirection == LeftIn({"on"}) = {} \/ RightIn({"on"}) = {}

\* The invariant that one step preserves on its own.
ChannelInv == TypeOK /\ CountersExact /\ LocksAccounted /\ OneNegotiator
                     /\ OneDirection

\* From the moment a left-to-right walker owns mtx_db (line 163) until the last
\* of that direction has left, nobody new gets past mtx_db on the right side
\* and nobody joins those who still walk right to left.
LeftPriority ==
  [][LeftIn({"wantExtra", "on"}) # {} =>
       /\ RightIn({"on"})' \subseteq RightIn({"on"})
       /\ RightIn({"wantDb"}) \subseteq RightIn({"wantDb"})']_cvars

Arrivals == \/ \E t \in Left  : LeftArrive(t)
            \/ \E t \in Right : RightArrive(t)

\* No set of threads waits for each other on the four mutexes for ever: when
\* arrivals cease, everybody crosses and leaves, and the channel stays open to
\* either direction.
QuietChannelEmpties ==
  <>[][~Arrivals]_cvars =>
     <>[](/\ left = [t \in Left |-> "out"] /\ right = [t \in Right |-> "out"]
          /\ locked = {})

\* A left-to-right walker that owns mtx_db (line 163) is on the walkway in the
\* end: he waits for those who already walk right to left and for nobody else,
\* whatever keeps arriving on either side.
OwnerCrosses == \A t \in Left : left[t] = "wantExtra" ~> left[t] = "on"

\* The channel implements the one-way walkway.
Walkway == INSTANCE OneWayWalkway WITH
             eastbound <- LeftIn({"on"}), westbound <- RightIn({"on"})

\* Every step of the channel is a step of the walkway or leaves it alone.
WalkwaySpec == Walkway!Spec
============================================================================
