--------------------------- MODULE AirportProofs ---------------------------
(***************************************************************************)
(* Proofs about the airport, for any number of passengers, kiosks, belts   *)
(* and places on a belt.  What they need of the VIP channel is proved of   *)
(* it alone, in VipChannelProofs.                                          *)
(***************************************************************************)
EXTENDS Airport, FiniteSetTheorems, SequenceTheorems, TLAPS

Lock == INSTANCE VipChannelProofs WITH Left <- Passenger, Right <- Passenger

-----------------------------------------------------------------------------
(* The inductive invariant. *)

Queued(p, q) == Positions(p, q) # {}
NoneTwice(q) == \A i, j \in DOMAIN q : q[i] = q[j] => i = j

\* The places where a passenger can be, by name: with a thread, in a queue, with a
\* loop, or on board.
HomeName == Carrying \cup {"kiosk queue", "belt", "gate", "special queue", "called",
                           "special kiosk", "plane"}

Home(p, k) ==
  \/ k \in Carrying /\ At(p, k)
  \/ k = "kiosk queue" /\ Queued(p, passenger)
  \/ k = "belt" /\ \E b \in Belt : Queued(p, securityQueue[b])
  \/ k = "gate" /\ Queued(p, boardingQueue)
  \/ k = "special queue" /\ Queued(p, specialPassenger)
  \/ k = "called" /\ serving["boarding"] = p
  \/ k = "special kiosk" /\ serving["special"] = p
  \/ k = "plane" /\ p \in boarded

\* A passenger is in one place from his arrival on.
OneHome(p) ==
  /\ \A k, h \in HomeName : Home(p, k) /\ Home(p, h) => k = h
  /\ p \in Arrived <=> \E k \in HomeName : Home(p, k)

LeftPoint == {"vip", "special", "specialPost", "specialLeave"}
RightPoint == {"back", "backPost", "backLeave"}

\* In each direction he has one thread, which walks when it has handed him on; when
\* he is back from the special kiosk, or at the gate, he has left the channel.
OneWalker(p) ==
  /\ left[p] # "out" <=> \E c \in LeftPoint : At(p, c)
  /\ right[p] # "out" <=> \E c \in RightPoint : At(p, c)
  /\ \A c, d \in LeftPoint : At(p, c) /\ At(p, d) => c = d
  /\ \A c, d \in RightPoint : At(p, c) /\ At(p, d) => c = d
  /\ At(p, "specialPost") \/ At(p, "specialLeave") => left[p] = "on"
  /\ At(p, "backPost") \/ At(p, "backLeave") => right[p] = "on"
  /\ Home(p, "special queue") \/ Home(p, "special kiosk") => left[p] = "out"
  /\ Home(p, "gate") => right[p] = "out"

\* Where a passenger is before he comes to the gate for the first time.
FirstTrip == {"enter", "kiosk queue", "checkIn", "wantBelt", "belt", "scan", "vipCheckIn",
              "vip", "toGate"}

\* A thread that still has a token to post is about a place that he has left, and
\* which belt it is about is known.
OneErrand(p) ==
  /\ p \notin Arrived => \A c \in Point : ~At(p, c)
  /\ Home(p, "enter") => ~At(p, "postKioskFull")
  /\ \A k \in {"enter", "kiosk queue", "checkIn", "vipCheckIn", "wantBelt"} :
       Home(p, k) => ~At(p, "postBeltFull")
  /\ \A k \in FirstTrip : Home(p, k) => ~At(p, "postBoardingFull") /\ right[p] = "out"
  /\ \A c \in {"checkIn", "wantBelt", "postBeltFull", "scan"} : At(p, c) => belt[p] \in Belt

PassengerOK(p) == OneHome(p) /\ OneWalker(p) /\ OneErrand(p)

\* Queues hold a passenger once, and a belt's queue only those who were sent to that
\* belt; a loop has a passenger while it serves.
QueuesMatch ==
  /\ NoneTwice(passenger) /\ NoneTwice(boardingQueue) /\ NoneTwice(specialPassenger)
  /\ \A b \in Belt : /\ NoneTwice(securityQueue[b])
                     /\ \A p \in Passenger : Queued(p, securityQueue[b]) => belt[p] = b
  /\ \A l \in {"boarding", "special"} : serving[l] # 0 <=> loop[l] = "serve"
  /\ boarderCnt = Cardinality(boarded)
  /\ inserting => generated # 0

\* How many passengers have a thread at a point, and those sent to one belt.
Number(c) == Cardinality({p \in Passenger : At(p, c)})
NumberOf(b, c) == Cardinality({p \in Passenger : belt[p] = b /\ At(p, c)})

KioskCount == Len(passenger) = sem["kioskFull"] + Number("postKioskFull")
GateCount ==
  Len(boardingQueue) =
    sem["boardingFull"] + Number("postBoardingFull") + Number("specialPost")
SpecialCount == Len(specialPassenger) = sem["specialKioskFull"] + Number("backPost")
KiosksCount ==
  sem["kioskEmpty"] + Len(passenger) + Number("checkIn") + Number("vipCheckIn") = M
HallCounts == KioskCount /\ GateCount /\ SpecialCount /\ KiosksCount

BeltCounts ==
  \A b \in Belt :
    /\ Len(securityQueue[b]) = beltFull[b] + NumberOf(b, "postBeltFull")
    /\ beltEmpty[b] + Len(securityQueue[b]) + NumberOf(b, "scan") = P

AirportInv ==
  /\ TypeOK /\ QueuesMatch /\ HallCounts /\ BeltCounts
  /\ \A p \in Passenger : PassengerOK(p)

-----------------------------------------------------------------------------
(* Queues, threads and how many of them there are. *)

\* What the constants are.
LEMMA Numbers ==
  /\ TO_BE_BOARDED \in Nat \ {0} /\ M \in Nat \ {0} /\ N \in Nat \ {0} /\ P \in Nat \ {0}
  /\ IsFiniteSet(Passenger) /\ Cardinality(Passenger) = TO_BE_BOARDED
  /\ \A p \in Passenger : p # 0 /\ p \in 0 .. TO_BE_BOARDED
<1>1. TO_BE_BOARDED \in Nat \ {0} /\ M \in Nat \ {0} /\ N \in Nat \ {0} /\ P \in Nat \ {0}
  BY AirportAssumption DEF AirportAssumption
<1>2. IsFiniteSet(Passenger) /\ Cardinality(Passenger) = TO_BE_BOARDED
  BY <1>1, FS_Interval DEF Passenger
<1>3. QED
  BY <1>1, <1>2 DEF Passenger

\* Who goes to the end of a queue is in it, once if he was not in it before.
LEMMA QueueJoin ==
  ASSUME NEW s \in Seq(Passenger), NEW p \in Passenger
  PROVE  LET t == Append(s, p)
         IN /\ t \in Seq(Passenger) /\ Len(s) \in Nat /\ Len(t) = Len(s) + 1
            /\ \A q : Queued(q, t) <=> Queued(q, s) \/ q = p
            /\ NoneTwice(s) /\ ~Queued(p, s) => NoneTwice(t)
<1> DEFINE t == Append(s, p)
<1>1. /\ t \in Seq(Passenger) /\ Len(t) = Len(s) + 1
      /\ \A i \in 1 .. Len(s) : t[i] = s[i]
      /\ t[Len(s) + 1] = p
  BY AppendProperties
<1>2. Len(s) \in Nat /\ DOMAIN s = 1 .. Len(s) /\ DOMAIN t = 1 .. Len(s) + 1
  BY <1>1, LenProperties
<1> HIDE DEF t
<1>3. \A i \in 1 .. Len(s) + 1 : i \in 1 .. Len(s) \/ i = Len(s) + 1
  BY <1>2
<1>4. Len(s) + 1 \in DOMAIN t /\ \A i \in DOMAIN s : i \in DOMAIN t /\ t[i] = s[i]
  BY <1>1, <1>2
<1>5. \A q : Queued(q, t) <=> Queued(q, s) \/ q = p
  BY <1>1, <1>2, <1>3, <1>4 DEF Queued, Positions
<1>6. NoneTwice(s) /\ ~Queued(p, s) => NoneTwice(t)
  BY <1>1, <1>2, <1>3 DEF Queued, Positions, NoneTwice
<1>7. QED
  BY <1>1, <1>2, <1>5, <1>6 DEF t

\* Who is first in a queue is in it, and not in the rest of it if he is in it once.
LEMMA QueueLeave ==
  ASSUME NEW s \in Seq(Passenger), Len(s) # 0
  PROVE  LET t == Tail(s)
         IN /\ t \in Seq(Passenger) /\ Len(s) \in Nat \ {0} /\ Len(t) = Len(s) - 1
            /\ Head(s) \in Passenger /\ Queued(Head(s), s)
            /\ NoneTwice(s) => /\ NoneTwice(t)
                               /\ \A q : Queued(q, t) <=> Queued(q, s) /\ q # Head(s)
<1> DEFINE t == Tail(s)
<1>1. s # <<>> /\ Len(s) \in Nat \ {0} /\ DOMAIN s = 1 .. Len(s)
  BY EmptySeq, LenProperties
<1>2. /\ Head(s) \in Passenger /\ t \in Seq(Passenger) /\ Len(t) = Len(s) - 1
      /\ \A i \in 1 .. Len(t) : t[i] = s[i + 1]
  BY <1>1, HeadTailProperties
<1>3. Head(s) = s[1]
  BY <1>1
<1>4. DOMAIN t = 1 .. Len(s) - 1
  BY <1>2, LenProperties
<1> HIDE DEF t
<1>5. \A i \in DOMAIN t : i + 1 \in DOMAIN s /\ i + 1 # 1 /\ t[i] = s[i + 1]
  BY <1>1, <1>2, <1>4
<1>6. \A i \in DOMAIN s : i = 1 \/ \E k \in DOMAIN t : i = k + 1
  <2> TAKE i \in DOMAIN s
  <2>1. i # 1 => i - 1 \in DOMAIN t /\ i = (i - 1) + 1
    BY <1>1, <1>4
  <2>2. QED
    BY <2>1
<1>7. 1 \in DOMAIN s
  BY <1>1
<1>8. Queued(Head(s), s)
  BY <1>3, <1>7 DEF Queued, Positions
<1>9. ASSUME NoneTwice(s) PROVE NoneTwice(t)
  <2>1. \A i, j \in DOMAIN t : t[i] = t[j] => i + 1 = j + 1
    BY <1>5, <1>9 DEF NoneTwice
  <2>2. \A i, j \in DOMAIN t : i + 1 = j + 1 => i = j
    BY <1>1, <1>4
  <2>3. QED
    BY <2>1, <2>2 DEF NoneTwice
<1>10. ASSUME NoneTwice(s), NEW q PROVE Queued(q, t) <=> Queued(q, s) /\ q # Head(s)
  <2>1. ASSUME NEW i \in DOMAIN t, t[i] = q PROVE Queued(q, s) /\ q # Head(s)
    <3>1. PICK n \in DOMAIN s : n # 1 /\ s[n] = q
      BY <1>5, <2>1
    <3>2. QED
      BY <1>3, <1>7, <1>10, <3>1 DEF Queued, Positions, NoneTwice
  <2>2. ASSUME NEW n \in DOMAIN s, s[n] = q, q # Head(s) PROVE Queued(q, t)
    <3>1. PICK k \in DOMAIN t : n = k + 1
      BY <1>3, <1>6, <2>2
    <3>2. t[k] = q
      BY <1>5, <2>2, <3>1
    <3>3. QED
      BY <3>2 DEF Queued, Positions
  <2>3. QED
    BY <2>1, <2>2 DEF Queued, Positions
<1>11. QED
  BY <1>1, <1>2, <1>8, <1>9, <1>10 DEF t

\* A set of passengers that gains or loses one.
LEMMA CountOne ==
  ASSUME NEW S \in SUBSET Passenger, NEW p \in Passenger
  PROVE  /\ Cardinality(S) \in Nat
         /\ p \notin S => Cardinality(S \cup {p}) = Cardinality(S) + 1
         /\ p \in S => /\ Cardinality(S \ {p}) = Cardinality(S) - 1
                       /\ Cardinality(S) # 0
<1>1. IsFiniteSet(S)
  BY Numbers, FS_Subset
<1>2. QED
  BY <1>1, FS_CardinalityType, FS_AddElement, FS_RemoveElement, FS_EmptySet

\* One thread more or less at a point.
LEMMA NumberUp ==
  ASSUME NEW c, NEW p \in Passenger, ~At(p, c),
         \A q \in Passenger : At(q, c)' <=> At(q, c) \/ q = p
  PROVE  /\ Number(c) \in Nat /\ Number(c)' = Number(c) + 1
         /\ belt' = belt => \A b \in Belt :
              /\ NumberOf(b, c) \in Nat
              /\ NumberOf(b, c)' = IF belt[p] = b THEN NumberOf(b, c) + 1 ELSE NumberOf(b, c)
<1> DEFINE S == {q \in Passenger : At(q, c)}
           B(b) == {q \in Passenger : belt[q] = b /\ At(q, c)}
<1>1. p \notin S /\ {q \in Passenger : At(q, c)'} = S \cup {p}
  OBVIOUS
<1>2. Number(c) \in Nat /\ Number(c)' = Number(c) + 1
  BY <1>1, CountOne DEF Number
<1>3. ASSUME belt' = belt, NEW b \in Belt
      PROVE  /\ NumberOf(b, c) \in Nat
             /\ NumberOf(b, c)' = IF belt[p] = b THEN NumberOf(b, c) + 1 ELSE NumberOf(b, c)
  <2>1. p \notin B(b) /\ {q \in Passenger : belt'[q] = b /\ At(q, c)'}
                           = IF belt[p] = b THEN B(b) \cup {p} ELSE B(b)
    BY <1>3
  <2>2. QED
    BY <2>1, CountOne DEF NumberOf
<1>4. QED
  BY <1>2, <1>3

LEMMA NumberDown ==
  ASSUME NEW c, NEW p \in Passenger, At(p, c),
         \A q \in Passenger : At(q, c)' <=> At(q, c) /\ q # p
  PROVE  /\ Number(c) \in Nat \ {0} /\ Number(c)' = Number(c) - 1
         /\ belt' = belt => \A b \in Belt :
              /\ NumberOf(b, c) \in Nat
              /\ NumberOf(b, c)' = IF belt[p] = b THEN NumberOf(b, c) - 1 ELSE NumberOf(b, c)
<1> DEFINE S == {q \in Passenger : At(q, c)}
           B(b) == {q \in Passenger : belt[q] = b /\ At(q, c)}
<1>1. p \in S /\ {q \in Passenger : At(q, c)'} = S \ {p}
  OBVIOUS
<1>2. Number(c) \in Nat \ {0} /\ Number(c)' = Number(c) - 1
  BY <1>1, CountOne DEF Number
<1>3. ASSUME belt' = belt, NEW b \in Belt
      PROVE  /\ NumberOf(b, c) \in Nat
             /\ NumberOf(b, c)' = IF belt[p] = b THEN NumberOf(b, c) - 1 ELSE NumberOf(b, c)
  <2>1. /\ {q \in Passenger : belt'[q] = b /\ At(q, c)'}
             = IF belt[p] = b THEN B(b) \ {p} ELSE B(b)
        /\ belt[p] = b => p \in B(b)
    BY <1>3
  <2>2. QED
    BY <2>1, CountOne DEF NumberOf
<1>4. QED
  BY <1>2, <1>3

LEMMA NumberSame ==
  ASSUME NEW c, \A q \in Passenger : At(q, c)' <=> At(q, c)
  PROVE  /\ Number(c) \in Nat /\ Number(c)' = Number(c)
         /\ (\A q \in Passenger : belt'[q] = belt[q] \/ ~At(q, c)) =>
              \A b \in Belt : NumberOf(b, c) \in Nat /\ NumberOf(b, c)' = NumberOf(b, c)
<1>1. {q \in Passenger : At(q, c)'} = {q \in Passenger : At(q, c)}
  OBVIOUS
<1>2. Number(c) \in Nat /\ Number(c)' = Number(c)
  BY <1>1, Numbers, FS_Subset, FS_CardinalityType DEF Number
<1>3. ASSUME \A q \in Passenger : belt'[q] = belt[q] \/ ~At(q, c), NEW b \in Belt
      PROVE  NumberOf(b, c) \in Nat /\ NumberOf(b, c)' = NumberOf(b, c)
  <2>1. {q \in Passenger : belt'[q] = b /\ At(q, c)'} = {q \in Passenger : belt[q] = b /\ At(q, c)}
    BY <1>3
  <2>2. QED
    BY <2>1, Numbers, FS_Subset, FS_CardinalityType DEF NumberOf
<1>4. QED
  BY <1>2, <1>3

\* What the statements that move, create and end a thread do.
Moved(p, c, d) ==
  /\ threads' \subseteq Passenger \X Point
  /\ \A q, e : At(q, e)' <=> IF q = p /\ e \in {c, d} THEN e = d ELSE At(q, e)
  /\ \A e : /\ Number(e) \in Nat
            /\ Number(e)' = IF e = c THEN Number(e) - 1
                            ELSE IF e = d THEN Number(e) + 1 ELSE Number(e)
  /\ belt' = belt => \A b \in Belt : \A e :
       /\ NumberOf(b, e) \in Nat
       /\ NumberOf(b, e)' = IF belt[p] # b \/ e \notin {c, d} THEN NumberOf(b, e)
                            ELSE IF e = c THEN NumberOf(b, e) - 1 ELSE NumberOf(b, e) + 1

Started(p, d) ==
  /\ threads' \subseteq Passenger \X Point
  /\ \A q, e : At(q, e)' <=> At(q, e) \/ (q = p /\ e = d)
  /\ \A e : /\ Number(e) \in Nat
            /\ Number(e)' = IF e = d THEN Number(e) + 1 ELSE Number(e)
  /\ belt' = belt => \A b \in Belt : \A e :
       /\ NumberOf(b, e) \in Nat
       /\ NumberOf(b, e)' = IF belt[p] = b /\ e = d THEN NumberOf(b, e) + 1
                            ELSE NumberOf(b, e)

Ended(p, c) ==
  /\ threads' \subseteq Passenger \X Point
  /\ \A q, e : At(q, e)' <=> At(q, e) /\ ~(q = p /\ e = c)
  /\ \A e : /\ Number(e) \in Nat
            /\ Number(e)' = IF e = c THEN Number(e) - 1 ELSE Number(e)
  /\ belt' = belt => \A b \in Belt : \A e :
       /\ NumberOf(b, e) \in Nat
       /\ NumberOf(b, e)' = IF belt[p] = b /\ e = c THEN NumberOf(b, e) - 1
                            ELSE NumberOf(b, e)

LEMMA ThreadGoes ==
  ASSUME NEW p \in Passenger, NEW c, NEW d \in Point, c # d, At(p, c), ~At(p, d),
         threads \subseteq Passenger \X Point, Goto(p, c, d)
  PROVE  Moved(p, c, d)
<1>1. \A q, e : At(q, e)' <=> IF q = p /\ e \in {c, d} THEN e = d ELSE At(q, e)
  BY DEF Goto, At
<1>2. ASSUME NEW e
      PROVE  /\ Number(e) \in Nat
             /\ Number(e)' = IF e = c THEN Number(e) - 1
                             ELSE IF e = d THEN Number(e) + 1 ELSE Number(e)
  BY <1>1, NumberUp, NumberDown, NumberSame
<1>3. ASSUME belt' = belt, NEW b \in Belt, NEW e
      PROVE  /\ NumberOf(b, e) \in Nat
             /\ NumberOf(b, e)' = IF belt[p] # b \/ e \notin {c, d} THEN NumberOf(b, e)
                                  ELSE IF e = c THEN NumberOf(b, e) - 1 ELSE NumberOf(b, e) + 1
  <2>1. CASE e = c
    BY <1>1, <1>3, <2>1, NumberDown
  <2>2. CASE e = d
    BY <1>1, <1>3, <2>2, NumberUp
  <2>3. CASE e # c /\ e # d
    BY <1>1, <1>3, <2>3, NumberSame
  <2>4. QED
    BY <2>1, <2>2, <2>3
<1>4. threads' \subseteq Passenger \X Point
  BY DEF Goto
<1>5. QED
  BY <1>1, <1>2, <1>3, <1>4 DEF Moved

LEMMA ThreadStarts ==
  ASSUME NEW p \in Passenger, NEW d \in Point, ~At(p, d),
         threads \subseteq Passenger \X Point, Spawn(p, d)
  PROVE  Started(p, d)
<1>1. \A q, e : At(q, e)' <=> At(q, e) \/ (q = p /\ e = d)
  BY DEF Spawn, At
<1>2. ASSUME NEW e
      PROVE  /\ Number(e) \in Nat
             /\ Number(e)' = IF e = d THEN Number(e) + 1 ELSE Number(e)
  BY <1>1, NumberUp, NumberSame
<1>3. ASSUME belt' = belt, NEW b \in Belt, NEW e
      PROVE  /\ NumberOf(b, e) \in Nat
             /\ NumberOf(b, e)' = IF belt[p] = b /\ e = d THEN NumberOf(b, e) + 1
                                  ELSE NumberOf(b, e)
  <2>1. CASE e = d
    BY <1>1, <1>3, <2>1, NumberUp
  <2>2. CASE e # d
    BY <1>1, <1>3, <2>2, NumberSame
  <2>3. QED
    BY <2>1, <2>2
<1>4. threads' \subseteq Passenger \X Point
  BY DEF Spawn
<1>5. QED
  BY <1>1, <1>2, <1>3, <1>4 DEF Started

LEMMA ThreadEnds ==
  ASSUME NEW p \in Passenger, NEW c, At(p, c),
         threads \subseteq Passenger \X Point, Exit(p, c)
  PROVE  Ended(p, c)
<1>1. \A q, e : At(q, e)' <=> At(q, e) /\ ~(q = p /\ e = c)
  BY DEF Exit, At
<1>2. ASSUME NEW e
      PROVE  /\ Number(e) \in Nat
             /\ Number(e)' = IF e = c THEN Number(e) - 1 ELSE Number(e)
  BY <1>1, NumberDown, NumberSame
<1>3. ASSUME belt' = belt, NEW b \in Belt, NEW e
      PROVE  /\ NumberOf(b, e) \in Nat
             /\ NumberOf(b, e)' = IF belt[p] = b /\ e = c THEN NumberOf(b, e) - 1
                                  ELSE NumberOf(b, e)
  <2>1. CASE e = c
    BY <1>1, <1>3, <2>1, NumberDown
  <2>2. CASE e # c
    BY <1>1, <1>3, <2>2, NumberSame
  <2>3. QED
    BY <2>1, <2>2
<1>4. threads' \subseteq Passenger \X Point
  BY DEF Exit
<1>5. QED
  BY <1>1, <1>2, <1>3, <1>4 DEF Ended

LEMMA ThreadsStay ==
  ASSUME threads' = threads
  PROVE  /\ \A q, e : At(q, e)' <=> At(q, e)
         /\ \A e : Number(e) \in Nat /\ Number(e)' = Number(e)
         /\ belt' = belt => \A b \in Belt : \A e :
              NumberOf(b, e) \in Nat /\ NumberOf(b, e)' = NumberOf(b, e)
<1>1. \A q, e : At(q, e)' <=> At(q, e)
  BY DEF At
<1>2. \A e : Number(e) \in Nat /\ Number(e)' = Number(e)
  BY <1>1, NumberSame
<1>3. ASSUME belt' = belt, NEW b \in Belt, NEW e
      PROVE  NumberOf(b, e) \in Nat /\ NumberOf(b, e)' = NumberOf(b, e)
  BY <1>1, <1>3, NumberSame
<1>4. QED
  BY <1>1, <1>2, <1>3

-----------------------------------------------------------------------------
(* Homes. *)

Other == {"kiosk queue", "belt", "gate", "special queue", "called", "special kiosk", "plane"}

HomesAre ==
  \A p : /\ \A k \in Carrying : Home(p, k) <=> At(p, k)
         /\ Home(p, "kiosk queue") <=> Queued(p, passenger)
         /\ Home(p, "belt") <=> \E b \in Belt : Queued(p, securityQueue[b])
         /\ Home(p, "gate") <=> Queued(p, boardingQueue)
         /\ Home(p, "special queue") <=> Queued(p, specialPassenger)
         /\ Home(p, "called") <=> serving["boarding"] = p
         /\ Home(p, "special kiosk") <=> serving["special"] = p
         /\ Home(p, "plane") <=> p \in boarded

LEMMA HomesHere == HomesAre
BY DEF HomesAre, Home, Carrying

LEMMA HomesAfter == HomesAre'
BY HomesHere, PTL

LEMMA HomeNames == HomeName = Carrying \cup Other /\ \A k \in Other : k \notin Carrying
BY DEF HomeName, Carrying, Other

\* A passenger who is somewhere is nowhere else.
LEMMA HomeIs ==
  ASSUME NEW p \in Passenger, PassengerOK(p), NEW k \in HomeName, Home(p, k)
  PROVE  p \in Arrived /\ \A h \in HomeName : Home(p, h) <=> h = k
BY DEF PassengerOK, OneHome

\* A step that has nothing to do with a passenger.
Same(q) ==
  /\ q \in Arrived' <=> q \in Arrived
  /\ \A c : At(q, c)' <=> At(q, c)
  /\ \A k \in HomeName : Home(q, k)' <=> Home(q, k)
  /\ left'[q] = left[q] /\ right'[q] = right[q] /\ belt'[q] = belt[q]

LEMMA SameKeeps ==
  ASSUME NEW q \in Passenger, PassengerOK(q), Same(q)
  PROVE  PassengerOK(q)'
<1>1. OneHome(q)'
  BY DEF PassengerOK, OneHome, Same
<1>2. OneWalker(q)'
  BY HomeNames DEF PassengerOK, OneWalker, Same, Other
<1>3. OneErrand(q)'
  BY HomeNames DEF PassengerOK, OneErrand, Same, FirstTrip, Carrying, Other
<1>4. QED
  BY <1>1, <1>2, <1>3 DEF PassengerOK

\* The types, by what they are about.
QueueTypes ==
  /\ passenger \in Seq(Passenger) /\ boardingQueue \in Seq(Passenger)
  /\ specialPassenger \in Seq(Passenger) /\ securityQueue \in [Belt -> Seq(Passenger)]

SemTypes ==
  /\ sem \in [{"kioskEmpty", "kioskFull", "boardingFull", "specialKioskFull"} -> Nat]
  /\ beltEmpty \in [Belt -> Nat] /\ beltFull \in [Belt -> Nat]

LoopTypes ==
  /\ boarderCnt \in 0 .. TO_BE_BOARDED /\ boarded \subseteq Passenger
  /\ loop \in [Loop -> {"check", "wait", "serve", "exit"}]
  /\ beltLoop \in [Belt -> {"check", "wait", "exit"}]
  /\ serving \in [{"boarding", "special"} -> 0 .. TO_BE_BOARDED]

SignTypes ==
  /\ generated \in 0 .. TO_BE_BOARDED /\ inserting \in BOOLEAN
  /\ kioskNumber \in [1 .. M -> 1 .. M] /\ belt \in [Passenger -> 0 .. N]

Types == QueueTypes /\ SemTypes /\ LoopTypes /\ SignTypes /\ threads \subseteq Passenger \X Point

LEMMA TypesAre == TypeOK <=> Types /\ Channel!TypeOK
BY DEF TypeOK, Types, QueueTypes, SemTypes, LoopTypes, SignTypes

LEMMA TypesAfter == TypeOK' <=> Types' /\ Channel!TypeOK'
BY TypesAre, PTL

-----------------------------------------------------------------------------
(* What the airport knows of its channel. *)

ChannelOK == Lock!TypeOK /\ Lock!OneDirection

LEMMA ChannelIs ==
  ASSUME ChannelOK
  PROVE  /\ Channel!TypeOK
         /\ left \in [Passenger -> {"out", "wantRc", "wantDb", "wantExtra", "on"}]
         /\ right \in [Passenger -> {"out", "wantDb", "wantWc", "wantExtra", "on"}]
         /\ \A p, q \in Passenger : left[p] = "on" => right[q] # "on"
BY DEF ChannelOK, Lock!TypeOK, Channel!TypeOK, Lock!LeftPc, Channel!LeftPc, Lock!RightPc,
       Channel!RightPc, Lock!Mutexes, Channel!Mutexes, Lock!OneDirection, Lock!LeftIn, Lock!RightIn

LEMMA ChannelIsAfter == ChannelOK' => Channel!TypeOK'
<1>1. ChannelOK => Channel!TypeOK
  BY ChannelIs
<1>2. QED
  BY <1>1, PTL

-----------------------------------------------------------------------------
(* The invariant is kept, action by action. *)

\* What there is to prove of a step that is about one passenger.
LEMMA StepIs ==
  ASSUME AirportInv, ChannelOK', NEW p \in Passenger,
         Types', QueuesMatch', HallCounts', BeltCounts',
         \A q \in Passenger \ {p} : Same(q), PassengerOK(p)'
  PROVE  AirportInv'
<1>1. \A q \in Passenger \ {p} : PassengerOK(q)'
  BY SameKeeps DEF AirportInv
<1>2. TypeOK'
  BY ChannelIsAfter, TypesAfter
<1>3. QED
  BY <1>1, <1>2 DEF AirportInv

LEMMA OtherIs ==
  ASSUME NEW q \in Passenger,
         Queued(q, passenger') <=> Queued(q, passenger),
         \A b \in Belt : Queued(q, securityQueue'[b]) <=> Queued(q, securityQueue[b]),
         Queued(q, boardingQueue') <=> Queued(q, boardingQueue),
         Queued(q, specialPassenger') <=> Queued(q, specialPassenger),
         serving'["boarding"] = q <=> serving["boarding"] = q,
         serving'["special"] = q <=> serving["special"] = q,
         q \in boarded' <=> q \in boarded
  PROVE  \A k \in Other : Home(q, k)' <=> Home(q, k)
BY HomesHere, HomesAfter DEF HomesAre, Other

\* A step that changes neither the threads of a passenger nor the queues he is in.
LEMMA SameIs ==
  ASSUME NEW q \in Passenger,
         q \in Arrived' <=> q \in Arrived,
         \A c : At(q, c)' <=> At(q, c),
         Queued(q, passenger') <=> Queued(q, passenger),
         \A b \in Belt : Queued(q, securityQueue'[b]) <=> Queued(q, securityQueue[b]),
         Queued(q, boardingQueue') <=> Queued(q, boardingQueue),
         Queued(q, specialPassenger') <=> Queued(q, specialPassenger),
         serving'["boarding"] = q <=> serving["boarding"] = q,
         serving'["special"] = q <=> serving["special"] = q,
         q \in boarded' <=> q \in boarded,
         left'[q] = left[q], right'[q] = right[q], belt'[q] = belt[q]
  PROVE  Same(q)
<1>1. \A k \in Carrying : Home(q, k)' <=> Home(q, k)
  BY HomesHere, HomesAfter DEF HomesAre
<1>2. \A k \in Other : Home(q, k)' <=> Home(q, k)
  BY OtherIs
<1>3. QED
  BY <1>1, <1>2, HomeNames DEF Same

\* A passenger whose threads on the channel stay what they are.
LEMMA WalkerStays ==
  ASSUME NEW p \in Passenger, OneWalker(p), left'[p] = left[p], right'[p] = right[p],
         \A c \in LeftPoint \cup RightPoint : At(p, c)' <=> At(p, c),
         Home(p, "special queue")' \/ Home(p, "special kiosk")' => left[p] = "out",
         Home(p, "gate")' => right[p] = "out"
  PROVE  OneWalker(p)'
BY DEF OneWalker, LeftPoint, RightPoint

LEMMA HallStays ==
  ASSUME HallCounts, sem' = sem,
         Len(passenger') = Len(passenger), Len(boardingQueue') = Len(boardingQueue),
         Len(specialPassenger') = Len(specialPassenger),
         \A e \in {"postKioskFull", "postBoardingFull", "specialPost", "backPost", "checkIn",
                   "vipCheckIn"} : Number(e)' = Number(e)
  PROVE  HallCounts'
BY DEF HallCounts, KioskCount, GateCount, SpecialCount, KiosksCount

LEMMA BeltsStay ==
  ASSUME BeltCounts, UNCHANGED <<beltEmpty, beltFull, securityQueue>>,
         \A b \in Belt : /\ NumberOf(b, "postBeltFull")' = NumberOf(b, "postBeltFull")
                         /\ NumberOf(b, "scan")' = NumberOf(b, "scan")
  PROVE  BeltCounts'
BY DEF BeltCounts

\* What the step of a passenger's thread leaves alone, if it is in no queue.
LEMMA QueuesStay ==
  ASSUME NEW p \in Passenger,
         UNCHANGED <<queues, serving, boarded, generated, inserting, belt>>,
         \A q \in Passenger \ {p} : /\ left'[q] = left[q] /\ right'[q] = right[q]
                                   /\ \A c : At(q, c)' <=> At(q, c)
  PROVE  /\ \A q \in Passenger \ {p} : Same(q)
         /\ Arrived' = Arrived
         /\ \A k \in Other : Home(p, k)' <=> Home(p, k)
<1>1. Arrived' = Arrived
  BY DEF Arrived
<1>2. \A q \in Passenger \ {p} : Same(q)
  BY <1>1, SameIs DEF queues
<1>3. \A k \in Other : Home(p, k)' <=> Home(p, k)
  BY OtherIs DEF queues
<1>4. QED
  BY <1>1, <1>2, <1>3

\* A passenger who changes homes has one again.
LEMMA HomeMoves ==
  ASSUME NEW p \in Passenger, p \in Arrived', NEW h \in HomeName,
         \A g \in HomeName : Home(p, g)' <=> g = h
  PROVE  OneHome(p)'
BY DEF OneHome

LEMMA HomeStays ==
  ASSUME NEW p \in Passenger, OneHome(p), Arrived' = Arrived,
         \A g \in HomeName : Home(p, g)' <=> Home(p, g)
  PROVE  OneHome(p)'
BY DEF OneHome

LEMMA LeftChanges ==
  ASSUME ChannelOK, NEW p \in Passenger, NEW v, left' = [left EXCEPT ![p] = v], right' = right
  PROVE  /\ left'[p] = v /\ right'[p] = right[p]
         /\ \A q \in Passenger \ {p} : left'[q] = left[q] /\ right'[q] = right[q]
BY ChannelIs

LEMMA RightChanges ==
  ASSUME ChannelOK, NEW p \in Passenger, NEW v, right' = [right EXCEPT ![p] = v], left' = left
  PROVE  /\ right'[p] = v /\ left'[p] = left[p]
         /\ \A q \in Passenger \ {p} : left'[q] = left[q] /\ right'[q] = right[q]
BY ChannelIs

\* A thread that has nobody with it posts a semaphore and ends.
LEMMA PosterEnds ==
  ASSUME AirportInv, NEW p \in Passenger,
         NEW c \in {"postKioskFull", "postBeltFull", "postBoardingFull"},
         At(p, c), Exit(p, c),
         UNCHANGED <<queues, arrivals, signs, gate, loops, cvars>>, SemTypes'
  PROVE  /\ Types' /\ QueuesMatch' /\ Ended(p, c)
         /\ \A q \in Passenger \ {p} : Same(q)
         /\ PassengerOK(p)'
<1> USE DEF arrivals, signs, gate, loops, cvars
<1>1. Types /\ QueuesMatch /\ PassengerOK(p)
  BY TypesAre DEF AirportInv
<1>2. Ended(p, c)
  BY <1>1, ThreadEnds DEF Types
<1>3. \A q, e : At(q, e)' <=> At(q, e) /\ ~(q = p /\ e = c)
  BY <1>2 DEF Ended
<1>4. /\ \A q \in Passenger \ {p} : Same(q)
      /\ Arrived' = Arrived
      /\ \A k \in Other : Home(p, k)' <=> Home(p, k)
  BY <1>3, QueuesStay
<1>5. \A k \in HomeName : Home(p, k)' <=> Home(p, k)
  <2>1. \A k \in Carrying : Home(p, k)' <=> Home(p, k)
    BY <1>3, HomesHere, HomesAfter DEF HomesAre, Carrying
  <2>2. QED
    BY <1>4, <2>1, HomeNames
<1>6. OneHome(p)'
  BY <1>1, <1>4, <1>5, HomeStays DEF PassengerOK
<1>7. OneWalker(p)'
  <2>1. \A d \in LeftPoint \cup RightPoint : At(p, d)' <=> At(p, d)
    BY <1>3 DEF LeftPoint, RightPoint
  <2>2. OneWalker(p)
    BY <1>1 DEF PassengerOK
  <2>3. /\ Home(p, "special queue") \/ Home(p, "special kiosk") => left[p] = "out"
        /\ Home(p, "gate") => right[p] = "out"
    BY <2>2 DEF OneWalker
  <2>4. QED
    BY <1>4, <2>1, <2>2, <2>3, WalkerStays DEF Other
<1>8. OneErrand(p)'
  BY <1>1, <1>3, <1>4, <1>5 DEF PassengerOK, OneErrand, FirstTrip, HomeName, Carrying
<1>9. Types'
  BY <1>1, <1>2 DEF Types, QueueTypes, LoopTypes, SignTypes, Ended, queues
<1>10. QueuesMatch'
  BY <1>1 DEF QueuesMatch, queues
<1>11. QED
  BY <1>2, <1>4, <1>6, <1>7, <1>8, <1>9, <1>10 DEF PassengerOK

LEMMA EnterPostKeeps ==
  ASSUME AirportInv, ChannelOK', NEW p \in Passenger, EnterPost(p)
  PROVE  AirportInv'
<1>1. /\ At(p, "postKioskFull") /\ Exit(p, "postKioskFull")
      /\ sem' = [sem EXCEPT !["kioskFull"] = @ + 1]
      /\ UNCHANGED <<queues, beltEmpty, beltFull, arrivals, signs, gate, loops, cvars>>
  BY DEF EnterPost, Post
<1>2. Types /\ HallCounts /\ BeltCounts
  BY TypesAre DEF AirportInv
<1>3. SemTypes'
  BY <1>1, <1>2 DEF Types, SemTypes
<1>4. /\ Types' /\ QueuesMatch' /\ Ended(p, "postKioskFull")
      /\ \A q \in Passenger \ {p} : Same(q)
      /\ PassengerOK(p)'
  BY <1>1, <1>3, PosterEnds
<1>5. HallCounts'
  <2>1. /\ sem'["kioskFull"] = sem["kioskFull"] + 1 /\ sem'["boardingFull"] = sem["boardingFull"]
        /\ sem'["specialKioskFull"] = sem["specialKioskFull"]
        /\ sem'["kioskEmpty"] = sem["kioskEmpty"] /\ sem["kioskFull"] \in Nat
    BY <1>1, <1>2 DEF Types, SemTypes
  <2>2. /\ Number("postKioskFull")' = Number("postKioskFull") - 1
        /\ Number("postKioskFull") \in Nat
        /\ \A e \in {"postBoardingFull", "specialPost", "backPost", "checkIn", "vipCheckIn"} :
             Number(e)' = Number(e)
    BY <1>4 DEF Ended
  <2>3. /\ passenger' = passenger /\ boardingQueue' = boardingQueue
        /\ specialPassenger' = specialPassenger
    BY <1>1 DEF queues
  <2>4. KioskCount'
    BY <1>2, <2>1, <2>2, <2>3 DEF HallCounts, KioskCount
  <2>5. GateCount' /\ SpecialCount' /\ KiosksCount'
    BY <1>2, <2>1, <2>2, <2>3 DEF HallCounts, GateCount, SpecialCount, KiosksCount
  <2>6. QED
    BY <2>4, <2>5 DEF HallCounts
<1>6. BeltCounts'
  BY <1>1, <1>2, <1>4, BeltsStay DEF Ended, queues, signs
<1>7. QED
  BY <1>4, <1>5, <1>6, StepIs

LEMMA GatePostKeeps ==
  ASSUME AirportInv, ChannelOK', NEW p \in Passenger, GatePost(p)
  PROVE  AirportInv'
<1>1. /\ At(p, "postBoardingFull") /\ Exit(p, "postBoardingFull")
      /\ sem' = [sem EXCEPT !["boardingFull"] = @ + 1]
      /\ UNCHANGED <<queues, beltEmpty, beltFull, arrivals, signs, gate, loops, cvars>>
  BY DEF GatePost, Post
<1>2. Types /\ HallCounts /\ BeltCounts
  BY TypesAre DEF AirportInv
<1>3. SemTypes'
  BY <1>1, <1>2 DEF Types, SemTypes
<1>4. /\ Types' /\ QueuesMatch' /\ Ended(p, "postBoardingFull")
      /\ \A q \in Passenger \ {p} : Same(q)
      /\ PassengerOK(p)'
  BY <1>1, <1>3, PosterEnds
<1>5. HallCounts'
  <2>1. /\ sem'["kioskFull"] = sem["kioskFull"] /\ sem'["boardingFull"] = sem["boardingFull"] + 1
        /\ sem'["specialKioskFull"] = sem["specialKioskFull"]
        /\ sem'["kioskEmpty"] = sem["kioskEmpty"] /\ sem["boardingFull"] \in Nat
    BY <1>1, <1>2 DEF Types, SemTypes
  <2>2. /\ Number("postBoardingFull")' = Number("postBoardingFull") - 1
        /\ Number("postBoardingFull") \in Nat /\ Number("specialPost") \in Nat
        /\ \A e \in {"postKioskFull", "specialPost", "backPost", "checkIn", "vipCheckIn"} :
             Number(e)' = Number(e)
    BY <1>4 DEF Ended
  <2>3. /\ passenger' = passenger /\ boardingQueue' = boardingQueue
        /\ specialPassenger' = specialPassenger
    BY <1>1 DEF queues
  <2>4. GateCount'
    BY <1>2, <2>1, <2>2, <2>3 DEF HallCounts, GateCount
  <2>5. KioskCount' /\ SpecialCount' /\ KiosksCount'
    BY <1>2, <2>1, <2>2, <2>3 DEF HallCounts, KioskCount, SpecialCount, KiosksCount
  <2>6. QED
    BY <2>4, <2>5 DEF HallCounts
<1>6. BeltCounts'
  BY <1>1, <1>2, <1>4, BeltsStay DEF Ended, queues, signs
<1>7. QED
  BY <1>4, <1>5, <1>6, StepIs

\* What a passenger at a belt knows of it.
LEMMA BeltHere ==
  ASSUME AirportInv, NEW p \in Passenger, NEW c \in {"checkIn", "wantBelt", "postBeltFull", "scan"},
         At(p, c)
  PROVE  belt[p] \in Belt
BY DEF AirportInv, PassengerOK, OneErrand

LEMMA KioskProducePostKeeps ==
  ASSUME AirportInv, ChannelOK', NEW p \in Passenger, KioskProducePost(p)
  PROVE  AirportInv'
<1>1. /\ At(p, "postBeltFull") /\ Exit(p, "postBeltFull")
      /\ beltFull' = [beltFull EXCEPT ![belt[p]] = @ + 1]
      /\ UNCHANGED <<queues, sem, beltEmpty, arrivals, signs, gate, loops, cvars>>
  BY DEF KioskProducePost
<1>2. Types /\ HallCounts /\ BeltCounts /\ belt[p] \in Belt
  BY <1>1, TypesAre, BeltHere DEF AirportInv
<1>3. SemTypes'
  BY <1>1, <1>2 DEF Types, SemTypes
<1>4. /\ Types' /\ QueuesMatch' /\ Ended(p, "postBeltFull")
      /\ \A q \in Passenger \ {p} : Same(q)
      /\ PassengerOK(p)'
  BY <1>1, <1>3, PosterEnds
<1>5. HallCounts'
  BY <1>1, <1>2, <1>4, HallStays DEF Ended, queues
<1>6. BeltCounts'
  <2> SUFFICES ASSUME NEW b \in Belt
               PROVE  /\ Len(securityQueue'[b]) = beltFull'[b] + NumberOf(b, "postBeltFull")'
                      /\ beltEmpty'[b] + Len(securityQueue'[b]) + NumberOf(b, "scan")' = P
    BY DEF BeltCounts
  <2>1. /\ Len(securityQueue[b]) = beltFull[b] + NumberOf(b, "postBeltFull")
        /\ beltEmpty[b] + Len(securityQueue[b]) + NumberOf(b, "scan") = P
    BY <1>2 DEF BeltCounts
  <2>2. /\ NumberOf(b, "postBeltFull") \in Nat /\ NumberOf(b, "scan")' = NumberOf(b, "scan")
        /\ NumberOf(b, "postBeltFull")' = IF belt[p] = b THEN NumberOf(b, "postBeltFull") - 1
                                          ELSE NumberOf(b, "postBeltFull")
    BY <1>1, <1>4 DEF Ended, signs
  <2>3. /\ beltFull[b] \in Nat /\ securityQueue' = securityQueue /\ beltEmpty' = beltEmpty
        /\ beltFull'[b] = IF belt[p] = b THEN beltFull[b] + 1 ELSE beltFull[b]
    BY <1>1, <1>2 DEF Types, SemTypes, queues
  <2>4. QED
    BY <2>1, <2>2, <2>3
<1>7. QED
  BY <1>4, <1>5, <1>6, StepIs

\* A thread that walks and has nobody with it posts a semaphore, still on its way.
LEMMA WalkerPosts ==
  ASSUME AirportInv, NEW p \in Passenger, NEW c, NEW d,
         \/ c = "specialPost" /\ d = "specialLeave"
         \/ c = "backPost" /\ d = "backLeave",
         At(p, c), Goto(p, c, d),
         UNCHANGED <<queues, arrivals, signs, gate, loops, cvars>>, SemTypes'
  PROVE  /\ Types' /\ QueuesMatch' /\ Moved(p, c, d)
         /\ \A q \in Passenger \ {p} : Same(q)
         /\ PassengerOK(p)'
<1> USE DEF arrivals, signs, gate, loops, cvars
<1>1. Types /\ QueuesMatch /\ PassengerOK(p)
  BY TypesAre DEF AirportInv
<1>2. OneWalker(p) /\ c # d /\ d \in Point /\ c \notin Carrying /\ d \notin Carrying
  BY <1>1 DEF PassengerOK, Point, Carrying
<1>3. ~At(p, d)
  BY <1>2 DEF OneWalker, LeftPoint, RightPoint
<1>4. Moved(p, c, d)
  BY <1>1, <1>2, <1>3, ThreadGoes DEF Types
<1>5. \A q, e : At(q, e)' <=> IF q = p /\ e \in {c, d} THEN e = d ELSE At(q, e)
  BY <1>4 DEF Moved
<1>6. /\ \A q \in Passenger \ {p} : Same(q)
      /\ Arrived' = Arrived
      /\ \A k \in Other : Home(p, k)' <=> Home(p, k)
  BY <1>5, QueuesStay
<1>7. \A k \in HomeName : Home(p, k)' <=> Home(p, k)
  <2>1. \A k \in Carrying : Home(p, k)' <=> Home(p, k)
    BY <1>2, <1>5, HomesHere, HomesAfter DEF HomesAre
  <2>2. QED
    BY <1>6, <2>1, HomeNames
<1>8. OneHome(p)'
  BY <1>1, <1>6, <1>7, HomeStays DEF PassengerOK
<1>9. OneWalker(p)'
  <2>1. left'[p] = left[p] /\ right'[p] = right[p]
    OBVIOUS
  <2>2. /\ \A e, f \in LeftPoint : At(p, e)' /\ At(p, f)' => e = f
        /\ \A e, f \in RightPoint : At(p, e)' /\ At(p, f)' => e = f
    BY <2>1, <1>2, <1>5 DEF OneWalker, LeftPoint, RightPoint
  <2>3. /\ At(p, "specialPost")' \/ At(p, "specialLeave")' => left'[p] = "on"
        /\ At(p, "backPost")' \/ At(p, "backLeave")' => right'[p] = "on"
    BY <2>1, <1>2, <1>5 DEF OneWalker
  <2>4. /\ Home(p, "special queue")' \/ Home(p, "special kiosk")' => left'[p] = "out"
        /\ Home(p, "gate")' => right'[p] = "out"
    BY <2>1, <1>2, <1>6 DEF OneWalker, Other
  <2>5. /\ left'[p] # "out" <=> \E e \in LeftPoint : At(p, e)'
        /\ right'[p] # "out" <=> \E e \in RightPoint : At(p, e)'
    BY <2>1, <1>2, <1>5 DEF OneWalker, LeftPoint, RightPoint
  <2>6. QED
    BY <2>2, <2>3, <2>4, <2>5 DEF OneWalker
<1>10. OneErrand(p)'
  <2>1. OneErrand(p)
    BY <1>1 DEF PassengerOK
  <2>2. \A e \in {"postKioskFull", "postBeltFull", "postBoardingFull", "checkIn", "wantBelt",
                  "scan"} : At(p, e)' <=> At(p, e)
    BY <1>5
  <2>3. p \notin Arrived' => \A e \in Point : ~At(p, e)'
    BY <1>2, <1>5, <1>6, <2>1 DEF OneErrand, Point
  <2>4. QED
    BY <1>6, <1>7, <2>1, <2>2, <2>3 DEF OneErrand, FirstTrip, HomeName, Carrying
<1>11. Types'
  BY <1>1, <1>4 DEF Types, QueueTypes, LoopTypes, SignTypes, Moved, queues
<1>12. QueuesMatch'
  BY <1>1 DEF QueuesMatch, queues
<1>13. QED
  BY <1>4, <1>6, <1>8, <1>9, <1>10, <1>11, <1>12 DEF PassengerOK

LEMMA SpecialPostKeeps ==
  ASSUME AirportInv, ChannelOK', NEW p \in Passenger, SpecialPost(p)
  PROVE  AirportInv'
<1>1. /\ At(p, "specialPost") /\ Goto(p, "specialPost", "specialLeave")
      /\ sem' = [sem EXCEPT !["boardingFull"] = @ + 1]
      /\ UNCHANGED <<queues, beltEmpty, beltFull, arrivals, signs, gate, loops, cvars>>
  BY DEF SpecialPost, Post
<1>2. Types /\ HallCounts /\ BeltCounts
  BY TypesAre DEF AirportInv
<1>3. SemTypes'
  BY <1>1, <1>2 DEF Types, SemTypes
<1>4. /\ Types' /\ QueuesMatch' /\ Moved(p, "specialPost", "specialLeave")
      /\ \A q \in Passenger \ {p} : Same(q)
      /\ PassengerOK(p)'
  BY <1>1, <1>3, WalkerPosts
<1>5. HallCounts'
  <2>1. /\ sem'["kioskFull"] = sem["kioskFull"] /\ sem'["boardingFull"] = sem["boardingFull"] + 1
        /\ sem'["specialKioskFull"] = sem["specialKioskFull"]
        /\ sem'["kioskEmpty"] = sem["kioskEmpty"] /\ sem["boardingFull"] \in Nat
    BY <1>1, <1>2 DEF Types, SemTypes
  <2>2. /\ Number("specialPost")' = Number("specialPost") - 1
        /\ Number("postBoardingFull") \in Nat /\ Number("specialPost") \in Nat
        /\ \A e \in {"postKioskFull", "postBoardingFull", "backPost", "checkIn", "vipCheckIn"} :
             Number(e)' = Number(e)
    BY <1>4 DEF Moved
  <2>3. /\ passenger' = passenger /\ boardingQueue' = boardingQueue
        /\ specialPassenger' = specialPassenger
    BY <1>1 DEF queues
  <2>4. GateCount'
    BY <1>2, <2>1, <2>2, <2>3 DEF HallCounts, GateCount
  <2>5. KioskCount' /\ SpecialCount' /\ KiosksCount'
    BY <1>2, <2>1, <2>2, <2>3 DEF HallCounts, KioskCount, SpecialCount, KiosksCount
  <2>6. QED
    BY <2>4, <2>5 DEF HallCounts
<1>6. BeltCounts'
  BY <1>1, <1>2, <1>4, BeltsStay DEF Moved, queues, signs
<1>7. QED
  BY <1>4, <1>5, <1>6, StepIs

LEMMA BackPostKeeps ==
  ASSUME AirportInv, ChannelOK', NEW p \in Passenger, BackPost(p)
  PROVE  AirportInv'
<1>1. /\ At(p, "backPost") /\ Goto(p, "backPost", "backLeave")
      /\ sem' = [sem EXCEPT !["specialKioskFull"] = @ + 1]
      /\ UNCHANGED <<queues, beltEmpty, beltFull, arrivals, signs, gate, loops, cvars>>
  BY DEF BackPost, Post
<1>2. Types /\ HallCounts /\ BeltCounts
  BY TypesAre DEF AirportInv
<1>3. SemTypes'
  BY <1>1, <1>2 DEF Types, SemTypes
<1>4. /\ Types' /\ QueuesMatch' /\ Moved(p, "backPost", "backLeave")
      /\ \A q \in Passenger \ {p} : Same(q)
      /\ PassengerOK(p)'
  BY <1>1, <1>3, WalkerPosts
<1>5. HallCounts'
  <2>1. /\ sem'["kioskFull"] = sem["kioskFull"] /\ sem'["boardingFull"] = sem["boardingFull"]
        /\ sem'["specialKioskFull"] = sem["specialKioskFull"] + 1
        /\ sem'["kioskEmpty"] = sem["kioskEmpty"] /\ sem["specialKioskFull"] \in Nat
    BY <1>1, <1>2 DEF Types, SemTypes
  <2>2. /\ Number("backPost")' = Number("backPost") - 1 /\ Number("backPost") \in Nat
        /\ \A e \in {"postKioskFull", "postBoardingFull", "specialPost", "checkIn", "vipCheckIn"} :
             Number(e)' = Number(e)
    BY <1>4 DEF Moved
  <2>3. /\ passenger' = passenger /\ boardingQueue' = boardingQueue
        /\ specialPassenger' = specialPassenger
    BY <1>1 DEF queues
  <2>4. SpecialCount'
    BY <1>2, <2>1, <2>2, <2>3 DEF HallCounts, SpecialCount
  <2>5. KioskCount' /\ GateCount' /\ KiosksCount'
    BY <1>2, <2>1, <2>2, <2>3 DEF HallCounts, KioskCount, GateCount, KiosksCount
  <2>6. QED
    BY <2>4, <2>5 DEF HallCounts
<1>6. BeltCounts'
  BY <1>1, <1>2, <1>4, BeltsStay DEF Moved, queues, signs
<1>7. QED
  BY <1>4, <1>5, <1>6, StepIs

\* A thread goes on with the passenger it has.
LEMMA CarrierGoes ==
  ASSUME AirportInv, NEW p \in Passenger, NEW c \in Carrying, NEW d \in Carrying \cap Point, c # d,
         At(p, c), Goto(p, c, d),
         UNCHANGED <<queues, arrivals, signs, gate, loops>>, SemTypes',
         \A q \in Passenger \ {p} : left'[q] = left[q] /\ right'[q] = right[q]
  PROVE  /\ Types' /\ QueuesMatch' /\ Moved(p, c, d)
         /\ \A q \in Passenger \ {p} : Same(q)
         /\ p \in Arrived /\ Arrived' = Arrived /\ OneHome(p)'
         /\ \A h \in HomeName : Home(p, h) <=> h = c
         /\ \A h \in HomeName : Home(p, h)' <=> h = d
<1> USE DEF arrivals, signs, gate, loops
<1>1. Types /\ QueuesMatch /\ PassengerOK(p) /\ c \in HomeName /\ d \in HomeName
  BY TypesAre, HomeNames DEF AirportInv
<1>2. p \in Arrived /\ \A h \in HomeName : Home(p, h) <=> h = c
  BY <1>1, HomesHere, HomeIs DEF HomesAre
<1>3. Moved(p, c, d)
  <2>1. ~At(p, d)
    BY <1>1, <1>2, HomesHere DEF HomesAre
  <2>2. QED
    BY <1>1, <2>1, ThreadGoes DEF Types
<1>4. \A q, e : At(q, e)' <=> IF q = p /\ e \in {c, d} THEN e = d ELSE At(q, e)
  BY <1>3 DEF Moved
<1>5. /\ \A q \in Passenger \ {p} : Same(q)
      /\ Arrived' = Arrived
      /\ \A k \in Other : Home(p, k)' <=> Home(p, k)
  BY <1>4, QueuesStay
<1>6. \A h \in HomeName : Home(p, h)' <=> h = d
  <2>1. \A h \in Carrying : Home(p, h)' <=> h = d
    BY <1>2, <1>4, HomesHere, HomesAfter, HomeNames DEF HomesAre
  <2>2. \A h \in Other : ~Home(p, h)' /\ h # d
    BY <1>2, <1>5, HomeNames
  <2>3. QED
    BY <2>1, <2>2, HomeNames
<1>7. OneHome(p)'
  BY <1>1, <1>2, <1>5, <1>6, HomeMoves
<1>8. Types'
  BY <1>1, <1>3 DEF Types, QueueTypes, LoopTypes, SignTypes, Moved, queues
<1>9. QueuesMatch'
  BY <1>1 DEF QueuesMatch, queues
<1>10. QED
  BY <1>2, <1>3, <1>5, <1>6, <1>7, <1>8, <1>9

LEMMA KioskProduceFreeKeeps ==
  ASSUME AirportInv, ChannelOK', NEW p \in Passenger, KioskProduceFree(p)
  PROVE  AirportInv'
<1>1. /\ At(p, "checkIn") /\ Goto(p, "checkIn", "wantBelt")
      /\ sem' = [sem EXCEPT !["kioskEmpty"] = @ + 1]
      /\ UNCHANGED <<queues, beltEmpty, beltFull, arrivals, signs, gate, loops, cvars>>
  BY DEF KioskProduceFree, Post
<1>2. Types /\ HallCounts /\ BeltCounts /\ PassengerOK(p)
  BY TypesAre DEF AirportInv
<1>3. SemTypes'
  BY <1>1, <1>2 DEF Types, SemTypes
<1>4. /\ Types' /\ QueuesMatch' /\ Moved(p, "checkIn", "wantBelt")
      /\ \A q \in Passenger \ {p} : Same(q)
      /\ p \in Arrived /\ Arrived' = Arrived /\ OneHome(p)'
      /\ \A h \in HomeName : Home(p, h) <=> h = "checkIn"
      /\ \A h \in HomeName : Home(p, h)' <=> h = "wantBelt"
  BY <1>1, <1>3, CarrierGoes DEF Carrying, Point, cvars
<1>5. \A e : At(p, e)' <=> IF e \in {"checkIn", "wantBelt"} THEN e = "wantBelt" ELSE At(p, e)
  BY <1>4 DEF Moved
<1>6. PassengerOK(p)'
  <2>1. OneWalker(p)'
    <3>1. \A c \in LeftPoint \cup RightPoint : At(p, c)' <=> At(p, c)
      BY <1>5 DEF LeftPoint, RightPoint
    <3>2. QED
      BY <1>1, <1>2, <1>4, <3>1, HomeNames, WalkerStays DEF PassengerOK, Other, cvars
  <2>2. OneErrand(p)'
    BY <1>1, <1>2, <1>4, <1>5 DEF PassengerOK, OneErrand, FirstTrip, HomeName, Carrying, signs, cvars
  <2>3. QED
    BY <1>4, <2>1, <2>2 DEF PassengerOK
<1>7. HallCounts'
  <2>1. /\ sem'["kioskFull"] = sem["kioskFull"] /\ sem'["boardingFull"] = sem["boardingFull"]
        /\ sem'["specialKioskFull"] = sem["specialKioskFull"]
        /\ sem'["kioskEmpty"] = sem["kioskEmpty"] + 1 /\ sem["kioskEmpty"] \in Nat
    BY <1>1, <1>2 DEF Types, SemTypes
  <2>2. /\ Number("checkIn")' = Number("checkIn") - 1 /\ Number("checkIn") \in Nat
        /\ Number("vipCheckIn") \in Nat
        /\ \A e \in {"postKioskFull", "postBoardingFull", "specialPost", "backPost", "vipCheckIn"} :
             Number(e)' = Number(e)
    BY <1>4 DEF Moved
  <2>3. /\ passenger' = passenger /\ boardingQueue' = boardingQueue
        /\ specialPassenger' = specialPassenger /\ Len(passenger) \in Nat
    BY <1>1, <1>2, LenProperties DEF queues, Types, QueueTypes
  <2>4. KiosksCount'
    BY <1>2, <2>1, <2>2, <2>3 DEF HallCounts, KiosksCount
  <2>5. KioskCount' /\ GateCount' /\ SpecialCount'
    BY <1>2, <2>1, <2>2, <2>3 DEF HallCounts, KioskCount, GateCount, SpecialCount
  <2>6. QED
    BY <2>4, <2>5 DEF HallCounts
<1>8. BeltCounts'
  BY <1>1, <1>2, <1>4, BeltsStay DEF Moved, queues, signs
<1>9. QED
  BY <1>4, <1>6, <1>7, <1>8, StepIs

LEMMA SecurityFreeKeeps ==
  ASSUME AirportInv, ChannelOK', NEW p \in Passenger, SecurityFree(p)
  PROVE  AirportInv'
<1>1. /\ At(p, "scan") /\ Goto(p, "scan", "toGate")
      /\ beltEmpty' = [beltEmpty EXCEPT ![belt[p]] = @ + 1]
      /\ UNCHANGED <<queues, sem, beltFull, arrivals, signs, gate, loops, cvars>>
  BY DEF SecurityFree
<1>2. Types /\ HallCounts /\ BeltCounts /\ PassengerOK(p) /\ belt[p] \in Belt
  BY <1>1, TypesAre, BeltHere DEF AirportInv
<1>3. SemTypes'
  BY <1>1, <1>2 DEF Types, SemTypes
<1>4. /\ Types' /\ QueuesMatch' /\ Moved(p, "scan", "toGate")
      /\ \A q \in Passenger \ {p} : Same(q)
      /\ p \in Arrived /\ Arrived' = Arrived /\ OneHome(p)'
      /\ \A h \in HomeName : Home(p, h) <=> h = "scan"
      /\ \A h \in HomeName : Home(p, h)' <=> h = "toGate"
  BY <1>1, <1>3, CarrierGoes DEF Carrying, Point, cvars
<1>5. \A e : At(p, e)' <=> IF e \in {"scan", "toGate"} THEN e = "toGate" ELSE At(p, e)
  BY <1>4 DEF Moved
<1>6. PassengerOK(p)'
  <2>1. OneWalker(p)'
    <3>1. \A c \in LeftPoint \cup RightPoint : At(p, c)' <=> At(p, c)
      BY <1>5 DEF LeftPoint, RightPoint
    <3>2. QED
      BY <1>1, <1>2, <1>4, <3>1, HomeNames, WalkerStays DEF PassengerOK, Other, cvars
  <2>2. OneErrand(p)'
    BY <1>1, <1>2, <1>4, <1>5 DEF PassengerOK, OneErrand, FirstTrip, HomeName, Carrying, signs, cvars
  <2>3. QED
    BY <1>4, <2>1, <2>2 DEF PassengerOK
<1>7. HallCounts'
  BY <1>1, <1>2, <1>4, HallStays DEF Moved, queues
<1>8. BeltCounts'
  <2> SUFFICES ASSUME NEW b \in Belt
               PROVE  /\ Len(securityQueue'[b]) = beltFull'[b] + NumberOf(b, "postBeltFull")'
                      /\ beltEmpty'[b] + Len(securityQueue'[b]) + NumberOf(b, "scan")' = P
    BY DEF BeltCounts
  <2>1. /\ Len(securityQueue[b]) = beltFull[b] + NumberOf(b, "postBeltFull")
        /\ beltEmpty[b] + Len(securityQueue[b]) + NumberOf(b, "scan") = P
    BY <1>2 DEF BeltCounts
  <2>2. /\ NumberOf(b, "scan") \in Nat /\ NumberOf(b, "postBeltFull")' = NumberOf(b, "postBeltFull")
        /\ NumberOf(b, "scan")' = IF belt[p] = b THEN NumberOf(b, "scan") - 1
                                  ELSE NumberOf(b, "scan")
    BY <1>1, <1>4 DEF Moved, signs
  <2>3. /\ beltEmpty[b] \in Nat /\ securityQueue' = securityQueue /\ beltFull' = beltFull
        /\ beltEmpty'[b] = IF belt[p] = b THEN beltEmpty[b] + 1 ELSE beltEmpty[b]
    BY <1>1, <1>2 DEF Types, SemTypes, queues
  <2>4. Len(securityQueue[b]) \in Nat
    BY <1>2, LenProperties DEF Types, QueueTypes
  <2>5. QED
    BY <2>1, <2>2, <2>3, <2>4
<1>9. QED
  BY <1>4, <1>6, <1>7, <1>8, StepIs

LEMMA VipFreeKeeps ==
  ASSUME AirportInv, ChannelOK, ChannelOK', NEW p \in Passenger, VipFree(p)
  PROVE  AirportInv'
<1>1. /\ At(p, "vipCheckIn") /\ Goto(p, "vipCheckIn", "vip")
      /\ sem' = [sem EXCEPT !["kioskEmpty"] = @ + 1]
      /\ left[p] = "out" /\ left' = [left EXCEPT ![p] = "wantRc"] /\ right' = right
      /\ UNCHANGED <<queues, beltEmpty, beltFull, arrivals, signs, gate, loops>>
  BY DEF VipFree, Post, Channel!LeftArrive
<1>2. Types /\ HallCounts /\ BeltCounts /\ PassengerOK(p)
  BY TypesAre DEF AirportInv
<1>3. /\ left'[p] = "wantRc" /\ right'[p] = right[p] /\ SemTypes'
      /\ \A q \in Passenger \ {p} : left'[q] = left[q] /\ right'[q] = right[q]
  <2>1. SemTypes'
    BY <1>1, <1>2 DEF Types, SemTypes
  <2>2. QED
    BY <1>1, <2>1, LeftChanges
<1>4. /\ Types' /\ QueuesMatch' /\ Moved(p, "vipCheckIn", "vip")
      /\ \A q \in Passenger \ {p} : Same(q)
      /\ p \in Arrived /\ Arrived' = Arrived /\ OneHome(p)'
      /\ \A h \in HomeName : Home(p, h) <=> h = "vipCheckIn"
      /\ \A h \in HomeName : Home(p, h)' <=> h = "vip"
  BY <1>1, <1>3, CarrierGoes DEF Carrying, Point
<1>5. \A e : At(p, e)' <=> IF e \in {"vipCheckIn", "vip"} THEN e = "vip" ELSE At(p, e)
  BY <1>4 DEF Moved
<1>6. PassengerOK(p)'
  <2>1. OneWalker(p)'
    <3>1. \A c \in LeftPoint : At(p, c)' <=> c = "vip"
      BY <1>1, <1>2, <1>5 DEF PassengerOK, OneWalker, LeftPoint
    <3>2. \A c \in RightPoint : At(p, c)' <=> At(p, c)
      BY <1>5 DEF RightPoint
    <3>3. /\ ~Home(p, "special queue")' /\ ~Home(p, "special kiosk")' /\ ~Home(p, "gate")'
      BY <1>4, HomeNames DEF Other, Carrying
    <3>4. QED
      BY <1>2, <1>3, <3>1, <3>2, <3>3 DEF PassengerOK, OneWalker, LeftPoint, RightPoint
  <2>2. OneErrand(p)'
    BY <1>1, <1>2, <1>3, <1>4, <1>5 DEF PassengerOK, OneErrand, FirstTrip, HomeName, Carrying, signs
  <2>3. QED
    BY <1>4, <2>1, <2>2 DEF PassengerOK
<1>7. HallCounts'
  <2>1. /\ sem'["kioskFull"] = sem["kioskFull"] /\ sem'["boardingFull"] = sem["boardingFull"]
        /\ sem'["specialKioskFull"] = sem["specialKioskFull"]
        /\ sem'["kioskEmpty"] = sem["kioskEmpty"] + 1 /\ sem["kioskEmpty"] \in Nat
    BY <1>1, <1>2 DEF Types, SemTypes
  <2>2. /\ Number("vipCheckIn")' = Number("vipCheckIn") - 1 /\ Number("vipCheckIn") \in Nat
        /\ Number("checkIn") \in Nat
        /\ \A e \in {"postKioskFull", "postBoardingFull", "specialPost", "backPost", "checkIn"} :
             Number(e)' = Number(e)
    BY <1>4 DEF Moved
  <2>3. /\ passenger' = passenger /\ boardingQueue' = boardingQueue
        /\ specialPassenger' = specialPassenger /\ Len(passenger) \in Nat
    BY <1>1, <1>2, LenProperties DEF queues, Types, QueueTypes
  <2>4. KiosksCount'
    BY <1>2, <2>1, <2>2, <2>3 DEF HallCounts, KiosksCount
  <2>5. KioskCount' /\ GateCount' /\ SpecialCount'
    BY <1>2, <2>1, <2>2, <2>3 DEF HallCounts, KioskCount, GateCount, SpecialCount
  <2>6. QED
    BY <2>4, <2>5 DEF HallCounts
<1>8. BeltCounts'
  BY <1>1, <1>2, <1>4, BeltsStay DEF Moved, queues, signs
<1>9. QED
  BY <1>4, <1>6, <1>7, <1>8, StepIs

LEMMA VipLeaveKeeps ==
  ASSUME AirportInv, ChannelOK, ChannelOK', NEW p \in Passenger, VipLeave(p)
  PROVE  AirportInv'
<1>1. /\ At(p, "vip") /\ Goto(p, "vip", "toGate")
      /\ left[p] = "on" /\ left' = [left EXCEPT ![p] = "out"] /\ right' = right
      /\ UNCHANGED <<queues, sems, arrivals, signs, gate, loops>>
  BY DEF VipLeave, Channel!LeftLeave
<1>2. Types /\ HallCounts /\ BeltCounts /\ PassengerOK(p)
  BY TypesAre DEF AirportInv
<1>3. /\ left'[p] = "out" /\ right'[p] = right[p] /\ SemTypes'
      /\ \A q \in Passenger \ {p} : left'[q] = left[q] /\ right'[q] = right[q]
  BY <1>1, <1>2, LeftChanges DEF Types, SemTypes, sems
<1>4. /\ Types' /\ QueuesMatch' /\ Moved(p, "vip", "toGate")
      /\ \A q \in Passenger \ {p} : Same(q)
      /\ p \in Arrived /\ Arrived' = Arrived /\ OneHome(p)'
      /\ \A h \in HomeName : Home(p, h) <=> h = "vip"
      /\ \A h \in HomeName : Home(p, h)' <=> h = "toGate"
  BY <1>1, <1>3, CarrierGoes DEF Carrying, Point
<1>5. \A e : At(p, e)' <=> IF e \in {"vip", "toGate"} THEN e = "toGate" ELSE At(p, e)
  BY <1>4 DEF Moved
<1>6. PassengerOK(p)'
  <2>1. OneWalker(p)'
    <3>1. \A c \in LeftPoint : ~At(p, c)'
      BY <1>1, <1>2, <1>5 DEF PassengerOK, OneWalker, LeftPoint
    <3>2. \A c \in RightPoint : At(p, c)' <=> At(p, c)
      BY <1>5 DEF RightPoint
    <3>3. /\ ~Home(p, "special queue")' /\ ~Home(p, "special kiosk")' /\ ~Home(p, "gate")'
      BY <1>4, HomeNames DEF Other, Carrying
    <3>4. QED
      BY <1>2, <1>3, <3>1, <3>2, <3>3 DEF PassengerOK, OneWalker, LeftPoint, RightPoint
  <2>2. OneErrand(p)'
    BY <1>1, <1>2, <1>3, <1>4, <1>5 DEF PassengerOK, OneErrand, FirstTrip, HomeName, Carrying, signs
  <2>3. QED
    BY <1>4, <2>1, <2>2 DEF PassengerOK
<1>7. HallCounts'
  BY <1>1, <1>2, <1>4, HallStays DEF Moved, queues, sems
<1>8. BeltCounts'
  BY <1>1, <1>2, <1>4, BeltsStay DEF Moved, queues, signs, sems
<1>9. QED
  BY <1>4, <1>6, <1>7, <1>8, StepIs

\* A thread that has handed its passenger on leaves the channel.
LEMMA SpecialLeaveKeeps ==
  ASSUME AirportInv, ChannelOK, ChannelOK', NEW p \in Passenger, SpecialLeave(p)
  PROVE  AirportInv'
<1> USE DEF sems, arrivals, signs, gate, loops
<1>1. /\ At(p, "specialLeave") /\ Exit(p, "specialLeave")
      /\ left[p] = "on" /\ left' = [left EXCEPT ![p] = "out"] /\ right' = right
      /\ UNCHANGED <<queues, sems, arrivals, signs, gate, loops>>
  BY DEF SpecialLeave, Channel!LeftLeave
<1>2. Types /\ QueuesMatch /\ HallCounts /\ BeltCounts /\ PassengerOK(p)
  BY TypesAre DEF AirportInv
<1>3. /\ left'[p] = "out" /\ right'[p] = right[p]
      /\ \A q \in Passenger \ {p} : left'[q] = left[q] /\ right'[q] = right[q]
  BY <1>1, LeftChanges
<1>4. Ended(p, "specialLeave")
  BY <1>1, <1>2, ThreadEnds DEF Types
<1>5. \A q, e : At(q, e)' <=> At(q, e) /\ ~(q = p /\ e = "specialLeave")
  BY <1>4 DEF Ended
<1>6. /\ \A q \in Passenger \ {p} : Same(q)
      /\ Arrived' = Arrived
      /\ \A k \in Other : Home(p, k)' <=> Home(p, k)
  BY <1>1, <1>3, <1>5, QueuesStay
<1>7. \A k \in HomeName : Home(p, k)' <=> Home(p, k)
  <2>1. \A k \in Carrying : Home(p, k)' <=> Home(p, k)
    BY <1>5, HomesHere, HomesAfter DEF HomesAre, Carrying
  <2>2. QED
    BY <1>6, <2>1, HomeNames
<1>8. PassengerOK(p)'
  <2>1. OneHome(p)'
    BY <1>2, <1>6, <1>7, HomeStays DEF PassengerOK
  <2>2. OneWalker(p)'
    <3>1. \A c \in LeftPoint : ~At(p, c)'
      BY <1>1, <1>2, <1>5 DEF PassengerOK, OneWalker, LeftPoint
    <3>2. \A c \in RightPoint : At(p, c)' <=> At(p, c)
      BY <1>5 DEF RightPoint
    <3>3. Home(p, "gate")' <=> Home(p, "gate")
      BY <1>6 DEF Other
    <3>4. QED
      BY <1>2, <1>3, <3>1, <3>2, <3>3 DEF PassengerOK, OneWalker, LeftPoint, RightPoint
  <2>3. OneErrand(p)'
    BY <1>1, <1>2, <1>3, <1>5, <1>6, <1>7 DEF PassengerOK, OneErrand, FirstTrip, HomeName, Carrying
  <2>4. QED
    BY <2>1, <2>2, <2>3 DEF PassengerOK
<1>9. Types'
  BY <1>1, <1>2, <1>4 DEF Types, QueueTypes, SemTypes, LoopTypes, SignTypes, Ended, queues
<1>10. QueuesMatch'
  BY <1>1, <1>2 DEF QueuesMatch, queues
<1>11. HallCounts'
  BY <1>1, <1>2, <1>4, HallStays DEF Ended, queues
<1>12. BeltCounts'
  BY <1>1, <1>2, <1>4, BeltsStay DEF Ended, queues
<1>13. QED
  BY <1>6, <1>8, <1>9, <1>10, <1>11, <1>12, StepIs

LEMMA BackLeaveKeeps ==
  ASSUME AirportInv, ChannelOK, ChannelOK', NEW p \in Passenger, BackLeave(p)
  PROVE  AirportInv'
<1> USE DEF sems, arrivals, signs, gate, loops
<1>1. /\ At(p, "backLeave") /\ Exit(p, "backLeave")
      /\ right[p] = "on" /\ right' = [right EXCEPT ![p] = "out"] /\ left' = left
      /\ UNCHANGED <<queues, sems, arrivals, signs, gate, loops>>
  BY DEF BackLeave, Channel!RightLeave
<1>2. Types /\ QueuesMatch /\ HallCounts /\ BeltCounts /\ PassengerOK(p)
  BY TypesAre DEF AirportInv
<1>3. /\ right'[p] = "out" /\ left'[p] = left[p]
      /\ \A q \in Passenger \ {p} : left'[q] = left[q] /\ right'[q] = right[q]
  BY <1>1, RightChanges
<1>4. Ended(p, "backLeave")
  BY <1>1, <1>2, ThreadEnds DEF Types
<1>5. \A q, e : At(q, e)' <=> At(q, e) /\ ~(q = p /\ e = "backLeave")
  BY <1>4 DEF Ended
<1>6. /\ \A q \in Passenger \ {p} : Same(q)
      /\ Arrived' = Arrived
      /\ \A k \in Other : Home(p, k)' <=> Home(p, k)
  BY <1>1, <1>3, <1>5, QueuesStay
<1>7. \A k \in HomeName : Home(p, k)' <=> Home(p, k)
  <2>1. \A k \in Carrying : Home(p, k)' <=> Home(p, k)
    BY <1>5, HomesHere, HomesAfter DEF HomesAre, Carrying
  <2>2. QED
    BY <1>6, <2>1, HomeNames
<1>8. PassengerOK(p)'
  <2>1. OneHome(p)'
    BY <1>2, <1>6, <1>7, HomeStays DEF PassengerOK
  <2>2. OneWalker(p)'
    <3>1. \A c \in RightPoint : ~At(p, c)'
      BY <1>1, <1>2, <1>5 DEF PassengerOK, OneWalker, RightPoint
    <3>2. \A c \in LeftPoint : At(p, c)' <=> At(p, c)
      BY <1>5 DEF LeftPoint
    <3>3. /\ Home(p, "special queue")' <=> Home(p, "special queue")
          /\ Home(p, "special kiosk")' <=> Home(p, "special kiosk")
      BY <1>6 DEF Other
    <3>4. QED
      BY <1>2, <1>3, <3>1, <3>2, <3>3 DEF PassengerOK, OneWalker, LeftPoint, RightPoint
  <2>3. OneErrand(p)'
    BY <1>1, <1>2, <1>3, <1>5, <1>6, <1>7 DEF PassengerOK, OneErrand, FirstTrip, HomeName, Carrying
  <2>4. QED
    BY <2>1, <2>2, <2>3 DEF PassengerOK
<1>9. Types'
  BY <1>1, <1>2, <1>4 DEF Types, QueueTypes, SemTypes, LoopTypes, SignTypes, Ended, queues
<1>10. QueuesMatch'
  BY <1>1, <1>2 DEF QueuesMatch, queues
<1>11. HallCounts'
  BY <1>1, <1>2, <1>4, HallStays DEF Ended, queues
<1>12. BeltCounts'
  BY <1>1, <1>2, <1>4, BeltsStay DEF Ended, queues
<1>13. QED
  BY <1>6, <1>8, <1>9, <1>10, <1>11, <1>12, StepIs

\* On the way onto the walkway no thread moves and nobody comes from out or goes out.
LEMMA WalkOnIs ==
  ASSUME ChannelOK, NEW p \in Passenger, Channel!LeftEnter(p) \/ Channel!RightEnter(p)
  PROVE  /\ \A q \in Passenger \ {p} : left'[q] = left[q] /\ right'[q] = right[q]
         /\ \/ /\ left[p] \notin {"out", "on"} /\ left'[p] # "out" /\ right'[p] = right[p]
            \/ /\ right[p] \notin {"out", "on"} /\ right'[p] # "out" /\ left'[p] = left[p]
<1>1. CASE Channel!LeftEnter(p)
  <2>1. PICK v : /\ left[p] \notin {"out", "on"} /\ v # "out"
                 /\ left' = [left EXCEPT ![p] = v] /\ right' = right
    BY <1>1 DEF Channel!LeftEnter, Channel!LeftCount, Channel!LeftTakeDb, Channel!LeftTakeExtra
  <2>2. QED
    BY <2>1, LeftChanges
<1>2. CASE Channel!RightEnter(p)
  <2>1. PICK v : /\ right[p] \notin {"out", "on"} /\ v # "out"
                 /\ right' = [right EXCEPT ![p] = v] /\ left' = left
    BY <1>2 DEF Channel!RightEnter, Channel!RightTakeDb, Channel!RightCount, Channel!RightTakeExtra
  <2>2. QED
    BY <2>1, RightChanges
<1>3. QED
  BY <1>1, <1>2

LEMMA WalkOnKeeps ==
  ASSUME AirportInv, ChannelOK, ChannelOK', NEW p \in Passenger, WalkOn(p)
  PROVE  AirportInv'
<1> USE DEF sems, arrivals, signs, gate, loops
<1>1. /\ Channel!LeftEnter(p) \/ Channel!RightEnter(p)
      /\ UNCHANGED <<queues, sems, arrivals, signs, gate, loops, threads>>
  BY DEF WalkOn
<1>2. Types /\ QueuesMatch /\ HallCounts /\ BeltCounts /\ PassengerOK(p)
  BY TypesAre DEF AirportInv
<1>3. /\ \A q \in Passenger \ {p} : left'[q] = left[q] /\ right'[q] = right[q]
      /\ \/ /\ left[p] \notin {"out", "on"} /\ left'[p] # "out" /\ right'[p] = right[p]
         \/ /\ right[p] \notin {"out", "on"} /\ right'[p] # "out" /\ left'[p] = left[p]
  BY <1>1, WalkOnIs
<1>4. /\ \A q, e : At(q, e)' <=> At(q, e)
      /\ \A e : Number(e)' = Number(e)
      /\ \A b \in Belt : \A e : NumberOf(b, e)' = NumberOf(b, e)
  BY <1>1, ThreadsStay
<1>5. /\ \A q \in Passenger \ {p} : Same(q)
      /\ Arrived' = Arrived
      /\ \A k \in Other : Home(p, k)' <=> Home(p, k)
  BY <1>1, <1>3, <1>4, QueuesStay
<1>6. \A k \in HomeName : Home(p, k)' <=> Home(p, k)
  <2>1. \A k \in Carrying : Home(p, k)' <=> Home(p, k)
    BY <1>4, HomesHere, HomesAfter DEF HomesAre
  <2>2. QED
    BY <1>5, <2>1, HomeNames
<1>7. PassengerOK(p)'
  <2>1. OneHome(p)'
    BY <1>2, <1>5, <1>6, HomeStays DEF PassengerOK
  <2>2. OneWalker(p)'
    <3>1. \A c \in LeftPoint \cup RightPoint : At(p, c)' <=> At(p, c)
      BY <1>4
    <3>2. \A k \in {"special queue", "special kiosk", "gate"} : Home(p, k)' <=> Home(p, k)
      BY <1>5 DEF Other
    <3>3. QED
      BY <1>2, <1>3, <3>1, <3>2 DEF PassengerOK, OneWalker, LeftPoint, RightPoint
  <2>3. OneErrand(p)'
    <3>1. \A k \in FirstTrip : Home(p, k) => right'[p] = "out"
      BY <1>2, <1>3 DEF PassengerOK, OneErrand
    <3>2. QED
      BY <1>1, <1>2, <1>4, <1>5, <1>6, <3>1 DEF PassengerOK, OneErrand, FirstTrip, HomeName, Carrying
  <2>4. QED
    BY <2>1, <2>2, <2>3 DEF PassengerOK
<1>8. Types'
  BY <1>1, <1>2 DEF Types, QueueTypes, SemTypes, LoopTypes, SignTypes, queues
<1>9. QueuesMatch'
  BY <1>1, <1>2 DEF QueuesMatch, queues
<1>10. HallCounts'
  BY <1>1, <1>2, <1>4, HallStays DEF queues
<1>11. BeltCounts'
  BY <1>1, <1>2, <1>4, BeltsStay DEF queues
<1>12. QED
  BY <1>5, <1>7, <1>8, <1>9, <1>10, <1>11, StepIs

\* A thread puts its passenger into a queue and goes on to post its semaphore.
LEMMA PassengerQueues ==
  ASSUME AirportInv, NEW p \in Passenger, NEW c \in Carrying, NEW d \in Point \ Carrying,
         NEW h \in {"kiosk queue", "belt", "gate", "special queue"},
         At(p, c), ~At(p, d), Goto(p, c, d),
         UNCHANGED <<arrivals, belt, boarded, serving, left, right>>,
         h = "belt" => belt[p] \in Belt,
         \A q : Queued(q, passenger') <=> Queued(q, passenger) \/ (q = p /\ h = "kiosk queue"),
         \A q : \A b \in Belt : Queued(q, securityQueue'[b]) <=>
           Queued(q, securityQueue[b]) \/ (q = p /\ h = "belt" /\ b = belt[p]),
         \A q : Queued(q, boardingQueue') <=> Queued(q, boardingQueue) \/ (q = p /\ h = "gate"),
         \A q : Queued(q, specialPassenger') <=>
           Queued(q, specialPassenger) \/ (q = p /\ h = "special queue")
  PROVE  /\ Moved(p, c, d)
         /\ \A q \in Passenger \ {p} : Same(q)
         /\ p \in Arrived /\ Arrived' = Arrived /\ OneHome(p)'
         /\ \A g \in HomeName : Home(p, g) <=> g = c
         /\ \A g \in HomeName : Home(p, g)' <=> g = h
<1>1. /\ Types /\ PassengerOK(p) /\ c \in HomeName /\ h \in HomeName /\ h \in Other /\ c \notin Other
      /\ c # d /\ d \in Point
  BY TypesAre, HomeNames DEF AirportInv, Other
<1>2. p \in Arrived /\ \A g \in HomeName : Home(p, g) <=> g = c
  BY <1>1, HomesHere, HomeIs DEF HomesAre
<1>3. Moved(p, c, d)
  BY <1>1, ThreadGoes DEF Types
<1>4. \A q, e : At(q, e)' <=> IF q = p /\ e \in {c, d} THEN e = d ELSE At(q, e)
  BY <1>3 DEF Moved
<1>5. Arrived' = Arrived
  BY DEF Arrived, arrivals
<1>6. \A q \in Passenger \ {p} : Same(q)
  BY <1>4, <1>5, SameIs
<1>7. \A g \in HomeName : Home(p, g)' <=> g = h
  <2>1. \A g \in Carrying : ~Home(p, g)'
    BY <1>2, <1>4, HomesHere, HomesAfter, HomeNames DEF HomesAre
  <2>2. \A g \in Other : ~Home(p, g)
    BY <1>1, <1>2, HomeNames
  <2>3. /\ ~Queued(p, passenger) /\ ~Queued(p, boardingQueue) /\ ~Queued(p, specialPassenger)
        /\ \A b \in Belt : ~Queued(p, securityQueue[b])
        /\ serving["boarding"] # p /\ serving["special"] # p /\ p \notin boarded
    BY <2>2, HomesHere DEF HomesAre, Other
  <2>4. /\ Queued(p, passenger') <=> h = "kiosk queue"
        /\ Queued(p, boardingQueue') <=> h = "gate"
        /\ Queued(p, specialPassenger') <=> h = "special queue"
        /\ (\E b \in Belt : Queued(p, securityQueue'[b])) <=> h = "belt"
        /\ serving'["boarding"] # p /\ serving'["special"] # p /\ p \notin boarded'
    BY <2>3
  <2>5. \A g \in Other : Home(p, g)' <=> g = h
    <3>1. /\ Home(p, "kiosk queue")' <=> h = "kiosk queue"
          /\ Home(p, "belt")' <=> h = "belt"
          /\ Home(p, "gate")' <=> h = "gate"
          /\ Home(p, "special queue")' <=> h = "special queue"
          /\ ~Home(p, "called")' /\ ~Home(p, "special kiosk")' /\ ~Home(p, "plane")'
      BY <2>4, HomesAfter DEF HomesAre
    <3>2. QED
      BY <3>1 DEF Other
  <2>6. QED
    BY <1>1, <2>1, <2>5, HomeNames
<1>8. OneHome(p)'
  BY <1>1, <1>2, <1>5, <1>7, HomeMoves
<1>9. QED
  BY <1>2, <1>3, <1>5, <1>6, <1>7, <1>8

LEMMA EnterPushKeeps ==
  ASSUME AirportInv, ChannelOK', NEW p \in Passenger, EnterPush(p)
  PROVE  AirportInv'
<1> USE DEF arrivals, signs, gate, loops, cvars
<1>1. /\ At(p, "enter") /\ Goto(p, "enter", "postKioskFull")
      /\ sem["kioskEmpty"] > 0 /\ sem' = [sem EXCEPT !["kioskEmpty"] = @ - 1]
      /\ passenger' = Append(passenger, p)
      /\ UNCHANGED <<securityQueue, boardingQueue, specialPassenger, beltEmpty,
                     beltFull, arrivals, signs, gate, loops, cvars>>
  BY DEF EnterPush, Wait
<1>2. Types /\ QueuesMatch /\ HallCounts /\ BeltCounts /\ PassengerOK(p)
  BY TypesAre DEF AirportInv
<1>3. ~At(p, "postKioskFull") /\ ~Queued(p, passenger)
  <2>1. /\ "enter" \in HomeName /\ "kiosk queue" \in HomeName /\ Home(p, "enter")
        /\ Home(p, "kiosk queue") <=> Queued(p, passenger)
    BY <1>1, HomesHere, HomeNames DEF HomesAre, Carrying, Other
  <2>2. QED
    BY <1>2, <2>1, HomeIs DEF PassengerOK, OneErrand
<1>4. /\ passenger' \in Seq(Passenger)
      /\ Len(passenger) \in Nat /\ Len(passenger') = Len(passenger) + 1
      /\ \A q : Queued(q, passenger') <=> Queued(q, passenger) \/ q = p
      /\ NoneTwice(passenger')
  BY <1>1, <1>2, <1>3, QueueJoin DEF Types, QueueTypes, QueuesMatch
<1>5. /\ Moved(p, "enter", "postKioskFull")
      /\ \A q \in Passenger \ {p} : Same(q)
      /\ p \in Arrived /\ Arrived' = Arrived /\ OneHome(p)'
      /\ \A g \in HomeName : Home(p, g) <=> g = "enter"
      /\ \A g \in HomeName : Home(p, g)' <=> g = "kiosk queue"
  BY <1>1, <1>3, <1>4, PassengerQueues DEF Carrying, Point
<1>6. \A e : At(p, e)' <=> IF e \in {"enter", "postKioskFull"} THEN e = "postKioskFull" ELSE At(p, e)
  BY <1>5 DEF Moved
<1>7. PassengerOK(p)'
  <2>1. OneWalker(p)'
    <3>1. \A c \in LeftPoint \cup RightPoint : At(p, c)' <=> At(p, c)
      BY <1>6 DEF LeftPoint, RightPoint
    <3>2. QED
      BY <1>1, <1>2, <1>5, <3>1, HomeNames, WalkerStays DEF PassengerOK, Other
  <2>2. OneErrand(p)'
    BY <1>1, <1>2, <1>5, <1>6 DEF PassengerOK, OneErrand, FirstTrip, HomeName, Carrying
  <2>3. QED
    BY <1>5, <2>1, <2>2 DEF PassengerOK
<1>8. Types'
  <2>1. SemTypes'
    BY <1>1, <1>2 DEF Types, SemTypes
  <2>2. QueueTypes' /\ LoopTypes' /\ SignTypes'
    BY <1>1, <1>2, <1>4 DEF Types, QueueTypes, LoopTypes, SignTypes
  <2>3. QED
    BY <1>5, <2>1, <2>2 DEF Types, Moved
<1>9. QueuesMatch'
  BY <1>1, <1>2, <1>4 DEF QueuesMatch
<1>10. HallCounts'
  <2>1. /\ sem'["kioskFull"] = sem["kioskFull"] /\ sem'["boardingFull"] = sem["boardingFull"]
        /\ sem'["specialKioskFull"] = sem["specialKioskFull"]
        /\ sem'["kioskEmpty"] = sem["kioskEmpty"] - 1 /\ sem["kioskFull"] \in Nat /\ sem["kioskEmpty"] \in Nat
    BY <1>1, <1>2 DEF Types, SemTypes
  <2>2. /\ Number("postKioskFull")' = Number("postKioskFull") + 1
        /\ Number("postKioskFull") \in Nat /\ Number("checkIn") \in Nat /\ Number("vipCheckIn") \in Nat
        /\ \A e \in {"postBoardingFull", "specialPost", "backPost", "checkIn", "vipCheckIn"} :
             Number(e)' = Number(e)
    BY <1>5 DEF Moved
  <2>3. /\ boardingQueue' = boardingQueue /\ specialPassenger' = specialPassenger
        /\ Len(passenger) \in Nat /\ Len(passenger') = Len(passenger) + 1
    BY <1>1, <1>4
  <2>4. KioskCount'
    BY <1>2, <2>1, <2>2, <2>3 DEF HallCounts, KioskCount
  <2>5. GateCount' /\ SpecialCount'
    BY <1>2, <2>1, <2>2, <2>3 DEF HallCounts, GateCount, SpecialCount
  <2>6. KiosksCount'
    BY <1>2, <2>1, <2>2, <2>3 DEF HallCounts, KiosksCount
  <2>7. QED
    BY <2>4, <2>5, <2>6 DEF HallCounts
<1>11. BeltCounts'
  BY <1>1, <1>2, <1>5, BeltsStay DEF Moved
<1>12. QED
  BY <1>5, <1>7, <1>8, <1>9, <1>10, <1>11, StepIs

LEMMA GatePushKeeps ==
  ASSUME AirportInv, ChannelOK', NEW p \in Passenger, GatePush(p)
  PROVE  AirportInv'
<1> USE DEF sems, arrivals, signs, gate, loops, cvars
<1>1. /\ At(p, "toGate") /\ Goto(p, "toGate", "postBoardingFull")
      /\ boardingQueue' = Append(boardingQueue, p)
      /\ UNCHANGED <<passenger, securityQueue, specialPassenger, sems, arrivals,
                     signs, gate, loops, cvars>>
  BY DEF GatePush
<1>2. Types /\ QueuesMatch /\ HallCounts /\ BeltCounts /\ PassengerOK(p)
  BY TypesAre DEF AirportInv
<1>3. ~At(p, "postBoardingFull") /\ ~Queued(p, boardingQueue) /\ right[p] = "out"
  <2>1. /\ "toGate" \in HomeName /\ "gate" \in HomeName /\ Home(p, "toGate") /\ "toGate" \in FirstTrip
        /\ Home(p, "gate") <=> Queued(p, boardingQueue)
    BY <1>1, HomesHere, HomeNames DEF HomesAre, Carrying, Other, FirstTrip
  <2>2. QED
    BY <1>2, <2>1, HomeIs DEF PassengerOK, OneErrand
<1>4. /\ boardingQueue' \in Seq(Passenger)
      /\ Len(boardingQueue) \in Nat /\ Len(boardingQueue') = Len(boardingQueue) + 1
      /\ \A q : Queued(q, boardingQueue') <=> Queued(q, boardingQueue) \/ q = p
      /\ NoneTwice(boardingQueue')
  BY <1>1, <1>2, <1>3, QueueJoin DEF Types, QueueTypes, QueuesMatch
<1>5. /\ Moved(p, "toGate", "postBoardingFull")
      /\ \A q \in Passenger \ {p} : Same(q)
      /\ p \in Arrived /\ Arrived' = Arrived /\ OneHome(p)'
      /\ \A g \in HomeName : Home(p, g) <=> g = "toGate"
      /\ \A g \in HomeName : Home(p, g)' <=> g = "gate"
  BY <1>1, <1>3, <1>4, PassengerQueues DEF Carrying, Point
<1>6. \A e : At(p, e)' <=> IF e \in {"toGate", "postBoardingFull"} THEN e = "postBoardingFull" ELSE At(p, e)
  BY <1>5 DEF Moved
<1>7. PassengerOK(p)'
  <2>1. OneWalker(p)'
    <3>1. \A c \in LeftPoint \cup RightPoint : At(p, c)' <=> At(p, c)
      BY <1>6 DEF LeftPoint, RightPoint
    <3>2. QED
      BY <1>1, <1>2, <1>3, <1>5, <3>1, HomeNames, WalkerStays DEF PassengerOK, Other
  <2>2. OneErrand(p)'
    BY <1>1, <1>2, <1>5, <1>6 DEF PassengerOK, OneErrand, FirstTrip, HomeName, Carrying
  <2>3. QED
    BY <1>5, <2>1, <2>2 DEF PassengerOK
<1>8. Types'
  BY <1>1, <1>2, <1>4, <1>5 DEF Types, QueueTypes, SemTypes, LoopTypes, SignTypes, Moved
<1>9. QueuesMatch'
  BY <1>1, <1>2, <1>4 DEF QueuesMatch
<1>10. HallCounts'
  <2>1. sem' = sem /\ sem["boardingFull"] \in Nat
    BY <1>1, <1>2 DEF Types, SemTypes
  <2>2. /\ Number("postBoardingFull")' = Number("postBoardingFull") + 1
        /\ Number("postBoardingFull") \in Nat /\ Number("specialPost") \in Nat
        /\ \A e \in {"postKioskFull", "specialPost", "backPost", "checkIn", "vipCheckIn"} :
             Number(e)' = Number(e)
    BY <1>5 DEF Moved
  <2>3. /\ passenger' = passenger /\ specialPassenger' = specialPassenger
        /\ Len(boardingQueue) \in Nat /\ Len(boardingQueue') = Len(boardingQueue) + 1
    BY <1>1, <1>4
  <2>4. GateCount'
    BY <1>2, <2>1, <2>2, <2>3 DEF HallCounts, GateCount
  <2>5. KioskCount' /\ SpecialCount' /\ KiosksCount'
    BY <1>2, <2>1, <2>2, <2>3 DEF HallCounts, KioskCount, SpecialCount, KiosksCount
  <2>6. QED
    BY <2>4, <2>5 DEF HallCounts
<1>11. BeltCounts'
  BY <1>1, <1>2, <1>5, BeltsStay DEF Moved
<1>12. QED
  BY <1>5, <1>7, <1>8, <1>9, <1>10, <1>11, StepIs

LEMMA SpecialPushKeeps ==
  ASSUME AirportInv, ChannelOK, ChannelOK', NEW p \in Passenger, SpecialPush(p)
  PROVE  AirportInv'
<1> USE DEF sems, arrivals, signs, gate, loops, cvars
<1>1. /\ At(p, "special") /\ left[p] = "on" /\ Goto(p, "special", "specialPost")
      /\ boardingQueue' = Append(boardingQueue, p)
      /\ UNCHANGED <<passenger, securityQueue, specialPassenger, sems, arrivals,
                     signs, gate, loops, cvars>>
  BY DEF SpecialPush
<1>2. Types /\ QueuesMatch /\ HallCounts /\ BeltCounts /\ PassengerOK(p)
  BY TypesAre DEF AirportInv
<1>3. ~At(p, "specialPost") /\ ~Queued(p, boardingQueue) /\ right[p] = "out"
  <2>1. /\ \A g \in HomeName : Home(p, g) <=> g = "special"
        /\ "back" \in HomeName /\ "gate" \in HomeName
        /\ Home(p, "back") <=> At(p, "back")
        /\ Home(p, "gate") <=> Queued(p, boardingQueue)
    <3>1. "special" \in HomeName /\ Home(p, "special") /\ "back" \in Carrying /\ "gate" \in Other
      BY <1>1, HomesHere, HomeNames DEF HomesAre, Carrying, Other
    <3>2. QED
      BY <1>2, <3>1, HomesHere, HomeNames, HomeIs DEF HomesAre, Other
  <2>2. ~At(p, "back") /\ ~Queued(p, boardingQueue)
    BY <2>1
  <2>3. right[p] # "on"
    BY <1>1, ChannelIs
  <2>4. QED
    BY <1>1, <1>2, <2>2, <2>3 DEF PassengerOK, OneWalker, LeftPoint, RightPoint
<1>4. /\ boardingQueue' \in Seq(Passenger)
      /\ Len(boardingQueue) \in Nat /\ Len(boardingQueue') = Len(boardingQueue) + 1
      /\ \A q : Queued(q, boardingQueue') <=> Queued(q, boardingQueue) \/ q = p
      /\ NoneTwice(boardingQueue')
  BY <1>1, <1>2, <1>3, QueueJoin DEF Types, QueueTypes, QueuesMatch
<1>5. /\ Moved(p, "special", "specialPost")
      /\ \A q \in Passenger \ {p} : Same(q)
      /\ p \in Arrived /\ Arrived' = Arrived /\ OneHome(p)'
      /\ \A g \in HomeName : Home(p, g) <=> g = "special"
      /\ \A g \in HomeName : Home(p, g)' <=> g = "gate"
  BY <1>1, <1>3, <1>4, PassengerQueues DEF Carrying, Point
<1>6. \A e : At(p, e)' <=> IF e \in {"special", "specialPost"} THEN e = "specialPost" ELSE At(p, e)
  BY <1>5 DEF Moved
<1>7. PassengerOK(p)'
  <2>1. OneWalker(p)'
    <3>1. \A c \in LeftPoint : At(p, c)' <=> c = "specialPost"
      BY <1>1, <1>2, <1>6 DEF PassengerOK, OneWalker, LeftPoint
    <3>2. \A c \in RightPoint : At(p, c)' <=> At(p, c)
      BY <1>6 DEF RightPoint
    <3>3. ~Home(p, "special queue")' /\ ~Home(p, "special kiosk")'
      BY <1>5, HomeNames DEF Other
    <3>4. left'[p] = "on" /\ right'[p] = "out" /\ right[p] = "out"
      BY <1>1, <1>3
    <3>5. QED
      BY <1>2, <3>1, <3>2, <3>3, <3>4 DEF PassengerOK, OneWalker, LeftPoint, RightPoint
  <2>2. OneErrand(p)'
    BY <1>1, <1>2, <1>5, <1>6 DEF PassengerOK, OneErrand, FirstTrip, HomeName, Carrying
  <2>3. QED
    BY <1>5, <2>1, <2>2 DEF PassengerOK
<1>8. Types'
  BY <1>1, <1>2, <1>4, <1>5 DEF Types, QueueTypes, SemTypes, LoopTypes, SignTypes, Moved
<1>9. QueuesMatch'
  BY <1>1, <1>2, <1>4 DEF QueuesMatch
<1>10. HallCounts'
  <2>1. sem' = sem /\ sem["boardingFull"] \in Nat
    BY <1>1, <1>2 DEF Types, SemTypes
  <2>2. /\ Number("specialPost")' = Number("specialPost") + 1
        /\ Number("postBoardingFull") \in Nat /\ Number("specialPost") \in Nat
        /\ \A e \in {"postKioskFull", "postBoardingFull", "backPost", "checkIn", "vipCheckIn"} :
             Number(e)' = Number(e)
    BY <1>5 DEF Moved
  <2>3. /\ passenger' = passenger /\ specialPassenger' = specialPassenger
        /\ Len(boardingQueue) \in Nat /\ Len(boardingQueue') = Len(boardingQueue) + 1
    BY <1>1, <1>4
  <2>4. GateCount'
    <3>1. /\ Len(boardingQueue) =
               sem["boardingFull"] + Number("postBoardingFull") + Number("specialPost")
          /\ Number("postBoardingFull")' = Number("postBoardingFull")
          /\ sem'["boardingFull"] = sem["boardingFull"]
      BY <1>2, <2>1, <2>2 DEF HallCounts, GateCount
    <3>2. Len(boardingQueue') =
            sem'["boardingFull"] + Number("postBoardingFull")' + Number("specialPost")'
      BY <2>1, <2>2, <2>3, <3>1
    <3>3. QED
      BY <3>2 DEF GateCount
  <2>5. KioskCount' /\ SpecialCount' /\ KiosksCount'
    BY <1>2, <2>1, <2>2, <2>3 DEF HallCounts, KioskCount, SpecialCount, KiosksCount
  <2>6. QED
    BY <2>4, <2>5 DEF HallCounts
<1>11. BeltCounts'
  BY <1>1, <1>2, <1>5, BeltsStay DEF Moved
<1>12. QED
  BY <1>5, <1>7, <1>8, <1>9, <1>10, <1>11, StepIs

LEMMA BackPushKeeps ==
  ASSUME AirportInv, ChannelOK, ChannelOK', NEW p \in Passenger, BackPush(p)
  PROVE  AirportInv'
<1> USE DEF sems, arrivals, signs, gate, loops, cvars
<1>1. /\ At(p, "back") /\ right[p] = "on" /\ Goto(p, "back", "backPost")
      /\ specialPassenger' = Append(specialPassenger, p)
      /\ UNCHANGED <<passenger, securityQueue, boardingQueue, sems, arrivals,
                     signs, gate, loops, cvars>>
  BY DEF BackPush
<1>2. Types /\ QueuesMatch /\ HallCounts /\ BeltCounts /\ PassengerOK(p)
  BY TypesAre DEF AirportInv
<1>3. ~At(p, "backPost") /\ ~Queued(p, specialPassenger) /\ left[p] = "out"
  <2>1. /\ \A g \in HomeName : Home(p, g) <=> g = "back"
        /\ {"vip", "special", "special queue"} \subseteq HomeName
        /\ Home(p, "vip") <=> At(p, "vip")
        /\ Home(p, "special") <=> At(p, "special")
        /\ Home(p, "special queue") <=> Queued(p, specialPassenger)
    <3>1. /\ "back" \in HomeName /\ Home(p, "back") /\ {"vip", "special"} \subseteq Carrying
          /\ "special queue" \in Other
      BY <1>1, HomesHere, HomeNames DEF HomesAre, Carrying, Other
    <3>2. QED
      BY <1>2, <3>1, HomesHere, HomeNames, HomeIs DEF HomesAre, Other
  <2>2. ~At(p, "vip") /\ ~At(p, "special") /\ ~Queued(p, specialPassenger)
    BY <2>1
  <2>3. left[p] # "on"
    BY <1>1, ChannelIs
  <2>4. QED
    BY <1>1, <1>2, <2>2, <2>3 DEF PassengerOK, OneWalker, LeftPoint, RightPoint
<1>4. /\ specialPassenger' \in Seq(Passenger)
      /\ Len(specialPassenger) \in Nat /\ Len(specialPassenger') = Len(specialPassenger) + 1
      /\ \A q : Queued(q, specialPassenger') <=> Queued(q, specialPassenger) \/ q = p
      /\ NoneTwice(specialPassenger')
  BY <1>1, <1>2, <1>3, QueueJoin DEF Types, QueueTypes, QueuesMatch
<1>5. /\ Moved(p, "back", "backPost")
      /\ \A q \in Passenger \ {p} : Same(q)
      /\ p \in Arrived /\ Arrived' = Arrived /\ OneHome(p)'
      /\ \A g \in HomeName : Home(p, g) <=> g = "back"
      /\ \A g \in HomeName : Home(p, g)' <=> g = "special queue"
  BY <1>1, <1>3, <1>4, PassengerQueues DEF Carrying, Point
<1>6. \A e : At(p, e)' <=> IF e \in {"back", "backPost"} THEN e = "backPost" ELSE At(p, e)
  BY <1>5 DEF Moved
<1>7. PassengerOK(p)'
  <2>1. OneWalker(p)'
    <3>1. \A c \in RightPoint : At(p, c)' <=> c = "backPost"
      BY <1>1, <1>2, <1>6 DEF PassengerOK, OneWalker, RightPoint
    <3>2. \A c \in LeftPoint : At(p, c)' <=> At(p, c)
      BY <1>6 DEF LeftPoint
    <3>3. ~Home(p, "gate")'
      BY <1>5, HomeNames DEF Other
    <3>4. right'[p] = "on" /\ left'[p] = "out" /\ left[p] = "out"
      BY <1>1, <1>3
    <3>5. QED
      BY <1>2, <3>1, <3>2, <3>3, <3>4 DEF PassengerOK, OneWalker, LeftPoint, RightPoint
  <2>2. OneErrand(p)'
    BY <1>1, <1>2, <1>5, <1>6 DEF PassengerOK, OneErrand, FirstTrip, HomeName, Carrying
  <2>3. QED
    BY <1>5, <2>1, <2>2 DEF PassengerOK
<1>8. Types'
  BY <1>1, <1>2, <1>4, <1>5 DEF Types, QueueTypes, SemTypes, LoopTypes, SignTypes, Moved
<1>9. QueuesMatch'
  BY <1>1, <1>2, <1>4 DEF QueuesMatch
<1>10. HallCounts'
  <2>1. sem' = sem /\ sem["specialKioskFull"] \in Nat
    BY <1>1, <1>2 DEF Types, SemTypes
  <2>2. /\ Number("backPost")' = Number("backPost") + 1 /\ Number("backPost") \in Nat
        /\ \A e \in {"postKioskFull", "postBoardingFull", "specialPost", "checkIn", "vipCheckIn"} :
             Number(e)' = Number(e)
    BY <1>5 DEF Moved
  <2>3. /\ passenger' = passenger /\ boardingQueue' = boardingQueue
        /\ Len(specialPassenger) \in Nat /\ Len(specialPassenger') = Len(specialPassenger) + 1
    BY <1>1, <1>4
  <2>4. SpecialCount'
    BY <1>2, <2>1, <2>2, <2>3 DEF HallCounts, SpecialCount
  <2>5. KioskCount' /\ GateCount' /\ KiosksCount'
    BY <1>2, <2>1, <2>2, <2>3 DEF HallCounts, KioskCount, GateCount, KiosksCount
  <2>6. QED
    BY <2>4, <2>5 DEF HallCounts
<1>11. BeltCounts'
  BY <1>1, <1>2, <1>5, BeltsStay DEF Moved
<1>12. QED
  BY <1>5, <1>7, <1>8, <1>9, <1>10, <1>11, StepIs

LEMMA KioskProducePushKeeps ==
  ASSUME AirportInv, ChannelOK', NEW p \in Passenger, KioskProducePush(p)
  PROVE  AirportInv'
<1> USE DEF arrivals, signs, gate, loops, cvars
<1> DEFINE r == belt[p]
<1>1. /\ At(p, "wantBelt") /\ Goto(p, "wantBelt", "postBeltFull")
      /\ beltEmpty[r] > 0 /\ beltEmpty' = [beltEmpty EXCEPT ![r] = @ - 1]
      /\ securityQueue' = [securityQueue EXCEPT ![r] = Append(@, p)]
      /\ UNCHANGED <<passenger, boardingQueue, specialPassenger, sem, beltFull,
                     arrivals, signs, gate, loops, cvars>>
  BY DEF KioskProducePush
<1>2. Types /\ QueuesMatch /\ HallCounts /\ BeltCounts /\ PassengerOK(p) /\ r \in Belt
  BY <1>1, TypesAre, BeltHere DEF AirportInv
<1>3. ~At(p, "postBeltFull") /\ \A b \in Belt : ~Queued(p, securityQueue[b])
  <2>1. /\ "wantBelt" \in HomeName /\ "belt" \in HomeName /\ Home(p, "wantBelt")
        /\ Home(p, "belt") <=> \E b \in Belt : Queued(p, securityQueue[b])
    BY <1>1, HomesHere, HomeNames DEF HomesAre, Carrying, Other
  <2>2. QED
    BY <1>2, <2>1, HomeIs DEF PassengerOK, OneErrand
<1>4. /\ securityQueue'[r] \in Seq(Passenger)
      /\ Len(securityQueue[r]) \in Nat /\ Len(securityQueue'[r]) = Len(securityQueue[r]) + 1
      /\ \A q : Queued(q, securityQueue'[r]) <=> Queued(q, securityQueue[r]) \/ q = p
      /\ NoneTwice(securityQueue'[r])
      /\ \A b \in Belt \ {r} : securityQueue'[b] = securityQueue[b]
  <2>1. /\ securityQueue[r] \in Seq(Passenger) /\ NoneTwice(securityQueue[r])
        /\ securityQueue'[r] = Append(securityQueue[r], p)
        /\ \A b \in Belt \ {r} : securityQueue'[b] = securityQueue[b]
    BY <1>1, <1>2 DEF Types, QueueTypes, QueuesMatch
  <2>2. QED
    BY <1>2, <1>3, <2>1, QueueJoin
<1>5. /\ Moved(p, "wantBelt", "postBeltFull")
      /\ \A q \in Passenger \ {p} : Same(q)
      /\ p \in Arrived /\ Arrived' = Arrived /\ OneHome(p)'
      /\ \A g \in HomeName : Home(p, g) <=> g = "wantBelt"
      /\ \A g \in HomeName : Home(p, g)' <=> g = "belt"
  <2>1. \A q : \A b \in Belt : Queued(q, securityQueue'[b]) <=>
           Queued(q, securityQueue[b]) \/ (q = p /\ b = r)
    BY <1>4
  <2>2. QED
    BY <1>1, <1>2, <1>3, <2>1, PassengerQueues DEF Carrying, Point
<1>6. \A e : At(p, e)' <=> IF e \in {"wantBelt", "postBeltFull"} THEN e = "postBeltFull" ELSE At(p, e)
  BY <1>5 DEF Moved
<1>7. PassengerOK(p)'
  <2>1. OneWalker(p)'
    <3>1. \A c \in LeftPoint \cup RightPoint : At(p, c)' <=> At(p, c)
      BY <1>6 DEF LeftPoint, RightPoint
    <3>2. QED
      BY <1>1, <1>2, <1>5, <3>1, HomeNames, WalkerStays DEF PassengerOK, Other
  <2>2. OneErrand(p)'
    BY <1>1, <1>2, <1>5, <1>6 DEF PassengerOK, OneErrand, FirstTrip, HomeName, Carrying
  <2>3. QED
    BY <1>5, <2>1, <2>2 DEF PassengerOK
<1>8. Types'
  <2>1. SemTypes'
    BY <1>1, <1>2 DEF Types, SemTypes
  <2>2. securityQueue' \in [Belt -> Seq(Passenger)]
    BY <1>1, <1>2, <1>4 DEF Types, QueueTypes
  <2>3. QueueTypes' /\ LoopTypes' /\ SignTypes'
    BY <1>1, <1>2, <2>2 DEF Types, QueueTypes, LoopTypes, SignTypes
  <2>4. QED
    BY <1>5, <2>1, <2>3 DEF Types, Moved
<1>9. QueuesMatch'
  <2>1. \A b \in Belt : /\ NoneTwice(securityQueue'[b])
                        /\ \A q \in Passenger : Queued(q, securityQueue'[b]) => belt'[q] = b
    BY <1>1, <1>2, <1>4 DEF QueuesMatch
  <2>2. QED
    BY <1>1, <1>2, <2>1 DEF QueuesMatch
<1>10. HallCounts'
  BY <1>1, <1>2, <1>5, HallStays DEF Moved
<1>11. BeltCounts'
  <2> SUFFICES ASSUME NEW b \in Belt
               PROVE  /\ Len(securityQueue'[b]) = beltFull'[b] + NumberOf(b, "postBeltFull")'
                      /\ beltEmpty'[b] + Len(securityQueue'[b]) + NumberOf(b, "scan")' = P
    BY DEF BeltCounts
  <2>1. /\ Len(securityQueue[b]) = beltFull[b] + NumberOf(b, "postBeltFull")
        /\ beltEmpty[b] + Len(securityQueue[b]) + NumberOf(b, "scan") = P
    BY <1>2 DEF BeltCounts
  <2>2. /\ NumberOf(b, "postBeltFull") \in Nat /\ NumberOf(b, "scan") \in Nat
        /\ NumberOf(b, "scan")' = NumberOf(b, "scan")
        /\ NumberOf(b, "postBeltFull")' = IF r = b THEN NumberOf(b, "postBeltFull") + 1
                                          ELSE NumberOf(b, "postBeltFull")
    BY <1>1, <1>5 DEF Moved
  <2>3. /\ beltFull[b] \in Nat /\ beltEmpty[b] \in Nat /\ beltFull' = beltFull
        /\ beltEmpty'[b] = IF r = b THEN beltEmpty[b] - 1 ELSE beltEmpty[b]
    BY <1>1, <1>2 DEF Types, SemTypes
  <2>4. CASE b = r
    <3>1. /\ NumberOf(b, "postBeltFull")' = NumberOf(b, "postBeltFull") + 1
          /\ beltEmpty'[b] = beltEmpty[b] - 1
          /\ Len(securityQueue'[b]) = Len(securityQueue[b]) + 1 /\ Len(securityQueue[b]) \in Nat
      BY <1>4, <2>2, <2>3, <2>4
    <3>2. Len(securityQueue'[b]) = beltFull'[b] + NumberOf(b, "postBeltFull")'
      <4>1. /\ Len(securityQueue[b]) = beltFull[b] + NumberOf(b, "postBeltFull")
            /\ beltFull'[b] = beltFull[b]
            /\ beltFull[b] \in Nat /\ NumberOf(b, "postBeltFull") \in Nat
        BY <2>1, <2>2, <2>3
      <4>2. QED
        BY <3>1, <4>1
    <3>3. beltEmpty'[b] + Len(securityQueue'[b]) + NumberOf(b, "scan")' = P
      BY <2>1, <2>2, <2>3, <3>1
    <3>4. QED
      BY <3>2, <3>3
  <2>5. CASE b # r
    BY <1>4, <2>1, <2>2, <2>3, <2>5
  <2>6. QED
    BY <2>4, <2>5
<1>12. QED
  BY <1>5, <1>7, <1>8, <1>9, <1>10, <1>11, StepIs

\* A loop takes a passenger out of a queue and creates a thread for him.
LEMMA PassengerIsSent ==
  ASSUME AirportInv, NEW p \in Passenger, NEW d \in Carrying \cap Point,
         NEW h \in {"kiosk queue", "belt", "gate"}, Home(p, h), Spawn(p, d),
         UNCHANGED <<arrivals, boarded, serving, specialPassenger>>,
         \A q \in Passenger \ {p} :
           left'[q] = left[q] /\ right'[q] = right[q] /\ belt'[q] = belt[q],
         \A q : Queued(q, passenger') <=> Queued(q, passenger) /\ ~(q = p /\ h = "kiosk queue"),
         \A q : \A b \in Belt : Queued(q, securityQueue'[b]) <=>
           Queued(q, securityQueue[b]) /\ ~(q = p /\ h = "belt"),
         \A q : Queued(q, boardingQueue') <=> Queued(q, boardingQueue) /\ ~(q = p /\ h = "gate")
  PROVE  /\ Started(p, d)
         /\ \A q \in Passenger \ {p} : Same(q)
         /\ p \in Arrived /\ Arrived' = Arrived /\ OneHome(p)'
         /\ \A g \in HomeName : Home(p, g) <=> g = h
         /\ \A g \in HomeName : Home(p, g)' <=> g = d
<1>1. /\ Types /\ PassengerOK(p) /\ d \in HomeName /\ h \in HomeName /\ h \in Other /\ d \notin Other
      /\ d # h /\ d \in Point
  BY TypesAre, HomeNames DEF AirportInv, Other
<1>2. p \in Arrived /\ \A g \in HomeName : Home(p, g) <=> g = h
  BY <1>1, HomeIs
<1>3. Started(p, d)
  <2>1. ~At(p, d)
    BY <1>1, <1>2, HomesHere DEF HomesAre
  <2>2. QED
    BY <1>1, <2>1, ThreadStarts DEF Types
<1>4. \A q, e : At(q, e)' <=> At(q, e) \/ (q = p /\ e = d)
  BY <1>3 DEF Started
<1>5. Arrived' = Arrived
  BY DEF Arrived, arrivals
<1>6. \A q \in Passenger \ {p} : Same(q)
  BY <1>4, <1>5, SameIs
<1>7. \A g \in HomeName : Home(p, g)' <=> g = d
  <2>1. \A g \in Carrying : Home(p, g)' <=> g = d
    BY <1>1, <1>2, <1>4, HomesHere, HomesAfter, HomeNames DEF HomesAre
  <2>2. \A g \in Other : Home(p, g) <=> g = h
    BY <1>1, <1>2, HomeNames
  <2>3. /\ Queued(p, passenger) <=> h = "kiosk queue"
        /\ Queued(p, boardingQueue) <=> h = "gate"
        /\ ~Queued(p, specialPassenger)
        /\ h # "belt" => \A b \in Belt : ~Queued(p, securityQueue[b])
        /\ serving["boarding"] # p /\ serving["special"] # p /\ p \notin boarded
    BY <2>2, HomesHere DEF HomesAre, Other
  <2>4. /\ ~Queued(p, passenger') /\ ~Queued(p, boardingQueue') /\ ~Queued(p, specialPassenger')
        /\ \A b \in Belt : ~Queued(p, securityQueue'[b])
        /\ serving'["boarding"] # p /\ serving'["special"] # p /\ p \notin boarded'
    BY <2>3
  <2>5. \A g \in Other : ~Home(p, g)'
    <3>1. /\ ~Home(p, "kiosk queue")' /\ ~Home(p, "belt")' /\ ~Home(p, "gate")'
          /\ ~Home(p, "special queue")' /\ ~Home(p, "called")'
          /\ ~Home(p, "special kiosk")' /\ ~Home(p, "plane")'
      BY <2>4, HomesAfter DEF HomesAre
    <3>2. QED
      BY <3>1 DEF Other
  <2>6. QED
    BY <1>1, <2>1, <2>5, HomeNames
<1>8. OneHome(p)'
  BY <1>1, <1>2, <1>5, <1>7, HomeMoves
<1>9. QED
  BY <1>2, <1>3, <1>5, <1>6, <1>7, <1>8

\* A kiosk number that goes to the end of its queue is the number of a kiosk.
LEMMA KiosksGoRound ==
  ASSUME kioskNumber \in [1 .. M -> 1 .. M]
  PROVE  Append(Tail(kioskNumber), Head(kioskNumber)) \in [1 .. M -> 1 .. M]
<1>1. kioskNumber \in Seq(1 .. M) /\ Len(kioskNumber) = M /\ M \in Nat \ {0}
  BY Numbers, SeqDef, LenProperties
<1>2. kioskNumber # <<>>
  BY <1>1, EmptySeq
<1>3. /\ Head(kioskNumber) \in 1 .. M /\ Tail(kioskNumber) \in Seq(1 .. M)
      /\ Len(Tail(kioskNumber)) = M - 1
  BY <1>1, <1>2, HeadTailProperties
<1>4. PICK s : s = Append(Tail(kioskNumber), Head(kioskNumber))
  OBVIOUS
<1>5. s \in Seq(1 .. M) /\ Len(s) = M
  BY <1>1, <1>3, <1>4, AppendProperties
<1>6. QED
  BY <1>4, <1>5, LenProperties, ElementOfSeq

LEMMA KioskTakeKeeps ==
  ASSUME AirportInv, ChannelOK', KioskTake
  PROVE  AirportInv'
<1> USE DEF arrivals, gate, cvars
<1>1. PICK p : p = Head(passenger)
  OBVIOUS
<1>2. /\ sem["kioskFull"] > 0 /\ sem' = [sem EXCEPT !["kioskFull"] = @ - 1]
      /\ passenger' = Tail(passenger)
      /\ kioskNumber' = Append(Tail(kioskNumber), Head(kioskNumber))
      /\ \/ Spawn(p, "vipCheckIn") /\ belt' = belt
         \/ \E r \in Belt : Spawn(p, "checkIn") /\ belt' = [belt EXCEPT ![p] = r]
      /\ loop' = [loop EXCEPT !["kiosk"] = "check"]
      /\ UNCHANGED <<securityQueue, boardingQueue, specialPassenger, beltEmpty,
                     beltFull, arrivals, gate, beltLoop, serving, cvars>>
  BY <1>1 DEF KioskTake, Wait
<1>3. Types /\ QueuesMatch /\ HallCounts /\ BeltCounts
  BY TypesAre DEF AirportInv
<1>4. /\ p \in Passenger /\ passenger' \in Seq(Passenger)
      /\ Len(passenger) \in Nat /\ Len(passenger') = Len(passenger) - 1
      /\ Queued(p, passenger)
      /\ NoneTwice(passenger')
      /\ \A q : Queued(q, passenger') <=> Queued(q, passenger) /\ q # p
  <2>1. sem["kioskFull"] \in Nat /\ Number("postKioskFull") \in Nat
    BY <1>3, Numbers, FS_Subset, FS_CardinalityType DEF Types, SemTypes, Number
  <2>2. Len(passenger) # 0 /\ passenger \in Seq(Passenger) /\ NoneTwice(passenger)
    BY <1>2, <1>3, <2>1 DEF HallCounts, KioskCount, Types, QueueTypes, QueuesMatch
  <2>3. QED
    BY <1>1, <1>2, <2>2, QueueLeave
<1>5. PassengerOK(p) /\ Home(p, "kiosk queue") /\ "kiosk queue" \in HomeName
  BY <1>3, <1>4, HomesHere, HomeNames DEF AirportInv, HomesAre, Other
<1>6. PICK d \in {"checkIn", "vipCheckIn"} :
        /\ Spawn(p, d)
        /\ d = "checkIn" => belt'[p] \in Belt
        /\ belt' \in [Passenger -> 0 .. N]
        /\ \A q \in Passenger \ {p} : belt'[q] = belt[q]
  <2>1. belt \in [Passenger -> 0 .. N] /\ \A r \in Belt : r \in 0 .. N
    BY <1>3, Numbers DEF Types, SignTypes, Belt
  <2>2. CASE Spawn(p, "vipCheckIn") /\ belt' = belt
    BY <2>1, <2>2
  <2>3. CASE \E r \in Belt : Spawn(p, "checkIn") /\ belt' = [belt EXCEPT ![p] = r]
    BY <1>4, <2>1, <2>3
  <2>4. QED
    BY <1>2, <2>2, <2>3
<1>7. /\ Started(p, d)
      /\ \A q \in Passenger \ {p} : Same(q)
      /\ p \in Arrived /\ Arrived' = Arrived /\ OneHome(p)'
      /\ \A g \in HomeName : Home(p, g) <=> g = "kiosk queue"
      /\ \A g \in HomeName : Home(p, g)' <=> g = d
  <2>1. d \in Carrying \cap Point
    BY DEF Carrying, Point
  <2>2. QED
    BY <1>2, <1>4, <1>5, <1>6, <2>1, PassengerIsSent
<1>8. \A e : At(p, e)' <=> At(p, e) \/ e = d
  BY <1>7 DEF Started
<1>9. /\ \A e \in {"checkIn", "wantBelt", "scan"} : ~At(p, e)
      /\ ~At(p, "postBeltFull") /\ \A b \in Belt : ~Queued(p, securityQueue[b])
  <2>1. \A e \in {"checkIn", "wantBelt", "scan"} : e \in HomeName /\ e # "kiosk queue"
    BY DEF HomeName, Carrying
  <2>2. "belt" \in HomeName
    BY HomeNames DEF Other
  <2>3. QED
    BY <1>5, <1>7, <2>1, <2>2, HomesHere, HomeNames DEF PassengerOK, OneErrand, HomesAre, Carrying
<1>10. PassengerOK(p)'
  <2>1. OneWalker(p)'
    <3>1. \A c \in LeftPoint \cup RightPoint : At(p, c)' <=> At(p, c)
      BY <1>8 DEF LeftPoint, RightPoint
    <3>2. ~Home(p, "special queue")' /\ ~Home(p, "special kiosk")' /\ ~Home(p, "gate")'
      BY <1>7, HomeNames DEF Other
    <3>3. QED
      BY <1>2, <1>4, <1>5, <3>1, <3>2, WalkerStays DEF PassengerOK
  <2>2. OneErrand(p)'
    <3>1. \A c \in {"checkIn", "wantBelt", "postBeltFull", "scan"} : At(p, c)' => belt'[p] \in Belt
      BY <1>6, <1>8, <1>9
    <3>2. right' = right /\ ~At(p, "postBeltFull")' /\ ~Home(p, "enter")'
      BY <1>2, <1>7, <1>8, <1>9 DEF HomeName, Carrying
    <3>3. ~At(p, "postBoardingFull") /\ right[p] = "out"
      BY <1>5 DEF PassengerOK, OneErrand, FirstTrip
    <3>4. QED
      BY <1>7, <1>8, <3>1, <3>2, <3>3 DEF OneErrand
  <2>3. QED
    BY <1>7, <2>1, <2>2 DEF PassengerOK
<1>11. Types'
  <2>1. SemTypes'
    <3>1. sem["kioskFull"] - 1 \in Nat
      BY <1>2, <1>3 DEF Types, SemTypes
    <3>2. QED
      BY <1>2, <1>3, <3>1 DEF Types, SemTypes
  <2>2. QueueTypes' /\ LoopTypes'
    BY <1>2, <1>3, <1>4 DEF Types, QueueTypes, LoopTypes
  <2>3. SignTypes'
    BY <1>2, <1>3, <1>6, KiosksGoRound DEF Types, SignTypes
  <2>4. QED
    BY <1>7, <2>1, <2>2, <2>3 DEF Types, Started
<1>12. QueuesMatch'
  <2>1. \A b \in Belt : \A q \in Passenger : Queued(q, securityQueue[b]) => belt'[q] = b
    BY <1>3, <1>6, <1>9 DEF QueuesMatch
  <2>2. \A l \in {"boarding", "special"} : loop'[l] = loop[l]
    BY <1>2, <1>3 DEF Types, LoopTypes
  <2>3. QED
    BY <1>2, <1>3, <1>4, <2>1, <2>2 DEF QueuesMatch
<1>13. HallCounts'
  <2>1. /\ sem'["kioskFull"] = sem["kioskFull"] - 1 /\ sem'["boardingFull"] = sem["boardingFull"]
        /\ sem'["specialKioskFull"] = sem["specialKioskFull"]
        /\ sem'["kioskEmpty"] = sem["kioskEmpty"] /\ sem["kioskFull"] \in Nat /\ sem["kioskEmpty"] \in Nat
    BY <1>2, <1>3 DEF Types, SemTypes
  <2>2. /\ Number("postKioskFull") \in Nat /\ Number("checkIn") \in Nat /\ Number("vipCheckIn") \in Nat
        /\ \A e \in {"postKioskFull", "postBoardingFull", "specialPost", "backPost"} :
             Number(e)' = Number(e)
        /\ \/ /\ Number("checkIn")' = Number("checkIn") + 1
              /\ Number("vipCheckIn")' = Number("vipCheckIn")
           \/ /\ Number("checkIn")' = Number("checkIn")
              /\ Number("vipCheckIn")' = Number("vipCheckIn") + 1
    <3>1. \A e : /\ Number(e) \in Nat
                 /\ Number(e)' = IF e = d THEN Number(e) + 1 ELSE Number(e)
      BY <1>7 DEF Started
    <3>2. d = "checkIn" \/ d = "vipCheckIn"
      OBVIOUS
    <3>3. QED
      BY <3>1, <3>2
  <2>3. boardingQueue' = boardingQueue /\ specialPassenger' = specialPassenger
    BY <1>2
  <2>4. KioskCount'
    BY <1>3, <1>4, <2>1, <2>2 DEF HallCounts, KioskCount
  <2>5. GateCount' /\ SpecialCount'
    BY <1>3, <2>1, <2>2, <2>3 DEF HallCounts, GateCount, SpecialCount
  <2>6. KiosksCount'
    <3>1. sem["kioskEmpty"] + Len(passenger) + Number("checkIn") + Number("vipCheckIn") = M
      BY <1>3 DEF HallCounts, KiosksCount
    <3>2. /\ sem'["kioskEmpty"] = sem["kioskEmpty"] /\ sem["kioskEmpty"] \in Nat
          /\ Len(passenger) \in Nat /\ Len(passenger') = Len(passenger) - 1
      BY <1>4, <2>1
    <3>3. sem'["kioskEmpty"] + Len(passenger') + Number("checkIn")' + Number("vipCheckIn")' = M
      <4>1. Number("checkIn") \in Nat /\ Number("vipCheckIn") \in Nat
        BY <2>2
      <4>2. CASE /\ Number("checkIn")' = Number("checkIn") + 1
                 /\ Number("vipCheckIn")' = Number("vipCheckIn")
        BY <3>1, <3>2, <4>1, <4>2
      <4>3. CASE /\ Number("checkIn")' = Number("checkIn")
                 /\ Number("vipCheckIn")' = Number("vipCheckIn") + 1
        <5>1. sem["kioskEmpty"] + (Len(passenger) - 1) + Number("checkIn") + (Number("vipCheckIn") + 1)
                = sem["kioskEmpty"] + Len(passenger) + Number("checkIn") + Number("vipCheckIn")
          <6>1. sem["kioskEmpty"] \in Nat /\ Len(passenger) \in Nat
            BY <3>2
          <6>2. QED
            BY <4>1, <6>1
        <5>2. QED
          BY <3>1, <3>2, <4>3, <5>1
      <4>4. QED
        BY <2>2, <4>2, <4>3
    <3>4. QED
      BY <3>3 DEF KiosksCount
  <2>7. QED
    BY <2>4, <2>5, <2>6 DEF HallCounts
<1>14. BeltCounts'
  <2>1. \A c \in {"postBeltFull", "scan"} : \A b \in Belt : NumberOf(b, c)' = NumberOf(b, c)
    <3> TAKE c \in {"postBeltFull", "scan"}
    <3>1. \A q \in Passenger : At(q, c)' <=> At(q, c)
      BY <1>7 DEF Started
    <3>2. \A q \in Passenger : belt'[q] = belt[q] \/ ~At(q, c)
      BY <1>6, <1>9
    <3>3. QED
      BY <3>1, <3>2, NumberSame
  <2>2. QED
    BY <1>2, <1>3, <2>1, BeltsStay
<1>15. QED
  BY <1>4, <1>7, <1>10, <1>11, <1>12, <1>13, <1>14, StepIs

LEMMA SecurityTakeKeeps ==
  ASSUME AirportInv, ChannelOK', NEW r \in Belt, SecurityTake(r)
  PROVE  AirportInv'
<1> USE DEF arrivals, signs, gate, cvars
<1>1. PICK p : p = Head(securityQueue[r])
  OBVIOUS
<1>2. /\ beltFull[r] > 0 /\ beltFull' = [beltFull EXCEPT ![r] = @ - 1]
      /\ securityQueue' = [securityQueue EXCEPT ![r] = Tail(@)]
      /\ Spawn(p, "scan")
      /\ beltLoop' = [beltLoop EXCEPT ![r] = "check"]
      /\ UNCHANGED <<passenger, boardingQueue, specialPassenger, sem, beltEmpty,
                     arrivals, signs, gate, loop, serving, cvars>>
  BY <1>1 DEF SecurityTake
<1>3. Types /\ QueuesMatch /\ HallCounts /\ BeltCounts
  BY TypesAre DEF AirportInv
<1>4. /\ p \in Passenger /\ securityQueue'[r] \in Seq(Passenger)
      /\ Len(securityQueue[r]) \in Nat /\ Len(securityQueue'[r]) = Len(securityQueue[r]) - 1
      /\ Queued(p, securityQueue[r])
      /\ NoneTwice(securityQueue'[r])
      /\ \A q : Queued(q, securityQueue'[r]) <=> Queued(q, securityQueue[r]) /\ q # p
      /\ \A b \in Belt \ {r} : securityQueue'[b] = securityQueue[b]
  <2>1. beltFull[r] \in Nat /\ NumberOf(r, "postBeltFull") \in Nat
    BY <1>3, Numbers, FS_Subset, FS_CardinalityType DEF Types, SemTypes, NumberOf
  <2>2. /\ Len(securityQueue[r]) # 0 /\ securityQueue[r] \in Seq(Passenger)
        /\ NoneTwice(securityQueue[r])
    BY <1>2, <1>3, <2>1 DEF BeltCounts, Types, QueueTypes, QueuesMatch
  <2>3. /\ securityQueue'[r] = Tail(securityQueue[r])
        /\ \A b \in Belt \ {r} : securityQueue'[b] = securityQueue[b]
    BY <1>2, <1>3 DEF Types, QueueTypes
  <2>4. QED
    BY <1>1, <2>2, <2>3, QueueLeave
<1>5. PassengerOK(p) /\ Home(p, "belt") /\ "belt" \in HomeName /\ belt[p] = r
  BY <1>3, <1>4, HomesHere, HomeNames DEF AirportInv, HomesAre, Other, QueuesMatch
<1>6. /\ Started(p, "scan")
      /\ \A q \in Passenger \ {p} : Same(q)
      /\ p \in Arrived /\ Arrived' = Arrived /\ OneHome(p)'
      /\ \A g \in HomeName : Home(p, g) <=> g = "belt"
      /\ \A g \in HomeName : Home(p, g)' <=> g = "scan"
  <2>1. "scan" \in Carrying \cap Point
    BY DEF Carrying, Point
  <2>2. \A q : \A b \in Belt :
          Queued(q, securityQueue'[b]) <=> Queued(q, securityQueue[b]) /\ q # p
    <3>1. \A b \in Belt \ {r} : ~Queued(p, securityQueue[b])
      BY <1>3, <1>4, <1>5 DEF QueuesMatch
    <3>2. QED
      BY <1>4, <3>1
  <2>3. QED
    BY <1>2, <1>4, <1>5, <2>1, <2>2, PassengerIsSent
<1>7. \A e : At(p, e)' <=> At(p, e) \/ e = "scan"
  BY <1>6 DEF Started
<1>8. PassengerOK(p)'
  <2>1. OneWalker(p)'
    <3>1. \A c \in LeftPoint \cup RightPoint : At(p, c)' <=> At(p, c)
      BY <1>7 DEF LeftPoint, RightPoint
    <3>2. ~Home(p, "special queue")' /\ ~Home(p, "special kiosk")' /\ ~Home(p, "gate")'
      BY <1>6, HomeNames DEF Other
    <3>3. QED
      BY <1>2, <1>4, <1>5, <3>1, <3>2, WalkerStays DEF PassengerOK
  <2>2. OneErrand(p)'
    BY <1>2, <1>5, <1>6, <1>7 DEF PassengerOK, OneErrand, FirstTrip, HomeName, Carrying
  <2>3. QED
    BY <1>6, <2>1, <2>2 DEF PassengerOK
<1>9. Types'
  <2>1. SemTypes'
    <3>1. beltFull[r] - 1 \in Nat
      BY <1>2, <1>3 DEF Types, SemTypes
    <3>2. QED
      BY <1>2, <1>3, <3>1 DEF Types, SemTypes
  <2>2. securityQueue' \in [Belt -> Seq(Passenger)]
    BY <1>2, <1>3, <1>4 DEF Types, QueueTypes
  <2>3. QueueTypes' /\ LoopTypes' /\ SignTypes'
    BY <1>2, <1>3, <2>2 DEF Types, QueueTypes, LoopTypes, SignTypes
  <2>4. QED
    BY <1>6, <2>1, <2>3 DEF Types, Started
<1>10. QueuesMatch'
  <2>1. \A b \in Belt : /\ NoneTwice(securityQueue'[b])
                        /\ \A q \in Passenger : Queued(q, securityQueue'[b]) => belt'[q] = b
    BY <1>2, <1>3, <1>4 DEF QueuesMatch
  <2>2. QED
    BY <1>2, <1>3, <2>1 DEF QueuesMatch
<1>11. HallCounts'
  BY <1>2, <1>3, <1>6, HallStays DEF Started
<1>12. BeltCounts'
  <2> SUFFICES ASSUME NEW b \in Belt
               PROVE  /\ Len(securityQueue'[b]) = beltFull'[b] + NumberOf(b, "postBeltFull")'
                      /\ beltEmpty'[b] + Len(securityQueue'[b]) + NumberOf(b, "scan")' = P
    BY DEF BeltCounts
  <2>1. /\ Len(securityQueue[b]) = beltFull[b] + NumberOf(b, "postBeltFull")
        /\ beltEmpty[b] + Len(securityQueue[b]) + NumberOf(b, "scan") = P
    BY <1>3 DEF BeltCounts
  <2>2. /\ NumberOf(b, "postBeltFull") \in Nat /\ NumberOf(b, "scan") \in Nat
        /\ NumberOf(b, "postBeltFull")' = NumberOf(b, "postBeltFull")
        /\ NumberOf(b, "scan")' = IF b = r THEN NumberOf(b, "scan") + 1 ELSE NumberOf(b, "scan")
    BY <1>2, <1>5, <1>6 DEF Started
  <2>3. /\ beltFull[b] \in Nat /\ beltEmpty[b] \in Nat /\ beltEmpty'[b] = beltEmpty[b]
        /\ beltFull'[b] = IF b = r THEN beltFull[b] - 1 ELSE beltFull[b]
    BY <1>2, <1>3 DEF Types, SemTypes
  <2>4. CASE b = r
    <3>1. /\ NumberOf(b, "scan")' = NumberOf(b, "scan") + 1
          /\ beltFull'[b] = beltFull[b] - 1
          /\ Len(securityQueue'[b]) = Len(securityQueue[b]) - 1 /\ Len(securityQueue[b]) \in Nat
      BY <1>4, <2>2, <2>3, <2>4
    <3>2. Len(securityQueue'[b]) = beltFull'[b] + NumberOf(b, "postBeltFull")'
      BY <2>1, <2>2, <2>3, <3>1
    <3>3. beltEmpty'[b] + Len(securityQueue'[b]) + NumberOf(b, "scan")' = P
      <4>1. /\ beltEmpty[b] + Len(securityQueue[b]) + NumberOf(b, "scan") = P
            /\ beltEmpty[b] \in Nat /\ beltEmpty'[b] = beltEmpty[b] /\ NumberOf(b, "scan") \in Nat
        BY <2>1, <2>2, <2>3
      <4>2. beltEmpty[b] + (Len(securityQueue[b]) - 1) + (NumberOf(b, "scan") + 1)
              = beltEmpty[b] + Len(securityQueue[b]) + NumberOf(b, "scan")
        BY <3>1, <4>1
      <4>3. QED
        BY <3>1, <4>1, <4>2
    <3>4. QED
      BY <3>2, <3>3
  <2>5. CASE b # r
    BY <1>4, <2>1, <2>2, <2>3, <2>5
  <2>6. QED
    BY <2>4, <2>5
<1>13. QED
  BY <1>4, <1>6, <1>8, <1>9, <1>10, <1>11, <1>12, StepIs

\* What the gate finds in its queue.
LEMMA FromGateIs ==
  ASSUME AirportInv, FromGate, NEW p, p = Head(boardingQueue)
  PROVE  /\ p \in Passenger /\ boardingQueue' \in Seq(Passenger)
         /\ Len(boardingQueue) \in Nat /\ Len(boardingQueue') = Len(boardingQueue) - 1
         /\ NoneTwice(boardingQueue')
         /\ \A q : Queued(q, boardingQueue') <=> Queued(q, boardingQueue) /\ q # p
         /\ PassengerOK(p) /\ Home(p, "gate") /\ "gate" \in HomeName
         /\ loop["boarding"] = "wait" /\ sem["boardingFull"] > 0
         /\ sem' = [sem EXCEPT !["boardingFull"] = @ - 1]
         /\ SemTypes /\ sem["boardingFull"] - 1 \in Nat
<1>1. /\ loop["boarding"] = "wait" /\ sem["boardingFull"] > 0
      /\ sem' = [sem EXCEPT !["boardingFull"] = @ - 1]
      /\ boardingQueue' = Tail(boardingQueue)
  BY DEF FromGate, Wait
<1>2. Types /\ QueuesMatch /\ HallCounts
  BY TypesAre DEF AirportInv
<1>3. /\ p \in Passenger /\ boardingQueue' \in Seq(Passenger)
      /\ Len(boardingQueue) \in Nat /\ Len(boardingQueue') = Len(boardingQueue) - 1
      /\ Queued(p, boardingQueue) /\ NoneTwice(boardingQueue')
      /\ \A q : Queued(q, boardingQueue') <=> Queued(q, boardingQueue) /\ q # p
  <2>1. /\ sem["boardingFull"] \in Nat
        /\ Number("postBoardingFull") \in Nat /\ Number("specialPost") \in Nat
    BY <1>2, Numbers, FS_Subset, FS_CardinalityType DEF Types, SemTypes, Number
  <2>2. /\ Len(boardingQueue) # 0 /\ boardingQueue \in Seq(Passenger)
        /\ NoneTwice(boardingQueue)
    BY <1>1, <1>2, <2>1 DEF HallCounts, GateCount, Types, QueueTypes, QueuesMatch
  <2>3. QED
    BY <1>1, <2>2, QueueLeave
<1>4. PassengerOK(p) /\ Home(p, "gate") /\ "gate" \in HomeName
  BY <1>2, <1>3, HomesHere, HomeNames DEF AirportInv, HomesAre, Other
<1>5. SemTypes /\ sem["boardingFull"] - 1 \in Nat
  BY <1>1, <1>2 DEF Types, SemTypes
<1>6. QED
  BY <1>1, <1>3, <1>4, <1>5

\* The gate lets go of one token and of one passenger.
LEMMA GateCountKept ==
  ASSUME HallCounts, SemTypes, Len(boardingQueue) \in Nat,
         Len(boardingQueue') = Len(boardingQueue) - 1,
         sem' = [sem EXCEPT !["boardingFull"] = @ - 1],
         passenger' = passenger, specialPassenger' = specialPassenger,
         \A e \in {"postKioskFull", "postBoardingFull", "specialPost", "backPost", "checkIn",
                   "vipCheckIn"} : Number(e) \in Nat /\ Number(e)' = Number(e)
  PROVE  HallCounts'
<1>1. /\ sem'["kioskFull"] = sem["kioskFull"] /\ sem'["boardingFull"] = sem["boardingFull"] - 1
      /\ sem'["specialKioskFull"] = sem["specialKioskFull"]
      /\ sem'["kioskEmpty"] = sem["kioskEmpty"] /\ sem["boardingFull"] \in Nat
  BY DEF SemTypes
<1>2. /\ Number("postBoardingFull") \in Nat /\ Number("specialPost") \in Nat
      /\ Number("postBoardingFull")' = Number("postBoardingFull")
      /\ Number("specialPost")' = Number("specialPost")
  OBVIOUS
<1>3. GateCount'
  BY <1>1, <1>2 DEF HallCounts, GateCount
<1>4. KioskCount' /\ SpecialCount' /\ KiosksCount'
  BY <1>1 DEF HallCounts, KioskCount, SpecialCount, KiosksCount
<1>5. QED
  BY <1>3, <1>4 DEF HallCounts

LEMMA BoardingLoseKeeps ==
  ASSUME AirportInv, ChannelOK, ChannelOK', BoardingLose
  PROVE  AirportInv'
<1> USE DEF arrivals, signs
<1>1. PICK p : p = Head(boardingQueue)
  OBVIOUS
<1>2. /\ FromGate /\ Spawn(p, "back")
      /\ right[p] = "out" /\ right' = [right EXCEPT ![p] = "wantDb"] /\ left' = left
      /\ loop' = [loop EXCEPT !["boarding"] = "check"]
      /\ UNCHANGED <<passenger, securityQueue, specialPassenger, beltEmpty,
                     beltFull, arrivals, signs, boarderCnt, boarded, beltLoop, serving>>
  BY <1>1 DEF BoardingLose, Channel!RightArrive
<1>3. Types /\ QueuesMatch /\ HallCounts /\ BeltCounts
  BY TypesAre DEF AirportInv
<1>4. /\ p \in Passenger /\ boardingQueue' \in Seq(Passenger)
      /\ Len(boardingQueue) \in Nat /\ Len(boardingQueue') = Len(boardingQueue) - 1
      /\ NoneTwice(boardingQueue')
      /\ \A q : Queued(q, boardingQueue') <=> Queued(q, boardingQueue) /\ q # p
      /\ PassengerOK(p) /\ Home(p, "gate") /\ "gate" \in HomeName
      /\ loop["boarding"] = "wait" /\ sem' = [sem EXCEPT !["boardingFull"] = @ - 1]
      /\ sem["boardingFull"] - 1 \in Nat
  BY <1>1, <1>2, FromGateIs
<1>5. /\ right'[p] = "wantDb" /\ left'[p] = left[p]
      /\ \A q \in Passenger \ {p} : left'[q] = left[q] /\ right'[q] = right[q]
  BY <1>2, <1>4, RightChanges
<1>6. /\ Started(p, "back")
      /\ \A q \in Passenger \ {p} : Same(q)
      /\ p \in Arrived /\ Arrived' = Arrived /\ OneHome(p)'
      /\ \A g \in HomeName : Home(p, g) <=> g = "gate"
      /\ \A g \in HomeName : Home(p, g)' <=> g = "back"
  <2>1. "back" \in Carrying \cap Point
    BY DEF Carrying, Point
  <2>2. QED
    BY <1>2, <1>4, <1>5, <2>1, PassengerIsSent
<1>7. \A e : At(p, e)' <=> At(p, e) \/ e = "back"
  BY <1>6 DEF Started
<1>8. PassengerOK(p)'
  <2>1. OneWalker(p)'
    <3>1. \A c \in RightPoint : At(p, c)' <=> c = "back"
      BY <1>2, <1>4, <1>7 DEF PassengerOK, OneWalker, RightPoint
    <3>2. \A c \in LeftPoint : At(p, c)' <=> At(p, c)
      BY <1>7 DEF LeftPoint
    <3>3. ~Home(p, "special queue")' /\ ~Home(p, "special kiosk")' /\ ~Home(p, "gate")'
      BY <1>6, HomeNames DEF Other
    <3>4. QED
      BY <1>4, <1>5, <3>1, <3>2, <3>3 DEF PassengerOK, OneWalker, LeftPoint, RightPoint
  <2>2. OneErrand(p)'
    BY <1>2, <1>4, <1>6, <1>7 DEF PassengerOK, OneErrand, FirstTrip, HomeName, Carrying
  <2>3. QED
    BY <1>6, <2>1, <2>2 DEF PassengerOK
<1>9. Types'
  <2>1. SemTypes'
    BY <1>2, <1>3, <1>4 DEF Types, SemTypes
  <2>2. QueueTypes' /\ LoopTypes' /\ SignTypes'
    BY <1>2, <1>3, <1>4 DEF Types, QueueTypes, LoopTypes, SignTypes
  <2>3. QED
    BY <1>6, <2>1, <2>2 DEF Types, Started
<1>10. QueuesMatch'
  <2>1. \A l \in {"boarding", "special"} : serving'[l] # 0 <=> loop'[l] = "serve"
    BY <1>2, <1>3, <1>4 DEF QueuesMatch, Types, LoopTypes, Loop
  <2>2. QED
    BY <1>2, <1>3, <1>4, <2>1 DEF QueuesMatch
<1>11. HallCounts'
  BY <1>2, <1>3, <1>4, <1>6, GateCountKept DEF Types, Started
<1>12. BeltCounts'
  BY <1>2, <1>3, <1>6, BeltsStay DEF Started
<1>13. QED
  BY <1>4, <1>6, <1>8, <1>9, <1>10, <1>11, <1>12, StepIs

LEMMA BoardingCallKeeps ==
  ASSUME AirportInv, ChannelOK', BoardingCall
  PROVE  AirportInv'
<1> USE DEF arrivals, signs, gate, cvars
<1>1. PICK p : p = Head(boardingQueue)
  OBVIOUS
<1>2. /\ FromGate
      /\ serving' = [serving EXCEPT !["boarding"] = p]
      /\ loop' = [loop EXCEPT !["boarding"] = "serve"]
      /\ UNCHANGED <<passenger, securityQueue, specialPassenger, beltEmpty,
                     beltFull, arrivals, signs, gate, beltLoop, threads, cvars>>
  BY <1>1 DEF BoardingCall
<1>3. Types /\ QueuesMatch /\ HallCounts /\ BeltCounts
  BY TypesAre DEF AirportInv
<1>4. /\ p \in Passenger /\ boardingQueue' \in Seq(Passenger)
      /\ Len(boardingQueue) \in Nat /\ Len(boardingQueue') = Len(boardingQueue) - 1
      /\ NoneTwice(boardingQueue')
      /\ \A q : Queued(q, boardingQueue') <=> Queued(q, boardingQueue) /\ q # p
      /\ PassengerOK(p) /\ Home(p, "gate") /\ "gate" \in HomeName
      /\ loop["boarding"] = "wait" /\ sem' = [sem EXCEPT !["boardingFull"] = @ - 1]
      /\ sem["boardingFull"] - 1 \in Nat
  BY <1>1, <1>2, FromGateIs
<1>5. p \in Arrived /\ Arrived' = Arrived /\ \A g \in HomeName : Home(p, g) <=> g = "gate"
  BY <1>2, <1>4, HomeIs DEF Arrived
<1>6. /\ \A q, e : At(q, e)' <=> At(q, e)
      /\ \A e : Number(e) \in Nat /\ Number(e)' = Number(e)
      /\ \A b \in Belt : \A e : NumberOf(b, e)' = NumberOf(b, e)
  BY <1>2, ThreadsStay
<1>7. /\ serving["boarding"] = 0 /\ serving'["boarding"] = p
      /\ serving'["special"] = serving["special"] /\ p # 0 /\ p \in 0 .. TO_BE_BOARDED
  BY <1>2, <1>3, <1>4, Numbers DEF QueuesMatch, Types, LoopTypes
<1>8. ASSUME NEW q \in Passenger \ {p} PROVE Same(q)
  BY <1>2, <1>4, <1>5, <1>6, <1>7, Numbers, SameIs
<1>9. \A g \in HomeName : Home(p, g)' <=> g = "called"
  <2>1. \A g \in Carrying : ~Home(p, g)'
    BY <1>5, <1>6, HomesHere, HomesAfter, HomeNames DEF HomesAre, Other
  <2>2. \A g \in Other : Home(p, g) <=> g = "gate"
    BY <1>5, HomeNames
  <2>3. /\ ~Home(p, "kiosk queue")' /\ ~Home(p, "belt")' /\ ~Home(p, "gate")'
        /\ ~Home(p, "special queue")' /\ Home(p, "called")'
        /\ ~Home(p, "special kiosk")' /\ ~Home(p, "plane")'
    <3>1. /\ ~Queued(p, passenger) /\ ~Queued(p, specialPassenger)
          /\ \A b \in Belt : ~Queued(p, securityQueue[b])
          /\ serving["special"] # p /\ p \notin boarded
      BY <2>2, HomesHere DEF HomesAre, Other
    <3>2. /\ ~Queued(p, passenger') /\ ~Queued(p, specialPassenger') /\ ~Queued(p, boardingQueue')
          /\ \A b \in Belt : ~Queued(p, securityQueue'[b])
          /\ serving'["special"] # p /\ p \notin boarded' /\ serving'["boarding"] = p
      BY <1>2, <1>4, <1>7, <3>1
    <3>3. QED
      BY <3>2, HomesAfter DEF HomesAre
  <2>4. QED
    BY <2>1, <2>3, HomeNames DEF Other
<1>10. PassengerOK(p)'
  <2>1. OneHome(p)'
    BY <1>4, <1>5, <1>9, HomeMoves DEF HomeName
  <2>2. OneWalker(p)'
    <3>1. ~Home(p, "special queue")' /\ ~Home(p, "special kiosk")' /\ ~Home(p, "gate")'
      BY <1>9, HomeNames DEF Other
    <3>2. QED
      BY <1>2, <1>4, <1>6, <3>1, WalkerStays DEF PassengerOK
  <2>3. OneErrand(p)'
    BY <1>2, <1>4, <1>5, <1>6, <1>9 DEF PassengerOK, OneErrand, FirstTrip, HomeName, Carrying
  <2>4. QED
    BY <2>1, <2>2, <2>3 DEF PassengerOK
<1>11. Types'
  <2>1. SemTypes'
    BY <1>2, <1>3, <1>4 DEF Types, SemTypes
  <2>2. QueueTypes' /\ SignTypes'
    BY <1>2, <1>3, <1>4 DEF Types, QueueTypes, SignTypes
  <2>3. LoopTypes'
    BY <1>2, <1>3, <1>7 DEF Types, LoopTypes
  <2>4. QED
    BY <1>2, <1>3, <2>1, <2>2, <2>3 DEF Types
<1>12. QueuesMatch'
  <2>1. \A l \in {"boarding", "special"} : serving'[l] # 0 <=> loop'[l] = "serve"
    BY <1>2, <1>3, <1>7 DEF QueuesMatch, Types, LoopTypes, Loop
  <2>2. QED
    BY <1>2, <1>3, <1>4, <2>1 DEF QueuesMatch
<1>13. HallCounts'
  BY <1>2, <1>3, <1>4, <1>6, GateCountKept DEF Types
<1>14. BeltCounts'
  BY <1>2, <1>3, <1>6, BeltsStay
<1>15. QED
  BY <1>4, <1>8, <1>10, <1>11, <1>12, <1>13, <1>14, StepIs

LEMMA SpecialKioskTakeKeeps ==
  ASSUME AirportInv, ChannelOK', SpecialKioskTake
  PROVE  AirportInv'
<1> USE DEF arrivals, signs, gate, cvars
<1>1. PICK p : p = Head(specialPassenger)
  OBVIOUS
<1>2. /\ loop["special"] = "wait" /\ sem["specialKioskFull"] > 0
      /\ sem' = [sem EXCEPT !["specialKioskFull"] = @ - 1]
      /\ serving' = [serving EXCEPT !["special"] = p]
      /\ specialPassenger' = Tail(specialPassenger)
      /\ loop' = [loop EXCEPT !["special"] = "serve"]
      /\ UNCHANGED <<passenger, securityQueue, boardingQueue, beltEmpty, beltFull,
                     arrivals, signs, gate, beltLoop, threads, cvars>>
  BY <1>1 DEF SpecialKioskTake, Wait
<1>3. Types /\ QueuesMatch /\ HallCounts /\ BeltCounts
  BY TypesAre DEF AirportInv
<1>4. /\ p \in Passenger /\ specialPassenger' \in Seq(Passenger)
      /\ Len(specialPassenger) \in Nat /\ Len(specialPassenger') = Len(specialPassenger) - 1
      /\ Queued(p, specialPassenger) /\ NoneTwice(specialPassenger')
      /\ \A q : Queued(q, specialPassenger') <=> Queued(q, specialPassenger) /\ q # p
  <2>1. sem["specialKioskFull"] \in Nat /\ Number("backPost") \in Nat
    BY <1>3, Numbers, FS_Subset, FS_CardinalityType DEF Types, SemTypes, Number
  <2>2. /\ Len(specialPassenger) # 0 /\ specialPassenger \in Seq(Passenger)
        /\ NoneTwice(specialPassenger)
    BY <1>2, <1>3, <2>1 DEF HallCounts, SpecialCount, Types, QueueTypes, QueuesMatch
  <2>3. QED
    BY <1>1, <1>2, <2>2, QueueLeave
<1>5. /\ PassengerOK(p) /\ Home(p, "special queue") /\ "special queue" \in HomeName
      /\ left[p] = "out"
  BY <1>3, <1>4, HomesHere, HomeNames DEF AirportInv, HomesAre, Other, PassengerOK, OneWalker
<1>6. p \in Arrived /\ Arrived' = Arrived /\ \A g \in HomeName : Home(p, g) <=> g = "special queue"
  BY <1>2, <1>4, <1>5, HomeIs DEF Arrived
<1>7. /\ \A q, e : At(q, e)' <=> At(q, e)
      /\ \A e : Number(e) \in Nat /\ Number(e)' = Number(e)
      /\ \A b \in Belt : \A e : NumberOf(b, e)' = NumberOf(b, e)
  BY <1>2, ThreadsStay
<1>8. /\ serving["special"] = 0 /\ serving'["special"] = p
      /\ serving'["boarding"] = serving["boarding"] /\ p # 0 /\ p \in 0 .. TO_BE_BOARDED
  BY <1>2, <1>3, <1>4, Numbers DEF QueuesMatch, Types, LoopTypes
<1>9. ASSUME NEW q \in Passenger \ {p} PROVE Same(q)
  BY <1>2, <1>4, <1>6, <1>7, <1>8, Numbers, SameIs
<1>10. \A g \in HomeName : Home(p, g)' <=> g = "special kiosk"
  <2>1. \A g \in Carrying : ~Home(p, g)'
    BY <1>6, <1>7, HomesHere, HomesAfter, HomeNames DEF HomesAre, Other
  <2>2. \A g \in Other : Home(p, g) <=> g = "special queue"
    BY <1>6, HomeNames
  <2>3. /\ ~Home(p, "kiosk queue")' /\ ~Home(p, "belt")' /\ ~Home(p, "gate")'
        /\ ~Home(p, "special queue")' /\ ~Home(p, "called")'
        /\ Home(p, "special kiosk")' /\ ~Home(p, "plane")'
    <3>1. /\ ~Queued(p, passenger) /\ ~Queued(p, boardingQueue)
          /\ \A b \in Belt : ~Queued(p, securityQueue[b])
          /\ serving["boarding"] # p /\ p \notin boarded
      BY <2>2, HomesHere DEF HomesAre, Other
    <3>2. /\ ~Queued(p, passenger') /\ ~Queued(p, specialPassenger') /\ ~Queued(p, boardingQueue')
          /\ \A b \in Belt : ~Queued(p, securityQueue'[b])
          /\ serving'["boarding"] # p /\ p \notin boarded' /\ serving'["special"] = p
      BY <1>2, <1>4, <1>8, <3>1
    <3>3. QED
      BY <3>2, HomesAfter DEF HomesAre
  <2>4. QED
    BY <2>1, <2>3, HomeNames DEF Other
<1>11. PassengerOK(p)'
  <2>1. OneHome(p)'
    BY <1>4, <1>6, <1>10, HomeMoves DEF HomeName
  <2>2. OneWalker(p)'
    <3>1. ~Home(p, "gate")'
      BY <1>10, HomeNames DEF Other
    <3>2. QED
      BY <1>2, <1>4, <1>5, <1>7, <3>1, WalkerStays DEF PassengerOK
  <2>3. OneErrand(p)'
    BY <1>2, <1>5, <1>6, <1>7, <1>10 DEF PassengerOK, OneErrand, FirstTrip, HomeName, Carrying
  <2>4. QED
    BY <2>1, <2>2, <2>3 DEF PassengerOK
<1>12. Types'
  <2>1. SemTypes'
    <3>1. sem["specialKioskFull"] - 1 \in Nat
      BY <1>2, <1>3 DEF Types, SemTypes
    <3>2. QED
      BY <1>2, <1>3, <3>1 DEF Types, SemTypes
  <2>2. QueueTypes' /\ SignTypes'
    BY <1>2, <1>3, <1>4 DEF Types, QueueTypes, SignTypes
  <2>3. LoopTypes'
    BY <1>2, <1>3, <1>8 DEF Types, LoopTypes
  <2>4. QED
    BY <1>2, <1>3, <2>1, <2>2, <2>3 DEF Types
<1>13. QueuesMatch'
  <2>1. \A l \in {"boarding", "special"} : serving'[l] # 0 <=> loop'[l] = "serve"
    BY <1>2, <1>3, <1>8 DEF QueuesMatch, Types, LoopTypes, Loop
  <2>2. QED
    BY <1>2, <1>3, <1>4, <2>1 DEF QueuesMatch
<1>14. HallCounts'
  <2>1. /\ sem'["kioskFull"] = sem["kioskFull"] /\ sem'["boardingFull"] = sem["boardingFull"]
        /\ sem'["specialKioskFull"] = sem["specialKioskFull"] - 1
        /\ sem'["kioskEmpty"] = sem["kioskEmpty"] /\ sem["specialKioskFull"] \in Nat
    BY <1>2, <1>3 DEF Types, SemTypes
  <2>2. SpecialCount'
    <3>1. /\ Len(specialPassenger) = sem["specialKioskFull"] + Number("backPost")
          /\ Number("backPost") \in Nat /\ Number("backPost")' = Number("backPost")
      BY <1>3, <1>7 DEF HallCounts, SpecialCount
    <3>2. Len(specialPassenger') = sem'["specialKioskFull"] + Number("backPost")'
      BY <1>4, <2>1, <3>1
    <3>3. QED
      BY <3>2 DEF SpecialCount
  <2>3. KioskCount' /\ GateCount' /\ KiosksCount'
    BY <1>2, <1>3, <1>7, <2>1 DEF HallCounts, KioskCount, GateCount, KiosksCount
  <2>4. QED
    BY <2>2, <2>3 DEF HallCounts
<1>15. BeltCounts'
  BY <1>2, <1>3, <1>7, BeltsStay
<1>16. QED
  BY <1>4, <1>9, <1>11, <1>12, <1>13, <1>14, <1>15, StepIs

LEMMA BoardingSeatKeeps ==
  ASSUME AirportInv, ChannelOK', BoardingSeat
  PROVE  AirportInv'
<1> USE DEF sems, arrivals, signs, cvars
<1>1. PICK p : p = serving["boarding"]
  OBVIOUS
<1>2. /\ loop["boarding"] = "serve"
      /\ boarderCnt' = boarderCnt + 1 /\ boarded' = boarded \cup {p}
      /\ serving' = [serving EXCEPT !["boarding"] = 0]
      /\ loop' = [loop EXCEPT !["boarding"] = "check"]
      /\ UNCHANGED <<queues, sems, arrivals, signs, beltLoop, threads, cvars>>
  BY <1>1 DEF BoardingSeat
<1>3. Types /\ QueuesMatch /\ HallCounts /\ BeltCounts
  BY TypesAre DEF AirportInv
<1>4. p \in Passenger
  BY <1>1, <1>2, <1>3, Numbers DEF QueuesMatch, Types, LoopTypes, Passenger
<1>5. PassengerOK(p) /\ Home(p, "called") /\ "called" \in HomeName
  BY <1>1, <1>4, HomesHere, HomeNames DEF AirportInv, HomesAre, Other
<1>6. p \in Arrived /\ Arrived' = Arrived /\ \A g \in HomeName : Home(p, g) <=> g = "called"
  BY <1>2, <1>4, <1>5, HomeIs DEF Arrived
<1>7. /\ \A q, e : At(q, e)' <=> At(q, e)
      /\ \A e : Number(e) \in Nat /\ Number(e)' = Number(e)
      /\ \A b \in Belt : \A e : NumberOf(b, e)' = NumberOf(b, e)
  BY <1>2, ThreadsStay
<1>8. serving'["boarding"] = 0 /\ serving'["special"] = serving["special"] /\ p # 0
  BY <1>2, <1>3, <1>4, Numbers DEF Types, LoopTypes
<1>9. ASSUME NEW q \in Passenger \ {p} PROVE Same(q)
  <2>1. /\ serving'["boarding"] = q <=> serving["boarding"] = q
        /\ q \in boarded' <=> q \in boarded
    BY <1>1, <1>2, <1>8, Numbers
  <2>2. QED
    BY <1>2, <1>6, <1>7, <1>8, <2>1, SameIs DEF queues
<1>10. ~Home(p, "plane")
  BY <1>6, HomeNames DEF Other
<1>11. \A g \in HomeName : Home(p, g)' <=> g = "plane"
  <2>1. \A g \in Carrying : ~Home(p, g)'
    BY <1>6, <1>7, HomesHere, HomesAfter, HomeNames DEF HomesAre, Other
  <2>2. \A g \in Other : Home(p, g) <=> g = "called"
    BY <1>6, HomeNames
  <2>3. /\ ~Home(p, "kiosk queue")' /\ ~Home(p, "belt")' /\ ~Home(p, "gate")'
        /\ ~Home(p, "special queue")' /\ ~Home(p, "called")'
        /\ ~Home(p, "special kiosk")' /\ Home(p, "plane")'
    <3>1. /\ ~Queued(p, passenger) /\ ~Queued(p, boardingQueue) /\ ~Queued(p, specialPassenger)
          /\ \A b \in Belt : ~Queued(p, securityQueue[b])
          /\ serving["special"] # p
      BY <2>2, HomesHere DEF HomesAre, Other
    <3>2. /\ ~Queued(p, passenger') /\ ~Queued(p, specialPassenger') /\ ~Queued(p, boardingQueue')
          /\ \A b \in Belt : ~Queued(p, securityQueue'[b])
          /\ serving'["boarding"] # p /\ p \in boarded' /\ serving'["special"] # p
      BY <1>2, <1>8, <3>1 DEF queues
    <3>3. QED
      BY <3>2, HomesAfter DEF HomesAre
  <2>4. QED
    BY <2>1, <2>3, HomeNames DEF Other
<1>12. PassengerOK(p)'
  <2>1. OneHome(p)'
    BY <1>4, <1>6, <1>11, HomeMoves DEF HomeName
  <2>2. OneWalker(p)'
    <3>1. ~Home(p, "special queue")' /\ ~Home(p, "special kiosk")' /\ ~Home(p, "gate")'
      BY <1>11, HomeNames DEF Other
    <3>2. QED
      BY <1>2, <1>4, <1>5, <1>7, <3>1, WalkerStays DEF PassengerOK
  <2>3. OneErrand(p)'
    BY <1>2, <1>5, <1>6, <1>7, <1>11 DEF PassengerOK, OneErrand, FirstTrip, HomeName, Carrying
  <2>4. QED
    BY <2>1, <2>2, <2>3 DEF PassengerOK
<1>13. boarderCnt' = Cardinality(boarded') /\ boarderCnt' \in 0 .. TO_BE_BOARDED
  <2>1. p \notin boarded /\ boarded \in SUBSET Passenger /\ boarderCnt = Cardinality(boarded)
    BY <1>3, <1>10, HomesHere DEF HomesAre, Types, LoopTypes, QueuesMatch
  <2>2. Cardinality(boarded') = Cardinality(boarded) + 1
    BY <1>2, <1>4, <2>1, CountOne
  <2>3. boarded' \subseteq Passenger
    BY <1>2, <1>4, <2>1
  <2>4. Cardinality(boarded') \in Nat /\ Cardinality(boarded') <= TO_BE_BOARDED
    BY <2>3, Numbers, FS_Subset, FS_CardinalityType
  <2>5. QED
    BY <1>2, <2>1, <2>2, <2>4, Numbers
<1>14. Types'
  <2>1. loop' \in [Loop -> {"check", "wait", "serve", "exit"}]
    BY <1>2, <1>3 DEF Types, LoopTypes
  <2>2. serving' \in [{"boarding", "special"} -> 0 .. TO_BE_BOARDED]
    BY <1>2, <1>3, Numbers DEF Types, LoopTypes
  <2>3. LoopTypes'
    BY <1>2, <1>3, <1>4, <1>13, <2>1, <2>2 DEF Types, LoopTypes
  <2>4. QED
    BY <1>2, <1>3, <2>3 DEF Types, QueueTypes, SemTypes, SignTypes, queues
<1>15. QueuesMatch'
  <2>1. \A l \in {"boarding", "special"} : serving'[l] # 0 <=> loop'[l] = "serve"
    BY <1>2, <1>3, <1>8 DEF QueuesMatch, Types, LoopTypes, Loop
  <2>2. QED
    BY <1>2, <1>3, <1>13, <2>1 DEF QueuesMatch, queues
<1>16. HallCounts'
  BY <1>2, <1>3, <1>7, HallStays DEF queues
<1>17. BeltCounts'
  BY <1>2, <1>3, <1>7, BeltsStay DEF queues
<1>18. QED
  BY <1>4, <1>9, <1>12, <1>14, <1>15, <1>16, <1>17, StepIs

LEMMA SpecialKioskSendKeeps ==
  ASSUME AirportInv, ChannelOK, ChannelOK', SpecialKioskSend
  PROVE  AirportInv'
<1> USE DEF sems, arrivals, signs, gate
<1>1. PICK p : p = serving["special"]
  OBVIOUS
<1>2. /\ loop["special"] = "serve" /\ Spawn(p, "special")
      /\ left[p] = "out" /\ left' = [left EXCEPT ![p] = "wantRc"] /\ right' = right
      /\ serving' = [serving EXCEPT !["special"] = 0]
      /\ loop' = [loop EXCEPT !["special"] = "check"]
      /\ UNCHANGED <<queues, sems, arrivals, signs, gate, beltLoop>>
  BY <1>1 DEF SpecialKioskSend, Channel!LeftArrive
<1>3. Types /\ QueuesMatch /\ HallCounts /\ BeltCounts
  BY TypesAre DEF AirportInv
<1>4. p \in Passenger
  BY <1>1, <1>2, <1>3, Numbers DEF QueuesMatch, Types, LoopTypes, Passenger
<1>5. PassengerOK(p) /\ Home(p, "special kiosk") /\ "special kiosk" \in HomeName
  BY <1>1, <1>4, HomesHere, HomeNames DEF AirportInv, HomesAre, Other
<1>6. p \in Arrived /\ Arrived' = Arrived /\ \A g \in HomeName : Home(p, g) <=> g = "special kiosk"
  BY <1>2, <1>4, <1>5, HomeIs DEF Arrived
<1>7. Started(p, "special")
  <2>1. ~At(p, "special")
    BY <1>6, HomesHere DEF HomesAre, HomeName, Carrying
  <2>2. QED
    BY <1>2, <1>3, <1>4, <2>1, ThreadStarts DEF Types, Point
<1>8. \A q, e : At(q, e)' <=> At(q, e) \/ (q = p /\ e = "special")
  BY <1>7 DEF Started
<1>9. /\ serving'["special"] = 0 /\ serving'["boarding"] = serving["boarding"] /\ p # 0
      /\ left'[p] = "wantRc" /\ right'[p] = right[p]
      /\ \A q \in Passenger \ {p} : left'[q] = left[q] /\ right'[q] = right[q]
  <2>1. serving'["special"] = 0 /\ serving'["boarding"] = serving["boarding"] /\ p # 0
    BY <1>2, <1>3, <1>4, Numbers DEF Types, LoopTypes
  <2>2. QED
    BY <1>2, <1>4, <2>1, LeftChanges
<1>10. ASSUME NEW q \in Passenger \ {p} PROVE Same(q)
  <2>1. serving'["special"] = q <=> serving["special"] = q
    BY <1>1, <1>9, Numbers
  <2>2. QED
    BY <1>2, <1>6, <1>8, <1>9, <2>1, SameIs DEF queues
<1>11. \A g \in HomeName : Home(p, g)' <=> g = "special"
  <2>1. \A g \in Carrying : Home(p, g)' <=> g = "special"
    BY <1>6, <1>8, HomesHere, HomesAfter, HomeNames DEF HomesAre, Other
  <2>2. \A g \in Other : Home(p, g) <=> g = "special kiosk"
    BY <1>6, HomeNames
  <2>3. /\ ~Home(p, "kiosk queue")' /\ ~Home(p, "belt")' /\ ~Home(p, "gate")'
        /\ ~Home(p, "special queue")' /\ ~Home(p, "called")'
        /\ ~Home(p, "special kiosk")' /\ ~Home(p, "plane")'
    <3>1. /\ ~Queued(p, passenger) /\ ~Queued(p, boardingQueue) /\ ~Queued(p, specialPassenger)
          /\ \A b \in Belt : ~Queued(p, securityQueue[b])
          /\ serving["boarding"] # p /\ p \notin boarded
      BY <2>2, HomesHere DEF HomesAre, Other
    <3>2. /\ ~Queued(p, passenger') /\ ~Queued(p, specialPassenger') /\ ~Queued(p, boardingQueue')
          /\ \A b \in Belt : ~Queued(p, securityQueue'[b])
          /\ serving'["boarding"] # p /\ p \notin boarded' /\ serving'["special"] # p
      BY <1>2, <1>9, <3>1 DEF queues
    <3>3. QED
      BY <3>2, HomesAfter DEF HomesAre
  <2>4. QED
    BY <2>1, <2>3, HomeNames DEF Other, Carrying
<1>12. PassengerOK(p)'
  <2>1. OneHome(p)'
    BY <1>4, <1>6, <1>11, HomeMoves DEF HomeName, Carrying
  <2>2. OneWalker(p)'
    <3>1. \A c \in LeftPoint : At(p, c)' <=> c = "special"
      BY <1>2, <1>4, <1>5, <1>8 DEF PassengerOK, OneWalker, LeftPoint
    <3>2. \A c \in RightPoint : At(p, c)' <=> At(p, c)
      BY <1>8 DEF RightPoint
    <3>3. ~Home(p, "special queue")' /\ ~Home(p, "special kiosk")' /\ ~Home(p, "gate")'
      BY <1>11, HomeNames DEF Other, Carrying
    <3>4. QED
      BY <1>5, <1>9, <3>1, <3>2, <3>3 DEF PassengerOK, OneWalker, LeftPoint, RightPoint
  <2>3. OneErrand(p)'
    BY <1>2, <1>5, <1>6, <1>8, <1>11 DEF PassengerOK, OneErrand, FirstTrip, HomeName, Carrying
  <2>4. QED
    BY <2>1, <2>2, <2>3 DEF PassengerOK
<1>13. Types'
  <2>1. loop' \in [Loop -> {"check", "wait", "serve", "exit"}]
    BY <1>2, <1>3 DEF Types, LoopTypes
  <2>2. serving' \in [{"boarding", "special"} -> 0 .. TO_BE_BOARDED]
    BY <1>2, <1>3, Numbers DEF Types, LoopTypes
  <2>3. LoopTypes'
    BY <1>2, <1>3, <2>1, <2>2 DEF Types, LoopTypes
  <2>4. QED
    BY <1>2, <1>3, <1>7, <2>3 DEF Types, QueueTypes, SemTypes, SignTypes, queues, Started
<1>14. QueuesMatch'
  <2>1. \A l \in {"boarding", "special"} : serving'[l] # 0 <=> loop'[l] = "serve"
    BY <1>2, <1>3, <1>9 DEF QueuesMatch, Types, LoopTypes, Loop
  <2>2. QED
    BY <1>2, <1>3, <2>1 DEF QueuesMatch, queues
<1>15. HallCounts'
  BY <1>2, <1>3, <1>7, HallStays DEF queues, Started
<1>16. BeltCounts'
  BY <1>2, <1>3, <1>7, BeltsStay DEF queues, Started
<1>17. QED
  BY <1>4, <1>10, <1>12, <1>13, <1>14, <1>15, <1>16, StepIs

\* What there is to prove of a step that is about no passenger.
LEMMA NobodyMoves ==
  ASSUME AirportInv, ChannelOK', Types', QueuesMatch',
         UNCHANGED <<queues, sems, belt, serving, boarded, threads, cvars>>,
         Arrived' = Arrived
  PROVE  AirportInv'
<1>1. Types /\ HallCounts /\ BeltCounts
  BY TypesAre DEF AirportInv
<1>2. /\ \A q, e : At(q, e)' <=> At(q, e)
      /\ \A e : Number(e)' = Number(e)
      /\ \A b \in Belt : \A e : NumberOf(b, e)' = NumberOf(b, e)
  BY ThreadsStay
<1>3. \A q \in Passenger : Same(q)
  BY <1>2, SameIs DEF queues, cvars
<1>4. HallCounts'
  BY <1>1, <1>2, HallStays DEF queues, sems
<1>5. BeltCounts'
  BY <1>1, <1>2, BeltsStay DEF queues, sems
<1>6. \A q \in Passenger : PassengerOK(q)'
  BY <1>3, SameKeeps DEF AirportInv
<1>7. TypeOK'
  BY ChannelIsAfter, TypesAfter
<1>8. QED
  BY <1>4, <1>5, <1>6, <1>7 DEF AirportInv

LEMMA GenerateInsertKeeps ==
  ASSUME AirportInv, ChannelOK', GenerateInsert
  PROVE  AirportInv'
<1> USE DEF signs, gate, loops
<1>1. /\ generated < TO_BE_BOARDED /\ ~inserting
      /\ generated' = generated + 1 /\ inserting' = TRUE
      /\ UNCHANGED <<queues, sems, signs, gate, loops, threads, cvars>>
  BY DEF GenerateInsert
<1>2. Types /\ QueuesMatch
  BY TypesAre DEF AirportInv
<1>3. generated \in Nat /\ generated' \in 0 .. TO_BE_BOARDED /\ generated' - 1 = generated /\ generated' # 0
  BY <1>1, <1>2, Numbers DEF Types, SignTypes
<1>4. Arrived' = Arrived
  BY <1>1, <1>3 DEF Arrived
<1>5. Types'
  BY <1>1, <1>2, <1>3 DEF Types, QueueTypes, SemTypes, LoopTypes, SignTypes, queues, sems
<1>6. QueuesMatch'
  BY <1>1, <1>2, <1>3 DEF QueuesMatch, queues
<1>7. QED
  BY <1>1, <1>4, <1>5, <1>6, NobodyMoves

LEMMA GenerateSpawnKeeps ==
  ASSUME AirportInv, ChannelOK', GenerateSpawn
  PROVE  AirportInv'
<1> USE DEF sems, signs, gate, loops, cvars
<1>1. PICK p : p = generated
  OBVIOUS
<1>2. /\ inserting /\ inserting' = FALSE /\ Spawn(p, "enter")
      /\ UNCHANGED <<generated, queues, sems, signs, gate, loops, cvars>>
  BY <1>1 DEF GenerateSpawn
<1>3. Types /\ QueuesMatch /\ HallCounts /\ BeltCounts
  BY TypesAre DEF AirportInv
<1>4. /\ p \in Passenger
      /\ p \notin Arrived /\ p \in Arrived'
      /\ \A q \in Passenger \ {p} : q \in Arrived' <=> q \in Arrived
  <2>1. generated \in Nat \ {0} /\ generated <= TO_BE_BOARDED
    BY <1>2, <1>3, Numbers DEF QueuesMatch, Types, SignTypes
  <2>2. Arrived = 1 .. p - 1 /\ Arrived' = 1 .. p
    BY <1>1, <1>2 DEF Arrived
  <2>3. QED
    BY <1>1, <2>1, <2>2, Numbers DEF Passenger
<1>5. PassengerOK(p)
  BY <1>4 DEF AirportInv
<1>6. /\ \A g \in HomeName : ~Home(p, g)
      /\ \A c \in Point : ~At(p, c)
  BY <1>4, <1>5 DEF PassengerOK, OneHome, OneErrand
<1>7. left[p] = "out" /\ right[p] = "out"
  BY <1>5, <1>6 DEF PassengerOK, OneWalker, LeftPoint, RightPoint, Point
<1>8. Started(p, "enter")
  BY <1>2, <1>3, <1>4, <1>6, ThreadStarts DEF Types, Point
<1>9. \A q, e : At(q, e)' <=> At(q, e) \/ (q = p /\ e = "enter")
  BY <1>8 DEF Started
<1>10. ASSUME NEW q \in Passenger \ {p} PROVE Same(q)
  BY <1>2, <1>4, <1>9, SameIs DEF queues
<1>11. \A g \in HomeName : Home(p, g)' <=> g = "enter"
  <2>1. \A g \in Carrying : Home(p, g)' <=> g = "enter"
    BY <1>6, <1>9, HomesHere, HomesAfter, HomeNames DEF HomesAre
  <2>2. /\ ~Home(p, "kiosk queue")' /\ ~Home(p, "belt")' /\ ~Home(p, "gate")'
        /\ ~Home(p, "special queue")' /\ ~Home(p, "called")'
        /\ ~Home(p, "special kiosk")' /\ ~Home(p, "plane")'
    <3>1. /\ ~Queued(p, passenger) /\ ~Queued(p, boardingQueue) /\ ~Queued(p, specialPassenger)
          /\ \A b \in Belt : ~Queued(p, securityQueue[b])
          /\ serving["boarding"] # p /\ serving["special"] # p /\ p \notin boarded
      BY <1>6, HomesHere, HomeNames DEF HomesAre, Other
    <3>2. /\ ~Queued(p, passenger') /\ ~Queued(p, specialPassenger') /\ ~Queued(p, boardingQueue')
          /\ \A b \in Belt : ~Queued(p, securityQueue'[b])
          /\ serving'["boarding"] # p /\ p \notin boarded' /\ serving'["special"] # p
      BY <1>2, <3>1 DEF queues
    <3>3. QED
      BY <3>2, HomesAfter DEF HomesAre
  <2>3. QED
    BY <2>1, <2>2, HomeNames DEF Other, Carrying
<1>12. PassengerOK(p)'
  <2>1. OneHome(p)'
    BY <1>4, <1>11, HomeMoves DEF HomeName, Carrying
  <2>2. OneWalker(p)'
    <3>1. \A c \in LeftPoint \cup RightPoint : At(p, c)' <=> At(p, c)
      BY <1>9 DEF LeftPoint, RightPoint
    <3>2. QED
      BY <1>2, <1>4, <1>5, <1>7, <3>1, WalkerStays DEF PassengerOK
  <2>3. OneErrand(p)'
    BY <1>2, <1>4, <1>6, <1>7, <1>9, <1>11 DEF OneErrand, FirstTrip, HomeName, Carrying, Point
  <2>4. QED
    BY <2>1, <2>2, <2>3 DEF PassengerOK
<1>13. Types'
  BY <1>2, <1>3, <1>8 DEF Types, QueueTypes, SemTypes, LoopTypes, SignTypes, queues, Started
<1>14. QueuesMatch'
  BY <1>2, <1>3 DEF QueuesMatch, queues
<1>15. HallCounts'
  BY <1>2, <1>3, <1>8, HallStays DEF queues, Started
<1>16. BeltCounts'
  BY <1>2, <1>3, <1>8, BeltsStay DEF queues, Started
<1>17. QED
  BY <1>4, <1>10, <1>12, <1>13, <1>14, <1>15, <1>16, StepIs

LEMMA CheckDoneKeeps ==
  ASSUME AirportInv, ChannelOK', NEW l \in Loop, CheckDone(l)
  PROVE  AirportInv'
<1> USE DEF arrivals, signs, gate
<1>1. /\ loop[l] = "check" /\ loop' = [loop EXCEPT ![l] = AfterCheck]
      /\ AfterCheck \in {"exit", "wait"}
      /\ UNCHANGED <<queues, sems, arrivals, signs, gate, beltLoop, serving, threads, cvars>>
  BY DEF CheckDone, AfterCheck
<1>2. Types /\ QueuesMatch
  BY TypesAre DEF AirportInv
<1>3. Arrived' = Arrived
  BY <1>1 DEF Arrived
<1>4. Types'
  <2>1. loop' \in [Loop -> {"check", "wait", "serve", "exit"}]
    BY <1>1, <1>2 DEF Types, LoopTypes
  <2>2. QED
    BY <1>1, <1>2, <2>1 DEF Types, QueueTypes, SemTypes, LoopTypes, SignTypes, queues, sems
<1>5. QueuesMatch'
  <2>1. \A m \in {"boarding", "special"} : serving'[m] # 0 <=> loop'[m] = "serve"
    BY <1>1, <1>2 DEF QueuesMatch, Types, LoopTypes, Loop
  <2>2. QED
    BY <1>1, <1>2, <2>1 DEF QueuesMatch, queues
<1>6. QED
  BY <1>1, <1>3, <1>4, <1>5, NobodyMoves

LEMMA CheckDoneBeltKeeps ==
  ASSUME AirportInv, ChannelOK', NEW b \in Belt, CheckDoneBelt(b)
  PROVE  AirportInv'
<1> USE DEF arrivals, signs, gate
<1>1. /\ beltLoop' = [beltLoop EXCEPT ![b] = AfterCheck]
      /\ AfterCheck \in {"exit", "wait"}
      /\ UNCHANGED <<queues, sems, arrivals, signs, gate, loop, serving, threads, cvars>>
  BY DEF CheckDoneBelt, AfterCheck
<1>2. Types /\ QueuesMatch
  BY TypesAre DEF AirportInv
<1>3. Arrived' = Arrived
  BY <1>1 DEF Arrived
<1>4. Types'
  <2>1. beltLoop' \in [Belt -> {"check", "wait", "exit"}]
    BY <1>1, <1>2 DEF Types, LoopTypes
  <2>2. QED
    BY <1>1, <1>2, <2>1 DEF Types, QueueTypes, SemTypes, LoopTypes, SignTypes, queues, sems
<1>5. QueuesMatch'
  BY <1>1, <1>2 DEF QueuesMatch, queues
<1>6. QED
  BY <1>1, <1>3, <1>4, <1>5, NobodyMoves

LEMMA StutterKeeps ==
  ASSUME AirportInv, ChannelOK', UNCHANGED vars
  PROVE  AirportInv'
<1> USE DEF vars, arrivals, signs, gate, loops
<1>1. Types /\ QueuesMatch /\ Arrived' = Arrived
  BY TypesAre DEF AirportInv, Arrived
<1>2. Types'
  BY <1>1 DEF Types, QueueTypes, SemTypes, LoopTypes, SignTypes, queues, sems
<1>3. QueuesMatch'
  BY <1>1 DEF QueuesMatch, queues
<1>4. QED
  BY <1>1, <1>2, <1>3, NobodyMoves

LEMMA AirportStep ==
  ASSUME AirportInv, ChannelOK, ChannelOK', [Next]_vars
  PROVE  AirportInv'
<1>1. CASE GeneratePassenger
  BY <1>1, GenerateInsertKeeps, GenerateSpawnKeeps DEF GeneratePassenger
<1>2. CASE KioskFunc
  BY <1>2, CheckDoneKeeps, KioskTakeKeeps DEF KioskFunc, Loop
<1>3. CASE BoardingFunc
  BY <1>3, CheckDoneKeeps, BoardingLoseKeeps, BoardingCallKeeps, BoardingSeatKeeps
     DEF BoardingFunc, Loop
<1>4. CASE SpecialKiosk
  BY <1>4, CheckDoneKeeps, SpecialKioskTakeKeeps, SpecialKioskSendKeeps DEF SpecialKiosk, Loop
<1>5. ASSUME NEW b \in Belt, SecurityFunc(b) PROVE AirportInv'
  BY <1>5, CheckDoneBeltKeeps, SecurityTakeKeeps DEF SecurityFunc
<1>6. ASSUME NEW p \in Passenger, Errand(p) PROVE AirportInv'
  <2>1. CASE EnterPush(p) \/ EnterPost(p)
    BY <2>1, EnterPushKeeps, EnterPostKeeps
  <2>2. CASE KioskProduceFree(p) \/ KioskProducePush(p) \/ KioskProducePost(p)
    BY <2>2, KioskProduceFreeKeeps, KioskProducePushKeeps, KioskProducePostKeeps
  <2>3. CASE SecurityFree(p) \/ GatePush(p) \/ GatePost(p)
    BY <2>3, SecurityFreeKeeps, GatePushKeeps, GatePostKeeps
  <2>4. CASE VipFree(p) \/ WalkOn(p) \/ VipLeave(p)
    BY <2>4, VipFreeKeeps, WalkOnKeeps, VipLeaveKeeps
  <2>5. CASE SpecialPush(p) \/ SpecialPost(p) \/ SpecialLeave(p)
    BY <2>5, SpecialPushKeeps, SpecialPostKeeps, SpecialLeaveKeeps
  <2>6. CASE BackPush(p) \/ BackPost(p) \/ BackLeave(p)
    BY <2>6, BackPushKeeps, BackPostKeeps, BackLeaveKeeps
  <2>7. QED
    BY <1>6, <2>1, <2>2, <2>3, <2>4, <2>5, <2>6 DEF Errand
<1>7. CASE Quiet \/ UNCHANGED vars
  BY <1>7, StutterKeeps DEF Quiet
<1>8. QED
  BY <1>1, <1>2, <1>3, <1>4, <1>5, <1>6, <1>7 DEF Next

-----------------------------------------------------------------------------
(* The channel of the airport, and what is proved of the channel alone. *)

LEMMA FinitelyManyWalkers == Lock!ThreadsFinite
BY Numbers DEF Lock!ThreadsFinite, Lock!IsFiniteSet, IsFiniteSet

\* Whatever the airport does is for the channel a step of a walker or none.
LEMMA ChannelStep == AirportInv /\ [Next]_vars => [Channel!ChannelNext]_(Channel!cvars)
<1> SUFFICES ASSUME AirportInv, Next
             PROVE  Channel!ChannelNext \/ UNCHANGED cvars
  BY DEF vars, cvars, Channel!cvars
<1>1. CASE GeneratePassenger \/ KioskFunc \/ Quiet
  BY <1>1 DEF GeneratePassenger, GenerateInsert, GenerateSpawn, KioskFunc, CheckDone, KioskTake,
     Quiet, vars
<1>2. CASE BoardingFunc
  <2>1. CASE BoardingLose
    <3>1. PICK p : p = Head(boardingQueue)
      OBVIOUS
    <3>2. p \in Passenger /\ Channel!RightArrive(p)
      BY <2>1, <3>1, FromGateIs DEF BoardingLose
    <3>3. QED
      BY <3>2 DEF Channel!ChannelNext
  <2>2. CASE CheckDone("boarding") \/ BoardingCall \/ BoardingSeat
    BY <2>2 DEF CheckDone, BoardingCall, BoardingSeat
  <2>3. QED
    BY <1>2, <2>1, <2>2 DEF BoardingFunc
<1>3. CASE SpecialKiosk
  <2>1. CASE SpecialKioskSend
    <3>1. PICK p : p = serving["special"]
      OBVIOUS
    <3>2. loop["special"] = "serve" /\ Channel!LeftArrive(p)
      BY <2>1, <3>1 DEF SpecialKioskSend
    <3>3. p \in Passenger
      BY <3>1, <3>2, Numbers, TypesAre DEF AirportInv, QueuesMatch, Types, LoopTypes, Passenger
    <3>4. QED
      BY <3>2, <3>3 DEF Channel!ChannelNext
  <2>2. CASE CheckDone("special") \/ SpecialKioskTake
    BY <2>2 DEF CheckDone, SpecialKioskTake
  <2>3. QED
    BY <1>3, <2>1, <2>2 DEF SpecialKiosk
<1>4. ASSUME NEW b \in Belt, SecurityFunc(b) PROVE UNCHANGED cvars
  BY <1>4 DEF SecurityFunc, CheckDoneBelt, SecurityTake
<1>5. ASSUME NEW p \in Passenger, Errand(p) PROVE Channel!ChannelNext \/ UNCHANGED cvars
  <2>1. CASE EnterPush(p) \/ EnterPost(p) \/ KioskProduceFree(p) \/ KioskProducePush(p)
             \/ KioskProducePost(p)
    BY <2>1 DEF EnterPush, EnterPost, KioskProduceFree, KioskProducePush, KioskProducePost
  <2>2. CASE SecurityFree(p) \/ GatePush(p) \/ GatePost(p) \/ SpecialPush(p) \/ SpecialPost(p)
             \/ BackPush(p) \/ BackPost(p)
    BY <2>2 DEF SecurityFree, GatePush, GatePost, SpecialPush, SpecialPost, BackPush, BackPost
  <2>3. CASE VipFree(p) \/ WalkOn(p) \/ VipLeave(p) \/ SpecialLeave(p) \/ BackLeave(p)
    BY <2>3 DEF VipFree, WalkOn, VipLeave, SpecialLeave, BackLeave, Channel!ChannelNext
  <2>4. QED
    BY <1>5, <2>1, <2>2, <2>3 DEF Errand
<1>6. QED
  BY <1>1, <1>2, <1>3, <1>4, <1>5 DEF Next

\* The channel's own invariant is one of the airport as well.
LEMMA LockInit == Init => Lock!ChannelInv
<1>1. Init => Lock!ChannelInit
  BY DEF Init, Lock!ChannelInit, Channel!ChannelInit
<1>2. QED
  BY <1>1, FinitelyManyWalkers, Lock!ChannelInvInit

LEMMA LockStep == AirportInv /\ Lock!ChannelInv /\ [Next]_vars => Lock!ChannelInv'
<1>1. [Channel!ChannelNext]_(Channel!cvars) => [Lock!ChannelNext]_(Lock!cvars)
  BY DEF Channel!ChannelNext, Lock!ChannelNext, Channel!cvars, Lock!cvars,
     Channel!LeftArrive, Lock!LeftArrive, Channel!LeftEnter, Lock!LeftEnter,
     Channel!LeftCount, Lock!LeftCount, Channel!LeftTakeDb, Lock!LeftTakeDb,
     Channel!LeftTakeExtra, Lock!LeftTakeExtra, Channel!LeftLeave, Lock!LeftLeave,
     Channel!RightArrive, Lock!RightArrive, Channel!RightEnter, Lock!RightEnter,
     Channel!RightTakeDb, Lock!RightTakeDb, Channel!RightCount, Lock!RightCount,
     Channel!RightTakeExtra, Lock!RightTakeExtra, Channel!RightLeave, Lock!RightLeave
<1>2. QED
  BY <1>1, ChannelStep, FinitelyManyWalkers, Lock!ChannelInvStep

LEMMA LockIs == Lock!ChannelInv => ChannelOK
BY DEF Lock!ChannelInv, ChannelOK

LEMMA LockIsAfter == Lock!ChannelInv' => ChannelOK'
BY LockIs, PTL

-----------------------------------------------------------------------------
(* The invariant holds. *)

LEMMA AirportStarts == Init => AirportInv
<1> SUFFICES ASSUME Init PROVE AirportInv
  OBVIOUS
<1> USE DEF Init
<1>1. \A q, e : ~At(q, e)
  BY DEF At
<1>2. \A q : ~Queued(q, <<>>)
  BY DEF Queued, Positions
<1>3. \A b \in Belt : securityQueue[b] = <<>>
  OBVIOUS
<1>4. \A e : Number(e) = 0
  <2> TAKE e
  <2>1. {q \in Passenger : At(q, e)} = {}
    BY <1>1
  <2>2. QED
    BY <2>1, FS_EmptySet DEF Number
<1>5. \A b \in Belt : \A e : NumberOf(b, e) = 0
  <2> TAKE b \in Belt
  <2> TAKE e
  <2>1. {q \in Passenger : belt[q] = b /\ At(q, e)} = {}
    BY <1>1
  <2>2. QED
    BY <2>1, FS_EmptySet DEF NumberOf
<1>6. TypeOK
  <2>1. Types
    <3>1. QueueTypes
      BY EmptySeq DEF QueueTypes
    <3>2. SemTypes
      BY Numbers DEF SemTypes
    <3>3. LoopTypes
      BY Numbers DEF LoopTypes, Loop
    <3>4. SignTypes
      <4>1. generated \in 0 .. TO_BE_BOARDED /\ inserting \in BOOLEAN
        <5>1. 0 \in 0 .. TO_BE_BOARDED
          BY Numbers
        <5>2. generated = 0 /\ inserting = FALSE
          OBVIOUS
        <5>3. QED
          BY <5>1, <5>2
      <4>2. [i \in 1 .. M |-> i] \in [1 .. M -> 1 .. M]
        OBVIOUS
      <4>3. 0 \in 0 .. N
        BY Numbers
      <4>4. [p \in Passenger |-> 0] \in [Passenger -> 0 .. N]
        BY <4>3
      <4>5. QED
        BY <4>1, <4>2, <4>4 DEF SignTypes
    <3>5. QED
      BY <3>1, <3>2, <3>3, <3>4 DEF Types
  <2>2. ChannelOK
    BY LockInit, LockIs
  <2>3. QED
    BY <2>1, <2>2, ChannelIs, TypesAre
<1>7. QueuesMatch
  <2>1. NoneTwice(<<>>)
    BY DEF NoneTwice
  <2>2. boarderCnt = Cardinality(boarded)
    BY FS_EmptySet
  <2>3. \A l \in {"boarding", "special"} : serving[l] # 0 <=> loop[l] = "serve"
    BY DEF Loop
  <2>4. QED
    BY <1>2, <1>3, <2>1, <2>2, <2>3 DEF QueuesMatch
<1>8. HallCounts /\ BeltCounts
  <2>1. Len(<<>>) = 0
    OBVIOUS
  <2>2. HallCounts
    BY <1>4, <2>1, Numbers DEF HallCounts, KioskCount, GateCount, SpecialCount, KiosksCount
  <2>3. BeltCounts
    BY <1>3, <1>5, <2>1, Numbers DEF BeltCounts
  <2>4. QED
    BY <2>2, <2>3
<1>9. ASSUME NEW p \in Passenger PROVE PassengerOK(p)
  <2>1. \A k \in HomeName : ~Home(p, k)
    <3>1. \A k \in Carrying : ~Home(p, k)
      BY <1>1, HomesHere DEF HomesAre
    <3>2. serving["boarding"] # p /\ serving["special"] # p /\ p \notin boarded
      BY Numbers
    <3>3. \A k \in Other : ~Home(p, k)
      BY <1>2, <1>3, <3>2, HomesHere DEF HomesAre, Other
    <3>4. QED
      BY <3>1, <3>3, HomeNames
  <2>2. p \notin Arrived
    BY DEF Arrived, Passenger
  <2>3. left[p] = "out" /\ right[p] = "out"
    BY DEF Channel!ChannelInit
  <2>4. OneHome(p)
    BY <2>1, <2>2 DEF OneHome
  <2>5. OneWalker(p)
    BY <1>1, <2>3 DEF OneWalker
  <2>6. OneErrand(p)
    BY <1>1, <2>3 DEF OneErrand
  <2>7. QED
    BY <2>4, <2>5, <2>6 DEF PassengerOK
<1>10. QED
  BY <1>6, <1>7, <1>8, <1>9 DEF AirportInv

\* In every state of the airport each passenger who has arrived is in one place, the
\* queues, the semaphores and the threads agree in number, and the locks of the channel
\* are held by those who need them.
THEOREM AirportCorrect == SafetySpec => [](AirportInv /\ Lock!ChannelInv)
<1>1. Init => AirportInv /\ Lock!ChannelInv
  BY AirportStarts, LockInit
<1>2. AirportInv /\ Lock!ChannelInv /\ [Next]_vars => AirportInv' /\ Lock!ChannelInv'
  BY AirportStep, LockStep, LockIs, LockIsAfter
<1>3. QED
  BY <1>1, <1>2, PTL DEF SafetySpec

\* Every variable of the airport has its type.
THEOREM TypeCorrect == Spec => []TypeOK
BY AirportCorrect, PTL DEF Spec, AirportInv

\* The airport uses the channel as the module VipChannel describes it: a passenger
\* arrives at it, walks and leaves, once in each direction at a time.
THEOREM UsesTheChannel == Spec => UsesChannel
<1>1. Init => Channel!ChannelInit
  BY DEF Init
<1>2. QED
  BY <1>1, ChannelStep, AirportCorrect, PTL DEF Spec, SafetySpec, UsesChannel, Channel!ChannelSafetySpec

-----------------------------------------------------------------------------
(* What the runs check. *)

\* Where a passenger is, by the home he has.
LEMMA PlacesAre ==
  ASSUME AirportInv, NEW p \in Passenger
  PROVE  IF p \in Arrived THEN \E x : Places(p) = {x} ELSE Places(p) = {}
<1> DEFINE T == {c \in Carrying : At(p, c)}
           B == UNION {{<<"belt", b, i>> : i \in Positions(p, securityQueue[b])} : b \in Belt}
           L == {l \in DOMAIN serving : serving[l] = p}
<1>1. PassengerOK(p) /\ QueuesMatch /\ Types
  BY TypesAre DEF AirportInv
<1>2. /\ \A c \in Carrying : c \in HomeName /\ (Home(p, c) <=> c \in T)
      /\ \A k \in Other : k \in HomeName /\ k \notin Carrying
      /\ Home(p, "kiosk queue") <=> Positions(p, passenger) # {}
      /\ Home(p, "belt") <=> B # {}
      /\ Home(p, "gate") <=> Positions(p, boardingQueue) # {}
      /\ Home(p, "special queue") <=> Positions(p, specialPassenger) # {}
      /\ Home(p, "called") \/ Home(p, "special kiosk") <=> L # {}
      /\ Home(p, "plane") <=> {p} \cap boarded # {}
  <2>1. DOMAIN serving = {"boarding", "special"}
    BY <1>1 DEF Types, LoopTypes
  <2>2. \A c \in Carrying : c \in HomeName /\ (Home(p, c) <=> c \in T)
    BY HomesHere, HomeNames DEF HomesAre
  <2>3. Home(p, "belt") <=> B # {}
    <3>1. Home(p, "belt") <=> \E b \in Belt : Queued(p, securityQueue[b])
      BY HomesHere DEF HomesAre
    <3>2. ASSUME NEW b \in Belt, Queued(p, securityQueue[b])
          PROVE  B # {}
      <4>1. PICK i : i \in Positions(p, securityQueue[b])
        BY <3>2 DEF Queued
      <4>2. <<"belt", b, i>> \in B
        BY <4>1
      <4>3. QED
        BY <4>2
    <3>3. ASSUME NEW x, x \in B
          PROVE  \E b \in Belt : Queued(p, securityQueue[b])
      BY <3>3 DEF Queued
    <3>4. QED
      BY <3>1, <3>2, <3>3
  <2>4. Home(p, "called") \/ Home(p, "special kiosk") <=> L # {}
    BY <2>1, HomesHere DEF HomesAre
  <2>5. QED
    BY <2>2, <2>3, <2>4, HomesHere, HomeNames DEF HomesAre, Queued
<1>3. /\ \A i, j \in Positions(p, passenger) : i = j
      /\ \A i, j \in Positions(p, boardingQueue) : i = j
      /\ \A i, j \in Positions(p, specialPassenger) : i = j
      /\ \A x, y \in B : x = y
  <2>1. \A b \in Belt : \A i, j \in Positions(p, securityQueue[b]) : i = j
    BY <1>1 DEF QueuesMatch, NoneTwice, Positions
  <2>2. \A b \in Belt : Positions(p, securityQueue[b]) # {} => b = belt[p]
    BY <1>1 DEF QueuesMatch, Queued
  <2>3. \A x, y \in B : x = y
    BY <2>1, <2>2
  <2>4. QED
    BY <1>1, <2>3 DEF QueuesMatch, NoneTwice, Positions
<1>4. Places(p) = {<<"thread", c>> : c \in T}
                   \cup {<<"passenger", i>> : i \in Positions(p, passenger)}
                   \cup B
                   \cup {<<"boardingQueue", i>> : i \in Positions(p, boardingQueue)}
                   \cup {<<"specialPassenger", i>> : i \in Positions(p, specialPassenger)}
                   \cup {<<"loop", l>> : l \in L}
                   \cup {<<"plane", 0>> : x \in {p} \cap boarded}
  BY DEF Places
<1> HIDE DEF T, B, L
<1>5. \A k, h \in HomeName : Home(p, k) /\ Home(p, h) => k = h
  BY <1>1 DEF PassengerOK, OneHome
<1>6. CASE p \notin Arrived
  <2>1. \A k \in HomeName : ~Home(p, k)
    BY <1>1, <1>6 DEF PassengerOK, OneHome
  <2>2. /\ T = {} /\ Positions(p, passenger) = {} /\ B = {} /\ Positions(p, boardingQueue) = {}
        /\ Positions(p, specialPassenger) = {} /\ L = {} /\ {p} \cap boarded = {}
    BY <1>2, <2>1 DEF T, Other
  <2>3. QED
    BY <1>4, <1>6, <2>2
<1>7. CASE p \in Arrived
  <2>1. PICK k \in HomeName : Home(p, k)
    BY <1>1, <1>7 DEF PassengerOK, OneHome
  <2>2. \A h \in HomeName : Home(p, h) <=> h = k
    BY <1>5, <2>1
  <2>3. CASE k \in Carrying
    <3>1. /\ T = {k} /\ Positions(p, passenger) = {} /\ B = {} /\ Positions(p, boardingQueue) = {}
          /\ Positions(p, specialPassenger) = {} /\ L = {} /\ {p} \cap boarded = {}
      BY <1>2, <2>2, <2>3 DEF T, Other
    <3>2. Places(p) = {<<"thread", k>>}
      BY <1>4, <3>1
    <3>3. QED
      BY <1>7, <3>2
  <2>4. CASE k \in Other
    <3>1. T = {}
      BY <1>2, <2>2, <2>4 DEF T
    <3>2. CASE k = "kiosk queue"
      <4>1. PICK i : Positions(p, passenger) = {i}
        BY <1>2, <1>3, <2>1, <3>2
      <4>2. /\ B = {} /\ Positions(p, boardingQueue) = {} /\ Positions(p, specialPassenger) = {}
            /\ L = {} /\ {p} \cap boarded = {}
        BY <1>2, <2>2, <3>2 DEF Other
      <4>3. Places(p) = {<<"passenger", i>>}
        BY <1>4, <3>1, <4>1, <4>2
      <4>4. QED
        BY <1>7, <4>3
    <3>3. CASE k = "belt"
      <4>1. PICK x : B = {x}
        <5>1. PICK x \in B : TRUE
          BY <1>2, <2>1, <3>3
        <5>2. B = {x}
          BY <1>3, <5>1
        <5>3. QED
          BY <5>2
      <4>2. /\ Positions(p, passenger) = {} /\ Positions(p, boardingQueue) = {}
            /\ Positions(p, specialPassenger) = {} /\ L = {} /\ {p} \cap boarded = {}
        BY <1>2, <2>2, <3>3 DEF Other
      <4>3. Places(p) = {x}
        BY <1>4, <3>1, <4>1, <4>2
      <4>4. QED
        BY <1>7, <4>3
    <3>4. CASE k = "gate"
      <4>1. PICK i : Positions(p, boardingQueue) = {i}
        BY <1>2, <1>3, <2>1, <3>4
      <4>2. /\ B = {} /\ Positions(p, passenger) = {} /\ Positions(p, specialPassenger) = {}
            /\ L = {} /\ {p} \cap boarded = {}
        BY <1>2, <2>2, <3>4 DEF Other
      <4>3. Places(p) = {<<"boardingQueue", i>>}
        BY <1>4, <3>1, <4>1, <4>2
      <4>4. QED
        BY <1>7, <4>3
    <3>5. CASE k = "special queue"
      <4>1. PICK i : Positions(p, specialPassenger) = {i}
        BY <1>2, <1>3, <2>1, <3>5
      <4>2. /\ B = {} /\ Positions(p, passenger) = {} /\ Positions(p, boardingQueue) = {}
            /\ L = {} /\ {p} \cap boarded = {}
        BY <1>2, <2>2, <3>5 DEF Other
      <4>3. Places(p) = {<<"specialPassenger", i>>}
        BY <1>4, <3>1, <4>1, <4>2
      <4>4. QED
        BY <1>7, <4>3
    <3>6. CASE k = "called" \/ k = "special kiosk"
      <4>1. PICK l : L = {l}
        <5>1. /\ Home(p, "called") <=> serving["boarding"] = p
              /\ Home(p, "special kiosk") <=> serving["special"] = p
              /\ DOMAIN serving = {"boarding", "special"}
          BY <1>1, HomesHere DEF HomesAre, Types, LoopTypes
        <5>2. {"called", "special kiosk"} \subseteq HomeName
          BY <1>2 DEF Other
        <5>3. k = "called" => L = {"boarding"}
          BY <2>2, <5>1, <5>2 DEF L
        <5>4. k = "special kiosk" => L = {"special"}
          BY <2>2, <5>1, <5>2 DEF L
        <5>5. QED
          BY <3>6, <5>3, <5>4
      <4>2. /\ B = {} /\ Positions(p, passenger) = {} /\ Positions(p, boardingQueue) = {}
            /\ Positions(p, specialPassenger) = {} /\ {p} \cap boarded = {}
        BY <1>2, <2>2, <3>6 DEF Other
      <4>3. Places(p) = {<<"loop", l>>}
        BY <1>4, <3>1, <4>1, <4>2
      <4>4. QED
        BY <1>7, <4>3
    <3>7. CASE k = "plane"
      <4>1. {p} \cap boarded = {p}
        BY <1>2, <2>1, <3>7
      <4>2. /\ B = {} /\ Positions(p, passenger) = {} /\ Positions(p, boardingQueue) = {}
            /\ Positions(p, specialPassenger) = {} /\ L = {}
        BY <1>2, <2>2, <3>7 DEF Other
      <4>3. Places(p) = {<<"plane", 0>>}
        BY <1>4, <3>1, <4>1, <4>2
      <4>4. QED
        BY <1>7, <4>3
    <3>8. QED
      BY <2>4, <3>2, <3>3, <3>4, <3>5, <3>6, <3>7 DEF Other
  <2>5. QED
    BY <2>1, <2>3, <2>4, HomeNames
<1>8. QED
  BY <1>6, <1>7

LEMMA OnePlaceHere == AirportInv => OnePlace
<1> SUFFICES ASSUME AirportInv PROVE OnePlace
  OBVIOUS
<1>1. ASSUME NEW p \in Passenger
      PROVE  Cardinality(Places(p)) = IF p \in Arrived THEN 1 ELSE 0
  <2>1. CASE p \in Arrived
    <3>1. PICK x : Places(p) = {x}
      BY <2>1, PlacesAre
    <3>2. QED
      BY <2>1, <3>1, FS_Singleton
  <2>2. CASE p \notin Arrived
    BY <2>2, PlacesAre, FS_EmptySet
  <2>3. QED
    BY <2>1, <2>2
<1>2. QED
  BY <1>1 DEF OnePlace, AirportInv, QueuesMatch

\* Nobody gets lost between two threads and nobody is handed on twice.
THEOREM NobodyIsLost == Spec => []OnePlace
BY OnePlaceHere, AirportCorrect, PTL DEF Spec

LEMMA TokensMatchHere == AirportInv => TokensMatch
<1> SUFFICES ASSUME AirportInv PROVE TokensMatch
  OBVIOUS
<1>1. HallCounts /\ BeltCounts
  BY DEF AirportInv
<1>2. \A c : AtPoint({c}) = Number(c)
  <2> TAKE c
  <2>1. {p \in Passenger : \E d \in {c} : At(p, d)} = {p \in Passenger : At(p, c)}
    OBVIOUS
  <2>2. QED
    BY <2>1 DEF AtPoint, Number
<1>3. \A b, c : AtBelt(b, {c}) = NumberOf(b, c)
  <2> TAKE b, c
  <2>1. {p \in Passenger : belt[p] = b /\ \E d \in {c} : At(p, d)}
          = {p \in Passenger : belt[p] = b /\ At(p, c)}
    OBVIOUS
  <2>2. QED
    BY <2>1 DEF AtBelt, NumberOf
<1>4. AtPoint({"checkIn", "vipCheckIn"}) = Number("checkIn") + Number("vipCheckIn")
  <2> DEFINE S == {p \in Passenger : At(p, "checkIn")}
             T == {p \in Passenger : At(p, "vipCheckIn")}
  <2>1. {p \in Passenger : \E d \in {"checkIn", "vipCheckIn"} : At(p, d)} = S \cup T
    OBVIOUS
  <2>2. S \cap T = {}
    BY HomesHere DEF AirportInv, PassengerOK, OneHome, HomesAre, HomeName, Carrying
  <2>3. IsFiniteSet(S) /\ IsFiniteSet(T)
    BY Numbers, FS_Subset
  <2>4. Cardinality(S) \in Nat /\ Cardinality(T) \in Nat
    BY <2>3, FS_CardinalityType
  <2>5. Cardinality(S \cup T) = Cardinality(S) + Cardinality(T)
    <3>1. Cardinality(S \cup T) = Cardinality(S) + Cardinality(T) - Cardinality(S \cap T)
      BY <2>3, FS_Union
    <3>2. Cardinality(S \cap T) = 0
      BY <2>2, FS_EmptySet
    <3> HIDE DEF S, T
    <3>3. QED
      BY <2>4, <3>1, <3>2
  <2>6. QED
    BY <2>1, <2>5 DEF AtPoint, Number
<1>5. /\ Len(passenger) = sem.kioskFull + AtPoint({"postKioskFull"})
      /\ Len(boardingQueue) =
           sem.boardingFull + AtPoint({"postBoardingFull"}) + AtPoint({"specialPost"})
      /\ Len(specialPassenger) = sem.specialKioskFull + AtPoint({"backPost"})
  BY <1>1, <1>2 DEF HallCounts, KioskCount, GateCount, SpecialCount
<1>6. sem.kioskEmpty + Len(passenger) + AtPoint({"checkIn", "vipCheckIn"}) = M
  <2>1. /\ sem["kioskEmpty"] \in Nat /\ Len(passenger) \in Nat
        /\ Number("checkIn") \in Nat /\ Number("vipCheckIn") \in Nat
    BY TypesAre, LenProperties, Numbers, FS_Subset, FS_CardinalityType
       DEF AirportInv, Types, SemTypes, QueueTypes, Number
  <2>2. QED
    BY <1>1, <1>4, <2>1 DEF HallCounts, KiosksCount
<1>7. \A b \in Belt :
        /\ Len(securityQueue[b]) = beltFull[b] + AtBelt(b, {"postBeltFull"})
        /\ beltEmpty[b] + Len(securityQueue[b]) + AtBelt(b, {"scan"}) = P
  BY <1>1, <1>3 DEF BeltCounts
<1>8. QED
  BY <1>5, <1>6, <1>7 DEF TokensMatch

\* No loop pops an empty queue, and no token of a semaphore is lost or made up.
THEOREM TokensAlwaysMatch == Spec => []TokensMatch
BY TokensMatchHere, AirportCorrect, PTL DEF Spec

LEMMA WalkersHere == AirportInv => ChannelKnowsWalkers
BY DEF AirportInv, PassengerOK, OneWalker, ChannelKnowsWalkers, LeftPoint, RightPoint

\* Who walks is known to the channel and the other way round, although a thread hands
\* its passenger on before it has left.
THEOREM WalkersAreKnown == Spec => []ChannelKnowsWalkers
BY WalkersHere, AirportCorrect, PTL DEF Spec

LEMMA NoTwinHere == AirportInv => NoTwin
<1> SUFFICES ASSUME AirportInv PROVE NoTwin
  OBVIOUS
<1>1. Types
  BY TypesAre DEF AirportInv
<1>2. ASSUME serving["special"] # 0 PROVE left[serving["special"]] = "out"
  <2>1. serving["special"] \in Passenger
    BY <1>1, <1>2, Numbers DEF Types, LoopTypes, Passenger
  <2>2. Home(serving["special"], "special kiosk")
    BY HomesHere DEF HomesAre
  <2>3. QED
    BY <2>1, <2>2 DEF AirportInv, PassengerOK, OneWalker
<1>3. ASSUME NEW i \in DOMAIN boardingQueue PROVE right[boardingQueue[i]] = "out"
  <2>1. boardingQueue[i] \in Passenger
    BY <1>1, <1>3, ElementOfSeq, LenProperties DEF Types, QueueTypes
  <2>2. Home(boardingQueue[i], "gate")
    BY <1>3, HomesHere DEF HomesAre, Queued, Positions
  <2>3. QED
    BY <2>1, <2>2 DEF AirportInv, PassengerOK, OneWalker
<1>4. QED
  BY <1>2, <1>3 DEF NoTwin

\* Nobody is in the channel twice: who comes to the special kiosk, or is at the gate,
\* has no thread left on the way that he came.
THEOREM NobodyHasATwin == Spec => []NoTwin
BY NoTwinHere, AirportCorrect, PTL DEF Spec

=============================================================================
