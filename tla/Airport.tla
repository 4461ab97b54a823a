------------------------------ MODULE Airport ------------------------------
(***************************************************************************)
(* The threads of 1705043_IPC.cpp: passengers who check in at the kiosks,  *)
(* pass a security belt or the VIP channel and board; those who have lost  *)
(* their boarding pass walk back through the channel to the special kiosk. *)
(*                                                                         *)
(* GeneratePassenger, KioskFunc, one SecurityFunc per belt, BoardingFunc   *)
(* and SpecialKiosk are loops; every other function is a thread created    *)
(* for one passenger and one errand.  Such a thread is a pair <<p, point>> *)
(* of "threads": the passenger and the statement it executes next.         *)
(*                                                                         *)
(* A sem_wait is one step with the push or pop that follows it: the mutex  *)
(* around a queue is held for that push or pop only.  A sem_post is a step *)
(* of its own, so a token may be used for another thread's item.           *)
(***************************************************************************)
EXTENDS Integers, FiniteSets, Sequences

CONSTANTS TO_BE_BOARDED,  \* how many passengers are generated (20, line 13)
          M,              \* kiosks
          N,              \* security belts
          P,              \* passengers a belt serves at a time
          VipEvery        \* every VipEvery-th passenger is a VIP (4, line 87)

ASSUME AirportAssumption ==
  {TO_BE_BOARDED, M, N, P, VipEvery} \subseteq Nat \ {0}

Passenger == 1 .. TO_BE_BOARDED
Belt == 1 .. N
Vip == {i \in Passenger : i % VipEvery = 0}

VARIABLES
  generated,        \* the last passenger of GeneratePassenger's loop
  inserting,        \* GeneratePassenger is inside the insertion mp[i] = ...
  passenger, securityQueue, boardingQueue, specialPassenger,  \* the queues
  kioskNumber,      \* the queue of kiosk numbers
  sem,              \* the semaphores kioskEmpty, kioskFull, boardingFull, ...
  beltEmpty, beltFull, \* ... and those of each belt
  boarderCnt,
  threads,          \* the errands under way
  loop, beltLoop,   \* where each loop is
  serving,          \* the passenger a loop holds, 0 if none
  belt,             \* the belt a passenger was sent to
  boarded,          \* history: who has boarded
  rc, wc, locked, left, right  \* the VIP channel

Channel == INSTANCE VipChannel WITH Left <- Passenger, Right <- Passenger

queues == <<passenger, securityQueue, boardingQueue, specialPassenger>>
sems == <<sem, beltEmpty, beltFull>>
arrivals == <<generated, inserting>>
signs == <<kioskNumber, belt>>
gate == <<boarderCnt, boarded>>
loops == <<loop, beltLoop, serving>>
cvars == <<rc, wc, locked, left, right>>
vars == <<queues, sems, arrivals, signs, gate, loops, threads, cvars>>

Loop == {"kiosk", "boarding", "special"}

Init ==
  /\ generated = 0 /\ inserting = FALSE
  /\ passenger = <<>> /\ boardingQueue = <<>> /\ specialPassenger = <<>>
  /\ securityQueue = [b \in Belt |-> <<>>]
  /\ kioskNumber = [i \in 1 .. M |-> i]
  /\ sem = [kioskEmpty |-> M, kioskFull |-> 0,
            boardingFull |-> 0, specialKioskFull |-> 0]
  /\ beltEmpty = [b \in Belt |-> P]
  /\ beltFull = [b \in Belt |-> 0]
  /\ boarderCnt = 0 /\ boarded = {}
  /\ threads = {}
  /\ loop = [l \in Loop |-> "check"]
  /\ beltLoop = [b \in Belt |-> "check"]
  /\ serving = [l \in {"boarding", "special"} |-> 0]
  /\ belt = [p \in Passenger |-> 0]
  /\ Channel!ChannelInit

-----------------------------------------------------------------------------
(* Threads and semaphores. *)

At(p, point) == <<p, point>> \in threads
Spawn(p, point) == threads' = threads \cup {<<p, point>>}
Goto(p, from, to) == threads' = (threads \ {<<p, from>>}) \cup {<<p, to>>}
Exit(p, point) == threads' = threads \ {<<p, point>>}

Wait(s) == sem[s] > 0 /\ sem' = [sem EXCEPT ![s] = @ - 1]
Post(s) == sem' = [sem EXCEPT ![s] = @ + 1]

\* if(boarderCnt==TO_BE_BOARDED) break;  at the top of each loop, before the
\* sem_wait that the loop may never come back from.
AfterCheck == IF boarderCnt = TO_BE_BOARDED THEN "exit" ELSE "wait"

CheckDone(l) ==
  /\ loop[l] = "check"
  /\ loop' = [loop EXCEPT ![l] = AfterCheck]
  /\ UNCHANGED <<queues, sems, arrivals, signs, gate, beltLoop, serving,
                 threads, cvars>>

CheckDoneBelt(b) ==
  /\ beltLoop[b] = "check"
  /\ beltLoop' = [beltLoop EXCEPT ![b] = AfterCheck]
  /\ UNCHANGED <<queues, sems, arrivals, signs, gate, loop, serving,
                 threads, cvars>>

-----------------------------------------------------------------------------
(* Arrival. *)

\* The loop of GeneratePassenger enters the next passenger in the map mp ...
GenerateInsert ==
  /\ generated < TO_BE_BOARDED
  /\ ~inserting
  /\ generated' = generated + 1
  /\ inserting' = TRUE
  /\ UNCHANGED <<queues, sems, signs, gate, loops, threads, cvars>>

\* ... and then creates his thread.
GenerateSpawn ==
  /\ inserting
  /\ inserting' = FALSE
  /\ Spawn(generated, "enter")
  /\ UNCHANGED <<generated, queues, sems, signs, gate, loops, cvars>>

\* EnterPassenger
EnterPush(p) ==
  /\ At(p, "enter")
  /\ Wait("kioskEmpty")
  /\ passenger' = Append(passenger, p)
  /\ Goto(p, "enter", "postKioskFull")
  /\ UNCHANGED <<securityQueue, boardingQueue, specialPassenger, beltEmpty,
                 beltFull, arrivals, signs, gate, loops, cvars>>

\* Mutant: kioskFull is not posted.
EnterPostForgotten(p) ==
  /\ At(p, "postKioskFull")
  /\ Exit(p, "postKioskFull")
  /\ UNCHANGED <<queues, sems, arrivals, signs, gate, loops, cvars>>

EnterPost(p) ==
  /\ At(p, "postKioskFull")
  /\ Post("kioskFull")
  /\ Exit(p, "postKioskFull")
  /\ UNCHANGED <<queues, beltEmpty, beltFull, arrivals, signs, gate, loops,
                 cvars>>

-----------------------------------------------------------------------------
(* The kiosks. *)

\* What KioskFunc reads of mp[p].  GeneratePassenger inserts into the map
\* without a lock: a lookup that meets an insertion may miss a VIP's entry.
LookedUpVip(p) == {p \in Vip} \cup {v \in {FALSE} : inserting}

\* One turn of KioskFunc.  The kiosk number goes back to its queue at once.
KioskTake ==
  /\ loop["kiosk"] = "wait"
  /\ Wait("kioskFull")
  /\ LET p == Head(passenger)
         val == Head(kioskNumber)
     IN /\ passenger' = Tail(passenger)
        /\ kioskNumber' = Append(Tail(kioskNumber), val)
        /\ \E vip \in LookedUpVip(p) :
             IF vip THEN Spawn(p, "vipCheckIn") /\ UNCHANGED belt
             ELSE \E r \in Belt : /\ Spawn(p, "checkIn")
                                  /\ belt' = [belt EXCEPT ![p] = r]
  /\ loop' = [loop EXCEPT !["kiosk"] = "check"]
  /\ UNCHANGED <<securityQueue, boardingQueue, specialPassenger, beltEmpty,
                 beltFull, arrivals, gate, beltLoop, serving, cvars>>

\* KioskProduce frees the kiosk, then waits for a place on its belt.
KioskProduceFree(p) ==
  /\ At(p, "checkIn")
  /\ Post("kioskEmpty")
  /\ Goto(p, "checkIn", "wantBelt")
  /\ UNCHANGED <<queues, beltEmpty, beltFull, arrivals, signs, gate,
                 loops, cvars>>

\* Mutant: the passenger does not wait for a place on the belt.
KioskProducePushAtOnce(p) ==
  /\ At(p, "wantBelt")
  /\ beltEmpty' = [beltEmpty EXCEPT ![belt[p]] = @ - 1]
  /\ securityQueue' = [securityQueue EXCEPT ![belt[p]] = Append(@, p)]
  /\ Goto(p, "wantBelt", "postBeltFull")
  /\ UNCHANGED <<passenger, boardingQueue, specialPassenger, sem, beltFull,
                 arrivals, signs, gate, loops, cvars>>

KioskProducePush(p) ==
  /\ At(p, "wantBelt")
  /\ beltEmpty[belt[p]] > 0
  /\ beltEmpty' = [beltEmpty EXCEPT ![belt[p]] = @ - 1]
  /\ securityQueue' = [securityQueue EXCEPT ![belt[p]] = Append(@, p)]
  /\ Goto(p, "wantBelt", "postBeltFull")
  /\ UNCHANGED <<passenger, boardingQueue, specialPassenger, sem, beltFull,
                 arrivals, signs, gate, loops, cvars>>

KioskProducePost(p) ==
  /\ At(p, "postBeltFull")
  /\ beltFull' = [beltFull EXCEPT ![belt[p]] = @ + 1]
  /\ Exit(p, "postBeltFull")
  /\ UNCHANGED <<queues, sem, beltEmpty, arrivals, signs, gate, loops, cvars>>

-----------------------------------------------------------------------------
(* The security belts. *)

\* Mutant: front() without pop().
SecurityTakeNoPop(b) ==
  /\ beltLoop[b] = "wait"
  /\ beltFull[b] > 0
  /\ beltFull' = [beltFull EXCEPT ![b] = @ - 1]
  /\ Spawn(Head(securityQueue[b]), "scan")
  /\ beltLoop' = [beltLoop EXCEPT ![b] = "check"]
  /\ UNCHANGED <<queues, sem, beltEmpty, arrivals, signs, gate, loop, serving,
                 cvars>>

SecurityTake(b) ==
  /\ beltLoop[b] = "wait"
  /\ beltFull[b] > 0
  /\ beltFull' = [beltFull EXCEPT ![b] = @ - 1]
  /\ securityQueue' = [securityQueue EXCEPT ![b] = Tail(@)]
  /\ Spawn(Head(securityQueue[b]), "scan")
  /\ beltLoop' = [beltLoop EXCEPT ![b] = "check"]
  /\ UNCHANGED <<passenger, boardingQueue, specialPassenger, sem, beltEmpty,
                 arrivals, signs, gate, loop, serving, cvars>>

\* SecurityProduce
SecurityFree(p) ==
  /\ At(p, "scan")
  /\ beltEmpty' = [beltEmpty EXCEPT ![belt[p]] = @ + 1]
  /\ Goto(p, "scan", "toGate")
  /\ UNCHANGED <<queues, sem, beltFull, arrivals, signs, gate, loops, cvars>>

\* The end of SecurityProduce and of SendToVipChannelThread.
GatePush(p) ==
  /\ At(p, "toGate")
  /\ boardingQueue' = Append(boardingQueue, p)
  /\ Goto(p, "toGate", "postBoardingFull")
  /\ UNCHANGED <<passenger, securityQueue, specialPassenger, sems, arrivals,
                 signs, gate, loops, cvars>>

GatePost(p) ==
  /\ At(p, "postBoardingFull")
  /\ Post("boardingFull")
  /\ Exit(p, "postBoardingFull")
  /\ UNCHANGED <<queues, beltEmpty, beltFull, arrivals, signs, gate, loops,
                 cvars>>

-----------------------------------------------------------------------------
(* The VIP channel, left to right. *)

\* SendToVipChannel frees the kiosk and goes to the channel.
VipFree(p) ==
  /\ At(p, "vipCheckIn")
  /\ Post("kioskEmpty")
  /\ Goto(p, "vipCheckIn", "vip")
  /\ Channel!LeftArrive(p)
  /\ UNCHANGED <<queues, beltEmpty, beltFull, arrivals, signs, gate,
                 loops>>

\* Either kind of thread on its way onto the walkway, in either direction.
WalkOn(p) ==
  /\ Channel!LeftEnter(p) \/ Channel!RightEnter(p)
  /\ UNCHANGED <<queues, sems, arrivals, signs, gate, loops, threads>>

\* Mutant: the thread leaves the channel as if he were never the last one.
VipLeaveNeverLast(p) ==
  /\ At(p, "vip") /\ left[p] = "on" /\ "rc" \notin locked
  /\ rc' = rc - 1
  /\ left' = [left EXCEPT ![p] = "out"]
  /\ Goto(p, "vip", "toGate")
  /\ UNCHANGED <<queues, sems, arrivals, signs, gate, loops, wc, locked, right>>

\* SendToVipChannelThread leaves the channel and then queues at the gate ...
VipLeave(p) ==
  /\ At(p, "vip")
  /\ Channel!LeftLeave(p)
  /\ Goto(p, "vip", "toGate")
  /\ UNCHANGED <<queues, sems, arrivals, signs, gate, loops>>

\* ... SpecialSendToVipChannelThread does it the other way round.
SpecialPush(p) ==
  /\ At(p, "special") /\ left[p] = "on"
  /\ boardingQueue' = Append(boardingQueue, p)
  /\ Goto(p, "special", "specialPost")
  /\ UNCHANGED <<passenger, securityQueue, specialPassenger, sems, arrivals,
                 signs, gate, loops, cvars>>

\* Mutant: boardingFull is not posted.
SpecialPostForgotten(p) ==
  /\ At(p, "specialPost")
  /\ Goto(p, "specialPost", "specialLeave")
  /\ UNCHANGED <<queues, sems, arrivals, signs, gate, loops, cvars>>

SpecialPost(p) ==
  /\ At(p, "specialPost")
  /\ Post("boardingFull")
  /\ Goto(p, "specialPost", "specialLeave")
  /\ UNCHANGED <<queues, beltEmpty, beltFull, arrivals, signs, gate, loops,
                 cvars>>

\* Mutant: the thread ends without leaving the channel.
SpecialLeaveForgotten(p) ==
  /\ At(p, "specialLeave")
  /\ Exit(p, "specialLeave")
  /\ UNCHANGED <<queues, sems, arrivals, signs, gate, loops, cvars>>

SpecialLeave(p) ==
  /\ At(p, "specialLeave")
  /\ Channel!LeftLeave(p)
  /\ Exit(p, "specialLeave")
  /\ UNCHANGED <<queues, sems, arrivals, signs, gate, loops>>

-----------------------------------------------------------------------------
(* The gate. *)

FromGate ==
  /\ loop["boarding"] = "wait"
  /\ Wait("boardingFull")
  /\ boardingQueue' = Tail(boardingQueue)

\* GetTime()%5==0: the passenger has lost his boarding pass and a thread of
\* SendRightToLeft takes him to the channel.
BoardingLose ==
  /\ FromGate
  /\ Spawn(Head(boardingQueue), "back")
  /\ Channel!RightArrive(Head(boardingQueue))
  /\ loop' = [loop EXCEPT !["boarding"] = "check"]
  /\ UNCHANGED <<passenger, securityQueue, specialPassenger, beltEmpty,
                 beltFull, arrivals, signs, boarderCnt, boarded, beltLoop,
                 serving>>

BoardingCall ==
  /\ FromGate
  /\ serving' = [serving EXCEPT !["boarding"] = Head(boardingQueue)]
  /\ loop' = [loop EXCEPT !["boarding"] = "serve"]
  /\ UNCHANGED <<passenger, securityQueue, specialPassenger, beltEmpty,
                 beltFull, arrivals, signs, gate, beltLoop, threads, cvars>>

BoardingSeat ==
  /\ loop["boarding"] = "serve"
  /\ boarderCnt' = boarderCnt + 1
  /\ boarded' = boarded \cup {serving["boarding"]}
  /\ serving' = [serving EXCEPT !["boarding"] = 0]
  /\ loop' = [loop EXCEPT !["boarding"] = "check"]
  /\ UNCHANGED <<queues, sems, arrivals, signs, beltLoop, threads, cvars>>

-----------------------------------------------------------------------------
(* Back to the special kiosk. *)

\* SendRightToLeftThread queues at the special kiosk, then leaves the channel.
BackPush(p) ==
  /\ At(p, "back") /\ right[p] = "on"
  /\ specialPassenger' = Append(specialPassenger, p)
  /\ Goto(p, "back", "backPost")
  /\ UNCHANGED <<passenger, securityQueue, boardingQueue, sems, arrivals,
                 signs, gate, loops, cvars>>

BackPost(p) ==
  /\ At(p, "backPost")
  /\ Post("specialKioskFull")
  /\ Goto(p, "backPost", "backLeave")
  /\ UNCHANGED <<queues, beltEmpty, beltFull, arrivals, signs, gate, loops,
                 cvars>>

BackLeave(p) ==
  /\ At(p, "backLeave")
  /\ Channel!RightLeave(p)
  /\ Exit(p, "backLeave")
  /\ UNCHANGED <<queues, sems, arrivals, signs, gate, loops>>

SpecialKioskTake ==
  /\ loop["special"] = "wait"
  /\ Wait("specialKioskFull")
  /\ serving' = [serving EXCEPT !["special"] = Head(specialPassenger)]
  /\ specialPassenger' = Tail(specialPassenger)
  /\ loop' = [loop EXCEPT !["special"] = "serve"]
  /\ UNCHANGED <<passenger, securityQueue, boardingQueue, beltEmpty, beltFull,
                 arrivals, signs, gate, beltLoop, threads, cvars>>

\* The check-in is over: a thread of SpecialSendToVipChannel is created.
SpecialKioskSend ==
  /\ loop["special"] = "serve"
  /\ Spawn(serving["special"], "special")
  /\ Channel!LeftArrive(serving["special"])
  /\ serving' = [serving EXCEPT !["special"] = 0]
  /\ loop' = [loop EXCEPT !["special"] = "check"]
  /\ UNCHANGED <<queues, sems, arrivals, signs, gate, beltLoop>>

-----------------------------------------------------------------------------
Errand(p) ==
  \/ EnterPush(p) \/ EnterPost(p)
  \/ KioskProduceFree(p) \/ KioskProducePush(p) \/ KioskProducePost(p)
  \/ SecurityFree(p) \/ GatePush(p) \/ GatePost(p)
  \/ VipFree(p) \/ WalkOn(p) \/ VipLeave(p)
  \/ SpecialPush(p) \/ SpecialPost(p) \/ SpecialLeave(p)
  \/ BackPush(p) \/ BackPost(p) \/ BackLeave(p)

KioskFunc == CheckDone("kiosk") \/ KioskTake
SecurityFunc(b) == CheckDoneBelt(b) \/ SecurityTake(b)
BoardingFunc ==
  CheckDone("boarding") \/ BoardingLose \/ BoardingCall \/ BoardingSeat
SpecialKiosk == CheckDone("special") \/ SpecialKioskTake \/ SpecialKioskSend
GeneratePassenger == GenerateInsert \/ GenerateSpawn

\* Everybody has boarded and no thread can move: a loop that passed its test
\* before the last passenger boarded stays in sem_wait.
AllBoarded ==
  /\ boarderCnt = TO_BE_BOARDED
  /\ threads = {}
  /\ \A l \in Loop : loop[l] \in {"wait", "exit"}
  /\ \A b \in Belt : beltLoop[b] \in {"wait", "exit"}

Quiet == AllBoarded /\ UNCHANGED vars

Next ==
  \/ GeneratePassenger \/ KioskFunc \/ BoardingFunc \/ SpecialKiosk
  \/ \E b \in Belt : SecurityFunc(b)
  \/ \E p \in Passenger : Errand(p)
  \/ Quiet

SafetySpec == Init /\ [][Next]_vars
\* A thread that is not blocked runs on; a mutex is not promised to anybody.
Fairness ==
  /\ WF_vars(GeneratePassenger) /\ WF_vars(KioskFunc)
  /\ WF_vars(BoardingFunc) /\ WF_vars(SpecialKiosk)
  /\ \A b \in Belt : WF_vars(SecurityFunc(b))
  /\ \A p \in Passenger : WF_vars(Errand(p))

Spec == SafetySpec /\ Fairness

-----------------------------------------------------------------------------
(* Correctness. *)

Point == {"enter", "postKioskFull", "checkIn", "wantBelt", "postBeltFull",
          "scan", "toGate", "postBoardingFull", "vipCheckIn", "vip",
          "special", "specialPost", "specialLeave",
          "back", "backPost", "backLeave"}

TypeOK ==
  /\ generated \in 0 .. TO_BE_BOARDED /\ inserting \in BOOLEAN
  /\ {passenger, boardingQueue, specialPassenger} \subseteq Seq(Passenger)
  /\ securityQueue \in [Belt -> Seq(Passenger)]
  /\ kioskNumber \in [1 .. M -> 1 .. M]
  /\ sem \in [{"kioskEmpty", "kioskFull", "boardingFull", "specialKioskFull"}
               -> Nat]
  /\ beltEmpty \in [Belt -> Nat] /\ beltFull \in [Belt -> Nat]
  /\ boarderCnt \in 0 .. TO_BE_BOARDED
  /\ boarded \subseteq Passenger
  /\ threads \subseteq Passenger \X Point
  /\ loop \in [Loop -> {"check", "wait", "serve", "exit"}]
  /\ beltLoop \in [Belt -> {"check", "wait", "exit"}]
  /\ serving \in [{"boarding", "special"} -> 0 .. TO_BE_BOARDED]
  /\ belt \in [Passenger -> 0 .. N]
  /\ Channel!TypeOK

\* The threads that have the passenger with them, rather than a token to post.
Carrying == {"enter", "checkIn", "wantBelt", "scan", "toGate", "vipCheckIn",
             "vip", "special", "back"}

Positions(p, q) == {i \in DOMAIN q : q[i] = p}

Places(p) ==
  {<<"thread", c>> : c \in {c \in Carrying : At(p, c)}}
    \cup {<<"passenger", i>> : i \in Positions(p, passenger)}
    \cup (UNION {{<<"belt", b, i>> : i \in Positions(p, securityQueue[b])} : b \in Belt})
    \cup {<<"boardingQueue", i>> : i \in Positions(p, boardingQueue)}
    \cup {<<"specialPassenger", i>> : i \in Positions(p, specialPassenger)}
    \cup {<<"loop", l>> : l \in {l \in DOMAIN serving : serving[l] = p}}
    \cup {<<"plane", 0>> : x \in {p} \cap boarded}

Arrived == 1 .. (IF inserting THEN generated - 1 ELSE generated)

\* Nobody gets lost between two threads and nobody is handed on twice: each
\* passenger who has arrived is with one thread, or in one queue, or on board.
OnePlace ==
  /\ \A p \in Passenger : Cardinality(Places(p)) = IF p \in Arrived THEN 1 ELSE 0
  /\ boarderCnt = Cardinality(boarded)

AtPoint(points) == Cardinality({p \in Passenger : \E c \in points : At(p, c)})
AtBelt(b, points) ==
  Cardinality({p \in Passenger : belt[p] = b /\ \E c \in points : At(p, c)})

\* Each queue holds as many items as its semaphore has tokens or is about to
\* get, so that no loop pops an empty queue (lines 179, 258, 366, 387), and the
\* tokens of the "empty" semaphores are neither lost nor made up.
TokensMatch ==
  /\ Len(passenger) = sem.kioskFull + AtPoint({"postKioskFull"})
  /\ Len(boardingQueue) =
       sem.boardingFull + AtPoint({"postBoardingFull"}) + AtPoint({"specialPost"})
  /\ Len(specialPassenger) = sem.specialKioskFull + AtPoint({"backPost"})
  /\ sem.kioskEmpty + Len(passenger) + AtPoint({"checkIn", "vipCheckIn"}) = M
  /\ \A b \in Belt :
       /\ Len(securityQueue[b]) = beltFull[b] + AtBelt(b, {"postBeltFull"})
       /\ beltEmpty[b] + Len(securityQueue[b]) + AtBelt(b, {"scan"}) = P

\* Who walks is known to the lock of the channel and the other way round: a
\* thread that posts before it leaves (lines 146, 302) is still counted.
ChannelKnowsWalkers ==
  \A p \in Passenger :
    /\ left[p] # "out" <=> \E c \in {"vip", "special", "specialPost",
                                     "specialLeave"} : At(p, c)
    /\ right[p] # "out" <=> \E c \in {"back", "backPost", "backLeave"} : At(p, c)

\* A thread that hands its passenger on before it has left the channel (lines
\* 146, 302) has left when the next one is created for him, or the passenger
\* would be in the channel twice.
NoTwin ==
  /\ serving["special"] # 0 => left[serving["special"]] = "out"
  /\ \A i \in DOMAIN boardingQueue : right[boardingQueue[i]] = "out"

\* The airport uses the channel as VipChannel describes it.
UsesChannel == Channel!ChannelSafetySpec

\* If only finitely many boarding passes are lost, everybody boards.
EverybodyBoards ==
  <>[][~BoardingLose]_vars => <>(boarded = Passenger)
=============================================================================
