--------------------------- MODULE OneWayWalkway ---------------------------
(***************************************************************************)
(* What the VIP channel of the airport promises: a moving walkway that any *)
(* number of passengers may walk on at the same time, all of them in one   *)
(* direction.  VipChannel.tla is the program's implementation of it.       *)
(***************************************************************************)
CONSTANTS Left,   \* who may walk from the kiosks to the boarding gate
          Right   \* who may walk from the boarding gate to the special kiosk

VARIABLES eastbound,  \* the members of Left on the walkway
          westbound   \* the members of Right on the walkway

vars == <<eastbound, westbound>>

Init == eastbound = {} /\ westbound = {}

EnterLeft(p) ==
  /\ p \notin eastbound
  /\ westbound = {}
  /\ eastbound' = eastbound \cup {p}
  /\ UNCHANGED westbound

EnterRight(p) ==
  /\ p \notin westbound
  /\ eastbound = {}
  /\ westbound' = westbound \cup {p}
  /\ UNCHANGED eastbound

LeaveLeft(p) ==
  /\ p \in eastbound
  /\ eastbound' = eastbound \ {p}
  /\ UNCHANGED westbound

LeaveRight(p) ==
  /\ p \in westbound
  /\ westbound' = westbound \ {p}
  /\ UNCHANGED eastbound

Next == \/ \E p \in Left : EnterLeft(p) \/ LeaveLeft(p)
        \/ \E p \in Right : EnterRight(p) \/ LeaveRight(p)

Spec == Init /\ [][Next]_vars
=============================================================================
