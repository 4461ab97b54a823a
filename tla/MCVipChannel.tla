---------------------------- MODULE MCVipChannel ----------------------------
(* Instances of VipChannel for TLC: the walkers are given in the .cfg. *)
EXTENDS VipChannel
=============================================================================
