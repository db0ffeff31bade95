---------------------------- MODULE MCInventory ----------------------------
(* Instances of Inventory for TLC: two orders that compete for two SKUs.   *)
EXTENDS Inventory, TLC

CONSTANTS r1, r2, s1, s2

MCOrder == (r1 :> (s1 :> 1 @@ s2 :> 1)) @@ (r2 :> (s1 :> 2 @@ s2 :> 1))

Unstocked == s1 :> 0 @@ s2 :> 0
=============================================================================
