----------------------------- MODULE MCOrdering -----------------------------
(* Instances of Ordering for TLC.                                          *)
EXTENDS Ordering, TLC

CONSTANTS
  o1, o2, s1, s2, t1, t2,
  place1, place2, cancel1, cancel2, cancel3, prepare1, prepare2, ship1,
  ship2

(* The second order's total does not fit: of the 16 amounts, from -8 to 7, *)
(* 12 is -4.                                                               *)
Amounts == o1 :> 3 @@ o2 :> 12

Cmds ==
  place1 :> [op |-> "place"] @@ place2 :> [op |-> "place"]
  @@ cancel1 :> [op |-> "cancel", order |-> o1]
  @@ cancel2 :> [op |-> "cancel", order |-> o1]
  @@ cancel3 :> [op |-> "cancel", order |-> o1]
  @@ prepare1 :> [op |-> "prepare", order |-> o1]
  @@ prepare2 :> [op |-> "prepare", order |-> o2]
  @@ ship1 :> [op |-> "ship", shipment |-> s1, tracking |-> t1]
  @@ ship2 :> [op |-> "ship", shipment |-> s1, tracking |-> t2]

StoredOrder == o1 :> [status |-> "confirmed", version |-> 1, total |-> 3]

StoredShipment ==
  s1 :> [status |-> "preparing", version |-> 1, order |-> o1,
         tracking |-> "none"]

(* Three cancellations of an order race with each other.                   *)
Cancelling ==
  [rows |-> StoredOrder, requests |-> {cancel1, cancel2, cancel3}]

(* A second shipment of an order is prepared, the first one dispatched,    *)
(* while the order is cancelled.                                           *)
Preparing ==
  [rows |-> StoredOrder @@ StoredShipment,
   requests |-> {prepare1, ship1, cancel1}]

(* Two dispatches of a shipment, and the cancellation of its order.        *)
Shipping ==
  [rows |-> StoredOrder @@ StoredShipment,
   requests |-> {ship1, ship2, cancel1}]

(* Orders are placed, one of which cannot be read, and then used.          *)
Placing ==
  [rows |-> << >>, requests |-> {place1, place2, cancel1, prepare2}]

AllWorkloads == {Cancelling, Preparing, Shipping, Placing}
=============================================================================
