----------------------------- MODULE MCStockTxn -----------------------------
(* Instances of StockTxn for TLC.                                          *)
EXTENDS StockTxn, TLC

CONSTANTS
  r1, r2, r3, s1, s2, s3,
  reserve1, reserve2, release1, add1, sweep, confirm1,
  new1, new2, reserve3

Line(s, n) == [sku |-> s, qty |-> n]

(* Two orders that name two SKUs in opposite orders, and one for an SKU    *)
(* that no row exists of yet.                                              *)
Orders ==
  (r1 :> <<Line(s1, 1), Line(s2, 1)>>) @@ (r2 :> <<Line(s2, 1), Line(s1, 2)>>)
  @@ (r3 :> <<Line(s3, 1), Line(s2, 1)>>)

Call(o, r) == [op |-> o, ref |-> r]
Add(s, n) == [op |-> "replenish", sku |-> s, qty |-> n]

OpeningStock == s1 :> 2 @@ s2 :> 2 @@ s3 :> 0

Calls ==
  reserve1 :> Call("reserve", r1) @@ reserve2 :> Call("reserve", r2)
  @@ release1 :> Call("release", r1) @@ add1 :> Add(s1, 1)
  @@ sweep :> [op |-> "sweep"] @@ confirm1 :> Call("confirm", r1)
  @@ new1 :> Add(s3, 1) @@ new2 :> Add(s3, 2)
  @@ reserve3 :> Call("reserve", r3)

(* Crossed reservations against a release and a replenishment.             *)
Rivals == [calls |-> {reserve1, reserve2, release1, add1}, until |-> 0]

(* The life of one order against the reaper: a late confirmation.          *)
Lifecycle == [calls |-> {reserve1, sweep, confirm1}, until |-> 2]

(* Two replenishments race to create an SKU; a reservation waits for it.   *)
NewItem == [calls |-> {new1, new2, reserve3}, until |-> 0]

AllWorkloads == {Rivals, Lifecycle, NewItem}
Trio == {[calls |-> {reserve1, reserve2, release1}, until |-> 0]}
=============================================================================
