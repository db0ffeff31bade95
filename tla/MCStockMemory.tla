--------------------------- MODULE MCStockMemory ---------------------------
(* Instances of StockMemory for TLC.                                       *)
EXTENDS StockMemory, TLC

CONSTANTS r1, r2, r3, s1, s2, reqA, reqB, reqC, reqD, reqE

Line(s, n) == [sku |-> s, qty |-> n]

Crossed ==
  (r1 :> <<Line(s1, 1), Line(s2, 1)>>) @@ (r2 :> <<Line(s2, 1), Line(s1, 2)>>)
    @@ (r3 :> <<Line(s1, 1), Line(s1, 1)>>)

Call(o, r) == [op |-> o, ref |-> r]

TwoEach == s1 :> 2 @@ s2 :> 2

(* Two orders, one of which is confirmed and swept, and a replenishment of *)
(* an SKU that both ask for.                                               *)
Rivals == reqA :> Call("reserve", r1) @@ reqB :> Call("reserve", r2)
          @@ reqC :> [op |-> "sweep"] @@ reqD :> Call("confirm", r1)
          @@ reqE :> [op |-> "replenish", sku |-> s1, qty |-> 2]
(* An order whose lines repeat an SKU.                                     *)
Alone == reqA :> Call("reserve", r3)
Adding == reqA :> [op |-> "replenish", sku |-> s1, qty |-> 1]
          @@ reqB :> Call("reserve", r1)
=============================================================================
