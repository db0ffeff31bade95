---------------------------- MODULE StockCommand ----------------------------
(***************************************************************************)
(* The use cases of the inventory context (internal/application) between   *)
(* the load and the save of their transaction: what they do to the copies  *)
(* they loaded, whichever adapter the copies came from.                    *)
(*                                                                         *)
(* A request is one call of a use case, with its arguments, and runs once. *)
(* A copy is a loaded stock item with the version of its row, which is 0   *)
(* for an item that Replenish creates.                                     *)
(***************************************************************************)
EXTENDS StockItem

CONSTANTS
  SKU,          \* stock keeping units
  LinesOf,      \* LinesOf[r]: the sequence of lines [sku, qty] of order r
  Request,      \* calls of the use cases
  Cmd,          \* Cmd[w]: the use case request w calls, and its arguments
  Opening,      \* units of each SKU in stock when the model starts
  TTL,          \* how long a pending reservation is held
  Batch,        \* most stock items one sweep handles
  MaxAttempts   \* attempts of uow.Run

ByRef == {"reserve", "confirm", "release"}

Command ==
  [op : {"replenish"}, sku : SKU, qty : Nat \ {0}]
    \cup [op : ByRef, ref : Ref] \cup [op : {"sweep"}]

ASSUME SKUAssumption == IsFiniteSet(SKU)
ASSUME OrderAssumption ==
  IsFiniteSet(Ref) /\ LinesOf \in [Ref -> Seq([sku : SKU, qty : Nat])]
ASSUME RequestAssumption == Cmd \in [Request -> Command]
ASSUME NumberAssumption == {TTL, Batch, MaxAttempts} \subseteq Nat \ {0}
ASSUME OpeningAssumption == Opening \in [SKU -> Nat]

Op(w) == Cmd[w].op

Copy == [sku : SKU, version : Nat, item : Item]

(* The committed row of an SKU; version 0 says that there is none.         *)
Row == [version : Nat, item : Item]

OpeningRows ==
  [s \in SKU |-> [version |-> IF Opening[s] = 0 THEN 0 ELSE 1,
                  item |-> ReplenishItem(NewStockItem, Opening[s])]]

(* The SKUs a request asks for by name, in order.                          *)
Named(w) ==
  CASE Op(w) = "replenish" -> <<Cmd[w].sku>>
    [] Op(w) = "reserve" -> [i \in DOMAIN LinesOf[Cmd[w].ref] |->
                               LinesOf[Cmd[w].ref][i].sku]
    [] OTHER -> <<>>

(* What the domain operation refuses ends the request: it is not retried.  *)
CanApply(w, copies) ==
  CASE Op(w) = "reserve" ->
         CanAllocate(copies, Cmd[w].ref, LinesOf[Cmd[w].ref])
    [] Op(w) = "confirm" ->
         /\ copies # <<>>
         /\ \A i \in DOMAIN copies :
              HasReservation(copies[i].item, Cmd[w].ref)
    [] OTHER -> TRUE

(* The expiries the lines of a reservation may compute, when the clock is  *)
(* read between the times from and to.                                     *)
NoExpiry == [s \in SKU |-> 0]

Expiries(w, from, to) ==
  IF Op(w) = "reserve" THEN [SKU -> {t + TTL : t \in from .. to}]
                       ELSE {NoExpiry}

ResultOf(w, it, t) ==
  CASE Op(w) = "replenish" -> ReplenishItem(it, Cmd[w].qty)
    [] Op(w) = "confirm" -> ConfirmItem(it, Cmd[w].ref)
    [] Op(w) = "release" -> ReleaseItem(it, Cmd[w].ref)
    [] Op(w) = "sweep" -> ReapItem(it, t)

(* The copies after the domain operation; a sweep uses the time t.         *)
Result(w, copies, t, exp) ==
  IF Op(w) = "reserve"
  THEN Allocate(copies, Cmd[w].ref, LinesOf[Cmd[w].ref], exp)
  ELSE [i \in DOMAIN copies |->
          [copies[i] EXCEPT !.item = ResultOf(w, @, t)]]

(* What a committed request adds to the stock.                             *)
Added(w, supplied) ==
  IF Op(w) = "replenish" THEN [supplied EXCEPT ![Cmd[w].sku] = @ + Cmd[w].qty]
                         ELSE supplied

(* The quantity the first line of an order asks of each SKU.               *)
OrderOf ==
  [r \in Ref |-> [s \in SKU |->
     IF \E i \in DOMAIN LinesOf[r] : LinesOf[r][i].sku = s
     THEN LinesOf[r][FirstLine(LinesOf[r], s)].qty
     ELSE 0]]

(* The quantity all its lines together ask.                                *)
Asked(r, s) ==
  LET lines == {i \in DOMAIN LinesOf[r] : LinesOf[r][i].sku = s}
  IN  Cardinality(UNION {{i} \X (1 .. LinesOf[r][i].qty) : i \in lines})
=============================================================================
