----------------------------- MODULE SeamProofs -----------------------------
(***************************************************************************)
(* The safety of Seam for any orders, relays and bounds.  Its stock is an  *)
(* Inventory and its messages are an Outbox: every step is a step of each  *)
(* of them or leaves it alone, so that what InventoryProofs and            *)
(* OutboxProofs show of the components holds of the composition.  The rest *)
(* of the invariant relates the three: the orders that are stored, the     *)
(* messages that were committed with them, and the stock they hold.        *)
(***************************************************************************)
EXTENDS Seam, TLAPS

IP == INSTANCE InventoryProofs
OP == INSTANCE OutboxProofs WITH Batch <- Rows

(* What the proofs about a component assume holds of the constants here.   *)
LEMMA ComponentAssumptions ==
  /\ IP!OrderAssumption /\ IP!QuantitiesAssumption /\ IP!TimeAssumption
  /\ IP!BatchAssumption /\ IP!SupplyAssumption
  /\ OP!BatchAssumption
<1>1. IP!OrderAssumption
  BY OrderAssumption DEF IP!OrderAssumption, IP!IsFiniteSet, IsFiniteSet
<1> QED
  BY <1>1, QuantitiesAssumption, TimeAssumption, BatchAssumption,
     SupplyAssumption
     DEF IP!QuantitiesAssumption, IP!TimeAssumption, IP!BatchAssumption,
         IP!SupplyAssumption, OP!BatchAssumption

-----------------------------------------------------------------------------
(* The stock as Seam names it is the stock as InventoryProofs names it.    *)
LEMMA SameItems ==
  /\ I!Item = IP!Item /\ I!NewStockItem = IP!NewStockItem
  /\ \A it, r : I!HasReservation(it, r) <=> IP!HasReservation(it, r)
  /\ \A it, t : I!Reapable(it, t) = IP!Reapable(it, t)
  /\ \A it, q : I!ReplenishItem(it, q) = IP!ReplenishItem(it, q)
  /\ \A it, r, q : I!CanReserve(it, r, q) <=> IP!CanReserve(it, r, q)
  /\ \A it, r, q, exp :
       I!ReserveItem(it, r, q, exp) = IP!ReserveItem(it, r, q, exp)
  /\ \A it, r : I!ConfirmItem(it, r) = IP!ConfirmItem(it, r)
  /\ \A it, r : I!ReleaseItem(it, r) = IP!ReleaseItem(it, r)
  /\ \A it, t : I!ReapItem(it, t) = IP!ReapItem(it, t)
  /\ \A S : I!Cardinality(S) = IP!Cardinality(S)
<1>1. I!NoReservation = IP!NoReservation
  BY DEF I!NoReservation, IP!NoReservation
<1>2. I!Item = IP!Item
  BY DEF I!Item, IP!Item, I!Reservation, IP!Reservation
<1>3. I!NewStockItem = IP!NewStockItem
  BY <1>1 DEF I!NewStockItem, IP!NewStockItem
<1>4. \A it, r : I!HasReservation(it, r) <=> IP!HasReservation(it, r)
  BY DEF I!HasReservation, IP!HasReservation
<1>5. \A it, t : I!Reapable(it, t) = IP!Reapable(it, t)
  BY DEF I!Reapable, IP!Reapable, I!IsExpired, IP!IsExpired
<1>6. \A it, q : I!ReplenishItem(it, q) = IP!ReplenishItem(it, q)
  BY DEF I!ReplenishItem, IP!ReplenishItem
<1>7. \A it, r, q : I!CanReserve(it, r, q) <=> IP!CanReserve(it, r, q)
  BY <1>4 DEF I!CanReserve, IP!CanReserve
<1>8. \A it, r, q, exp :
        I!ReserveItem(it, r, q, exp) = IP!ReserveItem(it, r, q, exp)
  BY <1>4 DEF I!ReserveItem, IP!ReserveItem
<1>9. \A it, r : I!ConfirmItem(it, r) = IP!ConfirmItem(it, r)
  BY DEF I!ConfirmItem, IP!ConfirmItem
<1>10. \A it, r : I!ReleaseItem(it, r) = IP!ReleaseItem(it, r)
  BY <1>1 DEF I!ReleaseItem, IP!ReleaseItem
<1>11. \A S : I!Cardinality(S) = IP!Cardinality(S)
  BY DEF I!Cardinality, IP!Cardinality, I!IsFiniteSet, IP!IsFiniteSet
<1>12. \A it, refs : I!UnitsOf(it, refs) = IP!UnitsOf(it, refs)
  BY DEF I!UnitsOf, IP!UnitsOf
<1>13. \A it, t : I!ReapItem(it, t) = IP!ReapItem(it, t)
  BY <1>1, <1>5, <1>11, <1>12 DEF I!ReapItem, IP!ReapItem
<1> QED
  BY <1>2, <1>3, <1>4, <1>5, <1>6, <1>7, <1>8, <1>9, <1>10, <1>11, <1>13

LEMMA SameInventory ==
  /\ I!vars = IP!vars
  /\ I!Init => IP!Init
  /\ I!Next => IP!Next
<1>1. I!vars = IP!vars
  BY DEF I!vars, IP!vars
<1>2. I!Init => IP!Init
  BY SameItems DEF I!Init, IP!Init
<1>3. I!Next => IP!Next
  <2>1. ASSUME NEW r \in Ref
        PROVE  I!Lines(r) = IP!Lines(r) /\ I!Holders(r) = IP!Holders(r)
    BY SameItems DEF I!Lines, IP!Lines, I!Holders, IP!Holders
  <2>2. I!Expiries = IP!Expiries
    BY DEF I!Expiries, IP!Expiries
  <2>3. \A t : I!Expired(t) = IP!Expired(t)
    BY SameItems DEF I!Expired, IP!Expired
  <2>4. \A s \in SKU, q \in Quantities :
          I!Replenish(s, q) => IP!Replenish(s, q)
    BY SameItems DEF I!Replenish, IP!Replenish
  <2>5. \A r \in Ref : \A exp : I!Reserve(r, exp) => IP!Reserve(r, exp)
    BY SameItems, <2>1 DEF I!Reserve, IP!Reserve
  <2>6. \A r \in Ref : I!Confirm(r) => IP!Confirm(r)
    BY SameItems, <2>1 DEF I!Confirm, IP!Confirm
  <2>7. \A r \in Ref : I!Release(r) => IP!Release(r)
    BY SameItems, <2>1 DEF I!Release, IP!Release
  <2>8. \A t, S : I!Sweep(t, S) => IP!Sweep(t, S)
    BY SameItems, <2>3 DEF I!Sweep, IP!Sweep
  <2>9. I!Tick => IP!Tick
    BY DEF I!Tick, IP!Tick
  <2> QED
    BY <2>1, <2>2, <2>4, <2>5, <2>6, <2>7, <2>8, <2>9 DEF I!Next, IP!Next
<1> QED
  BY <1>1, <1>2, <1>3

(* The messages as Seam names them are those of OutboxProofs.              *)
LEMMA SameOutbox ==
  /\ O!vars = OP!vars
  /\ O!Init => OP!Init
  /\ O!Next => OP!Next
<1>1. O!vars = OP!vars
  BY DEF O!vars, OP!vars
<1>2. O!Init => OP!Init
  BY DEF O!Init, OP!Init
<1>3. O!Next => OP!Next
  <2>1. \A S : O!Cardinality(S) = OP!Cardinality(S)
    BY DEF O!Cardinality, OP!Cardinality, O!IsFiniteSet, OP!IsFiniteSet
  <2>2. \A k \in Relay, m \in Message : O!IsHead(k, m) <=> OP!IsHead(k, m)
    BY DEF O!IsHead, OP!IsHead
  <2>3. \A k \in Relay : O!List(k) => OP!List(k)
    BY <2>1 DEF O!List, OP!List, O!IsBatch, OP!IsBatch
  <2>4. \A k \in Relay : O!Stop(k) => OP!Stop(k)
    BY DEF O!Stop, OP!Stop
  <2>5. \A k \in Relay, m \in Message :
          /\ O!Publish(k, m) => OP!Publish(k, m)
          /\ O!Fail(k, m) => OP!Fail(k, m)
          /\ O!Mark(k, m) => OP!Mark(k, m)
    BY <2>2 DEF O!Publish, OP!Publish, O!Fail, OP!Fail, O!Mark, OP!Mark
  <2>6. \A m \in Message :
          /\ O!Create(m) => OP!Create(m)
          /\ O!Commit(m) => OP!Commit(m)
          /\ O!ArriveLate(m) => OP!ArriveLate(m)
    BY DEF O!Create, OP!Create, O!Commit, OP!Commit,
           O!ArriveLate, OP!ArriveLate
  <2> QED
    BY <2>3, <2>4, <2>5, <2>6 DEF O!Next, OP!Next, O!Relaying, OP!Relaying
<1> QED
  BY <1>1, <1>2, <1>3

-----------------------------------------------------------------------------
(* A step of Seam is a step of both components, or leaves one alone.       *)
LEMMA Messages ==
  \A r \in Ref : ConfirmReservation(r) \in Message /\ OrderCancelled(r) \in Message
BY DEF ConfirmReservation, OrderCancelled, Message

LEMMA DeliverIsStock ==
  ASSUME NEW m \in Message, Deliver(m)
  PROVE  I!Next \/ UNCHANGED stockVars
<1>1. m.ref \in Ref
  BY DEF Message
<1>2. CASE OnConfirmReservation(m.ref)
  BY <1>1, <1>2 DEF OnConfirmReservation, I!Next
<1>3. CASE OnOrderCancelled(m.ref)
  BY <1>1, <1>3 DEF OnOrderCancelled, I!Next
<1> QED
  BY <1>2, <1>3 DEF Deliver

LEMMA StepOfParts ==
  ASSUME [Next]_vars
  PROVE  [I!Next]_(I!vars) /\ [O!Next]_(O!vars)
<1> DEFINE Goal == (I!Next \/ UNCHANGED stockVars)
                   /\ (O!Next \/ UNCHANGED outboxVars)
<1>1. ASSUME NEW r \in Ref, Placing(r)
      PROVE  Goal
  <2>1. ASSUME NEW exp \in [I!Lines(r) -> I!Expiries], Reserve(r, exp)
        PROVE  Goal
    <3>1. I!Next
      BY <2>1 DEF Reserve, I!Next
    <3> QED
      BY <2>1, <3>1 DEF Reserve
  <2>2. CASE Build(r) \/ Store(r)
    <3>1. O!Next
      BY <2>2, Messages DEF Build, Store, O!Next
    <3> QED
      BY <2>2, <3>1 DEF Build, Store
  <2>3. CASE Compensate(r)
    <3>1. I!Next
      BY <2>3 DEF Compensate, I!Next
    <3> QED
      BY <2>3, <3>1 DEF Compensate
  <2>4. CASE Begin(r) \/ Refuse(r) \/ Abandon(r) \/ StoreFails(r) \/ Drop(r)
    BY <2>4 DEF Begin, Refuse, Abandon, StoreFails, Drop
  <2> QED
    BY <1>1, <2>1, <2>2, <2>3, <2>4 DEF Placing
<1>2. ASSUME NEW r \in Ref, BeginCancel(r) \/ FinishCancel(r)
      PROVE  Goal
  <2>1. O!Next
    BY <1>2, Messages DEF BeginCancel, FinishCancel, O!Next
  <2> QED
    BY <1>2, <2>1 DEF BeginCancel, FinishCancel
<1>3. ASSUME NEW m \in Message, ArriveLate(m)
      PROVE  Goal
  <2>1. O!Next
    BY <1>3 DEF ArriveLate, O!Next
  <2> QED
    BY <1>3, <2>1, DeliverIsStock DEF ArriveLate
<1>4. ASSUME NEW k \in Relay, Relaying(k)
      PROVE  Goal
  <2>1. ASSUME NEW m \in Message, Publish(k, m)
        PROVE  Goal
    <3>1. O!Next
      BY <2>1 DEF Publish, O!Next, O!Relaying
    <3> QED
      BY <2>1, <3>1, DeliverIsStock DEF Publish
  <2>2. ASSUME NEW m \in Message, Fail(k, m) \/ Mark(k, m)
        PROVE  Goal
    <3>1. O!Next
      BY <2>2 DEF Fail, Mark, O!Next, O!Relaying
    <3> QED
      BY <2>2, <3>1 DEF Fail, Mark
  <2>3. CASE List(k) \/ Stop(k)
    <3>1. O!Next
      BY <2>3 DEF List, Stop, O!Next, O!Relaying
    <3> QED
      BY <2>3, <3>1 DEF List, Stop
  <2> QED
    BY <1>4, <2>1, <2>2, <2>3 DEF Relaying
<1>5. ASSUME NEW t \in 0 .. now, NEW S \in SUBSET SKU, Sweep(t, S)
      PROVE  Goal
  <2>1. I!Next
    BY <1>5 DEF Sweep, I!Next
  <2> QED
    BY <1>5, <2>1 DEF Sweep
<1>6. ASSUME Tick
      PROVE  Goal
  BY <1>6 DEF Tick, I!Next
<1>7. ASSUME UNCHANGED vars
      PROVE  Goal
  BY <1>7 DEF vars
<1>8. Goal
  BY <1>1, <1>2, <1>3, <1>4, <1>5, <1>6, <1>7 DEF Next
<1> QED
  BY <1>8 DEF stockVars, outboxVars, I!vars, O!vars

(* The stock of the composition obeys the inventory's specification:       *)
(* whatever is lost, repeated or late between the contexts, nothing is     *)
(* done to it but whole use cases (place_order.go, subscriber.go).         *)
THEOREM StockImplemented == Spec => I!Spec
<1>1. Init => I!Init
  BY DEF Init
<1> QED
  BY <1>1, StepOfParts, PTL DEF Spec, I!Spec

(* Its messages obey the outbox's: a request that stops or fails, and a    *)
(* cancellation that comes second, write none (outbox.go: Enqueue).        *)
THEOREM OutboxImplemented == Spec => O!Spec
<1>1. Init => O!Init
  BY DEF Init
<1> QED
  BY <1>1, StepOfParts, PTL DEF Spec, O!Spec

(* Hence everything InventoryProofs and OutboxProofs show.                 *)
LEMMA ComponentSpecs == Spec => IP!Spec /\ OP!Spec
<1>1. Spec => IP!Spec
  <2>1. Init => IP!Init
    BY SameInventory DEF Init
  <2>2. [Next]_vars => [IP!Next]_(IP!vars)
    BY StepOfParts, SameInventory DEF I!vars, IP!vars
  <2> QED
    BY <2>1, <2>2, PTL DEF Spec, IP!Spec
<1>2. Spec => OP!Spec
  <2>1. Init => OP!Init
    BY SameOutbox DEF Init
  <2>2. [Next]_vars => [OP!Next]_(OP!vars)
    BY StepOfParts, SameOutbox DEF O!vars, OP!vars
  <2> QED
    BY <2>1, <2>2, PTL DEF Spec, OP!Spec
<1> QED
  BY <1>1, <1>2

LEMMA ComponentInvariants == Spec => []IP!Inv /\ []OP!Inv
<1>1. IP!Spec => []IP!Inv
  BY ComponentAssumptions, IP!InvHolds
<1>2. OP!Spec => []OP!Inv
  BY ComponentAssumptions, OP!InvHolds
<1> QED
  BY <1>1, <1>2, ComponentSpecs, PTL

(* Across the contexts no unit is lost or sold twice, no hold of an order  *)
(* that was not confirmed outlives its TTL, and nothing but the reaper,    *)
(* past the deadline, takes a line of an order that keeps another:         *)
(* compensations and cancellations take all of them, however late they are *)
(* (place_order.go, subscriber.go).                                        *)
THEOREM StockGuarantees ==
  Spec => []I!Conservation /\ []I!HoldBounded /\ I!TornOnlyByExpiry
<1>1. IP!Spec => []IP!Conservation /\ []IP!HoldBounded /\ IP!TornOnlyByExpiry
  <2>1. IP!Spec => []IP!Conservation
    BY ComponentAssumptions, IP!UnitsConserved
  <2>2. IP!Spec => []IP!HoldBounded
    BY ComponentAssumptions, IP!HoldsBounded
  <2>3. IP!Spec => IP!TornOnlyByExpiry
    BY ComponentAssumptions, IP!TornOnlyWhenExpired
  <2> QED
    BY <2>1, <2>2, <2>3
<1>2. IP!Conservation => I!Conservation
  <2>1. \A it, refs : I!UnitsOf(it, refs) = IP!UnitsOf(it, refs)
    BY DEF I!UnitsOf, IP!UnitsOf
  <2>2. \A it : I!Reserved(it) = IP!Reserved(it)
    BY <2>1, SameItems DEF I!Reserved, IP!Reserved
  <2> QED
    BY <2>2 DEF I!Conservation, IP!Conservation
<1>3. IP!HoldBounded => I!HoldBounded
  BY DEF I!HoldBounded, IP!HoldBounded
<1>4. IP!TornOnlyByExpiry => I!TornOnlyByExpiry
  <2>1. IP!TearsOnlyExpired => I!TearsOnlyExpired
    BY SameItems DEF IP!TearsOnlyExpired, I!TearsOnlyExpired,
                     IP!Expired, I!Expired
  <2>2. [IP!TearsOnlyExpired]_(IP!vars) => [I!TearsOnlyExpired]_(I!vars)
    BY <2>1 DEF IP!vars, I!vars
  <2> QED
    BY <2>2, PTL DEF IP!TornOnlyByExpiry, I!TornOnlyByExpiry
<1> QED
  BY <1>1, <1>2, <1>3, <1>4, ComponentSpecs, PTL

(* A message that was committed is queued or was delivered, and none is    *)
(* delivered for the first time before those its sender had committed when *)
(* it was built: an order's cancellation never overtakes its confirmation  *)
(* request (outbox.go: RunOnce).                                           *)
THEOREM MessageGuarantees == Spec => []O!NothingLost /\ []O!CausalOrder
<1>1. OP!Spec => []OP!NothingLost /\ []OP!CausalOrder
  BY ComponentAssumptions, OP!NeverLost, OP!OrderKept
<1>2. /\ OP!NothingLost => O!NothingLost
      /\ OP!CausalOrder => O!CausalOrder
  BY DEF OP!NothingLost, O!NothingLost, OP!CausalOrder, O!CausalOrder
<1> QED
  BY <1>1, <1>2, ComponentSpecs, PTL

-----------------------------------------------------------------------------
(* An order and its messages: the confirmation request was committed with  *)
(* the order, the cancellation with its change to "cancelled", and a       *)
(* request that has not got to the end of its transaction stored nothing.  *)
OrdersSent ==
  \A r \in Ref :
    /\ ConfirmReservation(r) \in log <=> order[r] # "none"
    /\ OrderCancelled(r) \in log <=> order[r] = "cancelled"
    /\ place[r] \in {"idle", "reserving", "abandoned", "reserved", "storing"}
         => order[r] = "none"

(* As long as a call can still reserve, there is no reservation for it to  *)
(* find.                                                                   *)
NotYetHeld ==
  \A r \in Ref :
    place[r] \in {"idle", "reserving", "abandoned"} => I!Holders(r) = {}

(* The requests whose stock must be there: they got the answer to their    *)
(* reservation, and neither release it nor are cancelled.                  *)
Counting(r) ==
  /\ r \notin reaped
  /\ \/ place[r] \in {"reserved", "storing"}
     \/ place[r] = "placed" /\ order[r] = "confirmed"

KeptFromReservation == \A r \in Ref : Counting(r) => Holding(r)

SeamTypeOK ==
  /\ order \in [Ref -> {"none", "confirmed", "cancelled"}]
  /\ place \in [Ref -> {"idle", "reserving", "reserved", "abandoned",
                        "storing", "releasing", "placed", "failed"}]
  /\ reaped \subseteq Ref

Inv ==
  /\ SeamTypeOK /\ OrdersSent /\ NotYetHeld /\ KeptFromReservation
  /\ OnlyStoredConfirmed /\ CancelledFree /\ ConfirmedForGood

(* What the components' invariants say of the state Seam looks at.         *)
Parts ==
  /\ stock \in [SKU -> I!Item]
  /\ got \subseteq log /\ late \subseteq log
  /\ \A k \in Relay : todo[k] \subseteq log

LEMMA PartsHold == IP!Inv /\ OP!Inv => Parts
BY SameItems DEF IP!Inv, IP!TypeOK, OP!Inv, OP!TypeOK, OP!NothingInvented, Parts

LEMMA MessagesDiffer ==
  \A r, p :
    /\ ConfirmReservation(r) # OrderCancelled(p)
    /\ ConfirmReservation(r) = ConfirmReservation(p) => r = p
    /\ OrderCancelled(r) = OrderCancelled(p) => r = p
BY DEF ConfirmReservation, OrderCancelled

-----------------------------------------------------------------------------
(* What the use cases do to the slots of the items, reference by reference.*)
SlotsKept(r) == \A s \in SKU : stock'[s].resv[r] = stock[s].resv[r]

LEMMA ReserveSlots ==
  ASSUME Parts, NEW r \in Ref, NEW exp, I!Reserve(r, exp), I!Holders(r) = {}
  PROVE  /\ \A u \in Ref \ {r} : SlotsKept(u)
         /\ \A s \in I!Lines(r) : /\ stock'[s].resv[r].qty = Order[r][s]
                                  /\ stock'[s].resv[r].status = "pending"
         /\ \A s \in SKU \ I!Lines(r) : stock'[s].resv[r] = stock[s].resv[r]
<1>1. ASSUME NEW s \in I!Lines(r)
      PROVE  /\ \A u \in Ref \ {r} : stock'[s].resv[u] = stock[s].resv[u]
             /\ stock'[s].resv[r].qty = Order[r][s]
             /\ stock'[s].resv[r].status = "pending"
  <2>1. s \in SKU /\ ~ I!HasReservation(stock[s], r)
    BY DEF I!Lines, I!Holders
  <2>2. /\ stock'[s].resv = [stock[s].resv EXCEPT ![r] =
             [status |-> "pending", qty |-> Order[r][s],
              expiresAt |-> exp[s]]]
        /\ stock[s].resv \in [Ref -> I!Reservation]
    BY <2>1 DEF I!Reserve, I!ReserveItem, Parts, I!Item
  <2>3. stock'[s].resv[r] = [status |-> "pending", qty |-> Order[r][s],
                             expiresAt |-> exp[s]]
    BY <2>2
  <2> QED
    BY <2>2, <2>3
<1>2. \A s \in SKU \ I!Lines(r) : stock'[s] = stock[s]
  BY DEF I!Reserve
<1> QED
  BY <1>1, <1>2 DEF SlotsKept

LEMMA ConfirmSlots ==
  ASSUME Parts, NEW r \in Ref, I!Confirm(r)
  PROVE  /\ \A u \in Ref \ {r} : SlotsKept(u)
         /\ \A s \in SKU :
              /\ stock'[s].resv[r].qty = stock[s].resv[r].qty
              /\ stock'[s].resv[r].status =
                   IF stock[s].resv[r].status = "none" THEN "none"
                                                       ELSE "confirmed"
<1>1. ASSUME NEW s \in SKU
      PROVE  /\ \A u \in Ref \ {r} : stock'[s].resv[u] = stock[s].resv[u]
             /\ stock'[s].resv[r].qty = stock[s].resv[r].qty
             /\ stock'[s].resv[r].status =
                  IF stock[s].resv[r].status = "none" THEN "none"
                                                      ELSE "confirmed"
  <2>1. stock[s] \in I!Item
    BY DEF Parts
  <2>2. stock[s].resv[r].status \in {"none", "pending", "confirmed"}
    BY <2>1 DEF I!Item, I!Reservation
  <2>3. stock'[s] = IF stock[s].resv[r].status = "pending"
                    THEN I!ConfirmItem(stock[s], r) ELSE stock[s]
    BY DEF I!Confirm, I!Holders, I!HasReservation, I!ConfirmItem
  <2>4. CASE stock[s].resv[r].status = "pending"
    BY <2>1, <2>3, <2>4 DEF I!ConfirmItem, I!Item, I!Reservation
  <2>5. CASE stock[s].resv[r].status # "pending"
    BY <2>2, <2>3, <2>5
  <2> QED
    BY <2>4, <2>5
<1> QED
  BY <1>1 DEF SlotsKept

LEMMA ReleaseSlots ==
  ASSUME Parts, NEW r \in Ref, I!Release(r)
  PROVE  /\ \A u \in Ref \ {r} : SlotsKept(u)
         /\ \A s \in SKU : stock'[s].resv[r].status = "none"
<1>1. ASSUME NEW s \in SKU
      PROVE  /\ \A u \in Ref \ {r} : stock'[s].resv[u] = stock[s].resv[u]
             /\ stock'[s].resv[r].status = "none"
  <2>1. stock[s].resv \in [Ref -> I!Reservation]
    BY DEF Parts, I!Item
  <2> QED
    BY <2>1 DEF I!Release, I!ReleaseItem, I!NoReservation, I!Holders,
                I!HasReservation
<1> QED
  BY <1>1 DEF SlotsKept

LEMMA SweepSlots ==
  ASSUME Parts, NEW t, NEW S \in SUBSET SKU, Sweep(t, S),
         NEW r \in Ref, NEW s \in SKU
  PROVE  \/ stock'[s].resv[r] = stock[s].resv[r]
         \/ r \in reaped' /\ stock'[s].resv[r].status = "none"
<1>1. stock'[s] = IF s \in S THEN I!ReapItem(stock[s], t) ELSE stock[s]
  BY DEF Sweep, I!Sweep
<1>2. CASE s \in S /\ r \in I!Reapable(stock[s], t)
  <2>1. r \in reaped'
    BY <1>2 DEF Sweep
  <2> QED
    BY <1>1, <1>2, <2>1 DEF I!ReapItem, I!NoReservation
<1> QED
  BY <1>1, <1>2 DEF I!ReapItem

-----------------------------------------------------------------------------
(* The invariant, reference by reference.                                  *)
RefInv(r) ==
  /\ ConfirmReservation(r) \in log <=> order[r] # "none"
  /\ OrderCancelled(r) \in log <=> order[r] = "cancelled"
  /\ place[r] \in {"idle", "reserving", "abandoned", "reserved", "storing"}
       => order[r] = "none"
  /\ place[r] \in {"idle", "reserving", "abandoned"} => I!Holders(r) = {}
  /\ Counting(r) => Holding(r)
  /\ \A s \in SKU : stock[s].resv[r].status = "confirmed" => order[r] # "none"
  /\ OrderCancelled(r) \in got => I!Holders(r) = {}
  /\ ConfirmReservation(r) \in got
       => \A s \in SKU : stock[s].resv[r].status # "pending"

ByRef == SeamTypeOK /\ \A r \in Ref : RefInv(r)

LEMMA InvByRef == Inv <=> ByRef
BY DEF ByRef, Inv, OrdersSent, NotYetHeld, KeptFromReservation, OnlyStoredConfirmed,
       CancelledFree, ConfirmedForGood, RefInv

(* A step that is none of a reference's business keeps its part.           *)
Spared(r) ==
  /\ place'[r] = place[r] /\ order'[r] = order[r]
  /\ (r \in reaped)' <=> r \in reaped
  /\ \A m \in {ConfirmReservation(r), OrderCancelled(r)} :
       /\ m \in log' <=> m \in log
       /\ m \in got' <=> m \in got
  /\ SlotsKept(r)

LEMMA SparedKeeps ==
  ASSUME NEW r \in Ref, RefInv(r), Spared(r)
  PROVE  RefInv(r)'
<1>1. /\ ConfirmReservation(r) \in log' <=> ConfirmReservation(r) \in log
      /\ ConfirmReservation(r) \in got' <=> ConfirmReservation(r) \in got
      /\ OrderCancelled(r) \in log' <=> OrderCancelled(r) \in log
      /\ OrderCancelled(r) \in got' <=> OrderCancelled(r) \in got
  BY DEF Spared
<1>2. /\ \A s \in SKU : stock'[s].resv[r] = stock[s].resv[r]
      /\ place'[r] = place[r] /\ order'[r] = order[r]
      /\ r \in reaped' <=> r \in reaped
  BY DEF Spared, SlotsKept
<1>3. I!Holders(r)' = I!Holders(r)
  BY <1>2 DEF I!Holders, I!HasReservation
<1>4. Holding(r)' <=> Holding(r)
  BY <1>1, <1>2 DEF Holding, I!Lines
<1>5. Counting(r)' <=> Counting(r)
  BY <1>2 DEF Counting
<1> QED
  BY <1>1, <1>2, <1>3, <1>4, <1>5 DEF RefInv

LEMMA InitInv == Init => Inv
<1> SUFFICES ASSUME Init PROVE Inv
  OBVIOUS
<1>1. SeamTypeOK
  BY DEF Init, SeamTypeOK
<1>2. ASSUME NEW r \in Ref PROVE RefInv(r)
  <2>1. /\ order[r] = "none" /\ place[r] = "idle"
        /\ log = {} /\ got = {}
    BY <1>2 DEF Init, O!Init
  <2>2. \A s \in SKU : stock[s].resv[r].status = "none"
    BY <1>2 DEF Init, I!Init, I!ReplenishItem, I!NewStockItem, I!NoReservation
  <2>3. I!Holders(r) = {}
    BY <2>2 DEF I!Holders, I!HasReservation
  <2> QED
    BY <2>1, <2>2, <2>3 DEF RefInv, Counting
<1> QED
  BY <1>1, <1>2, InvByRef DEF ByRef

-----------------------------------------------------------------------------
(* Every step keeps the invariant, first the types.                        *)
LEMMA NextType ==
  ASSUME SeamTypeOK, [Next]_vars
  PROVE  SeamTypeOK'
<1> USE DEF SeamTypeOK
<1>1. ASSUME NEW r \in Ref, Placing(r)
      PROVE  SeamTypeOK'
  <2>1. ASSUME NEW exp \in [I!Lines(r) -> I!Expiries], Reserve(r, exp)
        PROVE  SeamTypeOK'
    BY <2>1 DEF Reserve, Move
  <2>2. CASE Begin(r) \/ Refuse(r) \/ Abandon(r)
    BY <2>2 DEF Begin, Refuse, Abandon, Move
  <2>3. CASE Build(r) \/ Store(r) \/ StoreFails(r)
    BY <2>3 DEF Build, Store, StoreFails, Move
  <2>4. CASE Compensate(r) \/ Drop(r)
    BY <2>4 DEF Compensate, Drop, Move
  <2> QED
    BY <1>1, <2>1, <2>2, <2>3, <2>4 DEF Placing
<1>2. ASSUME NEW r \in Ref, BeginCancel(r) \/ FinishCancel(r)
      PROVE  SeamTypeOK'
  BY <1>2 DEF BeginCancel, FinishCancel, orderVars
<1>3. ASSUME NEW m \in Message, ArriveLate(m)
      PROVE  SeamTypeOK'
  BY <1>3 DEF ArriveLate, orderVars
<1>4. ASSUME NEW k \in Relay, Relaying(k)
      PROVE  SeamTypeOK'
  BY <1>4 DEF Relaying, List, Stop, Publish, Fail, Mark, orderVars
<1>5. ASSUME NEW t \in 0 .. now, NEW S \in SUBSET SKU, Sweep(t, S)
      PROVE  SeamTypeOK'
  <2>1. \A s \in S : I!Reapable(stock[s], t) \subseteq Ref
    BY DEF I!Reapable
  <2> QED
    BY <1>5, <2>1 DEF Sweep
<1>6. CASE Tick
  BY <1>6 DEF Tick, orderVars
<1>7. CASE UNCHANGED vars
  BY <1>7 DEF vars, orderVars
<1> QED
  BY <1>1, <1>2, <1>3, <1>4, <1>5, <1>6, <1>7 DEF Next

(* Steps that only move a request on.                                      *)
LEMMA MovesKeep ==
  ASSUME Inv, NEW p \in Ref,
         \/ Begin(p) \/ Refuse(p) \/ Abandon(p) \/ StoreFails(p) \/ Drop(p)
         \/ Build(p)
  PROVE  \A r \in Ref : RefInv(r)'
<1>1. SeamTypeOK /\ \A r \in Ref : RefInv(r)
  BY InvByRef DEF ByRef
<1>2. UNCHANGED <<stock, log, got, order, reaped>>
  BY DEF Begin, Refuse, Abandon, StoreFails, Drop, Build, O!Create,
         stockVars, outboxVars
<1>3. \E from, to :
        /\ place[p] = from /\ place' = [place EXCEPT ![p] = to]
        /\ \/ from = "idle" /\ to = "reserving"
           \/ from = "reserving" /\ to = "abandoned"
           \/ from = "reserved" /\ to = "storing"
           \/ to \in {"failed", "releasing"}
  BY DEF Begin, Refuse, Abandon, StoreFails, Drop, Build, Move
<1>4. place \in [Ref -> {"idle", "reserving", "reserved", "abandoned",
                         "storing", "releasing", "placed", "failed"}]
  BY <1>1 DEF SeamTypeOK
<1>5. ASSUME NEW r \in Ref \ {p}
      PROVE  RefInv(r)'
  <2>1. Spared(r)
    BY <1>2, <1>3, <1>4 DEF Spared, SlotsKept
  <2> QED
    BY <1>1, <2>1, SparedKeeps
<1>6. RefInv(p)'
  <2>1. /\ I!Holders(p)' = I!Holders(p)
        /\ Holding(p)' <=> Holding(p)
    BY <1>2 DEF I!Holders, I!HasReservation, Holding, I!Lines
  <2>2. PICK from, to :
          /\ place[p] = from /\ place'[p] = to
          /\ \/ from = "idle" /\ to = "reserving"
             \/ from = "reserving" /\ to = "abandoned"
             \/ from = "reserved" /\ to = "storing"
             \/ to \in {"failed", "releasing"}
    BY <1>3, <1>4
  <2>3. RefInv(p)
    BY <1>1
  <2>4. Counting(p)' => Counting(p)
    BY <1>2, <2>2 DEF Counting
  <2> QED
    BY <1>2, <2>1, <2>2, <2>3, <2>4 DEF RefInv
<1> QED
  BY <1>5, <1>6

(* The reservation, in time or late, finds none and makes all of its own.  *)
LEMMA ReserveKeeps ==
  ASSUME Parts, Inv, NEW p \in Ref, NEW exp, Reserve(p, exp)
  PROVE  \A r \in Ref : RefInv(r)'
<1>1. SeamTypeOK /\ \A r \in Ref : RefInv(r)
  BY InvByRef DEF ByRef
<1>2. I!Reserve(p, exp) /\ UNCHANGED <<log, got, order, reaped>>
  BY DEF Reserve, outboxVars
<1>3. /\ place[p] \in {"reserving", "abandoned"}
      /\ place'[p] \in {"reserved", "failed"}
      /\ \A r \in Ref \ {p} : place'[r] = place[r]
  BY <1>1 DEF Reserve, Move, SeamTypeOK
<1>4. order[p] = "none" /\ I!Holders(p) = {}
  BY <1>1, <1>3 DEF RefInv
<1>5. /\ \A u \in Ref \ {p} : SlotsKept(u)
      /\ \A s \in I!Lines(p) : /\ stock'[s].resv[p].qty = Order[p][s]
                               /\ stock'[s].resv[p].status = "pending"
      /\ \A s \in SKU \ I!Lines(p) : stock'[s].resv[p] = stock[s].resv[p]
  BY <1>2, <1>4, ReserveSlots
<1>6. ASSUME NEW r \in Ref \ {p}
      PROVE  RefInv(r)'
  <2>1. Spared(r)
    BY <1>2, <1>3, <1>5 DEF Spared
  <2> QED
    BY <1>1, <2>1, SparedKeeps
<1>7. RefInv(p)'
  <2>1. /\ ConfirmReservation(p) \notin log /\ OrderCancelled(p) \notin log
        /\ ConfirmReservation(p) \notin got /\ OrderCancelled(p) \notin got
    BY <1>1, <1>4 DEF RefInv, Parts
  <2>2. Holding(p)'
    BY <1>2, <1>5, <2>1 DEF Holding, I!Lines
  <2>3. \A s \in SKU : stock'[s].resv[p].status # "confirmed"
    <3>1. \A s \in SKU : stock[s].resv[p].status # "confirmed"
      BY <1>1, <1>4 DEF RefInv
    <3> QED
      BY <1>5, <3>1
  <2> QED
    BY <1>2, <1>3, <1>4, <2>1, <2>2, <2>3 DEF RefInv
<1> QED
  BY <1>6, <1>7

(* The transaction that stores the order commits its confirmation request. *)
LEMMA StoreKeeps ==
  ASSUME Parts, Inv, NEW p \in Ref, Store(p)
  PROVE  \A r \in Ref : RefInv(r)'
<1>1. SeamTypeOK /\ \A r \in Ref : RefInv(r)
  BY InvByRef DEF ByRef
<1>2. /\ log' = log \cup {ConfirmReservation(p)}
      /\ UNCHANGED <<stock, got, reaped>>
  BY DEF Store, O!Commit, stockVars
<1>3. /\ place[p] = "storing" /\ place'[p] \in {"placed", "releasing"}
      /\ order'[p] = "confirmed"
      /\ \A r \in Ref \ {p} : place'[r] = place[r] /\ order'[r] = order[r]
  BY <1>1 DEF Store, Move, SeamTypeOK
<1>4. ASSUME NEW r \in Ref \ {p}
      PROVE  RefInv(r)'
  <2>1. Spared(r)
    BY <1>2, <1>3, MessagesDiffer DEF Spared, SlotsKept
  <2> QED
    BY <1>1, <2>1, SparedKeeps
<1>5. RefInv(p)'
  <2>1. /\ I!Holders(p)' = I!Holders(p)
        /\ Holding(p)' <=> Holding(p)
    BY <1>2 DEF I!Holders, I!HasReservation, Holding, I!Lines
  <2>2. RefInv(p)
    BY <1>1
  <2>3. Counting(p)' => Counting(p)
    BY <1>2, <1>3 DEF Counting
  <2>4. OrderCancelled(p) \notin log' /\ OrderCancelled(p) \notin got'
    BY <1>2, <1>3, <2>2, MessagesDiffer DEF RefInv, Parts
  <2>5. Counting(p)' => Holding(p)'
    BY <2>1, <2>2, <2>3 DEF RefInv
  <2>6. ConfirmReservation(p) \notin got'
    BY <1>2, <1>3, <2>2 DEF RefInv, Parts
  <2> QED
    BY <1>2, <1>3, <2>2, <2>4, <2>5, <2>6 DEF RefInv
<1> QED
  BY <1>4, <1>5

(* A compensation releases what nobody counts on.                          *)
LEMMA CompensateKeeps ==
  ASSUME Parts, Inv, NEW p \in Ref, Compensate(p)
  PROVE  \A r \in Ref : RefInv(r)'
<1>1. SeamTypeOK /\ \A r \in Ref : RefInv(r)
  BY InvByRef DEF ByRef
<1>2. I!Release(p) /\ UNCHANGED <<log, got, order, reaped>>
  BY DEF Compensate, outboxVars
<1>3. /\ place'[p] = "failed"
      /\ \A r \in Ref \ {p} : place'[r] = place[r]
  BY <1>1 DEF Compensate, Move, SeamTypeOK
<1>4. /\ \A u \in Ref \ {p} : SlotsKept(u)
      /\ \A s \in SKU : stock'[s].resv[p].status = "none"
  BY <1>2, ReleaseSlots
<1>5. ASSUME NEW r \in Ref \ {p}
      PROVE  RefInv(r)'
  <2>1. Spared(r)
    BY <1>2, <1>3, <1>4 DEF Spared
  <2> QED
    BY <1>1, <2>1, SparedKeeps
<1>6. RefInv(p)'
  <2>1. I!Holders(p)' = {}
    BY <1>4 DEF I!Holders, I!HasReservation
  <2>2. RefInv(p) /\ ~ Counting(p)'
    BY <1>1, <1>3 DEF Counting
  <2> QED
    BY <1>2, <1>3, <1>4, <2>1, <2>2 DEF RefInv
<1> QED
  BY <1>5, <1>6

(* A cancellation is committed with the change of its order.               *)
LEMMA CancelKeeps ==
  ASSUME Parts, Inv, NEW p \in Ref, FinishCancel(p)
  PROVE  \A r \in Ref : RefInv(r)'
<1>1. SeamTypeOK /\ \A r \in Ref : RefInv(r)
  BY InvByRef DEF ByRef
<1>2. /\ log' = log \cup {OrderCancelled(p)} /\ OrderCancelled(p) \notin log
      /\ UNCHANGED <<stock, got, place, reaped>>
  BY DEF FinishCancel, O!Commit, stockVars
<1>3. /\ order[p] = "confirmed" /\ order'[p] = "cancelled"
      /\ \A r \in Ref \ {p} : order'[r] = order[r]
  BY <1>1 DEF FinishCancel, SeamTypeOK
<1>4. ASSUME NEW r \in Ref \ {p}
      PROVE  RefInv(r)'
  <2>1. Spared(r)
    BY <1>2, <1>3, MessagesDiffer DEF Spared, SlotsKept
  <2> QED
    BY <1>1, <2>1, SparedKeeps
<1>5. RefInv(p)'
  <2>1. RefInv(p) /\ ConfirmReservation(p) \in log
    BY <1>1, <1>3 DEF RefInv
  <2>2. place[p] \notin {"idle", "reserving", "abandoned", "reserved", "storing"}
    BY <1>3, <2>1 DEF RefInv
  <2>3. ~ Counting(p)'
    BY <1>2, <1>3, <2>2 DEF Counting
  <2>4. OrderCancelled(p) \notin got'
    BY <1>2 DEF Parts
  <2> QED
    BY <1>2, <1>3, <2>1, <2>2, <2>3, <2>4 DEF RefInv
<1> QED
  BY <1>4, <1>5

(* A message that is delivered was committed: what it does is of no        *)
(* concern to the other references, a confirmation confirms what its own   *)
(* one holds, and a cancellation finds a cancelled order.                  *)
LEMMA DeliverKeeps ==
  ASSUME Parts, Inv, NEW m \in Message, m \in log, Deliver(m),
         got' = got \cup {m}, log' = log, UNCHANGED orderVars
  PROVE  \A r \in Ref : RefInv(r)'
<1>1. SeamTypeOK /\ \A r \in Ref : RefInv(r)
  BY InvByRef DEF ByRef
<1>2. UNCHANGED <<order, place, reaped>>
  BY DEF orderVars
<1>3. ASSUME NEW p \in Ref, m \in {ConfirmReservation(p), OrderCancelled(p)},
             \A u \in Ref \ {p} : SlotsKept(u), NEW r \in Ref \ {p}
      PROVE  RefInv(r)'
  <2>1. m \notin {ConfirmReservation(r), OrderCancelled(r)}
    BY <1>3, MessagesDiffer
  <2>2. Spared(r)
    BY <1>2, <1>3, <2>1 DEF Spared
  <2> QED
    BY <1>1, <2>2, SparedKeeps
<1>4. ASSUME NEW p \in Ref, m = ConfirmReservation(p), OnConfirmReservation(p)
      PROVE  \A r \in Ref : RefInv(r)'
  <2>1. RefInv(p) /\ order[p] # "none"
    BY <1>1, <1>4 DEF RefInv
  <2>2. /\ \A u \in Ref \ {p} : SlotsKept(u)
        /\ \A s \in SKU :
             /\ stock'[s].resv[p].qty = stock[s].resv[p].qty
             /\ stock'[s].resv[p].status =
                  IF stock[s].resv[p].status = "none" THEN "none"
                                                      ELSE "confirmed"
    <3>1. CASE I!Confirm(p)
      BY <3>1, ConfirmSlots
    <3>2. CASE I!Holders(p) = {} /\ UNCHANGED stockVars
      <4>1. stock' = stock /\ \A s \in SKU : stock[s].resv[p].status = "none"
        BY <3>2 DEF stockVars, I!Holders, I!HasReservation
      <4> QED
        BY <4>1 DEF SlotsKept
    <3> QED
      BY <1>4, <3>1, <3>2 DEF OnConfirmReservation
  <2>3. I!Holders(p)' = I!Holders(p)
    BY <2>2 DEF I!Holders, I!HasReservation
  <2>4. Counting(p)' <=> Counting(p)
    BY <1>2 DEF Counting
  <2>5. ConfirmReservation(p) \in got'
    BY <1>4
  <2>6. Holding(p) => Holding(p)'
    <3>1. ASSUME Holding(p), NEW s \in I!Lines(p)
          PROVE  /\ stock'[s].resv[p].qty = Order[p][s]
                 /\ stock'[s].resv[p].status = "confirmed"
      <4>1. s \in SKU /\ stock[s].resv[p].qty = Order[p][s]
            /\ stock[s].resv[p].status # "none"
        BY <3>1 DEF Holding, I!Lines
      <4> QED
        BY <2>2, <4>1
    <3> QED
      BY <2>5, <3>1 DEF Holding, I!Lines
  <2>7. OrderCancelled(p) \in got' <=> OrderCancelled(p) \in got
    BY <1>4, MessagesDiffer
  <2>8. \A s \in SKU : stock'[s].resv[p].status # "pending"
    BY <2>2
  <2>9. \A s \in SKU : stock'[s].resv[p].status = "confirmed" => order[p] # "none"
    BY <2>1
  <2>10. RefInv(p)'
    BY <1>2, <2>1, <2>3, <2>4, <2>6, <2>7, <2>8, <2>9 DEF RefInv
  <2> QED
    BY <1>3, <1>4, <2>2, <2>10
<1>5. ASSUME NEW p \in Ref, m = OrderCancelled(p), OnOrderCancelled(p)
      PROVE  \A r \in Ref : RefInv(r)'
  <2>1. RefInv(p) /\ order[p] = "cancelled"
    BY <1>1, <1>5 DEF RefInv
  <2>2. /\ \A u \in Ref \ {p} : SlotsKept(u)
        /\ \A s \in SKU : stock'[s].resv[p].status = "none"
    BY <1>5, ReleaseSlots DEF OnOrderCancelled
  <2>3. I!Holders(p)' = {}
    BY <2>2 DEF I!Holders, I!HasReservation
  <2>4. ~ Counting(p)'
    BY <1>2, <2>1 DEF RefInv, Counting
  <2>5. RefInv(p)'
    BY <1>2, <2>1, <2>2, <2>3, <2>4 DEF RefInv
  <2> QED
    BY <1>3, <1>5, <2>2, <2>5
<1>6. /\ m.ref \in Ref
      /\ m.kind = "confirm" => m = ConfirmReservation(m.ref)
      /\ m.kind = "cancel" => m = OrderCancelled(m.ref)
  BY DEF Message, ConfirmReservation, OrderCancelled
<1> QED
  BY <1>4, <1>5, <1>6 DEF Deliver

(* What a sweep takes from a reference is remembered in reaped.            *)
LEMMA SweepKeeps ==
  ASSUME Parts, Inv, NEW t, NEW S \in SUBSET SKU, Sweep(t, S)
  PROVE  \A r \in Ref : RefInv(r)'
<1>1. SeamTypeOK /\ \A r \in Ref : RefInv(r)
  BY InvByRef DEF ByRef
<1>2. UNCHANGED <<log, got, order, place>> /\ reaped \subseteq reaped'
  BY DEF Sweep, outboxVars
<1> SUFFICES ASSUME NEW r \in Ref
             PROVE  RefInv(r)'
  OBVIOUS
<1>3. \A s \in SKU : \/ stock'[s].resv[r] = stock[s].resv[r]
                     \/ r \in reaped' /\ stock'[s].resv[r].status = "none"
  BY SweepSlots
<1>4. RefInv(r)
  BY <1>1
<1>5. I!Holders(r)' \subseteq I!Holders(r)
  BY <1>3 DEF I!Holders, I!HasReservation
<1>6. Counting(r)' => Holding(r)'
  <2>1. ASSUME Counting(r)'
        PROVE  Holding(r)'
    <3>1. r \notin reaped' /\ Counting(r)
      BY <1>2, <2>1 DEF Counting
    <3>2. \A s \in SKU : stock'[s].resv[r] = stock[s].resv[r]
      BY <1>3, <3>1
    <3> QED
      BY <1>2, <1>4, <3>1, <3>2 DEF RefInv, Holding, I!Lines
  <2> QED
    BY <2>1
<1>7. \A s \in SKU : stock'[s].resv[r].status = "confirmed"
                       => stock[s].resv[r].status = "confirmed"
  BY <1>3
<1>8. \A s \in SKU : stock'[s].resv[r].status = "pending"
                       => stock[s].resv[r].status = "pending"
  BY <1>3
<1> QED
  BY <1>2, <1>4, <1>5, <1>6, <1>7, <1>8 DEF RefInv

(* The rest is nobody's business.                                          *)
LEMMA RestKeeps ==
  ASSUME Inv, UNCHANGED <<stock, log, got, order, place, reaped>>
  PROVE  \A r \in Ref : RefInv(r)'
<1>1. \A r \in Ref : Spared(r)
  BY DEF Spared, SlotsKept
<1> QED
  BY <1>1, InvByRef, SparedKeeps DEF ByRef

LEMMA NextInv ==
  Parts /\ Inv /\ [Next]_vars => Inv'
<1>0. Inv' <=> ByRef'
  BY InvByRef, PTL
<1> SUFFICES ASSUME Parts, Inv, [Next]_vars
             PROVE  \A r \in Ref : RefInv(r)'
  BY <1>0, NextType, InvByRef DEF ByRef
<1> DEFINE Goal == \A r \in Ref : RefInv(r)'
<1>1. ASSUME NEW r \in Ref, Placing(r)
      PROVE  Goal
  BY <1>1, MovesKeep, ReserveKeeps, StoreKeeps, CompensateKeeps DEF Placing
<1>2. ASSUME NEW r \in Ref, BeginCancel(r) \/ FinishCancel(r)
      PROVE  Goal
  <2>1. CASE BeginCancel(r)
    BY <2>1, RestKeeps DEF BeginCancel, O!Create, stockVars, orderVars
  <2>2. CASE FinishCancel(r)
    BY <2>2, CancelKeeps
  <2> QED
    BY <1>2, <2>1, <2>2
<1>3. ASSUME NEW m \in Message, ArriveLate(m)
      PROVE  Goal
  <2>1. m \in log /\ got' = got \cup {m} /\ log' = log
    BY <1>3 DEF ArriveLate, O!ArriveLate, Parts
  <2> QED
    BY <1>3, <2>1, DeliverKeeps DEF ArriveLate
<1>4. ASSUME NEW k \in Relay, Relaying(k)
      PROVE  Goal
  <2>1. ASSUME NEW m \in Message, Publish(k, m)
        PROVE  Goal
    <3>1. m \in log /\ got' = got \cup {m} /\ log' = log
      BY <2>1 DEF Publish, O!Publish, O!IsHead, Parts
    <3> QED
      BY <2>1, <3>1, DeliverKeeps DEF Publish
  <2>2. ASSUME NEW m \in Message, Fail(k, m) \/ Mark(k, m)
        PROVE  Goal
    BY <2>2, RestKeeps DEF Fail, Mark, O!Fail, O!Mark, stockVars, orderVars
  <2>3. CASE List(k) \/ Stop(k)
    BY <2>3, RestKeeps DEF List, Stop, O!List, O!Stop, stockVars, orderVars
  <2> QED
    BY <1>4, <2>1, <2>2, <2>3 DEF Relaying
<1>5. ASSUME NEW t \in 0 .. now, NEW S \in SUBSET SKU, Sweep(t, S)
      PROVE  Goal
  BY <1>5, SweepKeeps
<1>6. ASSUME Tick \/ UNCHANGED vars
      PROVE  Goal
  BY <1>6, RestKeeps
     DEF Tick, I!Tick, vars, stockVars, outboxVars, orderVars
<1>7. Goal
  BY <1>1, <1>2, <1>3, <1>4, <1>5, <1>6 DEF Next
<1> QED
  BY <1>7

(* The invariant holds in every reachable state.                           *)
THEOREM InvHolds == Spec => []Inv
<1>1. Spec => []Parts
  BY ComponentInvariants, PartsHold, PTL
<1> QED
  BY <1>1, InitInv, NextInv, PTL DEF Spec

(* The orders, the messages and the stock stay what they are.              *)
THEOREM TypeCorrect == Spec => []TypeOK
<1>1. OP!TypeOK => O!TypeOK
  BY DEF OP!TypeOK, O!TypeOK
<1>2. IP!TypeOK => I!TypeOK
  BY SameItems DEF IP!TypeOK, I!TypeOK
<1>3. Inv /\ IP!Inv /\ OP!Inv => TypeOK
  BY <1>1, <1>2 DEF Inv, SeamTypeOK, IP!Inv, OP!Inv, TypeOK
<1> QED
  BY <1>3, InvHolds, ComponentInvariants, PTL

(* An order its client was told of keeps its stock until it is cancelled,  *)
(* unless the reaper came first: whatever other orders, repeated or late   *)
(* messages and compensations do (place_order.go, subscriber.go).          *)
THEOREM StockIsKept == Spec => []StockKept
<1>1. Inv => StockKept
  BY DEF Inv, KeptFromReservation, Counting, StockKept
<1> QED
  BY <1>1, InvHolds, PTL

(* Nothing is confirmed but for an order that was stored.                  *)
THEOREM ConfirmedIsStored == Spec => []OnlyStoredConfirmed
<1>1. Inv => OnlyStoredConfirmed
  BY DEF Inv
<1> QED
  BY <1>1, InvHolds, PTL

(* Once its cancellation arrived an order holds nothing, for good.         *)
THEOREM CancelledStaysFree == Spec => []CancelledFree
<1>1. Inv => CancelledFree
  BY DEF Inv
<1> QED
  BY <1>1, InvHolds, PTL

(* A cancellation is built by a request that read the confirmed order, so  *)
(* the confirmation request was committed by then.                         *)
KnowsConfirmation ==
  \A r \in Ref :
    stamp[OrderCancelled(r)] > 0
      => ConfirmReservation(r) \in known[OrderCancelled(r)]

LEMMA NextKnows ==
  ASSUME OP!Inv, Inv, KnowsConfirmation, [Next]_vars
  PROVE  KnowsConfirmation'
<1>1. ASSUME NEW r \in Ref
      PROVE  OrderCancelled(r) \in Message /\ ConfirmReservation(r) \in Message
  BY Messages
<1>2. /\ stamp = [m \in Message |-> stamp[m]] /\ known = [m \in Message |-> known[m]]
  BY DEF OP!Inv, OP!TypeOK
<1>3. CASE UNCHANGED <<stamp, known>>
  BY <1>3 DEF KnowsConfirmation
<1>4. ASSUME NEW p \in Ref, BeginCancel(p)
      PROVE  KnowsConfirmation'
  <2>1. ConfirmReservation(p) \in log
    BY <1>4 DEF BeginCancel, Inv, OrdersSent
  <2>2. /\ known' = [known EXCEPT ![OrderCancelled(p)] = log]
        /\ \A r \in Ref : r # p =>
             stamp'[OrderCancelled(r)] = stamp[OrderCancelled(r)]
    BY <1>1, <1>2, <1>4, MessagesDiffer DEF BeginCancel, O!Create
  <2> QED
    BY <1>1, <1>2, <2>1, <2>2, MessagesDiffer DEF KnowsConfirmation
<1>5. ASSUME NEW p \in Ref, Build(p)
      PROVE  KnowsConfirmation'
  <2>1. \A r \in Ref : /\ stamp'[OrderCancelled(r)] = stamp[OrderCancelled(r)]
                       /\ known'[OrderCancelled(r)] = known[OrderCancelled(r)]
    BY <1>1, <1>2, <1>5, MessagesDiffer DEF Build, O!Create
  <2> QED
    BY <2>1 DEF KnowsConfirmation
<1>6. ASSUME NEW r \in Ref, Placing(r), ~ Build(r)
      PROVE  UNCHANGED <<stamp, known>>
  BY <1>6 DEF Placing, Begin, Reserve, Refuse, Abandon, Store, O!Commit,
              StoreFails, Compensate, Drop, outboxVars
<1>7. ASSUME NEW r \in Ref, FinishCancel(r)
      PROVE  UNCHANGED <<stamp, known>>
  BY <1>7 DEF FinishCancel, O!Commit
<1>8. ASSUME NEW m \in Message, ArriveLate(m)
      PROVE  UNCHANGED <<stamp, known>>
  BY <1>8 DEF ArriveLate, O!ArriveLate
<1>9. ASSUME NEW k \in Relay, Relaying(k)
      PROVE  UNCHANGED <<stamp, known>>
  BY <1>9 DEF Relaying, List, O!List, Stop, O!Stop, Publish, O!Publish,
              Fail, O!Fail, Mark, O!Mark
<1>10. ASSUME (\E t \in 0 .. now, S \in SUBSET SKU : Sweep(t, S)) \/ Tick
              \/ UNCHANGED vars
       PROVE  UNCHANGED <<stamp, known>>
  BY <1>10 DEF Sweep, Tick, vars, outboxVars
<1> QED
  BY <1>3, <1>4, <1>5, <1>6, <1>7, <1>8, <1>9, <1>10 DEF Next

(* Whatever is relayed twice or late and by whom, the inventory learns of  *)
(* an order's cancellation after its confirmation request (messages.go,    *)
(* outbox.go: RunOnce): what the outbox promises of causes, and what a     *)
(* cancellation knows.                                                     *)
THEOREM ConfirmationFirst == Spec => []ConfirmedFirst
<1>1. Init => KnowsConfirmation
  BY Messages DEF Init, O!Init, KnowsConfirmation
<1>2. OP!Inv /\ Inv /\ KnowsConfirmation /\ [Next]_vars => KnowsConfirmation'
  BY NextKnows
<1>3. OP!Inv /\ KnowsConfirmation => ConfirmedFirst
  <2> SUFFICES ASSUME OP!Inv, KnowsConfirmation, NEW r \in Ref,
                      OrderCancelled(r) \in got
               PROVE  ConfirmReservation(r) \in got
    BY DEF ConfirmedFirst
  <2>1. OrderCancelled(r) \in log
    BY DEF OP!Inv, OP!NothingInvented
  <2>2. stamp[OrderCancelled(r)] > 0
    BY <2>1 DEF OP!Inv, OP!Stamps
  <2>3. known[OrderCancelled(r)] \subseteq got
    BY DEF OP!Inv, OP!CausalOrder
  <2> QED
    BY <2>2, <2>3 DEF KnowsConfirmation
<1> QED
  BY <1>1, <1>2, <1>3, InvHolds, ComponentInvariants, PTL DEF Spec

(* Once its confirmation arrived the reaper takes nothing of an order.     *)
THEOREM ConfirmationsFinal == Spec => []ConfirmedForGood
<1>1. Inv => ConfirmedForGood
  BY DEF Inv
<1> QED
  BY <1>1, InvHolds, PTL

-----------------------------------------------------------------------------
(* What arrived before finds nothing to do: a confirmation nothing that is *)
(* pending, a cancellation nothing at all.                                 *)
LEMMA NothingToDo ==
  ASSUME Parts, Inv, NEW m \in Message, m \in got, Deliver(m)
  PROVE  UNCHANGED stockVars
<1>1. /\ m.ref \in Ref
      /\ m.kind = "confirm" => m = ConfirmReservation(m.ref)
      /\ m.kind = "cancel" => m = OrderCancelled(m.ref)
  BY DEF Message, ConfirmReservation, OrderCancelled
<1>2. /\ stock = [s \in SKU |-> stock[s]]
      /\ \A s \in SKU : stock[s] \in I!Item
  BY DEF Parts
<1>3. CASE m.kind = "confirm" /\ I!Confirm(m.ref)
  <2>1. \A s \in SKU : stock[s].resv[m.ref].status # "pending"
    BY <1>1, <1>3 DEF Inv, ConfirmedForGood
  <2>2. /\ stock' = [s \in SKU |-> IF s \in I!Holders(m.ref)
                                   THEN I!ConfirmItem(stock[s], m.ref)
                                   ELSE stock[s]]
        /\ UNCHANGED <<now, supplied>>
    BY <1>3 DEF I!Confirm
  <2>3. \A s \in SKU : stock'[s] = stock[s]
    BY <2>1, <2>2 DEF I!ConfirmItem
  <2>4. stock' = [s \in SKU |-> stock'[s]]
    BY <2>2
  <2> QED
    BY <1>2, <2>2, <2>3, <2>4 DEF stockVars
<1>4. CASE m.kind = "cancel" /\ I!Release(m.ref)
  <2>1. I!Holders(m.ref) = {}
    BY <1>1, <1>4 DEF Inv, CancelledFree
  <2>2. /\ stock' = [s \in SKU |-> stock[s]]
        /\ UNCHANGED <<now, supplied>>
    BY <1>4, <2>1 DEF I!Release
  <2> QED
    BY <1>2, <2>2 DEF stockVars
<1> QED
  BY <1>3, <1>4 DEF Deliver, OnConfirmReservation, OnOrderCancelled

(* Delivered at least once, a message takes effect exactly once: the relay *)
(* may repeat it whenever its answer was lost (outbox.go: RunOnce), and a  *)
(* call that timed out may arrive beside it.                               *)
THEOREM RepeatsChangeNothing == Spec => RepeatsHarmless
<1>1. ASSUME Parts, Inv, log \subseteq Message
      PROVE  \A m \in got : Arrives(m) => UNCHANGED stockVars
  <2> SUFFICES ASSUME NEW m \in got, Arrives(m)
               PROVE  UNCHANGED stockVars
    OBVIOUS
  <2>1. Deliver(m) /\ m \in Message
    BY <1>1 DEF Arrives, ArriveLate, Publish, Parts
  <2> QED
    BY <1>1, <2>1, NothingToDo
<1>2. IP!Inv /\ OP!Inv => Parts /\ log \subseteq Message
  BY PartsHold DEF OP!Inv, OP!TypeOK
<1> QED
  BY <1>1, <1>2, InvHolds, ComponentInvariants, PTL DEF RepeatsHarmless

-----------------------------------------------------------------------------
(* The orders and messages are those of OrderLife, which Ordering          *)
(* implements: only Store and FinishCancel write one, each with its event. *)
Events == {Event(m) : m \in log}

OrderRows == [r \in Ref |-> OrderRow(r)]

LEMMA EventsOf ==
  \A r \in Ref :
    /\ Event(ConfirmReservation(r)) =
         [kind |-> "ConfirmReservation", order |-> r, by |-> r]
    /\ Event(OrderCancelled(r)) =
         [kind |-> "OrderCancelled", order |-> r, by |-> r]
    /\ Event(ConfirmReservation(r)) \in Life!Message
    /\ Event(OrderCancelled(r)) \in Life!Message
BY DEF Event, ConfirmReservation, OrderCancelled, Life!Message

LEMMA EventsDiffer ==
  ASSUME NEW m \in Message, NEW n \in Message, Event(m) = Event(n)
  PROVE  m = n
<1>1. /\ m = [kind |-> m.kind, ref |-> m.ref] /\ m.kind \in {"confirm", "cancel"}
      /\ n = [kind |-> n.kind, ref |-> n.ref] /\ n.kind \in {"confirm", "cancel"}
  BY DEF Message
<1>2. Event(m).kind = Event(n).kind /\ Event(m).order = Event(n).order
  OBVIOUS
<1>3. m.ref = n.ref /\ m.kind = n.kind
  BY <1>1, <1>2 DEF Event
<1> QED
  BY <1>1, <1>3

(* A commit adds its event to the log, which did not have it.              *)
LEMMA CommitTells ==
  ASSUME NEW m \in Message, log \subseteq Message, O!Commit(m)
  PROVE  Event(m) \notin Events /\ Events' = Events \cup {Event(m)}
<1>1. m \notin log /\ log' = log \cup {m}
  BY DEF O!Commit
<1>2. Event(m) \notin Events
  BY <1>1, EventsDiffer DEF Events
<1>3. Events' = {Event(n) : n \in log'}
  BY DEF Events, Event
<1> QED
  BY <1>1, <1>2, <1>3 DEF Events

LEMMA LifeInit == Init => Life!Init
<1> SUFFICES ASSUME Init
             PROVE  Life!Init
  OBVIOUS
<1>1. \A r \in Ref : OrderRows[r] = [status |-> "none", version |-> 0]
  BY DEF Init, OrderRows, OrderRow
<1>2. Events = {}
  BY DEF Init, O!Init, Events
<1> QED
  BY <1>1, <1>2 DEF Life!Init, Life!Absent, OrderRows, Events

LEMMA LifeStep ==
  ASSUME Inv, log \subseteq Message, [Next]_vars
  PROVE  [Life!Next]_(Life!vars)
<1>1. SeamTypeOK
  BY DEF Inv
<1>2. ASSUME UNCHANGED <<order, log>>
      PROVE  UNCHANGED Life!vars
  <2>1. OrderRows' = OrderRows /\ Events' = Events
    BY <1>2 DEF OrderRows, OrderRow, Events, Event
  <2> QED
    BY <2>1 DEF Life!vars, OrderRows, Events
<1>3. ASSUME NEW r \in Ref, NEW m \in Message, O!Commit(m),
             NEW c \in {"confirmed", "cancelled"},
             order' = [order EXCEPT ![r] = c]
      PROVE  /\ OrderRows' = [OrderRows EXCEPT ![r] = OrderRow(r)']
             /\ Event(m) \notin Events /\ Events' = Events \cup {Event(m)}
  <2>1. \A u \in Ref : u # r => OrderRow(u)' = OrderRow(u)
    BY <1>1, <1>3 DEF OrderRow, SeamTypeOK
  <2>2. OrderRows' = [OrderRows EXCEPT ![r] = OrderRow(r)']
    BY <2>1 DEF OrderRows
  <2> QED
    BY <1>3, <2>2, CommitTells
<1>4. ASSUME NEW r \in Ref, Store(r)
      PROVE  Life!Next
  <2> DEFINE m == ConfirmReservation(r)
  <2>1. order[r] = "none" /\ order' = [order EXCEPT ![r] = "confirmed"] /\ O!Commit(m)
    BY <1>4 DEF Store, Move, Inv, OrdersSent
  <2>2. OrderRow(r)' = [status |-> "confirmed", version |-> 1, total |-> 0]
    BY <1>1, <2>1 DEF OrderRow, SeamTypeOK
  <2>3. OrderRows[r] = [status |-> "none", version |-> 0]
    BY <2>1 DEF OrderRows, OrderRow
  <2>4. /\ OrderRows' = [OrderRows EXCEPT ![r] = OrderRow(r)']
        /\ Event(m) \notin Events /\ Events' = Events \cup {Event(m)}
    BY <1>3, <2>1, Messages
  <2>5. OrderRows[r] = Life!Absent /\ OrderRow(r)' = Life!Confirmed(r)
    BY <2>2, <2>3 DEF Life!Absent, Life!Confirmed
  <2>6. Event(m).kind = "ConfirmReservation" /\ Event(m).order = r
    BY EventsOf
  <2>7. Life!Place(r, Event(m))
    BY <2>4, <2>5, <2>6 DEF Life!Place, Life!Write, Life!Tell, OrderRows, Events
  <2> QED
    BY <2>7, EventsOf DEF Life!Next
<1>5. ASSUME NEW r \in Ref, FinishCancel(r)
      PROVE  Life!Next
  <2> DEFINE m == OrderCancelled(r)
  <2>1. order[r] = "confirmed" /\ order' = [order EXCEPT ![r] = "cancelled"] /\ O!Commit(m)
    BY <1>5 DEF FinishCancel
  <2>2. OrderRow(r)' = [status |-> "cancelled", version |-> 2, total |-> 0]
    BY <1>1, <2>1 DEF OrderRow, SeamTypeOK
  <2>3. OrderRows[r].status = "confirmed"
    BY <2>1 DEF OrderRows, OrderRow
  <2>4. /\ OrderRows' = [OrderRows EXCEPT ![r] = OrderRow(r)']
        /\ Event(m) \notin Events /\ Events' = Events \cup {Event(m)}
    BY <1>3, <2>1, Messages
  <2>5. Life!Cancel(r, Event(m))
    BY <2>2, <2>3, <2>4, EventsOf
       DEF Life!Cancel, Life!Write, Life!Tell, Life!Before, Life!Cancelled,
           OrderRows, Events
  <2> QED
    BY <2>5, EventsOf DEF Life!Next
<1>6. ASSUME NEW r \in Ref, Placing(r), ~ Store(r)
      PROVE  UNCHANGED <<order, log>>
  BY <1>6 DEF Placing, Begin, Reserve, Refuse, Abandon, Build, O!Create,
              StoreFails, Compensate, Drop, outboxVars
<1>7. ASSUME NEW r \in Ref, BeginCancel(r)
      PROVE  UNCHANGED <<order, log>>
  BY <1>7 DEF BeginCancel, O!Create, orderVars
<1>8. ASSUME NEW m \in Message, ArriveLate(m)
      PROVE  UNCHANGED <<order, log>>
  BY <1>8 DEF ArriveLate, O!ArriveLate, orderVars
<1>9. ASSUME NEW k \in Relay, Relaying(k)
      PROVE  UNCHANGED <<order, log>>
  BY <1>9 DEF Relaying, List, O!List, Stop, O!Stop, Publish, O!Publish,
              Fail, O!Fail, Mark, O!Mark, orderVars
<1>10. ASSUME (\E t \in 0 .. now, S \in SUBSET SKU : Sweep(t, S)) \/ Tick
              \/ UNCHANGED vars
       PROVE  UNCHANGED <<order, log>>
  BY <1>10 DEF Sweep, Tick, vars, outboxVars, orderVars
<1> QED
  BY <1>2, <1>4, <1>5, <1>6, <1>7, <1>8, <1>9, <1>10 DEF Next

(* The orders of the composition behave as OrderLife says, which is what   *)
(* Ordering's commands implement over PostgreSQL: so the two modules speak *)
(* of the same orders and messages.                                        *)
THEOREM OrdersImplemented == Spec => ImplementsOrderLife
<1>1. OP!Inv => log \subseteq Message
  BY DEF OP!Inv, OP!TypeOK
<1> QED
  BY <1>1, LifeInit, LifeStep, InvHolds, ComponentInvariants, PTL
     DEF Spec, ImplementsOrderLife, Life!Spec
=============================================================================
