-------------------------- MODULE InventoryProofs --------------------------
(***************************************************************************)
(* The safety of Inventory for every set of SKUs and orders: the quantities*)
(* stay natural numbers, no unit is lost or sold twice, and no unconfirmed *)
(* reservation outlives its TTL.  The inductive invariant is the           *)
(* conjunction of the three: Conservation needs HoldBounded, because       *)
(* Reserve overwrites an empty slot and would lose units found there.      *)
(***************************************************************************)
EXTENDS Inventory, StockItemLemmas

USE OrderAssumption, QuantitiesAssumption, TimeAssumption, BatchAssumption,
    SupplyAssumption

Inv == TypeOK /\ HoldBounded /\ Conservation

(* The part of HoldBounded about one item.                                 *)
Held(it, t) ==
  \A r \in Ref :
    LET rv == it.resv[r]
    IN  /\ rv.status = "none" <=> rv.qty = 0
        /\ rv.status = "pending" => rv.expiresAt \in 1 .. t + TTL
        /\ rv.status # "pending" => rv.expiresAt = 0

(* What one item contributes to the invariant.                             *)
ItemInv(it, t, total) ==
  it \in Item /\ Held(it, t) /\ it.available + Reserved(it) = total

(* The invariant, item by item.                                            *)
ByItem ==
  /\ stock = [s \in SKU |-> stock[s]]
  /\ now \in 0 .. MaxTime
  /\ supplied \in [SKU -> Supply]
  /\ \A s \in SKU : ItemInv(stock[s], now, supplied[s])

LEMMA InvByItem == Inv <=> ByItem
<1>1. stock \in [SKU -> Item] <=>
        stock = [s \in SKU |-> stock[s]] /\ \A s \in SKU : stock[s] \in Item
  OBVIOUS
<1>2. HoldBounded <=> \A s \in SKU : Held(stock[s], now)
  BY DEF HoldBounded, Held
<1> QED
  BY <1>1, <1>2 DEF Inv, TypeOK, Conservation, ItemInv, ByItem

(* Each operation keeps what one item contributes.                         *)
LEMMA ReplenishKeeps ==
  ASSUME NEW it, NEW t \in Nat, NEW total \in Nat, ItemInv(it, t, total),
         NEW q \in Nat
  PROVE  ItemInv(ReplenishItem(it, q), t, total + q)
<1>1. it \in Item /\ Held(it, t) /\ it.available + Reserved(it) = total
  BY DEF ItemInv
<1>2. /\ it.available \in Nat /\ Reserved(it) \in Nat
      /\ it.available + Reserved(it) = total
  BY <1>1, UnitsFinite, FS_CardinalityType DEF Item, Reserved
<1>3. ReplenishItem(it, q).resv = it.resv
  BY <1>1 DEF ReplenishItem, Item
<1>4. Held(ReplenishItem(it, q), t)
  BY <1>1, <1>3 DEF Held
<1>5. /\ ReplenishItem(it, q) \in Item
      /\ ReplenishItem(it, q).available = it.available + q
      /\ Reserved(ReplenishItem(it, q)) = Reserved(it)
  BY <1>1, ReplenishMoves
<1>6. ReplenishItem(it, q).available + Reserved(ReplenishItem(it, q))
        = total + q
  <2>1. ReplenishItem(it, q).available + Reserved(ReplenishItem(it, q))
          = (it.available + q) + Reserved(it)
    BY <1>5
  <2>2. (it.available + q) + Reserved(it) = total + q
    BY <1>2
  <2> QED
    BY <2>1, <2>2
<1> QED
  BY <1>4, <1>5, <1>6 DEF ItemInv

LEMMA ReserveKeeps ==
  ASSUME NEW it, NEW t \in Nat, NEW total \in Nat, ItemInv(it, t, total),
         NEW r \in Ref, NEW q \in Nat, CanReserve(it, r, q),
         NEW exp \in 1 .. t + TTL
  PROVE  ItemInv(ReserveItem(it, r, q, exp), t, total)
<1> DEFINE jt == ReserveItem(it, r, q, exp)
<1>1. it \in Item /\ Held(it, t) /\ it.available + Reserved(it) = total
  BY DEF ItemInv
<1>2. EmptySlots(it)
  BY <1>1 DEF Held, EmptySlots
<1>3. jt \in Item /\ jt.available + Reserved(jt) = total
  BY <1>1, <1>2, ReserveMoves, exp \in Nat
<1>4. Held(jt, t)
  <2>1. CASE HasReservation(it, r)
    BY <1>1, <2>1 DEF ReserveItem
  <2>2. CASE ~ HasReservation(it, r)
    <3>1. jt.resv = [it.resv EXCEPT ![r] =
             [status |-> "pending", qty |-> q, expiresAt |-> exp]]
      BY <2>2 DEF ReserveItem
    <3>2. q # 0
      BY DEF CanReserve
    <3> QED
      BY <1>1, <3>1, <3>2 DEF Held, Item
  <2> QED
    BY <2>1, <2>2
<1> QED
  BY <1>3, <1>4 DEF ItemInv

LEMMA ConfirmKeeps ==
  ASSUME NEW it, NEW t \in Nat, NEW total, ItemInv(it, t, total), NEW r \in Ref
  PROVE  ItemInv(ConfirmItem(it, r), t, total)
<1>1. it \in Item /\ Held(it, t) /\ it.available + Reserved(it) = total
  BY DEF ItemInv
<1>2. Held(ConfirmItem(it, r), t)
  BY <1>1 DEF Held, ConfirmItem, Item, Reservation
<1> QED
  BY <1>1, <1>2, ConfirmMoves DEF ItemInv

LEMMA ReleaseKeeps ==
  ASSUME NEW it, NEW t \in Nat, NEW total, ItemInv(it, t, total), NEW r \in Ref
  PROVE  ItemInv(ReleaseItem(it, r), t, total)
<1>1. it \in Item /\ Held(it, t) /\ it.available + Reserved(it) = total
  BY DEF ItemInv
<1>2. Held(ReleaseItem(it, r), t)
  BY <1>1 DEF Held, ReleaseItem, Item, NoReservation
<1> QED
  BY <1>1, <1>2, ReleaseMoves DEF ItemInv

LEMMA ReapKeeps ==
  ASSUME NEW it, NEW t \in Nat, NEW total, ItemInv(it, t, total), NEW u \in Nat
  PROVE  ItemInv(ReapItem(it, u), t, total)
<1>1. it \in Item /\ Held(it, t) /\ it.available + Reserved(it) = total
  BY DEF ItemInv
<1>2. Held(ReapItem(it, u), t)
  <2>1. ReapItem(it, u).resv =
          [r \in Ref |-> IF r \in Reapable(it, u) THEN NoReservation
                                                 ELSE it.resv[r]]
    BY DEF ReapItem
  <2> QED
    BY <1>1, <2>1 DEF Held, NoReservation
<1> QED
  BY <1>1, <1>2, ReapMoves DEF ItemInv

(* Time only makes the bound on deadlines weaker.                          *)
LEMMA TickKeeps ==
  ASSUME NEW it, NEW t \in Nat, NEW total, ItemInv(it, t, total)
  PROVE  ItemInv(it, t + 1, total)
BY DEF ItemInv, Held, Item, Reservation

(* Nothing is reserved in the initial state.                               *)
LEMMA InitInv ==
  Init => Inv
<1> SUFFICES ASSUME Init PROVE ByItem
  BY InvByItem
<1>1. NewStockItem \in Item /\ NewStockItem.available = 0
  BY DEF NewStockItem, Item, Reservation, NoReservation
<1>2. UnitsOf(NewStockItem, Ref) = {}
  BY DEF UnitsOf, NewStockItem, NoReservation
<1>3. Held(NewStockItem, 0)
  BY DEF Held, NewStockItem, NoReservation
<1>4. ItemInv(NewStockItem, 0, 0)
  BY <1>1, <1>2, <1>3, FS_EmptySet DEF ItemInv, Reserved
<1>5. ASSUME NEW s \in SKU
      PROVE  ItemInv(ReplenishItem(NewStockItem, Opening[s]), 0, Opening[s])
  <2>1. Opening[s] \in Nat
    OBVIOUS
  <2>2. ItemInv(ReplenishItem(NewStockItem, Opening[s]), 0, 0 + Opening[s])
    BY <1>4, <2>1, ReplenishKeeps, 0 \in Nat
  <2> QED
    BY <2>1, <2>2
<1> QED
  BY <1>5 DEF Init, ByItem

-----------------------------------------------------------------------------
(* Every step keeps the invariant.                                         *)
LEMMA NextInv ==
  Inv /\ [Next]_vars => Inv'
<1>0. Inv' <=> ByItem'
  BY InvByItem, PTL
<1> SUFFICES ASSUME Inv, [Next]_vars
             PROVE  ByItem'
  BY <1>0
<1>inv. /\ stock = [s \in SKU |-> stock[s]]
        /\ now \in 0 .. MaxTime /\ now \in Nat
        /\ supplied \in [SKU -> Supply]
        /\ \A s \in SKU : /\ ItemInv(stock[s], now, supplied[s])
                          /\ supplied[s] \in Nat
  BY InvByItem DEF ByItem
<1>1. ASSUME NEW s \in SKU, NEW q \in Quantities, Replenish(s, q)
      PROVE  ByItem'
  <2>1. ItemInv(ReplenishItem(stock[s], q), now, supplied[s] + q)
    BY <1>inv, ReplenishKeeps
  <2>2. \A u \in SKU : ItemInv(stock'[u], now', supplied'[u])
    BY <1>1, <1>inv, <2>1 DEF Replenish
  <2>3. /\ stock' = [u \in SKU |-> stock'[u]]
        /\ supplied' \in [SKU -> Supply]
        /\ now' = now
    BY <1>1, <1>inv DEF Replenish
  <2> QED
    BY <1>inv, <2>2, <2>3 DEF ByItem
<1>2. ASSUME NEW r \in Ref, NEW exp \in [Lines(r) -> Expiries],
             Reserve(r, exp)
      PROVE  /\ stock' = [u \in SKU |-> stock'[u]]
             /\ UNCHANGED <<now, supplied>>
             /\ \A u \in SKU : ItemInv(stock'[u], now, supplied[u])
  <2>1. ASSUME NEW u \in Lines(r)
        PROVE  ItemInv(ReserveItem(stock[u], r, Order[r][u], exp[u]),
                       now, supplied[u])
    <3>1. u \in SKU /\ Order[r][u] \in Nat
      BY DEF Lines
    <3>2. exp[u] \in 1 .. now + TTL
      <4>1. PICK t \in 0 .. now : exp[u] = t + TTL
        BY DEF Expiries
      <4>2. now \in Nat /\ TTL \in Nat \ {0}
        BY <1>inv
      <4> QED
        BY <4>1, <4>2
    <3>3. CanReserve(stock[u], r, Order[r][u])
      BY <1>2 DEF Reserve
    <3> QED
      BY <1>inv, <3>1, <3>2, <3>3, ReserveKeeps
  <2> QED
    BY <1>2, <1>inv, <2>1 DEF Reserve
<1>3. ASSUME NEW r \in Ref, Confirm(r)
      PROVE  /\ stock' = [u \in SKU |-> stock'[u]]
             /\ UNCHANGED <<now, supplied>>
             /\ \A u \in SKU : ItemInv(stock'[u], now, supplied[u])
  <2>1. \A u \in SKU : ItemInv(ConfirmItem(stock[u], r), now, supplied[u])
    BY <1>inv, ConfirmKeeps
  <2> QED
    BY <1>3, <1>inv, <2>1 DEF Confirm
<1>4. ASSUME NEW r \in Ref, Release(r)
      PROVE  /\ stock' = [u \in SKU |-> stock'[u]]
             /\ UNCHANGED <<now, supplied>>
             /\ \A u \in SKU : ItemInv(stock'[u], now, supplied[u])
  <2>1. \A u \in SKU : ItemInv(ReleaseItem(stock[u], r), now, supplied[u])
    BY <1>inv, ReleaseKeeps
  <2> QED
    BY <1>4, <1>inv, <2>1 DEF Release
<1>5. ASSUME NEW t \in 0 .. now, NEW S \in SUBSET SKU, Sweep(t, S)
      PROVE  /\ stock' = [u \in SKU |-> stock'[u]]
             /\ UNCHANGED <<now, supplied>>
             /\ \A u \in SKU : ItemInv(stock'[u], now, supplied[u])
  <2>1. \A u \in SKU : ItemInv(ReapItem(stock[u], t), now, supplied[u])
    BY <1>inv, ReapKeeps, t \in Nat
  <2> QED
    BY <1>5, <1>inv, <2>1 DEF Sweep
<1>6. CASE Tick
  <2>1. now' = now + 1 /\ now' \in 0 .. MaxTime /\ UNCHANGED <<stock, supplied>>
    BY <1>6, <1>inv DEF Tick
  <2>2. \A u \in SKU : ItemInv(stock[u], now + 1, supplied[u])
    BY <1>inv, TickKeeps
  <2> QED
    BY <1>inv, <2>1, <2>2 DEF ByItem
<1>7. CASE UNCHANGED vars
  BY <1>7, <1>inv DEF vars, ByItem
<1> QED
  BY <1>inv, <1>1, <1>2, <1>3, <1>4, <1>5, <1>6, <1>7 DEF Next, ByItem

(* The inductive invariant holds in every reachable state.                 *)
THEOREM InvHolds == Spec => []Inv
BY InitInv, NextInv, PTL DEF Spec

(* The committed quantities are natural numbers: the inventory never sells *)
(* what it does not have (stock_item.go: Reserve refuses more than         *)
(* available).                                                             *)
THEOREM TypeCorrect == Spec => []TypeOK
<1>1. Inv => TypeOK
  BY DEF Inv
<1> QED
  BY <1>1, InvHolds, PTL

(* What is free and what is reserved is always what was ever added.        *)
THEOREM UnitsConserved == Spec => []Conservation
<1>1. Inv => Conservation
  BY DEF Inv
<1> QED
  BY <1>1, InvHolds, PTL

(* No unconfirmed reservation is held for longer than TTL.                 *)
THEOREM HoldsBounded == Spec => []HoldBounded
<1>1. Inv => HoldBounded
  BY DEF Inv
<1> QED
  BY <1>1, InvHolds, PTL

-----------------------------------------------------------------------------
(* Only a sweep, and only past the deadline, takes a reservation away from *)
(* an order that keeps another: Release takes all of them at once, and no  *)
(* other use case takes any.                                               *)
LEMMA NextTorn ==
  ASSUME Inv, [Next]_vars, NEW r \in Ref, NEW s \in SKU, NEW u \in SKU,
         HasReservation(stock[s], r), ~ HasReservation(stock'[s], r),
         HasReservation(stock'[u], r)
  PROVE  s \in Expired(now) /\ r \in Reapable(stock[s], now)
<1>inv. /\ stock \in [SKU -> Item] /\ now \in Nat
        /\ stock[s] \in Item /\ stock[u] \in Item
  BY DEF Inv, TypeOK
<1>1. ASSUME NEW p \in SKU, NEW q \in Quantities, Replenish(p, q)
      PROVE  FALSE
  <2>1. stock'[s].resv = stock[s].resv
    BY <1>1, <1>inv DEF Replenish, ReplenishItem, Item
  <2> QED
    BY <2>1 DEF HasReservation
<1>2. ASSUME NEW p \in Ref, NEW exp, Reserve(p, exp)
      PROVE  FALSE
  <2>1. \/ stock'[s] = stock[s]
        \/ stock'[s] = ReserveItem(stock[s], p, Order[p][s], exp[s])
    BY <1>2 DEF Reserve
  <2> QED
    BY <1>inv, <2>1, ReserveConfirmKeep
<1>3. ASSUME NEW p \in Ref, Confirm(p)
      PROVE  FALSE
  <2>1. \/ stock'[s] = stock[s]
        \/ stock'[s] = ConfirmItem(stock[s], p)
    BY <1>3 DEF Confirm
  <2> QED
    BY <1>inv, <2>1, ReserveConfirmKeep
<1>4. ASSUME NEW p \in Ref, Release(p)
      PROVE  FALSE
  <2>1. \A v \in SKU : stock'[v] = IF v \in Holders(p)
                                   THEN ReleaseItem(stock[v], p)
                                   ELSE stock[v]
    BY <1>4 DEF Release
  <2>2. p = r
    BY <1>inv, <2>1, ReleaseTakesOne
  <2>3. u \in Holders(p)
    BY <2>1, <2>2 DEF Holders
  <2> QED
    BY <1>inv, <2>1, <2>2, <2>3, ReleaseTakesOne
<1>5. ASSUME NEW t \in 0 .. now, NEW S \in SUBSET SKU, Sweep(t, S)
      PROVE  s \in Expired(now) /\ r \in Reapable(stock[s], now)
  <2>1. stock'[s] = IF s \in S THEN ReapItem(stock[s], t) ELSE stock[s]
    BY <1>5 DEF Sweep
  <2>2. r \in Reapable(stock[s], t)
    BY <2>1 DEF ReapItem, HasReservation
  <2>3. stock[s].resv[r].expiresAt \in Nat
    BY <1>inv DEF Item, Reservation
  <2>4. r \in Reapable(stock[s], now)
    BY <1>inv, <2>2, <2>3 DEF Reapable, IsExpired
  <2> QED
    BY <2>4 DEF Expired
<1>6. Tick \/ UNCHANGED vars => FALSE
  BY DEF Tick, vars
<1> QED
  BY <1>1, <1>2, <1>3, <1>4, <1>5, <1>6 DEF Next

(* The lines of an order leave the stock together unless they expire.      *)
THEOREM TornOnlyWhenExpired == Spec => TornOnlyByExpiry
<1>1. Inv /\ [Next]_vars => [TearsOnlyExpired]_vars
  BY NextTorn DEF TearsOnlyExpired
<1> QED
  BY <1>1, InvHolds, PTL DEF Spec, TornOnlyByExpiry

-----------------------------------------------------------------------------
(* A confirmed reservation never changes: it is not reaped, not confirmed  *)
(* or reserved anew (stock_item.go: Reserve, Confirm and ReapExpired), and *)
(* it goes away only with all of its order's (release.go).                 *)
ConfirmedStand ==
  \A r \in Ref, s \in SKU :
    stock[s].resv[r].status = "confirmed" =>
      \/ stock'[s].resv[r] = stock[s].resv[r]
      \/ \A u \in SKU : ~ HasReservation(stock'[u], r)

ConfirmedReservationsStand == [][ConfirmedStand]_vars

LEMMA NextStands ==
  ASSUME Inv, [Next]_vars
  PROVE  ConfirmedStand
<1> SUFFICES ASSUME NEW r \in Ref, NEW s \in SKU,
                    stock[s].resv[r].status = "confirmed"
             PROVE  \/ stock'[s].resv[r] = stock[s].resv[r]
                    \/ \A u \in SKU : ~ HasReservation(stock'[u], r)
  BY DEF ConfirmedStand
<1> DEFINE Kept == stock'[s].resv[r] = stock[s].resv[r]
<1>1. stock \in [SKU -> Item] /\ \A u \in SKU : stock[u].resv \in [Ref -> Reservation]
  BY DEF Inv, TypeOK, Item
<1>2. HasReservation(stock[s], r)
  BY DEF HasReservation
<1>3. ASSUME NEW p \in SKU, NEW q, Replenish(p, q)
      PROVE  Kept
  BY <1>1, <1>3 DEF Replenish, ReplenishItem, Item
<1>4. ASSUME NEW p \in Ref, NEW e, Reserve(p, e)
      PROVE  Kept
  <2>1. stock'[s] = stock[s] \/ stock'[s] = ReserveItem(stock[s], p, Order[p][s], e[s])
    BY <1>4 DEF Reserve
  <2>2. p # r => ReserveItem(stock[s], p, Order[p][s], e[s]).resv[r] = stock[s].resv[r]
    BY <1>1 DEF ReserveItem
  <2>3. p = r => ReserveItem(stock[s], p, Order[p][s], e[s]) = stock[s]
    BY <1>2 DEF ReserveItem
  <2> QED
    BY <2>1, <2>2, <2>3
<1>5. ASSUME NEW p \in Ref, Confirm(p)
      PROVE  Kept
  <2>1. stock'[s] = stock[s] \/ stock'[s] = ConfirmItem(stock[s], p)
    BY <1>5 DEF Confirm
  <2>2. ConfirmItem(stock[s], p).resv[r] = stock[s].resv[r]
    <3>1. CASE p = r
      BY <3>1 DEF ConfirmItem
    <3>2. CASE p # r
      BY <1>1, <3>2 DEF ConfirmItem, Item
    <3> QED
      BY <3>1, <3>2
  <2> QED
    BY <2>1, <2>2
<1>6. ASSUME NEW p \in Ref, Release(p)
      PROVE  Kept \/ \A u \in SKU : ~ HasReservation(stock'[u], r)
  <2>1. \A u \in SKU : stock'[u] = IF HasReservation(stock[u], p)
                                   THEN ReleaseItem(stock[u], p) ELSE stock[u]
    BY <1>6 DEF Release, Holders
  <2>2. CASE p = r
    <3>1. \A u \in SKU : ~ HasReservation(ReleaseItem(stock[u], p), r)
      BY <1>1, <2>2 DEF ReleaseItem, HasReservation, NoReservation
    <3> QED
      BY <2>1, <2>2, <3>1
  <2>3. CASE p # r
    <3>1. ReleaseItem(stock[s], p).resv[r] = stock[s].resv[r]
      BY <1>1, <2>3 DEF ReleaseItem
    <3> QED
      BY <2>1, <3>1
  <2> QED
    BY <2>2, <2>3
<1>7. ASSUME NEW t \in 0 .. now, NEW S \in SUBSET SKU, Sweep(t, S)
      PROVE  Kept
  <2>1. stock'[s] = stock[s] \/ stock'[s] = ReapItem(stock[s], t)
    BY <1>7 DEF Sweep
  <2>2. r \notin Reapable(stock[s], t)
    BY DEF Reapable
  <2>3. ReapItem(stock[s], t).resv[r] = stock[s].resv[r]
    BY <2>2 DEF ReapItem
  <2> QED
    BY <2>1, <2>3
<1>8. CASE Tick \/ UNCHANGED vars
  BY <1>8 DEF Tick, vars
<1> QED
  BY <1>3, <1>4, <1>5, <1>6, <1>7, <1>8 DEF Next

(* Once confirmed, a reservation stands until its order is released.       *)
THEOREM ConfirmationsStand == Spec => ConfirmedReservationsStand
<1>1. Inv /\ [Next]_vars => [ConfirmedStand]_vars
  BY NextStands
<1> QED
  BY <1>1, InvHolds, PTL DEF Spec, ConfirmedReservationsStand
=============================================================================
