----------------------------- MODULE Inventory -----------------------------
(***************************************************************************)
(* What the inventory context promises its callers: every use case takes   *)
(* effect at once on all the stock items it concerns, or not at all.       *)
(*                                                                         *)
(* The state is the committed content of the stores.  One action stands    *)
(* for one successful run of a use case, from its guard clauses to its     *)
(* commit; a request that fails leaves the state unchanged and is a        *)
(* stuttering step.  StockTxn shows how the PostgreSQL adapter implements  *)
(* these actions with statements, row locks, versions and retries.         *)
(*                                                                         *)
(* A reservation reference is derived from an order's identifier, so the   *)
(* quantities requested under a reference are those of its order and do    *)
(* not change when a request is sent again.                                *)
(***************************************************************************)
EXTENDS StockItem

CONSTANTS
  SKU,          \* stock keeping units
  Order,        \* Order[r][s]: units of s the order behind r asks for
  Quantities,   \* quantities a replenishment may add
  Opening,      \* units of each SKU added before the model starts
  TTL,          \* how long a pending reservation is held
  Batch,        \* most stock items one sweep handles
  MaxTime,      \* bound: the clock stops here
  Supply        \* bound: the totals of units ever added to one SKU

ASSUME OrderAssumption ==
  IsFiniteSet(Ref) /\ Order \in [Ref -> [SKU -> Nat]]
ASSUME QuantitiesAssumption == Quantities \subseteq Nat \ {0}
ASSUME TimeAssumption == TTL \in Nat \ {0} /\ MaxTime \in Nat
ASSUME BatchAssumption == Batch \in Nat \ {0}
ASSUME SupplyAssumption == Supply \subseteq Nat /\ Opening \in [SKU -> Supply]

VARIABLES
  stock,        \* the committed item of every SKU
  now,          \* the wall clock
  supplied      \* history: units ever added to each SKU

vars == <<stock, now, supplied>>

Lines(r) == {s \in SKU : Order[r][s] > 0}

Holders(r) == {s \in SKU : HasReservation(stock[s], r)}

Expired(t) == {s \in SKU : Reapable(stock[s], t) # {}}

(* The query behind a sweep compares strictly, the aggregate does not.     *)
Overdue(t) == {s \in SKU : HasOverdue(stock[s], t)}

Init ==
  /\ stock = [s \in SKU |-> ReplenishItem(NewStockItem, Opening[s])]
  /\ now = 0
  /\ supplied = Opening

-----------------------------------------------------------------------------
Replenish(s, q) ==
  /\ supplied[s] + q \in Supply
  /\ stock' = [stock EXCEPT ![s] = ReplenishItem(@, q)]
  /\ supplied' = [supplied EXCEPT ![s] = @ + q]
  /\ UNCHANGED now

(* The clock is read for each line, some time before the commit.           *)
Expiries == {t + TTL : t \in {u \in 0 .. now : u + TTL < MaxTime}}

Reserve(r, exp) ==
  /\ \A s \in Lines(r) : CanReserve(stock[s], r, Order[r][s])
  /\ stock' = [s \in SKU |->
       IF s \in Lines(r) THEN ReserveItem(stock[s], r, Order[r][s], exp[s])
                         ELSE stock[s]]
  /\ UNCHANGED <<now, supplied>>

(* An empty set of holders is ErrReservationNotFound.                      *)
Confirm(r) ==
  /\ Holders(r) # {}
  /\ stock' = [s \in SKU |->
       IF s \in Holders(r) THEN ConfirmItem(stock[s], r) ELSE stock[s]]
  /\ UNCHANGED <<now, supplied>>

(* Mutant: a release is applied to one of the items only.                  *)
ReleaseOne(r) ==
  /\ \E u \in Holders(r) : stock' = [stock EXCEPT ![u] = ReleaseItem(@, r)]
  /\ UNCHANGED <<now, supplied>>

Release(r) ==
  /\ stock' = [s \in SKU |->
       IF s \in Holders(r) THEN ReleaseItem(stock[s], r) ELSE stock[s]]
  /\ UNCHANGED <<now, supplied>>

(* The sweep reads the clock once, before it opens its transaction, and    *)
(* takes at most Batch of the items that hold something to reap, in no     *)
(* particular order.                                                       *)
Sweep(t, S) ==
  /\ S \subseteq Expired(t) /\ S # {} /\ Cardinality(S) <= Batch
  /\ stock' = [s \in SKU |->
       IF s \in S THEN ReapItem(stock[s], t) ELSE stock[s]]
  /\ UNCHANGED <<now, supplied>>

Tick ==
  /\ now < MaxTime
  /\ now' = now + 1
  /\ UNCHANGED <<stock, supplied>>

Next ==
  \/ \E s \in SKU, q \in Quantities : Replenish(s, q)
  \/ \E r \in Ref : \E exp \in [Lines(r) -> Expiries] : Reserve(r, exp)
  \/ \E r \in Ref : Confirm(r)
  \/ \E r \in Ref : Release(r)
  \/ \E t \in 0 .. now, S \in SUBSET SKU : Sweep(t, S)
  \/ Tick

Spec == Init /\ [][Next]_vars

(* The reaper loop sweeps again at every interval, with the current time,  *)
(* and takes all there is to reap when that is at most one batch.          *)
FairSpec == Spec /\ WF_vars(Tick) /\ WF_vars(Sweep(now, Overdue(now)))

-----------------------------------------------------------------------------
(* The quantities never go below zero and the bounds hold.                 *)
TypeOK ==
  /\ stock \in [SKU -> Item]
  /\ now \in 0 .. MaxTime
  /\ supplied \in [SKU -> Supply]

(* No unit is lost or sold twice: what is free and what is reserved is     *)
(* what was ever added, for every SKU, after any mix of reservations,      *)
(* confirmations, releases and sweeps (stock_item.go: available is stored, *)
(* reserved is derived from the reservations).                             *)
Conservation ==
  \A s \in SKU : stock[s].available + Reserved(stock[s]) = supplied[s]

(* A reservation that is not confirmed holds its units no longer than TTL  *)
(* from now, and nothing else has a deadline: the reaper can always heal   *)
(* an orphan and can never touch what is confirmed.                        *)
HoldBounded ==
  \A s \in SKU, r \in Ref :
    LET rv == stock[s].resv[r]
    IN  /\ rv.status = "none" <=> rv.qty = 0
        /\ rv.status = "pending" => rv.expiresAt \in 1 .. now + TTL
        /\ rv.status # "pending" => rv.expiresAt = 0

(* The lines of an order are released together.  A reservation that goes   *)
(* away while its order keeps another one was pending and past its         *)
(* deadline: only the reaper may tear an order apart.                      *)
TearsOnlyExpired ==
  \A r \in Ref, s \in SKU :
    (/\ HasReservation(stock[s], r)
     /\ ~ HasReservation(stock'[s], r)
     /\ \E u \in SKU : HasReservation(stock'[u], r))
    => s \in Expired(now) /\ r \in Reapable(stock[s], now)

TornOnlyByExpiry == [][TearsOnlyExpired]_vars

(* Every pending reservation is confirmed, released or reaped in the end:  *)
(* reserved stock whose order was never made durable becomes available     *)
(* again (inventory.go: runReaperLoop).                                    *)
PendingEnds ==
  \A s \in SKU, r \in Ref :
    stock[s].resv[r].status = "pending"
      ~> stock[s].resv[r].status # "pending"

(* confirm.go:24-28: a confirmation moves all the stock items of an order  *)
(* at once and is never applied to a part of them, because the pending     *)
(* rest would be reaped.  So an order with a confirmed reservation has one *)
(* on each of its lines.                                                   *)
ConfirmedWhole ==
  \A r \in Ref :
    (\E s \in SKU : stock[s].resv[r].status = "confirmed")
      => \A s \in Lines(r) : stock[s].resv[r].status = "confirmed"
=============================================================================
