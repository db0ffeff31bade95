----------------------------- MODULE StockItem -----------------------------
(***************************************************************************)
(* The StockItem aggregate and the ReservationService of the inventory     *)
(* context (contexts/inventory/internal/domain), as operators on values.   *)
(*                                                                         *)
(* An item is the pair of the freely reservable quantity and the           *)
(* reservations it holds, one slot per reservation reference.  An empty    *)
(* slot stands for a key that is absent from the Go map.  The version of   *)
(* the row belongs to the stores and is added by the modules that model    *)
(* them.  A SKU nobody replenished yet is the item NewStockItem returns:   *)
(* it can satisfy no reservation, exactly as a missing row can not.        *)
(***************************************************************************)
EXTENDS Integers, FiniteSets, Sequences

CONSTANT Ref        \* reservation references, opaque to this context

(* expiresAt = 0 is the zero time.Time: the reservation never expires.     *)
Reservation == [status : {"none", "pending", "confirmed"},
                qty : Nat, expiresAt : Nat]

NoReservation == [status |-> "none", qty |-> 0, expiresAt |-> 0]

Item == [available : Nat, resv : [Ref -> Reservation]]

NewStockItem == [available |-> 0, resv |-> [r \in Ref |-> NoReservation]]

HasReservation(it, r) == it.resv[r].status # "none"

IsExpired(rv, t) == rv.expiresAt # 0 /\ rv.expiresAt <= t

(* The pending reservations the reaper may release at time t.              *)
Reapable(it, t) ==
  {r \in Ref : it.resv[r].status = "pending" /\ IsExpired(it.resv[r], t)}

HasOverdue(it, t) == \E r \in Reapable(it, t) : it.resv[r].expiresAt < t

(***************************************************************************)
(* The reserved quantity is derived, never stored.  It is the number of    *)
(* units the reservations of a set of references hold, each unit named by  *)
(* its reference and an index, so that sums are cardinalities of sets.     *)
(***************************************************************************)
UnitsOf(it, refs) == UNION {{r} \X (1 .. it.resv[r].qty) : r \in refs}

Reserved(it) == Cardinality(UnitsOf(it, Ref))

-----------------------------------------------------------------------------
(* The operations.  Each is applied only where the code gets past its      *)
(* early returns with an error; the no-ops that succeed are kept.          *)

ReplenishItem(it, q) == [it EXCEPT !.available = @ + q]

(* Mutant: the quantity is not compared with what is available.            *)
CanReserveUnchecked(it, r, q) == q > 0

(* An active reservation under r makes Reserve a successful no-op, whatever *)
(* quantity is asked for; its expiry is not renewed.                        *)
CanReserve(it, r, q) == q > 0 /\ (HasReservation(it, r) \/ q <= it.available)

(* Mutant: the reservation is made without a deadline.                     *)
ReserveItemForever(it, r, q, exp) ==
  IF HasReservation(it, r)
  THEN it
  ELSE [available |-> it.available - q,
        resv |-> [it.resv EXCEPT ![r] = [status |-> "pending", qty |-> q,
                                         expiresAt |-> 0]]]

ReserveItem(it, r, q, exp) ==
  IF HasReservation(it, r)
  THEN it
  ELSE [available |-> it.available - q,
        resv |-> [it.resv EXCEPT ![r] = [status |-> "pending", qty |-> q,
                                         expiresAt |-> exp]]]

(* Mutant: the deadline survives the confirmation.                         *)
ConfirmItemKeepingTTL(it, r) ==
  IF it.resv[r].status = "pending"
  THEN [it EXCEPT !.resv[r].status = "confirmed"]
  ELSE it

(* Confirm looks at the status only: an expired reservation that is still  *)
(* there is confirmed like any other.                                      *)
ConfirmItem(it, r) ==
  IF it.resv[r].status = "pending"
  THEN [it EXCEPT !.resv[r].status = "confirmed", !.resv[r].expiresAt = 0]
  ELSE it

(* Mutant: the units of a released reservation are not given back.         *)
ReleaseItemForgetting(it, r) ==
  [it EXCEPT !.resv[r] = NoReservation]

ReleaseItem(it, r) ==
  [available |-> it.available + it.resv[r].qty,
   resv |-> [it.resv EXCEPT ![r] = NoReservation]]

(* Mutant: the units of what is reaped are not given back.                 *)
ReapItemForgetting(it, t) ==
  [it EXCEPT !.resv = [r \in Ref |-> IF r \in Reapable(it, t)
                                     THEN NoReservation ELSE it.resv[r]]]

ReapItem(it, t) ==
  LET gone == Reapable(it, t)
  IN  [available |-> it.available + Cardinality(UnitsOf(it, gone)),
       resv |-> [r \in Ref |-> IF r \in gone THEN NoReservation
                                             ELSE it.resv[r]]]

-----------------------------------------------------------------------------
(***************************************************************************)
(* ReservationService.Allocate.  items is the sequence of loaded copies    *)
(* [sku, item], one per requested line that names a known SKU; a SKU named *)
(* twice was loaded twice, and the index by SKU keeps the last copy.  All  *)
(* lines are validated, each on its own, before any copy is touched; then  *)
(* the lines are reserved in order, so of two lines that name one SKU the  *)
(* first makes the reservation and the second finds it there.              *)
(***************************************************************************)
CopyOf(items, s) ==
  CHOOSE i \in DOMAIN items :
    /\ items[i].sku = s
    /\ \A j \in DOMAIN items : items[j].sku = s => j <= i

FirstLine(lines, s) ==
  CHOOSE i \in DOMAIN lines :
    /\ lines[i].sku = s
    /\ \A j \in DOMAIN lines : lines[j].sku = s => i <= j

CanAllocate(items, r, lines) ==
  \A i \in DOMAIN lines :
    /\ \E j \in DOMAIN items : items[j].sku = lines[i].sku
    /\ CanReserve(items[CopyOf(items, lines[i].sku)].item, r, lines[i].qty)

(* exp[s] is the expiry computed while the line that reserves s runs.      *)
Allocate(items, r, lines, exp) ==
  [i \in DOMAIN items |->
    LET s == items[i].sku
    IN  IF i = CopyOf(items, s)
        THEN [items[i] EXCEPT !.item =
               ReserveItem(@, r, lines[FirstLine(lines, s)].qty, exp[s])]
        ELSE items[i]]
=============================================================================
