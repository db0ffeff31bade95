-------------------------------- MODULE Seam --------------------------------
(***************************************************************************)
(* Placing and cancelling an order across the two contexts.  The ordering  *)
(* context reserves stock by a synchronous call, stores the order together *)
(* with a confirmation request in its outbox, and tells the inventory of a *)
(* cancellation in the same way; the inventory reaps what nobody confirms. *)
(*                                                                         *)
(* The module composes Inventory, the use cases of one context, and        *)
(* Outbox, the relay of the other, whose Publish is here the consumer's    *)
(* use case.  Each of the calls between the contexts may be lost, may be   *)
(* answered too late or may take effect after its caller gave up, and a    *)
(* process may end anywhere.                                               *)
(***************************************************************************)
EXTENDS Integers, FiniteSets

CONSTANTS
  Ref, SKU, Order, Quantities, Opening, TTL, Batch, MaxTime, Supply,
  Relay,        \* relays of the ordering service
  Rows          \* most rows one round of a relay lists

(* What Inventory and Outbox assume of their constants.                    *)
ASSUME OrderAssumption ==
  IsFiniteSet(Ref) /\ Order \in [Ref -> [SKU -> Nat]]
ASSUME QuantitiesAssumption == Quantities \subseteq Nat \ {0}
ASSUME TimeAssumption == TTL \in Nat \ {0} /\ MaxTime \in Nat
ASSUME BatchAssumption == Batch \in Nat \ {0} /\ Rows \in Nat \ {0}
ASSUME SupplyAssumption == Supply \subseteq Nat /\ Opening \in [SKU -> Supply]

VARIABLES
  stock, now, supplied,                                         \* Inventory
  clock, stamp, log, queue, todo, acked, late, got, known,      \* Outbox
  order,        \* the stored order behind each reference
  place,        \* how far the request that places it has come
  reaped        \* history: references with a reservation that was reaped

Message == [kind : {"confirm", "cancel"}, ref : Ref]

ConfirmReservation(r) == [kind |-> "confirm", ref |-> r]
OrderCancelled(r) == [kind |-> "cancel", ref |-> r]

I == INSTANCE Inventory
O == INSTANCE Outbox WITH Batch <- Rows

stockVars == <<stock, now, supplied>>
outboxVars == <<clock, stamp, log, queue, todo, acked, late, got, known>>
orderVars == <<order, place, reaped>>
vars == <<stockVars, outboxVars, orderVars>>

Init ==
  /\ I!Init
  /\ O!Init
  /\ order = [r \in Ref |-> "none"]
  /\ place = [r \in Ref |-> "idle"]
  /\ reaped = {}

-----------------------------------------------------------------------------
(* PlaceOrder.Handle, phase 1.  A request is "reserving" while it waits    *)
(* for its call, "abandoned" when it failed and the call may still arrive. *)
Move(r, from, to) == place[r] = from /\ place' = [place EXCEPT ![r] = to]

Begin(r) ==
  /\ Move(r, "idle", "reserving")
  /\ UNCHANGED <<stockVars, outboxVars, order, reaped>>

(* Mutant: a call may take effect once more when its order is stored.      *)
ReserveAgain(r, exp) ==
  /\ \/ Move(r, "reserving", "reserved") \/ Move(r, "abandoned", "failed")
     \/ place[r] = "placed" /\ UNCHANGED place
  /\ I!Reserve(r, exp)
  /\ UNCHANGED <<outboxVars, order, reaped>>

Reserve(r, exp) ==
  /\ Move(r, "reserving", "reserved") \/ Move(r, "abandoned", "failed")
  /\ I!Reserve(r, exp)
  /\ UNCHANGED <<outboxVars, order, reaped>>

(* The call is refused, fails or is lost.                                  *)
Refuse(r) ==
  /\ Move(r, "reserving", "failed") \/ Move(r, "abandoned", "failed")
  /\ UNCHANGED <<stockVars, outboxVars, order, reaped>>

(* Mutant: the error of a call without an answer is ignored.               *)
AbandonAndGoOn(r) ==
  /\ Move(r, "reserving", "reserved")
  /\ UNCHANGED <<stockVars, outboxVars, order, reaped>>

(* The call times out, or the process ends.                                *)
Abandon(r) ==
  /\ Move(r, "reserving", "abandoned")
  /\ UNCHANGED <<stockVars, outboxVars, order, reaped>>

(* Mutant: the message is stored in a transaction of its own.              *)
BuildAndEnqueue(r) ==
  /\ Move(r, "reserved", "storing")
  /\ O!CreateAndEnqueue(ConfirmReservation(r))
  /\ UNCHANGED <<stockVars, order, reaped>>

(* Phase 2: the confirmation request is built, then stored with the order. *)
(* The request that builds it ends with "placed"; one that sees an error,  *)
(* be it that only the answer of the commit was lost, releases.            *)
Build(r) ==
  /\ Move(r, "reserved", "storing")
  /\ O!Create(ConfirmReservation(r))
  /\ UNCHANGED <<stockVars, order, reaped>>

Store(r) ==
  /\ Move(r, "storing", "placed") \/ Move(r, "storing", "releasing")
  /\ O!Commit(ConfirmReservation(r))
  /\ order' = [order EXCEPT ![r] = "confirmed"]
  /\ UNCHANGED <<stockVars, reaped>>

StoreFails(r) ==
  /\ Move(r, "storing", "releasing")
  /\ UNCHANGED <<stockVars, outboxVars, order, reaped>>

Compensate(r) ==
  /\ Move(r, "releasing", "failed")
  /\ I!Release(r)
  /\ UNCHANGED <<outboxVars, order, reaped>>

(* The answer of the reservation is lost, the compensation fails, or the   *)
(* process ends: nobody goes on with the request.                          *)
Drop(r) ==
  /\ \E at \in {"reserved", "storing", "releasing"} : Move(r, at, "failed")
  /\ UNCHANGED <<stockVars, outboxVars, order, reaped>>

-----------------------------------------------------------------------------
(* CancelOrder.Handle: the order is loaded and cancelled, its event is     *)
(* stamped; both are stored unless another request cancelled it first.     *)
(* Only the client that was given its identifier cancels an order.         *)
BeginCancel(r) ==
  /\ place[r] = "placed" /\ order[r] = "confirmed"
  /\ O!Create(OrderCancelled(r))
  /\ UNCHANGED <<stockVars, orderVars>>

FinishCancel(r) ==
  /\ order[r] = "confirmed"
  /\ O!Commit(OrderCancelled(r))
  /\ order' = [order EXCEPT ![r] = "cancelled"]
  /\ UNCHANGED <<stockVars, place, reaped>>

-----------------------------------------------------------------------------
(* The consumers.  A confirmation that finds no reservation is accepted.   *)
OnConfirmReservation(r) ==
  \/ I!Confirm(r)
  \/ I!Holders(r) = {} /\ UNCHANGED stockVars

(* Mutant: a confirmed reservation is not released.                        *)
OnOrderCancelledPendingOnly(r) ==
  IF \E s \in SKU : stock[s].resv[r].status = "confirmed"
  THEN UNCHANGED stockVars ELSE I!Release(r)

OnOrderCancelled(r) == I!Release(r)

Deliver(m) ==
  \/ m.kind = "confirm" /\ OnConfirmReservation(m.ref)
  \/ m.kind = "cancel" /\ OnOrderCancelled(m.ref)

Publish(k, m) == O!Publish(k, m) /\ Deliver(m) /\ UNCHANGED orderVars

ArriveLate(m) == O!ArriveLate(m) /\ Deliver(m) /\ UNCHANGED orderVars

List(k) == O!List(k) /\ UNCHANGED <<stockVars, orderVars>>
Fail(k, m) == O!Fail(k, m) /\ UNCHANGED <<stockVars, orderVars>>
Mark(k, m) == O!Mark(k, m) /\ UNCHANGED <<stockVars, orderVars>>
Stop(k) == O!Stop(k) /\ UNCHANGED <<stockVars, orderVars>>

Sweep(t, S) ==
  /\ I!Sweep(t, S)
  /\ reaped' = reaped \cup UNION {I!Reapable(stock[s], t) : s \in S}
  /\ UNCHANGED <<outboxVars, order, place>>

Tick == I!Tick /\ UNCHANGED <<outboxVars, orderVars>>

Placing(r) ==
  \/ Begin(r) \/ (\E exp \in [I!Lines(r) -> I!Expiries] : Reserve(r, exp))
  \/ Refuse(r) \/ Abandon(r) \/ Build(r) \/ Store(r) \/ StoreFails(r)
  \/ Compensate(r) \/ Drop(r)

Relaying(k) ==
  List(k) \/ Stop(k) \/ \E m \in Message : Publish(k, m) \/ Fail(k, m)
                                             \/ Mark(k, m)

Next ==
  \/ \E r \in Ref : Placing(r) \/ BeginCancel(r) \/ FinishCancel(r)
  \/ \E m \in Message : ArriveLate(m)
  \/ \E k \in Relay : Relaying(k)
  \/ \E t \in 0 .. now, S \in SUBSET SKU : Sweep(t, S)
  \/ Tick

Spec == Init /\ [][Next]_vars

(* The fairness of the two components; nothing is assumed of the requests. *)
FairSpec ==
  /\ Spec
  /\ WF_vars(Tick) /\ WF_vars(Sweep(now, I!Overdue(now)))
  /\ \A k \in Relay :
       /\ WF_vars(List(k))
       /\ SF_vars(\E m \in Message : Publish(k, m))
       /\ SF_vars(\E m \in Message : Mark(k, m))

-----------------------------------------------------------------------------
TypeOK ==
  /\ I!TypeOK
  /\ O!TypeOK
  /\ order \in [Ref -> {"none", "confirmed", "cancelled"}]
  /\ place \in [Ref -> {"idle", "reserving", "reserved", "abandoned",
                        "storing", "releasing", "placed", "failed"}]
  /\ reaped \subseteq Ref

(* An order its client was told of keeps all its stock until it is         *)
(* cancelled, pending before its confirmation arrives and confirmed from   *)
(* then on, unless the reaper came first: no message that is repeated,     *)
(* late or of another order, and no compensation, takes it away            *)
(* (place_order.go, subscriber.go).                                        *)
Holding(r) ==
  \A s \in I!Lines(r) :
    /\ stock[s].resv[r].qty = Order[r][s]
    /\ stock[s].resv[r].status =
         IF ConfirmReservation(r) \in got THEN "confirmed" ELSE "pending"

StockKept ==
  \A r \in Ref :
    place[r] = "placed" /\ order[r] = "confirmed" /\ r \notin reaped
      => Holding(r)

(* Stock is taken for good only for an order that was stored: what a       *)
(* confirmation confirms has a deadline no longer, so one that went out    *)
(* for an order that is not stored would leave an orphan for ever.         *)
OnlyStoredConfirmed ==
  \A r \in Ref, s \in SKU :
    stock[s].resv[r].status = "confirmed" => order[r] # "none"

(* After its cancellation arrived an order holds nothing and never will    *)
(* again, although its confirmation may be repeated or arrive later.       *)
CancelledFree ==
  \A r \in Ref : OrderCancelled(r) \in got => I!Holders(r) = {}

(* The release of a cancelled order never reaches the inventory before the *)
(* confirmation request of the order has, whoever relays them: a release   *)
(* that came first would find a pending reservation, and the confirmation  *)
(* nothing (messages.go, outbox.go: RunOnce).                              *)
ConfirmedFirst ==
  \A r \in Ref : OrderCancelled(r) \in got => ConfirmReservation(r) \in got

(* Once its confirmation arrived no part of an order has a deadline, and   *)
(* the reaper never again takes any of it: not even one that was reserved  *)
(* late or that another sweep had torn (confirm.go: Confirm).              *)
ConfirmedForGood ==
  \A r \in Ref, s \in SKU :
    ConfirmReservation(r) \in got => stock[s].resv[r].status # "pending"

(* Messages are delivered at least once and take effect exactly once: the  *)
(* second time a message arrives it changes nothing, whatever was reaped,  *)
(* released or reserved in between (confirm.go: Confirm, subscriber.go:    *)
(* OnOrderCancelled, safe under at-least-once delivery).                   *)
Arrives(m) == ArriveLate(m) \/ \E k \in Relay : Publish(k, m)

RepeatsHarmless == [][\A m \in got : Arrives(m) => UNCHANGED stockVars]_vars

(* In the end no reservation is pending and only stored orders that are    *)
(* not cancelled hold stock, wherever their requests came to a halt.       *)
Settled ==
  \A r \in Ref : \A s \in I!Holders(r) :
    order[r] = "confirmed" /\ stock[s].resv[r].status = "confirmed"

Settles == []<>Settled

(* place_order.go:97: the compensation is for an order that failed to be   *)
(* stored.  So a stored order that is not cancelled keeps its stock, but   *)
(* for the reaper.                                                         *)
StoredKeepsStock ==
  \A r \in Ref : order[r] = "confirmed" /\ r \notin reaped => Holding(r)

-----------------------------------------------------------------------------
(* The orders of the composition live the life that Ordering implements:   *)
(* each is stored once and cancelled once at most, with the message that   *)
(* tells it.                                                               *)
OrderRow(r) ==
  CASE order[r] = "none" -> [status |-> "none", version |-> 0]
    [] order[r] = "confirmed" -> [status |-> "confirmed", version |-> 1, total |-> 0]
    [] OTHER -> [status |-> "cancelled", version |-> 2, total |-> 0]

Event(m) ==
  [kind |-> IF m.kind = "confirm" THEN "ConfirmReservation" ELSE "OrderCancelled",
   order |-> m.ref, by |-> m.ref]

Life == INSTANCE OrderLife WITH
  Order <- Ref, Shipment <- {}, Tracking <- {}, Total <- [r \in Ref |-> 0],
  Sender <- Ref, guarded <- TRUE,
  rows <- [r \in Ref |-> OrderRow(r)],
  log <- {Event(m) : m \in log}

ImplementsOrderLife == Life!Spec
=============================================================================
