----------------------------- MODULE OrderLife -----------------------------
(***************************************************************************)
(* What the ordering context promises of its orders and shipments: each    *)
(* command takes effect in one step, with the message it sends, or not at  *)
(* all.  `guarded' says whether the store keeps concurrent writers of a    *)
(* row apart: PostgreSQL does; the in-memory store of the development      *)
(* setup checks the version before the commit and lets a second one pass.  *)
(***************************************************************************)
CONSTANTS
  Order, Shipment, Tracking,
  Total,        \* the total amount of each order
  Sender        \* the requests; a message is identified by the one it is of

VARIABLES
  guarded,
  rows,         \* the stored orders and shipments
  log           \* the events table: every message ever stored

vars == <<guarded, rows, log>>

Message == [kind : {"ConfirmReservation", "OrderCancelled"},
            order : Order, by : Sender]

Absent == [status |-> "none", version |-> 0]
Confirmed(o) == [status |-> "confirmed", version |-> 1, total |-> Total[o]]
Cancelled(o) == [status |-> "cancelled", version |-> 2, total |-> Total[o]]
Preparing(o) ==
  [status |-> "preparing", version |-> 1, order |-> o, tracking |-> "none"]
Shipped(o, t) ==
  [status |-> "shipped", version |-> 2, order |-> o, tracking |-> t]

(* Orders and shipments may be there already.                              *)
Init ==
  /\ guarded \in BOOLEAN
  /\ \A o \in Order : rows[o] \in {Absent, Confirmed(o)}
  /\ \A s \in Shipment : rows[s] \in {Absent} \cup {Preparing(o) : o \in Order}
  /\ log = {}

Write(k, row) == rows' = [rows EXCEPT ![k] = row]

Tell(m) == m \notin log /\ log' = log \cup {m}

(* The statuses a row that is written may have: a second writer finds the  *)
(* effect of the first where nothing keeps them apart.                     *)
Before(status, after) == {status} \cup IF guarded THEN {} ELSE {after}

Place(o, m) ==
  /\ m.kind = "ConfirmReservation" /\ m.order = o
  /\ rows[o] = Absent
  /\ Write(o, Confirmed(o)) /\ Tell(m)

Cancel(o, m) ==
  /\ m.kind = "OrderCancelled" /\ m.order = o
  /\ rows[o].status \in Before("confirmed", "cancelled")
  /\ Write(o, Cancelled(o)) /\ Tell(m)

(* Of an order that was stored: it may have been cancelled meanwhile.      *)
Prepare(s, o) ==
  /\ rows[s] = Absent /\ rows[o] # Absent
  /\ Write(s, Preparing(o)) /\ UNCHANGED log

Ship(s, t) ==
  /\ rows[s].status \in Before("preparing", "shipped")
  /\ Write(s, Shipped(rows[s].order, t)) /\ UNCHANGED log

Next ==
  /\ UNCHANGED guarded
  /\ \/ \E o \in Order, m \in Message : Place(o, m) \/ Cancel(o, m)
     \/ \E s \in Shipment :
          (\E o \in Order : Prepare(s, o)) \/ (\E t \in Tracking : Ship(s, t))

Spec == Init /\ [][Next]_vars

-----------------------------------------------------------------------------
(* The events table tells what the rows say, and tells it once: there is   *)
(* no message of an order that is not stored or of a cancellation that did *)
(* not happen, no cancelled order without its message, and no order is     *)
(* confirmed twice, nor cancelled twice where writers are kept apart       *)
(* (order.go: NewOrder, Cancel).                                           *)
Twice(m, n) ==
  /\ m # n /\ m.kind = n.kind /\ m.order = n.order
  /\ guarded \/ m.kind = "ConfirmReservation"

ToldOnce ==
  /\ log \subseteq Message
  /\ \A m \in log :
       /\ rows[m.order] # Absent
       /\ m.kind = "OrderCancelled" => rows[m.order].status = "cancelled"
  /\ \A o \in Order : rows[o].status = "cancelled" =>
       \E m \in log : m.kind = "OrderCancelled" /\ m.order = o
  /\ \A m, n \in log : ~ Twice(m, n)
=============================================================================
