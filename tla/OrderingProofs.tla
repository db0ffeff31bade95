--------------------------- MODULE OrderingProofs ---------------------------
(***************************************************************************)
(* The safety of Ordering, and that it implements OrderLife, for any       *)
(* orders, shipments, requests and amounts, over either store.             *)
(*                                                                         *)
(* The argument: a row is in one of five shapes and its version says which *)
(* one, so that a version that does not match means that another request   *)
(* has already done what this one is about to do.  The invariant says of   *)
(* each request what it knows of its row at each of its steps.             *)
(***************************************************************************)
EXTENDS Ordering, TLAPS

USE HalfAssumption, AmountAssumption, AttemptsAssumption, BackendsAssumption,
    KeyAssumption, CommandAssumption

Op(p) == Cmd[p].op
Creates(p) == Op(p) \in {"place", "prepare"}
Changes(p) == Op(p) \in {"cancel", "ship"}

(* The states of the rows.                                                 *)
OrderStates(o) == {Absent, Life!Confirmed(o), Life!Cancelled(o)}

ShipmentStates ==
  {Absent} \cup {Life!Preparing(o) : o \in Order}
    \cup {Life!Shipped(o, t) : o \in Order, t \in Tracking}

RowsInv ==
  /\ rows = [k \in Key |-> rows[k]]
  /\ \A o \in Order : rows[o] \in OrderStates(o)
  /\ \A s \in Shipment : rows[s] \in ShipmentStates

(* The steps of each command, and the key it has.                          *)
Steps(p) ==
  CASE Op(p) = "place" ->
         {"reserve", "save", "commit", "stage", "deliver", "read", "release"}
    [] Op(p) = "prepare" ->
         {"check", "save", "commit", "stage", "deliver", "read"}
    [] Op(p) \in {"cancel", "ship"} ->
         {"load", "save", "backoff", "commit", "stage", "deliver", "read"}

KeyInv(p) ==
  /\ pc[p] \in {"idle", "done"} \cup Steps(p)
  /\ pc[p] = "idle" => key[p] = None
  /\ pc[p] \notin {"idle", "done"} => key[p] # None
  /\ key[p] # None =>
       CASE Op(p) = "place" -> key[p] \in Order
         [] Op(p) = "prepare" -> key[p] \in Shipment
         [] Op(p) = "cancel" -> key[p] = Cmd[p].order
         [] Op(p) = "ship" -> key[p] = Cmd[p].shipment
  /\ pc[p] \in {"stage", "deliver"} => ~Postgres

(* A new aggregate has no row before its command commits.                  *)
NewInv(p) ==
  Creates(p) /\ pc[p] \in {"reserve", "check", "save", "commit"} =>
    /\ rows[key[p]] = Absent
    /\ Op(p) = "place" => copy[p] = NewOrder(key[p])
    /\ Op(p) = "prepare" =>
         /\ copy[p] = NewShipment(Cmd[p].order)
         /\ pc[p] # "check" => rows[Cmd[p].order] # Absent

(* What a change makes of a row that was read.                             *)
CancelledCopy(o) == [status |-> "cancelled", version |-> 1, total |-> Total[o]]

ShippedCopy(o, t) ==
  [status |-> "shipped", version |-> 1, order |-> o, tracking |-> t]

(* A change starts from the first version; where that is not the stored    *)
(* one any more, the row is in its last state.                             *)
ChangeInv(p) ==
  Changes(p) =>
    /\ pc[p] \in {"save", "backoff", "commit"} => rows[key[p]] # Absent
    /\ pc[p] \in {"save", "commit"} =>
         /\ Op(p) = "cancel" => copy[p] = CancelledCopy(key[p])
         /\ Op(p) = "ship" =>
              copy[p] = ShippedCopy(rows[key[p]].order, Cmd[p].tracking)
    /\ pc[p] = "backoff" \/ (pc[p] = "load" /\ tries[p] > 0) =>
         rows[key[p]].version = 2

TriesInv(p) ==
  /\ tries[p] \in {0, 1}
  /\ pc[p] \in {"idle", "reserve", "check", "save", "commit"} => tries[p] = 0

LockInv(p) ==
  Postgres /\ pc[p] = "commit" =>
    lock[key[p]] = p /\ Current(p) /\ ~Unreadable(copy[p])

EffectInv(p) ==
  /\ p \in effect => /\ pc[p] \in {"stage", "deliver", "read", "release", "done"}
                     /\ key[p] # None /\ rows[key[p]] # Absent
                     /\ Postgres => ~Unreadable(rows[key[p]])
                     /\ Op(p) = "cancel" => rows[key[p]].status = "cancelled"
  /\ pc[p] \in {"stage", "deliver", "read"} => p \in effect

AnswerInv(p) ==
  /\ answer[p] # "none" => pc[p] \in {"release", "done"}
  /\ answer[p] = "ok" => p \in effect /\ pc[p] = "done"
  /\ answer[p] \in Refusals /\ p \in effect
       => ~Postgres /\ Unreadable(rows[key[p]])

(* The stock of an order being placed, or placed, is held.                 *)
HeldInv(p) ==
  (/\ Op(p) = "place"
   /\ \/ pc[p] \in {"save", "commit", "stage", "deliver", "read"}
      \/ answer[p] = "ok")
  => rows[key[p]].status = "cancelled" \/ key[p] \in held

RequestInv(p) ==
  /\ KeyInv(p) /\ NewInv(p) /\ ChangeInv(p) /\ TriesInv(p) /\ LockInv(p)
  /\ EffectInv(p) /\ AnswerInv(p) /\ HeldInv(p)

(* A key that was drawn belongs to one request.                            *)
KeysUnique ==
  \A p, q \in Request :
    Creates(p) /\ Creates(q) /\ key[p] # None /\ key[p] = key[q] => p = q

LocksInv ==
  \A k \in Key : lock[k] # None =>
    Postgres /\ pc[lock[k]] = "commit" /\ key[lock[k]] = k

LogInv == \A m \in log : m.by \in effect

(* What NothingDropped is, of the requests that cancel.                    *)
DroppedInv ==
  \A o \in held :
    rows[o].status = "cancelled" =>
      \/ \E m \in queue : m.kind = "OrderCancelled" /\ m.order = o
      \/ \E p \in Request :
           Op(p) = "cancel" /\ pc[p] = "stage" /\ key[p] = o

(* The types of what the parts above do not speak of.                      *)
TypesInv ==
  /\ backend \in Backends
  /\ queue \subseteq log /\ log \subseteq Message
  /\ held \subseteq Order
  /\ lock \in [Key -> Request \cup {None}]
  /\ pc = [p \in Request |-> pc[p]]
  /\ key \in [Request -> Key \cup {None}]
  /\ copy \in [Request -> Row]
  /\ tries = [p \in Request |-> tries[p]]
  /\ answer \in [Request -> Refusals \cup {"none", "ok", "error"}]
  /\ effect \subseteq Request

IInv ==
  /\ TypesInv /\ RowsInv /\ KeysUnique /\ LocksInv /\ LogInv /\ DroppedInv
  /\ \A p \in Request : RequestInv(p)

-----------------------------------------------------------------------------
(* The operations on rows.                                                 *)
LEMMA Totals == \A o \in Order : Total[o] \in -Half .. Half - 1
<1> SUFFICES ASSUME NEW o \in Order PROVE Wrap(Amount[o]) \in -Half .. Half - 1
  BY DEF Total
<1>1. Amount[o] + Half \in Int /\ 2 * Half \in Nat \ {0}
  OBVIOUS
<1>2. (Amount[o] + Half) % (2 * Half) \in 0 .. (2 * Half) - 1
  BY <1>1
<1> QED
  BY <1>2 DEF Wrap

LEMMA OrderRows ==
  ASSUME NEW o \in Order
  PROVE  /\ OrderStates(o) \subseteq Row
         /\ Successor(NewOrder(o)) = Life!Confirmed(o)
         /\ NewOrder(o) \in Row
         /\ CancelledCopy(o) \in Row
         /\ Successor(CancelledCopy(o))
              = Life!Cancelled(o)
<1>1. Total[o] \in -Half .. Half - 1
  BY Totals
<1>2. Successor(NewOrder(o)) = Life!Confirmed(o)
  BY DEF Successor, NewOrder, Life!Confirmed
<1>3. Successor(CancelledCopy(o)) = Life!Cancelled(o)
  BY DEF Successor, CancelledCopy, Life!Cancelled
<1>4. NewOrder(o) \in Row
  BY <1>1 DEF Row, NewOrder
<1>5. CancelledCopy(o) \in Row
  BY <1>1 DEF Row, CancelledCopy
<1>6. Life!Cancelled(o) \in Row
  BY <1>1 DEF Row, Life!Cancelled
<1>7. Life!Confirmed(o) \in Row
  BY <1>1 DEF Row, Life!Confirmed
<1>8. OrderStates(o) \subseteq Row
  BY <1>6, <1>7 DEF Row, OrderStates
<1> QED
  BY <1>2, <1>3, <1>4, <1>5, <1>8

LEMMA ShipmentRows ==
  ASSUME NEW o \in Order, NEW t \in Tracking
  PROVE  /\ ShipmentStates \subseteq Row
         /\ Successor(NewShipment(o)) = Life!Preparing(o)
         /\ NewShipment(o) \in Row
         /\ ShippedCopy(o, t) \in Row
         /\ Successor(ShippedCopy(o, t))
              = Life!Shipped(o, t)
<1>1. Successor(NewShipment(o)) = Life!Preparing(o)
  BY DEF Successor, NewShipment, Life!Preparing
<1>2. Successor(ShippedCopy(o, t)) = Life!Shipped(o, t)
  BY DEF Successor, ShippedCopy, Life!Shipped
<1>3. NewShipment(o) \in Row
  BY DEF Row, NewShipment
<1>4. ShippedCopy(o, t) \in Row
  BY DEF Row, ShippedCopy
<1>5. \A u \in Order : Life!Preparing(u) \in Row
  BY DEF Row, Life!Preparing
<1>6. \A u \in Order, v \in Tracking : Life!Shipped(u, v) \in Row
  BY DEF Row, Life!Shipped
<1>7. ShipmentStates \subseteq Row
  BY <1>5, <1>6 DEF Row, ShipmentStates
<1> QED
  BY <1>1, <1>2, <1>3, <1>4, <1>7

(* What the fields of a row say.                                           *)
LEMMA OrderFields ==
  ASSUME NEW o \in Order, NEW row \in OrderStates(o)
  PROVE  /\ row = Absent <=> row.version = 0
         /\ row = Life!Confirmed(o) <=> row.version = 1
         /\ row = Life!Cancelled(o) <=> row.version = 2
         /\ row = Absent <=> row.status = "none"
         /\ row = Life!Confirmed(o) <=> row.status = "confirmed"
         /\ row = Life!Cancelled(o) <=> row.status = "cancelled"
         /\ Unreadable(row) <=> row # Absent /\ Total[o] < 0
BY DEF OrderStates, Absent, Life!Confirmed, Life!Cancelled, Unreadable

LEMMA ShipmentFields ==
  ASSUME NEW row \in ShipmentStates
  PROVE  /\ row = Absent <=> row.version = 0
         /\ row = Absent <=> row.status = "none"
         /\ row.version \in {0, 1, 2}
         /\ row.version = 1 <=> row.status = "preparing"
         /\ row.version = 2 <=> row.status = "shipped"
         /\ row # Absent => row.order \in Order
         /\ row.version = 1 => row = Life!Preparing(row.order)
         /\ row.version = 2 => \E t \in Tracking : row = Life!Shipped(row.order, t)
         /\ ~Unreadable(row)
BY DEF ShipmentStates, Absent, Life!Preparing, Life!Shipped, Unreadable

-----------------------------------------------------------------------------
LEMMA InitInv == Init => IInv
<1> SUFFICES ASSUME Init PROVE IInv
  OBVIOUS
<1>1. PICK w \in Workload :
        /\ rows = [k \in Key |-> IF k \in DOMAIN w.rows THEN w.rows[k] ELSE Absent]
        /\ pc = [p \in Request |-> IF p \in w.requests THEN "idle" ELSE "done"]
  BY DEF Init
<1>2. \A p \in Request : Op(p) \in {"place", "cancel", "prepare", "ship"}
  BY DEF Op, Command
<1>3. RowsInv
  <2>1. ASSUME NEW o \in Order PROVE rows[o] \in OrderStates(o)
    BY <1>1, OrderRows, WorkloadAssumption DEF Key, OrderStates
  <2>2. ASSUME NEW s \in Shipment PROVE rows[s] \in ShipmentStates
    <3>1. CASE s \in DOMAIN w.rows
      <4>1. PICK o \in Order : w.rows[s] = Successor(NewShipment(o))
        BY <3>1, WorkloadAssumption
      <4>2. w.rows[s] = Life!Preparing(o)
        BY <4>1 DEF Successor, NewShipment, Life!Preparing
      <4> QED
        BY <1>1, <3>1, <4>2 DEF Key, ShipmentStates
    <3>2. CASE s \notin DOMAIN w.rows
      BY <1>1, <3>2 DEF Key, ShipmentStates
    <3> QED
      BY <3>1, <3>2
  <2>3. rows = [k \in Key |-> rows[k]]
    BY <1>1
  <2> QED
    BY <2>1, <2>2, <2>3 DEF RowsInv
<1>4. Absent \in Row
  BY DEF Row
<1>5. TypesInv
  BY <1>1, <1>4 DEF Init, TypesInv
<1>6. KeysUnique /\ LocksInv /\ LogInv /\ DroppedInv
  <2>1. \A o \in held : rows[o].status # "cancelled"
    BY DEF Init
  <2> QED
    BY <2>1 DEF Init, KeysUnique, LocksInv, LogInv, DroppedInv
<1>7. ASSUME NEW p \in Request PROVE RequestInv(p)
  <2>1. /\ pc[p] \in {"idle", "done"} /\ key[p] = None /\ tries[p] = 0
        /\ answer[p] = "none" /\ p \notin effect
    BY <1>1 DEF Init
  <2>2. KeyInv(p)
    BY <2>1 DEF KeyInv
  <2>3. NewInv(p) /\ ChangeInv(p) /\ TriesInv(p) /\ LockInv(p)
    BY <2>1 DEF NewInv, ChangeInv, TriesInv, LockInv
  <2>4. EffectInv(p) /\ AnswerInv(p) /\ HeldInv(p)
    BY <2>1 DEF EffectInv, AnswerInv, HeldInv, Refusals
  <2> QED
    BY <2>2, <2>3, <2>4 DEF RequestInv
<1> QED
  BY <1>3, <1>5, <1>6, <1>7 DEF IInv

-----------------------------------------------------------------------------
(* What a request knows stays true while nothing it looks at changes.      *)
LEMMA Elsewhere ==
  ASSUME NEW q \in Request, RequestInv(q),
         UNCHANGED <<backend, rows, effect>>,
         pc'[q] = pc[q], key'[q] = key[q], copy'[q] = copy[q],
         tries'[q] = tries[q], answer'[q] = answer[q],
         key[q] # None /\ lock[key[q]] = q => lock'[key[q]] = q,
         Op(q) = "place" /\ key[q] \in held =>
           key[q] \in held' \/ rows[key[q]].status = "cancelled"
  PROVE  RequestInv(q)'
<1>1. KeyInv(q)'
  BY DEF RequestInv, KeyInv, Postgres, Op, Steps
<1>2. NewInv(q)'
  BY DEF RequestInv, NewInv, Creates, Op
<1>3. ChangeInv(q)'
  BY DEF RequestInv, ChangeInv, Changes, Op
<1>4. TriesInv(q)'
  BY DEF RequestInv, TriesInv
<1>5. LockInv(q)'
  BY DEF RequestInv, KeyInv, LockInv, Postgres, Current
<1>6. EffectInv(q)'
  BY DEF RequestInv, EffectInv, Postgres, Op
<1>7. AnswerInv(q)'
  BY DEF RequestInv, AnswerInv, Postgres
<1>8. HeldInv(q)'
  BY DEF RequestInv, HeldInv, Op
<1> QED
  BY <1>1, <1>2, <1>3, <1>4, <1>5, <1>6, <1>7, <1>8 DEF RequestInv

(* The variables that say where a request is differ for p only.            *)
OnlyOf(p) ==
  /\ pc' = [q \in Request |-> IF q = p THEN pc'[p] ELSE pc[q]]
  /\ copy' = [q \in Request |-> IF q = p THEN copy'[p] ELSE copy[q]]
  /\ tries' = [q \in Request |-> IF q = p THEN tries'[p] ELSE tries[q]]
  /\ answer' = [q \in Request |-> IF q = p THEN answer'[p] ELSE answer[q]]
  /\ copy'[p] \in Row
  /\ answer'[p] \in Refusals \cup {"none", "ok", "error"}

(* The locks of other requests are left alone, and so are their keys.      *)
LocksStep(p) ==
  /\ lock' \in [Key -> Request \cup {None}]
  /\ \A k \in Key :
       /\ lock[k] \notin {p, None} => lock'[k] = lock[k]
       /\ lock'[k] = p => Postgres /\ pc'[p] = "commit" /\ key[p] = k
       /\ lock'[k] \in {lock[k], p, None}

(* A step that writes no row, message or key.                              *)
LEMMA QuietStep ==
  ASSUME IInv, NEW p \in Request,
         UNCHANGED <<backend, rows, queue, log, held, effect, key>>,
         OnlyOf(p), LocksStep(p), pc[p] # "stage", RequestInv(p)'
  PROVE  IInv'
<1>1. TypesInv'
  BY DEF IInv, TypesInv, OnlyOf, LocksStep
<1>2. RowsInv' /\ KeysUnique' /\ LogInv'
  BY DEF IInv, RowsInv, KeysUnique, LogInv, OrderStates, ShipmentStates, Creates, Op
<1>3. LocksInv'
  <2> SUFFICES ASSUME NEW k \in Key, lock'[k] # None
               PROVE  /\ Postgres' /\ pc'[lock'[k]] = "commit"
                      /\ key'[lock'[k]] = k
    BY DEF LocksInv
  <2>1. CASE lock'[k] = p
    BY <2>1 DEF LocksStep, Postgres
  <2>2. CASE lock'[k] # p
    <3>1. lock'[k] = lock[k] /\ lock[k] \in Request
      BY <2>2 DEF LocksStep, IInv, TypesInv
    <3>2. Postgres /\ pc[lock[k]] = "commit" /\ key[lock[k]] = k
      BY <3>1 DEF IInv, LocksInv
    <3> QED
      BY <2>2, <3>1, <3>2 DEF OnlyOf, Postgres
  <2> QED
    BY <2>1, <2>2
<1>4. DroppedInv'
  BY DEF IInv, DroppedInv, OnlyOf, Op
<1>5. ASSUME NEW q \in Request, q # p PROVE RequestInv(q)'
  <2>1. RequestInv(q)
    BY DEF IInv
  <2>2. key[q] # None /\ lock[key[q]] = q => lock'[key[q]] = q
    BY <1>5 DEF LocksStep, IInv, TypesInv
  <2> QED
    BY <1>5, <2>1, <2>2, Elsewhere DEF OnlyOf
<1> QED
  BY <1>1, <1>2, <1>3, <1>4, <1>5 DEF IInv

-----------------------------------------------------------------------------
(* The steps, one lemma each.  What is common to them first.               *)
LEMMA Commands ==
  ASSUME NEW p \in Request
  PROVE  /\ Op(p) \in {"place", "cancel", "prepare", "ship"}
         /\ Op(p) \in {"cancel", "prepare"} => Cmd[p].order \in Order
         /\ Op(p) = "ship" => Cmd[p].shipment \in Shipment /\ Cmd[p].tracking \in Tracking
BY DEF Op, Command

(* What the invariant says of the row of a request.                        *)
LEMMA RowOf ==
  ASSUME IInv, NEW p \in Request, key[p] # None
  PROVE  /\ key[p] \in Key
         /\ Op(p) \in {"place", "cancel"} =>
              key[p] \in Order /\ rows[key[p]] \in OrderStates(key[p])
         /\ Op(p) \in {"prepare", "ship"} =>
              key[p] \in Shipment /\ rows[key[p]] \in ShipmentStates
<1>1. KeyInv(p)
  BY DEF IInv, RequestInv
<1> QED
  BY <1>1, Commands DEF IInv, RowsInv, KeyInv, Key

(* Only a request that is about to commit has a lock.                      *)
LEMMA LockKept ==
  ASSUME IInv, NEW p \in Request, UNCHANGED lock, pc[p] # "commit"
  PROVE  LocksStep(p)
<1>1. ASSUME NEW k \in Key PROVE lock[k] # p
  BY <1>1 DEF IInv, LocksInv
<1> QED
  BY <1>1 DEF LocksStep, IInv, TypesInv

LEMMA CheckInv ==
  ASSUME IInv, NEW p \in Request, Check(p)
  PROVE  IInv'
<1> DEFINE r == Refusal(p, rows[Cmd[p].order])
<1>1. /\ pc[p] = "check"
      /\ \/ r = "none" /\ pc' = [pc EXCEPT ![p] = "save"] /\ answer' = answer
         \/ /\ r # "none" /\ pc' = [pc EXCEPT ![p] = "done"]
            /\ answer' = [answer EXCEPT ![p] = r]
      /\ UNCHANGED <<backend, storeVars, lock, key, copy, tries>>
  BY DEF Check, Move, Finish
<1>2. r \in Refusals \cup {"none"} /\ (r = "none" => rows[Cmd[p].order] # Absent)
  BY DEF Refusal, Refusals
<1>3. RequestInv(p) /\ pc[p] = "check" /\ Op(p) = "prepare" /\ p \notin effect
  BY <1>1, Commands DEF IInv, RequestInv, KeyInv, Steps, EffectInv
<1> HIDE DEF r
<1>4. OnlyOf(p) /\ pc'[p] \in {"save", "done"}
  BY <1>1, <1>2 DEF OnlyOf, IInv, TypesInv
<1>5. LocksStep(p)
  BY <1>1, LockKept
<1>6. RequestInv(p)'
  <2>1. KeyInv(p)'
    BY <1>1, <1>3, <1>4 DEF RequestInv, KeyInv, Steps, Op, Postgres
  <2>2. NewInv(p)'
    BY <1>1, <1>2, <1>3, <1>4
       DEF RequestInv, NewInv, Creates, Op, storeVars, IInv, TypesInv
  <2>4. ChangeInv(p)' /\ TriesInv(p)' /\ LockInv(p)'
    BY <1>1, <1>3, <1>4
       DEF RequestInv, ChangeInv, TriesInv, LockInv, Changes, Op
  <2>3. EffectInv(p)' /\ AnswerInv(p)' /\ HeldInv(p)'
    BY <1>1, <1>2, <1>3, <1>4
       DEF RequestInv, EffectInv, AnswerInv, HeldInv, Op, Refusals, storeVars,
           IInv, TypesInv
  <2> QED
    BY <2>1, <2>2, <2>3, <2>4 DEF RequestInv
<1> QED
  BY <1>1, <1>4, <1>5, <1>6, QuietStep DEF storeVars

(* What a change that is not refused finds and makes.                      *)
LEMMA ChangeOf ==
  ASSUME IInv, NEW p \in Request, Changes(p), key[p] # None,
         Refusal(p, rows[key[p]]) = "none"
  PROVE  /\ rows[key[p]] # Absent /\ rows[key[p]].version = 1
         /\ Changed(p, rows[key[p]]) \in Row
         /\ Op(p) = "cancel" =>
              Changed(p, rows[key[p]]) = CancelledCopy(key[p])
         /\ Op(p) = "ship" =>
              Changed(p, rows[key[p]])
                = ShippedCopy(rows[key[p]].order, Cmd[p].tracking)
<1> DEFINE k == key[p]
           row == rows[key[p]]
<1>1. row # Absent
  BY DEF Refusal
<1>2. CASE Op(p) = "cancel"
  <2>1. k \in Order /\ row \in OrderStates(k) /\ row.status = "confirmed"
    BY <1>1, <1>2, RowOf DEF Refusal, Op
  <2>2. row = Life!Confirmed(k) /\ row.version = 1
    BY <2>1, OrderFields
  <2>3. Changed(p, row) = CancelledCopy(k)
    BY <1>2, <2>2 DEF Changed, Op, CancelledCopy, Life!Confirmed
  <2> QED
    BY <1>1, <1>2, <2>1, <2>2, <2>3, OrderRows
<1>3. CASE Op(p) = "ship"
  <2>1. row \in ShipmentStates /\ row.status = "preparing"
    BY <1>1, <1>3, RowOf DEF Refusal, Op
  <2>2. row = Life!Preparing(row.order) /\ row.version = 1 /\ row.order \in Order
    BY <2>1, ShipmentFields
  <2>3. Changed(p, row) = ShippedCopy(row.order, Cmd[p].tracking)
    BY <1>3, <2>2 DEF Changed, Op, ShippedCopy, Life!Preparing
  <2> QED
    BY <1>1, <1>3, <2>2, <2>3, ShipmentRows, Commands
<1> QED
  BY <1>2, <1>3 DEF Changes

LEMMA LoadInv ==
  ASSUME IInv, NEW p \in Request, Load(p)
  PROVE  IInv'
<1> DEFINE row == rows[key[p]]
           r == Refusal(p, row)
<1>1. /\ pc[p] = "load"
      /\ \/ /\ r = "none" /\ pc' = [pc EXCEPT ![p] = "save"] /\ answer' = answer
            /\ copy' = [copy EXCEPT ![p] = Changed(p, row)]
         \/ /\ r # "none" /\ pc' = [pc EXCEPT ![p] = "done"]
            /\ answer' = [answer EXCEPT ![p] = r] /\ copy' = copy
      /\ UNCHANGED <<backend, storeVars, lock, key, tries>>
  BY DEF Load, Move, Finish
<1>2. r \in Refusals \cup {"none"}
  BY DEF Refusal, Refusals
<1>3. RequestInv(p) /\ Changes(p) /\ key[p] # None /\ p \notin effect
  BY <1>1, Commands
     DEF IInv, RequestInv, KeyInv, Steps, EffectInv, Changes
<1>4. r = "none" =>
        /\ row # Absent /\ row.version = 1 /\ Changed(p, row) \in Row
        /\ Op(p) = "cancel" => Changed(p, row) = CancelledCopy(key[p])
        /\ Op(p) = "ship" =>
             Changed(p, row) = ShippedCopy(row.order, Cmd[p].tracking)
  BY <1>3, ChangeOf
<1> HIDE DEF r
<1>5. OnlyOf(p) /\ pc'[p] \in {"save", "done"}
  BY <1>1, <1>2, <1>4 DEF OnlyOf, IInv, TypesInv
<1>6. LocksStep(p)
  BY <1>1, LockKept
<1>7. RequestInv(p)'
  <2>1. KeyInv(p)'
    BY <1>1, <1>3, <1>5 DEF RequestInv, KeyInv, Steps, Op, Postgres, Changes
  <2>2. NewInv(p)' /\ LockInv(p)'
    BY <1>3, <1>5 DEF NewInv, Creates, Changes, Op, LockInv
  <2>3. ChangeInv(p)'
    BY <1>1, <1>3, <1>4, <1>5
       DEF ChangeInv, Changes, Op, storeVars, IInv, TypesInv
  <2>4. TriesInv(p)'
    BY <1>1, <1>3, <1>4, <1>5
       DEF RequestInv, ChangeInv, TriesInv, Changes, Op, IInv, TypesInv
  <2>5. EffectInv(p)' /\ AnswerInv(p)' /\ HeldInv(p)'
    BY <1>1, <1>2, <1>3, <1>5
       DEF RequestInv, EffectInv, AnswerInv, HeldInv, Op, Refusals, storeVars,
           IInv, TypesInv, Changes
  <2> QED
    BY <2>1, <2>2, <2>3, <2>4, <2>5 DEF RequestInv
<1> QED
  BY <1>1, <1>5, <1>6, <1>7, QuietStep DEF storeVars

LEMMA SaveInv ==
  ASSUME IInv, NEW p \in Request, Save(p)
  PROVE  IInv'
<1>1. /\ pc[p] = "save" /\ pc' = [pc EXCEPT ![p] = "commit"]
      /\ Current(p) /\ (Postgres => ~Unreadable(copy[p]))
      /\ Postgres => lock[key[p]] = None
      /\ lock' = IF Postgres THEN [lock EXCEPT ![key[p]] = p] ELSE lock
      /\ UNCHANGED <<backend, storeVars, key, copy, tries, answer>>
  BY DEF Save, Move, CanWrite
<1>2. RequestInv(p) /\ key[p] # None /\ p \notin effect
  BY <1>1 DEF IInv, RequestInv, KeyInv, EffectInv
<1>6. key[p] \in Key
  BY <1>2, RowOf
<1>3. OnlyOf(p) /\ pc'[p] = "commit"
  BY <1>1 DEF OnlyOf, IInv, TypesInv
<1>4. LocksStep(p)
  <2>1. CASE Postgres
    BY <1>1, <1>2, <1>3, <1>6, <2>1 DEF LocksStep, IInv, TypesInv, LocksInv
  <2>2. CASE ~Postgres
    BY <1>1, <2>2, LockKept
  <2> QED
    BY <2>1, <2>2
<1>5. RequestInv(p)'
  <2>1. KeyInv(p)'
    <3>1. "commit" \in Steps(p)
      BY Commands DEF Steps
    <3> QED
      BY <1>1, <1>2, <1>3, <3>1 DEF RequestInv, KeyInv, Postgres, Op
  <2>2. NewInv(p)'
    BY <1>1, <1>2, <1>3 DEF RequestInv, NewInv, Creates, Op, storeVars
  <2>3. ChangeInv(p)' /\ TriesInv(p)'
    BY <1>1, <1>2, <1>3
       DEF RequestInv, ChangeInv, TriesInv, Changes, Op, storeVars
  <2>4. LockInv(p)'
    BY <1>1, <1>2, <1>3
       DEF LockInv, Postgres, Current, storeVars, IInv, TypesInv
  <2>5. EffectInv(p)' /\ AnswerInv(p)' /\ HeldInv(p)'
    BY <1>1, <1>2, <1>3
       DEF RequestInv, EffectInv, AnswerInv, HeldInv, Op, storeVars, Refusals
  <2> QED
    BY <2>1, <2>2, <2>3, <2>4, <2>5 DEF RequestInv
<1> QED
  BY <1>1, <1>3, <1>4, <1>5, QuietStep DEF storeVars

(* An error ends a request that has had no effect.                         *)
LEMMA AbortInv ==
  ASSUME IInv, NEW p \in Request, NEW a \in Refusals \cup {"error"}, Abort(p, a),
         pc[p] \notin {"idle", "stage", "done"}, p \notin effect, LocksStep(p),
         UNCHANGED <<backend, storeVars, key, copy>>,
         tries' \in {tries, [tries EXCEPT ![p] = 1]}
  PROVE  IInv'
<1>1. /\ pc' = [pc EXCEPT ![p] = IF Op(p) = "place" THEN "release" ELSE "done"]
      /\ answer' = [answer EXCEPT ![p] = a]
  BY DEF Abort, Op
<1>2. OnlyOf(p) /\ pc'[p] \in {"release", "done"} /\ tries'[p] \in {0, 1}
  BY <1>1 DEF OnlyOf, IInv, TypesInv, RequestInv, TriesInv
<1>3. RequestInv(p) /\ key[p] # None
  BY DEF IInv, RequestInv, KeyInv
<1>4. RequestInv(p)'
  <2>1. KeyInv(p)'
    BY <1>1, <1>3, Commands DEF RequestInv, KeyInv, Steps, Op, IInv, TypesInv
  <2>2. NewInv(p)' /\ ChangeInv(p)' /\ TriesInv(p)' /\ LockInv(p)'
    BY <1>2 DEF NewInv, ChangeInv, TriesInv, LockInv
  <2>3. EffectInv(p)' /\ AnswerInv(p)' /\ HeldInv(p)'
    BY <1>1, <1>2, <1>3
       DEF EffectInv, AnswerInv, HeldInv, Refusals, storeVars, IInv, TypesInv
  <2> QED
    BY <2>1, <2>2, <2>3 DEF RequestInv
<1> QED
  BY <1>2, <1>4, QuietStep DEF storeVars

LEMMA RejectInv ==
  ASSUME IInv, NEW p \in Request, Reject(p)
  PROVE  IInv'
<1>1. pc[p] = "save" /\ p \notin effect
  BY DEF Reject, IInv, RequestInv, EffectInv
<1>2. LocksStep(p)
  BY <1>1, LockKept DEF Reject
<1> QED
  BY <1>1, <1>2, AbortInv DEF Reject

(* A version that does not match is the last one.                          *)
LEMMA ConflictOf ==
  ASSUME IInv, NEW p \in Request, pc[p] = "save", ~Current(p)
  PROVE  Changes(p) /\ rows[key[p]].version = 2 /\ tries[p] = 0
<1>1. RequestInv(p) /\ key[p] # None
  BY DEF IInv, RequestInv, KeyInv
<1>2. ~Creates(p)
  BY <1>1
     DEF RequestInv, NewInv, Creates, Current, Absent, NewOrder, NewShipment
<1>3. Changes(p)
  BY <1>2, Commands DEF Creates, Changes
<1>4. copy[p].version = 1 /\ rows[key[p]] # Absent
  BY <1>1, <1>3
     DEF RequestInv, ChangeInv, Changes, CancelledCopy, ShippedCopy
<1>5. rows[key[p]].version \in {1, 2}
  <2>1. CASE Op(p) = "cancel"
    BY <1>1, <1>4, <2>1, RowOf, OrderFields DEF OrderStates
  <2>2. CASE Op(p) = "ship"
    BY <1>1, <1>4, <2>2, RowOf, ShipmentFields
  <2> QED
    BY <1>3, <2>1, <2>2 DEF Changes
<1> QED
  BY <1>1, <1>3, <1>4, <1>5 DEF Current, RequestInv, TriesInv

LEMMA ConflictInv ==
  ASSUME IInv, NEW p \in Request, Conflict(p)
  PROVE  IInv'
<1>1. pc[p] = "save" /\ ~Current(p)
  BY DEF Conflict, CanWrite
<1>2. /\ Changes(p) /\ rows[key[p]].version = 2 /\ tries[p] = 0
      /\ RequestInv(p) /\ p \notin effect /\ key[p] # None
      /\ rows[key[p]] # Absent
  BY <1>1, ConflictOf DEF IInv, RequestInv, KeyInv, EffectInv, ChangeInv
<1>3. tries' = [tries EXCEPT ![p] = 1] /\ UNCHANGED <<backend, storeVars, lock, key, copy>>
  BY <1>2 DEF Conflict
<1>4. LocksStep(p)
  BY <1>1, <1>3, LockKept
<1>5. CASE Abort(p, "conflict")
  BY <1>1, <1>2, <1>3, <1>4, <1>5, AbortInv DEF Refusals
<1>6. CASE Move(p, "save", "backoff") /\ UNCHANGED answer
  <2>1. pc' = [pc EXCEPT ![p] = "backoff"] /\ answer' = answer
    BY <1>6 DEF Move
  <2>2. OnlyOf(p) /\ pc'[p] = "backoff" /\ tries'[p] = 1
    BY <1>3, <2>1 DEF OnlyOf, IInv, TypesInv
  <2>3. KeyInv(p)'
    BY <1>1, <1>2, <1>3, <2>2 DEF RequestInv, KeyInv, Steps, Op, Changes
  <2>4. NewInv(p)' /\ LockInv(p)' /\ TriesInv(p)'
    BY <2>2 DEF NewInv, LockInv, TriesInv
  <2>5. ChangeInv(p)'
    BY <1>2, <1>3, <2>2 DEF ChangeInv, Changes, Op, storeVars
  <2>6. EffectInv(p)' /\ AnswerInv(p)' /\ HeldInv(p)'
    BY <1>1, <1>2, <1>3, <2>1, <2>2
       DEF RequestInv, EffectInv, AnswerInv, HeldInv, Op, Changes, Refusals,
           storeVars
  <2>7. RequestInv(p)'
    BY <2>3, <2>4, <2>5, <2>6 DEF RequestInv
  <2> QED
    BY <1>1, <1>3, <1>4, <2>2, <2>7, QuietStep DEF storeVars
<1> QED
  BY <1>5, <1>6 DEF Conflict

LEMMA RetryInv ==
  ASSUME IInv, NEW p \in Request, Retry(p)
  PROVE  IInv'
<1>1. RequestInv(p) /\ pc[p] = "backoff" /\ key[p] # None /\ p \notin effect
  BY DEF Retry, Move, IInv, RequestInv, KeyInv, EffectInv
<1>2. Changes(p)
  BY <1>1, Commands DEF RequestInv, KeyInv, Steps, Changes
<1>3. /\ pc' = [pc EXCEPT ![p] = "load"]
      /\ UNCHANGED <<backend, storeVars, lock, key, copy, tries, answer>>
  BY <1>2 DEF Retry, Move, Changes, Op
<1>4. OnlyOf(p) /\ pc'[p] = "load"
  BY <1>3 DEF OnlyOf, IInv, TypesInv
<1>5. LocksStep(p)
  BY <1>1, <1>3, LockKept
<1>6. RequestInv(p)'
  <2>1. "load" \in Steps(p)
    BY <1>2 DEF Steps, Changes
  <2>2. KeyInv(p)'
    BY <1>1, <1>3, <1>4, <2>1 DEF RequestInv, KeyInv, Postgres, Op
  <2>3. NewInv(p)' /\ LockInv(p)'
    BY <1>4 DEF NewInv, LockInv
  <2>4. ChangeInv(p)' /\ TriesInv(p)'
    BY <1>1, <1>3, <1>4
       DEF RequestInv, ChangeInv, TriesInv, Changes, Op, storeVars
  <2>5. EffectInv(p)' /\ AnswerInv(p)' /\ HeldInv(p)'
    BY <1>1, <1>3, <1>4
       DEF RequestInv, EffectInv, AnswerInv, HeldInv, Op, storeVars, Refusals
  <2> QED
    BY <2>2, <2>3, <2>4, <2>5 DEF RequestInv
<1> QED
  BY <1>1, <1>3, <1>4, <1>5, <1>6, QuietStep DEF storeVars

(* The end of a request whose command took effect.                         *)
LEMMA FinishInv ==
  ASSUME IInv, NEW p \in Request, pc[p] = "read",
         NEW a \in {"ok", "invalid", "error"}, Finish(p, a),
         a = "invalid" => Unreadable(rows[key[p]]), LocksStep(p),
         UNCHANGED <<backend, storeVars, key, copy, tries>>
  PROVE  IInv'
<1>1. RequestInv(p) /\ key[p] # None /\ p \in effect
  BY DEF IInv, RequestInv, KeyInv, EffectInv
<1>2. OnlyOf(p) /\ pc'[p] = "done" /\ answer'[p] = a
  BY DEF Finish, OnlyOf, IInv, TypesInv, Refusals
<1>3. RequestInv(p)'
  <2>1. KeyInv(p)'
    BY <1>1, <1>2 DEF RequestInv, KeyInv, Postgres, Op
  <2>2. NewInv(p)' /\ ChangeInv(p)' /\ LockInv(p)'
    BY <1>2 DEF NewInv, ChangeInv, LockInv
  <2>3. TriesInv(p)'
    BY <1>1, <1>2 DEF RequestInv, TriesInv
  <2>4. EffectInv(p)' /\ HeldInv(p)'
    BY <1>1, <1>2 DEF RequestInv, EffectInv, HeldInv, Op, storeVars, Postgres
  <2>5. AnswerInv(p)'
    BY <1>1, <1>2 DEF RequestInv, EffectInv, AnswerInv, storeVars, Postgres, Refusals
  <2> QED
    BY <2>1, <2>2, <2>3, <2>4, <2>5 DEF RequestInv
<1> QED
  BY <1>2, <1>3, QuietStep DEF storeVars

LEMMA ReadInv ==
  ASSUME IInv, NEW p \in Request, Read(p)
  PROVE  IInv'
<1> DEFINE a == IF Unreadable(rows[key[p]]) THEN "invalid" ELSE "ok"
<1>1. /\ pc[p] = "read" /\ Finish(p, a) /\ a \in {"ok", "invalid", "error"}
      /\ a = "invalid" => Unreadable(rows[key[p]])
      /\ UNCHANGED <<backend, storeVars, lock, key, copy, tries>>
  BY DEF Read
<1>2. LocksStep(p)
  BY <1>1, LockKept
<1> HIDE DEF a
<1> QED
  BY <1>1, <1>2, FinishInv

LEMMA FailInv ==
  ASSUME IInv, NEW p \in Request, Fail(p)
  PROVE  IInv'
<1>1. /\ pc[p] \in {"backoff", "check", "load", "save", "commit", "read"}
      /\ lock' = [k \in Key |-> IF lock[k] = p THEN None ELSE lock[k]]
      /\ UNCHANGED <<backend, storeVars, key, copy, tries>>
  BY DEF Fail, Unlock
<1>2. LocksStep(p)
  BY <1>1 DEF LocksStep, IInv, TypesInv
<1>3. CASE pc[p] = "read"
  BY <1>1, <1>2, <1>3, FinishInv DEF Fail
<1>4. CASE pc[p] # "read"
  <2>1. p \notin effect
    BY <1>1, <1>4 DEF IInv, RequestInv, EffectInv
  <2> QED
    BY <1>1, <1>2, <1>4, <2>1, AbortInv DEF Fail
<1> QED
  BY <1>3, <1>4

-----------------------------------------------------------------------------
(* A request begins: the key it draws is nobody else's.                    *)
LEMMA UseInv ==
  ASSUME IInv, NEW p \in Request, NEW k \in Key, NEW row \in Row,
         NEW to \in {"reserve", "load", "check"}, Use(p, k, row, to),
         to \in Steps(p),
         CASE Op(p) = "place" -> k \in Order /\ row = NewOrder(k)
           [] Op(p) = "prepare" ->
                k \in Shipment /\ row = NewShipment(Cmd[p].order)
           [] Op(p) = "cancel" -> k = Cmd[p].order
           [] Op(p) = "ship" -> k = Cmd[p].shipment,
         Creates(p) => Fresh(k)
  PROVE  IInv'
<1>1. /\ pc[p] = "idle" /\ pc' = [pc EXCEPT ![p] = to]
      /\ key' = [key EXCEPT ![p] = k] /\ copy' = [copy EXCEPT ![p] = row]
      /\ UNCHANGED <<backend, storeVars, lock, tries, answer>>
  BY DEF Use, Move
<1>2. /\ RequestInv(p) /\ key[p] = None /\ p \notin effect
      /\ tries[p] = 0 /\ answer[p] = "none"
  BY <1>1 DEF IInv, RequestInv, KeyInv, EffectInv, TriesInv, AnswerInv
<1>3. /\ pc'[p] = to /\ key'[p] = k /\ copy'[p] = row
      /\ \A q \in Request \ {p} :
           pc'[q] = pc[q] /\ key'[q] = key[q] /\ copy'[q] = copy[q]
  BY <1>1 DEF IInv, TypesInv
<1>4. TypesInv'
  BY <1>1 DEF IInv, TypesInv, storeVars
<1>10. RowsInv' /\ LogInv'
  <2>1. rows' = rows /\ log' = log /\ effect' = effect
    BY <1>1 DEF storeVars
  <2> QED
    BY <2>1 DEF IInv, RowsInv, LogInv
<1>5. KeysUnique'
  BY <1>1, <1>3 DEF IInv, KeysUnique, Fresh, Creates, Op
<1>6. LocksInv'
  <2>1. ASSUME NEW l \in Key, lock[l] # None
        PROVE  /\ lock[l] \in Request /\ Postgres
               /\ pc[lock[l]] = "commit" /\ key[lock[l]] = l
    BY <2>1 DEF IInv, TypesInv, LocksInv
  <2>2. \A l \in Key : lock[l] # p
    BY <1>1, <2>1 DEF IInv, LocksInv
  <2>3. Postgres' = Postgres /\ lock' = lock
    BY <1>1 DEF Postgres
  <2> QED
    BY <1>3, <2>1, <2>2, <2>3 DEF LocksInv
<1>7. DroppedInv'
  BY <1>1, <1>3 DEF IInv, DroppedInv, Op, storeVars
<1>8. ASSUME NEW q \in Request, q # p PROVE RequestInv(q)'
  BY <1>1, <1>3, <1>8, Elsewhere DEF IInv, storeVars
<1>9. RequestInv(p)'
  <2>1. KeyInv(p)'
    <3>1. Steps(p)' = Steps(p)
      BY DEF Steps, Op
    <3>2. pc'[p] \in Steps(p)' /\ pc'[p] \notin {"idle", "stage", "deliver"}
      BY <1>3, <3>1
    <3>3. CASE Op(p) = "place"
      BY <1>3, <3>2, <3>3 DEF KeyInv, Op, Key
    <3>4. CASE Op(p) = "prepare"
      BY <1>3, <3>2, <3>4 DEF KeyInv, Op, Key
    <3>5. CASE Op(p) = "cancel"
      BY <1>3, <3>2, <3>5 DEF KeyInv, Op, Key
    <3>6. CASE Op(p) = "ship"
      BY <1>3, <3>2, <3>6 DEF KeyInv, Op, Key
    <3> QED
      BY <3>3, <3>4, <3>5, <3>6, Commands
  <2>5. Op(p) = "place" => to = "reserve"
    BY DEF Steps
  <2>6. Op(p) = "prepare" => to = "check"
    BY DEF Steps
  <2>2. NewInv(p)'
    BY <1>1, <1>3, <2>5, <2>6 DEF NewInv, Creates, Op, storeVars, Fresh
  <2>3. ChangeInv(p)' /\ TriesInv(p)' /\ LockInv(p)'
    BY <1>1, <1>2, <1>3 DEF ChangeInv, TriesInv, LockInv
  <2>4. EffectInv(p)' /\ AnswerInv(p)' /\ HeldInv(p)'
    BY <1>1, <1>2, <1>3 DEF EffectInv, AnswerInv, HeldInv, storeVars, Refusals
  <2> QED
    BY <2>1, <2>2, <2>3, <2>4 DEF RequestInv
<1> QED
  BY <1>4, <1>5, <1>6, <1>7, <1>8, <1>9, <1>10 DEF IInv

LEMMA BeginInv ==
  ASSUME IInv, NEW p \in Request, Begin(p)
  PROVE  IInv'
<1>1. Absent \in Row
  BY DEF Row
<1>2. ASSUME NEW o \in Order, Op(p) = "place", Fresh(o),
             Use(p, o, NewOrder(o), "reserve")
      PROVE  IInv'
  BY <1>2, UseInv, OrderRows DEF Key, Steps
<1>3. CASE Op(p) = "cancel" /\ Use(p, Cmd[p].order, Absent, "load")
  BY <1>1, <1>3, UseInv, Commands DEF Key, Steps, Creates
<1>4. CASE Op(p) = "ship" /\ Use(p, Cmd[p].shipment, Absent, "load")
  BY <1>1, <1>4, UseInv, Commands DEF Key, Steps, Creates
<1>5. ASSUME NEW s \in Shipment, Op(p) = "prepare", Fresh(s),
             Use(p, s, NewShipment(Cmd[p].order), "check")
      PROVE  IInv'
  <2>1. NewShipment(Cmd[p].order) \in Row
    BY <1>5, Commands DEF Row, NewShipment
  <2> QED
    BY <1>5, <2>1, UseInv DEF Key, Steps
<1> QED
  BY <1>2, <1>3, <1>4, <1>5 DEF Begin, Op

-----------------------------------------------------------------------------
(* A reservation or a release, for an order that p places.                 *)
LEMMA HeldStep ==
  ASSUME IInv, NEW p \in Request, Op(p) = "place", key[p] # None,
         pc[p] \in {"reserve", "release"}, OnlyOf(p),
         UNCHANGED <<backend, rows, queue, log, effect, lock, key>>,
         \/ rows[key[p]] = Absent /\ held' = held \cup {key[p]}
         \/ held' \in {held, held \ {key[p]}},
         RequestInv(p)'
  PROVE  IInv'
<1>1. key[p] \in Order
  BY RowOf
<1>2. TypesInv'
  BY <1>1 DEF IInv, TypesInv, OnlyOf
<1>3. RowsInv' /\ LogInv' /\ KeysUnique'
  BY DEF IInv, RowsInv, LogInv, KeysUnique, Creates, Op
<1>4. LocksInv'
  <2> SUFFICES ASSUME NEW k \in Key, lock[k] # None
               PROVE  Postgres' /\ pc'[lock[k]] = "commit" /\ key'[lock[k]] = k
    BY DEF LocksInv
  <2>3. lock[k] \in Request
    BY DEF IInv, TypesInv
  <2>1. /\ lock[k] \in Request /\ Postgres /\ pc[lock[k]] = "commit"
        /\ key[lock[k]] = k
    BY <2>3 DEF IInv, LocksInv
  <2>2. pc'[lock[k]] = pc[lock[k]]
    BY <2>1 DEF OnlyOf
  <2> QED
    BY <2>1, <2>2 DEF Postgres
<1>5. DroppedInv'
  <2>1. rows[key[p]] = Absent => rows[key[p]].status # "cancelled"
    BY DEF Absent
  <2>2. \A o \in held' : rows[o].status = "cancelled" => o \in held
    BY <2>1
  <2> QED
    BY <2>2 DEF IInv, DroppedInv, OnlyOf, Op
<1>6. ASSUME NEW q \in Request, q # p PROVE RequestInv(q)'
  <2>1. Op(q) = "place" /\ key[q] \in held => key[q] \in held'
    <3>1. CASE held \subseteq held'
      BY <3>1
    <3>2. CASE held' = held \ {key[p]}
      BY <1>6, <3>2 DEF IInv, KeysUnique, Creates, TypesInv
    <3> QED
      BY <3>1, <3>2
  <2> QED
    BY <1>6, <2>1, Elsewhere DEF IInv, OnlyOf
<1> QED
  BY <1>2, <1>3, <1>4, <1>5, <1>6 DEF IInv

LEMMA ReserveInv ==
  ASSUME IInv, NEW p \in Request, Reserve(p)
  PROVE  IInv'
<1>1. /\ pc[p] = "reserve"
      /\ UNCHANGED <<backend, rows, queue, log, effect, lock, key, copy, tries>>
  BY DEF Reserve
<1>2. /\ RequestInv(p) /\ key[p] # None /\ p \notin effect
      /\ Op(p) = "place" /\ rows[key[p]] = Absent /\ answer[p] = "none"
  BY <1>1, Commands
     DEF IInv, RequestInv, KeyInv, NewInv, EffectInv, AnswerInv, Steps, Creates
<1>3. /\ OnlyOf(p)
      /\ \/ /\ pc'[p] = "save" /\ answer'[p] = "none"
            /\ held' = held \cup {key[p]}
         \/ /\ pc'[p] = "done" /\ answer'[p] \in {"no_stock", "error"}
            /\ held' \in {held, held \cup {key[p]}}
  BY <1>1, <1>2 DEF Reserve, Move, Finish, OnlyOf, IInv, TypesInv, Refusals
<1>4. RequestInv(p)'
  <2>1. "save" \in Steps(p)
    BY <1>2 DEF Steps
  <2>2. KeyInv(p)'
    BY <1>1, <1>2, <1>3, <2>1 DEF RequestInv, KeyInv, Postgres, Op
  <2>3. NewInv(p)'
    BY <1>1, <1>2, <1>3 DEF RequestInv, NewInv, Creates, Op
  <2>4. ChangeInv(p)' /\ TriesInv(p)' /\ LockInv(p)'
    BY <1>1, <1>2, <1>3
       DEF RequestInv, ChangeInv, TriesInv, LockInv, Changes, Op
  <2>5. EffectInv(p)' /\ AnswerInv(p)' /\ HeldInv(p)'
    BY <1>1, <1>2, <1>3 DEF EffectInv, AnswerInv, HeldInv, Refusals
  <2> QED
    BY <2>2, <2>3, <2>4, <2>5 DEF RequestInv
<1> QED
  BY <1>1, <1>2, <1>3, <1>4, HeldStep

LEMMA CompensateInv ==
  ASSUME IInv, NEW p \in Request, Compensate(p)
  PROVE  IInv'
<1>1. /\ pc[p] = "release" /\ pc' = [pc EXCEPT ![p] = "done"]
      /\ held' \in {held, held \ {key[p]}}
      /\ UNCHANGED <<backend, rows, queue, log, effect, lock, key, copy, tries,
                     answer>>
  BY DEF Compensate, Move
<1>2. RequestInv(p) /\ key[p] # None /\ Op(p) = "place" /\ answer[p] # "ok"
  <2>1. RequestInv(p) /\ key[p] # None /\ Op(p) = "place"
    BY <1>1, Commands DEF IInv, RequestInv, KeyInv, Steps
  <2> QED
    BY <1>1, <2>1 DEF RequestInv, AnswerInv
<1>3. OnlyOf(p) /\ pc'[p] = "done"
  BY <1>1 DEF OnlyOf, IInv, TypesInv
<1>4. RequestInv(p)'
  <2>1. KeyInv(p)'
    BY <1>1, <1>2, <1>3 DEF RequestInv, KeyInv, Postgres, Op
  <2>2. NewInv(p)' /\ ChangeInv(p)' /\ LockInv(p)'
    BY <1>3 DEF NewInv, ChangeInv, LockInv
  <2>3. TriesInv(p)'
    BY <1>1, <1>2, <1>3 DEF RequestInv, TriesInv
  <2>4. EffectInv(p)' /\ AnswerInv(p)' /\ HeldInv(p)'
    BY <1>1, <1>2, <1>3
       DEF RequestInv, EffectInv, AnswerInv, HeldInv, Op, Refusals, Postgres
  <2> QED
    BY <2>1, <2>2, <2>3, <2>4 DEF RequestInv
<1> QED
  BY <1>1, <1>2, <1>3, <1>4, HeldStep

-----------------------------------------------------------------------------
(* What a commit writes, and what was there.                               *)
LEMMA WriteOf ==
  ASSUME IInv, NEW p \in Request, pc[p] = "commit", Put(p)
  PROVE  /\ key[p] \in Key
         /\ rows' = [k \in Key |-> IF k = key[p] THEN rows'[key[p]] ELSE rows[k]]
         /\ Op(p) = "place" =>
              /\ key[p] \in Order /\ rows[key[p]] = Absent
              /\ rows'[key[p]] = Life!Confirmed(key[p])
         /\ Op(p) = "prepare" =>
              /\ key[p] \in Shipment /\ rows[key[p]] = Absent
              /\ rows[Cmd[p].order] # Absent
              /\ rows'[key[p]] = Life!Preparing(Cmd[p].order)
         /\ Op(p) = "cancel" =>
              /\ key[p] \in Order
              /\ rows[key[p]] \in {Life!Confirmed(key[p]), Life!Cancelled(key[p])}
              /\ Postgres => rows[key[p]] = Life!Confirmed(key[p])
              /\ rows'[key[p]] = Life!Cancelled(key[p])
         /\ Op(p) = "ship" =>
              /\ key[p] \in Shipment /\ rows[key[p]] # Absent
              /\ Postgres => rows[key[p]].version = 1
              /\ rows'[key[p]] = Life!Shipped(rows[key[p]].order, Cmd[p].tracking)
<1>1. RequestInv(p) /\ key[p] # None
  BY DEF IInv, RequestInv, KeyInv
<1>2. key[p] \in Key
  BY <1>1, RowOf
<1>3. /\ rows' = [k \in Key |-> IF k = key[p] THEN rows'[key[p]] ELSE rows[k]]
      /\ rows'[key[p]] = Successor(copy[p])
  BY <1>2 DEF Put, IInv, RowsInv
<1>4. ASSUME Op(p) = "place"
      PROVE  /\ key[p] \in Order /\ rows[key[p]] = Absent
             /\ rows'[key[p]] = Life!Confirmed(key[p])
  BY <1>1, <1>3, <1>4, RowOf, OrderRows DEF RequestInv, NewInv, Creates
<1>5. ASSUME Op(p) = "prepare"
      PROVE  /\ key[p] \in Shipment /\ rows[key[p]] = Absent
             /\ rows[Cmd[p].order] # Absent
             /\ rows'[key[p]] = Life!Preparing(Cmd[p].order)
  <2>1. copy[p] = NewShipment(Cmd[p].order)
    BY <1>1, <1>5 DEF RequestInv, NewInv, Creates
  <2>2. Successor(copy[p]) = Life!Preparing(Cmd[p].order)
    BY <2>1 DEF Successor, NewShipment, Life!Preparing
  <2> QED
    BY <1>1, <1>3, <1>5, <2>2, RowOf DEF RequestInv, NewInv, Creates
<1>6. ASSUME Op(p) = "cancel"
      PROVE  /\ key[p] \in Order
             /\ rows[key[p]] \in {Life!Confirmed(key[p]), Life!Cancelled(key[p])}
             /\ Postgres => rows[key[p]] = Life!Confirmed(key[p])
             /\ rows'[key[p]] = Life!Cancelled(key[p])
  <2>1. copy[p] = CancelledCopy(key[p]) /\ rows[key[p]] # Absent
    BY <1>1, <1>6 DEF RequestInv, ChangeInv, Changes
  <2>2. key[p] \in Order /\ rows[key[p]] \in OrderStates(key[p])
    BY <1>1, <1>6, RowOf
  <2>3. rows'[key[p]] = Life!Cancelled(key[p])
    BY <1>3, <2>1, <2>2, OrderRows
  <2>4. Postgres => rows[key[p]].version = 1
    BY <1>1, <2>1 DEF RequestInv, LockInv, Current, CancelledCopy
  <2> QED
    BY <2>1, <2>2, <2>3, <2>4, OrderFields DEF OrderStates
<1>7. ASSUME Op(p) = "ship"
      PROVE  /\ key[p] \in Shipment /\ rows[key[p]] # Absent
             /\ Postgres => rows[key[p]].version = 1
             /\ rows'[key[p]] = Life!Shipped(rows[key[p]].order, Cmd[p].tracking)
  <2>1. /\ copy[p] = ShippedCopy(rows[key[p]].order, Cmd[p].tracking)
        /\ rows[key[p]] # Absent
    BY <1>1, <1>7 DEF RequestInv, ChangeInv, Changes
  <2>2. Successor(copy[p]) = Life!Shipped(rows[key[p]].order, Cmd[p].tracking)
    BY <2>1 DEF Successor, ShippedCopy, Life!Shipped
  <2>3. Postgres => rows[key[p]].version = 1
    BY <1>1, <2>1 DEF RequestInv, LockInv, Current, ShippedCopy
  <2> QED
    BY <1>1, <1>3, <1>7, <2>1, <2>2, <2>3, RowOf
<1> QED
  BY <1>2, <1>3, <1>4, <1>5, <1>6, <1>7

(* A row that is there stays, keeps what it was made of, and only goes on. *)
LEMMA RowsAdvance ==
  ASSUME IInv, NEW p \in Request, pc[p] = "commit", Put(p)
  PROVE  /\ RowsInv'
         /\ \A k \in Key : k # key[p] => rows'[k] = rows[k]
         /\ rows'[key[p]] # Absent /\ rows'[key[p]].version \in {1, 2}
         /\ Creates(p) => rows[key[p]] = Absent
         /\ Changes(p) => rows[key[p]] # Absent /\ rows'[key[p]].version = 2
         /\ Op(p) = "ship" => rows'[key[p]].order = rows[key[p]].order
         /\ Op(p) = "cancel" => rows'[key[p]].status = "cancelled"
         /\ Op(p) \in {"place", "cancel"} =>
              (Unreadable(rows'[key[p]]) <=> Total[key[p]] < 0)
         /\ Op(p) \in {"prepare", "ship"} => ~Unreadable(rows'[key[p]])
<1>1. /\ Op(p) \in {"place", "cancel", "prepare", "ship"}
      /\ Op(p) = "prepare" => Cmd[p].order \in Order
      /\ Op(p) = "ship" => Cmd[p].tracking \in Tracking
  BY Commands
<1>12. \A k \in Key : k # key[p] => rows'[k] = rows[k]
  <2> DEFINE new == rows'[key[p]]
  <2>1. rows' = [k \in Key |-> IF k = key[p] THEN new ELSE rows[k]]
    BY WriteOf
  <2> HIDE DEF new
  <2> QED
    BY <2>1
<1>2. RowsInv
  BY DEF IInv
<1>3. Op(p) = "ship" => rows[key[p]].order \in Order
  BY <1>2, WriteOf, ShipmentFields DEF RowsInv
<1>4. rows' = [k \in Key |-> rows'[k]]
  BY WriteOf
<1>5. ASSUME NEW o \in Order PROVE rows'[o] \in OrderStates(o)
  <2>1. CASE o = key[p]
    BY <1>1, <2>1, WriteOf DEF OrderStates
  <2>2. CASE o # key[p]
    BY <1>2, <1>12, <2>2 DEF RowsInv, Key
  <2> QED
    BY <2>1, <2>2
<1>6. ASSUME NEW s \in Shipment PROVE rows'[s] \in ShipmentStates
  <2>1. CASE s = key[p]
    BY <1>1, <1>3, <2>1, WriteOf DEF ShipmentStates
  <2>2. CASE s # key[p]
    BY <1>2, <1>12, <2>2 DEF RowsInv, Key
  <2> QED
    BY <2>1, <2>2
<1>7. RowsInv'
  BY <1>4, <1>5, <1>6 DEF RowsInv, OrderStates, ShipmentStates
<1>8. CASE Op(p) = "place"
  <2>1. /\ key[p] \in Order /\ rows[key[p]] = Absent
        /\ rows'[key[p]] = Life!Confirmed(key[p])
    BY <1>8, WriteOf
  <2>2. rows'[key[p]] # Absent /\ rows'[key[p]].version = 1
    BY <2>1 DEF Absent, Life!Confirmed
  <2>3. Unreadable(rows'[key[p]]) <=> Total[key[p]] < 0
    BY <2>1 DEF Unreadable, Life!Confirmed
  <2> QED
    BY <1>7, <1>8, <1>12, <2>1, <2>2, <2>3 DEF Changes
<1>9. CASE Op(p) = "prepare"
  <2>1. /\ key[p] \in Shipment /\ rows[key[p]] = Absent
        /\ rows'[key[p]] = Life!Preparing(Cmd[p].order)
    BY <1>9, WriteOf
  <2>2. rows'[key[p]] # Absent /\ rows'[key[p]].version = 1
    BY <2>1 DEF Absent, Life!Preparing
  <2>3. ~Unreadable(rows'[key[p]])
    BY <2>1 DEF Unreadable, Life!Preparing
  <2> QED
    BY <1>7, <1>9, <1>12, <2>1, <2>2, <2>3 DEF Changes
<1>10. CASE Op(p) = "cancel"
  <2>1. /\ key[p] \in Order
        /\ rows[key[p]] \in {Life!Confirmed(key[p]), Life!Cancelled(key[p])}
        /\ rows'[key[p]] = Life!Cancelled(key[p])
    BY <1>10, WriteOf
  <2>2. rows[key[p]] # Absent
    BY <2>1 DEF Absent, Life!Confirmed, Life!Cancelled
  <2>3. /\ rows'[key[p]] # Absent /\ rows'[key[p]].version = 2
        /\ rows'[key[p]].status = "cancelled"
    BY <2>1 DEF Absent, Life!Cancelled
  <2>4. Unreadable(rows'[key[p]]) <=> Total[key[p]] < 0
    BY <2>1 DEF Unreadable, Life!Cancelled
  <2> QED
    BY <1>7, <1>10, <1>12, <2>2, <2>3, <2>4 DEF Creates
<1>11. CASE Op(p) = "ship"
  <2>1. /\ key[p] \in Shipment /\ rows[key[p]] # Absent
        /\ rows'[key[p]] = Life!Shipped(rows[key[p]].order, Cmd[p].tracking)
    BY <1>11, WriteOf
  <2>2. /\ rows'[key[p]] # Absent /\ rows'[key[p]].version = 2
        /\ rows'[key[p]].order = rows[key[p]].order
    BY <2>1 DEF Absent, Life!Shipped
  <2>3. ~Unreadable(rows'[key[p]])
    BY <2>1 DEF Unreadable, Life!Shipped
  <2> QED
    BY <1>7, <1>11, <1>12, <2>1, <2>2, <2>3 DEF Creates
<1> QED
  BY <1>1, <1>8, <1>9, <1>10, <1>11

(* What another request knows stays true when a row is written.            *)
LEMMA WriteElsewhere ==
  ASSUME IInv, NEW p \in Request, pc[p] = "commit", Put(p),
         UNCHANGED <<backend, held, key>>, OnlyOf(p), LocksStep(p),
         NEW q \in Request, q # p
  PROVE  RequestInv(q)'
<1> DEFINE k == key[q]
<1>1. /\ RequestInv(q)
      /\ pc'[q] = pc[q] /\ key'[q] = k /\ copy'[q] = copy[q]
      /\ tries'[q] = tries[q] /\ answer'[q] = answer[q]
      /\ q \in effect' <=> q \in effect
  BY DEF OnlyOf, Put, IInv, TypesInv
<1>2. /\ \A j \in Key : rows[j] # Absent => rows'[j] # Absent
      /\ \A j \in Key : j # key[p] => rows'[j] = rows[j]
  BY RowsAdvance
<1>3. key[p] # None /\ key[p] \in Key /\ (k # None => k \in Key)
  BY WriteOf, RowOf DEF IInv, RequestInv, KeyInv
<1>4. Creates(q) /\ k # None /\ rows[k] = Absent => rows'[k] = Absent
  <2>1. ASSUME Creates(q), k # None, rows[k] = Absent, k = key[p] PROVE FALSE
    <3>1. ~Creates(p)
      BY <2>1 DEF IInv, KeysUnique
    <3>2. Changes(p)
      BY <3>1, Commands DEF Creates, Changes
    <3> QED
      BY <2>1, <3>2, RowsAdvance
  <2> QED
    BY <1>2, <1>3, <2>1
<1>5. k # None /\ rows[k] # Absent => rows'[k] # Absent
  BY <1>2, <1>3
<1>6. Op(q) \in {"place", "cancel"} /\ k # None =>
        /\ k \in Order /\ rows[k] \in OrderStates(k)
        /\ rows'[k] \in OrderStates(k)
  BY <1>3, RowOf, RowsAdvance DEF RowsInv, OrderStates
<1>7. Op(q) \in {"prepare", "ship"} /\ k # None =>
        /\ k \in Shipment /\ rows[k] \in ShipmentStates
        /\ rows'[k] \in ShipmentStates
  BY <1>3, RowOf, RowsAdvance DEF RowsInv, ShipmentStates
<1>8. k # None /\ rows[k] # Absent /\ rows'[k] # rows[k] =>
        k = key[p] /\ Changes(p) /\ Op(p) \in {"cancel", "ship"}
  BY <1>3, RowsAdvance, Commands DEF Creates, Changes
<1>9. k # None /\ rows[k] # Absent =>
        /\ Unreadable(rows'[k]) <=> Unreadable(rows[k])
        /\ rows[k].version = 2 => rows'[k].version = 2
  <2>1. ASSUME k # None, rows[k] # Absent, Op(q) \in {"place", "cancel"}
        PROVE  Unreadable(rows'[k]) <=> Unreadable(rows[k])
    BY <1>5, <1>6, <2>1, OrderFields
  <2>2. ASSUME k # None, Op(q) \in {"prepare", "ship"}
        PROVE  Unreadable(rows'[k]) <=> Unreadable(rows[k])
    BY <1>7, <2>2, ShipmentFields
  <2>3. k # None /\ rows[k] # Absent /\ rows[k].version = 2 => rows'[k].version = 2
    BY <1>8, RowsAdvance
  <2> QED
    BY <2>1, <2>2, <2>3, Commands
<1>10. Op(q) \in {"place", "cancel"} /\ k # None
         /\ rows[k].status = "cancelled" => rows'[k].status = "cancelled"
  <2>1. ASSUME Op(q) \in {"place", "cancel"}, k # None,
               rows[k].status = "cancelled"
        PROVE  rows[k] # Absent /\ rows[k].version = 2
    BY <1>6, <2>1, OrderFields DEF OrderStates, Absent, Life!Confirmed, Life!Cancelled
  <2>2. ASSUME Op(q) \in {"place", "cancel"}, k # None, rows'[k].version = 2
        PROVE  rows'[k].status = "cancelled"
    BY <1>6, <2>2, OrderFields
  <2> QED
    BY <1>9, <2>1, <2>2
<1>11. Op(q) = "ship" /\ k # None /\ rows[k] # Absent =>
         rows'[k].order = rows[k].order
  <2>1. ASSUME Op(q) = "ship", k # None, rows[k] # Absent, rows'[k] # rows[k]
        PROVE  Op(p) = "ship" /\ k = key[p]
    <3>1. k = key[p] /\ Op(p) \in {"cancel", "ship"} /\ k \in Shipment
      BY <1>7, <1>8, <2>1
    <3>2. Op(p) = "cancel" => k \in Order
      BY <1>3, <3>1, RowOf
    <3> QED
      BY <3>1, <3>2
  <2> QED
    BY <2>1, RowsAdvance
<1>12. KeyInv(q)'
  BY <1>1 DEF RequestInv, KeyInv, Postgres, Op, Steps
<1>13. NewInv(q)'
  <2> SUFFICES ASSUME Creates(q),
                      pc[q] \in {"reserve", "check", "save", "commit"}
               PROVE  NewInv(q)'
    BY <1>1 DEF NewInv, Creates, Op
  <2>1. k # None /\ rows[k] = Absent
    BY <1>1 DEF RequestInv, KeyInv, NewInv
  <2>2. rows'[k] = Absent
    BY <1>4, <2>1
  <2>3. Op(q) = "prepare" /\ pc[q] # "check" => rows[Cmd[q].order] # Absent
    BY <1>1 DEF RequestInv, NewInv
  <2>4. Op(q) = "prepare" /\ pc[q] # "check" => rows'[Cmd[q].order] # Absent
    BY <1>2, <2>3, Commands DEF Key
  <2> QED
    BY <1>1, <2>2, <2>4 DEF RequestInv, NewInv, Creates, Op
<1>14. ChangeInv(q)' /\ TriesInv(q)'
  <2>1. Changes(q) /\ pc[q] \notin {"idle", "done"} => k # None
    BY <1>1 DEF RequestInv, KeyInv
  <2>2. k # None /\ rows[k].version = 2 => rows[k] # Absent
    BY DEF Absent
  <2> QED
    BY <1>1, <1>5, <1>9, <1>11, <2>1, <2>2
       DEF RequestInv, ChangeInv, TriesInv, Changes, Op
<1>15. LockInv(q)'
  <2> SUFFICES ASSUME Postgres, pc[q] = "commit" PROVE LockInv(q)'
    BY <1>1 DEF LockInv, Postgres
  <2>1. k # None /\ lock[k] = q /\ Current(q) /\ ~Unreadable(copy[q])
    BY <1>1 DEF RequestInv, KeyInv, LockInv
  <2>2. lock[key[p]] = p
    BY DEF IInv, RequestInv, LockInv
  <2>3. k # key[p] /\ rows'[k] = rows[k] /\ lock'[k] = q
    BY <1>2, <1>3, <2>1, <2>2 DEF LocksStep
  <2> QED
    BY <1>1, <2>1, <2>3 DEF LockInv, Current, Postgres
<1>16. EffectInv(q)'
  BY <1>1, <1>5, <1>9, <1>10 DEF RequestInv, EffectInv, Postgres, Op
<1>17. AnswerInv(q)'
  BY <1>1, <1>9 DEF RequestInv, AnswerInv, EffectInv, Postgres
<1>18. HeldInv(q)'
  <2>1. (Op(q) = "place" /\ pc[q] \notin {"idle", "done"}) \/ answer[q] = "ok"
          => k # None
    BY <1>1 DEF RequestInv, KeyInv, AnswerInv, EffectInv
  <2> QED
    BY <1>1, <1>10, <2>1 DEF RequestInv, HeldInv, Op
<1> QED
  BY <1>12, <1>13, <1>14, <1>15, <1>16, <1>17, <1>18 DEF RequestInv

LEMMA MessagesOf ==
  ASSUME IInv, NEW p \in Request, key[p] # None
  PROVE  /\ Messages(p) \subseteq Message
         /\ \A m \in Messages(p) : m.by = p /\ m.order = key[p]
         /\ \A m \in Messages(p) :
              m.kind = "OrderCancelled" <=> Op(p) = "cancel"
         /\ Op(p) = "cancel" =>
              Messages(p)
                = {[kind |-> "OrderCancelled", order |-> key[p], by |-> p]}
         /\ Op(p) = "place" =>
              Messages(p)
                = {[kind |-> "ConfirmReservation", order |-> key[p], by |-> p]}
         /\ Op(p) \in {"prepare", "ship"} => Messages(p) = {}
BY RowOf, Commands DEF Messages, Message, Op

(* A step that writes the row, and the messages now or when it is staged.  *)
LEMMA PutStep ==
  ASSUME IInv, NEW p \in Request, pc[p] = "commit", Put(p),
         UNCHANGED <<backend, held, key>>, OnlyOf(p), LocksStep(p),
         \/ Enqueue(p)
         \/ pc'[p] = "stage" /\ UNCHANGED <<queue, log>>,
         RequestInv(p)'
  PROVE  IInv'
<1>1. key[p] # None
  BY DEF IInv, RequestInv, KeyInv
<1>2. TypesInv'
  BY <1>1, MessagesOf DEF IInv, TypesInv, OnlyOf, LocksStep, Put, Enqueue
<1>3. RowsInv'
  BY RowsAdvance
<1>4. KeysUnique'
  BY DEF IInv, KeysUnique, Creates, Op
<1>5. LogInv'
  BY <1>1, MessagesOf DEF IInv, LogInv, Put, Enqueue
<1>6. LocksInv'
  <2> SUFFICES ASSUME NEW k \in Key, lock'[k] # None
               PROVE  /\ Postgres' /\ pc'[lock'[k]] = "commit"
                      /\ key'[lock'[k]] = k
    BY DEF LocksInv
  <2>1. CASE lock'[k] = p
    BY <2>1 DEF LocksStep, Postgres
  <2>2. CASE lock'[k] # p
    <3>1. lock'[k] = lock[k] /\ lock[k] \in Request
      BY <2>2 DEF LocksStep, IInv, TypesInv
    <3>2. Postgres /\ pc[lock[k]] = "commit" /\ key[lock[k]] = k
      BY <3>1 DEF IInv, LocksInv
    <3> QED
      BY <2>2, <3>1, <3>2 DEF OnlyOf, Postgres
  <2> QED
    BY <2>1, <2>2
<1>7. DroppedInv'
  <2> SUFFICES ASSUME NEW o \in held, rows'[o].status = "cancelled"
               PROVE  \/ \E m \in queue' :
                           m.kind = "OrderCancelled" /\ m.order = o
                      \/ \E r \in Request :
                           Op(r) = "cancel" /\ pc'[r] = "stage" /\ key'[r] = o
    BY DEF DroppedInv, Op
  <2>1. o \in Order
    BY DEF IInv, TypesInv
  <2>2. CASE o = key[p]
    <3>1. Op(p) = "cancel"
      <4>1. Op(p) \in {"place", "cancel"}
        BY <1>1, <2>1, <2>2, RowOf, Commands
      <4>2. Op(p) = "place" => rows'[o] = Life!Confirmed(o)
        BY <2>2, WriteOf
      <4>3. Life!Confirmed(o).status # "cancelled"
        BY DEF Life!Confirmed
      <4> QED
        BY <4>1, <4>2, <4>3
    <3>2. ASSUME Enqueue(p)
          PROVE  \E m \in queue' : m.kind = "OrderCancelled" /\ m.order = o
      <4> DEFINE m == [kind |-> "OrderCancelled", order |-> key[p], by |-> p]
      <4>1. m \in Messages(p)
        BY <1>1, <3>1, MessagesOf
      <4>2. m \in queue' /\ m.kind = "OrderCancelled" /\ m.order = o
        BY <2>2, <3>2, <4>1 DEF Enqueue
      <4> QED
        BY <4>2
    <3> QED
      BY <2>2, <3>1, <3>2
  <2>3. CASE o # key[p]
    <3>1. rows[o].status = "cancelled"
      BY <2>1, <2>3, RowsAdvance DEF Key
    <3>2. \/ \E m \in queue : m.kind = "OrderCancelled" /\ m.order = o
          \/ \E r \in Request :
               Op(r) = "cancel" /\ pc[r] = "stage" /\ key[r] = o
      BY <3>1 DEF IInv, DroppedInv
    <3>3. queue \subseteq queue'
      BY DEF Enqueue
    <3> QED
      BY <3>2, <3>3 DEF OnlyOf
  <2> QED
    BY <2>2, <2>3
<1>8. ASSUME NEW q \in Request, q # p PROVE RequestInv(q)'
  BY <1>8, WriteElsewhere
<1> QED
  BY <1>2, <1>3, <1>4, <1>5, <1>6, <1>7, <1>8 DEF IInv

(* A request whose command has just taken effect.                          *)
LEMMA PutOf ==
  ASSUME IInv, NEW p \in Request, pc[p] = "commit", Put(p),
         UNCHANGED <<backend, held, key, copy, tries>>, OnlyOf(p),
         \/ pc'[p] = "read" /\ answer'[p] = answer[p]
         \/ pc'[p] = "stage" /\ ~Postgres /\ answer'[p] = answer[p]
         \/ pc'[p] = "release" /\ Op(p) = "place" /\ answer'[p] = "error"
         \/ pc'[p] = "done" /\ answer'[p] = "error"
  PROVE  RequestInv(p)'
<1>1. RequestInv(p) /\ key[p] # None /\ answer[p] = "none"
  BY DEF IInv, RequestInv, KeyInv, AnswerInv
<1>2. KeyInv(p)'
  <2>1. "read" \in Steps(p) /\ "stage" \in Steps(p)
    BY Commands DEF Steps
  <2>2. Op(p) = "place" => "release" \in Steps(p)
    BY DEF Steps
  <2>3. pc'[p] \in {"idle", "done"} \cup Steps(p)
    BY <2>1, <2>2
  <2>4. Steps(p)' = Steps(p)
    BY DEF Steps, Op
  <2> QED
    BY <1>1, <2>3, <2>4 DEF RequestInv, KeyInv, Postgres, Op
<1>3. NewInv(p)' /\ ChangeInv(p)' /\ LockInv(p)'
  BY DEF NewInv, ChangeInv, LockInv
<1>4. TriesInv(p)'
  BY <1>1 DEF RequestInv, TriesInv
<1>5. EffectInv(p)'
  <2>1. p \in effect' /\ pc'[p] \in {"stage", "read", "release", "done"}
    BY DEF Put
  <2>2. rows'[key[p]] # Absent
    BY RowsAdvance
  <2>3. Op(p) = "cancel" => rows'[key[p]].status = "cancelled"
    BY RowsAdvance
  <2>4. Postgres => ~Unreadable(rows'[key[p]])
    <3> SUFFICES ASSUME Postgres PROVE ~Unreadable(rows'[key[p]])
      OBVIOUS
    <3>1. ~Unreadable(copy[p])
      BY <1>1 DEF RequestInv, LockInv
    <3>2. CASE Op(p) = "place"
      <4>1. ~(Total[key[p]] < 0)
        BY <1>1, <3>1, <3>2
           DEF RequestInv, NewInv, Creates, Unreadable, NewOrder
      <4> QED
        BY <3>2, <4>1, RowsAdvance
    <3>3. CASE Op(p) = "cancel"
      <4>1. ~(Total[key[p]] < 0)
        BY <1>1, <3>1, <3>3
           DEF RequestInv, ChangeInv, Changes, Unreadable, CancelledCopy
      <4> QED
        BY <3>3, <4>1, RowsAdvance
    <3>4. CASE Op(p) \in {"prepare", "ship"}
      BY <3>4, RowsAdvance
    <3> QED
      BY <3>2, <3>3, <3>4, Commands
  <2> QED
    BY <1>1, <2>1, <2>2, <2>3, <2>4 DEF EffectInv, Postgres, Op
<1>6. AnswerInv(p)'
  BY <1>1 DEF AnswerInv, Refusals
<1>7. HeldInv(p)'
  <2>1. Op(p) = "place" =>
          rows[key[p]].status = "cancelled" \/ key[p] \in held
    BY <1>1 DEF RequestInv, HeldInv
  <2>2. Op(p) = "place" => rows[key[p]].status # "cancelled"
    BY WriteOf DEF Absent
  <2> QED
    BY <1>1, <2>1, <2>2 DEF HeldInv, Op
<1> QED
  BY <1>2, <1>3, <1>4, <1>5, <1>6, <1>7 DEF RequestInv

LEMMA CommitInv ==
  ASSUME IInv, NEW p \in Request, Commit(p)
  PROVE  IInv'
<1>1. /\ Postgres /\ pc[p] = "commit" /\ Put(p) /\ Enqueue(p)
      /\ lock' = [k \in Key |-> IF lock[k] = p THEN None ELSE lock[k]]
      /\ UNCHANGED <<backend, held, key, copy, tries>>
  BY DEF Commit, Unlock
<1>2. /\ OnlyOf(p)
      /\ \/ pc'[p] = "read" /\ answer'[p] = answer[p]
         \/ pc'[p] = "release" /\ Op(p) = "place" /\ answer'[p] = "error"
         \/ pc'[p] = "done" /\ answer'[p] = "error"
  BY <1>1 DEF Commit, Move, Abort, OnlyOf, IInv, TypesInv, Op
<1>3. LocksStep(p)
  BY <1>1 DEF LocksStep, IInv, TypesInv
<1> QED
  BY <1>1, <1>2, <1>3, PutOf, PutStep

LEMMA CommitRowsInv ==
  ASSUME IInv, NEW p \in Request, CommitRows(p)
  PROVE  IInv'
<1>1. /\ ~Postgres /\ pc[p] = "commit" /\ Put(p)
      /\ pc' = [pc EXCEPT ![p] = "stage"]
      /\ UNCHANGED <<backend, queue, log, held, lock, key, copy, tries, answer>>
  BY DEF CommitRows, Move
<1>2. OnlyOf(p) /\ pc'[p] = "stage" /\ answer'[p] = answer[p]
  BY <1>1 DEF OnlyOf, IInv, TypesInv
<1>3. LocksStep(p)
  BY <1>1 DEF LocksStep, IInv, LocksInv, TypesInv
<1> QED
  BY <1>1, <1>2, <1>3, PutOf, PutStep

-----------------------------------------------------------------------------
(* The messages of an in-memory commit, and their delivery.                *)
LEMMA StageStep ==
  ASSUME IInv, NEW p \in Request, pc[p] \in {"stage", "deliver"},
         NEW to \in {"deliver", "read"}, pc' = [pc EXCEPT ![p] = to],
         UNCHANGED <<backend, rows, effect, lock, key, copy, tries, answer>>,
         held' \subseteq held, queue' \subseteq log',
         log' \in {log, log \cup Messages(p)},
         \A o \in held \ held' : rows[o].status = "cancelled",
         DroppedInv'
  PROVE  IInv'
<1>1. RequestInv(p) /\ key[p] # None /\ p \in effect /\ ~Postgres
  BY DEF IInv, RequestInv, KeyInv, EffectInv
<1>2. pc'[p] = to /\ \A q \in Request \ {p} : pc'[q] = pc[q]
  BY DEF IInv, TypesInv
<1>3. TypesInv'
  <2>1. Messages(p) \subseteq Message
    BY <1>1, MessagesOf
  <2>2. TypesInv
    BY DEF IInv
  <2>3. queue' \subseteq log' /\ log' \subseteq Message
    BY <2>1, <2>2 DEF TypesInv
  <2>4. held' \subseteq Order
    BY <2>2 DEF TypesInv
  <2>5. pc' = [q \in Request |-> pc'[q]]
    BY <2>2 DEF TypesInv
  <2> QED
    BY <2>2, <2>3, <2>4, <2>5 DEF TypesInv
<1>4. RowsInv' /\ KeysUnique'
  <2>1. rows' = rows /\ key' = key
    OBVIOUS
  <2>2. RowsInv /\ KeysUnique
    BY DEF IInv
  <2>3. RowsInv'
    BY <2>1, <2>2 DEF RowsInv, OrderStates, ShipmentStates
  <2> QED
    BY <2>1, <2>2, <2>3 DEF KeysUnique, Creates, Op
<1>5. LogInv'
  BY <1>1, MessagesOf DEF IInv, LogInv
<1>6. LocksInv'
  BY <1>1 DEF IInv, LocksInv, Postgres
<1>7. \A q \in Request : key[q] \in held =>
        key[q] \in held' \/ rows[key[q]].status = "cancelled"
  OBVIOUS
<1>8. ASSUME NEW q \in Request, q # p PROVE RequestInv(q)'
  BY <1>2, <1>7, <1>8, Elsewhere DEF IInv
<1>9. RequestInv(p)'
  <2>1. to \in Steps(p)
    BY Commands DEF Steps
  <2>2. KeyInv(p)'
    <3>1. Steps(p)' = Steps(p)
      BY DEF Steps, Op
    <3> QED
      BY <1>1, <1>2, <2>1, <3>1 DEF RequestInv, KeyInv, Postgres, Op
  <2>3. NewInv(p)' /\ ChangeInv(p)' /\ LockInv(p)'
    BY <1>2 DEF NewInv, ChangeInv, LockInv
  <2>4. TriesInv(p)' /\ EffectInv(p)' /\ AnswerInv(p)'
    BY <1>1, <1>2 DEF RequestInv, TriesInv, EffectInv, AnswerInv, Postgres, Op
  <2>5. HeldInv(p)'
    BY <1>1, <1>2, <1>7 DEF RequestInv, HeldInv, Op
  <2> QED
    BY <2>2, <2>3, <2>4, <2>5 DEF RequestInv
<1> QED
  BY <1>3, <1>4, <1>5, <1>6, <1>8, <1>9 DEF IInv

LEMMA CommitStagedInv ==
  ASSUME IInv, NEW p \in Request, CommitStaged(p)
  PROVE  IInv'
<1>1. /\ pc[p] = "stage" /\ pc' = [pc EXCEPT ![p] = "deliver"] /\ Enqueue(p)
      /\ UNCHANGED <<backend, rows, held, effect, lock, key, copy, tries, answer>>
  BY DEF CommitStaged, Move
<1>2. key[p] # None
  BY <1>1 DEF IInv, RequestInv, KeyInv
<1>3. DroppedInv'
  <2> SUFFICES ASSUME NEW o \in held, rows[o].status = "cancelled"
               PROVE  \/ \E m \in queue' :
                           m.kind = "OrderCancelled" /\ m.order = o
                      \/ \E r \in Request :
                           Op(r) = "cancel" /\ pc'[r] = "stage" /\ key[r] = o
    BY <1>1 DEF DroppedInv, Op
  <2>1. \/ \E m \in queue : m.kind = "OrderCancelled" /\ m.order = o
        \/ \E r \in Request :
             Op(r) = "cancel" /\ pc[r] = "stage" /\ key[r] = o
    BY DEF IInv, DroppedInv
  <2>2. CASE \E m \in queue : m.kind = "OrderCancelled" /\ m.order = o
    BY <1>1, <2>2 DEF Enqueue
  <2>3. ASSUME NEW r \in Request, Op(r) = "cancel", pc[r] = "stage", key[r] = o,
               r # p
        PROVE  pc'[r] = "stage"
    BY <1>1, <2>3 DEF IInv, TypesInv
  <2>4. ASSUME Op(p) = "cancel", key[p] = o
        PROVE  \E m \in queue' : m.kind = "OrderCancelled" /\ m.order = o
    <3> DEFINE m == [kind |-> "OrderCancelled", order |-> key[p], by |-> p]
    <3>1. m \in Messages(p)
      BY <1>2, <2>4, MessagesOf
    <3> QED
      BY <1>1, <2>4, <3>1 DEF Enqueue
  <2> QED
    BY <2>1, <2>2, <2>3, <2>4
<1>4. queue' \subseteq log' /\ log' = log \cup Messages(p)
  BY <1>1 DEF Enqueue, IInv, TypesInv
<1> QED
  BY <1>1, <1>3, <1>4, StageStep

LEMMA DeliverSyncInv ==
  ASSUME IInv, NEW p \in Request, DeliverSync(p)
  PROVE  IInv'
<1>1. /\ pc[p] = "deliver" /\ pc' = [pc EXCEPT ![p] = "read"]
      /\ UNCHANGED <<backend, rows, log, effect, lock, key, copy, tries, answer>>
  BY DEF DeliverSync, Move
<1>2. /\ key[p] # None
      /\ Op(p) = "cancel" => rows[key[p]].status = "cancelled"
  BY <1>1 DEF IInv, RequestInv, KeyInv, EffectInv
<1>3. \/ UNCHANGED <<held, queue>>
      \/ Op(p) # "cancel" /\ held' = held /\ queue' \subseteq queue
         /\ \A m \in queue \ queue' : m.kind # "OrderCancelled"
      \/ Op(p) = "cancel" /\ held' = held \ {key[p]} /\ queue' \subseteq queue
         /\ \A m \in queue \ queue' : m.order = key[p]
  BY <1>2, MessagesOf DEF DeliverSync, Received
<1>4. held' \subseteq held /\ queue' \subseteq log'
  BY <1>1, <1>3 DEF IInv, TypesInv
<1>5. \A o \in held \ held' : rows[o].status = "cancelled"
  BY <1>2, <1>3
<1>6. DroppedInv'
  <2>1. ASSUME NEW o \in held', NEW m \in queue, m.kind = "OrderCancelled",
               m.order = o
        PROVE  m \in queue'
    BY <1>3, <2>1
  <2>2. ASSUME NEW r \in Request, pc[r] = "stage" PROVE pc'[r] = "stage"
    BY <1>1, <2>2 DEF IInv, TypesInv
  <2> QED
    BY <1>1, <1>4, <2>1, <2>2 DEF IInv, DroppedInv, Op
<1> QED
  BY <1>1, <1>4, <1>5, <1>6, StageStep

-----------------------------------------------------------------------------
LEMMA StutterInv == IInv /\ UNCHANGED vars => IInv'
<1> SUFFICES ASSUME IInv, UNCHANGED vars PROVE IInv'
  OBVIOUS
<1>1. /\ UNCHANGED <<backend, rows, queue, log, held, effect, lock>>
      /\ UNCHANGED <<pc, key, copy, tries, answer>>
  BY DEF vars, storeVars
<1>2. TypesInv' /\ LocksInv' /\ LogInv'
  BY <1>1 DEF IInv, TypesInv, LocksInv, LogInv, Postgres
<1>3. RowsInv'
  BY <1>1 DEF IInv, RowsInv, OrderStates, ShipmentStates
<1>5. KeysUnique' /\ DroppedInv'
  BY <1>1 DEF IInv, KeysUnique, DroppedInv, Creates, Op
<1>4. ASSUME NEW q \in Request PROVE RequestInv(q)'
  BY <1>1, Elsewhere DEF IInv
<1> QED
  BY <1>2, <1>3, <1>4, <1>5 DEF IInv

LEMMA NextInv == IInv /\ [Next]_vars => IInv'
<1>1. ASSUME IInv, NEW p \in Request, Begin(p) \/ Step(p) \/ Fail(p)
      PROVE  IInv'
  <2>1. CASE Begin(p)
    BY <1>1, <2>1, BeginInv
  <2>2. CASE Fail(p)
    BY <1>1, <2>2, FailInv
  <2>3. CASE Step(p)
    <3>1. CASE Reserve(p) \/ Check(p) \/ Load(p) \/ Save(p) \/ Reject(p)
      BY <1>1, <3>1, ReserveInv, CheckInv, LoadInv, SaveInv, RejectInv
    <3>2. CASE Conflict(p) \/ Retry(p) \/ Commit(p) \/ CommitRows(p)
      BY <1>1, <3>2, ConflictInv, RetryInv, CommitInv, CommitRowsInv
    <3>3. CASE CommitStaged(p) \/ DeliverSync(p) \/ Read(p) \/ Compensate(p)
      BY <1>1, <3>3, CommitStagedInv, DeliverSyncInv, ReadInv, CompensateInv
    <3> QED
      BY <2>3, <3>1, <3>2, <3>3 DEF Step
  <2> QED
    BY <1>1, <2>1, <2>2, <2>3
<1> QED
  BY <1>1, StutterInv DEF Next

-----------------------------------------------------------------------------
(* The invariant that the results below rest on.                           *)
THEOREM InvHolds == Spec => []IInv
<1> QED
  BY InitInv, NextInv, PTL DEF Spec

LEMMA TypesFollow == IInv => TypeOK
<1> SUFFICES ASSUME IInv PROVE TypeOK
  OBVIOUS
<1>1. TypesInv /\ RowsInv
  BY DEF IInv
<1>2. rows \in [Key -> Row]
  <2>1. ASSUME NEW o \in Order PROVE rows[o] \in Row
    BY <1>1, OrderRows DEF RowsInv
  <2>2. ASSUME NEW s \in Shipment PROVE rows[s] \in Row
    <3>1. \A o \in Order : Life!Preparing(o) \in Row
      BY DEF Row, Life!Preparing
    <3>2. \A o \in Order, t \in Tracking : Life!Shipped(o, t) \in Row
      BY DEF Row, Life!Shipped
    <3> QED
      BY <1>1, <3>1, <3>2 DEF RowsInv, ShipmentStates, Row
  <2>3. \A k \in Key : rows[k] \in Row
    BY <2>1, <2>2 DEF Key
  <2> QED
    BY <1>1, <2>3 DEF RowsInv
<1>3. pc \in [Request -> {"idle", "reserve", "check", "load", "save",
                          "backoff", "commit", "stage", "deliver", "read",
                          "release", "done"}]
  <2>1. ASSUME NEW p \in Request
        PROVE  pc[p] \in {"idle", "reserve", "check", "load", "save",
                          "backoff", "commit", "stage", "deliver", "read",
                          "release", "done"}
    <3>1. pc[p] \in {"idle", "done"} \cup Steps(p)
      BY DEF IInv, RequestInv, KeyInv
    <3> QED
      BY <3>1, Commands DEF Steps
  <2> QED
    BY <1>1, <2>1 DEF TypesInv
<1>4. tries \in [Request -> 0 .. MaxAttempts]
  <2>1. \A p \in Request : tries[p] \in {0, 1}
    BY DEF IInv, RequestInv, TriesInv
  <2>2. {0, 1} \subseteq 0 .. MaxAttempts
    OBVIOUS
  <2> QED
    BY <1>1, <2>1, <2>2 DEF TypesInv
<1> QED
  BY <1>1, <1>2, <1>3, <1>4 DEF TypesInv, TypeOK

(* Every variable has its type: the rows are those the tables can hold,    *)
(* with totals of 64 bits, and no unit of work is tried more often than    *)
(* it may (order_store.go, shipment_store.go, uow.go Run).                 *)
THEOREM TypeCorrect == Spec => []TypeOK
<1> QED
  BY InvHolds, TypesFollow, PTL

(* An answer "ok" comes of a command that took effect, an order placed so  *)
(* keeps its stock until it is cancelled, and a refusal comes of a command *)
(* that changed nothing, but for what the in-memory store cannot read      *)
(* (handler.go, uow.go Run, place_order.go Handle).                        *)
THEOREM AnswersCorrect == Spec => []AnswersTrue
<1>1. ASSUME IInv, NEW p \in Request
      PROVE  /\ answer[p] = "ok" =>
                  /\ p \in effect
                  /\ Cmd[p].op = "place" /\ rows[key[p]].status = "confirmed"
                       => key[p] \in held
             /\ answer[p] \in Refusals /\ p \in effect
                  => ~Postgres /\ Unreadable(rows[key[p]])
  BY <1>1 DEF IInv, RequestInv, AnswerInv, HeldInv, Op
<1>2. IInv => AnswersTrue
  BY <1>1 DEF AnswersTrue
<1> QED
  BY InvHolds, <1>2, PTL

(* A cancelled order that still holds stock has its cancellation in the    *)
(* queue or on its way there, over either store (memory/uow.go commit,     *)
(* deliverSync; the unit of work over PostgreSQL).                         *)
THEOREM CancellationsKept == Spec => []NothingDropped
<1>1. IInv => NothingDropped
  BY DEF IInv, DroppedInv, NothingDropped
<1> QED
  BY InvHolds, <1>1, PTL

(* With one retry or more nobody is answered a conflict, however many      *)
(* requests meet at a row: a version that does not match is the last one,  *)
(* so that the second attempt is refused by the status (uow.go Run,        *)
(* order.go Cancel, shipment.go MarkShipped).                              *)
THEOREM NoConflict ==
  ASSUME MaxAttempts > 1
  PROVE  Spec => []NoConflictAnswered
<1>1. Init => NoConflictAnswered
  BY DEF Init, NoConflictAnswered
<1>2. ASSUME IInv, NoConflictAnswered, [Next]_vars PROVE NoConflictAnswered'
  <2>1. ASSUME NEW p \in Request, Conflict(p) PROVE answer' = answer
    <3>1. pc[p] = "save" /\ ~Current(p)
      BY <2>1 DEF Conflict, CanWrite
    <3>2. tries[p] = 0
      BY <1>2, <3>1, ConflictOf
    <3>3. tries'[p] = 1
      BY <1>2, <2>1, <3>2 DEF Conflict, IInv, TypesInv
    <3> QED
      BY <2>1, <3>3 DEF Conflict
  <2>2. ASSUME NEW p \in Request, Check(p) \/ Load(p), NEW q \in Request
        PROVE  answer'[q] # "conflict"
    <3>1. \A row : Refusal(p, row) # "conflict"
      BY DEF Refusal
    <3>2. answer \in [Request -> Refusals \cup {"none", "ok", "error"}]
      BY <1>2 DEF IInv, TypesInv
    <3>3. answer[q] # "conflict"
      BY <1>2 DEF NoConflictAnswered
    <3>4. \/ answer' = answer
          \/ \E row : answer' = [answer EXCEPT ![p] = Refusal(p, row)]
      BY <2>2 DEF Check, Load, Finish
    <3> QED
      BY <3>1, <3>2, <3>3, <3>4
  <2>3. ASSUME NEW p \in Request,
               \/ Reserve(p) \/ Reject(p) \/ Commit(p) \/ Read(p) \/ Fail(p),
               NEW q \in Request
        PROVE  answer'[q] # "conflict"
    <3>1. \/ answer' = answer
          \/ \E a \in {"no_stock", "error", "invalid", "ok"} :
               answer' = [answer EXCEPT ![p] = a]
      BY <2>3 DEF Reserve, Reject, Commit, Read, Fail, Finish, Abort
    <3> QED
      BY <1>2, <3>1 DEF IInv, TypesInv, NoConflictAnswered
  <2>4. ASSUME NEW p \in Request,
               \/ Begin(p) \/ Save(p) \/ Retry(p) \/ CommitRows(p)
               \/ CommitStaged(p) \/ DeliverSync(p) \/ Compensate(p)
        PROVE  answer' = answer
    BY <2>4 DEF Begin, Use, Save, Retry, CommitRows, CommitStaged, DeliverSync,
                Compensate
  <2>5. CASE UNCHANGED vars
    BY <1>2, <2>5 DEF vars, NoConflictAnswered
  <2>6. CASE Next
    BY <1>2, <2>1, <2>2, <2>3, <2>4, <2>6 DEF Next, Step, NoConflictAnswered
  <2> QED
    BY <1>2, <2>5, <2>6
<1> QED
  BY InvHolds, <1>1, <1>2, PTL DEF Spec

-----------------------------------------------------------------------------
(* The refinement: a commit is the step of the abstract life, every other  *)
(* step leaves the rows and what was sent alone.                           *)
LEMMA LifeInit == Init => Life!Init
<1> SUFFICES ASSUME Init PROVE Life!Init
  OBVIOUS
<1>1. PICK w \in Workload :
        /\ rows = [k \in Key |-> IF k \in DOMAIN w.rows THEN w.rows[k] ELSE Absent]
        /\ pc = [p \in Request |-> IF p \in w.requests THEN "idle" ELSE "done"]
  BY DEF Init
<1>2. ASSUME NEW o \in Order PROVE rows[o] \in {Life!Absent, Life!Confirmed(o)}
  BY <1>1, OrderRows, WorkloadAssumption DEF Key, Life!Absent, Absent
<1>3. ASSUME NEW s \in Shipment
      PROVE  rows[s] \in {Life!Absent} \cup {Life!Preparing(o) : o \in Order}
  <2>1. CASE s \in DOMAIN w.rows
    <3>1. PICK o \in Order : w.rows[s] = Successor(NewShipment(o))
      BY <2>1, WorkloadAssumption
    <3>2. w.rows[s] = Life!Preparing(o)
      BY <3>1 DEF Successor, NewShipment, Life!Preparing
    <3> QED
      BY <1>1, <2>1, <3>2 DEF Key
  <2>2. CASE s \notin DOMAIN w.rows
    BY <1>1, <2>2 DEF Key, Life!Absent, Absent
  <2> QED
    BY <2>1, <2>2
<1>4. Sent = {}
  <2>1. \A p \in Request : pc[p] # "stage"
    BY <1>1
  <2> QED
    BY <2>1 DEF Init, Sent, OnTheWay
<1>5. Postgres \in BOOLEAN
  BY DEF Postgres
<1> QED
  BY <1>2, <1>3, <1>4, <1>5 DEF Life!Init

LEMMA SentKept ==
  ASSUME NEW p \in Request, log' = log, pc[p] # "stage", pc'[p] # "stage",
         \A q \in Request \ {p} : pc'[q] = pc[q] /\ key'[q] = key[q]
  PROVE  Sent' = Sent
<1>1. OnTheWay' = OnTheWay /\ p \notin OnTheWay
  BY DEF OnTheWay
<1>2. \A q \in OnTheWay : Messages(q)' = Messages(q)
  BY <1>1 DEF OnTheWay, Messages
<1> QED
  BY <1>1, <1>2 DEF Sent

(* The message of a commit was never sent before.                          *)
LEMMA NewMessage ==
  ASSUME IInv, NEW p \in Request, p \notin effect, NEW m \in Sent
  PROVE  m.by # p
<1>1. CASE m \in log
  BY <1>1 DEF IInv, LogInv
<1>2. CASE m \notin log
  <2>1. PICK q \in Request : pc[q] = "stage" /\ m \in Messages(q)
    BY <1>2 DEF Sent, OnTheWay
  <2>2. q \in effect /\ key[q] # None
    BY <2>1 DEF IInv, RequestInv, EffectInv, KeyInv
  <2>3. m.by = q
    BY <2>1, <2>2, MessagesOf
  <2> QED
    BY <2>2, <2>3
<1> QED
  BY <1>1, <1>2

LEMMA LifeCommit ==
  ASSUME IInv, NEW p \in Request, pc[p] = "commit", Put(p),
         Sent' = Sent \cup Messages(p), UNCHANGED backend
  PROVE  Life!Next
<1> DEFINE k == key[p]
<1>1. /\ k # None /\ k \in Key /\ p \notin effect
      /\ rows' = [rows EXCEPT ![k] = rows'[k]]
  <2>1. k # None /\ p \notin effect
    BY DEF IInv, RequestInv, KeyInv, EffectInv
  <2>2. k \in Key
    BY <2>1, RowOf
  <2> QED
    BY <2>1, <2>2 DEF Put, IInv, RowsInv
<1>2. \A m \in Messages(p) : m \in Life!Message /\ m \notin Sent /\ m.order = k
  BY <1>1, MessagesOf, NewMessage DEF Message, Life!Message
<1>3. Postgres' = Postgres
  BY DEF Postgres
<1>4. CASE Op(p) = "place"
  <2> DEFINE m == [kind |-> "ConfirmReservation", order |-> k, by |-> p]
  <2>1. Messages(p) = {m}
    BY <1>1, <1>4, MessagesOf
  <2>2. k \in Order /\ rows[k] = Absent /\ rows'[k] = Life!Confirmed(k)
    BY <1>4, WriteOf
  <2>3. Life!Place(k, m)
    BY <1>1, <1>2, <2>1, <2>2
       DEF Life!Place, Life!Write, Life!Tell, Life!Absent, Absent
  <2> QED
    BY <1>2, <1>3, <2>1, <2>2, <2>3 DEF Life!Next
<1>5. CASE Op(p) = "cancel"
  <2> DEFINE m == [kind |-> "OrderCancelled", order |-> k, by |-> p]
  <2>1. Messages(p) = {m}
    BY <1>1, <1>5, MessagesOf
  <2>2. /\ k \in Order /\ rows'[k] = Life!Cancelled(k)
        /\ rows[k] \in {Life!Confirmed(k), Life!Cancelled(k)}
        /\ Postgres => rows[k] = Life!Confirmed(k)
    BY <1>5, WriteOf
  <2>3. rows[k].status \in Life!Before("confirmed", "cancelled")
    BY <2>2 DEF Life!Before, Life!Confirmed, Life!Cancelled
  <2>4. Life!Cancel(k, m)
    BY <1>1, <1>2, <2>1, <2>2, <2>3 DEF Life!Cancel, Life!Write, Life!Tell
  <2> QED
    BY <1>2, <1>3, <2>1, <2>2, <2>4 DEF Life!Next
<1>6. CASE Op(p) = "prepare"
  <2>1. Sent' = Sent
    BY <1>1, <1>6, MessagesOf
  <2>2. /\ k \in Shipment /\ rows[k] = Absent
        /\ rows[Cmd[p].order] # Absent /\ Cmd[p].order \in Order
        /\ rows'[k] = Life!Preparing(Cmd[p].order)
    BY <1>6, WriteOf, Commands
  <2>3. Life!Prepare(k, Cmd[p].order)
    BY <1>1, <2>1, <2>2 DEF Life!Prepare, Life!Write, Life!Absent, Absent
  <2> QED
    BY <1>3, <2>2, <2>3 DEF Life!Next
<1>7. CASE Op(p) = "ship"
  <2>1. Sent' = Sent
    BY <1>1, <1>7, MessagesOf
  <2>2. /\ k \in Shipment /\ rows[k] # Absent /\ Cmd[p].tracking \in Tracking
        /\ Postgres => rows[k].version = 1
        /\ rows'[k] = Life!Shipped(rows[k].order, Cmd[p].tracking)
    BY <1>7, WriteOf, Commands
  <2>3. rows[k].status \in {"preparing", "shipped"}
    BY <1>1, <1>7, <2>2, RowOf, ShipmentFields
  <2>4. Postgres => rows[k].status = "preparing"
    BY <1>1, <1>7, <2>2, RowOf, ShipmentFields
  <2>5. Life!Ship(k, Cmd[p].tracking)
    BY <1>1, <2>1, <2>2, <2>3, <2>4 DEF Life!Ship, Life!Write, Life!Before
  <2> QED
    BY <1>3, <2>2, <2>5 DEF Life!Next
<1> QED
  BY <1>4, <1>5, <1>6, <1>7, Commands

LEMMA LifeStep == IInv /\ [Next]_vars => [Life!Next]_(Life!vars)
<1> SUFFICES ASSUME IInv, [Next]_vars PROVE [Life!Next]_(Life!vars)
  OBVIOUS
<1>1. pc = [q \in Request |-> pc[q]] /\ key \in [Request -> Key \cup {None}]
  BY DEF IInv, TypesInv
<1>2. CASE UNCHANGED vars
  <2>1. UNCHANGED <<backend, rows, log, pc, key>>
    BY <1>2 DEF vars, storeVars
  <2>2. Sent' = Sent
    BY <2>1 DEF Sent, OnTheWay, Messages
  <2> QED
    BY <2>1, <2>2 DEF Life!vars, Postgres
<1>3. ASSUME NEW p \in Request, Commit(p)
      PROVE  Life!Next
  <2>1. /\ pc[p] = "commit" /\ Put(p) /\ log' = log \cup Messages(p)
        /\ UNCHANGED <<backend, key>>
        /\ pc'[p] # "stage" /\ \A q \in Request \ {p} : pc'[q] = pc[q]
    BY <1>1, <1>3 DEF Commit, Enqueue, Move, Abort
  <2>2. OnTheWay' = OnTheWay
    BY <2>1 DEF OnTheWay
  <2>3. \A q \in Request : Messages(q)' = Messages(q)
    BY <2>1 DEF Messages
  <2>4. Sent' = Sent \cup Messages(p)
    BY <2>1, <2>2, <2>3 DEF Sent, OnTheWay
  <2> QED
    BY <2>1, <2>4, LifeCommit
<1>4. ASSUME NEW p \in Request, CommitRows(p)
      PROVE  Life!Next
  <2>1. /\ pc[p] = "commit" /\ Put(p) /\ UNCHANGED <<log, backend, key>>
        /\ pc'[p] = "stage" /\ \A q \in Request \ {p} : pc'[q] = pc[q]
    BY <1>1, <1>4 DEF CommitRows, Move
  <2>2. OnTheWay' = OnTheWay \cup {p}
    BY <2>1 DEF OnTheWay
  <2>3. \A q \in Request : Messages(q)' = Messages(q)
    BY <2>1 DEF Messages
  <2>4. Sent' = Sent \cup Messages(p)
    BY <2>1, <2>2, <2>3 DEF Sent, OnTheWay
  <2> QED
    BY <2>1, <2>4, LifeCommit
<1>5. ASSUME NEW p \in Request, CommitStaged(p)
      PROVE  UNCHANGED <<backend, rows>> /\ Sent' = Sent
  <2>1. /\ pc[p] = "stage" /\ log' = log \cup Messages(p)
        /\ UNCHANGED <<backend, rows, key>>
        /\ pc'[p] # "stage" /\ \A q \in Request \ {p} : pc'[q] = pc[q]
    BY <1>1, <1>5 DEF CommitStaged, Enqueue, Move
  <2>2. OnTheWay' = OnTheWay \ {p} /\ p \in OnTheWay
    BY <2>1 DEF OnTheWay
  <2>3. \A q \in Request : Messages(q)' = Messages(q)
    BY <2>1 DEF Messages
  <2> QED
    BY <2>1, <2>2, <2>3 DEF Sent, OnTheWay
<1>6. ASSUME NEW p \in Request,
             \/ Reserve(p) \/ Check(p) \/ Load(p) \/ Save(p) \/ Reject(p)
             \/ Conflict(p) \/ Retry(p) \/ DeliverSync(p) \/ Read(p)
             \/ Compensate(p) \/ Begin(p) \/ Fail(p)
      PROVE  UNCHANGED <<backend, rows>> /\ Sent' = Sent
  <2>1. UNCHANGED <<backend, rows, log>>
    BY <1>6 DEF Reserve, Check, Load, Save, Reject, Conflict, Retry,
                DeliverSync, Read, Compensate, Begin, Use, Fail, storeVars
  <2>2. pc[p] # "stage"
    BY <1>6 DEF Reserve, Check, Load, Save, Reject, Conflict, CanWrite, Retry,
                DeliverSync, Read, Compensate, Begin, Use, Fail, Move
  <2>3. \E to \in {"idle", "reserve", "check", "load", "save", "backoff",
                   "commit", "read", "release", "done"} :
          pc' = [pc EXCEPT ![p] = to]
    BY <1>6 DEF Reserve, Check, Load, Save, Reject, Conflict, Retry,
                DeliverSync, Read, Compensate, Begin, Use, Fail, Move, Finish,
                Abort
  <2>4. key' = key \/ \E k \in Key : key' = [key EXCEPT ![p] = k]
    BY <1>6, Commands
       DEF Reserve, Check, Load, Save, Reject, Conflict, Retry, DeliverSync,
           Read, Compensate, Begin, Use, Fail, Op, Key
  <2>5. pc'[p] # "stage"
    BY <1>1, <2>3
  <2>6. \A q \in Request \ {p} : pc'[q] = pc[q] /\ key'[q] = key[q]
    BY <1>1, <2>3, <2>4
  <2> QED
    BY <2>1, <2>2, <2>5, <2>6, SentKept
<1>7. ASSUME NEW p \in Request, Begin(p) \/ Step(p) \/ Fail(p)
      PROVE  Life!Next \/ UNCHANGED Life!vars
  BY <1>3, <1>4, <1>5, <1>6, <1>7 DEF Step, Life!vars, Postgres
<1> QED
  BY <1>2, <1>7 DEF Next

(* Every behaviour over either store is one of the abstract life: a        *)
(* command takes effect in one step together with its message, or not at   *)
(* all, and over PostgreSQL an order is cancelled and a shipment sent at   *)
(* most once (order_store.go, shipment_store.go, memory/uow.go commit).    *)
THEOREM OrderLifeImplemented == Spec => ImplementsOrderLife
<1>1. Spec => Life!Init /\ [][Life!Next]_(Life!vars)
  BY InvHolds, LifeInit, LifeStep, PTL DEF Spec
<1> QED
  BY <1>1 DEF ImplementsOrderLife, Life!Spec

-----------------------------------------------------------------------------
(* What OrderLife's steps keep of its messages, and with them the commands.*)
LEMMA LifeKeepsTold ==
  ASSUME Life!ToldOnce, rows \in [Key -> Row], Life!Next \/ UNCHANGED Life!vars
  PROVE  Life!ToldOnce'
<1> DEFINE sent == Sent
           told(m) == /\ rows[m.order] # Absent
                      /\ m.kind = "OrderCancelled"
                           => rows[m.order].status = "cancelled"
<1>1. /\ sent \subseteq Life!Message
      /\ \A m \in sent : told(m)
      /\ \A o \in Order : rows[o].status = "cancelled" =>
           \E m \in sent : m.kind = "OrderCancelled" /\ m.order = o
      /\ \A m, n \in sent : ~ Life!Twice(m, n)
  BY DEF Life!ToldOnce, Life!Absent, Absent
<1>2. \A m \in Life!Message : m.order \in Order
                              /\ m.kind \in {"ConfirmReservation", "OrderCancelled"}
  BY DEF Life!Message
<1>3. Order \subseteq Key /\ Shipment \subseteq Key /\ Order \cap Shipment = {}
  BY KeyAssumption DEF Key
<1>4. Postgres' = Postgres
  BY DEF Life!Next, Life!vars
<1> HIDE DEF sent
<1>5. ASSUME UNCHANGED <<rows, sent>>
      PROVE  Life!ToldOnce'
  BY <1>1, <1>4, <1>5 DEF Life!ToldOnce, Life!Twice, Life!Absent, Absent, sent
<1>6. ASSUME NEW s \in Shipment, NEW row, rows' = [rows EXCEPT ![s] = row],
             sent' = sent
      PROVE  Life!ToldOnce'
  <2>1. \A o \in Order : rows'[o] = rows[o]
    BY <1>3, <1>6
  <2> QED
    BY <1>1, <1>2, <1>4, <1>6, <2>1
       DEF Life!ToldOnce, Life!Twice, Life!Absent, Absent, sent
<1>7. ASSUME NEW o \in Order, NEW m \in Life!Message, m.order = o, m \notin sent,
             sent' = sent \cup {m}, NEW row, rows' = [rows EXCEPT ![o] = row],
             row # Absent, m.kind = "OrderCancelled" => row.status = "cancelled",
             row.status = "cancelled" => m.kind = "OrderCancelled",
             rows[o].status = "cancelled" => row.status = "cancelled",
             \A n \in sent : n.order = o /\ n.kind = m.kind
               => ~ Postgres /\ m.kind # "ConfirmReservation"
      PROVE  Life!ToldOnce'
  <2>1. /\ rows'[o] = row
        /\ \A u \in Order : u # o => rows'[u] = rows[u]
    BY <1>3, <1>7
  <2>2. sent' \subseteq Life!Message
    BY <1>1, <1>7
  <2>3. \A n \in sent' : /\ rows'[n.order] # Absent
                         /\ n.kind = "OrderCancelled"
                              => rows'[n.order].status = "cancelled"
    <3>1. ASSUME NEW n \in sent
          PROVE  /\ rows'[n.order] # Absent
                 /\ n.kind = "OrderCancelled"
                      => rows'[n.order].status = "cancelled"
      <4>1. CASE n.order = o
        BY <1>1, <1>7, <2>1, <4>1
      <4>2. CASE n.order # o
        BY <1>1, <1>2, <2>1, <4>2
      <4> QED
        BY <4>1, <4>2
    <3> QED
      BY <1>7, <2>1, <3>1
  <2>4. \A u \in Order : rows'[u].status = "cancelled" =>
          \E n \in sent' : n.kind = "OrderCancelled" /\ n.order = u
    BY <1>1, <1>7, <2>1
  <2>5. \A n, q \in sent' : n # q /\ n.kind = q.kind /\ n.order = q.order
          => ~ Postgres' /\ n.kind # "ConfirmReservation"
    <3>1. \A n, q \in sent : n # q /\ n.kind = q.kind /\ n.order = q.order
            => ~ Postgres /\ n.kind # "ConfirmReservation"
      BY <1>1 DEF Life!Twice
    <3> QED
      BY <1>4, <1>7, <3>1
  <2> QED
    BY <2>2, <2>3, <2>4, <2>5
       DEF Life!ToldOnce, Life!Twice, Life!Absent, Absent, sent
<1>8. ASSUME NEW o \in Order, NEW m \in Life!Message, Life!Place(o, m)
      PROVE  Life!ToldOnce'
  <2> DEFINE row == Life!Confirmed(o)
  <2>1. /\ m.kind = "ConfirmReservation" /\ m.order = o /\ rows[o] = Absent
        /\ rows' = [rows EXCEPT ![o] = row]
        /\ m \notin sent /\ sent' = sent \cup {m}
    BY <1>8 DEF Life!Place, Life!Write, Life!Tell, Life!Absent, Absent, sent
  <2>2. row # Absent /\ row.status = "confirmed" /\ Absent.status = "none"
    BY DEF Life!Confirmed, Absent
  <2>3. \A n \in sent : n.order # o
    BY <1>1, <2>1
  <2> HIDE DEF row
  <2> QED
    BY <1>7, <2>1, <2>2, <2>3
<1>9. ASSUME NEW o \in Order, NEW m \in Life!Message, Life!Cancel(o, m)
      PROVE  Life!ToldOnce'
  <2> DEFINE row == Life!Cancelled(o)
  <2>1. /\ m.kind = "OrderCancelled" /\ m.order = o
        /\ rows[o].status \in Life!Before("confirmed", "cancelled")
        /\ rows' = [rows EXCEPT ![o] = row]
        /\ m \notin sent /\ sent' = sent \cup {m}
    BY <1>9 DEF Life!Cancel, Life!Write, Life!Tell, sent
  <2>2. row # Absent /\ row.status = "cancelled"
    BY DEF Life!Cancelled, Absent
  <2>3. \A n \in sent : n.order = o /\ n.kind = m.kind
          => ~ Postgres /\ m.kind # "ConfirmReservation"
    BY <1>1, <2>1 DEF Life!Before
  <2>4. m.kind = "OrderCancelled" => row.status = "cancelled"
    BY <2>2
  <2> HIDE DEF row, sent
  <2> QED
    BY <1>7, <2>1, <2>2, <2>3, <2>4
<1>10. ASSUME NEW s \in Shipment,
              \/ \E o \in Order : Life!Prepare(s, o)
              \/ \E t \in Tracking : Life!Ship(s, t)
       PROVE  Life!ToldOnce'
  BY <1>6, <1>10 DEF Life!Prepare, Life!Ship, Life!Write, sent
<1> QED
  BY <1>5, <1>8, <1>9, <1>10 DEF Life!Next, Life!vars, sent

(* Over either store the messages of the orders are true and complete, and *)
(* over PostgreSQL there is one of each kind: the other context is never   *)
(* told to confirm or to free the stock of an order that it should not     *)
(* (order_store.go, memory/uow.go commit; order.go: NewOrder, Cancel).     *)
THEOREM MessagesAreTrue == Spec => []Life!ToldOnce
<1>1. Life!Init => Life!ToldOnce
  BY DEF Life!Init, Life!ToldOnce, Life!Absent, Life!Confirmed
<1>2. IInv => rows \in [Key -> Row]
  BY TypesFollow DEF TypeOK
<1>3. IInv /\ Life!ToldOnce /\ [Life!Next]_(Life!vars) => Life!ToldOnce'
  BY <1>2, LifeKeepsTold
<1>4. Spec => Life!Init /\ [][Life!Next]_(Life!vars)
  BY OrderLifeImplemented DEF ImplementsOrderLife, Life!Spec
<1> QED
  BY <1>1, <1>3, <1>4, InvHolds, PTL
=============================================================================
