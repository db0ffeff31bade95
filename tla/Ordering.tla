------------------------------ MODULE Ordering ------------------------------
(***************************************************************************)
(* Orders and shipments: the four commands of the ordering context over    *)
(* its stores, each run by the handler of one HTTP request, which reads    *)
(* the aggregate back for its answer after the command returned.           *)
(*                                                                         *)
(* A command loads a row, changes it and saves it against the version it   *)
(* read, in a unit of work that is tried again after a conflict.  Over     *)
(* PostgreSQL the update locks the row until the transaction ends; in      *)
(* memory the version is checked when the write is staged, and the commit  *)
(* writes without looking.                                                 *)
(***************************************************************************)
EXTENDS Integers, FiniteSets

CONSTANTS
  Order, Shipment, Tracking, Request,
  Cmd,          \* the command of each request
  Amount,       \* the exact sum of price times quantity over an order's lines
  Half,         \* amounts are kept modulo 2 * Half, from -Half on
  MaxAttempts,  \* tries of a unit of work
  Backends,     \* the stores the context may be built over
  Workload,     \* what may come: the rows at the start, and the requests
  None

ASSUME HalfAssumption == Half \in Nat \ {0}
ASSUME AmountAssumption == Amount \in [Order -> Nat]
ASSUME AttemptsAssumption == MaxAttempts \in Nat \ {0}
ASSUME BackendsAssumption == Backends \subseteq {"postgres", "memory"}

(* Orders and shipments have a table each.                                 *)
Key == Order \cup Shipment

ASSUME KeyAssumption ==
  Order \cap Shipment = {} /\ None \notin Key \cup Request

Command ==
  [op : {"place"}]
    \cup [op : {"cancel", "prepare"}, order : Order]
    \cup [op : {"ship"}, shipment : Shipment, tracking : Tracking]

ASSUME CommandAssumption == Cmd \in [Request -> Command]

Refusals == {"not_found", "not_confirmed", "not_preparing", "invalid",
             "conflict", "no_stock"}

VARIABLES
  backend,
  rows,         \* the committed rows of orders and shipments
  queue,        \* messages stored and not yet published: the outbox table
  log,          \* messages ever stored: the events table
  held,         \* orders whose stock the inventory holds
  lock,         \* who locked a row
  pc,           \* how far a request has come
  key,          \* the row its command writes
  copy,         \* the aggregate it works on
  tries,        \* conflicts so far
  answer,
  effect        \* history: requests whose command took effect

storeVars == <<rows, queue, log, held, effect>>
vars == <<backend, storeVars, lock, pc, key, copy, tries, answer>>

Message == [kind : {"ConfirmReservation", "OrderCancelled"},
            order : Order, by : Request]

-----------------------------------------------------------------------------
(* Money.Add and Money.Mul do not check: sums and products of 64 bits are  *)
(* those of the integers modulo the width, so the order of adding up and   *)
(* the intermediate results do not matter.                                 *)
Wrap(n) == ((n + Half) % (2 * Half)) - Half

Total == [o \in Order |-> Wrap(Amount[o])]

Absent == [status |-> "none", version |-> 0]

NewOrder(o) == [status |-> "confirmed", version |-> 0, total |-> Total[o]]

NewShipment(o) ==
  [status |-> "preparing", version |-> 0, order |-> o, tracking |-> "none"]

Successor(row) == [row EXCEPT !.version = @ + 1]

(* What is there at the start was stored when it was made.                 *)
ASSUME WorkloadAssumption ==
  \A w \in Workload : \A k \in DOMAIN w.rows :
    /\ k \in Order => w.rows[k] = Successor(NewOrder(k))
    /\ k \in Shipment => \E o \in Order : w.rows[k] = Successor(NewShipment(o))

(* A stored row that makes no aggregate: NewMoney refuses a negative total. *)
Unreadable(row) == "total" \in DOMAIN row /\ row.total < 0

Postgres == backend = "postgres"

(* Mutant: the update has no condition on the version.                     *)
AnyVersion(p) == TRUE

(* The store's Save gives the row the next version, and insists that the   *)
(* stored one is the version the aggregate has: none for a new one.        *)
Current(p) == rows[key[p]].version = copy[p].version

(* The message a command stores with its aggregate.                        *)
Messages(p) ==
  CASE Cmd[p].op = "place" ->
         {[kind |-> "ConfirmReservation", order |-> key[p], by |-> p]}
    [] Cmd[p].op = "cancel" ->
         {[kind |-> "OrderCancelled", order |-> key[p], by |-> p]}
    [] OTHER -> {}

-----------------------------------------------------------------------------
(* The rows of the workload are there already and what was stored with     *)
(* them is published: an order holds its stock.                            *)
Init ==
  /\ backend \in Backends
  /\ \E w \in Workload :
       /\ rows = [k \in Key |-> IF k \in DOMAIN w.rows THEN w.rows[k]
                                ELSE Absent]
       /\ pc = [p \in Request |-> IF p \in w.requests THEN "idle"
                                  ELSE "done"]
  /\ queue = {} /\ log = {}
  /\ held = {o \in Order : rows[o].status = "confirmed"}
  /\ lock = [k \in Key |-> None]
  /\ key = [p \in Request |-> None]
  /\ copy = [p \in Request |-> Absent]
  /\ tries = [p \in Request |-> 0]
  /\ answer = [p \in Request |-> "none"]
  /\ effect = {}

Move(p, from, to) == pc[p] = from /\ pc' = [pc EXCEPT ![p] = to]

(* The command returned an error; PlaceOrder releases what it reserved.    *)
Abort(p, a) ==
  /\ pc' = [pc EXCEPT ![p] = IF Cmd[p].op = "place" THEN "release"
                             ELSE "done"]
  /\ answer' = [answer EXCEPT ![p] = a]

Finish(p, a) ==
  /\ pc' = [pc EXCEPT ![p] = "done"]
  /\ answer' = [answer EXCEPT ![p] = a]

Unlock(p) == lock' = [k \in Key |-> IF lock[k] = p THEN None ELSE lock[k]]

-----------------------------------------------------------------------------
(* A request comes.  Identifiers the context draws are new ones.           *)
Fresh(k) == rows[k] = Absent /\ \A q \in Request : key[q] # k

Use(p, k, row, to) ==
  /\ Move(p, "idle", to)
  /\ key' = [key EXCEPT ![p] = k]
  /\ copy' = [copy EXCEPT ![p] = row]
  /\ UNCHANGED <<backend, storeVars, lock, tries, answer>>

Begin(p) ==
  \/ /\ Cmd[p].op = "place"
     /\ \E o \in Order : Fresh(o) /\ Use(p, o, NewOrder(o), "reserve")
  \/ Cmd[p].op = "cancel" /\ Use(p, Cmd[p].order, Absent, "load")
  \/ Cmd[p].op = "ship" /\ Use(p, Cmd[p].shipment, Absent, "load")
  \/ /\ Cmd[p].op = "prepare"
     /\ \E s \in Shipment :
          Fresh(s) /\ Use(p, s, NewShipment(Cmd[p].order), "check")

(* PlaceOrder.Handle reserves before it stores.  Whatever the error of the *)
(* call, it is returned as it is: a reservation it may have made is left   *)
(* to the inventory's reaper.                                              *)
Reserve(p) ==
  /\ pc[p] = "reserve"
  /\ \/ /\ held' = held \cup {key[p]}
        /\ Move(p, "reserve", "save") /\ UNCHANGED answer
     \/ Finish(p, "no_stock") /\ UNCHANGED held
     \/ Finish(p, "error") /\ held' \in {held, held \cup {key[p]}}
  /\ UNCHANGED <<backend, rows, queue, log, effect, lock, key, copy, tries>>

(* What the command answers when it meets this row, "none" to go on.       *)
Refusal(p, row) ==
  CASE row = Absent -> "not_found"
    [] Unreadable(row) -> "invalid"
    [] Cmd[p].op = "ship" /\ row.status # "preparing" -> "not_preparing"
    [] Cmd[p].op # "ship" /\ row.status # "confirmed" -> "not_confirmed"
    [] OTHER -> "none"

(* PrepareShipment reads the order before its transaction.                 *)
Check(p) ==
  /\ pc[p] = "check"
  /\ LET r == Refusal(p, rows[Cmd[p].order])
     IN  IF r = "none" THEN Move(p, "check", "save") /\ UNCHANGED answer
         ELSE Finish(p, r)
  /\ UNCHANGED <<backend, storeVars, lock, key, copy, tries>>

(* Order.Cancel, Shipment.MarkShipped.                                     *)
Changed(p, row) ==
  IF Cmd[p].op = "cancel" THEN [row EXCEPT !.status = "cancelled"]
  ELSE [row EXCEPT !.status = "shipped", !.tracking = Cmd[p].tracking]

Load(p) ==
  /\ pc[p] = "load"
  /\ LET row == rows[key[p]]
         r == Refusal(p, row)
     IN  IF r = "none"
         THEN /\ Move(p, "load", "save") /\ UNCHANGED answer
              /\ copy' = [copy EXCEPT ![p] = Changed(p, row)]
         ELSE Finish(p, r) /\ UNCHANGED copy
  /\ UNCHANGED <<backend, storeVars, lock, key, tries>>

(* Save.  In PostgreSQL the statement waits for the row's lock and then    *)
(* looks at the version; a negative total fails the column's CHECK.        *)
CanWrite(p) == pc[p] = "save" /\ (Postgres => lock[key[p]] = None)

Save(p) ==
  /\ CanWrite(p) /\ Current(p) /\ (Postgres => ~Unreadable(copy[p]))
  /\ Move(p, "save", "commit")
  /\ lock' = IF Postgres THEN [lock EXCEPT ![key[p]] = p] ELSE lock
  /\ UNCHANGED <<backend, storeVars, key, copy, tries, answer>>

Reject(p) ==
  /\ pc[p] = "save" /\ Postgres /\ Unreadable(copy[p])
  /\ Abort(p, "error")
  /\ UNCHANGED <<backend, storeVars, lock, key, copy, tries>>

(* Mutant: the unit of work is not tried again.                            *)
ConflictAtOnce(p) ==
  /\ CanWrite(p) /\ ~Current(p)
  /\ Abort(p, "conflict")
  /\ UNCHANGED <<backend, storeVars, lock, key, copy, tries>>

(* uow.Run: after a conflict, and only then, the unit of work is tried     *)
(* again, from the load on, as often as it may.                            *)
Conflict(p) ==
  /\ CanWrite(p) /\ ~Current(p)
  /\ tries' = [tries EXCEPT ![p] = @ + 1]
  /\ IF tries'[p] = MaxAttempts THEN Abort(p, "conflict")
     ELSE Move(p, "save", "backoff") /\ UNCHANGED answer
  /\ UNCHANGED <<backend, storeVars, lock, key, copy>>

Retry(p) ==
  /\ Move(p, "backoff", IF Cmd[p].op \in {"cancel", "ship"} THEN "load"
                        ELSE "save")
  /\ UNCHANGED <<backend, storeVars, lock, key, copy, tries, answer>>

(* The commit; its answer may be lost.                                     *)
Put(p) ==
  /\ rows' = [rows EXCEPT ![key[p]] = Successor(copy[p])]
  /\ effect' = effect \cup {p}

(* Mutant: the message is queued and not logged.                           *)
EnqueueOnly(p) == queue' = queue \cup Messages(p) /\ UNCHANGED log

Enqueue(p) ==
  /\ queue' = queue \cup Messages(p)
  /\ log' = log \cup Messages(p)

(* Mutant: an error of the commit is tried again like a conflict.          *)
CommitOrRetry(p) ==
  /\ Postgres /\ pc[p] = "commit"
  /\ Put(p) /\ Enqueue(p) /\ Unlock(p)
  /\ Move(p, "commit", "read") \/ Move(p, "commit", "backoff")
  /\ UNCHANGED <<backend, held, key, copy, tries, answer>>

Commit(p) ==
  /\ Postgres /\ pc[p] = "commit"
  /\ Put(p) /\ Enqueue(p) /\ Unlock(p)
  /\ \/ Move(p, "commit", "read") /\ UNCHANGED answer
     \/ Abort(p, "error")
  /\ UNCHANGED <<backend, held, key, copy, tries>>

(* The in-memory commit: the rows, then the messages, each under a lock of *)
(* its own, then each message is published, once.                          *)
CommitRows(p) ==
  /\ ~Postgres /\ Move(p, "commit", "stage")
  /\ Put(p)
  /\ UNCHANGED <<backend, queue, log, held, lock, key, copy, tries, answer>>

CommitStaged(p) ==
  /\ Move(p, "stage", "deliver")
  /\ Enqueue(p)
  /\ UNCHANGED <<backend, rows, held, effect, lock, key, copy, tries, answer>>

(* The inventory's answer to a message: a cancellation releases the stock. *)
Received(m) ==
  IF m.kind = "OrderCancelled" THEN held \ {m.order} ELSE held

(* Mutant: the message is marked as published whatever the sink answered.  *)
DeliverAndForget(p) ==
  /\ Move(p, "deliver", "read")
  /\ held' \in {held} \cup {Received(m) : m \in Messages(p)}
  /\ queue' = queue \ Messages(p)
  /\ UNCHANGED <<backend, rows, log, effect, lock, key, copy, tries, answer>>

DeliverSync(p) ==
  /\ Move(p, "deliver", "read")
  /\ \/ \E m \in Messages(p) : held' = Received(m) /\ queue' = queue \ {m}
     \/ \E m \in Messages(p) : held' \in {held, Received(m)}
                                 /\ UNCHANGED queue
     \/ Messages(p) = {} /\ UNCHANGED <<held, queue>>
  /\ UNCHANGED <<backend, rows, log, effect, lock, key, copy, tries, answer>>

(* The handler reads the aggregate back for the answer.                    *)
Read(p) ==
  /\ pc[p] = "read"
  /\ Finish(p, IF Unreadable(rows[key[p]]) THEN "invalid" ELSE "ok")
  /\ UNCHANGED <<backend, storeVars, lock, key, copy, tries>>

(* Mutant: the transaction that failed is not rolled back.                 *)
FailUnended(p) ==
  /\ Postgres /\ pc[p] \in {"check", "load", "save", "commit"}
  /\ Abort(p, "error")
  /\ UNCHANGED <<backend, storeVars, lock, key, copy, tries>>

(* A statement fails or the request's context ends.                        *)
Fail(p) ==
  /\ \/ pc[p] = "backoff"
     \/ Postgres /\ pc[p] \in {"check", "load", "save", "commit", "read"}
  /\ IF pc[p] = "read" THEN Finish(p, "error") ELSE Abort(p, "error")
  /\ Unlock(p)
  /\ UNCHANGED <<backend, storeVars, key, copy, tries>>

(* PlaceOrder.releaseCompensating: an error is only logged.                *)
Compensate(p) ==
  /\ Move(p, "release", "done")
  /\ held' \in {held, held \ {key[p]}}
  /\ UNCHANGED <<backend, rows, queue, log, effect, lock, key, copy, tries,
                 answer>>

Step(p) ==
  \/ Reserve(p) \/ Check(p) \/ Load(p) \/ Save(p) \/ Reject(p)
  \/ Conflict(p) \/ Retry(p) \/ Commit(p) \/ CommitRows(p)
  \/ CommitStaged(p) \/ DeliverSync(p) \/ Read(p) \/ Compensate(p)

Next == \E p \in Request : Begin(p) \/ Step(p) \/ Fail(p)

Spec == Init /\ [][Next]_vars

(* A request that came is served: its goroutine runs, calls return.        *)
FairSpec == Spec /\ \A p \in Request : WF_vars(Step(p))

-----------------------------------------------------------------------------
Row ==
  {Absent}
  \cup [status : {"confirmed", "cancelled"}, version : Nat,
        total : -Half .. Half - 1]
  \cup [status : {"preparing", "shipped"}, version : Nat, order : Order,
        tracking : Tracking \cup {"none"}]

TypeOK ==
  /\ backend \in Backends
  /\ rows \in [Key -> Row]
  /\ queue \subseteq log /\ log \subseteq Message
  /\ held \subseteq Order
  /\ lock \in [Key -> Request \cup {None}]
  /\ pc \in [Request -> {"idle", "reserve", "check", "load", "save",
                         "backoff", "commit", "stage", "deliver", "read",
                         "release", "done"}]
  /\ key \in [Request -> Key \cup {None}]
  /\ copy \in [Request -> Row]
  /\ tries \in [Request -> 0 .. MaxAttempts]
  /\ answer \in [Request -> Refusals \cup {"none", "ok", "error"}]
  /\ effect \subseteq Request

(* A caller may rely on a definite answer: "ok" came of a command that     *)
(* took effect, and an order placed so keeps its stock until it is         *)
(* cancelled; a refusal came of one that changed nothing, although units   *)
(* of work are repeated, and although the handler reads again after the    *)
(* command, but for an order of the in-memory store that cannot be read    *)
(* (uow.go Run, handler.go).                                               *)
AnswersTrue ==
  \A p \in Request :
    /\ answer[p] = "ok" =>
         /\ p \in effect
         /\ Cmd[p].op = "place" /\ rows[key[p]].status = "confirmed"
              => key[p] \in held
    /\ answer[p] \in Refusals /\ p \in effect
         => ~Postgres /\ Unreadable(rows[key[p]])

(* Nobody is answered a conflict of versions: the winner of an order or a  *)
(* shipment leaves nothing to win, so that the second attempt finds it     *)
(* cancelled or shipped.  One retry is needed and is enough (uow.go Run,   *)
(* order.go Cancel, shipment.go MarkShipped).                              *)
NoConflictAnswered == \A p \in Request : answer[p] # "conflict"

(* A message leaves the queue only when the other context has acted on it, *)
(* and a cancelled order that still holds stock has its cancellation in    *)
(* the queue or on its way: a delivery that fails after the commit is kept *)
(* (memory/uow.go deliverSync, commit; pgx unit of work).                  *)
NothingDropped ==
  \A o \in held :
    rows[o].status = "cancelled" =>
      \/ \E m \in queue : m.kind = "OrderCancelled" /\ m.order = o
      \/ \E p \in Request : pc[p] = "stage" /\ key[p] = o

(* Every request comes to an end, whatever row it waits for (pgxuow.go     *)
(* Within: every path ends the transaction).                               *)
RequestsEnd == \A p \in Request : pc[p] # "idle" ~> pc[p] = "done"

(* Each command is one step of the abstract life of orders and shipments,  *)
(* with its message: one cancellation and one dispatch at most over        *)
(* PostgreSQL, and in memory what a second writer repeats, never what a    *)
(* command that failed left behind (order_store.go, shipment_store.go).    *)
OnTheWay == {p \in Request : pc[p] = "stage"}

Sent == log \cup UNION {Messages(p) : p \in OnTheWay}

Life == INSTANCE OrderLife WITH
  Sender <- Request, guarded <- Postgres, log <- Sent

ImplementsOrderLife == Life!Spec
=============================================================================
