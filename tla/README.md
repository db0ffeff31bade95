# Verification of the go-ddd-template services

This directory specifies the two services of the repository in TLA+, model-checks
the specifications with TLC on small instances and proves theorems about them
with TLAPS. Every definition is translated from the Go source (and its SQL);
`PROJECT.json` maps each definition to the lines it stands for.

    tlc -config Stock.cfg MCStockTxn.tla            # any of the runs below
    tlapm InventoryProofs.tla                       # the theorems

## 1. Inventory of the system

Two bounded contexts, `ordering` and `inventory`, run as two processes or as one.
Each is hexagonal: a domain package, application use cases, inbound adapters
(HTTP) and outbound adapters (PostgreSQL, or in memory when no database is
configured). `src/shared` holds the mechanics they have in common.

| Component | State it keeps | Operations | Interacts with |
|---|---|---|---|
| `StockItem` aggregate, `ReservationService` (inventory/internal/domain) | available units, reservations by reference with status, quantity and deadline; reserved is derived | Replenish, Reserve, Confirm, Release, ReapExpired; Allocate over several SKUs | called by the use cases on loaded copies |
| Inventory use cases (inventory/internal/application, inventory.go) | none | Replenish, Reserve, Confirm, Release, Sweep; the reaper loop | stores through a unit of work; called by HTTP, by messages and by the ticker |
| `shared/uow` and `pgxuow` | none between calls | Run (retry on conflict), Within (begin, commit, roll back) | every use case |
| PostgreSQL stock store | `stock_items` with a version, `stock_reservations` | Load, LoadMany, LoadByReservation, LoadExpiredPending, Save | transactions of other requests, by row locks |
| In-memory stock store | maps of rows under a mutex, staged rows of a transaction | the same port | other goroutines |
| Order and Shipment aggregates (ordering/internal/domain) | order status, lines, amounts; shipment status | NewOrder, Cancel; Prepare, MarkShipped | the ordering use cases |
| Ordering use cases | none | PlaceOrder, CancelOrder, PrepareShipment, MarkShipped, queries | reserve/release in inventory over HTTP; messages ConfirmReservation and OrderCancelled |
| Ordering stores | orders, shipments, staged rows and messages | Save, Load | other goroutines or transactions |
| Transactional outbox and relay (`shared/outbox`, outbox tables) | unpublished messages in order | Enqueue with the commit, Unpublished, Publish, MarkPublished; synchronous delivery after an in-memory commit | publisher posts to the other context's event endpoint |
| Inventory subscriber | none | OnConfirmReservation, OnOrderCancelled | Confirm and Release |
| Money, Quantity | values | NewMoney, Mul, Add, bounds | the aggregates |
| Process life cycle (`shared/serve`, `shared/worker`) | servers, their errors, requests in progress | start, failure, signal, shutdown within one grace period | the HTTP servers; reaper and relay loops |
| Three HTTP contracts: generated servers (`openapi`, `openapiinternal`), their handlers and error translation, the generated client (`invclient`) and its adapters | none between requests | route, decode, validate, call, encode; map errors to statuses, codes and places in the request | clients, use cases, the other context |
| Correlation, logging, in-process events, ids | none that matters to correctness | | |

### Where it is hard

* Requests for the same stock run at the same time, in one process and in
  several. Every use case loads, computes on copies and saves; PostgreSQL runs at
  read committed, one statement after another, with a version in each row.
* A load is two statements (the row, then its reservations), and by reference it
  is three (the list of items first). Each sees a different moment.
* Save writes the items of an order one after another in the order of its lines,
  holding row locks, so requests can wait for each other in a circle.
* `uow.Run` starts over on a version conflict, at most a fixed number of times, and
  gives up at once on anything else. A commit's answer can be lost.
* Reservations are made before the order exists (two phases); only a confirmation
  takes their deadline away. A reaper gives expired ones back, in batches, while
  confirmations and releases may be on their way.
* The in-memory adapter checks versions and installs rows in two critical sections.
* An order or a shipment is written by two commands at once; in memory the commit
  writes rows and messages one after another and publishes after it, once.
* The handler of a command reads the aggregate back; that read can fail although the
  command took effect.
* One error passes through four layers (domain, use case, adapter, contract), in two
  contexts and two generated copies of one contract, before a client reads it.
* Several servers share a process, a channel of errors and one grace period.
* Messages are delivered at least once, in order, by a relay that can crash between
  publishing a message and recording that it did.

### What makes each component correct

* *Stock items*: units are neither lost nor sold twice; a hold ends.
* *Use cases*: all items of an order or none; an order is torn only by the reaper
  and only past its deadline.
* *Stores and units of work*: concurrent transactions have the effect of the atomic
  use cases, in some order; a request retries only when it lost a race; nobody keeps
  a lock that nobody needs; every request ends.
* *Outbox*: a committed message is delivered in the end, never before its commit and
  never ahead of what was committed when it was built; a repeated delivery changes nothing.
* *The seam*: an order its client was told of keeps its stock until it is cancelled, or
  the divergence is one the code documents; stock of an order that failed or was
  cancelled becomes free, and only a stored order takes stock for good.
* *Ordering*: each command is one step of the life of an order or shipment, with its
  message, or has no effect; what is answered is what happened; no message is dropped.
  (An order can be cancelled while its shipment is prepared: the code accepts it.)
* *Contracts*: every answer can be read, names what is wrong by its place in the request,
  and does not take an outage for a refusal; what one context sends is what the other gets.
* *Processes*: a clean stop is reported only when every accepted request was answered; a
  signal or one failed server stops everything; nothing hangs.

## 2. Modules

    StockItem            pure operators: the aggregate and the allocation
      StockItemLemmas    what they do to units (proved)
      Inventory          atomic use cases, reaper, clock        MCInventory
        InventoryProofs  inductive invariant and theorems
      StockCommand       requests and the domain step of a transaction
        StockTxn         PostgreSQL adapter and uow.Run         MCStockTxn
          StockTxnProofs    invariants, refinement of Inventory
        StockMemory      in-memory adapter                      MCStockMemory
          StockMemoryProofs what overwritten rows keep
      Delivery           at-least-once delivery in causal order
        Outbox           outbox table, relays, lost and late calls
          OutboxProofs   inductive invariant, refinement of Delivery
      Seam               Inventory + Outbox + placing and cancelling   MCSeam
        SeamProofs       the components' theorems, and the seam's own
      OrderLife          one atomic step per command on orders and shipments
        Ordering         the commands over both stores          MCOrdering
          OrderingProofs inductive invariant, refinement of OrderLife
      Json               documents, schemas, Encode and Decode of the generated types
        Http             one exchange: decoding, error handlers, problems
          InternalApi, StockApi, OrderApi   the servers of the three contracts
          InvClient      the ordering context's client of the internal API
          UseCases       what the use cases answer to any input
      Serve              serve.Run: the servers of a process and their end
        Serving          Serve + UseCases + the contracts + PlaceOrder   MCServing
          ServingProofs  clean stops, readable answers, calls that arrive

**StockItem** has the values and operations of `stock_item.go` and
`reservation_service.go`. An item is a record of the free units and one slot per
reservation reference; an empty slot is an absent map key. `Reserved` is derived as in
the code; it is a cardinality of a set of named units, which lets the proofs do
without induction. Early returns with an error are guards (`CanReserve`,
`CanAllocate`); no-ops that succeed (a second Reserve, a Confirm or Release of
something absent) are part of the operations. Quantities are natural numbers here.

**Inventory** is the abstract specification: one action per use case, applied to the
committed items all at once. A request that fails is a stuttering step. `Sweep(t, S)`
has the time at which the reaper read its clock, not the current one, and any set of
at most `Batch` items, because `ListExpiredPendingStockItemIDs` has a LIMIT and no
ORDER BY that favours anybody. The query compares `expires_at < now`, the aggregate `<=`:
`HasOverdue` and `Reapable` keep the two apart. Expiries are computed line by
line (`stock_item.go:129` reads the clock), so lines of an order may differ.

**StockCommand** has what a request does between load and save, the same for both
adapters: `CanApply` (refusals end a request without a retry) and `Result`.

**StockTxn** takes a use case apart into its statements: `Begin` (a new attempt of
`uow.Run`), `List` (the identifiers of `LoadByReservation` and `LoadExpiredPending`),
`ReadItem` and `ReadReservations` (the two statements of a load), `Apply` (the domain
operation), `Write` (the versioned UPDATE or the INSERT guarded by the unique index,
which takes the row's lock), `Conflict` (no row matches: another attempt, or the last
one's error), `BreakDeadlock` (PostgreSQL aborts one of the requests that wait for each
other), `Commit`, and `Abort` at every point. A request that waits has no step: its
statement is re-evaluated when the lock is gone, as PostgreSQL does at read committed.
An outcome `"unknown"` is a commit whose answer was lost. The writes of an attempt stay
in its copies until its commit; no other transaction sees them earlier.

**StockMemory** has the in-memory adapter with the steps its mutex makes atomic:
`Load`, `Save` (all version checks and the staging), `Commit` (installs the staged rows
without a check).

**Delivery** is the promise of the outbox: `Create` (a message is built and knows what
was committed before it), `Commit`, `Deliver` (again and again, but for the first time
only after all it knew).

**Outbox** has the table and its relays. `Create` stamps a message with the time, before
its transaction commits (`place_order.go` builds the confirmation before `uow.Run`);
`Commit` writes the queue and the log together with the aggregate. A relay's round is
`List` (the oldest `Batch` rows), then for each row `Publish` and `Mark`, or `Fail`, which
ends the round (`RunOnce` returns at the first error). `Stop` is the end of the process, or
a delete that failed, at any point of a round. A call that failed may still be under way:
`late` holds it, and it may arrive at any time, or never. Any number of relays share the
queue, since each process of a service runs one and nothing locks the rows. All messages
are stamped by one clock that moves between two of them: the order of rows stamped by
processes with different clocks, or at the same microsecond, is not modelled.

**Seam** composes an instance of `Inventory` and one of `Outbox`, whose `Publish` and
`ArriveLate` are here the consumer's use case (`OnConfirmReservation`, which accepts a
confirmation that finds nothing, and `OnOrderCancelled`). `place[r]` is how far
`PlaceOrder.Handle` has come: *reserving* while the call is out, *abandoned* when the
request failed and the call may still arrive, *reserved*, *storing* once the confirmation
is built, *placed* when the client was told, *releasing* while the compensation is out,
*failed*. `Store` leads to *placed* or, when only the answer of the commit was lost, to
*releasing*. `Drop` ends a request anywhere. An order is cancelled by a client that knows
its identifier; two cancellations at once are the stores' business (Ordering).
Replenishments are left out of `Seam`: they only add free units.

**OrderLife** is the abstract specification of the ordering context's rows and of its event
log: `Place`, `Cancel`, `Prepare` and `Ship` each write one row and its message at once.
`guarded` is whether the store keeps concurrent writers of a row apart. Where it does not, a
second `Cancel` or `Ship` may write over the first: that is what the in-memory store promises,
and no less. Two modules implement it: `Ordering`, from below, and `Seam`, which uses orders
and their messages and no more of them than `OrderLife` promises.

**Ordering** has the four commands as the requests that run them, over either store
(`backend`). `Begin` is the handler that calls the command with identifiers drawn anew,
`Reserve` the call of phase 1, `Check` the read of `PrepareShipment` outside its transaction,
`Load`, `Save`, `Conflict`, `Retry` the unit of work in `uow.Run`, `Commit` that of PostgreSQL
(its answer may be lost), `CommitRows`, `CommitStaged` and `DeliverSync` that of the
in-memory adapter with the delivery after it, `Read` the handler's second call, `Fail` the
error of a statement or the end of the request's context at any point, `Compensate` the
release of the stock. Amounts are `int64` in the code, whose sums and products are not
checked: `Wrap` takes them modulo the width, here 16. `Reject` is the column's CHECK, and
`Unreadable` the row that the in-memory adapter stores and can never load again. `held` is
the stock as far as the ordering context can tell; its truth is in `Seam`.

**Json** treats a type of a contract as a schema that its generated `Encode` and `Decode`
follow: required and optional fields, null, unknown and repeated members, order of encoding,
a trailing document. Encoding and decoding go level by level, a scalar, a flat value, a
nested one, a deep one, a document, as no type of the contracts is nested further; each
level calls the one below, as the method of a type calls those of its fields. **Http** has
what the generated servers share: the content type, the body, the path parameters, the error
handlers, `ExtractParams` and `StatusOf` of `ogenproblem`, the problem document. Each of
**InternalApi**, **StockApi** and **OrderApi** has the schemas of its contract, the
validators, the routes, the handlers and the translation of the application's errors
(`Classify`, `jsonNames`), as its own generated and written code spells them out;
**InvClient** has the other copy of the internal contract and the adapters `aclhttp` and
`eventhttp`. **UseCases** gives for a call the refusals of the input in the order in which
the code checks, and any outcome that the state of the stores allows: the stores are the
other modules' business.

**Serve** is `serve.Run`: servers listen, fail and send their error to a channel with room for
each; `Wake` takes the signal or an error; `CloseListener`, `Drain`, `GiveUp` and `Expire` are
`Shutdown` of one server after another within one grace period; `Die` and `Exit` the return of
`main`, which cuts off what is open. **Serving** sends requests to the servers of both
processes and follows a `POST /orders` through its call to the inventory and back. Both
public servers are behind an `http.ServeMux` (`Served`): it answers the health check, and a
path that is not clean, with a dotted segment or an empty one before its end, with a
redirect to the cleaned path (`Redirects`), and hands the rest to the generated server
(`Muxed`). The internal server has no mux.

Domain events, logging and correlation are left out. Each request of `Cmd` runs
once; a caller that repeats a call is a second request with the same arguments.

## 3. Runs

| Run | Asks |
|---|---|
| `inventory` | Is any unit lost or sold twice, does a hold outlive its TTL, can anything but an expired deadline tear an order apart? (`Conservation`, `HoldBounded`, `TornOnlyByExpiry`) Does every pending reservation end when only the reaper is fair? (`PendingEnds`) |
| `inventory_torn` | Does a confirmation always take the whole order? No: finding 1. |
| `stock` | Three workloads, one of which is chosen at the start: crossed reservations with a release and a replenishment; a reservation, a sweep and a confirmation of one order with deadlines passing; two replenishments that create one SKU while a reservation waits for it. Do the transactions implement the atomic use cases, and is the mechanism sound? (`SnapshotValid`, `CheckedStaysCurrent`, `ConflictsAreEarned`, `LockedByWriter`, `ImplementsInventory`) Does every request that begins end? (`RequestsEnd`) |
| `stock_deadlock` | Is an error that is returned without a retry final? No: finding 2. |
| `memory` | Two reservations, a sweep, a confirmation and a replenishment: does a committed row of the in-memory store keep the units it started with and gain none that was not supplied, whatever overwrites it? (`RowsAddUp`) |
| `memory_lost` | Does a commit build on the committed row? No: finding 3. |
| `memory_repeated` | Is an order reserved in full or not at all? No: finding 4. |
| `outbox` | Two relays, three messages: is anything invented, lost or delivered ahead of its causes, does the queue drain? (`NothingLost`, `CausalOrder`, `ImplementsDelivery`, which implies `NothingInvented`, and `Drained`) |
| `seam` | Two orders that want the same unit, one of them with a second line: does an order keep its stock, does a cancelled or failed one give it back, whatever is lost, late or repeated? (`StockKept`, `OnlyStoredConfirmed`, `CancelledFree`, `Settles`) Does a message that comes again change nothing? (`RepeatsHarmless`) |
| `seam_unsure` | Does a stored order keep its stock although its client saw an error? No: finding 5. |
| `ordering` | Over both stores, four workloads: three cancellations of an order; a second shipment prepared and the first dispatched while the order is cancelled; two dispatches of one shipment and a cancellation; two orders placed, one with a total that wraps, then cancelled and shipped. Is each command one step of the order's life or none? (`ImplementsOrderLife`) Do answers tell the truth through retries, second reads and lost commits? (`AnswersTrue`) Is one retry enough? (`NoConflictAnswered`) Does a message that could not be delivered stay? (`NothingDropped`) Does every request end? (`RequestsEnd`) |
| `serving` | Every operation of the three contracts with good inputs and with inputs wrong in each layer, one at a time; then an order beside another request while a process is told to stop, loses a server, fails to listen or is killed. Can every answer be read by the contract it is given under, does it name inputs the request has, does what is sent arrive, is an outage told from a refusal, and is a redirect of the mux all that is left (`AnswersReadable`, `ParamsNamed`, `ArrivesAsSent`, `OutageIsNotRefusal`), are stops clean or reported (`CleanStop`, `NoSenderStuck`, `Stops`), does placing end (`PlacingEnds`)? |

`ImplementsInventory` is the central result, and proved (section 4): `StockTxn` with the
committed rows as `stock` refines `Inventory`. A commit is the use case applied to what is
committed at that moment, on all its items, and every other step is a stutter. So whatever
holds of `Inventory` holds of the PostgreSQL adapter, stale lists, torn reads and retries
included.

### Bounds, and why they are enough

* Two SKUs and two orders of two lines: enough for a lock cycle, for an order torn
  apart and for two orders that want the same last unit. Conflicts are pairwise on a
  row; a third request is there to change a row under both.
* At most five requests, each once. Time stops at the workload's `until` (`MaxTime` in the
  other modules), so deadlines pass in the life cycle of `stock` and in `memory` and stand
  still where only locks matter.
* `MaxAttempts` is 3 in the code's configuration or 2, so that attempts run out. In `memory`
  it is 2 and time stops at 1, the TTL: five requests with three attempts are too many, and
  each attempt starts from nothing.
* `Batch` 1 (a sweep leaves something behind) and 2 (it takes all).
* `Supply` bounds what is ever added to an SKU in `Inventory`.
* `outbox`: three messages and batches of two, so that a row is left over, a message can
  overtake another inside a round or across rounds, and a relay holds rows the other has
  deleted. `seam`: one relay, since two are the question of `outbox`; its calls still repeat
  and arrive late. Four messages, two for each order.
* `ordering`: a row has two versions at most after its creation, so three writers are all the
  ways to lose, and three attempts are more than the run ever needs. `Half` is 8: of the two
  amounts, 3 fits and 12 wraps to -4. A total that wraps to a positive one behaves like one
  that fits.
* `serving`: texts are a blank one, an empty one, one that is trimmed and a good one; a list
  has two lines, the second of which is wrong; numbers are good, zero, negative or no
  integer. Paths are those of the operations, unknown ones, and each kind that is not clean:
  none, an empty one, with a dotted segment in the middle or at the end, with an empty one in
  the middle, and with an empty last one, which is clean. Two clients' requests and the two calls of the order are in flight at most; one
  process is disturbed at a time, which is enough for the other to see every kind of outage.
  `Messages` and `Loads` are constants: the messages of the outbox, and what is sent and who
  may be disturbed. The proofs hold for any of them.
* Deadlock checking is off in every run but `inventory`, whose use cases never
  come to an end: elsewhere requests or time are finite, so the model stops where the
  system waits for the next request.

### Fairness

* `Inventory!FairSpec`: the clock advances, and a sweep over all overdue items happens
  when there are some. `runReaperLoop` sweeps at every tick of its interval with a fresh
  clock reading; in the run the batch holds all the items. Callers are not fair.
* `StockTxn!FairSpec`: a request that has begun takes its steps (the goroutine is
  scheduled and the database answers or breaks the deadlock). Neither `Begin`, `Abort`
  nor the clock is fair.
* `Outbox!FairSpec`: a relay begins a round when there are rows (`Runner.Run` does at every
  interval), weakly fair; publishing and deleting are strongly fair for each relay: rounds
  may fail or stop again and again, but not each time. A message that the consumer refuses
  for ever is thus excluded; it would hold back the messages behind it for ever. Late
  arrivals are not fair.
* `Ordering!FairSpec`: a request that came takes its steps; `Begin` and `Fail` are not fair. A
  statement that waits for a row's lock goes on when the holder's transaction has ended.
* `Serving!ServingSpec`: the goroutines of the servers and of `Run` go on, time passes (the
  grace period and the client's timeout end), a handler takes its steps while its process is
  alive. No answer of the inventory is fair: `PlacingEnds` rests on the timeout alone.
* `Seam!FairSpec`: those of `Inventory` and `Outbox` together. No step of a request is fair,
  so `Settles` holds wherever requests come to a halt.

`PendingEnds` asks for each reservation, the `RequestsEnd` of `stock`, `Drained` and
`Settles` are of the form `[]<>P`: requests and messages are finite in number, so each is
dealt with in the end.

## 4. Proofs

Every theorem is of the form `Spec => ...` and holds for all values of the constants that
satisfy the named assumptions of its module. The assumptions say what types the constants
have, that counts are positive, and:

* `Ref` is finite, and for the stores `SKU` too (a database is), since sums are
  cardinalities;
* `Ordering!KeyAssumption`: orders and shipments have different identifiers (tables of their
  own in the code), and `None` is none of them;
* `Serve!ServersAssumption`: every server belongs to a process, and every process has one;
* `Serving!ServingAssumption`: the servers are those of the three contracts, and each call is a
  client's or one of the two of `PlaceOrder`; a message has an instant for its time; a call
  that is meant to arrive as something is a relayed message to the internal API; the
  segments of a path and the lines of a request are numbered, which is what Go's slices
  are (the model needs it said, since the contents of a request are any values); and no
  request has the method HEAD or CONNECT (section 7).

Some theorems have a hypothesis of their own, stated in the theorem; what happens without it
is said below.

### Inventory (`InventoryProofs`)

`TypeCorrect` (free units never go negative), `UnitsConserved`, `HoldsBounded`, and the
action properties `TornOnlyWhenExpired` and `ConfirmationsStand` (a confirmed reservation
stays as it is until its whole order is released). The invariant is `TypeOK /\ HoldBounded /\
Conservation`. `Conservation` alone is not inductive: `Reserve` overwrites an empty slot,
and were a slot with status "none" to hold units they would vanish; `HoldBounded` says it
holds none. The lemmas of `StockItemLemmas` say for each operation on an item how many units
move: they split the set of named units into those of one reference (or of the reaped ones)
and the rest, with the library's theorems on cardinalities.

### Transactions over PostgreSQL (`StockTxnProofs`)

`TypeCorrect`, `SnapshotIsValid`, `CheckedIsCurrent`, `LocksByWriters` rest on `Inv`, which
adds for each request: where it is and what it still has to load (`Control`); a copy is
never newer than its row, and while it has the row's version it has the row's content,
except the reservations of the copy whose second statement is still to run (`Snapshot`);
what it saved is locked by it, is still current, and is of different items (`SavedHeld`).
`Snapshot` survives the commits of others because a commit raises the version of each row it
changes, and a row only changes under the lock of the transaction that changes it.

`ConflictsEarned` assumes `OneLinePerSKU`. An order that names an SKU twice conflicts with
its own first write (finding 4), so the property is false without it. The invariant `Earned`
counts: a request has begun at most one attempt more than others have committed, and no more
than they have committed while one of its copies is stale.

`InventoryImplemented` is the refinement. Its invariant `Refining` says that what a request
has listed covers what its use case deals with: all holders of the reference for a
confirmation or release (`CoversHolders`), a set no larger than the batch for a sweep. A
list can grow stale in two ways. An item that loses the reservation after it was loaded
makes the copy stale, so the write conflicts; one that lost it before fails a confirmation
and is left as it is by a release. No item can gain it after the list was made, if a
reservation that is confirmed or released is requested once: that is the hypothesis
`ReservedOnce`. `place_order.go` draws a new reference for each order and calls `Reserve`
once. (A second `Reserve` under the same reference between the list and the load of a
confirmation would be confirmed in part: the call has no such guard of its own.)
`CommitIsUseCase` then shows that the commit applies the use case to the committed items,
and two theorems of `InventoryProofs` carry over to the committed rows:
`TornOnlyWhenExpired` and `ConfirmationsStand`.

`UnitsConserved` and `HoldsBounded` do without the hypothesis: whatever is requested and
however often, stale lists included, what a commit makes of one row depends on that row
alone (`Sound`, from `CommitIs`). So a repeated call can confirm a part of an order, but it
cannot lose or make a unit or hold one without a deadline.

### The in-memory stock store (`StockMemoryProofs`)

Commits overwrite one another there (finding 3), so no refinement holds. What is left is
`RowsKeepUnits` (the invariant `RowsAddUp`): the units of a row are never fewer than those its
SKU started with and never more than it was supplied with. An overwritten replenishment is
lost, and nothing else is; `ClosedRowsAddUp` is the case of an SKU that nobody replenishes,
whose row adds up exactly. The invariant says of each loaded copy what it says of the rows,
and of each staged row the same with the request's own replenishment counted as supplied
(`Good`, `Added`); since `supplied` only grows, a commit of another request leaves that true
(`StaysGood`). An empty slot holds no units, and the lines of an order whose SKU was loaded
twice change its last copy only.

### Outbox (`OutboxProofs`)

`TypeCorrect`, `OnlyCommitted`, `NeverLost`, `OrderKept` and the refinement
`DeliveryImplemented`, for any number of relays. The invariant adds three facts. `Stamps`:
what a message knew has an earlier stamp. `Rounds`: what a message of a round knew is in the
round too or was delivered, and the message a relay waits to delete was delivered. So all
that the head of a round knew was delivered, whatever rows another relay deletes meanwhile.
`Lates`: what a late message knew was delivered before its call was made.

### The seam (`SeamProofs`)

`StockImplemented` and `OutboxImplemented`: each step of `Seam` is a step of its `Inventory`
and of its `Outbox`, or leaves them alone. So the invariants of `InventoryProofs` and
`OutboxProofs` hold of the composition without being proved again; `Parts` is what is taken
from them. `StockGuarantees` and `MessageGuarantees` state the component theorems of the
composition (`Conservation`, `HoldBounded`, `TornOnlyByExpiry`; `NothingLost`,
`CausalOrder`). On top of them, `Inv` relates orders, messages and stock: a message was
committed with the change of order that it tells (`OrdersSent`); while a call to reserve is
out, or may still arrive, the reference holds nothing (`NotYetHeld`); from the answer of the
reservation on the order holds its stock until it is cancelled or reaped
(`KeptFromReservation`, of which `StockKept` is the part a client can see). `StockIsKept`,
`ConfirmedIsStored` and `CancelledStaysFree` follow; for the last, `Release` takes all lines
at once and nothing reserves for an order that is stored (`OrdersSent`), however late a call
or a message arrives. `ConfirmationFirst` needs no more than `CausalOrder` and one fact about
cancellations, `KnowsConfirmation`: a cancellation is built after its order was read as
confirmed, so the confirmation request was committed before and is among what it knew.

`ConfirmationsFinal` (`ConfirmedForGood`): once the confirmation arrived no line of the order
is pending again, so what a sweep had not torn by then it never will: a confirmation that
has arrived is of an order that was stored (`OrdersSent`), and nothing reserves for it any
more. With `CancelledStaysFree` it gives `RepeatsChangeNothing`: a message in `got` that is
published again, or whose late call arrives, finds nothing to do, since a confirmation meets
only confirmed lines or none, and a release none. So at-least-once delivery takes effect
exactly once, with no table of messages that were handled.

`OrdersImplemented`: the orders of `Seam` obey `OrderLife`, with the log of the outbox as its
messages and orders that are guarded, as PostgreSQL guards them. `Ordering` is shown to
implement the same specification from the statements of its commands, so the composition
asks no more of the ordering context than what its stores do.

### Ordering (`OrderingProofs`)

`TypeCorrect`, `AnswersCorrect`, `CancellationsKept`, `NoConflict` and the refinement
`OrderLifeImplemented`, over either store. The argument is that a row has five shapes and
its version tells which: a version that does not match means that another request has done
what this one is about to do (`ChangeInv`). Over PostgreSQL a saved row is locked by its
writer and still has the version it read (`LockInv`), so the commit is the step of
`OrderLife`; in memory it need not be, and `guarded` is false there. `Sent` in the
refinement mapping counts the messages of a commit in progress as sent, since `CommitRows`
and `CommitStaged` are two steps. `NoConflict` assumes `MaxAttempts > 1` (the default is 3,
`uow.go:66`): with one attempt a lost race is answered as a conflict.

`MessagesAreTrue` (`ToldOnce`) carries a fact of `OrderLife` over: every message in the log is
true of its order (which exists, and is cancelled if the message says so), a cancelled order
has its message, and over PostgreSQL there is no second message of a kind for an order.
`Seam` has one confirmation and one cancellation for each order, and this is why it may.

### The end of a process (`ServingProofs`, first part)

`StopIsClean` and `SendersGetRid`, for `Serve` with any processes, servers and calls.
`ClosedInv`: the servers that `shutdown` has passed no longer listen and have no open call,
unless one was given up. `ErrorsInv`: the errors in the channel are of different servers,
each of which has sent its only one; so a server that has one to send finds room (`OneMore`,
a counting argument with the library's theorems). `ServingIsServe`: every step of `Serving` is
a step of `Serve` or leaves it alone, so `ServingStopsClean` has both for the two contexts.

### What clients see (`ServingProofs`, second part)

`ServingTypeCorrect`, `ResponsesReadable`, `CallsArrive` and `OutagesAreTold`, for any messages
and loads: requests with any path, content type and body and any method but HEAD and
CONNECT, and orders with any lines. `ResponsesReadable` has one exception, a redirect of the
mux: `MuxRedirects` shows that it is given only to a path that is not clean, on a public
server, and that nothing was asked of the application, so that no effect hides behind it. They
rest on `ServingInv`: a call that was accepted asks for what the contract decodes from what
was sent, and its answer is the redirect or one of the contract (`ExchangeInv`, `TellsClient`); what the handler of an order
sends is the reservation of that order, and later its release, under the stages in which it
may (`InnerInv`); what clients sent is what the load says (`LoadInv`); and `OutageIsNotRefusal`
itself. `CallsArrive` needs the first two together, since the request is decoded when it is
accepted and the lines come from the order that is still open.

1. *Documents*: what a schema encodes it reads back. For each level a lemma on scalars, on
   lists and on objects, where an object reads back if its required fields are set, only its
   fields are, and each of them reads back; then each result type of the contracts.
2. *Problems*: `WriteProblem` of each adapter writes a document that the client's schema reads
   back, with the status of the response, and with codes of the enumeration if the parameters
   have only these (`ProblemsReadable`). The parameters of a refused request come from
   `ExtractParams` and have codes of `ReasonOf`; those of an error of the application have
   the error's own code, of which step 4 says that the contract has it.
3. *Routes and handlers*: whatever a request is that the mux lets through, a server that gets an outcome that can be
   told gives a readable answer (`ServedReadable`), and asks at most one of its operations of
   the application (`ServedCalls`).
4. *Use cases*: every outcome of `UseCases` can be told: it is a result that the handler can
   turn into its type, or an error whose code the contract of that server enumerates. This is
   where `InvalidParamCodes` of the three contracts meet the codes of two domains.
5. *Calls*: the encoder of `InvClient` and the decoder of `InternalApi`, generated from two
   copies of one contract, compose to what was meant, for reservations with any lines
   (`ReserveArrives`), releases and relayed messages.
6. *Steps*: one lemma per action. For `Reserved`, `RejectionIsAnswer` says that what
   `translate` makes of a failed reservation is classified as a conflict only if the inventory
   answered, readably and with a status below 500; for answers that are cut off, late,
   undecodable or of a defect it joins both errors, and `Classify` takes them for an outage.

### What stays with TLC

* Liveness: `PendingEnds`, both `RequestsEnd`, `Drained`, `Settles`, `Stops`, `PlacingEnds`,
  and the fairness of the abstract specifications. The refinements proved are of their
  safety parts.
* `Serving!ParamsNamed`: that a named parameter is one that the request has. It compares what
  the decoders refuse with the schema path by path, for decoding failures as well as for
  successes, and asks for exceptions that are about single requests (section 5).
* The runs that expect a violation: their counterexamples are the findings.

## 5. Findings

1. `inventory_torn`: a late confirmation confirms the lines the reaper left
   (`confirm.go:24-27` forbids partial application).
2. `stock_deadlock`: the victim of a deadlock is not retried although it would succeed
   (`uow.go:94`).
3. `memory_lost`: two in-memory transactions pass the check and both commit
   (`memory/stock_store.go:44-47`).
4. `memory_repeated`: an order naming an SKU twice is reserved in part
   (`reservation_service.go:22-23`). With PostgreSQL the two copies of the item conflict
   with each other at every attempt, so such an order can never be placed there.
5. `seam_unsure`: when the answer of the commit is lost, the stock of a stored order is
   released (`place_order.go:97`).

Divergences met while modelling that have no run of their own, because a property of a
passing run states the exception:

* `serve.go:67` says that `Run` returns the error of a server if there is one. When the stop
  signal and the error are both ready, `select` (`serve.go:99`) may take the signal, and the
  error is never read: `Run` returns nil. (`CleanStop` asks only that a stop was asked for.)
* `CONVENTIONS.md:411` says that a parameter is named by its place in the request. `POST
  /shipments` with a blank `orderId` is answered with the name `id` (`httpapi/problem.go:89`),
  and an event with a blank reference with `ref`, which is no field of the event.
  (`ParamsNamed` excepts both.)
* `README.md:186-187` says that errors are problem documents on every path, failures to decode
  among them, and the contract gives an empty parameter a 400 (`openapi.yaml:109`). `POST
  /orders//cancel` and `POST /stock//replenish` are answered by the mux of `main.go` with a
  redirect to the cleaned path (ordering `main.go:96-105`, inventory `main.go:74-86`). The
  tests that send such paths (`httpapi_fuzz_test.go:65`) call the generated server without
  the mux. (`AnswersReadable` excepts the redirect.)
* `schema.sql:16-17` of the ordering context says that the CHECK on the total guards it a
  second time; in memory nothing guards it the first time: `Money.Add` does not check
  (`money.go:69`), and the order is stored and answered with 422. (`AnswersTrue` excepts it.)
* Over the in-memory store two cancellations of an order can both succeed, with a message
  each, and a second dispatch can replace the tracking number of the first
  (`memory/order_store.go:33`, `rows.go:50`). (`guarded` in `OrderLife`.)

## 6. Plan

The modules of the plan are written, and every safety property of the passing runs but
`ParamsNamed` is proved. What would come next:

1. **ParamsNamed**: the same level-by-level lemmas for documents that do not fit, as to where a
   failure is.
2. **StockTxn**: `TornOnlyWhenExpired` for references whose reservation is requested once, where
   others are not.

## 7. Not modelled

* Logging, correlation, ids and clocks: no property tells their values apart. In-process
  events: they are dispatched after the commit to a handler that only logs.
* The int32 columns of quantities: `stock_store.go:180` and `order_store.go` cast without a
  check; a run would need 2^31 units of one SKU and would show a statement that fails.
* A panic in a round of a worker, which ends its loop (`worker.go:20`); the liveness
  properties assume loops that go on. The number of connections of the pool, and metrics and
  tracing in the generated code.
* Where a redirect of the mux leads: a client that follows it sends another request, to a
  clean path, which is modelled as any other. Its status (307; older releases of Go give 301)
  and its body are the library's. HEAD requests, whose responses have no body, and CONNECT,
  whose paths the mux does not clean; no operation has either method. The 400 with which
  `net/http` answers what is not HTTP.
* Tests, build scripts, mocks and the generators' inputs.
