------------------------------ MODULE StockTxn ------------------------------
(***************************************************************************)
(* The use cases of the inventory context over the PostgreSQL adapter:     *)
(* uow.Run retries a transaction, the transaction lists, loads, applies the*)
(* domain operation to its copies, saves them one by one with a version    *)
(* check, and commits.  Transactions run at read committed, so every       *)
(* statement sees what is committed when it runs.                          *)
(*                                                                         *)
(* A request is one call of a use case and runs once.  The row of a stock  *)
(* item is locked by the statement that saves it, until its transaction    *)
(* ends; a transaction's own writes stay in its copies until its commit.   *)
(* The copies are kept as they were loaded: what the domain operation makes*)
(* of them is the function Result.                                         *)
(***************************************************************************)
EXTENDS StockCommand

CONSTANTS
  Workload,     \* the calls that come together, and the bound on their time
  None          \* no request

ASSUME WorkloadAssumption ==
  IsFiniteSet(Workload) /\ Workload \subseteq [calls : SUBSET Request, until : Nat]
ASSUME NoneAssumption == None \notin Request

VARIABLES
  load,         \* the workload of this behaviour
  rows,         \* committed rows: version (0 when missing) and item
  lock,         \* the request whose transaction holds the row, or None
  now,          \* the wall clock
  supplied,     \* history: units ever added to each SKU
  pc,           \* where each request is
  attempt,      \* attempts it has begun
  clock,        \* the earliest clock reading its domain operation can use
  ids,          \* items still to load, in order
  copies,       \* items loaded: SKU, version, item
  exp,          \* expiry its domain operation computed, per SKU
  saved         \* copies written so far

shared == <<rows, supplied>>
work == <<ids, copies, exp, saved>>
vars == <<load, rows, lock, now, supplied, pc, attempt, clock, ids, copies, exp,
          saved>>

Init ==
  /\ load \in Workload
  /\ rows = OpeningRows
  /\ lock = [s \in SKU |-> None]
  /\ now = 0
  /\ supplied = Opening
  /\ pc = [w \in Request |-> "idle"]
  /\ attempt = [w \in Request |-> 0]
  /\ clock = [w \in Request |-> 0]
  /\ ids = [w \in Request |-> <<>>]
  /\ copies = [w \in Request |-> <<>>]
  /\ exp = [w \in Request |-> NoExpiry]
  /\ saved = [w \in Request |-> 0]

-----------------------------------------------------------------------------
(* One attempt of uow.Run: a new transaction and everything loaded afresh. *)

StartAttempt(w) ==
  /\ pc' = [pc EXCEPT ![w] =
       IF Op(w) \in {"replenish", "reserve"} THEN "load" ELSE "list"]
  /\ attempt' = [attempt EXCEPT ![w] = @ + 1]
  /\ ids' = [ids EXCEPT ![w] = Named(w)]
  /\ copies' = [copies EXCEPT ![w] = <<>>]
  /\ exp' = [exp EXCEPT ![w] = NoExpiry]
  /\ saved' = [saved EXCEPT ![w] = 0]

(* Mutant: the locks outlive the transaction.                              *)
StillLocked(w) == lock

(* The end of a transaction releases its row locks.                        *)
Unlocked(w) == [s \in SKU |-> IF lock[s] = w THEN None ELSE lock[s]]

(* The request returns to its caller and its copies are gone.              *)
End(w, outcome) ==
  /\ pc' = [pc EXCEPT ![w] = outcome]
  /\ lock' = Unlocked(w)
  /\ ids' = [ids EXCEPT ![w] = <<>>]
  /\ copies' = [copies EXCEPT ![w] = <<>>]
  /\ exp' = [exp EXCEPT ![w] = NoExpiry]
  /\ saved' = [saved EXCEPT ![w] = 0]
  /\ UNCHANGED attempt

(* The sweep reads the clock before uow.Run, once for all its attempts.    *)
Begin(w) ==
  /\ pc[w] = "idle" /\ w \in load.calls
  /\ StartAttempt(w)
  /\ clock' = [clock EXCEPT ![w] = now]
  /\ UNCHANGED <<shared, lock, load, now>>

(* The identifiers come in no particular order; a sweep gets at most Batch.*)
Listed(w) ==
  IF Op(w) = "sweep"
  THEN {s \in SKU : HasOverdue(rows[s].item, clock[w])}
  ELSE {s \in SKU : HasReservation(rows[s].item, Cmd[w].ref)}

Orderings(S) ==
  {f \in [1 .. Cardinality(S) -> S] : \A s \in S : \E i \in DOMAIN f : f[i] = s}

List(w) ==
  /\ pc[w] = "list"
  /\ \E S \in SUBSET Listed(w) :
       /\ \/ S = Listed(w)
          \/ Op(w) = "sweep" /\ Cardinality(S) = Batch
       /\ Op(w) = "sweep" => Cardinality(S) <= Batch
       /\ \E f \in Orderings(S) : ids' = [ids EXCEPT ![w] = f]
  /\ pc' = [pc EXCEPT ![w] = "load"]
  /\ UNCHANGED <<shared, lock, load, now, attempt, clock, copies, exp, saved>>

(* A missing row is left out by LoadMany and is a new item to Replenish;   *)
(* the version check of its save stands for the unique index on the SKU.   *)
ReadItem(w) ==
  /\ pc[w] = "load" /\ ids[w] # <<>>
  /\ LET s == Head(ids[w])
         loaded == Append(copies[w],
           [sku |-> s, version |-> rows[s].version,
            item |-> [NewStockItem EXCEPT
                        !.available = rows[s].item.available]])
     IN  \/ /\ rows[s].version > 0
            /\ copies' = [copies EXCEPT ![w] = loaded]
            /\ pc' = [pc EXCEPT ![w] = "resv"]
            /\ UNCHANGED ids
         \/ /\ rows[s].version = 0
            /\ copies' = IF Op(w) = "replenish"
                         THEN [copies EXCEPT ![w] = loaded] ELSE copies
            /\ ids' = [ids EXCEPT ![w] = Tail(@)]
            /\ UNCHANGED pc
  /\ UNCHANGED <<shared, lock, load, now, attempt, clock, exp, saved>>

(* Mutant: the version is read again with the reservations.                *)
ReadVersionLate(w) ==
  /\ pc[w] = "resv"
  /\ LET s == Head(ids[w])
     IN  copies' = [copies EXCEPT
           ![w][Len(copies[w])].item.resv = rows[s].item.resv,
           ![w][Len(copies[w])].version = rows[s].version]
  /\ ids' = [ids EXCEPT ![w] = Tail(@)]
  /\ pc' = [pc EXCEPT ![w] = "load"]
  /\ clock' = IF Op(w) = "reserve" THEN [clock EXCEPT ![w] = now] ELSE clock
  /\ UNCHANGED <<shared, lock, load, now, attempt, exp, saved>>

(* The reservations are a second statement, which sees later commits.      *)
ReadReservations(w) ==
  /\ pc[w] = "resv"
  /\ LET s == Head(ids[w])
     IN  copies' = [copies EXCEPT ![w][Len(copies[w])].item.resv =
                                     rows[s].item.resv]
  /\ ids' = [ids EXCEPT ![w] = Tail(@)]
  /\ pc' = [pc EXCEPT ![w] = "load"]
  /\ clock' = IF Op(w) = "reserve" THEN [clock EXCEPT ![w] = now] ELSE clock
  /\ UNCHANGED <<shared, lock, load, now, attempt, exp, saved>>

-----------------------------------------------------------------------------
(* The domain operation works on the copies alone; a line of a reservation *)
(* computes its expiry after all was loaded.                               *)
Apply(w) ==
  /\ pc[w] = "load" /\ ids[w] = <<>>
  /\ \/ /\ CanApply(w, copies[w])
        /\ \E e \in Expiries(w, clock[w], now) : exp' = [exp EXCEPT ![w] = e]
        /\ pc' = [pc EXCEPT ![w] = "save"]
        /\ UNCHANGED <<lock, attempt, ids, copies, saved>>
     \/ ~ CanApply(w, copies[w]) /\ End(w, "failed")
  /\ UNCHANGED <<shared, load, now, clock>>

-----------------------------------------------------------------------------
(* Save writes the copies one by one.                                      *)
Saving(w) == pc[w] = "save" /\ saved[w] < Len(copies[w])

Current(w) == copies[w][saved[w] + 1]

(* Mutant: the version is not checked.                                     *)
AnyVersionMatches(w) == TRUE

VersionMatches(w) == Current(w).version = rows[Current(w).sku].version

(* The row matches but another transaction has written it: the statement   *)
(* waits for that transaction to end.                                      *)
WaitsFor(w, v) ==
  Saving(w) /\ VersionMatches(w) /\ lock[Current(w).sku] = v /\ v # w

(* Mutant: the version is checked without waiting for the row's lock.      *)
WriteUnlocked(w) ==
  /\ Saving(w) /\ VersionMatches(w) /\ lock[Current(w).sku] # w
  /\ lock' = [lock EXCEPT ![Current(w).sku] = w]
  /\ saved' = [saved EXCEPT ![w] = @ + 1]
  /\ UNCHANGED <<shared, load, now, pc, attempt, clock, ids, copies, exp>>

Write(w) ==
  /\ Saving(w) /\ VersionMatches(w) /\ lock[Current(w).sku] = None
  /\ lock' = [lock EXCEPT ![Current(w).sku] = w]
  /\ saved' = [saved EXCEPT ![w] = @ + 1]
  /\ UNCHANGED <<shared, load, now, pc, attempt, clock, ids, copies, exp>>

(* Mutant: a locked row is a conflict at once.                             *)
ConflictWhenLocked(w) ==
  /\ Saving(w) /\ (~ VersionMatches(w) \/ lock[Current(w).sku] # None)
  /\ \/ attempt[w] < MaxAttempts /\ StartAttempt(w) /\ lock' = Unlocked(w)
     \/ attempt[w] = MaxAttempts /\ End(w, "failed")
  /\ UNCHANGED <<shared, load, now, clock>>

(* No row has the expected version: another transaction committed a newer  *)
(* one, or this one already wrote it for another line with the same SKU.   *)
Conflict(w) ==
  /\ Saving(w) /\ (~ VersionMatches(w) \/ lock[Current(w).sku] = w)
  /\ \/ attempt[w] < MaxAttempts /\ StartAttempt(w) /\ lock' = Unlocked(w)
     \/ attempt[w] = MaxAttempts /\ End(w, "failed")
  /\ UNCHANGED <<shared, load, now, clock>>

(* Mutant: nobody looks for deadlocks.                                     *)
NeverDeadlocked(w) == FALSE

(* Requests that wait for each other in a circle: the database aborts one, *)
(* with an error that is not a conflict and is not retried.                *)
Deadlocked(w) ==
  \E C \in SUBSET {v \in Request : pc[v] = "save"} :
    /\ w \in C
    /\ \A v \in C : /\ \E u \in C : WaitsFor(v, u)
                   /\ \E u \in C : WaitsFor(u, v)

BreakDeadlock(w) ==
  /\ Deadlocked(w)
  /\ End(w, "failed")
  /\ UNCHANGED <<shared, load, now, clock>>

(* The commit makes all the writes visible.  When its answer is lost the   *)
(* caller gets an error all the same.                                      *)
Commit(w) ==
  /\ pc[w] = "save" /\ saved[w] = Len(copies[w])
  /\ LET res == Result(w, copies[w], clock[w], exp[w])
         Copied(s) == {i \in DOMAIN res : res[i].sku = s}
     IN  rows' = [s \in SKU |->
           IF Copied(s) = {} THEN rows[s]
           ELSE LET c == res[CHOOSE i \in Copied(s) : TRUE]
                IN  [version |-> c.version + 1, item |-> c.item]]
  /\ supplied' = Added(w, supplied)
  /\ \E outcome \in {"ok", "unknown"} : End(w, outcome)
  /\ UNCHANGED <<load, now, clock>>

(* A lost connection, a cancelled context or the end of the process.       *)
Abort(w) ==
  /\ pc[w] \in {"list", "load", "resv", "save"}
  /\ End(w, "failed")
  /\ UNCHANGED <<shared, load, now, clock>>

Tick ==
  /\ now < load.until
  /\ now' = now + 1
  /\ UNCHANGED <<load, shared, lock, pc, attempt, clock, work>>

Step(w) ==
  \/ List(w) \/ ReadItem(w) \/ ReadReservations(w) \/ Apply(w)
  \/ Write(w) \/ Conflict(w) \/ BreakDeadlock(w) \/ Commit(w)

Next ==
  \/ \E w \in Request : Begin(w) \/ Step(w) \/ Abort(w)
  \/ Tick

Spec == Init /\ [][Next]_vars

(* The requests that have begun go on as long as one of them can: the      *)
(* database answers statements and breaks deadlocks.  Nothing is assumed   *)
(* of the callers, nor of the order the requests are served in.            *)
FairSpec == Spec /\ WF_vars(\E w \in Request : Step(w))

-----------------------------------------------------------------------------
Ended(w) == pc[w] \in {"ok", "unknown", "failed"}

Committed == {w \in Request : pc[w] \in {"ok", "unknown"}}

TypeOK ==
  /\ rows \in [SKU -> Row]
  /\ lock \in [SKU -> Request \cup {None}]
  /\ load \in Workload
  /\ now \in 0 .. load.until
  /\ supplied \in [SKU -> Nat]
  /\ pc \in [Request -> {"idle", "list", "load", "resv", "save",
                         "ok", "unknown", "failed"}]
  /\ attempt \in [Request -> 0 .. MaxAttempts]
  /\ clock \in [Request -> 0 .. now]
  /\ exp \in [Request -> [SKU -> 0 .. now + TTL]]
  /\ ids \in [Request -> Seq(SKU)]
  /\ copies \in [Request -> Seq(Copy)]
  /\ saved \in [Request -> Nat]
  /\ \A w \in Request : saved[w] <= Len(copies[w])

(* A copy whose version is still the committed one is a copy of what is    *)
(* committed, although its quantity and its reservations are read by two   *)
(* statements: the row with the version is read first, so a torn copy has  *)
(* an old version and its save fails (stock_store.go: reconstitute).       *)
SnapshotValid ==
  \A w \in Request : \A i \in DOMAIN copies[w] :
    LET c == copies[w][i]
    IN  c.version = rows[c.sku].version =>
          /\ c.item.available = rows[c.sku].item.available
          /\ ~ (pc[w] = "resv" /\ i = Len(copies[w]))
               => c.item.resv = rows[c.sku].item.resv

(* A version that was checked by a save is still the committed one when    *)
(* the transaction commits, however long it waits for its other rows: the  *)
(* check and the write are one statement and its lock is kept.             *)
CheckedStaysCurrent ==
  \A w \in Request : pc[w] = "save" =>
    \A i \in 1 .. saved[w] :
      LET c == copies[w][i]
      IN  lock[c.sku] = w /\ c.version = rows[c.sku].version

(* Nobody loses a race to nobody: each attempt after the first was made    *)
(* necessary by the commit of another request.  (Orders that do not name   *)
(* a SKU twice.)                                                           *)
ConflictsAreEarned ==
  \A w \in Request : attempt[w] <= 1 + Cardinality(Committed \ {w})

(* Only a write that its transaction still means to commit keeps a row     *)
(* locked: a conflict, a deadlock or a failure leaves no lock behind.      *)
LockedByWriter ==
  \A s \in SKU : lock[s] # None =>
    /\ pc[lock[s]] = "save"
    /\ \E i \in 1 .. saved[lock[s]] : copies[lock[s]][i].sku = s

(* Every request that begins ends, whatever rows it competes for: nobody   *)
(* waits for ever, and nobody tries for ever.  (Requests are finite in     *)
(* number and do not come back.)                                           *)
RequestsEnd == []<>(\A w \in Request : pc[w] = "idle" \/ Ended(w))

(* uow.go:94: an error that is not a conflict would not go away with a     *)
(* retry, so it is returned at once.  The error of a deadlock is returned  *)
(* at once; then the reservation it ends must be one that would be refused *)
(* if it were loaded and applied again.                                    *)
Reloaded(w) ==
  [i \in DOMAIN Named(w) |->
     [sku |-> Named(w)[i], version |-> rows[Named(w)[i]].version,
      item |-> rows[Named(w)[i]].item]]

FinalErrorsAreFinal ==
  \A w \in Request :
    Op(w) = "reserve" /\ Deadlocked(w) => ~ CanApply(w, Reloaded(w))

-----------------------------------------------------------------------------
(* The transactions implement the atomic use cases: a commit is the use    *)
(* case applied to what is committed at that moment, on all its items, and *)
(* no other step changes anything.  A sweep may find, of the items it      *)
(* listed, only some that still have something to reap.                    *)
Last == CHOOSE t \in {k.until : k \in Workload} : \A k \in Workload : k.until <= t

Atomic == INSTANCE Inventory WITH
  stock <- [s \in SKU |-> rows[s].item],
  Order <- OrderOf,
  Quantities <- {Cmd[w].qty : w \in {v \in Request : Op(v) = "replenish"}},
  MaxTime <- Last + TTL + 1,
  Supply <- Nat

ImplementsInventory == Atomic!Spec
=============================================================================
