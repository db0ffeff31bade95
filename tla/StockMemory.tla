---------------------------- MODULE StockMemory ----------------------------
(***************************************************************************)
(* The same use cases over the in-memory adapter, which the server uses    *)
(* when no database is configured.  Everything a transaction loads is read *)
(* under one lock and so is the version check of Save; the rows it staged  *)
(* are installed under the same lock at the commit, where no version is    *)
(* checked again.  The loads do not see what is staged.                    *)
(***************************************************************************)
EXTENDS StockCommand

CONSTANT MaxTime      \* bound: the clock stops here

ASSUME TimeAssumption == MaxTime \in Nat

VARIABLES
  rows,         \* committed rows: version (0 when missing) and item
  now,          \* the wall clock
  supplied,     \* history: units ever added to each SKU
  pc,           \* where each request is
  attempt,      \* attempts it has begun
  clock,        \* the earliest clock reading its domain operation can use
  copies,       \* items loaded, in order: SKU, version, item
  staged        \* rows it will install, in order: SKU, version, item

vars == <<rows, now, supplied, pc, attempt, clock, copies, staged>>

Init ==
  /\ rows = OpeningRows
  /\ now = 0
  /\ supplied = Opening
  /\ pc = [w \in Request |-> "idle"]
  /\ attempt = [w \in Request |-> 0]
  /\ clock = [w \in Request |-> 0]
  /\ copies = [w \in Request |-> <<>>]
  /\ staged = [w \in Request |-> <<>>]

StartAttempt(w) ==
  /\ pc' = [pc EXCEPT ![w] = "load"]
  /\ attempt' = [attempt EXCEPT ![w] = @ + 1]
  /\ copies' = [copies EXCEPT ![w] = <<>>]

End(w, outcome) ==
  /\ pc' = [pc EXCEPT ![w] = outcome]
  /\ copies' = [copies EXCEPT ![w] = <<>>]
  /\ UNCHANGED attempt

(* The sweep reads the clock before uow.Run, once for all its attempts.    *)
Begin(w) ==
  /\ pc[w] = "idle"
  /\ StartAttempt(w)
  /\ clock' = [clock EXCEPT ![w] = now]
  /\ UNCHANGED <<rows, now, supplied, staged>>

-----------------------------------------------------------------------------
CopyFrom(s) == [sku |-> s, version |-> rows[s].version, item |-> rows[s].item]

Exists(s) == rows[s].version > 0

(* By name a missing SKU is left out, or is a new item to Replenish; by    *)
(* reference or deadline the map is walked in any order, and a sweep stops *)
(* at Batch items.                                                         *)
Found(w) ==
  IF Op(w) = "sweep"
  THEN {s \in SKU : Reapable(rows[s].item, clock[w]) # {}}
  ELSE {s \in SKU : HasReservation(rows[s].item, Cmd[w].ref)}

Taken(w) ==
  IF Op(w) # "sweep" \/ Cardinality(Found(w)) <= Batch
  THEN {Found(w)}
  ELSE {S \in SUBSET Found(w) : Cardinality(S) = Batch}

Orderings(S) ==
  {f \in [1 .. Cardinality(S) -> S] : \A s \in S : \E i \in DOMAIN f : f[i] = s}

(* The lines that name an SKU with a row, in order.                        *)
Existing(w) == {i \in DOMAIN Named(w) : Exists(Named(w)[i])}

Increasing(f) == \A i, j \in DOMAIN f : i < j => f[i] < f[j]

Names(w) ==
  CASE Op(w) = "replenish" -> {Named(w)}
    [] Op(w) = "reserve" ->
         {[i \in DOMAIN f |-> Named(w)[f[i]]] :
            f \in {g \in Orderings(Existing(w)) : Increasing(g)}}
    [] OTHER -> UNION {Orderings(S) : S \in Taken(w)}

Load(w) ==
  /\ pc[w] = "load"
  /\ \E names \in Names(w) :
       copies' = [copies EXCEPT ![w] =
                    [i \in DOMAIN names |-> CopyFrom(names[i])]]
  /\ pc' = [pc EXCEPT ![w] = "apply"]
  /\ clock' = IF Op(w) = "reserve" THEN [clock EXCEPT ![w] = now] ELSE clock
  /\ UNCHANGED <<rows, now, supplied, attempt, staged>>

-----------------------------------------------------------------------------
VersionsMatch(w) ==
  \A i \in DOMAIN copies[w] :
    copies[w][i].version = rows[copies[w][i].sku].version

(* The domain operation, which fails without a retry, then Save: the check *)
(* of every version and the staging of every row under one lock.  Copies   *)
(* of one SKU are all checked against the committed row.                   *)
Fail(w) ==
  /\ pc[w] = "apply" /\ ~ CanApply(w, copies[w])
  /\ End(w, "failed")
  /\ UNCHANGED <<rows, now, supplied, clock, staged>>

Save(w) ==
  /\ pc[w] = "apply" /\ CanApply(w, copies[w]) /\ VersionsMatch(w)
  /\ \E exp \in Expiries(w, clock[w], now) :
       LET res == Result(w, copies[w], clock[w], exp)
       IN  staged' = [staged EXCEPT ![w] =
             [i \in DOMAIN res |-> [res[i] EXCEPT !.version = @ + 1]]]
  /\ pc' = [pc EXCEPT ![w] = "commit"]
  /\ UNCHANGED <<rows, now, supplied, attempt, clock, copies>>

Conflict(w) ==
  /\ pc[w] = "apply" /\ CanApply(w, copies[w]) /\ ~ VersionsMatch(w)
  /\ \/ attempt[w] < MaxAttempts /\ StartAttempt(w)
     \/ attempt[w] = MaxAttempts /\ End(w, "failed")
  /\ UNCHANGED <<rows, now, supplied, clock, staged>>

(* The context may be cancelled during the wait before another attempt;    *)
(* the adapter itself never looks at it.                                   *)
Cancel(w) ==
  /\ pc[w] = "load" /\ attempt[w] > 1
  /\ End(w, "failed")
  /\ UNCHANGED <<rows, now, supplied, clock, staged>>

(* Rows staged later for the same SKU replace earlier ones.                *)
Commit(w) ==
  /\ pc[w] = "commit"
  /\ rows' = [s \in SKU |->
       IF \E i \in DOMAIN staged[w] : staged[w][i].sku = s
       THEN LET last == staged[w][CopyOf(staged[w], s)]
            IN  [version |-> last.version, item |-> last.item]
       ELSE rows[s]]
  /\ supplied' = Added(w, supplied)
  /\ staged' = [staged EXCEPT ![w] = <<>>]
  /\ End(w, "ok")
  /\ UNCHANGED <<now, clock>>

Tick ==
  /\ now < MaxTime
  /\ now' = now + 1
  /\ UNCHANGED <<rows, supplied, pc, attempt, clock, copies, staged>>

Next ==
  \/ \E w \in Request :
       \/ Begin(w) \/ Load(w) \/ Fail(w) \/ Save(w) \/ Conflict(w)
       \/ Cancel(w) \/ Commit(w)
  \/ Tick

Spec == Init /\ [][Next]_vars

-----------------------------------------------------------------------------
TypeOK ==
  /\ rows \in [SKU -> Row]
  /\ now \in 0 .. MaxTime
  /\ supplied \in [SKU -> Nat]
  /\ pc \in [Request -> {"idle", "load", "apply", "commit", "ok", "failed"}]
  /\ attempt \in [Request -> 0 .. MaxAttempts]
  /\ clock \in [Request -> 0 .. now]
  /\ copies \in [Request -> Seq(Copy)]
  /\ staged \in [Request -> Seq(Copy)]

(* Whatever overwrites what, every committed row is a state some history   *)
(* of its item could have: a row is replaced as a whole (rows.go:          *)
(* applyGroup), so its quantities add up to what the item started with and *)
(* some of the replenishments made.  Those an overwriting commit did not   *)
(* see are lost; no unit is made, and none an item started with is lost.   *)
RowsAddUp ==
  \A s \in SKU :
    rows[s].item.available + Reserved(rows[s].item) \in Opening[s] .. supplied[s]

(* memory/stock_store.go:44-47: the check and the staging are made under   *)
(* one lock so that no other transaction comes in between.  Then what a    *)
(* commit installs is based on the row that is committed when it does.     *)
VersionsAdvance ==
  [][\A s \in SKU : rows'[s] # rows[s]
       => rows'[s].version = rows[s].version + 1]_vars

(* reservation_service.go:22-23: there are no partial reservations.  What  *)
(* an order holds of an SKU is the sum of its lines for it.                *)
ReservedInFull ==
  \A r \in Ref, s \in SKU :
    HasReservation(rows[s].item, r) => rows[s].item.resv[r].qty = Asked(r, s)
=============================================================================
