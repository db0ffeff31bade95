--------------------------- MODULE StockTxnProofs ---------------------------
(***************************************************************************)
(* The optimistic locking of StockTxn for any rows, requests and orders.   *)
(* What makes it work is that a version is checked, and its row locked, by *)
(* one statement, and that the row with the version is read before the     *)
(* reservations: so at a commit every copy is what is committed, and the   *)
(* commit is the use case applied to the committed items (CommitIs).       *)
(***************************************************************************)
EXTENDS StockTxn, StockItemLemmas, SequenceTheorems

(* Of copies of different items the last one of an SKU is the only one.    *)
LEMMA OnlyCopyIs ==
  ASSUME NEW copy \in Seq(Copy), NEW i \in DOMAIN copy,
         \A j, k \in DOMAIN copy : copy[j].sku = copy[k].sku => j = k
  PROVE  CopyOf(copy, copy[i].sku) = i
BY DEF CopyOf

-----------------------------------------------------------------------------
(* An SKU that the order behind a reservation has a line for.              *)
Asks(w, s) ==
  \E i \in DOMAIN LinesOf[Cmd[w].ref] : LinesOf[Cmd[w].ref][i].sku = s

(* What request w makes of the item it of SKU s, at time t with expiries e.*)
Outcome(w, s, it, t, e) ==
  IF Op(w) = "reserve"
  THEN ReserveItem(it, Cmd[w].ref, OrderOf[Cmd[w].ref][s], e[s])
  ELSE ResultOf(w, it, t)

LEMMA Commands ==
  ASSUME NEW w \in Request
  PROVE  /\ Op(w) \in {"replenish", "reserve", "confirm", "release", "sweep"}
         /\ Op(w) = "replenish" => Cmd[w].sku \in SKU /\ Cmd[w].qty \in Nat \ {0}
         /\ Op(w) \in {"reserve", "confirm", "release"} => Cmd[w].ref \in Ref
BY RequestAssumption DEF Op, Command, ByRef

(* A copy with another item.                                               *)
LEMMA CopyWith ==
  ASSUME NEW c \in Copy, NEW it
  PROVE  [c EXCEPT !.item = it] =
           [sku |-> c.sku, version |-> c.version, item |-> it]
BY DEF Copy

(* The domain operation makes of the copies of different items, one by     *)
(* one, what the request makes of an item.                                 *)
LEMMA ResultIs ==
  ASSUME NEW w \in Request, NEW copy \in Seq(Copy), NEW t, NEW e,
         CanApply(w, copy),
         \A j, k \in DOMAIN copy : copy[j].sku = copy[k].sku => j = k,
         Op(w) = "reserve" => \A j \in DOMAIN copy : Asks(w, copy[j].sku),
         NEW i \in DOMAIN copy
  PROVE  LET s == copy[i].sku
         IN  /\ DOMAIN Result(w, copy, t, e) = DOMAIN copy
             /\ Result(w, copy, t, e)[i] =
                  [sku |-> s, version |-> copy[i].version,
                   item |-> Outcome(w, s, copy[i].item, t, e)]
             /\ Op(w) = "reserve" =>
                  CanReserve(copy[i].item, Cmd[w].ref, OrderOf[Cmd[w].ref][s])
<1> DEFINE s == copy[i].sku
           r == Cmd[w].ref
           lines == LinesOf[r]
<1>1. /\ copy[i] \in Copy /\ s \in SKU
      /\ \A it : [copy[i] EXCEPT !.item = it] =
                   [sku |-> s, version |-> copy[i].version, item |-> it]
  <2>1. copy[i] \in Copy
    OBVIOUS
  <2> QED
    BY <2>1, CopyWith DEF Copy
<1>2. CASE Op(w) # "reserve"
  <2>1. Result(w, copy, t, e) =
          [j \in DOMAIN copy |->
             [copy[j] EXCEPT !.item = ResultOf(w, copy[j].item, t)]]
    BY <1>2 DEF Result
  <2> QED
    BY <1>1, <1>2, <2>1 DEF Outcome
<1>3. CASE Op(w) = "reserve"
  <2>1. r \in Ref /\ lines \in Seq([sku : SKU, qty : Nat])
    BY <1>3, Commands, OrderAssumption
  <2>2. \E j \in DOMAIN lines : lines[j].sku = s
    BY <1>3 DEF Asks
  <2>3. FirstLine(lines, s) \in DOMAIN lines /\ lines[FirstLine(lines, s)].sku = s
    BY <2>1, <2>2, FirstLineIs
  <2>4. OrderOf[r][s] = lines[FirstLine(lines, s)].qty
    BY <1>1, <2>1, <2>2 DEF OrderOf
  <2>5. CopyOf(copy, s) = i
    BY OnlyCopyIs
  <2>6. Result(w, copy, t, e) = Allocate(copy, r, lines, e)
    BY <1>3 DEF Result
  <2>7. Result(w, copy, t, e)[i] =
          [copy[i] EXCEPT !.item =
             ReserveItem(copy[i].item, r, lines[FirstLine(lines, s)].qty, e[s])]
    BY <2>5, <2>6 DEF Allocate
  <2>8. CanReserve(copy[i].item, r, lines[FirstLine(lines, s)].qty)
    <3>1. CanAllocate(copy, r, lines)
      BY <1>3 DEF CanApply
    <3> QED
      BY <2>3, <2>5, <3>1 DEF CanAllocate
  <2> QED
    BY <1>1, <1>3, <2>4, <2>6, <2>7, <2>8 DEF Outcome, Allocate
<1> QED
  BY <1>2, <1>3

(* What a request makes of an item is an item.                             *)
LEMMA OutcomeIsItem ==
  ASSUME NEW w \in Request, NEW s \in SKU, NEW it \in Item, NEW t \in Nat,
         NEW e, e[s] \in Nat,
         Op(w) = "reserve" =>
           CanReserve(it, Cmd[w].ref, OrderOf[Cmd[w].ref][s])
  PROVE  Outcome(w, s, it, t, e) \in Item
<1>1. CASE Op(w) = "reserve"
  <2>1. Cmd[w].ref \in Ref
    BY <1>1, Commands
  <2>2. OrderOf[Cmd[w].ref][s] \in Nat
    <3> DEFINE lines == LinesOf[Cmd[w].ref]
    <3>1. lines \in Seq([sku : SKU, qty : Nat])
      BY <2>1, OrderAssumption
    <3>2. CASE \E i \in DOMAIN lines : lines[i].sku = s
      <4>1. lines[FirstLine(lines, s)] \in [sku : SKU, qty : Nat]
        BY <3>1, <3>2, FirstLineIs
      <4> QED
        BY <2>1, <3>2, <4>1 DEF OrderOf
    <3>3. CASE ~ \E i \in DOMAIN lines : lines[i].sku = s
      BY <2>1, <3>3 DEF OrderOf
    <3> QED
      BY <3>2, <3>3
  <2> QED
    BY <1>1, <2>1, <2>2, ReserveIsItem DEF Outcome
<1>2. CASE Op(w) # "reserve"
  <2>1. ResultOf(w, it, t) \in Item
    BY <1>2, Commands, OrderAssumption,
       ReplenishMoves, ConfirmMoves, ReleaseMoves, ReapMoves DEF ResultOf
  <2> QED
    BY <1>2, <2>1 DEF Outcome
<1> QED
  BY <1>1, <1>2

-----------------------------------------------------------------------------
(* A row that is missing is a new item to whoever reads it.                *)
RowsOK ==
  \A s \in SKU : rows[s].version = 0 => rows[s].item = NewStockItem

(* How far a request has come, and what it deals with.                     *)
Control(w) ==
  /\ pc[w] = "idle" => attempt[w] = 0
  /\ pc[w] = "list" => /\ Op(w) \notin {"replenish", "reserve"}
                       /\ copies[w] = <<>>
  /\ pc[w] # "save" => saved[w] = 0
  /\ pc[w] = "save" => CanApply(w, copies[w])
  /\ pc[w] = "resv" => /\ ids[w] # <<>> /\ copies[w] # <<>>
                       /\ copies[w][Len(copies[w])].sku = Head(ids[w])
  /\ Op(w) = "reserve" =>
       /\ \A i \in DOMAIN ids[w] : Asks(w, ids[w][i])
       /\ \A i \in DOMAIN copies[w] : Asks(w, copies[w][i].sku)

(* A copy is never newer than its row, and as good as the row while it has *)
(* its version.                                                            *)
Snapshot(w) ==
  \A i \in DOMAIN copies[w] :
    LET c == copies[w][i]
    IN  /\ c.version <= rows[c.sku].version
        /\ c.version = rows[c.sku].version =>
             /\ c.item.available = rows[c.sku].item.available
             /\ ~ (pc[w] = "resv" /\ i = Len(copies[w]))
                  => c.item.resv = rows[c.sku].item.resv

(* What was saved is locked and current, and of different items.           *)
SavedHeld(w) ==
  pc[w] = "save" =>
    /\ \A i \in 1 .. saved[w] :
         LET c == copies[w][i]
         IN  lock[c.sku] = w /\ c.version = rows[c.sku].version
    /\ \A i, j \in 1 .. saved[w] :
         copies[w][i].sku = copies[w][j].sku => i = j

ReqInv(w) == Control(w) /\ Snapshot(w) /\ SavedHeld(w)

Inv ==
  /\ TypeOK /\ RowsOK /\ LockedByWriter
  /\ \A w \in Request : ReqInv(w)

(* The requests of the others are no business of a step.                   *)
Untouched(v) ==
  /\ pc'[v] = pc[v] /\ attempt'[v] = attempt[v] /\ clock'[v] = clock[v]
  /\ ids'[v] = ids[v] /\ copies'[v] = copies[v]
  /\ exp'[v] = exp[v] /\ saved'[v] = saved[v]

LEMMA StartOthers ==
  ASSUME TypeOK, NEW w \in Request, NEW v \in Request \ {w}, StartAttempt(w)
  PROVE  /\ pc'[v] = pc[v] /\ attempt'[v] = attempt[v]
         /\ ids'[v] = ids[v] /\ copies'[v] = copies[v]
         /\ exp'[v] = exp[v] /\ saved'[v] = saved[v]
BY DEF TypeOK, StartAttempt

LEMMA EndOthers ==
  ASSUME TypeOK, NEW w \in Request, NEW v \in Request \ {w}, NEW outcome,
         End(w, outcome)
  PROVE  /\ pc'[v] = pc[v] /\ attempt'[v] = attempt[v]
         /\ ids'[v] = ids[v] /\ copies'[v] = copies[v]
         /\ exp'[v] = exp[v] /\ saved'[v] = saved[v]
BY DEF TypeOK, End

LEMMA StepOthers ==
  ASSUME TypeOK, NEW w \in Request, NEW v \in Request \ {w},
         Begin(w) \/ Step(w) \/ Abort(w)
  PROVE  Untouched(v)
<1>1. CASE Begin(w)
  BY <1>1, StartOthers DEF Begin, Untouched, TypeOK
<1>2. CASE List(w)
  BY <1>2 DEF List, Untouched, TypeOK
<1>3. CASE ReadItem(w)
  <2>1. UNCHANGED <<attempt, clock, exp, saved>>
    BY <1>3 DEF ReadItem
  <2>2. \E x, y, z : /\ copies' = [copies EXCEPT ![w] = x] \/ copies' = copies
                     /\ ids' = [ids EXCEPT ![w] = y] \/ ids' = ids
                     /\ pc' = [pc EXCEPT ![w] = z] \/ pc' = pc
    BY <1>3, Zenon DEF ReadItem
  <2> QED
    BY <2>1, <2>2 DEF Untouched, TypeOK
<1>4. CASE ReadReservations(w)
  BY <1>4 DEF ReadReservations, Untouched, TypeOK
<1>5. CASE Apply(w)
  <2>1. CASE End(w, "failed")
    BY <1>5, <2>1, EndOthers DEF Apply, Untouched
  <2>2. CASE ~ End(w, "failed")
    BY <1>5, <2>2 DEF Apply, Untouched, TypeOK
  <2> QED
    BY <2>1, <2>2
<1>6. CASE Write(w)
  BY <1>6 DEF Write, Untouched, TypeOK
<1>7. CASE Conflict(w)
  BY <1>7, StartOthers, EndOthers DEF Conflict, Untouched
<1>8. CASE BreakDeadlock(w)
  BY <1>8, EndOthers DEF BreakDeadlock, Untouched
<1>9. CASE Commit(w)
  BY <1>9, EndOthers DEF Commit, Untouched
<1>10. CASE Abort(w)
  BY <1>10, EndOthers DEF Abort, Untouched
<1> QED
  BY <1>1, <1>2, <1>3, <1>4, <1>5, <1>6, <1>7, <1>8, <1>9, <1>10 DEF Step

-----------------------------------------------------------------------------
(* What the steps of a request do to its own variables.                    *)
LEMMA ReadItemIs ==
  ASSUME Inv, NEW w \in Request, ReadItem(w)
  PROVE  LET s == Head(ids[w])
             new == [sku |-> s, version |-> rows[s].version,
                     item |-> [available |-> rows[s].item.available,
                               resv |-> NewStockItem.resv]]
         IN  /\ s \in SKU /\ new \in Copy /\ pc[w] = "load" /\ ids[w] # <<>>
             /\ \/ copies'[w] = Append(copies[w], new)
                \/ copies'[w] = copies[w]
             /\ \/ /\ rows[s].version > 0
                   /\ copies'[w] = Append(copies[w], new)
                   /\ pc'[w] = "resv" /\ ids'[w] = ids[w]
                \/ /\ rows[s].version = 0
                   /\ copies'[w] # copies[w] => Op(w) = "replenish"
                   /\ pc'[w] = "load" /\ ids'[w] = Tail(ids[w])
             /\ Op(w) = "replenish" => copies'[w] = Append(copies[w], new)
<1> DEFINE s == Head(ids[w])
           old == [NewStockItem EXCEPT !.available = rows[s].item.available]
           new == [sku |-> s, version |-> rows[s].version,
                   item |-> [available |-> rows[s].item.available,
                             resv |-> NewStockItem.resv]]
<1>1. /\ ids[w] \in Seq(SKU) /\ rows \in [SKU -> Row]
      /\ pc \in [Request -> {"idle", "list", "load", "resv", "save",
                             "ok", "unknown", "failed"}]
      /\ ids \in [Request -> Seq(SKU)] /\ copies \in [Request -> Seq(Copy)]
  BY DEF Inv, TypeOK
<1>2. pc[w] = "load" /\ ids[w] # <<>>
  BY DEF ReadItem
<1>3. s \in SKU
  BY <1>1, <1>2
<1>4. rows[s].version \in Nat /\ rows[s].item \in Item
  BY <1>1, <1>3 DEF Row
<1>5. old = [available |-> rows[s].item.available, resv |-> NewStockItem.resv]
  BY DEF NewStockItem
<1>6. new \in Copy
  BY <1>3, <1>4 DEF Copy, Item, NewStockItem, NoReservation, Reservation
<1>7. \/ /\ rows[s].version > 0
         /\ copies' = [copies EXCEPT ![w] = Append(copies[w], new)]
         /\ pc' = [pc EXCEPT ![w] = "resv"] /\ ids' = ids
      \/ /\ rows[s].version = 0
         /\ \/ /\ copies' = [copies EXCEPT ![w] = Append(copies[w], new)]
               /\ Op(w) = "replenish"
            \/ copies' = copies /\ Op(w) # "replenish"
         /\ ids' = [ids EXCEPT ![w] = Tail(ids[w])] /\ pc' = pc
  BY <1>5 DEF ReadItem
<1> HIDE DEF s, new
<1>8. /\ \/ copies'[w] = Append(copies[w], new)
         \/ copies'[w] = copies[w]
      /\ \/ /\ rows[s].version > 0
            /\ copies'[w] = Append(copies[w], new)
            /\ pc'[w] = "resv" /\ ids'[w] = ids[w]
         \/ /\ rows[s].version = 0
            /\ copies'[w] # copies[w] => Op(w) = "replenish"
            /\ pc'[w] = "load" /\ ids'[w] = Tail(ids[w])
      /\ Op(w) = "replenish" => copies'[w] = Append(copies[w], new)
  BY <1>1, <1>2, <1>7
<1> QED
  BY <1>2, <1>3, <1>6, <1>8 DEF s, new

LEMMA ReadReservationsIs ==
  ASSUME Inv, NEW w \in Request, ReadReservations(w)
  PROVE  LET n == Len(copies[w])
             c == copies[w][n]
             new == [sku |-> c.sku, version |-> c.version,
                     item |-> [available |-> c.item.available,
                               resv |-> rows[c.sku].item.resv]]
         IN  /\ n \in DOMAIN copies[w] /\ n \in Nat /\ new \in Copy
             /\ pc[w] = "resv" /\ pc'[w] = "load"
             /\ copies' = [copies EXCEPT ![w] = [copies[w] EXCEPT ![n] = new]]
             /\ ids[w] # <<>> /\ Head(ids[w]) = c.sku
             /\ ids'[w] = Tail(ids[w])
<1> DEFINE n == Len(copies[w])
           c == copies[w][n]
           s == Head(ids[w])
           new == [sku |-> c.sku, version |-> c.version,
                   item |-> [available |-> c.item.available,
                             resv |-> rows[c.sku].item.resv]]
<1>1. /\ rows \in [SKU -> Row] /\ ids \in [Request -> Seq(SKU)]
      /\ copies \in [Request -> Seq(Copy)]
      /\ pc \in [Request -> {"idle", "list", "load", "resv", "save",
                             "ok", "unknown", "failed"}]
  BY DEF Inv, TypeOK
<1>2. pc[w] = "resv" /\ ids[w] # <<>> /\ copies[w] # <<>> /\ c.sku = s
  BY DEF ReadReservations, Inv, ReqInv, Control
<1>3. n \in Nat /\ n \in DOMAIN copies[w] /\ c \in Copy
  BY <1>1, <1>2
<1>4. new \in Copy
  BY <1>1, <1>3 DEF Copy, Row, Item
<1>5. copies' = [copies EXCEPT ![w] =
        [copies[w] EXCEPT ![n] =
          [c EXCEPT !.item = [c.item EXCEPT !.resv = rows[s].item.resv]]]]
  BY DEF ReadReservations
<1>6. [c EXCEPT !.item = [c.item EXCEPT !.resv = rows[s].item.resv]] = new
  <2>1. [c.item EXCEPT !.resv = rows[s].item.resv] =
          [available |-> c.item.available, resv |-> rows[s].item.resv]
    <3>1. c.item \in [available : Nat, resv : [Ref -> Reservation]]
      BY <1>3 DEF Copy, Item
    <3> HIDE DEF c
    <3> QED
      BY <3>1
  <2> HIDE DEF c
  <2> QED
    BY <1>2, <1>3, <2>1, CopyWith
<1>7. pc'[w] = "load" /\ ids'[w] = Tail(ids[w])
  BY <1>1 DEF ReadReservations
<1> QED
  BY <1>2, <1>3, <1>4, <1>5, <1>6, <1>7

-----------------------------------------------------------------------------
(* What a step leaves alone stays as it was: rows move on to their next    *)
(* version only under the lock of another request.                         *)
LEMMA OthersInv ==
  ASSUME Inv, NEW v \in Request, Untouched(v), rows' \in [SKU -> Row],
         \A s \in SKU : \/ rows'[s] = rows[s]
                        \/ /\ lock[s] # v
                           /\ rows'[s].version = rows[s].version + 1,
         \A s \in SKU : lock[s] = v => lock'[s] = v
  PROVE  ReqInv(v)'
<1>1. /\ pc'[v] = pc[v] /\ attempt'[v] = attempt[v]
      /\ ids'[v] = ids[v] /\ copies'[v] = copies[v] /\ saved'[v] = saved[v]
  BY DEF Untouched
<1>2. Control(v) /\ Snapshot(v) /\ SavedHeld(v)
  BY DEF Inv, ReqInv
<1>3. /\ copies[v] \in Seq(Copy) /\ saved[v] <= Len(copies[v]) /\ saved[v] \in Nat
      /\ rows \in [SKU -> Row]
  BY DEF Inv, TypeOK
<1>4. Control(v)'
  BY <1>1, <1>2 DEF Control, Asks
<1>5. ASSUME NEW i \in DOMAIN copies[v]
      PROVE  LET c == copies[v][i]
             IN  /\ c.sku \in SKU /\ c.version \in Nat
                 /\ rows[c.sku].version \in Nat
                 /\ \/ rows'[c.sku] = rows[c.sku]
                    \/ /\ lock[c.sku] # v
                       /\ rows'[c.sku].version = rows[c.sku].version + 1
  <2>1. copies[v][i] \in Copy
    BY <1>3
  <2> QED
    BY <1>3, <2>1 DEF Copy, Row
<1>6. Snapshot(v)'
  <2> SUFFICES ASSUME NEW i \in DOMAIN copies[v]
               PROVE  LET c == copies[v][i]
                      IN  /\ c.version <= rows'[c.sku].version
                          /\ c.version = rows'[c.sku].version =>
                             /\ c.item.available = rows'[c.sku].item.available
                             /\ ~ (pc[v] = "resv" /\ i = Len(copies[v]))
                                  => c.item.resv = rows'[c.sku].item.resv
    BY <1>1 DEF Snapshot
  <2>1. LET c == copies[v][i]
        IN  /\ c.version <= rows[c.sku].version
            /\ c.version = rows[c.sku].version =>
               /\ c.item.available = rows[c.sku].item.available
               /\ ~ (pc[v] = "resv" /\ i = Len(copies[v]))
                    => c.item.resv = rows[c.sku].item.resv
    BY <1>2 DEF Snapshot
  <2> QED
    BY <1>5, <2>1
<1>7. SavedHeld(v)'
  <2>1. \A i \in 1 .. saved[v] : i \in DOMAIN copies[v]
    BY <1>3
  <2> QED
    BY <1>1, <1>2, <1>5, <2>1 DEF SavedHeld
<1> QED
  BY <1>4, <1>6, <1>7 DEF ReqInv

(* A request that starts or ends has nothing yet, or nothing any more.     *)
LEMMA FreshInv ==
  ASSUME NEW w \in Request, copies'[w] = <<>>, saved'[w] = 0,
         pc'[w] \notin {"idle", "resv", "save"},
         pc'[w] = "list" => Op(w) \notin {"replenish", "reserve"},
         ids'[w] \in {<<>>, Named(w)}
  PROVE  ReqInv(w)'
<1>1. Op(w) = "reserve" => \A i \in DOMAIN ids'[w] : Asks(w, ids'[w][i])
  BY DEF Named, Asks
<1> QED
  BY <1>1 DEF ReqInv, Control, Snapshot, SavedHeld, Asks

LEMMA SeqParts ==
  ASSUME NEW T, NEW q \in Seq(T)
  PROVE  /\ Len(q) \in Nat /\ DOMAIN q = 1 .. Len(q)
         /\ \A i \in DOMAIN q : q[i] \in T
OBVIOUS

LEMMA NamedType ==
  ASSUME NEW w \in Request
  PROVE  Named(w) \in Seq(SKU)
<1>1. CASE Op(w) = "reserve"
  <2>1. LinesOf[Cmd[w].ref] \in Seq([sku : SKU, qty : Nat])
    BY <1>1, Commands, OrderAssumption
  <2> DEFINE lines == LinesOf[Cmd[w].ref]
  <2>2. /\ Len(lines) \in Nat /\ DOMAIN lines = 1 .. Len(lines)
        /\ \A i \in DOMAIN lines : lines[i].sku \in SKU
    <3> HIDE DEF lines
    <3>1. lines \in Seq([sku : SKU, qty : Nat])
      BY <2>1 DEF lines
    <3>2. /\ Len(lines) \in Nat /\ DOMAIN lines = 1 .. Len(lines)
          /\ \A i \in DOMAIN lines : lines[i] \in [sku : SKU, qty : Nat]
      BY <3>1, SeqParts
    <3> QED
      BY <3>2
  <2>3. [i \in DOMAIN lines |-> lines[i].sku] \in Seq(SKU)
    <3> HIDE DEF lines
    <3>1. [i \in 1 .. Len(lines) |-> lines[i].sku] \in [1 .. Len(lines) -> SKU]
      BY <2>2
    <3> QED
      BY <2>2, <3>1, IsASeq
  <2> QED
    BY <1>1, <2>3 DEF Named
<1>2. CASE Op(w) = "replenish"
  BY <1>2, Commands DEF Named
<1>3. CASE Op(w) \notin {"reserve", "replenish"}
  BY <1>3 DEF Named
<1> QED
  BY <1>1, <1>2, <1>3

LEMMA StartTypes ==
  ASSUME TypeOK, NEW w \in Request, StartAttempt(w), attempt[w] < MaxAttempts
  PROVE  /\ pc' \in [Request -> {"idle", "list", "load", "resv", "save",
                                 "ok", "unknown", "failed"}]
         /\ attempt' \in [Request -> 0 .. MaxAttempts]
         /\ ids' \in [Request -> Seq(SKU)] /\ copies' \in [Request -> Seq(Copy)]
         /\ saved' \in [Request -> Nat]
         /\ exp' \in [Request -> [SKU -> 0 .. now + TTL]]
         /\ \A v \in Request : saved'[v] <= Len(copies'[v])
         /\ pc'[w] \in {"list", "load"} /\ attempt'[w] > 0
         /\ pc'[w] = "list" => Op(w) \notin {"replenish", "reserve"}
         /\ ids'[w] = Named(w) /\ copies'[w] = <<>> /\ saved'[w] = 0
<1> USE DEF StartAttempt
<1>1. /\ pc' \in [Request -> {"idle", "list", "load", "resv", "save",
                              "ok", "unknown", "failed"}]
      /\ pc'[w] \in {"list", "load"}
      /\ pc'[w] = "list" => Op(w) \notin {"replenish", "reserve"}
  BY DEF TypeOK
<1>2. attempt' \in [Request -> 0 .. MaxAttempts] /\ attempt'[w] > 0
  BY NumberAssumption DEF TypeOK
<1>3. ids' \in [Request -> Seq(SKU)] /\ ids'[w] = Named(w)
  BY NamedType DEF TypeOK
<1>4. copies' \in [Request -> Seq(Copy)] /\ copies'[w] = <<>>
  BY DEF TypeOK
<1>5. saved' \in [Request -> Nat] /\ saved'[w] = 0
  BY DEF TypeOK
<1>6. exp' \in [Request -> [SKU -> 0 .. now + TTL]]
  <2>1. NoExpiry \in [SKU -> 0 .. now + TTL]
    <3>1. now + TTL \in Nat
      BY NumberAssumption, WorkloadAssumption DEF TypeOK
    <3> QED
      BY <3>1 DEF NoExpiry
  <2> QED
    BY <2>1 DEF TypeOK
<1>7. \A v \in Request : saved'[v] <= Len(copies'[v])
  <2>1. \A v \in Request \ {w} : saved'[v] = saved[v] /\ copies'[v] = copies[v]
    BY DEF TypeOK
  <2> QED
    BY <1>4, <1>5, <2>1 DEF TypeOK
<1> QED
  BY <1>1, <1>2, <1>3, <1>4, <1>5, <1>6, <1>7

LEMMA EndTypes ==
  ASSUME TypeOK, NEW w \in Request, NEW outcome \in {"ok", "unknown", "failed"},
         End(w, outcome)
  PROVE  /\ pc' \in [Request -> {"idle", "list", "load", "resv", "save",
                                 "ok", "unknown", "failed"}]
         /\ attempt' \in [Request -> 0 .. MaxAttempts]
         /\ ids' \in [Request -> Seq(SKU)] /\ copies' \in [Request -> Seq(Copy)]
         /\ saved' \in [Request -> Nat]
         /\ exp' \in [Request -> [SKU -> 0 .. now + TTL]]
         /\ \A v \in Request : saved'[v] <= Len(copies'[v])
         /\ lock' \in [SKU -> Request \cup {None}]
         /\ pc'[w] = outcome
         /\ ids'[w] = <<>> /\ copies'[w] = <<>> /\ saved'[w] = 0
<1> USE DEF End
<1>1. /\ pc' \in [Request -> {"idle", "list", "load", "resv", "save",
                              "ok", "unknown", "failed"}]
      /\ pc'[w] = outcome
  BY DEF TypeOK
<1>2. attempt' \in [Request -> 0 .. MaxAttempts]
  BY DEF TypeOK
<1>3. ids' \in [Request -> Seq(SKU)] /\ ids'[w] = <<>>
  BY DEF TypeOK
<1>4. copies' \in [Request -> Seq(Copy)] /\ copies'[w] = <<>>
  BY DEF TypeOK
<1>5. saved' \in [Request -> Nat] /\ saved'[w] = 0
  BY DEF TypeOK
<1>6. exp' \in [Request -> [SKU -> 0 .. now + TTL]]
  <2>1. NoExpiry \in [SKU -> 0 .. now + TTL]
    <3>1. now + TTL \in Nat
      BY NumberAssumption, WorkloadAssumption DEF TypeOK
    <3> QED
      BY <3>1 DEF NoExpiry
  <2> QED
    BY <2>1 DEF TypeOK
<1>7. \A v \in Request : saved'[v] <= Len(copies'[v])
  <2>1. \A v \in Request \ {w} : saved'[v] = saved[v] /\ copies'[v] = copies[v]
    BY DEF TypeOK
  <2> QED
    BY <1>4, <1>5, <2>1 DEF TypeOK
<1>8. lock' \in [SKU -> Request \cup {None}]
  BY DEF Unlocked, TypeOK
<1> QED
  BY <1>1, <1>2, <1>3, <1>4, <1>5, <1>6, <1>7, <1>8

-----------------------------------------------------------------------------
(* The rows a step leaves alone.                                           *)
LEMMA RowsStay ==
  ASSUME Inv, UNCHANGED rows
  PROVE  RowsOK' /\ rows' \in [SKU -> Row]
BY DEF Inv, RowsOK, TypeOK

(* Nobody's lock but its own is touched by a request that ends.            *)
LEMMA UnlockedKeeps ==
  ASSUME Inv, NEW w \in Request, lock' = Unlocked(w), NEW v \in Request \ {w},
         NEW s \in SKU, lock[s] = v
  PROVE  lock'[s] = v
BY DEF Unlocked

(* The locks that remain are those of the others, who still write.         *)
LEMMA UnlockedByWriter ==
  ASSUME Inv, NEW w \in Request, lock' = Unlocked(w),
         \A v \in Request \ {w} : Untouched(v)
  PROVE  LockedByWriter'
<1> SUFFICES ASSUME NEW s \in SKU, lock'[s] # None
             PROVE  /\ pc'[lock'[s]] = "save"
                    /\ \E i \in 1 .. saved'[lock'[s]] :
                         copies'[lock'[s]][i].sku = s
  BY DEF LockedByWriter
<1>1. lock'[s] = lock[s] /\ lock[s] \in Request \ {w}
  BY DEF Inv, TypeOK, Unlocked
<1>2. /\ pc[lock[s]] = "save"
      /\ \E i \in 1 .. saved[lock[s]] : copies[lock[s]][i].sku = s
  BY <1>1, NoneAssumption DEF Inv, LockedByWriter
<1> QED
  BY <1>1, <1>2 DEF Untouched

(* Neither does a step of one that is not writing.                         *)
LEMMA SameLocksByWriter ==
  ASSUME Inv, NEW w \in Request, lock' = lock, pc[w] # "save",
         \A v \in Request \ {w} : Untouched(v)
  PROVE  LockedByWriter'
<1> SUFFICES ASSUME NEW s \in SKU, lock'[s] # None
             PROVE  /\ pc'[lock'[s]] = "save"
                    /\ \E i \in 1 .. saved'[lock'[s]] :
                         copies'[lock'[s]][i].sku = s
  BY DEF LockedByWriter
<1>1. /\ pc[lock[s]] = "save" /\ lock[s] \in Request \ {w}
      /\ \E i \in 1 .. saved[lock[s]] : copies[lock[s]][i].sku = s
  BY DEF Inv, LockedByWriter, TypeOK
<1> QED
  BY <1>1 DEF Untouched

(* A step of w that writes no row and takes no other's lock is safe for    *)
(* the others.                                                             *)
LEMMA OthersStay ==
  ASSUME Inv, NEW w \in Request, Begin(w) \/ Step(w) \/ Abort(w),
         UNCHANGED rows,
         \A v \in Request \ {w} : \A s \in SKU : lock[s] = v => lock'[s] = v
  PROVE  \A v \in Request \ {w} : Untouched(v) /\ ReqInv(v)'
<1> SUFFICES ASSUME NEW v \in Request \ {w}
             PROVE  Untouched(v) /\ ReqInv(v)'
  OBVIOUS
<1>1. Untouched(v)
  BY StepOthers DEF Inv
<1>2. rows' \in [SKU -> Row] /\ \A s \in SKU : rows'[s] = rows[s]
  BY RowsStay
<1> QED
  BY <1>1, <1>2, OthersInv

(* The clock and the workload of a step that is no tick.                   *)
LEMMA ClockTypes ==
  ASSUME TypeOK, UNCHANGED <<load, now>>
  PROVE  /\ load' \in Workload /\ now' \in 0 .. load'.until
         /\ \A w \in Request : clock' = [clock EXCEPT ![w] = now]
              => clock' \in [Request -> 0 .. now']
         /\ clock' = clock => clock' \in [Request -> 0 .. now']
<1>1. now \in 0 .. load.until /\ load \in Workload /\ clock \in [Request -> 0 .. now]
  BY DEF TypeOK
<1>2. now \in Nat
  BY <1>1, WorkloadAssumption
<1> QED
  BY <1>1, <1>2

LEMMA BeginInv ==
  ASSUME Inv, NEW w \in Request, Begin(w)
  PROVE  Inv'
<1>1. attempt[w] < MaxAttempts
  BY NumberAssumption DEF Begin, Inv, ReqInv, Control
<1>2. StartAttempt(w) /\ pc[w] # "save"
      /\ UNCHANGED <<rows, supplied, lock, load, now>>
  BY DEF Begin, shared
<1>3. TypeOK'
  BY <1>1, <1>2, StartTypes, ClockTypes DEF Inv, Begin, TypeOK
<1>4. \A v \in Request \ {w} : Untouched(v) /\ ReqInv(v)'
  BY <1>2, OthersStay
<1>5. ReqInv(w)'
  BY <1>1, <1>2, StartTypes, FreshInv DEF Inv
<1>6. LockedByWriter'
  BY <1>2, <1>4, SameLocksByWriter
<1> QED
  BY <1>2, <1>3, <1>4, <1>5, <1>6, RowsStay DEF Inv

(* An attempt that is followed by another one, or by the end.              *)
LEMMA RestartInv ==
  ASSUME Inv, NEW w \in Request, Step(w) \/ Abort(w), attempt[w] < MaxAttempts,
         StartAttempt(w), lock' = Unlocked(w),
         UNCHANGED <<rows, supplied, load, now, clock>>
  PROVE  Inv'
<1>1. \A v \in Request \ {w} : \A s \in SKU : lock[s] = v => lock'[s] = v
  BY UnlockedKeeps
<1>2. \A v \in Request \ {w} : Untouched(v) /\ ReqInv(v)'
  BY <1>1, OthersStay
<1>3. lock' \in [SKU -> Request \cup {None}]
  BY DEF Inv, TypeOK, Unlocked
<1>4. TypeOK'
  BY <1>3, StartTypes, ClockTypes DEF Inv, TypeOK
<1>5. ReqInv(w)'
  BY StartTypes, FreshInv DEF Inv
<1>6. LockedByWriter'
  BY <1>2, UnlockedByWriter
<1> QED
  BY <1>2, <1>4, <1>5, <1>6, RowsStay DEF Inv

LEMMA FailInv ==
  ASSUME Inv, NEW w \in Request, Step(w) \/ Abort(w), End(w, "failed"),
         UNCHANGED <<rows, supplied, load, now, clock>>
  PROVE  Inv'
<1>0. lock' = Unlocked(w)
  BY DEF End
<1>1. \A v \in Request \ {w} : \A s \in SKU : lock[s] = v => lock'[s] = v
  BY <1>0, UnlockedKeeps
<1>2. \A v \in Request \ {w} : Untouched(v) /\ ReqInv(v)'
  BY <1>1, OthersStay
<1>4. TypeOK'
  BY EndTypes, ClockTypes DEF Inv, TypeOK
<1>5. ReqInv(w)'
  BY EndTypes, FreshInv DEF Inv
<1>6. LockedByWriter'
  BY <1>0, <1>2, UnlockedByWriter
<1> QED
  BY <1>2, <1>4, <1>5, <1>6, RowsStay DEF Inv

-----------------------------------------------------------------------------
LEMMA OrderingsType ==
  ASSUME NEW S \in SUBSET SKU, NEW f \in Orderings(S)
  PROVE  f \in Seq(SKU)
<1>1. IsFiniteSet(S)
  BY SKUAssumption, FS_Subset
<1>2. Cardinality(S) \in Nat
  BY <1>1, FS_CardinalityType
<1>3. f \in [1 .. Cardinality(S) -> SKU]
  BY DEF Orderings
<1> HIDE DEF Orderings
<1> QED
  BY <1>2, <1>3, IsASeq

(* A step of w that is not a use of the database for writing.              *)
LEMMA ReadInv ==
  ASSUME Inv, NEW w \in Request, Step(w), TypeOK', ReqInv(w)', pc[w] # "save",
         UNCHANGED <<rows, lock>>
  PROVE  Inv'
<1>1. \A v \in Request \ {w} : Untouched(v) /\ ReqInv(v)'
  BY OthersStay
<1>2. LockedByWriter'
  BY <1>1, SameLocksByWriter
<1> QED
  BY <1>1, <1>2, RowsStay DEF Inv

LEMMA ListInv ==
  ASSUME Inv, NEW w \in Request, List(w)
  PROVE  Inv'
<1>1. /\ pc[w] = "list" /\ pc' = [pc EXCEPT ![w] = "load"]
      /\ UNCHANGED <<rows, supplied, lock, load, now, attempt, clock, copies,
                     exp, saved>>
  BY DEF List, shared
<1>2. \E S \in SUBSET SKU : \E f \in Orderings(S) : ids' = [ids EXCEPT ![w] = f]
  BY DEF List, Listed
<1>3. PICK f \in Seq(SKU) : ids' = [ids EXCEPT ![w] = f]
  BY <1>2, OrderingsType
<1>4. TypeOK'
  BY <1>1, <1>3 DEF Inv, TypeOK
<1>5. ReqInv(w)'
  <2>1. pc'[w] = "load" /\ pc[w] = "list"
    BY <1>1 DEF Inv, TypeOK
  <2>2. Control(w) /\ Snapshot(w)
    BY DEF Inv, ReqInv
  <2>3. Control(w)'
    BY <1>1, <2>1, <2>2, Commands DEF Control
  <2>4. Snapshot(w)'
    BY <1>1, <2>1, <2>2 DEF Snapshot
  <2> QED
    BY <2>1, <2>3, <2>4 DEF ReqInv, SavedHeld
<1> QED
  BY <1>1, <1>4, <1>5, ReadInv DEF Step

LEMMA TailOf ==
  ASSUME NEW T, NEW q \in Seq(T), q # <<>>
  PROVE  /\ Head(q) \in T /\ Tail(q) \in Seq(T) /\ 1 \in DOMAIN q
         /\ Head(q) = q[1]
         /\ \A i \in DOMAIN Tail(q) : i + 1 \in DOMAIN q /\ Tail(q)[i] = q[i + 1]
OBVIOUS

LEMMA AppendOf ==
  ASSUME NEW T, NEW q \in Seq(T), NEW x \in T
  PROVE  /\ Append(q, x) \in Seq(T) /\ Len(Append(q, x)) = Len(q) + 1
         /\ Append(q, x) # <<>> /\ Len(q) \in Nat
         /\ Append(q, x)[Len(q) + 1] = x
         /\ \A i \in DOMAIN Append(q, x) :
              \/ i \in DOMAIN q /\ Append(q, x)[i] = q[i]
              \/ i = Len(q) + 1
OBVIOUS

LEMMA ReadItemInv ==
  ASSUME Inv, NEW w \in Request, ReadItem(w)
  PROVE  Inv'
<1> DEFINE s == Head(ids[w])
           new == [sku |-> s, version |-> rows[s].version,
                   item |-> [available |-> rows[s].item.available,
                             resv |-> NewStockItem.resv]]
<1>1. /\ pc[w] = "load" /\ ids[w] # <<>> /\ s \in SKU /\ new \in Copy
      /\ \/ copies'[w] = Append(copies[w], new)
         \/ copies'[w] = copies[w]
      /\ \/ /\ rows[s].version > 0
            /\ copies'[w] = Append(copies[w], new)
            /\ pc'[w] = "resv" /\ ids'[w] = ids[w]
         \/ /\ rows[s].version = 0
            /\ copies'[w] # copies[w] => Op(w) = "replenish"
            /\ pc'[w] = "load" /\ ids'[w] = Tail(ids[w])
  BY ReadItemIs
<1>2. UNCHANGED <<rows, supplied, lock, load, now, attempt, clock, exp, saved>>
  BY DEF ReadItem, shared
<1>3. /\ ids[w] \in Seq(SKU) /\ copies[w] \in Seq(Copy) /\ rows[s] \in Row
      /\ saved[w] = 0
  BY <1>1 DEF Inv, TypeOK, ReqInv, Control
<1> DEFINE n == Len(copies[w])
<1>4. /\ new.sku = s /\ new.version = rows[s].version
      /\ new.item.available = rows[s].item.available
      /\ new.item.resv = NewStockItem.resv
      /\ rows[s].version \in Nat
  BY <1>3 DEF Row
<1> HIDE DEF s, new
<1>5. /\ copies'[w] \in Seq(Copy) /\ ids'[w] \in Seq(SKU)
      /\ pc'[w] \in {"load", "resv"}
  <2>1. Append(copies[w], new) \in Seq(Copy)
    BY <1>1, <1>3, AppendOf
  <2>2. Tail(ids[w]) \in Seq(SKU)
    BY <1>1, <1>3, TailOf
  <2> QED
    BY <1>1, <1>3, <2>1, <2>2
<1>6. TypeOK'
  <2>1. \/ copies' = copies
        \/ copies' = [copies EXCEPT ![w] = copies'[w]]
    BY <1>3 DEF ReadItem, Inv, TypeOK
  <2>2. ids' = [ids EXCEPT ![w] = ids'[w]]
    BY <1>3 DEF ReadItem, Inv, TypeOK
  <2>3. pc' = [pc EXCEPT ![w] = pc'[w]]
    BY <1>3 DEF ReadItem, Inv, TypeOK
  <2>4. copies' \in [Request -> Seq(Copy)]
    BY <1>5, <2>1 DEF Inv, TypeOK
  <2>5. ids' \in [Request -> Seq(SKU)]
    BY <1>5, <2>2 DEF Inv, TypeOK
  <2>6. pc' \in [Request -> {"idle", "list", "load", "resv", "save",
                             "ok", "unknown", "failed"}]
    BY <1>5, <2>3 DEF Inv, TypeOK
  <2>7. \A v \in Request : saved'[v] <= Len(copies'[v])
    <3>1. \A v \in Request \ {w} : saved'[v] = saved[v] /\ copies'[v] = copies[v]
      BY <1>2, <2>1 DEF Inv, TypeOK
    <3>2. saved'[w] <= Len(copies'[w])
      BY <1>2, <1>3, <1>5
    <3> QED
      BY <3>1, <3>2 DEF Inv, TypeOK
  <2> QED
    BY <1>2, <2>4, <2>5, <2>6, <2>7 DEF Inv, TypeOK
<1>7. ReqInv(w)'
  <2>1. Control(w) /\ Snapshot(w)
    BY DEF Inv, ReqInv
  <2>2. Control(w)'
    <3>1. Op(w) = "reserve" =>
            /\ \A i \in DOMAIN ids'[w] : Asks(w, ids'[w][i])
            /\ \A i \in DOMAIN copies'[w] : Asks(w, copies'[w][i].sku)
      <4> SUFFICES ASSUME Op(w) = "reserve"
                   PROVE  /\ \A i \in DOMAIN ids'[w] : Asks(w, ids'[w][i])
                          /\ \A i \in DOMAIN copies'[w] :
                               Asks(w, copies'[w][i].sku)
        OBVIOUS
      <4>1. /\ \A i \in DOMAIN ids[w] : Asks(w, ids[w][i])
            /\ \A i \in DOMAIN copies[w] : Asks(w, copies[w][i].sku)
        BY <2>1 DEF Control
      <4>2. Asks(w, s)
        BY <1>1, <1>3, <4>1, TailOf DEF s
      <4>3. \A i \in DOMAIN ids'[w] : Asks(w, ids'[w][i])
        <5>1. \A i \in DOMAIN Tail(ids[w]) :
                i + 1 \in DOMAIN ids[w] /\ Tail(ids[w])[i] = ids[w][i + 1]
          BY <1>1, <1>3, TailOf
        <5>2. \A i \in DOMAIN Tail(ids[w]) : Asks(w, Tail(ids[w])[i])
          BY <4>1, <5>1
        <5>3. ids'[w] = ids[w] \/ ids'[w] = Tail(ids[w])
          BY <1>1
        <5> QED
          BY <4>1, <5>2, <5>3
      <4>4. \A i \in DOMAIN copies'[w] : Asks(w, copies'[w][i].sku)
        <5>1. CASE copies'[w] = copies[w]
          BY <4>1, <5>1
        <5>2. CASE copies'[w] = Append(copies[w], new)
          BY <1>1, <1>3, <1>4, <4>1, <4>2, <5>2, AppendOf
        <5> QED
          BY <1>1, <5>1, <5>2
      <4> QED
        BY <4>3, <4>4
    <3>2. pc'[w] = "resv" =>
            /\ ids'[w] # <<>> /\ copies'[w] # <<>>
            /\ copies'[w][Len(copies'[w])].sku = Head(ids'[w])
      BY <1>1, <1>3, <1>4, AppendOf DEF s
    <3> QED
      BY <1>1, <1>2, <1>3, <1>5, <3>1, <3>2 DEF Control, Asks
  <2>3. Snapshot(w)'
    <3> SUFFICES ASSUME NEW i \in DOMAIN copies'[w]
                 PROVE  LET c == copies'[w][i]
                        IN  /\ c.version <= rows[c.sku].version
                            /\ c.version = rows[c.sku].version =>
                               /\ c.item.available = rows[c.sku].item.available
                               /\ ~ (pc'[w] = "resv" /\ i = Len(copies'[w]))
                                    => c.item.resv = rows[c.sku].item.resv
      BY <1>2 DEF Snapshot
    <3>1. CASE i \in DOMAIN copies[w] /\ copies'[w][i] = copies[w][i]
      BY <1>1, <2>1, <3>1 DEF Snapshot
    <3>2. CASE copies'[w] = Append(copies[w], new) /\ i = Len(copies[w]) + 1
      <4>1. copies'[w][i] = new /\ i = Len(copies'[w])
        BY <1>1, <1>3, <3>2, AppendOf
      <4>2. CASE pc'[w] = "resv"
        BY <1>4, <4>1, <4>2
      <4>3. CASE pc'[w] # "resv"
        <5>1. rows[s].item = NewStockItem
          BY <1>1, <4>3 DEF Inv, RowsOK
        <5> QED
          BY <1>4, <4>1, <5>1
      <4> QED
        BY <4>2, <4>3
    <3> QED
      BY <1>1, <1>3, <3>1, <3>2, AppendOf
  <2> QED
    BY <1>5, <2>2, <2>3 DEF ReqInv, SavedHeld
<1> QED
  BY <1>1, <1>2, <1>6, <1>7, ReadInv DEF Step

LEMMA ReadReservationsInv ==
  ASSUME Inv, NEW w \in Request, ReadReservations(w)
  PROVE  Inv'
<1> DEFINE n == Len(copies[w])
           c == copies[w][n]
           new == [sku |-> c.sku, version |-> c.version,
                   item |-> [available |-> c.item.available,
                             resv |-> rows[c.sku].item.resv]]
<1>1. /\ n \in DOMAIN copies[w] /\ n \in Nat /\ new \in Copy
      /\ pc[w] = "resv" /\ pc'[w] = "load"
      /\ copies' = [copies EXCEPT ![w] = [copies[w] EXCEPT ![n] = new]]
      /\ ids[w] # <<>> /\ Head(ids[w]) = c.sku
      /\ ids'[w] = Tail(ids[w])
  BY ReadReservationsIs
<1>2. /\ UNCHANGED <<rows, supplied, lock, load, now, attempt, exp, saved>>
      /\ ids' = [ids EXCEPT ![w] = Tail(ids[w])]
      /\ pc' = [pc EXCEPT ![w] = "load"]
      /\ clock' = clock \/ clock' = [clock EXCEPT ![w] = now]
  BY DEF ReadReservations, shared
<1>3. /\ ids[w] \in Seq(SKU) /\ copies[w] \in Seq(Copy) /\ saved[w] = 0
  BY <1>1 DEF Inv, TypeOK, ReqInv, Control
<1>4. /\ new.sku = c.sku /\ new.version = c.version
      /\ new.item.available = c.item.available
      /\ new.item.resv = rows[c.sku].item.resv
  OBVIOUS
<1> HIDE DEF c, new
<1>5. Tail(ids[w]) \in Seq(SKU) /\ [copies[w] EXCEPT ![n] = new] \in Seq(Copy)
  <2>1. Tail(ids[w]) \in Seq(SKU)
    BY <1>1, <1>3, TailOf
  <2> QED
    BY <1>1, <1>3, <2>1
<1>6. /\ copies'[w] = [copies[w] EXCEPT ![n] = new]
      /\ DOMAIN copies'[w] = DOMAIN copies[w] /\ Len(copies'[w]) = n
  BY <1>1, <1>3 DEF Inv, TypeOK
<1>7. TypeOK'
  <2>1. copies' \in [Request -> Seq(Copy)]
    BY <1>1, <1>5 DEF Inv, TypeOK
  <2>2. ids' \in [Request -> Seq(SKU)]
    BY <1>2, <1>5 DEF Inv, TypeOK
  <2>3. \A v \in Request : saved'[v] <= Len(copies'[v])
    <3>1. \A v \in Request \ {w} : saved'[v] = saved[v] /\ copies'[v] = copies[v]
      BY <1>1, <1>2 DEF Inv, TypeOK
    <3>2. saved'[w] <= Len(copies'[w])
      BY <1>1, <1>2, <1>3, <1>6
    <3> QED
      BY <3>1, <3>2 DEF Inv, TypeOK
  <2>4. pc' \in [Request -> {"idle", "list", "load", "resv", "save",
                             "ok", "unknown", "failed"}]
    BY <1>2 DEF Inv, TypeOK
  <2>5. load' \in Workload /\ now' \in 0 .. load'.until
        /\ clock' \in [Request -> 0 .. now']
    BY <1>2, ClockTypes DEF Inv
  <2> QED
    BY <1>2, <2>1, <2>2, <2>3, <2>4, <2>5 DEF Inv, TypeOK
<1>8. \A i \in DOMAIN copies[w] :
        /\ copies'[w][i].sku = copies[w][i].sku
        /\ i # n => copies'[w][i] = copies[w][i]
        /\ i = n => copies'[w][i] = new
  BY <1>4, <1>6 DEF c
<1>9. ReqInv(w)'
  <2>1. Control(w) /\ Snapshot(w)
    BY DEF Inv, ReqInv
  <2>2. Control(w)'
    <3>1. Op(w) = "reserve" =>
            /\ \A i \in DOMAIN ids'[w] : Asks(w, ids'[w][i])
            /\ \A i \in DOMAIN copies'[w] : Asks(w, copies'[w][i].sku)
      <4>1. \A i \in DOMAIN Tail(ids[w]) :
              i + 1 \in DOMAIN ids[w] /\ Tail(ids[w])[i] = ids[w][i + 1]
        BY <1>1, <1>3, TailOf
      <4> QED
        BY <1>1, <1>6, <1>8, <2>1, <4>1 DEF Control
    <3> QED
      BY <1>1, <1>2, <1>3, <3>1 DEF Control, Asks
  <2>3. Snapshot(w)'
    <3> SUFFICES ASSUME NEW i \in DOMAIN copies[w]
                 PROVE  LET d == copies'[w][i]
                        IN  /\ d.version <= rows[d.sku].version
                            /\ d.version = rows[d.sku].version =>
                               /\ d.item.available = rows[d.sku].item.available
                               /\ d.item.resv = rows[d.sku].item.resv
      BY <1>2, <1>6 DEF Snapshot
    <3>1. LET d == copies[w][i]
          IN  /\ d.version <= rows[d.sku].version
              /\ d.version = rows[d.sku].version =>
                 /\ d.item.available = rows[d.sku].item.available
                 /\ i # n => d.item.resv = rows[d.sku].item.resv
      BY <2>1 DEF Snapshot
    <3>2. CASE i # n
      BY <1>8, <3>1, <3>2
    <3>3. CASE i = n
      <4>1. copies'[w][i] = new /\ copies[w][i] = c
        BY <1>8, <3>3 DEF c
      <4> QED
        BY <1>4, <3>1, <4>1
    <3> QED
      BY <3>2, <3>3
  <2> QED
    BY <1>1, <2>2, <2>3 DEF ReqInv, SavedHeld
<1> QED
  BY <1>1, <1>2, <1>7, <1>9, ReadInv DEF Step

LEMMA ApplyInv ==
  ASSUME Inv, NEW w \in Request, Apply(w)
  PROVE  Inv'
<1>1. CASE End(w, "failed")
  BY <1>1, FailInv DEF Apply, Step, shared
<1>2. ASSUME CanApply(w, copies[w]),
             \E e \in Expiries(w, clock[w], now) : exp' = [exp EXCEPT ![w] = e],
             pc' = [pc EXCEPT ![w] = "save"],
             UNCHANGED <<lock, attempt, ids, copies, saved>>
      PROVE  Inv'
  <2>1. /\ pc[w] = "load" /\ UNCHANGED <<rows, supplied, load, now, clock>>
        /\ pc \in [Request -> {"idle", "list", "load", "resv", "save",
                               "ok", "unknown", "failed"}]
    BY DEF Apply, shared, Inv, TypeOK
  <2>2. Expiries(w, clock[w], now) \subseteq [SKU -> 0 .. now + TTL]
    <3>1. now \in Nat /\ clock[w] \in 0 .. now /\ TTL \in Nat
      BY WorkloadAssumption, NumberAssumption DEF Inv, TypeOK
    <3>2. NoExpiry \in [SKU -> 0 .. now + TTL]
      BY <3>1 DEF NoExpiry
    <3>3. {t + TTL : t \in clock[w] .. now} \subseteq 0 .. now + TTL
      BY <3>1
    <3>4. [SKU -> {t + TTL : t \in clock[w] .. now}] \subseteq [SKU -> 0 .. now + TTL]
      BY <3>3
    <3> QED
      BY <3>2, <3>4 DEF Expiries
  <2>3. TypeOK'
    <3>1. exp' \in [Request -> [SKU -> 0 .. now + TTL]]
      BY <1>2, <2>2 DEF Inv, TypeOK
    <3> QED
      BY <1>2, <2>1, <3>1 DEF Inv, TypeOK
  <2>4. pc'[w] = "save"
    BY <1>2, <2>1
  <2>5. ReqInv(w)'
    <3>1. Control(w) /\ Snapshot(w)
      BY DEF Inv, ReqInv
    <3>2. Control(w)' /\ saved[w] = 0
      BY <1>2, <2>1, <2>4, <3>1 DEF Control, Asks
    <3>3. Snapshot(w)'
      BY <1>2, <2>1, <2>4, <3>1 DEF Snapshot
    <3>4. SavedHeld(w)'
      BY <1>2, <3>2 DEF SavedHeld
    <3> QED
      BY <3>2, <3>3, <3>4 DEF ReqInv
  <2> QED
    BY <1>2, <2>1, <2>3, <2>5, ReadInv DEF Step
<1> QED
  BY <1>1, <1>2 DEF Apply

(* The row that is saved was locked by nobody.                             *)
LEMMA WriteInv ==
  ASSUME Inv, NEW w \in Request, Write(w)
  PROVE  Inv'
<1> DEFINE k == saved[w] + 1
           c == copies[w][k]
           s == c.sku
<1>1. /\ pc[w] = "save" /\ saved[w] < Len(copies[w])
      /\ c.version = rows[s].version /\ lock[s] = None
      /\ lock' = [lock EXCEPT ![s] = w]
      /\ saved' = [saved EXCEPT ![w] = k]
      /\ UNCHANGED <<rows, supplied, load, now, pc, attempt, clock, ids, copies,
                     exp>>
  BY DEF Write, Saving, VersionMatches, Current, shared
<1>2. /\ lock \in [SKU -> Request \cup {None}] /\ saved \in [Request -> Nat]
      /\ copies[w] \in Seq(Copy)
  BY DEF Inv, TypeOK
<1>3. k \in DOMAIN copies[w] /\ s \in SKU /\ k \in Nat
  <2>1. k \in DOMAIN copies[w]
    BY <1>1, <1>2
  <2>2. c \in Copy
    BY <1>2, <2>1
  <2> QED
    BY <1>2, <2>1, <2>2 DEF Copy
<1> HIDE DEF c, s
<1>4. /\ lock'[s] = w /\ \A u \in SKU \ {s} : lock'[u] = lock[u]
      /\ saved'[w] = k /\ \A v \in Request \ {w} : saved'[v] = saved[v]
      /\ lock' \in [SKU -> Request \cup {None}] /\ saved' \in [Request -> Nat]
  BY <1>1, <1>2, <1>3
<1>5. TypeOK'
  <2>1. \A v \in Request : saved'[v] <= Len(copies'[v])
    BY <1>1, <1>2, <1>4 DEF Inv, TypeOK
  <2> QED
    BY <1>1, <1>4, <2>1 DEF Inv, TypeOK
<1>6. \A v \in Request \ {w} : \A u \in SKU : lock[u] = v => lock'[u] = v
  BY <1>1, <1>4, NoneAssumption
<1>7. \A v \in Request \ {w} : Untouched(v) /\ ReqInv(v)'
  BY <1>1, <1>6, OthersStay DEF Step
<1>8. ReqInv(w)'
  <2>1. Control(w) /\ Snapshot(w) /\ SavedHeld(w)
    BY DEF Inv, ReqInv
  <2>2. Control(w)' /\ Snapshot(w)'
    BY <1>1, <2>1 DEF Control, Snapshot, Asks
  <2>3. ASSUME NEW i \in 1 .. saved[w]
        PROVE  /\ copies[w][i].sku \in SKU /\ copies[w][i].sku # s
               /\ lock'[copies[w][i].sku] = w
               /\ copies[w][i].version = rows[copies[w][i].sku].version
    <3>1. copies[w][i] \in Copy
      BY <1>1, <1>2
    <3>2. /\ lock[copies[w][i].sku] = w
          /\ copies[w][i].version = rows[copies[w][i].sku].version
      BY <1>1, <2>1 DEF SavedHeld
    <3> QED
      BY <1>1, <1>4, <3>1, <3>2, NoneAssumption DEF Copy
  <2>4. \A i \in 1 .. k : i \in 1 .. saved[w] \/ i = k
    BY <1>2
  <2>5. \A i \in 1 .. k : /\ lock'[copies[w][i].sku] = w
                          /\ copies[w][i].version = rows[copies[w][i].sku].version
    BY <1>1, <1>4, <2>3, <2>4 DEF c, s
  <2>6. \A i, j \in 1 .. k : copies[w][i].sku = copies[w][j].sku => i = j
    <3>1. \A i, j \in 1 .. saved[w] :
            copies[w][i].sku = copies[w][j].sku => i = j
      BY <1>1, <2>1 DEF SavedHeld
    <3> QED
      BY <2>3, <2>4, <3>1 DEF c, s
  <2>7. SavedHeld(w)'
    BY <1>1, <1>4, <2>5, <2>6 DEF SavedHeld
  <2> QED
    BY <2>2, <2>7 DEF ReqInv
<1>9. LockedByWriter'
  <2> SUFFICES ASSUME NEW u \in SKU, lock'[u] # None
               PROVE  /\ pc'[lock'[u]] = "save"
                      /\ \E i \in 1 .. saved'[lock'[u]] :
                           copies'[lock'[u]][i].sku = u
    BY DEF LockedByWriter
  <2>1. CASE u = s
    <3>1. k \in 1 .. saved'[w] /\ copies'[w][k].sku = u
      BY <1>1, <1>2, <1>4, <2>1 DEF c, s
    <3> QED
      BY <1>1, <1>4, <2>1, <3>1
  <2>2. CASE u # s
    <3>1. /\ lock'[u] = lock[u] /\ lock[u] \in Request
          /\ pc[lock[u]] = "save"
          /\ \E i \in 1 .. saved[lock[u]] : copies[lock[u]][i].sku = u
      BY <1>2, <1>4, <2>2 DEF Inv, LockedByWriter
    <3>2. \A v \in Request : saved[v] <= saved'[v]
      BY <1>1, <1>2
    <3>3. \A v \in Request : \A i \in 1 .. saved[v] : i \in 1 .. saved'[v]
      BY <1>2, <1>4, <3>2
    <3> QED
      BY <1>1, <3>1, <3>3
  <2> QED
    BY <2>1, <2>2
<1> QED
  BY <1>1, <1>5, <1>7, <1>8, <1>9, RowsStay DEF Inv

LEMMA ConflictInv ==
  ASSUME Inv, NEW w \in Request, Conflict(w)
  PROVE  Inv'
BY RestartInv, FailInv DEF Conflict, Step, shared

LEMMA BreakDeadlockInv ==
  ASSUME Inv, NEW w \in Request, BreakDeadlock(w)
  PROVE  Inv'
BY FailInv DEF BreakDeadlock, Step, shared

LEMMA AbortInv ==
  ASSUME Inv, NEW w \in Request, Abort(w)
  PROVE  Inv'
BY FailInv DEF Abort, shared

-----------------------------------------------------------------------------
(* All that a commit writes is locked, and was read as it is committed: the*)
(* commit is what the request makes of the committed items.                *)
Wrote(w, s) == \E i \in DOMAIN copies[w] : copies[w][i].sku = s

LEMMA CopiesAreCommitted ==
  ASSUME Inv, NEW w \in Request, pc[w] = "save", saved[w] = Len(copies[w])
  PROVE  /\ CanApply(w, copies[w]) /\ copies[w] \in Seq(Copy)
         /\ \A i, j \in DOMAIN copies[w] :
              copies[w][i].sku = copies[w][j].sku => i = j
         /\ Op(w) = "reserve" =>
              \A i \in DOMAIN copies[w] : Asks(w, copies[w][i].sku)
         /\ \A i \in DOMAIN copies[w] :
              LET c == copies[w][i]
              IN  /\ c.sku \in SKU /\ lock[c.sku] = w
                  /\ c.version = rows[c.sku].version
                  /\ c.item = rows[c.sku].item
<1>1. Control(w) /\ Snapshot(w) /\ SavedHeld(w)
  BY DEF Inv, ReqInv
<1>2. copies[w] \in Seq(Copy) /\ rows \in [SKU -> Row]
  BY DEF Inv, TypeOK
<1>3. 1 .. saved[w] = DOMAIN copies[w]
  BY <1>2
<1>4. ASSUME NEW i \in DOMAIN copies[w]
      PROVE  LET c == copies[w][i]
             IN  /\ c.sku \in SKU /\ lock[c.sku] = w
                 /\ c.version = rows[c.sku].version
                 /\ c.item = rows[c.sku].item
  <2> DEFINE c == copies[w][i]
  <2>1. c \in Copy
    BY <1>2
  <2>2. c.sku \in SKU /\ c.item \in Item /\ rows[c.sku].item \in Item
    BY <1>2, <2>1 DEF Copy, Row
  <2>3. lock[c.sku] = w /\ c.version = rows[c.sku].version
    BY <1>1, <1>3 DEF SavedHeld
  <2>4. /\ c.item.available = rows[c.sku].item.available
        /\ c.item.resv = rows[c.sku].item.resv
    BY <1>1, <2>3 DEF Snapshot
  <2>5. c.item = rows[c.sku].item
    <3> HIDE DEF c
    <3> QED
      BY <2>2, <2>4 DEF Item
  <2> QED
    BY <2>2, <2>3, <2>5
<1>5. \A i, j \in DOMAIN copies[w] : copies[w][i].sku = copies[w][j].sku => i = j
  BY <1>1, <1>3 DEF SavedHeld
<1> QED
  BY <1>1, <1>2, <1>4, <1>5 DEF Control

LEMMA CommitIs ==
  ASSUME Inv, NEW w \in Request, Commit(w), NEW s \in SKU
  PROVE  /\ ~ Wrote(w, s) => rows'[s] = rows[s]
         /\ Wrote(w, s) =>
              /\ lock[s] = w
              /\ rows'[s] = [version |-> rows[s].version + 1,
                             item |-> Outcome(w, s, rows[s].item, clock[w], exp[w])]
              /\ Op(w) = "reserve" =>
                   CanReserve(rows[s].item, Cmd[w].ref, OrderOf[Cmd[w].ref][s])
<1> DEFINE res == Result(w, copies[w], clock[w], exp[w])
           Copied == {i \in DOMAIN res : res[i].sku = s}
<1>1. /\ pc[w] = "save" /\ saved[w] = Len(copies[w])
      /\ rows'[s] = IF Copied = {} THEN rows[s]
                    ELSE LET c == res[CHOOSE i \in Copied : TRUE]
                         IN  [version |-> c.version + 1, item |-> c.item]
  BY DEF Commit
<1>2. /\ CanApply(w, copies[w]) /\ copies[w] \in Seq(Copy)
      /\ \A i, j \in DOMAIN copies[w] :
           copies[w][i].sku = copies[w][j].sku => i = j
      /\ Op(w) = "reserve" =>
           \A i \in DOMAIN copies[w] : Asks(w, copies[w][i].sku)
  BY <1>1, CopiesAreCommitted
<1>3. ASSUME NEW i \in DOMAIN copies[w]
      PROVE  LET u == copies[w][i].sku
             IN  /\ DOMAIN res = DOMAIN copies[w]
                 /\ res[i] = [sku |-> u, version |-> copies[w][i].version,
                              item |-> Outcome(w, u, copies[w][i].item, clock[w],
                                               exp[w])]
                 /\ Op(w) = "reserve" =>
                      CanReserve(copies[w][i].item, Cmd[w].ref,
                                 OrderOf[Cmd[w].ref][u])
                 /\ lock[u] = w /\ copies[w][i].version = rows[u].version
                 /\ copies[w][i].item = rows[u].item
  <2>1. LET u == copies[w][i].sku
        IN  /\ lock[u] = w /\ copies[w][i].version = rows[u].version
            /\ copies[w][i].item = rows[u].item
    BY <1>1, CopiesAreCommitted
  <2>2. LET u == copies[w][i].sku
        IN  /\ DOMAIN res = DOMAIN copies[w]
            /\ res[i] = [sku |-> u, version |-> copies[w][i].version,
                         item |-> Outcome(w, u, copies[w][i].item, clock[w],
                                          exp[w])]
            /\ Op(w) = "reserve" =>
                 CanReserve(copies[w][i].item, Cmd[w].ref,
                            OrderOf[Cmd[w].ref][u])
    BY <1>2, ResultIs
  <2> QED
    BY <2>1, <2>2
<1>4. copies[w] = <<>> => DOMAIN res = {}
  <2>1. CASE Op(w) = "reserve"
    BY <2>1 DEF Result, Allocate
  <2>2. CASE Op(w) # "reserve"
    BY <2>2 DEF Result
  <2> QED
    BY <2>1, <2>2
<1>5. DOMAIN res = DOMAIN copies[w]
  <2>1. CASE copies[w] = <<>>
    BY <1>4, <2>1
  <2>2. CASE copies[w] # <<>>
    <3>1. 1 \in DOMAIN copies[w]
      BY <1>2, <2>2, TailOf
    <3> QED
      BY <1>3, <3>1
  <2> QED
    BY <2>1, <2>2
<1> HIDE DEF res
<1>6. ASSUME NEW i \in DOMAIN copies[w]
      PROVE  LET u == copies[w][i].sku
             IN  /\ res[i].sku = u /\ res[i].version = rows[u].version
                 /\ res[i].item = Outcome(w, u, rows[u].item, clock[w], exp[w])
                 /\ Op(w) = "reserve" =>
                      CanReserve(rows[u].item, Cmd[w].ref, OrderOf[Cmd[w].ref][u])
                 /\ lock[u] = w
  <2> DEFINE u == copies[w][i].sku
             it == Outcome(w, u, rows[u].item, clock[w], exp[w])
  <2>1. /\ res[i] = [sku |-> u, version |-> rows[u].version, item |-> it]
        /\ Op(w) = "reserve" =>
             CanReserve(rows[u].item, Cmd[w].ref, OrderOf[Cmd[w].ref][u])
        /\ lock[u] = w
    BY <1>3
  <2> HIDE DEF u, it
  <2>2. res[i].sku = u /\ res[i].version = rows[u].version /\ res[i].item = it
    BY <2>1
  <2> QED
    BY <2>1, <2>2 DEF u, it
<1>7. Copied # {} <=> Wrote(w, s)
  BY <1>5, <1>6 DEF Wrote
<1>8. ASSUME Wrote(w, s)
      PROVE  /\ lock[s] = w
             /\ rows'[s] = [version |-> rows[s].version + 1,
                            item |-> Outcome(w, s, rows[s].item, clock[w], exp[w])]
             /\ Op(w) = "reserve" =>
                  CanReserve(rows[s].item, Cmd[w].ref, OrderOf[Cmd[w].ref][s])
  <2> DEFINE i == CHOOSE i \in Copied : TRUE
  <2>1. i \in Copied
    BY <1>7, <1>8
  <2> HIDE DEF i
  <2>2. i \in DOMAIN copies[w] /\ copies[w][i].sku = s
    BY <1>5, <1>6, <2>1
  <2>3. rows'[s] = [version |-> res[i].version + 1, item |-> res[i].item]
    BY <1>1, <1>7, <1>8 DEF i
  <2> QED
    BY <1>6, <2>2, <2>3
<1> QED
  BY <1>1, <1>7, <1>8

LEMMA CommitInv ==
  ASSUME Inv, NEW w \in Request, Commit(w)
  PROVE  Inv'
<1>1. /\ pc[w] = "save" /\ UNCHANGED <<load, now, clock>>
      /\ \E outcome \in {"ok", "unknown"} : End(w, outcome)
      /\ supplied' = Added(w, supplied) /\ DOMAIN rows' = SKU
  BY DEF Commit
<1>2. PICK outcome \in {"ok", "unknown"} : End(w, outcome)
  BY <1>1
<1>3. lock' = Unlocked(w)
  BY <1>2 DEF End
<1>4. /\ rows \in [SKU -> Row] /\ now \in Nat /\ clock[w] \in Nat
      /\ \A s \in SKU : exp[w][s] \in Nat
  <2>1. /\ now \in 0 .. load.until /\ load.until \in Nat
        /\ clock[w] \in 0 .. now /\ exp[w] \in [SKU -> 0 .. now + TTL]
    BY WorkloadAssumption DEF Inv, TypeOK
  <2>2. now \in Nat /\ now + TTL \in Nat
    BY <2>1, NumberAssumption
  <2> QED
    BY <2>1, <2>2 DEF Inv, TypeOK
<1>5. ASSUME NEW s \in SKU
      PROVE  /\ rows'[s] \in Row
             /\ rows'[s].version = 0 => rows'[s] = rows[s]
             /\ \/ rows'[s] = rows[s]
                \/ lock[s] = w /\ rows'[s].version = rows[s].version + 1
  <2>0. rows[s] \in Row /\ rows[s].version \in Nat /\ rows[s].item \in Item
    BY <1>4 DEF Row
  <2>1. CASE ~ Wrote(w, s)
    BY <2>0, <2>1, CommitIs
  <2>2. CASE Wrote(w, s)
    <3> DEFINE it == Outcome(w, s, rows[s].item, clock[w], exp[w])
    <3>1. /\ lock[s] = w
          /\ rows'[s] = [version |-> rows[s].version + 1, item |-> it]
          /\ Op(w) = "reserve" =>
               CanReserve(rows[s].item, Cmd[w].ref, OrderOf[Cmd[w].ref][s])
      BY <2>2, CommitIs
    <3>2. it \in Item
      BY <1>4, <2>0, <3>1, OutcomeIsItem
    <3> HIDE DEF it
    <3> QED
      BY <2>0, <3>1, <3>2 DEF Row
  <2> QED
    BY <2>1, <2>2
<1>6. rows' \in [SKU -> Row] /\ RowsOK'
  <2>1. rows' \in [SKU -> Row]
    BY <1>1, <1>5 DEF Commit
  <2> QED
    BY <1>5, <2>1 DEF Inv, RowsOK
<1>7. \A v \in Request \ {w} : Untouched(v) /\ ReqInv(v)'
  <2> SUFFICES ASSUME NEW v \in Request \ {w}
               PROVE  Untouched(v) /\ ReqInv(v)'
    OBVIOUS
  <2>1. Untouched(v)
    BY StepOthers DEF Inv, Step
  <2>2. \A s \in SKU : \/ rows'[s] = rows[s]
                       \/ /\ lock[s] # v
                          /\ rows'[s].version = rows[s].version + 1
    BY <1>5
  <2>3. \A s \in SKU : lock[s] = v => lock'[s] = v
    BY <1>3, UnlockedKeeps
  <2> QED
    BY <1>6, <2>1, <2>2, <2>3, OthersInv
<1>8. ReqInv(w)'
  BY <1>2, EndTypes, FreshInv DEF Inv
<1>9. supplied' \in [SKU -> Nat]
  BY <1>1, Commands DEF Added, Inv, TypeOK
<1>10. TypeOK'
  BY <1>1, <1>2, <1>6, <1>9, EndTypes, ClockTypes DEF Inv, TypeOK
<1>11. LockedByWriter'
  BY <1>3, <1>7, UnlockedByWriter
<1> QED
  BY <1>6, <1>7, <1>8, <1>10, <1>11 DEF Inv

LEMMA TickInv ==
  ASSUME Inv, Tick
  PROVE  Inv'
<1>1. /\ now' = now + 1 /\ now < load.until
      /\ UNCHANGED <<load, rows, supplied, lock, pc, attempt, clock, ids, copies,
                     exp, saved>>
  BY DEF Tick, shared, work
<1>2. now' \in 0 .. load.until /\ now \in Nat /\ now' \in Nat
  BY <1>1, WorkloadAssumption DEF Inv, TypeOK
<1>3. 0 .. now \subseteq 0 .. now' /\ 0 .. now + TTL \subseteq 0 .. now' + TTL
  BY <1>1, <1>2, NumberAssumption
<1>4. clock' \in [Request -> 0 .. now']
  BY <1>1, <1>3 DEF Inv, TypeOK
<1>5. exp' \in [Request -> [SKU -> 0 .. now' + TTL]]
  <2>1. [SKU -> 0 .. now + TTL] \subseteq [SKU -> 0 .. now' + TTL]
    BY <1>3
  <2>2. exp \in [Request -> [SKU -> 0 .. now + TTL]]
    BY DEF Inv, TypeOK
  <2> QED
    BY <1>1, <2>1, <2>2
<1>6. TypeOK'
  BY <1>1, <1>2, <1>4, <1>5 DEF Inv, TypeOK
<1>7. RowsOK' /\ LockedByWriter'
  BY <1>1 DEF Inv, RowsOK, LockedByWriter
<1>8. \A v \in Request : ReqInv(v)'
  BY <1>1 DEF Inv, ReqInv, Control, Snapshot, SavedHeld, Asks
<1> QED
  BY <1>6, <1>7, <1>8 DEF Inv

LEMMA InitInv ==
  ASSUME Init
  PROVE  Inv
<1>1. \A s \in SKU : OpeningRows[s] \in Row
                     /\ (OpeningRows[s].version = 0
                           => OpeningRows[s].item = NewStockItem)
  <2> SUFFICES ASSUME NEW s \in SKU
               PROVE  OpeningRows[s] \in Row
                      /\ (OpeningRows[s].version = 0
                            => OpeningRows[s].item = NewStockItem)
    OBVIOUS
  <2>1. NewStockItem \in Item
    BY DEF NewStockItem, Item, NoReservation, Reservation
  <2>2. Opening[s] \in Nat
    BY OpeningAssumption
  <2>3. ReplenishItem(NewStockItem, Opening[s]) =
          [available |-> Opening[s], resv |-> NewStockItem.resv]
    BY <2>2 DEF ReplenishItem, NewStockItem
  <2>4. OpeningRows[s] =
          [version |-> IF Opening[s] = 0 THEN 0 ELSE 1,
           item |-> [available |-> Opening[s], resv |-> NewStockItem.resv]]
    BY <2>3 DEF OpeningRows
  <2> QED
    BY <2>1, <2>2, <2>4 DEF Row, Item, NewStockItem
<1>2. rows \in [SKU -> Row] /\ RowsOK
  BY <1>1 DEF Init, OpeningRows, RowsOK
<1>3. NoExpiry \in [SKU -> 0 .. 0 + TTL]
  BY NumberAssumption DEF NoExpiry
<1>4. TypeOK
  <2>1. 0 \in 0 .. load.until /\ load \in Workload
    BY WorkloadAssumption DEF Init
  <2> QED
    BY <1>2, <1>3, <2>1, NumberAssumption, OpeningAssumption DEF Init, TypeOK
<1>5. LockedByWriter
  BY DEF Init, LockedByWriter
<1>6. \A w \in Request : ReqInv(w)
  BY DEF Init, ReqInv, Control, Snapshot, SavedHeld
<1> QED
  BY <1>2, <1>4, <1>5, <1>6 DEF Inv

LEMMA NextInv ==
  ASSUME Inv, [Next]_vars
  PROVE  Inv'
<1>1. ASSUME NEW w \in Request, Begin(w) \/ Step(w) \/ Abort(w)
      PROVE  Inv'
  BY <1>1, BeginInv, ListInv, ReadItemInv, ReadReservationsInv, ApplyInv,
     WriteInv, ConflictInv, BreakDeadlockInv, CommitInv, AbortInv DEF Step
<1>2. CASE Tick
  BY <1>2, TickInv
<1>3. CASE UNCHANGED vars
  <2>1. UNCHANGED <<load, rows, lock, now, supplied, pc, attempt, clock, ids,
                    copies, exp, saved>>
    BY <1>3 DEF vars
  <2>2. TypeOK' /\ RowsOK' /\ LockedByWriter'
    BY <2>1 DEF Inv, TypeOK, RowsOK, LockedByWriter
  <2>3. \A v \in Request : ReqInv(v)'
    BY <2>1 DEF Inv, ReqInv, Control, Snapshot, SavedHeld, Asks
  <2> QED
    BY <2>2, <2>3 DEF Inv
<1> QED
  BY <1>1, <1>2, <1>3 DEF Next

(* In every behaviour the rows, the locks and the copies fit together.     *)
THEOREM InvHolds == Spec => []Inv
<1>1. Init => Inv
  BY InitInv
<1>2. Inv /\ [Next]_vars => Inv'
  BY NextInv
<1> QED
  BY <1>1, <1>2, PTL DEF Spec

(* Every variable keeps its type, and nobody saves more than it loaded.    *)
THEOREM TypeCorrect == Spec => []TypeOK
<1>1. Inv => TypeOK
  BY DEF Inv
<1> QED
  BY <1>1, InvHolds, PTL

(* stock_store.go, reconstitute: a copy whose version is still committed   *)
(* is a copy of what is committed, although two statements read it.        *)
THEOREM SnapshotIsValid == Spec => []SnapshotValid
<1>1. Inv => SnapshotValid
  BY DEF Inv, ReqInv, Snapshot, SnapshotValid
<1> QED
  BY <1>1, InvHolds, PTL

(* stock_store.go, Save: a version that was checked stays the committed one*)
(* until its transaction ends, however many rows are still to be written.  *)
THEOREM CheckedIsCurrent == Spec => []CheckedStaysCurrent
<1>1. Inv => CheckedStaysCurrent
  BY DEF Inv, ReqInv, SavedHeld, CheckedStaysCurrent
<1> QED
  BY <1>1, InvHolds, PTL

(* uow.go: a conflict, a deadlock or a failure leaves no row lock behind.  *)
THEOREM LocksByWriters == Spec => []LockedByWriter
<1>1. Inv => LockedByWriter
  BY DEF Inv
<1> QED
  BY <1>1, InvHolds, PTL

-----------------------------------------------------------------------------
(* Who loses a race lost it to somebody.  An order that named an SKU twice *)
(* would conflict with its own first write.                                *)
OneLinePerSKU ==
  \A r \in Ref : \A i, j \in DOMAIN LinesOf[r] :
    LinesOf[r][i].sku = LinesOf[r][j].sku => i = j

(* What a request loaded and what it has still to load differ.             *)
Apart(w) ==
  /\ \A i, j \in DOMAIN copies[w] : copies[w][i].sku = copies[w][j].sku => i = j
  /\ \A i, j \in DOMAIN ids[w] : ids[w][i] = ids[w][j] => i = j
  /\ \A i \in DOMAIN copies[w], j \in DOMAIN ids[w] :
       copies[w][i].sku = ids[w][j] =>
         pc[w] = "resv" /\ i = Len(copies[w]) /\ j = 1

(* A copy of something that another request has written since.             *)
Stale(w) ==
  \E i \in DOMAIN copies[w] : copies[w][i].version # rows[copies[w][i].sku].version

Before(w) == Cardinality(Committed \ {w})

EarnedBy(w) ==
  /\ Apart(w)
  /\ attempt[w] <= 1 + Before(w)
  /\ Stale(w) => attempt[w] <= Before(w)

Earned == IsFiniteSet(Committed) /\ \A w \in Request : EarnedBy(w)

LEMMA OrderingsDiffer ==
  ASSUME NEW S \in SUBSET SKU, NEW f \in Orderings(S)
  PROVE  \A i, j \in DOMAIN f : f[i] = f[j] => i = j
<1>1. IsFiniteSet(S)
  BY SKUAssumption, FS_Subset
<1> DEFINE n == Cardinality(S)
<1>2. n \in Nat
  BY <1>1, FS_CardinalityType
<1> HIDE DEF n
<1>3. IsFiniteSet(1 .. n) /\ Cardinality(1 .. n) = n
  <2>1. Cardinality(1 .. n) = IF 1 > n THEN 0 ELSE n - 1 + 1
    BY <1>2, FS_Interval
  <2> QED
    BY <1>2, <2>1, FS_Interval
<1>4. f \in [1 .. n -> S] /\ \A s \in S : \E i \in 1 .. n : f[i] = s
  BY DEF Orderings, n
<1>5. f \in Surjection(1 .. n, S)
  BY <1>4 DEF Surjection
<1>6. f \in Injection(1 .. n, S)
  <2>1. Cardinality(1 .. n) = Cardinality(S)
    BY <1>3 DEF n
  <2> QED
    BY <1>3, <1>5, <2>1, FS_SurjSameCardinalityImpliesInj
<1> QED
  BY <1>4, <1>6 DEF Injection, IsInjective

LEMMA NamedDiffer ==
  ASSUME OneLinePerSKU, NEW w \in Request
  PROVE  \A i, j \in DOMAIN Named(w) : Named(w)[i] = Named(w)[j] => i = j
<1>1. CASE Op(w) = "reserve"
  <2>1. Cmd[w].ref \in Ref
    BY <1>1, Commands
  <2> QED
    BY <1>1, <2>1 DEF Named, OneLinePerSKU
<1>2. CASE Op(w) = "replenish"
  BY <1>2 DEF Named
<1>3. CASE Op(w) \notin {"reserve", "replenish"}
  BY <1>3 DEF Named
<1> QED
  BY <1>1, <1>2, <1>3

(* A step that commits nothing and writes no row is nothing to the others. *)
LEMMA OthersEarned ==
  ASSUME Earned, TypeOK, NEW w \in Request, NEW v \in Request \ {w},
         Untouched(v), Committed' = Committed, rows' = rows
  PROVE  EarnedBy(v)'
BY DEF Earned, EarnedBy, Apart, Stale, Before, Untouched

(* Only a commit adds to what is committed.                                *)
LEMMA CommittedStays ==
  ASSUME TypeOK, NEW w \in Request, \A v \in Request \ {w} : Untouched(v),
         {pc[w], pc'[w]} \cap {"ok", "unknown"} = {}
  PROVE  Committed' = Committed
BY DEF Committed, Untouched

LEMMA BeforeType ==
  ASSUME IsFiniteSet(Committed), NEW w \in Request
  PROVE  Before(w) \in Nat
<1>1. IsFiniteSet(Committed \ {w})
  BY FS_RemoveElement
<1> QED
  BY <1>1, FS_CardinalityType DEF Before

(* A step that ends neither well nor in doubt, by what it does to w.       *)
LEMMA QuietEarned ==
  ASSUME Earned, TypeOK, NEW w \in Request, Begin(w) \/ Step(w) \/ Abort(w),
         {pc[w], pc'[w]} \cap {"ok", "unknown"} = {}, rows' = rows,
         Apart(w)', attempt'[w] <= 1 + Before(w),
         Stale(w)' => attempt'[w] <= Before(w)
  PROVE  Earned'
<1>1. \A v \in Request \ {w} : Untouched(v)
  BY StepOthers
<1>2. Committed' = Committed
  BY <1>1, CommittedStays
<1>3. \A v \in Request \ {w} : EarnedBy(v)'
  BY <1>1, <1>2, OthersEarned
<1>4. EarnedBy(w)'
  BY <1>2 DEF EarnedBy, Before
<1> QED
  BY <1>2, <1>3, <1>4 DEF Earned

(* A request whose copies are of the committed versions as they were.      *)
LEMMA EmptyApart ==
  ASSUME OneLinePerSKU, NEW w \in Request, copies'[w] = <<>>,
         ids'[w] \in {<<>>, Named(w)}
  PROVE  Apart(w)' /\ ~ Stale(w)'
BY NamedDiffer DEF Apart, Stale

LEMMA BeginEarned ==
  ASSUME OneLinePerSKU, Inv, Earned, NEW w \in Request, Begin(w)
  PROVE  Earned'
<1>1. attempt[w] = 0 /\ pc[w] = "idle" /\ StartAttempt(w) /\ rows' = rows
  BY DEF Begin, Inv, ReqInv, Control, shared
<1>2. /\ pc'[w] \in {"list", "load"} /\ ids'[w] = Named(w) /\ copies'[w] = <<>>
  BY <1>1, StartTypes, NumberAssumption DEF Inv
<1>3. attempt'[w] = 1
  BY <1>1 DEF StartAttempt, Inv, TypeOK
<1>4. Before(w) \in Nat
  BY BeforeType DEF Earned
<1> QED
  BY <1>1, <1>2, <1>3, <1>4, EmptyApart, QuietEarned DEF Inv

LEMMA EndEarned ==
  ASSUME OneLinePerSKU, Inv, Earned, NEW w \in Request, Step(w) \/ Abort(w),
         pc[w] \in {"list", "load", "resv", "save"}, End(w, "failed"),
         rows' = rows
  PROVE  Earned'
<1>1. pc'[w] = "failed" /\ ids'[w] = <<>> /\ copies'[w] = <<>>
  BY EndTypes DEF Inv
<1>2. attempt'[w] = attempt[w]
  BY DEF End
<1>3. attempt[w] <= 1 + Before(w)
  BY DEF Earned, EarnedBy
<1> QED
  BY <1>1, <1>2, <1>3, EmptyApart, QuietEarned DEF Inv

LEMMA ListEarned ==
  ASSUME Inv, Earned, NEW w \in Request, List(w)
  PROVE  Earned'
<1>1. /\ pc[w] = "list" /\ pc' = [pc EXCEPT ![w] = "load"] /\ copies[w] = <<>>
      /\ UNCHANGED <<rows, attempt, copies>>
      /\ ids \in [Request -> Seq(SKU)]
      /\ pc \in [Request -> {"idle", "list", "load", "resv", "save",
                             "ok", "unknown", "failed"}]
  BY DEF List, shared, Inv, ReqInv, Control, TypeOK
<1>2. \E S \in SUBSET SKU : \E f \in Orderings(S) : ids' = [ids EXCEPT ![w] = f]
  BY DEF List, Listed
<1>3. \A i, j \in DOMAIN ids'[w] : ids'[w][i] = ids'[w][j] => i = j
  BY <1>1, <1>2, OrderingsDiffer
<1>4. Apart(w)' /\ ~ Stale(w)'
  BY <1>1, <1>3 DEF Apart, Stale
<1>5. attempt[w] <= 1 + Before(w)
  BY DEF Earned, EarnedBy
<1> QED
  BY <1>1, <1>4, <1>5, QuietEarned DEF Inv, Step

LEMMA ReadItemEarned ==
  ASSUME Inv, Earned, NEW w \in Request, ReadItem(w)
  PROVE  Earned'
<1> DEFINE s == Head(ids[w])
           new == [sku |-> s, version |-> rows[s].version,
                   item |-> [available |-> rows[s].item.available,
                             resv |-> NewStockItem.resv]]
<1>1. /\ pc[w] = "load" /\ ids[w] # <<>> /\ s \in SKU /\ new \in Copy
      /\ \/ copies'[w] = Append(copies[w], new)
         \/ copies'[w] = copies[w]
      /\ \/ /\ rows[s].version > 0
            /\ copies'[w] = Append(copies[w], new)
            /\ pc'[w] = "resv" /\ ids'[w] = ids[w]
         \/ /\ rows[s].version = 0
            /\ copies'[w] # copies[w] => Op(w) = "replenish"
            /\ pc'[w] = "load" /\ ids'[w] = Tail(ids[w])
  BY ReadItemIs
<1>2. UNCHANGED <<rows, attempt>>
  BY DEF ReadItem, shared
<1>3. ids[w] \in Seq(SKU) /\ copies[w] \in Seq(Copy)
  BY DEF Inv, TypeOK
<1>4. new.sku = s /\ new.version = rows[s].version
  OBVIOUS
<1> HIDE DEF new
<1>5. EarnedBy(w)
  BY DEF Earned
<1>6. /\ \A i \in DOMAIN Tail(ids[w]) :
           i + 1 \in DOMAIN ids[w] /\ Tail(ids[w])[i] = ids[w][i + 1]
      /\ s = ids[w][1] /\ 1 \in DOMAIN ids[w]
      /\ DOMAIN ids[w] \subseteq Nat /\ DOMAIN Tail(ids[w]) \subseteq Nat \ {0}
  BY <1>1, <1>3, TailOf
<1>7. /\ \A i \in DOMAIN Append(copies[w], new) :
           \/ i \in DOMAIN copies[w] /\ Append(copies[w], new)[i] = copies[w][i]
           \/ i = Len(copies[w]) + 1
      /\ Append(copies[w], new)[Len(copies[w]) + 1] = new
      /\ Len(Append(copies[w], new)) = Len(copies[w]) + 1
  BY <1>1, <1>3, AppendOf
<1> HIDE DEF s
(* The copies do not hold what is still to be loaded.                      *)
<1>8. \A i \in DOMAIN copies[w], j \in DOMAIN ids[w] : copies[w][i].sku # ids[w][j]
  BY <1>1, <1>5 DEF EarnedBy, Apart
<1>9. \A i \in DOMAIN copies[w] : copies[w][i].sku # s
  BY <1>6, <1>8
<1>10. \A i, j \in DOMAIN copies'[w] :
         copies'[w][i].sku = copies'[w][j].sku => i = j
  <2>1. CASE copies'[w] = copies[w]
    BY <1>5, <2>1 DEF EarnedBy, Apart
  <2>2. CASE copies'[w] = Append(copies[w], new)
    BY <1>4, <1>5, <1>7, <1>9, <2>2 DEF EarnedBy, Apart
  <2> QED
    BY <1>1, <2>1, <2>2
<1>11. \A i, j \in DOMAIN ids'[w] : ids'[w][i] = ids'[w][j] => i = j
  <2>1. CASE ids'[w] = ids[w]
    BY <1>5, <2>1 DEF EarnedBy, Apart
  <2>2. CASE ids'[w] = Tail(ids[w])
    <3> SUFFICES ASSUME NEW i \in DOMAIN Tail(ids[w]), NEW j \in DOMAIN Tail(ids[w]),
                        Tail(ids[w])[i] = Tail(ids[w])[j]
                 PROVE  i = j
      BY <2>2
    <3>1. i + 1 = j + 1
      BY <1>5, <1>6 DEF EarnedBy, Apart
    <3> QED
      BY <1>6, <3>1
  <2> QED
    BY <1>1, <2>1, <2>2
<1>12. \A i \in DOMAIN copies'[w], j \in DOMAIN ids'[w] :
         copies'[w][i].sku = ids'[w][j] =>
           pc'[w] = "resv" /\ i = Len(copies'[w]) /\ j = 1
  <2> SUFFICES ASSUME NEW i \in DOMAIN copies'[w], NEW j \in DOMAIN ids'[w],
                      copies'[w][i].sku = ids'[w][j]
               PROVE  pc'[w] = "resv" /\ i = Len(copies'[w]) /\ j = 1
    OBVIOUS
  <2>1. CASE copies'[w] = Append(copies[w], new) /\ ids'[w] = ids[w]
             /\ pc'[w] = "resv"
    <3>1. i = Len(copies[w]) + 1
      BY <1>7, <1>8, <2>1
    <3>2. ids[w][j] = ids[w][1] /\ i = Len(copies'[w])
      BY <1>4, <1>6, <1>7, <2>1, <3>1
    <3> QED
      BY <1>5, <1>6, <2>1, <3>2 DEF EarnedBy, Apart
  <2>2. CASE ids'[w] = Tail(ids[w])
    <3>1. j + 1 \in DOMAIN ids[w] /\ copies'[w][i].sku = ids[w][j + 1] /\ j + 1 # 1
      BY <1>6, <2>2
    <3>2. copies'[w][i].sku = s
      BY <1>1, <1>4, <1>7, <1>8, <3>1
    <3>3. j + 1 = 1
      BY <1>5, <1>6, <3>1, <3>2 DEF EarnedBy, Apart
    <3> QED
      BY <3>1, <3>3
  <2> QED
    BY <1>1, <2>1, <2>2
<1>13. Stale(w)' => Stale(w)
  <2>1. CASE copies'[w] = copies[w]
    BY <1>2, <2>1 DEF Stale
  <2>2. CASE copies'[w] = Append(copies[w], new)
    BY <1>2, <1>4, <1>7, <2>2 DEF Stale
  <2> QED
    BY <1>1, <2>1, <2>2
<1>14. Apart(w)'
  BY <1>10, <1>11, <1>12 DEF Apart
<1>15. {pc[w], pc'[w]} \cap {"ok", "unknown"} = {}
  BY <1>1
<1> QED
  BY <1>2, <1>5, <1>13, <1>14, <1>15, QuietEarned DEF EarnedBy, Step, Inv

LEMMA ReadReservationsEarned ==
  ASSUME Inv, Earned, NEW w \in Request, ReadReservations(w)
  PROVE  Earned'
<1> DEFINE n == Len(copies[w])
           c == copies[w][n]
           new == [sku |-> c.sku, version |-> c.version,
                   item |-> [available |-> c.item.available,
                             resv |-> rows[c.sku].item.resv]]
<1>1. /\ n \in DOMAIN copies[w] /\ n \in Nat /\ new \in Copy
      /\ pc[w] = "resv" /\ pc'[w] = "load"
      /\ copies' = [copies EXCEPT ![w] = [copies[w] EXCEPT ![n] = new]]
      /\ ids[w] # <<>> /\ Head(ids[w]) = c.sku
      /\ ids'[w] = Tail(ids[w])
  BY ReadReservationsIs
<1>2. UNCHANGED <<rows, attempt>>
  BY DEF ReadReservations, shared
<1>3. /\ ids[w] \in Seq(SKU) /\ copies[w] \in Seq(Copy)
      /\ copies \in [Request -> Seq(Copy)]
  BY DEF Inv, TypeOK
<1>4. new.sku = c.sku /\ new.version = c.version
  OBVIOUS
<1> HIDE DEF new
<1>5. EarnedBy(w)
  BY DEF Earned
<1>6. /\ DOMAIN copies'[w] = DOMAIN copies[w]
      /\ \A i \in DOMAIN copies[w] :
           /\ copies'[w][i].sku = copies[w][i].sku
           /\ copies'[w][i].version = copies[w][i].version
  BY <1>1, <1>3, <1>4
<1>7. /\ \A i \in DOMAIN Tail(ids[w]) :
           i + 1 \in DOMAIN ids[w] /\ Tail(ids[w])[i] = ids[w][i + 1]
      /\ DOMAIN Tail(ids[w]) \subseteq Nat \ {0}
  BY <1>1, <1>3, TailOf
<1>8. Apart(w)'
  <2>1. \A i, j \in DOMAIN copies'[w] :
          copies'[w][i].sku = copies'[w][j].sku => i = j
    BY <1>5, <1>6 DEF EarnedBy, Apart
  <2>2. \A i, j \in DOMAIN ids'[w] : ids'[w][i] = ids'[w][j] => i = j
    <3> SUFFICES ASSUME NEW i \in DOMAIN Tail(ids[w]), NEW j \in DOMAIN Tail(ids[w]),
                        Tail(ids[w])[i] = Tail(ids[w])[j]
                 PROVE  i = j
      BY <1>1
    <3>1. i + 1 = j + 1
      BY <1>5, <1>7 DEF EarnedBy, Apart
    <3> QED
      BY <1>7, <3>1
  <2>3. ASSUME NEW i \in DOMAIN copies'[w], NEW j \in DOMAIN ids'[w],
               copies'[w][i].sku = ids'[w][j]
        PROVE  FALSE
    <3>1. j + 1 \in DOMAIN ids[w] /\ copies[w][i].sku = ids[w][j + 1] /\ j + 1 # 1
      BY <1>1, <1>6, <1>7, <2>3
    <3> QED
      BY <1>5, <1>6, <3>1 DEF EarnedBy, Apart
  <2> QED
    BY <2>1, <2>2, <2>3 DEF Apart
<1>9. Stale(w)' => Stale(w)
  BY <1>2, <1>6 DEF Stale
<1>10. {pc[w], pc'[w]} \cap {"ok", "unknown"} = {}
  BY <1>1
<1> QED
  BY <1>2, <1>5, <1>8, <1>9, <1>10, QuietEarned DEF EarnedBy, Step, Inv

LEMMA ApplyEarned ==
  ASSUME OneLinePerSKU, Inv, Earned, NEW w \in Request, Apply(w)
  PROVE  Earned'
<1>1. pc[w] = "load" /\ ids[w] = <<>> /\ rows' = rows /\ EarnedBy(w)
  BY DEF Apply, shared, Earned
<1>2. CASE End(w, "failed")
  BY <1>1, <1>2, EndEarned DEF Step
<1>3. CASE pc' = [pc EXCEPT ![w] = "save"]
           /\ UNCHANGED <<lock, attempt, ids, copies, saved>>
  <2>1. pc'[w] = "save"
    BY <1>3 DEF Inv, TypeOK
  <2>2. Apart(w)' /\ (Stale(w)' => Stale(w))
    BY <1>1, <1>3 DEF EarnedBy, Apart, Stale
  <2> QED
    BY <1>1, <1>3, <2>1, <2>2, QuietEarned DEF EarnedBy, Step, Inv
<1> QED
  BY <1>2, <1>3 DEF Apply

LEMMA WriteEarned ==
  ASSUME Inv, Earned, NEW w \in Request, Write(w)
  PROVE  Earned'
<1>1. pc[w] = "save" /\ UNCHANGED <<rows, pc, attempt, ids, copies>> /\ EarnedBy(w)
  BY DEF Write, Saving, shared, Earned
<1>2. Apart(w)' /\ (Stale(w)' => Stale(w))
  BY <1>1 DEF EarnedBy, Apart, Stale
<1> QED
  BY <1>1, <1>2, QuietEarned DEF EarnedBy, Step, Inv

(* Only a write of another request makes a save fail.                      *)
LEMMA ConflictEarned ==
  ASSUME OneLinePerSKU, Inv, Earned, NEW w \in Request, Conflict(w)
  PROVE  Earned'
<1> DEFINE k == saved[w] + 1
           c == copies[w][k]
<1>1. /\ pc[w] = "save" /\ saved[w] < Len(copies[w])
      /\ c.version # rows[c.sku].version \/ lock[c.sku] = w
      /\ rows' = rows
  BY DEF Conflict, Saving, VersionMatches, Current, shared
<1>2. copies[w] \in Seq(Copy) /\ saved[w] \in Nat /\ attempt[w] \in Nat
  BY DEF Inv, TypeOK
<1>3. k \in DOMAIN copies[w] /\ c.sku \in SKU
  <2>1. k \in DOMAIN copies[w]
    BY <1>1, <1>2
  <2>2. c \in Copy
    BY <1>2, <2>1
  <2> QED
    BY <2>1, <2>2 DEF Copy
<1>4. EarnedBy(w)
  BY DEF Earned
<1>5. lock[c.sku] # w
  <2> SUFFICES ASSUME lock[c.sku] = w
               PROVE  FALSE
    OBVIOUS
  <2>1. PICK i \in 1 .. saved[w] : copies[w][i].sku = c.sku
    BY <1>3, NoneAssumption DEF Inv, LockedByWriter
  <2>2. i \in DOMAIN copies[w] /\ i # k
    BY <1>1, <1>2
  <2> QED
    BY <1>3, <1>4, <2>1, <2>2 DEF EarnedBy, Apart
<1>6. attempt[w] <= Before(w)
  BY <1>1, <1>3, <1>4, <1>5 DEF EarnedBy, Stale
<1>7. CASE attempt[w] < MaxAttempts /\ StartAttempt(w)
  <2>1. /\ pc'[w] \in {"list", "load"} /\ ids'[w] = Named(w) /\ copies'[w] = <<>>
    BY <1>7, StartTypes DEF Inv
  <2>2. attempt'[w] = attempt[w] + 1
    BY <1>7 DEF StartAttempt, Inv, TypeOK
  <2>3. attempt'[w] <= 1 + Before(w)
    <3>1. Before(w) \in Nat
      BY BeforeType DEF Earned
    <3> QED
      BY <1>2, <1>6, <2>2, <3>1
  <2> QED
    BY <1>1, <2>1, <2>3, EmptyApart, QuietEarned DEF Inv, Step
<1>8. CASE End(w, "failed")
  BY <1>1, <1>8, EndEarned DEF Step
<1> QED
  BY <1>7, <1>8 DEF Conflict

LEMMA BreakDeadlockEarned ==
  ASSUME OneLinePerSKU, Inv, Earned, NEW w \in Request, BreakDeadlock(w)
  PROVE  Earned'
<1>1. pc[w] = "save" /\ End(w, "failed") /\ rows' = rows
  BY DEF BreakDeadlock, Deadlocked, shared
<1> QED
  BY <1>1, EndEarned DEF Step

LEMMA AbortEarned ==
  ASSUME OneLinePerSKU, Inv, Earned, NEW w \in Request, Abort(w)
  PROVE  Earned'
<1>1. pc[w] \in {"list", "load", "resv", "save"} /\ End(w, "failed") /\ rows' = rows
  BY DEF Abort, shared
<1> QED
  BY <1>1, EndEarned

(* A commit pays for one attempt of everybody else.                        *)
LEMMA CommitEarned ==
  ASSUME OneLinePerSKU, Inv, Earned, NEW w \in Request, Commit(w)
  PROVE  Earned'
<1>1. PICK outcome \in {"ok", "unknown"} : End(w, outcome)
  BY DEF Commit
<1>2. pc[w] = "save" /\ pc'[w] \in {"ok", "unknown"} /\ attempt' = attempt
  BY <1>1, EndTypes DEF Commit, Inv, End
<1>3. \A v \in Request \ {w} : Untouched(v)
  BY StepOthers DEF Step, Inv
<1>4. Committed' = Committed \cup {w} /\ w \notin Committed
  BY <1>2, <1>3 DEF Committed, Untouched
<1>5. IsFiniteSet(Committed')
  BY <1>4, FS_AddElement DEF Earned
<1>6. ASSUME NEW v \in Request \ {w}
      PROVE  EarnedBy(v)'
  <2>1. IsFiniteSet(Committed \ {v}) /\ w \notin Committed \ {v}
    BY <1>4, FS_RemoveElement DEF Earned
  <2>2. Committed' \ {v} = (Committed \ {v}) \cup {w}
    BY <1>4
  <2>3. Before(v)' = Before(v) + 1 /\ Before(v) \in Nat
    BY <2>1, <2>2, FS_AddElement, FS_CardinalityType DEF Before
  <2>4. EarnedBy(v) /\ attempt[v] \in Nat
    BY DEF Earned, Inv, TypeOK
  <2>5. Apart(v)'
    BY <1>3, <2>4 DEF EarnedBy, Apart, Untouched
  <2>6. attempt'[v] <= Before(v)'
    BY <1>2, <2>3, <2>4 DEF EarnedBy
  <2> QED
    BY <1>2, <2>3, <2>4, <2>5, <2>6 DEF EarnedBy
<1>7. EarnedBy(w)'
  <2>1. Apart(w)' /\ ~ Stale(w)'
    BY <1>1, EndTypes, EmptyApart DEF Inv
  <2>2. Committed' \ {w} = Committed \ {w}
    BY <1>4
  <2>3. attempt[w] <= 1 + Before(w)
    BY DEF Earned, EarnedBy
  <2> QED
    BY <1>2, <2>1, <2>2, <2>3 DEF EarnedBy, Before
<1> QED
  BY <1>5, <1>6, <1>7 DEF Earned

LEMMA InitEarned ==
  ASSUME Init
  PROVE  Earned
<1>1. Committed = {}
  BY DEF Init, Committed
<1>2. ASSUME NEW w \in Request
      PROVE  EarnedBy(w)
  <2>1. Committed \ {w} = {}
    BY <1>1
  <2>2. Before(w) = 0 /\ attempt[w] = 0 /\ copies[w] = <<>> /\ ids[w] = <<>>
    BY <2>1, FS_EmptySet DEF Before, Init
  <2> QED
    BY <2>2 DEF EarnedBy, Apart, Stale
<1> QED
  BY <1>1, <1>2, FS_EmptySet DEF Earned

LEMMA NextEarned ==
  ASSUME OneLinePerSKU, Inv, Earned, [Next]_vars
  PROVE  Earned'
<1>1. ASSUME NEW w \in Request, Begin(w) \/ Step(w) \/ Abort(w)
      PROVE  Earned'
  BY <1>1, BeginEarned, ListEarned, ReadItemEarned, ReadReservationsEarned,
     ApplyEarned, WriteEarned, ConflictEarned, BreakDeadlockEarned, CommitEarned,
     AbortEarned DEF Step
<1>2. CASE Tick \/ UNCHANGED vars
  <2>1. UNCHANGED <<rows, pc, attempt, ids, copies>>
    BY <1>2 DEF Tick, vars, shared, work
  <2> QED
    BY <2>1 DEF Earned, EarnedBy, Committed, Before, Apart, Stale
<1> QED
  BY <1>1, <1>2 DEF Next

(* uow.go, Run: nobody tries again without need.  Each attempt after the   *)
(* first was made necessary by the commit of another request, as long as   *)
(* no order names an SKU twice.                                            *)
THEOREM ConflictsEarned ==
  ASSUME OneLinePerSKU
  PROVE  Spec => []ConflictsAreEarned
<1>1. Init => Earned
  BY InitEarned
<1>2. Inv /\ Earned /\ [Next]_vars => Earned'
  BY NextEarned
<1>3. Earned => ConflictsAreEarned
  BY DEF Earned, EarnedBy, Before, ConflictsAreEarned
<1> QED
  BY <1>1, <1>2, <1>3, InvHolds, PTL DEF Spec

-----------------------------------------------------------------------------
(* The commits are the use cases of Inventory.  A request deals with a set *)
(* of items; nothing that its operation concerns is outside it.  For the   *)
(* operations on a reference that takes one thing of the callers: that a   *)
(* reservation which is confirmed or released is requested once.  (A second*)
(* reservation under a reference, between the list and the load of its     *)
(* confirmation, would give it items the confirmation does not know of.)   *)
(* Others may be requested any number of times.                            *)
AskedOnce(r) ==
  \A v, w \in Request :
    Op(v) = "reserve" /\ Op(w) = "reserve" /\ Cmd[v].ref = r /\ Cmd[w].ref = r
      => v = w

ReservedOnce ==
  \A u \in Request : Op(u) \in {"confirm", "release"} => AskedOnce(Cmd[u].ref)

(* The reservation was requested and committed.                            *)
Made(r) == \E v \in Committed : Op(v) = "reserve" /\ Cmd[v].ref = r

Slots ==
  \A s \in SKU, r \in Ref :
    LET rv == rows[s].item.resv[r]
    IN  IF rv.status = "none" THEN rv = NoReservation ELSE Made(r)

Concerned(w) ==
  {copies[w][i].sku : i \in DOMAIN copies[w]} \cup {ids[w][i] : i \in DOMAIN ids[w]}

CoversHolders(w) ==
  Op(w) \in {"confirm", "release"} /\ Concerned(w) # {} =>
    /\ Made(Cmd[w].ref)
    /\ AskedOnce(Cmd[w].ref) =>
         \A s \in SKU : HasReservation(rows[s].item, Cmd[w].ref) => s \in Concerned(w)

CoversBatch(w) ==
  Op(w) = "sweep" => IsFiniteSet(Concerned(w)) /\ Cardinality(Concerned(w)) <= Batch

CoversOne(w) ==
  Op(w) = "replenish" /\ pc[w] \in {"load", "resv", "save"} =>
    \/ copies[w] = <<>> /\ ids[w] = <<Cmd[w].sku>>
    \/ /\ Len(copies[w]) = 1 /\ copies[w][1].sku = Cmd[w].sku
       /\ ids[w] = IF pc[w] = "resv" THEN <<Cmd[w].sku>> ELSE <<>>

Ready(w) ==
  pc[w] = "save" =>
    /\ ids[w] = <<>>
    /\ Op(w) = "reserve" => \A s \in SKU : \E t \in 0 .. now : exp[w][s] = t + TTL

Covered(w) == CoversHolders(w) /\ CoversBatch(w) /\ CoversOne(w) /\ Ready(w)

Refining == Slots /\ \A w \in Request : Covered(w)

(* A request makes a reservation under its own reference only, and leaves  *)
(* nothing behind in a slot it empties.                                    *)
LEMMA SlotOutcome ==
  ASSUME NEW w \in Request, NEW s, NEW it \in Item, NEW t, NEW e, NEW r \in Ref
  PROVE  LET new == Outcome(w, s, it, t, e)
         IN  /\ HasReservation(new, r) =>
                  \/ HasReservation(it, r)
                  \/ Op(w) = "reserve" /\ Cmd[w].ref = r
             /\ (~ HasReservation(it, r) => it.resv[r] = NoReservation)
                  => (~ HasReservation(new, r) => new.resv[r] = NoReservation)
<1> DEFINE new == Outcome(w, s, it, t, e)
           p == Cmd[w].ref
<1>1. CASE Op(w) = "replenish"
  <2>1. new.resv = it.resv
    BY <1>1 DEF Outcome, ResultOf, ReplenishItem, Item
  <2> QED
    BY <2>1 DEF HasReservation
<1>2. CASE Op(w) = "reserve"
  <2>1. p \in Ref /\ new = ReserveItem(it, p, OrderOf[p][s], e[s])
    BY <1>2, Commands DEF Outcome
  <2>2. \/ new.resv[r] = it.resv[r]
        \/ p = r /\ new.resv[r].status = "pending"
    <3>1. it.resv \in [Ref -> Reservation]
      BY DEF Item
    <3> QED
      BY <2>1, <3>1 DEF ReserveItem
  <2> QED
    BY <1>2, <2>2 DEF HasReservation
<1>3. CASE Op(w) = "confirm"
  <2>1. p \in Ref /\ new = ConfirmItem(it, p)
    BY <1>3, Commands DEF Outcome, ResultOf
  <2>2. \/ new.resv[r] = it.resv[r]
        \/ HasReservation(it, r) /\ HasReservation(new, r)
    <3>1. CASE it.resv[p].status # "pending"
      BY <2>1, <3>1 DEF ConfirmItem
    <3>2. CASE it.resv[p].status = "pending" /\ p # r
      BY <2>1, <3>2 DEF ConfirmItem, Item
    <3>3. CASE it.resv[p].status = "pending" /\ p = r
      BY <2>1, <3>3 DEF ConfirmItem, HasReservation, Item, Reservation
    <3> QED
      BY <3>1, <3>2, <3>3
  <2> QED
    BY <2>2 DEF HasReservation
<1>4. CASE Op(w) = "release"
  <2>1. p \in Ref /\ new = ReleaseItem(it, p)
    BY <1>4, Commands DEF Outcome, ResultOf
  <2>2. new.resv[r] = it.resv[r] \/ new.resv[r] = NoReservation
    <3>1. it.resv \in [Ref -> Reservation]
      BY DEF Item
    <3> QED
      BY <2>1, <3>1 DEF ReleaseItem
  <2> QED
    BY <2>2 DEF HasReservation, NoReservation
<1>5. CASE Op(w) = "sweep"
  <2>1. new = ReapItem(it, t)
    BY <1>5 DEF Outcome, ResultOf
  <2>2. new.resv[r] = it.resv[r] \/ new.resv[r] = NoReservation
    BY <2>1 DEF ReapItem
  <2> QED
    BY <2>2 DEF HasReservation, NoReservation
<1> QED
  BY <1>1, <1>2, <1>3, <1>4, <1>5, Commands

(* What a step of another request may do to what a request covers.         *)
LEMMA OthersCovered ==
  ASSUME NEW v \in Request, Covered(v), Untouched(v), now \in Nat, now' \in Nat,
         now <= now', \A r \in Ref : Made(r) => Made(r)',
         Op(v) \in {"confirm", "release"} /\ Made(Cmd[v].ref)
           /\ AskedOnce(Cmd[v].ref) =>
           \A s \in SKU : HasReservation(rows'[s].item, Cmd[v].ref)
                            => HasReservation(rows[s].item, Cmd[v].ref)
  PROVE  Covered(v)'
<1>1. Concerned(v)' = Concerned(v)
  BY DEF Concerned, Untouched
<1>2. CoversHolders(v)'
  BY <1>1, Commands DEF Covered, CoversHolders
<1>3. CoversBatch(v)'
  BY <1>1 DEF Covered, CoversBatch
<1>4. CoversOne(v)'
  BY DEF Covered, CoversOne, Untouched
<1>5. Ready(v)'
  <2>1. 0 .. now \subseteq 0 .. now'
    OBVIOUS
  <2> QED
    BY <2>1 DEF Covered, Ready, Untouched
<1> QED
  BY <1>2, <1>3, <1>4, <1>5 DEF Covered

(* A step that commits nothing, by what it does to the request it is of.   *)
LEMMA QuietRefining ==
  ASSUME Refining, TypeOK, NEW w \in Request, Begin(w) \/ Step(w) \/ Abort(w),
         {pc[w], pc'[w]} \cap {"ok", "unknown"} = {}, UNCHANGED <<rows, now>>,
         Covered(w)'
  PROVE  Refining'
<1>1. \A v \in Request \ {w} : Untouched(v)
  BY StepOthers
<1>2. Committed' = Committed
  BY <1>1, CommittedStays
<1>3. \A r \in Ref : Made(r) <=> Made(r)'
  BY <1>2 DEF Made
<1>4. Slots'
  BY <1>3 DEF Refining, Slots
<1>5. now \in Nat
  BY WorkloadAssumption DEF TypeOK
<1>6. \A v \in Request \ {w} : Covered(v)'
  BY <1>1, <1>3, <1>5, OthersCovered DEF Refining
<1> QED
  BY <1>4, <1>6 DEF Refining

(* The request goes on with less: what it drops holds no reservation.      *)
LEMMA FewerCovered ==
  ASSUME TypeOK, NEW w \in Request, Covered(w), Begin(w) \/ Step(w) \/ Abort(w),
         {pc[w], pc'[w]} \cap {"ok", "unknown"} = {}, rows' = rows,
         Concerned(w)' \subseteq Concerned(w),
         \A s \in Concerned(w) \ Concerned(w)' : rows[s].item = NewStockItem
  PROVE  CoversHolders(w)' /\ CoversBatch(w)'
<1>1. \A v \in Request \ {w} : Untouched(v)
  BY StepOthers
<1>2. Committed' = Committed
  BY <1>1, CommittedStays
<1>3. Made(Cmd[w].ref) <=> Made(Cmd[w].ref)'
  BY <1>2 DEF Made
<1>4. CoversHolders(w)'
  <2> SUFFICES ASSUME Op(w) \in {"confirm", "release"}, Concerned(w)' # {}
               PROVE  /\ Made(Cmd[w].ref)'
                      /\ AskedOnce(Cmd[w].ref) =>
                           \A s \in SKU : HasReservation(rows[s].item, Cmd[w].ref)
                             => s \in Concerned(w)'
    BY DEF CoversHolders
  <2>1. /\ Made(Cmd[w].ref)
        /\ AskedOnce(Cmd[w].ref) =>
             \A s \in SKU : HasReservation(rows[s].item, Cmd[w].ref)
               => s \in Concerned(w)
    BY DEF Covered, CoversHolders
  <2>2. ~ HasReservation(NewStockItem, Cmd[w].ref)
    BY Commands DEF HasReservation, NewStockItem, NoReservation
  <2> QED
    BY <1>3, <2>1, <2>2
<1>5. CoversBatch(w)'
  <2> SUFFICES ASSUME Op(w) = "sweep"
               PROVE  /\ IsFiniteSet(Concerned(w)')
                      /\ Cardinality(Concerned(w)') <= Batch
    BY DEF CoversBatch
  <2>1. IsFiniteSet(Concerned(w)) /\ Cardinality(Concerned(w)) <= Batch
    BY DEF Covered, CoversBatch
  <2>2. /\ IsFiniteSet(Concerned(w)')
        /\ Cardinality(Concerned(w)') <= Cardinality(Concerned(w))
    BY <2>1, FS_Subset
  <2>3. Cardinality(Concerned(w)) \in Nat /\ Cardinality(Concerned(w)') \in Nat
        /\ Batch \in Nat
    BY <2>1, <2>2, FS_CardinalityType, NumberAssumption
  <2> QED
    BY <2>1, <2>2, <2>3
<1> QED
  BY <1>4, <1>5

LEMMA FreshCovered ==
  ASSUME NEW w \in Request, copies'[w] = <<>>, ids'[w] \in {<<>>, Named(w)},
         pc'[w] \notin {"resv", "save"}, pc'[w] = "load" => ids'[w] = Named(w)
  PROVE  Covered(w)'
<1>1. Op(w) \in {"confirm", "release", "sweep"} => Concerned(w)' = {}
  BY DEF Concerned, Named
<1>2. CoversHolders(w)'
  BY <1>1 DEF CoversHolders
<1>3. CoversBatch(w)'
  <2>1. IsFiniteSet({}) /\ Cardinality({}) <= Batch
    BY FS_EmptySet, NumberAssumption
  <2> QED
    BY <1>1, <2>1 DEF CoversBatch
<1>4. CoversOne(w)'
  BY DEF CoversOne, Named
<1> QED
  BY <1>2, <1>3, <1>4 DEF Covered, Ready

LEMMA BeginRefining ==
  ASSUME Inv, Refining, NEW w \in Request, Begin(w)
  PROVE  Refining'
<1>1. /\ attempt[w] = 0 /\ pc[w] = "idle" /\ StartAttempt(w)
      /\ UNCHANGED <<rows, now>>
  BY DEF Begin, Inv, ReqInv, Control, shared
<1>2. pc'[w] \in {"list", "load"} /\ ids'[w] = Named(w) /\ copies'[w] = <<>>
  BY <1>1, StartTypes, NumberAssumption DEF Inv
<1> QED
  BY <1>1, <1>2, FreshCovered, QuietRefining DEF Inv

LEMMA RestartRefining ==
  ASSUME Inv, Refining, NEW w \in Request, Step(w), pc[w] = "save",
         attempt[w] < MaxAttempts, StartAttempt(w), UNCHANGED <<rows, now>>
  PROVE  Refining'
<1>1. pc'[w] \in {"list", "load"} /\ ids'[w] = Named(w) /\ copies'[w] = <<>>
  BY StartTypes DEF Inv
<1> QED
  BY <1>1, FreshCovered, QuietRefining DEF Inv

LEMMA FailRefining ==
  ASSUME Inv, Refining, NEW w \in Request, Step(w) \/ Abort(w),
         pc[w] \in {"list", "load", "resv", "save"}, End(w, "failed"),
         UNCHANGED <<rows, now>>
  PROVE  Refining'
<1>1. pc'[w] = "failed" /\ ids'[w] = <<>> /\ copies'[w] = <<>>
  BY EndTypes DEF Inv
<1> QED
  BY <1>1, FreshCovered, QuietRefining DEF Inv

LEMMA ListRefining ==
  ASSUME Inv, Refining, NEW w \in Request, List(w)
  PROVE  Refining'
<1>1. /\ pc[w] = "list" /\ pc' = [pc EXCEPT ![w] = "load"] /\ copies[w] = <<>>
      /\ UNCHANGED <<rows, now, copies>>
      /\ ids \in [Request -> Seq(SKU)]
      /\ Op(w) \notin {"replenish", "reserve"}
      /\ pc \in [Request -> {"idle", "list", "load", "resv", "save",
                             "ok", "unknown", "failed"}]
  BY DEF List, shared, Inv, ReqInv, Control, TypeOK
<1>2. PICK S \in SUBSET Listed(w) :
        /\ S = Listed(w) \/ Op(w) = "sweep"
        /\ Op(w) = "sweep" => Cardinality(S) <= Batch
        /\ \E f \in Orderings(S) : ids' = [ids EXCEPT ![w] = f]
  BY DEF List
<1>3. PICK f \in Orderings(S) : ids' = [ids EXCEPT ![w] = f]
  BY <1>2
<1>4. ids'[w] = f /\ pc'[w] = "load" /\ copies'[w] = <<>>
  BY <1>1, <1>3
<1>5. Concerned(w)' = S
  <2>1. {f[i] : i \in DOMAIN f} = S
    BY DEF Orderings
  <2> QED
    BY <1>4, <2>1 DEF Concerned
<1>6. \A v \in Request \ {w} : Untouched(v)
  BY StepOthers DEF Step, Inv
<1>7. Committed' = Committed
  BY <1>1, <1>4, <1>6, CommittedStays DEF Inv
<1>8. CoversHolders(w)'
  <2> SUFFICES ASSUME Op(w) \in {"confirm", "release"}, S # {}
               PROVE  /\ Made(Cmd[w].ref)'
                      /\ \A s \in SKU : HasReservation(rows[s].item, Cmd[w].ref)
                           => s \in S
    BY <1>1, <1>5 DEF CoversHolders
  <2>1. S = {s \in SKU : HasReservation(rows[s].item, Cmd[w].ref)}
    BY <1>2 DEF Listed
  <2>2. Made(Cmd[w].ref)
    BY <2>1, Commands DEF Refining, Slots, HasReservation
  <2> QED
    BY <1>7, <2>1, <2>2 DEF Made
<1>9. CoversBatch(w)'
  <2>1. S \in SUBSET SKU
    BY DEF Listed
  <2>2. IsFiniteSet(S)
    BY <2>1, SKUAssumption, FS_Subset
  <2> QED
    BY <1>2, <1>5, <2>2 DEF CoversBatch
<1>10. CoversOne(w)' /\ Ready(w)'
  BY <1>1, <1>4 DEF CoversOne, Ready
<1> QED
  BY <1>1, <1>4, <1>8, <1>9, <1>10, QuietRefining DEF Covered, Step, Inv

LEMMA ReadItemRefining ==
  ASSUME Inv, Refining, NEW w \in Request, ReadItem(w)
  PROVE  Refining'
<1> DEFINE s == Head(ids[w])
           new == [sku |-> s, version |-> rows[s].version,
                   item |-> [available |-> rows[s].item.available,
                             resv |-> NewStockItem.resv]]
<1>1. /\ pc[w] = "load" /\ ids[w] # <<>> /\ s \in SKU /\ new \in Copy
      /\ \/ copies'[w] = Append(copies[w], new)
         \/ copies'[w] = copies[w]
      /\ \/ /\ rows[s].version > 0
            /\ copies'[w] = Append(copies[w], new)
            /\ pc'[w] = "resv" /\ ids'[w] = ids[w]
         \/ /\ rows[s].version = 0
            /\ copies'[w] # copies[w] => Op(w) = "replenish"
            /\ pc'[w] = "load" /\ ids'[w] = Tail(ids[w])
      /\ Op(w) = "replenish" => copies'[w] = Append(copies[w], new)
  BY ReadItemIs
<1>2. UNCHANGED <<rows, now, exp>>
  BY DEF ReadItem, shared
<1>3. ids[w] \in Seq(SKU) /\ copies[w] \in Seq(Copy)
  BY DEF Inv, TypeOK
<1>4. new.sku = s
  OBVIOUS
<1> HIDE DEF new
<1>5. Covered(w)
  BY DEF Refining
<1>6. /\ \A i \in DOMAIN Tail(ids[w]) :
           i + 1 \in DOMAIN ids[w] /\ Tail(ids[w])[i] = ids[w][i + 1]
      /\ s = ids[w][1] /\ 1 \in DOMAIN ids[w]
  BY <1>1, <1>3, TailOf
<1>7. /\ \A i \in DOMAIN Append(copies[w], new) :
           \/ i \in DOMAIN copies[w] /\ Append(copies[w], new)[i] = copies[w][i]
           \/ i = Len(copies[w]) + 1
      /\ Append(copies[w], new)[Len(copies[w]) + 1] = new
      /\ Len(Append(copies[w], new)) = Len(copies[w]) + 1
  BY <1>1, <1>3, AppendOf
<1>8. \A i \in DOMAIN ids[w] : ids[w][i] = s \/ i - 1 \in DOMAIN Tail(ids[w])
  BY <1>3
<1>9. \A i \in DOMAIN ids[w] :
        i - 1 \in DOMAIN Tail(ids[w]) => Tail(ids[w])[i - 1] = ids[w][i]
  BY <1>3
<1>10. DOMAIN copies[w] \subseteq DOMAIN copies'[w]
       /\ \A i \in DOMAIN copies[w] : copies'[w][i] = copies[w][i]
  <2>1. /\ DOMAIN copies[w] \subseteq DOMAIN Append(copies[w], new)
        /\ \A i \in DOMAIN copies[w] : Append(copies[w], new)[i] = copies[w][i]
    BY <1>1, <1>3, AppendOf
  <2> QED
    BY <1>1, <2>1
<1> HIDE DEF s
<1>11. Concerned(w)' \subseteq Concerned(w)
  <2>1. \A i \in DOMAIN ids'[w] : ids'[w][i] \in Concerned(w)
    BY <1>1, <1>6 DEF Concerned
  <2>2. s \in Concerned(w)
    BY <1>6 DEF Concerned
  <2>3. \A i \in DOMAIN copies'[w] : copies'[w][i].sku \in Concerned(w)
    BY <1>1, <1>4, <1>7, <2>2 DEF Concerned
  <2> QED
    BY <2>1, <2>3 DEF Concerned
<1>12. \A u \in Concerned(w) \ Concerned(w)' : rows[u].item = NewStockItem
  <2> SUFFICES ASSUME NEW u \in Concerned(w) \ Concerned(w)'
               PROVE  rows[u].item = NewStockItem
    OBVIOUS
  <2>1. \A i \in DOMAIN copies[w] : copies[w][i].sku \in Concerned(w)'
    BY <1>10 DEF Concerned
  <2>2. PICK i \in DOMAIN ids[w] : ids[w][i] = u
    BY <2>1 DEF Concerned
  <2>3. i \in DOMAIN ids'[w] => ids'[w][i] # u
    BY DEF Concerned
  <2>4. ids'[w] = Tail(ids[w]) /\ rows[s].version = 0
    BY <1>1, <2>2, <2>3
  <2>5. u = s
    <3>1. \A k \in DOMAIN Tail(ids[w]) : Tail(ids[w])[k] # u
      BY <2>4 DEF Concerned
    <3> QED
      BY <1>8, <1>9, <2>2, <3>1
  <2> QED
    BY <1>1, <2>4, <2>5 DEF Inv, RowsOK
<1>13. {pc[w], pc'[w]} \cap {"ok", "unknown"} = {}
  BY <1>1
<1>14. CoversHolders(w)' /\ CoversBatch(w)'
  BY <1>2, <1>5, <1>11, <1>12, <1>13, FewerCovered DEF Step, Inv
<1>15. CoversOne(w)'
  <2> SUFFICES ASSUME Op(w) = "replenish"
               PROVE  /\ Len(copies'[w]) = 1 /\ copies'[w][1].sku = Cmd[w].sku
                      /\ ids'[w] = IF pc'[w] = "resv" THEN <<Cmd[w].sku>> ELSE <<>>
    BY DEF CoversOne
  <2>1. copies[w] = <<>> /\ ids[w] = <<Cmd[w].sku>>
    BY <1>1, <1>5 DEF Covered, CoversOne
  <2>2. s = Cmd[w].sku /\ Tail(ids[w]) = <<>>
    BY <1>6, <2>1
  <2>3. copies'[w] = <<new>>
    BY <1>1, <2>1
  <2> QED
    BY <1>1, <1>4, <2>1, <2>2, <2>3
<1>16. Ready(w)'
  BY <1>1 DEF Ready
<1> QED
  BY <1>2, <1>13, <1>14, <1>15, <1>16, QuietRefining DEF Covered, Step, Inv

LEMMA ReadReservationsRefining ==
  ASSUME Inv, Refining, NEW w \in Request, ReadReservations(w)
  PROVE  Refining'
<1> DEFINE n == Len(copies[w])
           c == copies[w][n]
           new == [sku |-> c.sku, version |-> c.version,
                   item |-> [available |-> c.item.available,
                             resv |-> rows[c.sku].item.resv]]
<1>1. /\ n \in DOMAIN copies[w] /\ n \in Nat /\ new \in Copy
      /\ pc[w] = "resv" /\ pc'[w] = "load"
      /\ copies' = [copies EXCEPT ![w] = [copies[w] EXCEPT ![n] = new]]
      /\ ids[w] # <<>> /\ Head(ids[w]) = c.sku
      /\ ids'[w] = Tail(ids[w])
  BY ReadReservationsIs
<1>2. UNCHANGED <<rows, now>>
  BY DEF ReadReservations, shared
<1>3. /\ ids[w] \in Seq(SKU) /\ copies[w] \in Seq(Copy)
      /\ copies \in [Request -> Seq(Copy)]
  BY DEF Inv, TypeOK
<1>4. new.sku = c.sku
  OBVIOUS
<1> HIDE DEF new
<1>5. /\ DOMAIN copies'[w] = DOMAIN copies[w] /\ Len(copies'[w]) = Len(copies[w])
      /\ \A i \in DOMAIN copies[w] : copies'[w][i].sku = copies[w][i].sku
  BY <1>1, <1>3, <1>4
<1>6. /\ \A i \in DOMAIN Tail(ids[w]) :
           i + 1 \in DOMAIN ids[w] /\ Tail(ids[w])[i] = ids[w][i + 1]
      /\ Head(ids[w]) = ids[w][1] /\ 1 \in DOMAIN ids[w]
  BY <1>1, <1>3, TailOf
<1>7. \A i \in DOMAIN ids[w] :
        \/ ids[w][i] = Head(ids[w])
        \/ i - 1 \in DOMAIN Tail(ids[w]) /\ Tail(ids[w])[i - 1] = ids[w][i]
  BY <1>3
<1>8. Concerned(w)' \subseteq Concerned(w)
  <2>1. \A i \in DOMAIN ids'[w] : ids'[w][i] \in Concerned(w)
    BY <1>1, <1>6 DEF Concerned
  <2>2. \A i \in DOMAIN copies'[w] : copies'[w][i].sku \in Concerned(w)
    BY <1>5 DEF Concerned
  <2> QED
    BY <2>1, <2>2 DEF Concerned
<1>9. Concerned(w) \subseteq Concerned(w)'
  <2>1. \A i \in DOMAIN copies[w] : copies[w][i].sku \in Concerned(w)'
    BY <1>5 DEF Concerned
  <2>2. \A i \in DOMAIN Tail(ids[w]) : Tail(ids[w])[i] \in Concerned(w)'
    BY <1>1 DEF Concerned
  <2>3. \A i \in DOMAIN ids[w] : ids[w][i] \in Concerned(w)'
    BY <1>1, <1>7, <2>1, <2>2
  <2> QED
    BY <2>1, <2>3 DEF Concerned
<1>10. {pc[w], pc'[w]} \cap {"ok", "unknown"} = {} /\ Covered(w)
  BY <1>1 DEF Refining
<1>11. CoversHolders(w)' /\ CoversBatch(w)'
  BY <1>2, <1>8, <1>9, <1>10, FewerCovered DEF Step, Inv
<1>12. CoversOne(w)'
  <2> SUFFICES ASSUME Op(w) = "replenish"
               PROVE  /\ Len(copies'[w]) = 1 /\ copies'[w][1].sku = Cmd[w].sku
                      /\ ids'[w] = <<>>
    BY <1>1 DEF CoversOne
  <2>1. /\ Len(copies[w]) = 1 /\ copies[w][1].sku = Cmd[w].sku
        /\ ids[w] = <<Cmd[w].sku>>
    BY <1>1, <1>10 DEF Covered, CoversOne
  <2>2. Tail(ids[w]) = <<>>
    BY <2>1
  <2> QED
    BY <1>1, <1>5, <2>1, <2>2
<1> QED
  BY <1>1, <1>2, <1>10, <1>11, <1>12, QuietRefining
     DEF Covered, Ready, Step, Inv

LEMMA ApplyRefining ==
  ASSUME Inv, Refining, NEW w \in Request, Apply(w)
  PROVE  Refining'
<1>1. /\ pc[w] = "load" /\ ids[w] = <<>> /\ UNCHANGED <<rows, now>> /\ Covered(w)
  BY DEF Apply, shared, Refining
<1>2. CASE End(w, "failed")
  BY <1>1, <1>2, FailRefining DEF Step
<1>3. ASSUME pc' = [pc EXCEPT ![w] = "save"],
             UNCHANGED <<lock, attempt, ids, copies, saved>>,
             \E e \in Expiries(w, clock[w], now) : exp' = [exp EXCEPT ![w] = e]
      PROVE  Refining'
  <2>1. pc'[w] = "save" /\ copies'[w] = copies[w] /\ ids'[w] = ids[w]
    BY <1>3 DEF Inv, TypeOK
  <2>2. {pc[w], pc'[w]} \cap {"ok", "unknown"} = {}
    BY <1>1, <2>1
  <2>3. Concerned(w)' = Concerned(w)
    BY <2>1 DEF Concerned
  <2>4. CoversHolders(w)' /\ CoversBatch(w)'
    BY <1>1, <2>2, <2>3, FewerCovered DEF Step, Inv
  <2>5. CoversOne(w)'
    BY <1>1, <2>1 DEF Covered, CoversOne
  <2>6. Ready(w)'
    <3> SUFFICES ASSUME Op(w) = "reserve", NEW s \in SKU
                 PROVE  \E t \in 0 .. now : exp'[w][s] = t + TTL
      BY <1>1, <2>1 DEF Ready
    <3>1. exp'[w] \in Expiries(w, clock[w], now)
      BY <1>3 DEF Inv, TypeOK
    <3>2. exp'[w][s] \in {t + TTL : t \in clock[w] .. now}
      BY <3>1 DEF Expiries
    <3>3. clock[w] .. now \subseteq 0 .. now
      BY WorkloadAssumption DEF Inv, TypeOK
    <3> QED
      BY <3>2, <3>3
  <2> QED
    BY <1>1, <2>2, <2>4, <2>5, <2>6, QuietRefining DEF Covered, Step, Inv
<1> QED
  BY <1>2, <1>3 DEF Apply

LEMMA WriteRefining ==
  ASSUME Inv, Refining, NEW w \in Request, Write(w)
  PROVE  Refining'
<1>1. /\ pc[w] = "save" /\ UNCHANGED <<rows, now, pc, ids, copies, exp>>
      /\ Covered(w)
  BY DEF Write, Saving, shared, Refining
<1>2. {pc[w], pc'[w]} \cap {"ok", "unknown"} = {}
  BY <1>1
<1>3. Concerned(w)' = Concerned(w)
  BY <1>1 DEF Concerned
<1>4. CoversHolders(w)' /\ CoversBatch(w)'
  BY <1>1, <1>2, <1>3, FewerCovered DEF Step, Inv
<1>5. CoversOne(w)' /\ Ready(w)'
  BY <1>1 DEF Covered, CoversOne, Ready
<1> QED
  BY <1>1, <1>2, <1>4, <1>5, QuietRefining DEF Covered, Step, Inv

LEMMA ConflictRefining ==
  ASSUME Inv, Refining, NEW w \in Request, Conflict(w)
  PROVE  Refining'
BY RestartRefining, FailRefining DEF Conflict, Saving, Step, shared

LEMMA BreakDeadlockRefining ==
  ASSUME Inv, Refining, NEW w \in Request, BreakDeadlock(w)
  PROVE  Refining'
<1>1. pc[w] = "save" /\ End(w, "failed") /\ UNCHANGED <<rows, now>>
  BY DEF BreakDeadlock, Deadlocked, shared
<1> QED
  BY <1>1, FailRefining DEF Step

LEMMA AbortRefining ==
  ASSUME Inv, Refining, NEW w \in Request, Abort(w)
  PROVE  Refining'
BY FailRefining DEF Abort, shared

(* A commit makes reservations under its own reference only, and of one    *)
(* that is asked for once nobody else has it to reserve.                   *)
LEMMA CommitRefining ==
  ASSUME Inv, Refining, NEW w \in Request, Commit(w)
  PROVE  Refining'
<1>1. PICK outcome \in {"ok", "unknown"} : End(w, outcome)
  BY DEF Commit
<1>2. pc[w] = "save" /\ pc'[w] \in {"ok", "unknown"} /\ now' = now
      /\ ids'[w] = <<>> /\ copies'[w] = <<>>
  BY <1>1, EndTypes DEF Commit, Inv
<1>3. \A v \in Request \ {w} : Untouched(v)
  BY StepOthers DEF Step, Inv
<1>4. Committed' = Committed \cup {w} /\ w \notin Committed
  BY <1>2, <1>3 DEF Committed, Untouched
<1>5. \A r \in Ref : /\ Made(r) => Made(r)'
                     /\ Op(w) = "reserve" /\ Cmd[w].ref = r => Made(r)'
  BY <1>4 DEF Made
<1>6. ASSUME NEW s \in SKU, NEW r \in Ref
      PROVE  /\ HasReservation(rows'[s].item, r) =>
                  \/ HasReservation(rows[s].item, r)
                  \/ Op(w) = "reserve" /\ Cmd[w].ref = r
             /\ ~ HasReservation(rows'[s].item, r) =>
                  rows'[s].item.resv[r] = NoReservation
  <2>1. ~ HasReservation(rows[s].item, r) => rows[s].item.resv[r] = NoReservation
    BY DEF Refining, Slots, HasReservation
  <2>2. CASE ~ Wrote(w, s)
    <3>1. rows'[s] = rows[s]
      BY <2>2, CommitIs
    <3> QED
      BY <2>1, <3>1
  <2>3. CASE Wrote(w, s)
    <3> DEFINE new == Outcome(w, s, rows[s].item, clock[w], exp[w])
    <3>0. rows'[s] = [version |-> rows[s].version + 1, item |-> new]
      BY <2>3, CommitIs
    <3> HIDE DEF new
    <3>1. rows'[s].item = new
      BY <3>0
    <3>2. rows[s].item \in Item
      BY DEF Inv, TypeOK, Row
    <3> QED
      BY <2>1, <3>1, <3>2, SlotOutcome DEF new
  <2> QED
    BY <2>2, <2>3
<1>7. Slots'
  <2> SUFFICES ASSUME NEW s \in SKU, NEW r \in Ref
               PROVE  IF rows'[s].item.resv[r].status = "none"
                      THEN rows'[s].item.resv[r] = NoReservation ELSE Made(r)'
    BY DEF Slots
  <2>1. HasReservation(rows[s].item, r) => Made(r)
    BY DEF Refining, Slots, HasReservation
  <2> QED
    BY <1>5, <1>6, <2>1 DEF HasReservation
<1>8. ASSUME NEW v \in Request \ {w}
      PROVE  Covered(v)'
  <2>1. ASSUME Op(v) \in {"confirm", "release"}, Made(Cmd[v].ref),
               AskedOnce(Cmd[v].ref), NEW s \in SKU,
               HasReservation(rows'[s].item, Cmd[v].ref)
        PROVE  HasReservation(rows[s].item, Cmd[v].ref)
    <3>1. Cmd[v].ref \in Ref
      BY <2>1, Commands
    <3>2. ~ (Op(w) = "reserve" /\ Cmd[w].ref = Cmd[v].ref)
      BY <1>4, <2>1 DEF Made, AskedOnce, Committed
    <3> QED
      BY <1>6, <2>1, <3>1, <3>2
  <2>2. now \in Nat
    BY WorkloadAssumption DEF Inv, TypeOK
  <2> QED
    BY <1>2, <1>3, <1>5, <2>1, <2>2, OthersCovered DEF Refining
<1>9. Covered(w)'
  BY <1>2, FreshCovered
<1> QED
  BY <1>7, <1>8, <1>9 DEF Refining

LEMMA InitRefining ==
  ASSUME Init
  PROVE  Refining
<1>1. ASSUME NEW s \in SKU, NEW r \in Ref
      PROVE  rows[s].item.resv[r] = NoReservation
  <2>1. rows[s].item = ReplenishItem(NewStockItem, Opening[s])
    BY DEF Init, OpeningRows
  <2>2. rows[s].item.resv = NewStockItem.resv
    BY <2>1 DEF ReplenishItem, NewStockItem
  <2> QED
    BY <2>2 DEF NewStockItem
<1>2. Slots
  BY <1>1 DEF Slots, NoReservation
<1>3. ASSUME NEW w \in Request
      PROVE  Covered(w)
  <2>1. Concerned(w) = {} /\ pc[w] = "idle"
    BY DEF Init, Concerned
  <2>2. IsFiniteSet({}) /\ Cardinality({}) <= Batch
    BY FS_EmptySet, NumberAssumption
  <2> QED
    BY <2>1, <2>2 DEF Covered, CoversHolders, CoversBatch, CoversOne, Ready
<1> QED
  BY <1>2, <1>3 DEF Refining

LEMMA NextRefining ==
  ASSUME Inv, Refining, [Next]_vars
  PROVE  Refining'
<1>1. ASSUME NEW w \in Request, Begin(w) \/ Step(w) \/ Abort(w)
      PROVE  Refining'
  BY <1>1, BeginRefining, ListRefining, ReadItemRefining,
     ReadReservationsRefining, ApplyRefining, WriteRefining, ConflictRefining,
     BreakDeadlockRefining, CommitRefining, AbortRefining DEF Step
<1>2. CASE Tick \/ UNCHANGED vars
  <2>1. /\ UNCHANGED <<rows, pc, attempt, clock, ids, copies, exp, saved>>
        /\ now' = now + 1 \/ now' = now
    BY <1>2 DEF Tick, vars, shared, work
  <2>2. now \in Nat /\ now' \in Nat /\ now <= now'
    BY <2>1, WorkloadAssumption DEF Inv, TypeOK
  <2>3. \A r \in Ref : Made(r) <=> Made(r)'
    BY <2>1 DEF Made, Committed
  <2>4. Slots'
    BY <2>1, <2>3 DEF Refining, Slots
  <2>5. \A v \in Request : Untouched(v)
    BY <2>1 DEF Untouched
  <2>6. \A v \in Request : Covered(v)'
    BY <2>1, <2>2, <2>3, <2>5, OthersCovered DEF Refining
  <2> QED
    BY <2>4, <2>6 DEF Refining
<1> QED
  BY <1>1, <1>2 DEF Next

-----------------------------------------------------------------------------
(* The aggregate as Inventory names it is the aggregate as it is here.     *)
LEMMA SameItems ==
  /\ Atomic!NewStockItem = NewStockItem
  /\ \A it, r : Atomic!HasReservation(it, r) <=> HasReservation(it, r)
  /\ \A it, t : Atomic!Reapable(it, t) = Reapable(it, t)
  /\ \A it, q : Atomic!ReplenishItem(it, q) = ReplenishItem(it, q)
  /\ \A it, r, q : Atomic!CanReserve(it, r, q) <=> CanReserve(it, r, q)
  /\ \A it, r, q, e : Atomic!ReserveItem(it, r, q, e) = ReserveItem(it, r, q, e)
  /\ \A it, r : Atomic!ConfirmItem(it, r) = ConfirmItem(it, r)
  /\ \A it, r : Atomic!ReleaseItem(it, r) = ReleaseItem(it, r)
  /\ \A it, t : Atomic!ReapItem(it, t) = ReapItem(it, t)
  /\ \A S : Atomic!Cardinality(S) = Cardinality(S)
  /\ \A it : Atomic!Reserved(it) = Reserved(it)
<1>1. Atomic!NoReservation = NoReservation
  BY DEF Atomic!NoReservation, NoReservation
<1>3. Atomic!NewStockItem = NewStockItem
  BY <1>1 DEF Atomic!NewStockItem, NewStockItem
<1>4. \A it, r : Atomic!HasReservation(it, r) <=> HasReservation(it, r)
  BY DEF Atomic!HasReservation, HasReservation
<1>5. \A it, t : Atomic!Reapable(it, t) = Reapable(it, t)
  BY DEF Atomic!Reapable, Reapable, Atomic!IsExpired, IsExpired
<1>6. \A it, q : Atomic!ReplenishItem(it, q) = ReplenishItem(it, q)
  BY DEF Atomic!ReplenishItem, ReplenishItem
<1>7. \A it, r, q : Atomic!CanReserve(it, r, q) <=> CanReserve(it, r, q)
  BY <1>4 DEF Atomic!CanReserve, CanReserve
<1>8. \A it, r, q, e :
        Atomic!ReserveItem(it, r, q, e) = ReserveItem(it, r, q, e)
  BY <1>4 DEF Atomic!ReserveItem, ReserveItem
<1>9. \A it, r : Atomic!ConfirmItem(it, r) = ConfirmItem(it, r)
  BY DEF Atomic!ConfirmItem, ConfirmItem
<1>10. \A it, r : Atomic!ReleaseItem(it, r) = ReleaseItem(it, r)
  BY <1>1 DEF Atomic!ReleaseItem, ReleaseItem
<1>11. \A S : Atomic!Cardinality(S) = Cardinality(S)
  BY DEF Atomic!Cardinality, Cardinality, Atomic!IsFiniteSet, IsFiniteSet
<1>12. \A it, refs : Atomic!UnitsOf(it, refs) = UnitsOf(it, refs)
  BY DEF Atomic!UnitsOf, UnitsOf
<1>13. \A it, t : Atomic!ReapItem(it, t) = ReapItem(it, t)
  BY <1>1, <1>5, <1>11, <1>12 DEF Atomic!ReapItem, ReapItem
<1>14. \A it : Atomic!Reserved(it) = Reserved(it)
  BY <1>11, <1>12 DEF Atomic!Reserved, Reserved
<1> QED
  BY <1>3, <1>4, <1>5, <1>6, <1>7, <1>8, <1>9, <1>10, <1>11, <1>13, <1>14

(* The bounds of the workloads have a largest one.                         *)
LEMMA LastIs ==
  ASSUME Workload # {}
  PROVE  Last \in Nat /\ \A k \in Workload : k.until <= Last
<1> DEFINE later == [k \in Workload |-> {j \in Workload : k.until < j.until}]
           T == {later[k] : k \in Workload}
<1>1. \A k \in Workload : k.until \in Nat
  BY WorkloadAssumption
<1>2. T \subseteq FiniteSubsetsOf(Workload) /\ T # {}
  <2>1. \A k \in Workload : later[k] \in SUBSET Workload
    OBVIOUS
  <2>2. \A k \in Workload : IsFiniteSet(later[k])
    BY <2>1, WorkloadAssumption, FS_Subset
  <2>3. \A k \in Workload : later[k] \in FiniteSubsetsOf(Workload)
    <3> HIDE DEF later
    <3> QED
      BY <2>1, <2>2, Zenon DEF FiniteSubsetsOf
  <2> HIDE DEF later
  <2> QED
    BY <2>3
<1>3. \E S \in T : \A U \in T : ~ (<<U, S>> \in StrictSubsetOrdering(Workload))
  <2> HIDE DEF T
  <2> QED
    BY <1>2, FS_StrictSubsetOrderingWellFounded, WFMin
<1>4. PICK k \in Workload : \A j \in Workload :
        ~ (<<later[j], later[k]>> \in StrictSubsetOrdering(Workload))
  <2> HIDE DEF later
  <2> QED
    BY <1>3
<1>5. ASSUME NEW j \in Workload, k.until < j.until
      PROVE  FALSE
  <2>1. /\ later[j] \in SUBSET Workload /\ later[k] \in SUBSET Workload
        /\ later[j] \subseteq later[k] /\ j \in later[k] /\ j \notin later[j]
    BY <1>1, <1>5
  <2>2. <<later[j], later[k]>> \in StrictSubsetOrdering(Workload)
    <3> HIDE DEF later
    <3> QED
      BY <2>1 DEF StrictSubsetOrdering
  <2> QED
    BY <1>4, <2>2
<1>6. k.until \in {j.until : j \in Workload} /\ \A j \in Workload : j.until <= k.until
  BY <1>1, <1>5
<1> HIDE DEF T, later
<1>7. /\ Last \in {j.until : j \in Workload}
      /\ \A j \in Workload : j.until <= Last
  BY <1>6 DEF Last
<1> QED
  BY <1>1, <1>7

(* The quantities of an order.                                             *)
LEMMA OrderOfType == OrderOf \in [Ref -> [SKU -> Nat]]
<1> SUFFICES ASSUME NEW r \in Ref, NEW s \in SKU
             PROVE  OrderOf[r][s] \in Nat
  BY DEF OrderOf
<1> DEFINE lines == LinesOf[r]
<1>1. lines \in Seq([sku : SKU, qty : Nat])
  BY OrderAssumption
<1>2. CASE \E i \in DOMAIN lines : lines[i].sku = s
  <2>1. lines[FirstLine(lines, s)] \in [sku : SKU, qty : Nat]
    BY <1>1, <1>2, FirstLineIs
  <2> QED
    BY <1>2, <2>1 DEF OrderOf
<1>3. CASE ~ \E i \in DOMAIN lines : lines[i].sku = s
  BY <1>3 DEF OrderOf
<1> QED
  BY <1>2, <1>3

(* The committed items.                                                    *)
Items == [s \in SKU |-> rows[s].item]

LEMMA CommitItems ==
  ASSUME Inv, NEW w \in Request, Commit(w)
  PROVE  Items' = [s \in SKU |->
           IF Wrote(w, s) THEN Outcome(w, s, Items[s], clock[w], exp[w])
                          ELSE Items[s]]
<1> SUFFICES ASSUME NEW s \in SKU
             PROVE  rows'[s].item =
                      IF Wrote(w, s)
                      THEN Outcome(w, s, rows[s].item, clock[w], exp[w])
                      ELSE rows[s].item
  BY DEF Items
<1> DEFINE new == Outcome(w, s, rows[s].item, clock[w], exp[w])
<1>1. /\ ~ Wrote(w, s) => rows'[s] = rows[s]
      /\ Wrote(w, s) => rows'[s] = [version |-> rows[s].version + 1, item |-> new]
  BY CommitIs
<1> HIDE DEF new
<1>2. rows'[s].item = IF Wrote(w, s) THEN new ELSE rows[s].item
  BY <1>1
<1> QED
  BY <1>2 DEF new

(* At a commit everything was loaded.                                      *)
LEMMA WroteAll ==
  ASSUME Inv, Refining, NEW w \in Request, Commit(w)
  PROVE  Concerned(w) = {s \in SKU : Wrote(w, s)}
<1>1. ids[w] = <<>>
  BY DEF Refining, Covered, Ready, Commit
<1>2. copies[w] \in Seq(Copy)
  BY DEF Inv, TypeOK
<1>3. \A i \in DOMAIN copies[w] : copies[w][i].sku \in SKU
  <2>1. \A i \in DOMAIN copies[w] : copies[w][i] \in Copy
    BY <1>2
  <2> QED
    BY <2>1 DEF Copy
<1> QED
  BY <1>1, <1>3 DEF Concerned, Wrote

LEMMA CommitReplenishes ==
  ASSUME Inv, Refining, NEW w \in Request, Commit(w), Op(w) = "replenish"
  PROVE  Atomic!Replenish(Cmd[w].sku, Cmd[w].qty)
<1> DEFINE s == Cmd[w].sku
<1>1. pc[w] = "save" /\ supplied' = Added(w, supplied) /\ now' = now
  BY DEF Commit
<1>2. Len(copies[w]) = 1 /\ copies[w][1].sku = s /\ s \in SKU /\ Cmd[w].qty \in Nat
  <2>1. CoversOne(w) /\ ids[w] = <<>>
    BY <1>1 DEF Refining, Covered, Ready
  <2> QED
    BY <1>1, <2>1, Commands DEF CoversOne
<1>3. copies[w] \in Seq(Copy)
  BY DEF Inv, TypeOK
<1>4. \A u \in SKU : Wrote(w, u) <=> u = s
  BY <1>2, <1>3 DEF Wrote
<1>5. Items' = [Items EXCEPT ![s] = ReplenishItem(Items[s], Cmd[w].qty)]
  <2>1. Items' = [u \in SKU |-> IF u = s THEN ReplenishItem(Items[u], Cmd[w].qty)
                                         ELSE Items[u]]
    BY <1>4, CommitItems DEF Outcome, ResultOf
  <2>2. DOMAIN Items = SKU
    BY DEF Items
  <2> QED
    BY <1>2, <2>1, <2>2
<1>6. supplied' = [supplied EXCEPT ![s] = supplied[s] + Cmd[w].qty]
      /\ supplied[s] + Cmd[w].qty \in Nat
  BY <1>1, <1>2 DEF Added, Inv, TypeOK
<1> QED
  BY <1>1, <1>5, <1>6, SameItems DEF Atomic!Replenish, Items

LEMMA CommitReserves ==
  ASSUME Inv, Refining, NEW w \in Request, Commit(w), Op(w) = "reserve"
  PROVE  \E e \in [Atomic!Lines(Cmd[w].ref) -> Atomic!Expiries] :
           Atomic!Reserve(Cmd[w].ref, e)
<1> DEFINE r == Cmd[w].ref
           lines == LinesOf[r]
<1>1. /\ pc[w] = "save" /\ saved[w] = Len(copies[w])
      /\ supplied' = supplied /\ now' = now
  BY DEF Commit, Added
<1>2. r \in Ref /\ lines \in Seq([sku : SKU, qty : Nat])
  BY Commands, OrderAssumption
<1>3. CanAllocate(copies[w], r, lines) /\ copies[w] \in Seq(Copy)
      /\ \A i \in DOMAIN copies[w] : Asks(w, copies[w][i].sku)
  BY <1>1, CopiesAreCommitted DEF CanApply
<1>4. \A s \in SKU : Wrote(w, s) <=> Asks(w, s)
  <2>1. \A i \in DOMAIN lines : \E j \in DOMAIN copies[w] :
          copies[w][j].sku = lines[i].sku
    BY <1>3 DEF CanAllocate
  <2>2. \A s \in SKU : Wrote(w, s) => Asks(w, s)
    <3> SUFFICES ASSUME NEW s \in SKU, Wrote(w, s)
                 PROVE  Asks(w, s)
      OBVIOUS
    <3>1. PICK i \in DOMAIN copies[w] : copies[w][i].sku = s
      BY DEF Wrote
    <3> QED
      BY <1>3, <3>1
  <2>3. \A s \in SKU : Asks(w, s) => Wrote(w, s)
    BY <2>1 DEF Wrote, Asks
  <2> QED
    BY <2>2, <2>3
<1>5. ASSUME NEW s \in SKU
      PROVE  /\ Wrote(w, s) <=> OrderOf[r][s] > 0
             /\ Wrote(w, s) => CanReserve(Items[s], r, OrderOf[r][s])
  <2>1. Wrote(w, s) => CanReserve(rows[s].item, r, OrderOf[r][s])
    BY CommitIs
  <2>2. ~ Wrote(w, s) => OrderOf[r][s] = 0
    BY <1>2, <1>4 DEF OrderOf, Asks
  <2> QED
    BY <2>1, <2>2 DEF CanReserve, Items
<1>6. Atomic!Lines(r) = {s \in SKU : Wrote(w, s)}
  BY <1>5 DEF Atomic!Lines
<1>7. \E e \in [Atomic!Lines(r) -> Atomic!Expiries] :
        \A s \in Atomic!Lines(r) : e[s] = exp[w][s]
  <2> SUFFICES ASSUME NEW s \in SKU
               PROVE  exp[w][s] \in Atomic!Expiries
    <3>1. Atomic!Lines(r) \subseteq SKU
      BY <1>6
    <3>2. [s \in Atomic!Lines(r) |-> exp[w][s]]
            \in [Atomic!Lines(r) -> Atomic!Expiries]
      BY <3>1
    <3> QED
      BY <3>2
  <2>1. PICK t \in 0 .. now : exp[w][s] = t + TTL
    BY <1>1 DEF Refining, Covered, Ready
  <2>2. load.until <= Last /\ Last \in Nat /\ load.until \in Nat
        /\ now \in 0 .. load.until
    BY LastIs, WorkloadAssumption DEF Inv, TypeOK
  <2>3. t + TTL < Last + TTL + 1
    BY <2>2, NumberAssumption
  <2> QED
    BY <2>1, <2>3 DEF Atomic!Expiries
<1>8. PICK e \in [Atomic!Lines(r) -> Atomic!Expiries] :
        \A s \in Atomic!Lines(r) : e[s] = exp[w][s]
  BY <1>7
<1>9. Items' = [s \in SKU |->
        IF s \in Atomic!Lines(r) THEN ReserveItem(Items[s], r, OrderOf[r][s], e[s])
                                 ELSE Items[s]]
  <2>1. Items' = [s \in SKU |->
          IF Wrote(w, s) THEN ReserveItem(Items[s], r, OrderOf[r][s], exp[w][s])
                         ELSE Items[s]]
    BY CommitItems DEF Outcome
  <2> QED
    BY <1>6, <1>8, <2>1
<1>10. Atomic!Reserve(r, e)
  BY <1>1, <1>5, <1>6, <1>9, SameItems DEF Atomic!Reserve, Items
<1> QED
  BY <1>10

LEMMA CommitConfirms ==
  ASSUME ReservedOnce, Inv, Refining, NEW w \in Request, Commit(w),
         Op(w) = "confirm"
  PROVE  Atomic!Confirm(Cmd[w].ref)
<1> DEFINE r == Cmd[w].ref
<1>1. /\ pc[w] = "save" /\ saved[w] = Len(copies[w])
      /\ supplied' = supplied /\ now' = now
  BY DEF Commit, Added
<1>2. /\ copies[w] # <<>> /\ copies[w] \in Seq(Copy)
      /\ \A i \in DOMAIN copies[w] : HasReservation(copies[w][i].item, r)
  BY <1>1, CopiesAreCommitted DEF CanApply
<1>3. \A s \in SKU : Wrote(w, s) => HasReservation(Items[s], r)
  BY <1>1, <1>2, CopiesAreCommitted DEF Wrote, Items
<1>4. Concerned(w) # {}
  <2>1. 1 \in DOMAIN copies[w]
    BY <1>2, TailOf
  <2> QED
    BY <2>1 DEF Concerned
<1>5. \A s \in SKU : HasReservation(Items[s], r) => Wrote(w, s)
  BY <1>4, WroteAll DEF Refining, Covered, CoversHolders, ReservedOnce, Items
<1>6. Atomic!Holders(r) = {s \in SKU : Wrote(w, s)}
  BY <1>3, <1>5, SameItems DEF Atomic!Holders, Items
<1>7. Items' = [s \in SKU |-> IF s \in Atomic!Holders(r) THEN ConfirmItem(Items[s], r)
                                                        ELSE Items[s]]
  BY <1>6, CommitItems DEF Outcome, ResultOf
<1>8. Atomic!Holders(r) # {}
  BY <1>4, <1>6, WroteAll
<1> QED
  BY <1>1, <1>7, <1>8, SameItems DEF Atomic!Confirm, Items

LEMMA CommitReleases ==
  ASSUME ReservedOnce, Inv, Refining, NEW w \in Request, Commit(w),
         Op(w) = "release"
  PROVE  Atomic!Release(Cmd[w].ref) \/ UNCHANGED Atomic!vars
<1> DEFINE r == Cmd[w].ref
<1>1. supplied' = supplied /\ now' = now /\ r \in Ref
  BY Commands DEF Commit, Added
<1>2. Items' = [s \in SKU |-> IF Wrote(w, s) THEN ReleaseItem(Items[s], r)
                                             ELSE Items[s]]
  BY CommitItems DEF Outcome, ResultOf
<1>3. CASE Concerned(w) = {}
  <2>1. \A s \in SKU : ~ Wrote(w, s)
    BY <1>3, WroteAll
  <2>2. Items' = Items
    BY <1>2, <2>1 DEF Items
  <2> QED
    BY <1>1, <2>2 DEF Atomic!vars, Items
<1>4. CASE Concerned(w) # {}
  <2>1. \A s \in SKU : HasReservation(Items[s], r) => Wrote(w, s)
    BY <1>4, WroteAll DEF Refining, Covered, CoversHolders, ReservedOnce, Items
  <2>2. ASSUME NEW s \in SKU, ~ HasReservation(Items[s], r)
        PROVE  ReleaseItem(Items[s], r) = Items[s]
    <3>1. Items[s] \in Item /\ Items[s].resv[r] = NoReservation
      BY <1>1, <2>2 DEF Refining, Slots, HasReservation, Items, Inv, TypeOK, Row
    <3> HIDE DEF r
    <3>2. [Items[s].resv EXCEPT ![r] = NoReservation] = Items[s].resv
      BY <1>1, <3>1 DEF Item
    <3>3. Items[s].available + NoReservation.qty = Items[s].available
      BY <3>1 DEF NoReservation, Item
    <3>4. ReleaseItem(Items[s], r) =
            [available |-> Items[s].available, resv |-> Items[s].resv]
      BY <3>1, <3>2, <3>3 DEF ReleaseItem
    <3> QED
      BY <3>1, <3>4 DEF Item
  <2>3. Items' = [s \in SKU |->
          IF s \in Atomic!Holders(r) THEN ReleaseItem(Items[s], r) ELSE Items[s]]
    <3>1. \A s \in SKU : s \in Atomic!Holders(r) <=> HasReservation(Items[s], r)
      BY SameItems DEF Atomic!Holders, Items
    <3> QED
      BY <1>2, <2>1, <2>2, <3>1
  <2> QED
    BY <1>1, <2>3, SameItems DEF Atomic!Release, Items
<1> QED
  BY <1>3, <1>4

(* An item of which nothing is reaped stays as it is.                      *)
LEMMA NothingToReap ==
  ASSUME NEW it \in Item, NEW t, Reapable(it, t) = {}
  PROVE  ReapItem(it, t) = it
<1>1. UnitsOf(it, {}) = {}
  BY DEF UnitsOf
<1>2. it.available + Cardinality({}) = it.available
  BY FS_EmptySet DEF Item
<1>3. [r \in Ref |-> it.resv[r]] = it.resv
  BY DEF Item
<1>4. ReapItem(it, t) = [available |-> it.available, resv |-> it.resv]
  BY <1>1, <1>2, <1>3 DEF ReapItem
<1> QED
  BY <1>4 DEF Item

LEMMA CommitSweeps ==
  ASSUME Inv, Refining, NEW w \in Request, Commit(w), Op(w) = "sweep"
  PROVE  \/ \E t \in 0 .. now, S \in SUBSET SKU : Atomic!Sweep(t, S)
         \/ UNCHANGED Atomic!vars
<1>1. supplied' = supplied /\ now' = now
  BY DEF Commit, Added
<1>2. PICK t \in 0 .. now : t = clock[w]
  BY DEF Inv, TypeOK
<1>3. Items' = [s \in SKU |-> IF Wrote(w, s) THEN ReapItem(Items[s], t)
                                             ELSE Items[s]]
  BY <1>2, CommitItems DEF Outcome, ResultOf
<1>4. PICK S \in SUBSET SKU :
        S = {s \in SKU : Wrote(w, s) /\ Reapable(Items[s], t) # {}}
  OBVIOUS
<1>5. \A s \in SKU : Items[s] \in Item
  BY DEF Items, Inv, TypeOK, Row
<1>6. Items' = [s \in SKU |-> IF s \in S THEN ReapItem(Items[s], t) ELSE Items[s]]
  BY <1>3, <1>4, <1>5, NothingToReap
<1>7. Cardinality(S) <= Batch
  <2>1. /\ IsFiniteSet(Concerned(w)) /\ Cardinality(Concerned(w)) <= Batch
        /\ S \in SUBSET Concerned(w)
    BY <1>4, WroteAll DEF Refining, Covered, CoversBatch
  <2>2. IsFiniteSet(S) /\ Cardinality(S) <= Cardinality(Concerned(w))
    BY <2>1, FS_Subset
  <2>3. Cardinality(Concerned(w)) \in Nat /\ Cardinality(S) \in Nat
    BY <2>1, <2>2, FS_CardinalityType
  <2> QED
    BY <2>1, <2>2, <2>3, NumberAssumption
<1>8. CASE S = {}
  <2>1. Items' = Items
    BY <1>6, <1>8 DEF Items
  <2> QED
    BY <1>1, <2>1 DEF Atomic!vars, Items
<1>9. CASE S # {}
  <2>1. S \subseteq Atomic!Expired(t)
    BY <1>4, SameItems DEF Atomic!Expired, Items
  <2>2. Atomic!Sweep(t, S)
    BY <1>1, <1>6, <1>7, <1>9, <2>1, SameItems DEF Atomic!Sweep, Items
  <2> QED
    BY <2>2
<1> QED
  BY <1>8, <1>9

LEMMA CommitIsUseCase ==
  ASSUME ReservedOnce, Inv, Refining, NEW w \in Request, Commit(w)
  PROVE  Atomic!Next \/ UNCHANGED Atomic!vars
<1>1. CASE Op(w) = "replenish"
  <2>1. /\ Cmd[w].sku \in SKU
        /\ Cmd[w].qty \in
             {Cmd[v].qty : v \in {u \in Request : Op(u) = "replenish"}}
    BY <1>1, Commands
  <2> QED
    BY <1>1, <2>1, CommitReplenishes DEF Atomic!Next
<1>2. CASE Op(w) = "reserve"
  BY <1>2, Commands, CommitReserves DEF Atomic!Next
<1>3. CASE Op(w) = "confirm"
  BY <1>3, Commands, CommitConfirms DEF Atomic!Next
<1>4. CASE Op(w) = "release"
  BY <1>4, Commands, CommitReleases DEF Atomic!Next
<1>5. CASE Op(w) = "sweep"
  BY <1>5, CommitSweeps DEF Atomic!Next
<1> QED
  BY <1>1, <1>2, <1>3, <1>4, <1>5, Commands

LEMMA OtherSteps ==
  ASSUME NEW w \in Request, Begin(w) \/ Step(w) \/ Abort(w), ~ Commit(w)
  PROVE  UNCHANGED <<rows, now, supplied>>
BY DEF Begin, Step, Abort, List, ReadItem, ReadReservations, Apply, Write,
       Conflict, BreakDeadlock, shared

LEMMA StepIsUseCase ==
  ASSUME ReservedOnce, Inv, Refining, [Next]_vars
  PROVE  [Atomic!Next]_(Atomic!vars)
<1>1. ASSUME NEW w \in Request, Begin(w) \/ Step(w) \/ Abort(w)
      PROVE  Atomic!Next \/ UNCHANGED Atomic!vars
  <2>1. CASE Commit(w)
    BY <2>1, CommitIsUseCase
  <2>2. CASE ~ Commit(w)
    BY <1>1, <2>2, OtherSteps DEF Atomic!vars
  <2> QED
    BY <2>1, <2>2
<1>2. CASE Tick
  <2>1. now' = now + 1 /\ UNCHANGED <<rows, supplied>> /\ now < load.until
    BY <1>2 DEF Tick, shared
  <2>2. load.until <= Last /\ Last \in Nat /\ load.until \in Nat /\ now \in Nat
    BY LastIs, WorkloadAssumption DEF Inv, TypeOK
  <2>3. now < Last + TTL + 1
    BY <2>1, <2>2, NumberAssumption
  <2>4. Atomic!Tick
    BY <2>1, <2>3 DEF Atomic!Tick
  <2> QED
    BY <2>4 DEF Atomic!Next
<1>3. CASE UNCHANGED vars
  BY <1>3 DEF vars, Atomic!vars
<1> QED
  BY <1>1, <1>2, <1>3 DEF Next

LEMMA InitIsOpening ==
  ASSUME Init
  PROVE  Atomic!Init
<1>1. \A s \in SKU : rows[s].item = ReplenishItem(NewStockItem, Opening[s])
  BY DEF Init, OpeningRows
<1> QED
  BY <1>1, SameItems DEF Init, Atomic!Init

-----------------------------------------------------------------------------
(* Units and deadlines, whatever the callers ask for, however often.  What *)
(* a commit makes of one item depends on nothing else, so here the stale   *)
(* lists of a confirmation or a release do not matter.                     *)
Deadlines(it, t) ==
  \A r \in Ref :
    LET rv == it.resv[r]
    IN  /\ rv.status = "none" <=> rv.qty = 0
        /\ rv.status = "pending" => rv.expiresAt \in 1 .. t + TTL
        /\ rv.status # "pending" => rv.expiresAt = 0

Sound ==
  \A s \in SKU : /\ Deadlines(rows[s].item, now)
                 /\ rows[s].item.available + Reserved(rows[s].item) = supplied[s]

(* What a request adds to the units of an item.                            *)
Supplies(w) == IF Op(w) = "replenish" THEN Cmd[w].qty ELSE 0

LEMMA OutcomeUnits ==
  ASSUME NEW w \in Request, NEW s \in SKU, NEW it \in Item, EmptySlots(it),
         NEW t \in Nat, NEW e,
         Op(w) = "reserve" => /\ e[s] \in Nat
                              /\ CanReserve(it, Cmd[w].ref, OrderOf[Cmd[w].ref][s])
  PROVE  LET new == Outcome(w, s, it, t, e)
         IN  new.available + Reserved(new)
               = it.available + Reserved(it) + Supplies(w)
<1> DEFINE new == Outcome(w, s, it, t, e)
           p == Cmd[w].ref
<1>1. IsFiniteSet(Ref)
  BY OrderAssumption
<1>2. it.available \in Nat /\ Reserved(it) \in Nat
  <2>1. Reserved(it) = Cardinality(UnitsOf(it, Ref))
    BY DEF Reserved
  <2> QED
    BY <1>1, <2>1, UnitsFinite, FS_CardinalityType DEF Item
<1>3. CASE Op(w) = "replenish"
  <2>1. new = ReplenishItem(it, Cmd[w].qty) /\ Cmd[w].qty \in Nat
    BY <1>3, Commands DEF Outcome, ResultOf
  <2>2. /\ new.available = it.available + Cmd[w].qty
        /\ Reserved(new) = Reserved(it)
    BY <2>1, ReplenishMoves
  <2> QED
    BY <1>2, <1>3, <2>1, <2>2 DEF Supplies
<1>4. CASE Op(w) = "reserve"
  <2> DEFINE q == OrderOf[p][s]
  <2>1. new = ReserveItem(it, p, q, e[s]) /\ p \in Ref /\ q \in Nat
    BY <1>4, Commands, OrderOfType DEF Outcome
  <2>2. new.available + Reserved(new) = it.available + Reserved(it)
    BY <1>1, <1>4, <2>1, ReserveMoves
  <2> QED
    BY <1>2, <1>4, <2>2 DEF Supplies
<1>5. CASE Op(w) = "confirm"
  <2>1. new = ConfirmItem(it, p) /\ p \in Ref
    BY <1>5, Commands DEF Outcome, ResultOf
  <2> QED
    BY <1>2, <1>5, <2>1, ConfirmMoves DEF Supplies
<1>6. CASE Op(w) = "release"
  <2>1. new = ReleaseItem(it, p) /\ p \in Ref
    BY <1>6, Commands DEF Outcome, ResultOf
  <2> QED
    BY <1>1, <1>2, <1>6, <2>1, ReleaseMoves DEF Supplies
<1>7. CASE Op(w) = "sweep"
  <2>1. new = ReapItem(it, t)
    BY <1>7 DEF Outcome, ResultOf
  <2>2. new.available + Reserved(new) = it.available + Reserved(it)
    BY <1>1, <2>1, ReapMoves
  <2>3. it.available + Reserved(it) + Supplies(w) = it.available + Reserved(it)
    BY <1>2, <1>7 DEF Supplies
  <2> QED
    BY <2>2, <2>3
<1> QED
  BY <1>3, <1>4, <1>5, <1>6, <1>7, Commands

LEMMA OutcomeDeadlines ==
  ASSUME NEW w \in Request, NEW s \in SKU, NEW it \in Item, NEW n \in Nat,
         Deadlines(it, n), NEW t \in Nat, NEW e,
         Op(w) = "reserve" => /\ e[s] \in 1 .. n + TTL
                              /\ CanReserve(it, Cmd[w].ref, OrderOf[Cmd[w].ref][s])
  PROVE  Deadlines(Outcome(w, s, it, t, e), n)
<1> DEFINE new == Outcome(w, s, it, t, e)
           p == Cmd[w].ref
           Fits(rv) == /\ rv.status = "none" <=> rv.qty = 0
                       /\ rv.status = "pending" => rv.expiresAt \in 1 .. n + TTL
                       /\ rv.status # "pending" => rv.expiresAt = 0
<1> SUFFICES ASSUME NEW r \in Ref
             PROVE  Fits(new.resv[r])
  BY DEF Deadlines
<1>1. Fits(it.resv[r]) /\ Fits(NoReservation) /\ it.resv[r] \in Reservation
  BY DEF Deadlines, NoReservation, Item
<1>2. it.resv \in [Ref -> Reservation]
  BY DEF Item
<1>3. CASE Op(w) = "replenish"
  <2>1. new.resv = it.resv
    BY <1>3 DEF Outcome, ResultOf, ReplenishItem, Item
  <2> QED
    BY <1>1, <2>1
<1>4. CASE Op(w) = "reserve"
  <2> DEFINE q == OrderOf[p][s]
  <2>1. new = ReserveItem(it, p, q, e[s]) /\ p \in Ref /\ q \in Nat /\ q > 0
    BY <1>4, Commands, OrderOfType DEF Outcome, CanReserve
  <2>2. \/ new.resv[r] = it.resv[r]
        \/ new.resv[r] = [status |-> "pending", qty |-> q, expiresAt |-> e[s]]
    BY <1>2, <2>1 DEF ReserveItem
  <2>3. Fits([status |-> "pending", qty |-> q, expiresAt |-> e[s]])
    BY <1>4, <2>1
  <2> QED
    BY <1>1, <2>2, <2>3
<1>5. CASE Op(w) = "confirm"
  <2>1. new = ConfirmItem(it, p) /\ p \in Ref
    BY <1>5, Commands DEF Outcome, ResultOf
  <2>2. \/ new.resv[r] = it.resv[r]
        \/ /\ it.resv[r].status = "pending"
           /\ new.resv[r] = [status |-> "confirmed", qty |-> it.resv[r].qty,
                             expiresAt |-> 0]
    BY <1>1, <1>2, <2>1 DEF ConfirmItem, Item, Reservation
  <2> QED
    BY <1>1, <2>2
<1>6. CASE Op(w) = "release"
  <2>1. new = ReleaseItem(it, p) /\ p \in Ref
    BY <1>6, Commands DEF Outcome, ResultOf
  <2>2. new.resv[r] = it.resv[r] \/ new.resv[r] = NoReservation
    BY <1>2, <2>1 DEF ReleaseItem
  <2> QED
    BY <1>1, <2>2
<1>7. CASE Op(w) = "sweep"
  <2>1. new = ReapItem(it, t)
    BY <1>7 DEF Outcome, ResultOf
  <2>2. new.resv[r] = it.resv[r] \/ new.resv[r] = NoReservation
    BY <2>1 DEF ReapItem
  <2> QED
    BY <1>1, <2>2
<1> QED
  BY <1>3, <1>4, <1>5, <1>6, <1>7, Commands

LEMMA CommitSound ==
  ASSUME Inv, Refining, Sound, NEW w \in Request, Commit(w)
  PROVE  Sound'
<1>1. /\ pc[w] = "save" /\ supplied' = Added(w, supplied) /\ now' = now
      /\ now \in Nat /\ clock[w] \in Nat /\ supplied \in [SKU -> Nat]
      /\ ids[w] = <<>> /\ CoversOne(w) /\ copies[w] \in Seq(Copy)
  BY WorkloadAssumption DEF Commit, Inv, TypeOK, Refining, Covered, Ready
<1>2. ASSUME NEW s \in SKU
      PROVE  /\ Wrote(w, s) => supplied'[s] = supplied[s] + Supplies(w)
             /\ ~ Wrote(w, s) => supplied'[s] = supplied[s]
  <2>1. CASE Op(w) = "replenish"
    <3>1. Len(copies[w]) = 1 /\ copies[w][1].sku = Cmd[w].sku
      BY <1>1, <2>1 DEF CoversOne
    <3>2. Wrote(w, s) <=> s = Cmd[w].sku
      BY <1>1, <3>1 DEF Wrote
    <3> QED
      BY <1>1, <2>1, <3>2 DEF Added, Supplies
  <2>2. CASE Op(w) # "replenish"
    BY <1>1, <2>2 DEF Added, Supplies
  <2> QED
    BY <2>1, <2>2
<1>3. ASSUME NEW s \in SKU, Wrote(w, s)
      PROVE  LET new == Outcome(w, s, rows[s].item, clock[w], exp[w])
             IN  /\ rows'[s].item = new
                 /\ Deadlines(new, now)
                 /\ new.available + Reserved(new) = supplied[s] + Supplies(w)
  <2> DEFINE it == rows[s].item
             new == Outcome(w, s, it, clock[w], exp[w])
  <2>1. /\ it \in Item /\ Deadlines(it, now)
        /\ it.available + Reserved(it) = supplied[s]
    BY DEF Inv, TypeOK, Row, Sound
  <2>2. EmptySlots(it)
    BY <2>1 DEF EmptySlots, Deadlines
  <2>3. Op(w) = "reserve" =>
          /\ exp[w][s] \in Nat /\ exp[w][s] \in 1 .. now + TTL
          /\ CanReserve(it, Cmd[w].ref, OrderOf[Cmd[w].ref][s])
    <3> SUFFICES ASSUME Op(w) = "reserve"
                 PROVE  /\ exp[w][s] \in Nat /\ exp[w][s] \in 1 .. now + TTL
                        /\ CanReserve(it, Cmd[w].ref, OrderOf[Cmd[w].ref][s])
      OBVIOUS
    <3>1. PICK t \in 0 .. now : exp[w][s] = t + TTL
      BY <1>1 DEF Refining, Covered, Ready
    <3>2. TTL \in Nat /\ TTL > 0
      BY NumberAssumption
    <3>3. exp[w][s] \in Nat /\ exp[w][s] \in 1 .. now + TTL
      BY <1>1, <3>1, <3>2
    <3> QED
      BY <1>3, <3>3, CommitIs
  <2>4. Deadlines(new, now)
    BY <1>1, <2>1, <2>3, OutcomeDeadlines
  <2>5. new.available + Reserved(new) = it.available + Reserved(it) + Supplies(w)
    BY <1>1, <2>1, <2>2, <2>3, OutcomeUnits
  <2>6. rows'[s].item = new
    <3> HIDE DEF new
    <3>1. rows'[s] = [version |-> rows[s].version + 1, item |-> new]
      BY <1>3, CommitIs DEF new
    <3> QED
      BY <3>1
  <2> QED
    BY <2>1, <2>4, <2>5, <2>6
<1> SUFFICES ASSUME NEW s \in SKU
             PROVE  /\ Deadlines(rows'[s].item, now)
                    /\ rows'[s].item.available + Reserved(rows'[s].item) = supplied'[s]
  BY <1>1 DEF Sound, Deadlines, Reserved, UnitsOf
<1>4. CASE Wrote(w, s)
  BY <1>2, <1>3, <1>4
<1>5. CASE ~ Wrote(w, s)
  <2>1. rows'[s] = rows[s]
    BY <1>5, CommitIs
  <2> QED
    BY <1>2, <1>5, <2>1 DEF Sound
<1> QED
  BY <1>4, <1>5

LEMMA LaterDeadlines ==
  ASSUME NEW it, NEW m \in Nat, NEW n \in Nat, m <= n, Deadlines(it, m)
  PROVE  Deadlines(it, n)
<1>1. TTL \in Nat
  BY NumberAssumption
<1>2. ASSUME NEW e \in 1 .. m + TTL
      PROVE  e \in 1 .. n + TTL
  BY <1>1, <1>2
<1> QED
  BY <1>2 DEF Deadlines

LEMMA NextSound ==
  ASSUME Inv, Refining, Sound, [Next]_vars
  PROVE  Sound'
<1>1. ASSUME UNCHANGED <<rows, supplied>>, now' = now \/ now' = now + 1
      PROVE  Sound'
  <2>1. now \in Nat /\ now' \in Nat /\ now <= now'
    BY <1>1, WorkloadAssumption DEF Inv, TypeOK
  <2>2. \A s \in SKU : Deadlines(rows'[s].item, now')
    BY <1>1, <2>1, LaterDeadlines DEF Sound
  <2>3. \A s \in SKU :
          rows'[s].item.available + Reserved(rows'[s].item) = supplied'[s]
    BY <1>1 DEF Sound
  <2> QED
    BY <2>2, <2>3 DEF Sound, Deadlines, Reserved, UnitsOf
<1>2. ASSUME NEW w \in Request, Begin(w) \/ Step(w) \/ Abort(w), ~ Commit(w)
      PROVE  Sound'
  BY <1>1, <1>2, OtherSteps
<1>3. CASE Tick \/ UNCHANGED vars
  BY <1>1, <1>3 DEF Tick, vars, shared
<1> QED
  BY <1>2, <1>3, CommitSound DEF Next

LEMMA InitSound ==
  ASSUME Init
  PROVE  Sound
<1> SUFFICES ASSUME NEW s \in SKU
             PROVE  /\ Deadlines(rows[s].item, now)
                    /\ rows[s].item.available + Reserved(rows[s].item) = supplied[s]
  BY DEF Sound
<1> DEFINE it == ReplenishItem(NewStockItem, Opening[s])
<1>1. rows[s].item = it /\ supplied[s] = Opening[s] /\ Opening[s] \in Nat
  BY OpeningAssumption DEF Init, OpeningRows
<1>2. NewStockItem \in Item
  BY DEF NewStockItem, Item, Reservation, NoReservation
<1>3. it.available = NewStockItem.available + Opening[s]
      /\ Reserved(it) = Reserved(NewStockItem)
  BY <1>1, <1>2, ReplenishMoves
<1>4. Reserved(NewStockItem) = 0
  <2>1. UnitsOf(NewStockItem, Ref) = {}
    BY DEF UnitsOf, NewStockItem, NoReservation
  <2> QED
    BY <2>1, FS_EmptySet DEF Reserved
<1>5. \A r \in Ref : it.resv[r] = NoReservation
  BY DEF ReplenishItem, NewStockItem
<1>6. Deadlines(it, now)
  BY <1>5 DEF Deadlines, NoReservation
<1>7. it.available + Reserved(it) = Opening[s]
  BY <1>1, <1>3, <1>4 DEF NewStockItem
<1> QED
  BY <1>1, <1>6, <1>7

LEMMA SoundHolds == Spec => []Sound
<1>1. Init => Refining /\ Sound
  BY InitRefining, InitSound
<1>2. Inv /\ Refining /\ Sound /\ [Next]_vars => Refining' /\ Sound'
  BY NextRefining, NextSound
<1> QED
  BY <1>1, <1>2, InvHolds, PTL DEF Spec

(* No unit is lost or sold twice by any mix of transactions: of every SKU, *)
(* what is free and what is reserved in the committed rows is what was     *)
(* added (stock_item.go: available is stored, reserved is derived).        *)
THEOREM UnitsConserved == Spec => []Atomic!Conservation
<1>1. Sound => Atomic!Conservation
  BY SameItems DEF Sound, Atomic!Conservation
<1> QED
  BY <1>1, SoundHolds, PTL

(* No committed row holds an unconfirmed reservation for longer than TTL,  *)
(* although the deadline was computed before the commit and perhaps by an  *)
(* earlier attempt (reserve.go, stock_item.go: Reserve).                   *)
THEOREM HoldsBounded == Spec => []Atomic!HoldBounded
<1>1. Sound => Atomic!HoldBounded
  BY DEF Sound, Deadlines, Atomic!HoldBounded
<1> QED
  BY <1>1, SoundHolds, PTL

-----------------------------------------------------------------------------
(* The transactions of the PostgreSQL adapter (uow.go, stock_store.go), in *)
(* any number and however they interleave, wait, conflict, are retried or  *)
(* fail, are the use cases of Inventory, each in one step at its commit.   *)
THEOREM InventoryImplemented ==
  ASSUME ReservedOnce
  PROVE  Spec => ImplementsInventory
<1>1. Init => Refining /\ Atomic!Init
  BY InitRefining, InitIsOpening
<1>2. Inv /\ Refining /\ [Next]_vars => Refining'
  BY NextRefining
<1>3. Inv /\ Refining /\ [Next]_vars => [Atomic!Next]_(Atomic!vars)
  BY StepIsUseCase
<1> QED
  BY <1>1, <1>2, <1>3, InvHolds, PTL DEF Spec, ImplementsInventory, Atomic!Spec

-----------------------------------------------------------------------------
(* What InventoryProofs shows of the use cases holds of the transactions.  *)
IP == INSTANCE InventoryProofs WITH
  stock <- [s \in SKU |-> rows[s].item],
  Order <- OrderOf,
  Quantities <- {Cmd[w].qty : w \in {v \in Request : Op(v) = "replenish"}},
  MaxTime <- Last + TTL + 1,
  Supply <- Nat

LEMMA ProofAssumptions ==
  ASSUME Workload # {}
  PROVE  /\ IP!OrderAssumption /\ IP!QuantitiesAssumption /\ IP!TimeAssumption
         /\ IP!BatchAssumption /\ IP!SupplyAssumption
<1>1. IP!OrderAssumption
  BY OrderOfType, OrderAssumption DEF IP!OrderAssumption, IP!IsFiniteSet, IsFiniteSet
<1>2. IP!QuantitiesAssumption
  BY Commands DEF IP!QuantitiesAssumption
<1>3. IP!TimeAssumption
  BY LastIs, NumberAssumption DEF IP!TimeAssumption
<1>4. IP!BatchAssumption
  BY NumberAssumption DEF IP!BatchAssumption
<1>5. IP!SupplyAssumption
  BY OpeningAssumption DEF IP!SupplyAssumption
<1> QED
  BY <1>1, <1>2, <1>3, <1>4, <1>5

LEMMA SameProofItems ==
  /\ Atomic!NewStockItem = IP!NewStockItem
  /\ \A it, r : Atomic!HasReservation(it, r) <=> IP!HasReservation(it, r)
  /\ \A it, t : Atomic!Reapable(it, t) = IP!Reapable(it, t)
  /\ \A it, q : Atomic!ReplenishItem(it, q) = IP!ReplenishItem(it, q)
  /\ \A it, r, q : Atomic!CanReserve(it, r, q) <=> IP!CanReserve(it, r, q)
  /\ \A it, r, q, e :
       Atomic!ReserveItem(it, r, q, e) = IP!ReserveItem(it, r, q, e)
  /\ \A it, r : Atomic!ConfirmItem(it, r) = IP!ConfirmItem(it, r)
  /\ \A it, r : Atomic!ReleaseItem(it, r) = IP!ReleaseItem(it, r)
  /\ \A it, t : Atomic!ReapItem(it, t) = IP!ReapItem(it, t)
  /\ \A S : Atomic!Cardinality(S) = IP!Cardinality(S)
  /\ \A it : Atomic!Reserved(it) = IP!Reserved(it)
<1>1. Atomic!NoReservation = IP!NoReservation
  BY DEF Atomic!NoReservation, IP!NoReservation
<1>3. Atomic!NewStockItem = IP!NewStockItem
  BY <1>1 DEF Atomic!NewStockItem, IP!NewStockItem
<1>4. \A it, r : Atomic!HasReservation(it, r) <=> IP!HasReservation(it, r)
  BY DEF Atomic!HasReservation, IP!HasReservation
<1>5. \A it, t : Atomic!Reapable(it, t) = IP!Reapable(it, t)
  BY DEF Atomic!Reapable, IP!Reapable, Atomic!IsExpired, IP!IsExpired
<1>6. \A it, q : Atomic!ReplenishItem(it, q) = IP!ReplenishItem(it, q)
  BY DEF Atomic!ReplenishItem, IP!ReplenishItem
<1>7. \A it, r, q : Atomic!CanReserve(it, r, q) <=> IP!CanReserve(it, r, q)
  BY <1>4 DEF Atomic!CanReserve, IP!CanReserve
<1>8. \A it, r, q, e :
        Atomic!ReserveItem(it, r, q, e) = IP!ReserveItem(it, r, q, e)
  BY <1>4 DEF Atomic!ReserveItem, IP!ReserveItem
<1>9. \A it, r : Atomic!ConfirmItem(it, r) = IP!ConfirmItem(it, r)
  BY DEF Atomic!ConfirmItem, IP!ConfirmItem
<1>10. \A it, r : Atomic!ReleaseItem(it, r) = IP!ReleaseItem(it, r)
  BY <1>1 DEF Atomic!ReleaseItem, IP!ReleaseItem
<1>11. \A S : Atomic!Cardinality(S) = IP!Cardinality(S)
  BY DEF Atomic!Cardinality, IP!Cardinality, Atomic!IsFiniteSet, IP!IsFiniteSet
<1>12. \A it, refs : Atomic!UnitsOf(it, refs) = IP!UnitsOf(it, refs)
  BY DEF Atomic!UnitsOf, IP!UnitsOf
<1>13. \A it, t : Atomic!ReapItem(it, t) = IP!ReapItem(it, t)
  BY <1>1, <1>5, <1>11, <1>12 DEF Atomic!ReapItem, IP!ReapItem
<1>14. \A it : Atomic!Reserved(it) = IP!Reserved(it)
  BY <1>11, <1>12 DEF Atomic!Reserved, IP!Reserved
<1> QED
  BY <1>3, <1>4, <1>5, <1>6, <1>7, <1>8, <1>9, <1>10, <1>11, <1>13, <1>14

LEMMA SameUseCases ==
  /\ Atomic!Init => IP!Init
  /\ [Atomic!Next]_(Atomic!vars) => [IP!Next]_(IP!vars)
<1>1. Atomic!Init => IP!Init
  BY SameProofItems DEF Atomic!Init, IP!Init
<1>2. Atomic!Next => IP!Next
  <2>1. ASSUME NEW r \in Ref
        PROVE  Atomic!Lines(r) = IP!Lines(r) /\ Atomic!Holders(r) = IP!Holders(r)
    BY SameProofItems DEF Atomic!Lines, IP!Lines, Atomic!Holders, IP!Holders
  <2>2. Atomic!Expiries = IP!Expiries
    BY DEF Atomic!Expiries, IP!Expiries
  <2>3. \A t : Atomic!Expired(t) = IP!Expired(t)
    BY SameProofItems DEF Atomic!Expired, IP!Expired
  <2>4. \A s \in SKU : \A q : Atomic!Replenish(s, q) => IP!Replenish(s, q)
    BY SameProofItems DEF Atomic!Replenish, IP!Replenish
  <2>5. \A r \in Ref : \A e : Atomic!Reserve(r, e) => IP!Reserve(r, e)
    BY SameProofItems, <2>1 DEF Atomic!Reserve, IP!Reserve
  <2>6. \A r \in Ref : Atomic!Confirm(r) => IP!Confirm(r)
    BY SameProofItems, <2>1 DEF Atomic!Confirm, IP!Confirm
  <2>7. \A r \in Ref : Atomic!Release(r) => IP!Release(r)
    BY SameProofItems, <2>1 DEF Atomic!Release, IP!Release
  <2>8. \A t, S : Atomic!Sweep(t, S) => IP!Sweep(t, S)
    BY SameProofItems, <2>3 DEF Atomic!Sweep, IP!Sweep
  <2>9. Atomic!Tick => IP!Tick
    BY DEF Atomic!Tick, IP!Tick
  <2> QED
    BY <2>1, <2>2, <2>4, <2>5, <2>6, <2>7, <2>8, <2>9 DEF Atomic!Next, IP!Next
<1>3. UNCHANGED Atomic!vars => UNCHANGED IP!vars
  BY DEF Atomic!vars, IP!vars
<1> QED
  BY <1>1, <1>2, <1>3

(* So what InventoryProofs shows of the use cases holds of transactions.   *)
LEMMA UseCasesImplemented ==
  ASSUME ReservedOnce
  PROVE  Spec => IP!Spec
<1>1. Atomic!Spec => IP!Spec
  BY SameUseCases, PTL DEF Atomic!Spec, IP!Spec
<1>2. Spec => Atomic!Spec
  BY InventoryImplemented DEF ImplementsInventory
<1> QED
  BY <1>1, <1>2, PTL

LEMMA SomeWorkload == Workload = {} => ~ Spec
<1>1. Workload = {} => ~ Init
  BY DEF Init
<1> QED
  BY <1>1, PTL DEF Spec

(* Only the reaper, and only past the deadline, takes a line of an order   *)
(* that keeps another: a release that listed an order's items before they  *)
(* changed cannot commit a part of it (stock_store.go: LoadByReservation). *)
THEOREM TornOnlyWhenExpired ==
  ASSUME ReservedOnce
  PROVE  Spec => Atomic!TornOnlyByExpiry
<1>1. CASE Workload = {}
  BY <1>1, SomeWorkload
<1>2. CASE Workload # {}
  <2>1. IP!Spec => IP!TornOnlyByExpiry
    BY <1>2, ProofAssumptions, IP!TornOnlyWhenExpired
  <2>2. IP!TearsOnlyExpired => Atomic!TearsOnlyExpired
    BY SameProofItems DEF IP!TearsOnlyExpired, Atomic!TearsOnlyExpired,
                          IP!Expired, Atomic!Expired
  <2>3. [IP!TearsOnlyExpired]_(IP!vars) => [Atomic!TearsOnlyExpired]_(Atomic!vars)
    BY <2>2 DEF IP!vars, Atomic!vars
  <2>4. IP!TornOnlyByExpiry => Atomic!TornOnlyByExpiry
    BY <2>3, PTL DEF IP!TornOnlyByExpiry, Atomic!TornOnlyByExpiry
  <2> QED
    BY <2>1, <2>4, UseCasesImplemented, PTL
<1> QED
  BY <1>1, <1>2

(* A committed reservation that is confirmed stands until its order is     *)
(* released: no sweep takes it, although a sweep lists its items before it *)
(* loads them, and no transaction that loaded the row before the           *)
(* confirmation brings it back to pending (stock_store.go: Save).          *)
THEOREM ConfirmationsStand ==
  ASSUME ReservedOnce
  PROVE  Spec => IP!ConfirmedReservationsStand
<1>1. CASE Workload = {}
  BY <1>1, SomeWorkload
<1>2. CASE Workload # {}
  <2>1. IP!Spec => IP!ConfirmedReservationsStand
    BY <1>2, ProofAssumptions, IP!ConfirmationsStand
  <2> QED
    BY <2>1, UseCasesImplemented, PTL
<1> QED
  BY <1>1, <1>2
=============================================================================
