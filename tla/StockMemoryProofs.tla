------------------------- MODULE StockMemoryProofs -------------------------
(***************************************************************************)
(* The in-memory stock store for any rows, requests and orders.  Commits   *)
(* may install rows that other commits have replaced meanwhile, and two    *)
(* copies of one SKU may be saved by one request; but a row is installed   *)
(* as a whole, and only a replenishment changes what an item adds up to.   *)
(* So the invariant says of every item a request holds, loaded or staged,  *)
(* what it says of the rows (Good): its units are no fewer than those its  *)
(* SKU started with and no more than were ever supplied, where a staged    *)
(* replenishment is counted as supplied for the request that staged it.    *)
(***************************************************************************)
EXTENDS StockMemory, StockItemLemmas, SequenceTheorems

(* Nobody replenishes the SKU.                                             *)
Closed(s) == \A w \in Request : Op(w) = "replenish" => Cmd[w].sku # s

(* An item its SKU can have: an empty slot holds no units, and its units   *)
(* are between those it started with and those supplied.                   *)
Good(s, it, most) ==
  /\ it \in Item /\ EmptySlots(it)
  /\ it.available + Reserved(it) \in Opening[s] .. most[s]

GoodCopies(q, most) == \A i \in DOMAIN q : Good(q[i].sku, q[i].item, most)

(* An SKU that the order behind a reservation has a line for.              *)
Asks(w, s) ==
  \E i \in DOMAIN LinesOf[Cmd[w].ref] : LinesOf[Cmd[w].ref][i].sku = s

(* What a request asked for is what it loaded copies of.                   *)
AskedFor(w, q) ==
  /\ Op(w) = "reserve" => \A i \in DOMAIN q : Asks(w, q[i].sku)
  /\ Op(w) = "replenish" => \A i \in DOMAIN q : q[i].sku = Cmd[w].sku

Inv ==
  /\ TypeOK
  /\ \A s \in SKU : /\ Good(s, rows[s].item, supplied)
                    /\ Closed(s) => supplied[s] = Opening[s]
  /\ \A w \in Request : /\ GoodCopies(copies[w], supplied)
                        /\ GoodCopies(staged[w], Added(w, supplied))
                        /\ AskedFor(w, copies[w])
                        /\ pc[w] = "idle" => attempt[w] = 0

-----------------------------------------------------------------------------
LEMMA Commands ==
  ASSUME NEW w \in Request
  PROVE  /\ Op(w) \in {"replenish", "reserve", "confirm", "release", "sweep"}
         /\ Op(w) = "replenish" => Cmd[w].sku \in SKU /\ Cmd[w].qty \in Nat \ {0}
         /\ Op(w) \in {"reserve", "confirm", "release"} => Cmd[w].ref \in Ref
BY RequestAssumption DEF Op, Command, ByRef

LEMMA SeqParts ==
  ASSUME NEW T, NEW q \in Seq(T)
  PROVE  /\ Len(q) \in Nat /\ DOMAIN q = 1 .. Len(q)
         /\ \A i \in DOMAIN q : q[i] \in T
OBVIOUS

(* What a commit adds to the units supplied.                               *)
LEMMA SuppliesAdd ==
  ASSUME NEW w \in Request, NEW n \in [SKU -> Nat]
  PROVE  /\ Added(w, n) \in [SKU -> Nat]
         /\ \A s \in SKU : /\ n[s] <= Added(w, n)[s]
                           /\ Closed(s) => Added(w, n)[s] = n[s]
         /\ Op(w) = "replenish" => Added(w, n)[Cmd[w].sku] = n[Cmd[w].sku] + Cmd[w].qty
         /\ Op(w) # "replenish" => Added(w, n) = n
BY Commands DEF Added, Closed

LEMMA SuppliesGrow ==
  ASSUME NEW w \in Request, NEW m \in [SKU -> Nat], NEW n \in [SKU -> Nat],
         \A s \in SKU : m[s] <= n[s]
  PROVE  \A s \in SKU : Added(w, m)[s] <= Added(w, n)[s]
BY Commands DEF Added

(* An item that is good for some units supplied is good for more.          *)
LEMMA StaysGood ==
  ASSUME NEW m \in [SKU -> Nat], NEW n \in [SKU -> Nat],
         \A s \in SKU : m[s] <= n[s]
  PROVE  /\ \A s \in SKU : \A it : Good(s, it, m) => Good(s, it, n)
         /\ \A q \in Seq(Copy) : GoodCopies(q, m) => GoodCopies(q, n)
<1>1. \A s \in SKU : Opening[s] \in Nat /\ m[s] \in Nat /\ n[s] \in Nat
  BY OpeningAssumption
<1>2. \A s \in SKU : \A it : Good(s, it, m) => Good(s, it, n)
  BY <1>1 DEF Good
<1>3. ASSUME NEW q \in Seq(Copy), GoodCopies(q, m)
      PROVE  GoodCopies(q, n)
  <2>1. \A i \in DOMAIN q : q[i] \in Copy
    BY SeqParts
  <2>2. \A i \in DOMAIN q : q[i].sku \in SKU
    BY <2>1 DEF Copy
  <2> QED
    BY <1>2, <1>3, <2>2 DEF GoodCopies
<1> QED
  BY <1>2, <1>3

(* What a request makes of a good item is good: one lemma per operation.   *)
LEMMA ReserveKeepsGood ==
  ASSUME NEW s \in SKU, NEW it, NEW m, Good(s, it, m), NEW r \in Ref,
         NEW q \in Nat, NEW e \in Nat, CanReserve(it, r, q)
  PROVE  Good(s, ReserveItem(it, r, q, e), m)
<1> DEFINE jt == ReserveItem(it, r, q, e)
<1>1. it \in Item /\ EmptySlots(it) /\ IsFiniteSet(Ref)
  BY OrderAssumption DEF Good
<1>2. /\ jt \in Item
      /\ jt.available + Reserved(jt) = it.available + Reserved(it)
  BY <1>1, ReserveMoves
<1>3. EmptySlots(jt)
  BY <1>1 DEF EmptySlots, ReserveItem, Item, Reservation
<1> QED
  BY <1>2, <1>3 DEF Good

LEMMA ReplenishKeepsGood ==
  ASSUME NEW w \in Request, Op(w) = "replenish", NEW it,
         NEW m \in [SKU -> Nat], Good(Cmd[w].sku, it, m)
  PROVE  Good(Cmd[w].sku, ReplenishItem(it, Cmd[w].qty), Added(w, m))
<1> DEFINE s == Cmd[w].sku
           jt == ReplenishItem(it, Cmd[w].qty)
<1>1. /\ it \in Item /\ EmptySlots(it) /\ Cmd[w].qty \in Nat
      /\ s \in SKU /\ Opening[s] \in Nat /\ m[s] \in Nat
      /\ it.available + Reserved(it) \in Opening[s] .. m[s]
  BY Commands, OpeningAssumption DEF Good
<1>2. /\ jt \in Item /\ jt.available = it.available + Cmd[w].qty
      /\ Reserved(jt) = Reserved(it)
  BY <1>1, ReplenishMoves
<1>3. EmptySlots(ReplenishItem(it, Cmd[w].qty))
  BY <1>1 DEF EmptySlots, ReplenishItem, Item
<1>4. it.available \in Nat /\ Reserved(it) \in Nat
  <2>1. Reserved(it) = Cardinality(UnitsOf(it, Ref))
    BY DEF Reserved
  <2> QED
    BY <1>1, <2>1, UnitsFinite, FS_CardinalityType, OrderAssumption DEF Item
<1>5. Added(w, m)[s] = m[s] + Cmd[w].qty
  BY SuppliesAdd
<1>6. jt.available + Reserved(jt) \in Opening[s] .. Added(w, m)[s]
  BY <1>1, <1>2, <1>4, <1>5
<1> QED
  BY <1>2, <1>3, <1>6 DEF Good

LEMMA OthersKeepGood ==
  ASSUME NEW s \in SKU, NEW it, NEW m, Good(s, it, m)
  PROVE  /\ \A r \in Ref : /\ Good(s, ConfirmItem(it, r), m)
                           /\ Good(s, ReleaseItem(it, r), m)
         /\ \A t \in Nat : Good(s, ReapItem(it, t), m)
<1>1. it \in Item /\ EmptySlots(it) /\ IsFiniteSet(Ref)
  BY OrderAssumption DEF Good
<1>2. ASSUME NEW r \in Ref
      PROVE  Good(s, ConfirmItem(it, r), m)
  <2> DEFINE jt == ConfirmItem(it, r)
  <2>1. jt \in Item /\ jt.available + Reserved(jt) = it.available + Reserved(it)
    BY <1>1, ConfirmMoves
  <2>2. EmptySlots(jt)
    BY <1>1 DEF EmptySlots, ConfirmItem, Item, Reservation
  <2> QED
    BY <2>1, <2>2 DEF Good
<1>3. ASSUME NEW r \in Ref
      PROVE  Good(s, ReleaseItem(it, r), m)
  <2> DEFINE jt == ReleaseItem(it, r)
  <2>1. jt \in Item /\ jt.available + Reserved(jt) = it.available + Reserved(it)
    BY <1>1, ReleaseMoves
  <2>2. EmptySlots(jt)
    BY <1>1 DEF EmptySlots, ReleaseItem, Item, NoReservation
  <2> QED
    BY <2>1, <2>2 DEF Good
<1>4. ASSUME NEW t \in Nat
      PROVE  Good(s, ReapItem(it, t), m)
  <2> DEFINE jt == ReapItem(it, t)
  <2>1. jt \in Item /\ jt.available + Reserved(jt) = it.available + Reserved(it)
    BY <1>1, ReapMoves
  <2>2. EmptySlots(jt)
    BY <1>1 DEF EmptySlots, ReapItem, Item, NoReservation
  <2> QED
    BY <2>1, <2>2 DEF Good
<1> QED
  BY <1>2, <1>3, <1>4

-----------------------------------------------------------------------------
(* What the domain operation makes of loaded copies that are good.         *)
LEMMA ResultIsGood ==
  ASSUME NEW w \in Request, NEW q \in Seq(Copy), NEW m \in [SKU -> Nat],
         GoodCopies(q, m), AskedFor(w, q), CanApply(w, q), NEW t \in Nat,
         NEW e, \A s \in SKU : e[s] \in Nat,
         NEW i \in DOMAIN q
  PROVE  /\ DOMAIN Result(w, q, t, e) = DOMAIN q
         /\ Result(w, q, t, e)[i] =
              [sku |-> q[i].sku, version |-> q[i].version,
               item |-> Result(w, q, t, e)[i].item]
         /\ Good(q[i].sku, Result(w, q, t, e)[i].item, Added(w, m))
<1> DEFINE s == q[i].sku
           r == Cmd[w].ref
           lines == LinesOf[r]
<1>1. /\ q[i] \in Copy /\ s \in SKU /\ Good(s, q[i].item, m)
      /\ \A it : [q[i] EXCEPT !.item = it] =
                   [sku |-> s, version |-> q[i].version, item |-> it]
      /\ q[i] = [sku |-> s, version |-> q[i].version, item |-> q[i].item]
  <2>1. q[i] \in Copy
    BY SeqParts
  <2>2. q[i] \in [sku : SKU, version : Nat, item : Item]
    BY <2>1 DEF Copy
  <2>3. Good(s, q[i].item, m)
    BY DEF GoodCopies
  <2> QED
    BY <2>1, <2>2, <2>3
<1>2. CASE Op(w) # "reserve"
  <2>1. Result(w, q, t, e) =
          [j \in DOMAIN q |-> [q[j] EXCEPT !.item = ResultOf(w, q[j].item, t)]]
    BY <1>2 DEF Result
  <2>2. Result(w, q, t, e)[i] =
          [sku |-> s, version |-> q[i].version,
           item |-> ResultOf(w, q[i].item, t)]
    BY <1>1, <2>1
  <2>3. Good(s, ResultOf(w, q[i].item, t), Added(w, m))
    <3>1. CASE Op(w) = "replenish"
      <4>1. s = Cmd[w].sku
        BY <3>1 DEF AskedFor
      <4>2. Good(s, ReplenishItem(q[i].item, Cmd[w].qty), Added(w, m))
        BY <1>1, <3>1, <4>1, ReplenishKeepsGood
      <4> QED
        BY <3>1, <4>2 DEF ResultOf
    <3>2. CASE Op(w) \in {"confirm", "release", "sweep"}
      <4>1. Added(w, m) = m
        BY <3>2, SuppliesAdd
      <4> QED
        BY <1>1, <3>2, <4>1, Commands, OthersKeepGood DEF ResultOf
    <3> QED
      BY <1>2, <3>1, <3>2, Commands
  <2> QED
    BY <2>1, <2>2, <2>3
<1>3. CASE Op(w) = "reserve"
  <2>0. Added(w, m) = m
    BY <1>3, SuppliesAdd
  <2>1. r \in Ref /\ lines \in Seq([sku : SKU, qty : Nat])
    BY <1>3, Commands, OrderAssumption
  <2>2. Result(w, q, t, e) = Allocate(q, r, lines, e)
    BY <1>3 DEF Result
  <2>3. CASE i # CopyOf(q, s)
    <3>1. Result(w, q, t, e)[i] = q[i]
      BY <2>2, <2>3 DEF Allocate
    <3> QED
      BY <1>1, <2>0, <2>2, <3>1 DEF Allocate
  <2>4. CASE i = CopyOf(q, s)
    <3> DEFINE k == FirstLine(lines, s)
               jt == ReserveItem(q[i].item, r, lines[k].qty, e[s])
    <3>1. \E j \in DOMAIN lines : lines[j].sku = s
      BY <1>3 DEF AskedFor, Asks
    <3>2. /\ k \in DOMAIN lines /\ lines[k].sku = s
          /\ lines[k] \in [sku : SKU, qty : Nat]
      BY <2>1, <3>1, FirstLineIs
    <3>3. CanReserve(q[i].item, r, lines[k].qty)
      <4>1. CanAllocate(q, r, lines)
        BY <1>3 DEF CanApply
      <4> QED
        BY <2>4, <3>2, <4>1 DEF CanAllocate
    <3>4. Good(s, jt, Added(w, m))
      BY <1>1, <2>0, <2>1, <3>2, <3>3, ReserveKeepsGood
    <3>5. Result(w, q, t, e)[i] = [q[i] EXCEPT !.item = jt]
      BY <2>2, <2>4 DEF Allocate
    <3>6. Result(w, q, t, e)[i] =
            [sku |-> s, version |-> q[i].version, item |-> jt]
      BY <1>1, <3>5
    <3>7. DOMAIN Result(w, q, t, e) = DOMAIN q
      BY <2>2 DEF Allocate
    <3> HIDE DEF jt
    <3>8. Result(w, q, t, e)[i].item = jt
      BY <3>6
    <3> QED
      BY <3>4, <3>6, <3>7, <3>8
  <2> QED
    BY <2>3, <2>4
<1> QED
  BY <1>2, <1>3

-----------------------------------------------------------------------------
(* A request loads only SKUs it asks for.                                  *)
LEMMA NamedType ==
  ASSUME NEW w \in Request
  PROVE  Named(w) \in Seq(SKU)
<1>1. CASE Op(w) = "reserve"
  <2>1. LinesOf[Cmd[w].ref] \in Seq([sku : SKU, qty : Nat])
    BY <1>1, Commands, OrderAssumption
  <2> DEFINE lines == LinesOf[Cmd[w].ref]
  <2>2. /\ Len(lines) \in Nat /\ DOMAIN lines = 1 .. Len(lines)
        /\ \A i \in DOMAIN lines : lines[i].sku \in SKU
    <3> HIDE DEF lines
    <3>1. lines \in Seq([sku : SKU, qty : Nat])
      BY <2>1 DEF lines
    <3>2. /\ Len(lines) \in Nat /\ DOMAIN lines = 1 .. Len(lines)
          /\ \A i \in DOMAIN lines : lines[i] \in [sku : SKU, qty : Nat]
      BY <3>1, SeqParts
    <3> QED
      BY <3>2
  <2>3. [i \in DOMAIN lines |-> lines[i].sku] \in Seq(SKU)
    <3> HIDE DEF lines
    <3>1. [i \in 1 .. Len(lines) |-> lines[i].sku] \in [1 .. Len(lines) -> SKU]
      BY <2>2
    <3> QED
      BY <2>2, <3>1, IsASeq
  <2> QED
    BY <1>1, <2>3 DEF Named
<1>2. CASE Op(w) = "replenish"
  BY <1>2, Commands DEF Named
<1>3. CASE Op(w) \notin {"reserve", "replenish"}
  BY <1>3 DEF Named
<1> QED
  BY <1>1, <1>2, <1>3

LEMMA NamesType ==
  ASSUME NEW w \in Request, NEW names \in Names(w)
  PROVE  /\ names \in Seq(SKU)
         /\ Op(w) = "reserve" => \A i \in DOMAIN names : Asks(w, names[i])
         /\ Op(w) = "replenish" => \A i \in DOMAIN names : names[i] = Cmd[w].sku
<1>1. CASE Op(w) = "replenish"
  <2>1. names = <<Cmd[w].sku>> /\ Cmd[w].sku \in SKU
    BY <1>1, Commands DEF Names, Named
  <2> QED
    BY <1>1, <2>1
<1>2. CASE Op(w) = "reserve"
  <2> DEFINE S == Existing(w)
             lines == LinesOf[Cmd[w].ref]
  <2>1. PICK f \in Orderings(S) : names = [i \in DOMAIN f |-> Named(w)[f[i]]]
    BY <1>2 DEF Names
  <2>2. Named(w) \in Seq(SKU)
    BY NamedType
  <2>3. S \subseteq 1 .. Len(Named(w)) /\ Len(Named(w)) \in Nat
    BY <2>2 DEF Existing
  <2>4. IsFiniteSet(S)
    <3>1. IsFiniteSet(1 .. Len(Named(w)))
      BY <2>3, FS_Interval
    <3> QED
      BY <2>3, <3>1, FS_Subset
  <2>5. Cardinality(S) \in Nat
    BY <2>4, FS_CardinalityType
  <2>6. f \in [1 .. Cardinality(S) -> S]
    BY <2>1 DEF Orderings
  <2>7. \A i \in 1 .. Cardinality(S) :
          f[i] \in DOMAIN Named(w) /\ Named(w)[f[i]] \in SKU
    BY <2>2, <2>6 DEF Existing
  <2>8. DOMAIN names = 1 .. Cardinality(S)
    BY <2>1, <2>6
  <2>9. names \in Seq(SKU)
    BY <2>1, <2>5, <2>6, <2>7
  <2>10. Named(w) = [i \in DOMAIN lines |-> lines[i].sku]
    BY <1>2 DEF Named
  <2>11. \A i \in DOMAIN names : Asks(w, names[i])
    BY <2>1, <2>6, <2>7, <2>8, <2>10 DEF Asks
  <2> QED
    BY <1>2, <2>9, <2>11
<1>3. CASE Op(w) \notin {"replenish", "reserve"}
  <2>1. PICK S \in Taken(w) : names \in Orderings(S)
    BY <1>3 DEF Names
  <2>2. Found(w) \subseteq SKU
    BY DEF Found
  <2>3. S \subseteq SKU
    BY <2>1, <2>2 DEF Taken
  <2>4. Cardinality(S) \in Nat
    BY <2>3, SKUAssumption, FS_Subset, FS_CardinalityType
  <2>5. names \in [1 .. Cardinality(S) -> SKU]
    BY <2>1, <2>3 DEF Orderings
  <2> QED
    BY <1>3, <2>4, <2>5
<1> QED
  BY <1>1, <1>2, <1>3

-----------------------------------------------------------------------------
(* The steps.  A request's step changes nothing of another request's.      *)
LEMMA InitInv == Init => Inv
<1> SUFFICES ASSUME Init
             PROVE  Inv
  OBVIOUS
<1>1. ASSUME NEW s \in SKU
      PROVE  OpeningRows[s] \in Row /\ Good(s, OpeningRows[s].item, Opening)
  <2> DEFINE it == ReplenishItem(NewStockItem, Opening[s])
  <2>1. NewStockItem \in Item /\ Opening[s] \in Nat
    BY OpeningAssumption DEF NewStockItem, Item, Reservation, NoReservation
  <2>2. /\ it \in Item /\ it.available = NewStockItem.available + Opening[s]
        /\ Reserved(it) = Reserved(NewStockItem)
    BY <2>1, ReplenishMoves
  <2>3. it.available = Opening[s]
    BY <2>1, <2>2 DEF NewStockItem
  <2>4. EmptySlots(it)
    BY <2>1 DEF EmptySlots, ReplenishItem, NewStockItem, NoReservation
  <2>5. Reserved(NewStockItem) = 0
    <3>1. UnitsOf(NewStockItem, Ref) = {}
      BY DEF UnitsOf, NewStockItem, NoReservation
    <3> QED
      BY <3>1, FS_EmptySet DEF Reserved
  <2>6. it.available + Reserved(it) \in Opening[s] .. Opening[s]
    BY <2>1, <2>2, <2>3, <2>5
  <2>7. OpeningRows[s] = [version |-> IF Opening[s] = 0 THEN 0 ELSE 1, item |-> it]
    BY DEF OpeningRows
  <2> QED
    BY <2>2, <2>4, <2>6, <2>7 DEF Row, Good
<1>2. TypeOK
  <2>1. rows \in [SKU -> Row]
    BY <1>1 DEF Init, OpeningRows
  <2>2. now \in 0 .. MaxTime /\ supplied \in [SKU -> Nat]
    BY TimeAssumption, OpeningAssumption DEF Init
  <2> QED
    BY <2>1, <2>2, NumberAssumption DEF Init, TypeOK
<1>3. \A s \in SKU : /\ Good(s, rows[s].item, supplied)
                     /\ Closed(s) => supplied[s] = Opening[s]
  BY <1>1 DEF Init
<1>4. \A w \in Request : /\ GoodCopies(copies[w], supplied)
                         /\ GoodCopies(staged[w], Added(w, supplied))
                         /\ AskedFor(w, copies[w])
                         /\ pc[w] = "idle" => attempt[w] = 0
  BY DEF Init, GoodCopies, AskedFor
<1> QED
  BY <1>2, <1>3, <1>4 DEF Inv

(* What a request that begins an attempt or ends leaves.                   *)
LEMMA ClearInv ==
  ASSUME Inv, NEW w \in Request, copies' = [copies EXCEPT ![w] = <<>>],
         NEW c \in {"load", "ok", "failed"}, pc' = [pc EXCEPT ![w] = c],
         \/ attempt' = attempt
         \/ attempt[w] < MaxAttempts /\ attempt' = [attempt EXCEPT ![w] = @ + 1],
         clock' = clock \/ clock' = [clock EXCEPT ![w] = now],
         UNCHANGED <<rows, now, supplied, staged>>
  PROVE  Inv'
<1>1. TypeOK
  BY DEF Inv
<1>2. attempt' \in [Request -> 0 .. MaxAttempts]
  <2>1. attempt \in [Request -> 0 .. MaxAttempts] /\ MaxAttempts \in Nat
    BY <1>1, NumberAssumption DEF TypeOK
  <2>2. attempt[w] < MaxAttempts => attempt[w] + 1 \in 0 .. MaxAttempts
    BY <2>1
  <2> QED
    BY <2>1, <2>2
<1>3. clock' \in [Request -> 0 .. now]
  BY <1>1, TimeAssumption DEF TypeOK
<1>4. copies' \in [Request -> Seq(Copy)]
  <2>1. \A q \in Seq(Copy) :
          [copies EXCEPT ![w] = q] \in [Request -> Seq(Copy)]
    BY <1>1 DEF TypeOK
  <2>2. <<>> \in Seq(Copy)
    OBVIOUS
  <2> QED
    BY <2>1, <2>2
<1>5. pc' \in [Request -> {"idle", "load", "apply", "commit", "ok", "failed"}]
  BY <1>1 DEF TypeOK
<1>6. TypeOK'
  BY <1>1, <1>2, <1>3, <1>4, <1>5 DEF TypeOK
<1>7. ASSUME NEW v \in Request
      PROVE  /\ GoodCopies(copies'[v], supplied')
             /\ GoodCopies(staged'[v], Added(v, supplied'))
             /\ AskedFor(v, copies'[v])
  <2>1. copies'[v] = IF v = w THEN <<>> ELSE copies[v]
    BY <1>1 DEF TypeOK
  <2>2. (\A m : GoodCopies(<<>>, m)) /\ AskedFor(v, <<>>)
    BY DEF GoodCopies, AskedFor
  <2> QED
    BY <2>1, <2>2 DEF Inv
<1>8. \A s \in SKU : /\ Good(s, rows'[s].item, supplied')
                     /\ Closed(s) => supplied'[s] = Opening[s]
  BY DEF Inv
<1>9. \A v \in Request : /\ GoodCopies(copies[v], supplied)'
                         /\ GoodCopies(staged[v], Added(v, supplied))'
                         /\ AskedFor(v, copies[v])'
  BY <1>7 DEF GoodCopies, AskedFor
<1>10. ASSUME NEW v \in Request, pc'[v] = "idle"
       PROVE  attempt'[v] = 0
  <2>1. v # w
    BY <1>1, <1>10 DEF TypeOK
  <2>2. pc[v] = "idle" /\ attempt'[v] = attempt[v]
    BY <1>1, <1>10, <2>1 DEF TypeOK
  <2> QED
    BY <2>2 DEF Inv
<1> QED
  BY <1>6, <1>8, <1>9, <1>10 DEF Inv

LEMMA LoadInv ==
  ASSUME Inv, NEW w \in Request, Load(w)
  PROVE  Inv'
<1>1. PICK names \in Names(w) :
        copies' = [copies EXCEPT ![w] =
                     [i \in DOMAIN names |-> CopyFrom(names[i])]]
  BY DEF Load
<1> DEFINE q == [i \in DOMAIN names |-> CopyFrom(names[i])]
<1>2. /\ names \in Seq(SKU)
      /\ Op(w) = "reserve" => \A i \in DOMAIN names : Asks(w, names[i])
      /\ Op(w) = "replenish" => \A i \in DOMAIN names : names[i] = Cmd[w].sku
  BY NamesType
<1>3. /\ TypeOK /\ pc' = [pc EXCEPT ![w] = "apply"]
      /\ clock' = clock \/ clock' = [clock EXCEPT ![w] = now]
      /\ UNCHANGED <<rows, now, supplied, attempt, staged>>
  BY DEF Load, Inv
<1>4. ASSUME NEW s \in SKU
      PROVE  /\ CopyFrom(s) \in Copy /\ CopyFrom(s).sku = s
             /\ Good(s, CopyFrom(s).item, supplied)
  <2>1. rows[s] \in Row
    BY <1>3 DEF TypeOK
  <2> QED
    BY <2>1 DEF CopyFrom, Copy, Row, Inv
<1>5. /\ DOMAIN names = 1 .. Len(names) /\ Len(names) \in Nat
      /\ \A i \in DOMAIN names : names[i] \in SKU
  BY <1>2
<1>6. q \in Seq(Copy)
  <2>1. q \in [1 .. Len(names) -> Copy]
    BY <1>4, <1>5
  <2> QED
    BY <1>5, <2>1, IsASeq
<1>7. GoodCopies(q, supplied) /\ AskedFor(w, q)
  BY <1>2, <1>4, <1>5 DEF GoodCopies, AskedFor
<1> HIDE DEF q
<1>8. TypeOK'
  <2>1. copies' \in [Request -> Seq(Copy)]
    BY <1>1, <1>3, <1>6 DEF TypeOK, q
  <2>2. clock' \in [Request -> 0 .. now]
    BY <1>3, TimeAssumption DEF TypeOK
  <2>3. pc' \in [Request -> {"idle", "load", "apply", "commit", "ok", "failed"}]
    BY <1>3 DEF TypeOK
  <2> QED
    BY <1>3, <2>1, <2>2, <2>3 DEF TypeOK
<1>9. ASSUME NEW v \in Request
      PROVE  /\ GoodCopies(copies'[v], supplied')
             /\ GoodCopies(staged'[v], Added(v, supplied'))
             /\ AskedFor(v, copies'[v])
  <2>1. copies'[v] = IF v = w THEN q ELSE copies[v]
    BY <1>1, <1>3 DEF TypeOK, q
  <2> QED
    BY <1>3, <1>7, <2>1 DEF Inv
<1>10. \A v \in Request : /\ GoodCopies(copies[v], supplied)'
                          /\ GoodCopies(staged[v], Added(v, supplied))'
                          /\ AskedFor(v, copies[v])'
  BY <1>9 DEF GoodCopies, AskedFor
<1> QED
  BY <1>3, <1>8, <1>10 DEF Inv

LEMMA SaveInv ==
  ASSUME Inv, NEW w \in Request, Save(w)
  PROVE  Inv'
<1>1. PICK e \in Expiries(w, clock[w], now) :
        staged' = [staged EXCEPT ![w] =
          [i \in DOMAIN Result(w, copies[w], clock[w], e) |->
             [Result(w, copies[w], clock[w], e)[i]
                EXCEPT !.version = @ + 1]]]
  BY DEF Save
<1> DEFINE q == copies[w]
           res == Result(w, q, clock[w], e)
           new == [i \in DOMAIN res |-> [res[i] EXCEPT !.version = @ + 1]]
<1>2. /\ TypeOK /\ pc' = [pc EXCEPT ![w] = "commit"]
      /\ UNCHANGED <<rows, now, supplied, attempt, clock, copies>>
      /\ CanApply(w, q)
  BY DEF Save, Inv
<1>3. /\ q \in Seq(Copy) /\ GoodCopies(q, supplied) /\ AskedFor(w, q)
      /\ clock[w] \in Nat /\ now \in Nat /\ supplied \in [SKU -> Nat]
  BY <1>2, TimeAssumption DEF Inv, TypeOK
<1>4. \A s \in SKU : e[s] \in Nat
  <2>1. CASE Op(w) = "reserve"
    <3>1. e \in [SKU -> {t + TTL : t \in clock[w] .. now}]
      BY <1>1, <2>1 DEF Expiries
    <3>2. \A t \in clock[w] .. now : t + TTL \in Nat
      BY <1>3, NumberAssumption
    <3> QED
      BY <3>1, <3>2
  <2>2. CASE Op(w) # "reserve"
    BY <1>1, <2>2 DEF Expiries, NoExpiry
  <2> QED
    BY <2>1, <2>2
<1>5. ASSUME NEW i \in DOMAIN q
      PROVE  /\ DOMAIN res = DOMAIN q
             /\ res[i] = [sku |-> q[i].sku, version |-> q[i].version,
                          item |-> res[i].item]
             /\ Good(q[i].sku, res[i].item, Added(w, supplied))
  BY <1>2, <1>3, <1>4, ResultIsGood
<1>6. DOMAIN res = DOMAIN q
  <2>1. CASE DOMAIN q = {}
    BY <2>1 DEF Result, Allocate
  <2>2. CASE DOMAIN q # {}
    BY <1>5, <2>2
  <2> QED
    BY <2>1, <2>2
<1>7. staged' = [staged EXCEPT ![w] = new]
  BY <1>1
<1>8. ASSUME NEW i \in DOMAIN q
      PROVE  new[i] \in Copy /\ Good(new[i].sku, new[i].item, Added(w, supplied))
  <2> DEFINE jt == res[i].item
  <2>1. /\ res[i] = [sku |-> q[i].sku, version |-> q[i].version, item |-> jt]
        /\ Good(q[i].sku, jt, Added(w, supplied))
    BY <1>5
  <2>2. new[i] = [res[i] EXCEPT !.version = @ + 1]
    BY <1>6
  <2> HIDE DEF res, jt, new
  <2>3. new[i] = [sku |-> q[i].sku, version |-> q[i].version + 1, item |-> jt]
    BY <2>1, <2>2
  <2>4. q[i] \in Copy
    BY <1>3
  <2>5. q[i].sku \in SKU /\ q[i].version \in Nat /\ jt \in Item
    BY <2>1, <2>4 DEF Copy, Good
  <2> QED
    BY <2>1, <2>3, <2>5 DEF Copy
<1>9. DOMAIN new = 1 .. Len(q) /\ Len(q) \in Nat /\ DOMAIN q = 1 .. Len(q)
  BY <1>3, <1>6
<1> HIDE DEF res, new
<1>10. new \in Seq(Copy)
  <2>1. new \in [1 .. Len(q) -> Copy]
    <3>1. new = [i \in DOMAIN new |-> new[i]]
      BY DEF new
    <3> QED
      BY <1>8, <1>9, <3>1
  <2> QED
    BY <1>9, <2>1, IsASeq
<1>11. GoodCopies(new, Added(w, supplied))
  BY <1>8, <1>9 DEF GoodCopies
<1>12. TypeOK'
  <2>1. staged' \in [Request -> Seq(Copy)]
    BY <1>2, <1>7, <1>10 DEF TypeOK
  <2>2. pc' \in [Request -> {"idle", "load", "apply", "commit", "ok", "failed"}]
    BY <1>2 DEF TypeOK
  <2> QED
    BY <1>2, <2>1, <2>2 DEF TypeOK
<1>13. ASSUME NEW v \in Request
       PROVE  /\ GoodCopies(copies'[v], supplied')
              /\ GoodCopies(staged'[v], Added(v, supplied'))
              /\ AskedFor(v, copies'[v])
  <2>1. staged'[v] = IF v = w THEN new ELSE staged[v]
    BY <1>2, <1>7 DEF TypeOK
  <2> QED
    BY <1>2, <1>11, <2>1 DEF Inv
<1>14. \A v \in Request : /\ GoodCopies(copies[v], supplied)'
                          /\ GoodCopies(staged[v], Added(v, supplied))'
                          /\ AskedFor(v, copies[v])'
  BY <1>13 DEF GoodCopies, AskedFor
<1> QED
  BY <1>2, <1>12, <1>14 DEF Inv

LEMMA CommitInv ==
  ASSUME Inv, NEW w \in Request, Commit(w)
  PROVE  Inv'
<1> DEFINE q == staged[w]
           Saved(s) == \E i \in DOMAIN q : q[i].sku = s
           last(s) == q[CopyOf(q, s)]
<1>1. /\ TypeOK /\ pc' = [pc EXCEPT ![w] = "ok"]
      /\ copies' = [copies EXCEPT ![w] = <<>>]
      /\ staged' = [staged EXCEPT ![w] = <<>>]
      /\ supplied' = Added(w, supplied)
      /\ UNCHANGED <<now, clock, attempt>>
  BY DEF Commit, End, Inv
<1>2. rows' = [s \in SKU |->
        IF Saved(s) THEN [version |-> last(s).version, item |-> last(s).item]
                    ELSE rows[s]]
  BY DEF Commit
<1>3. /\ q \in Seq(Copy) /\ GoodCopies(q, supplied') /\ rows \in [SKU -> Row]
      /\ supplied \in [SKU -> Nat]
  BY <1>1 DEF Inv, TypeOK
<1>3a. /\ supplied' \in [SKU -> Nat]
      /\ \A s \in SKU : /\ supplied[s] <= supplied'[s]
                        /\ Closed(s) => supplied'[s] = supplied[s]
  BY <1>1, <1>3, SuppliesAdd
<1>4. ASSUME NEW s \in SKU, Saved(s)
      PROVE  /\ last(s).version \in Nat /\ last(s).item \in Item
             /\ Good(s, last(s).item, supplied')
  <2>1. CopyOf(q, s) \in DOMAIN q /\ last(s).sku = s
    BY <1>3, <1>4, CopyOfIs
  <2>2. last(s) \in Copy
    BY <1>3, <2>1
  <2>3. Good(s, last(s).item, supplied')
    BY <1>3, <2>1 DEF GoodCopies
  <2> QED
    BY <2>2, <2>3 DEF Copy
<1>5. ASSUME NEW s \in SKU
      PROVE  /\ rows'[s] \in Row /\ Good(s, rows'[s].item, supplied')
             /\ Closed(s) => supplied'[s] = Opening[s]
  <2>0. Closed(s) => supplied'[s] = Opening[s]
    BY <1>3a DEF Inv
  <2>1. CASE Saved(s)
    <3>1. rows'[s] = [version |-> last(s).version, item |-> last(s).item]
      BY <1>2, <2>1
    <3> QED
      BY <1>4, <2>0, <2>1, <3>1 DEF Row
  <2>2. CASE ~ Saved(s)
    <3>1. rows'[s] = rows[s]
      BY <1>2, <2>2
    <3>2. Good(s, rows[s].item, supplied')
      BY <1>3, <1>3a, StaysGood DEF Inv
    <3> QED
      BY <1>3, <2>0, <3>1, <3>2
  <2> QED
    BY <2>1, <2>2
<1>6. rows' \in [SKU -> Row]
  BY <1>2, <1>5
<1> HIDE DEF q, Saved, last
<1>8. /\ copies' \in [Request -> Seq(Copy)] /\ staged' \in [Request -> Seq(Copy)]
  <2>1. \A p \in Seq(Copy) :
          /\ [copies EXCEPT ![w] = p] \in [Request -> Seq(Copy)]
          /\ [staged EXCEPT ![w] = p] \in [Request -> Seq(Copy)]
    BY <1>1 DEF TypeOK
  <2>2. <<>> \in Seq(Copy)
    OBVIOUS
  <2> QED
    BY <1>1, <2>1, <2>2
<1>9. pc' \in [Request -> {"idle", "load", "apply", "commit", "ok", "failed"}]
  BY <1>1 DEF TypeOK
<1>10. TypeOK'
  BY <1>1, <1>6, <1>3a, <1>8, <1>9 DEF TypeOK
<1>11. ASSUME NEW v \in Request
       PROVE  /\ GoodCopies(copies'[v], supplied')
              /\ GoodCopies(staged'[v], Added(v, supplied'))
              /\ AskedFor(v, copies'[v])
  <2>1. /\ copies'[v] = IF v = w THEN <<>> ELSE copies[v]
        /\ staged'[v] = IF v = w THEN <<>> ELSE staged[v]
    BY <1>1 DEF TypeOK
  <2>2. (\A m : GoodCopies(<<>>, m)) /\ AskedFor(v, <<>>)
    BY DEF GoodCopies, AskedFor
  <2>3. copies[v] \in Seq(Copy) /\ staged[v] \in Seq(Copy)
    BY <1>1 DEF TypeOK
  <2>4. GoodCopies(copies[v], supplied')
    BY <1>3, <1>3a, <2>3, StaysGood DEF Inv
  <2>5. GoodCopies(staged[v], Added(v, supplied'))
    <3>1. /\ Added(v, supplied) \in [SKU -> Nat]
          /\ Added(v, supplied') \in [SKU -> Nat]
      BY <1>3, <1>3a, SuppliesAdd
    <3>2. \A s \in SKU : Added(v, supplied)[s] <= Added(v, supplied')[s]
      BY <1>3, <1>3a, SuppliesGrow
    <3> QED
      BY <2>3, <3>1, <3>2, StaysGood DEF Inv
  <2> QED
    BY <2>1, <2>2, <2>4, <2>5 DEF Inv
<1>12. \A v \in Request : /\ GoodCopies(copies[v], supplied)'
                          /\ GoodCopies(staged[v], Added(v, supplied))'
                          /\ AskedFor(v, copies[v])'
  BY <1>11 DEF GoodCopies, AskedFor
<1>13. ASSUME NEW v \in Request, pc'[v] = "idle"
       PROVE  attempt'[v] = 0
  <2>1. v # w
    BY <1>1, <1>13 DEF TypeOK
  <2>2. pc[v] = "idle" /\ attempt'[v] = attempt[v]
    BY <1>1, <1>13, <2>1 DEF TypeOK
  <2> QED
    BY <2>2 DEF Inv
<1> QED
  BY <1>5, <1>10, <1>12, <1>13 DEF Inv

LEMMA TickInv ==
  ASSUME Inv, Tick
  PROVE  Inv'
<1>1. /\ TypeOK /\ now' = now + 1 /\ now < MaxTime
      /\ UNCHANGED <<rows, supplied, pc, attempt, clock, copies, staged>>
  BY DEF Inv, Tick
<1>2. now' \in 0 .. MaxTime /\ clock' \in [Request -> 0 .. now']
  BY <1>1, TimeAssumption DEF TypeOK
<1>3. TypeOK'
  BY <1>1, <1>2 DEF TypeOK
<1>4. \A v \in Request : /\ GoodCopies(copies[v], supplied)'
                         /\ GoodCopies(staged[v], Added(v, supplied))'
                         /\ AskedFor(v, copies[v])'
  BY <1>1 DEF Inv, GoodCopies, AskedFor
<1> QED
  BY <1>1, <1>3, <1>4 DEF Inv

LEMMA NextInv == Inv /\ [Next]_vars => Inv'
<1> SUFFICES ASSUME Inv, [Next]_vars
             PROVE  Inv'
  OBVIOUS
<1>1. CASE UNCHANGED vars
  BY <1>1 DEF vars, Inv, TypeOK, GoodCopies, AskedFor
<1>2. CASE Tick
  BY <1>2, TickInv
<1>3. ASSUME NEW w \in Request,
             Begin(w) \/ Fail(w) \/ Conflict(w) \/ Cancel(w)
      PROVE  Inv'
  <2>1. CASE Begin(w)
    <3>1. attempt[w] < MaxAttempts
      BY <2>1, NumberAssumption DEF Begin, Inv
    <3> QED
      BY <2>1, <3>1, ClearInv DEF Begin, StartAttempt
  <2>2. CASE Fail(w) \/ Cancel(w)
    BY <2>2, ClearInv DEF Fail, Cancel, End
  <2>3. CASE Conflict(w)
    BY <2>3, ClearInv DEF Conflict, StartAttempt, End
  <2> QED
    BY <1>3, <2>1, <2>2, <2>3
<1> QED
  BY <1>1, <1>2, <1>3, LoadInv, SaveInv, CommitInv DEF Next

-----------------------------------------------------------------------------
(* Whatever requests over whatever orders do, rows and copies are good.    *)
THEOREM InvHolds == Spec => []Inv
<1>1. Init => Inv
  BY InitInv
<1>2. Inv /\ [Next]_vars => Inv'
  BY NextInv
<1> QED
  BY <1>1, <1>2, PTL DEF Spec

(* The types of the state, however the transactions interleave.            *)
THEOREM TypeCorrect == Spec => []TypeOK
<1>1. Inv => TypeOK
  BY DEF Inv
<1> QED
  BY <1>1, InvHolds, PTL

(* Whatever overwrites what, the units of a committed row are never fewer  *)
(* than those its SKU started with, nor more than it was ever supplied     *)
(* with: the store applies a whole group of rows or none of it, and only a *)
(* replenishment changes what an item adds up to.  One that is overwritten *)
(* loses its own units and no others.                                      *)
THEOREM RowsKeepUnits == Spec => []RowsAddUp
<1>1. Inv => RowsAddUp
  BY DEF Inv, Good, RowsAddUp
<1> QED
  BY <1>1, InvHolds, PTL

(* So, lost updates included, the quantities of a committed row add up to  *)
(* exactly what the SKU started with as long as nobody replenishes it.     *)
UnitsKept ==
  \A s \in SKU : Closed(s) =>
    rows[s].item.available + Reserved(rows[s].item) = Opening[s]

THEOREM ClosedRowsAddUp == Spec => []UnitsKept
<1>1. Inv => UnitsKept
  <2> SUFFICES ASSUME Inv, NEW s \in SKU, Closed(s)
               PROVE  rows[s].item.available + Reserved(rows[s].item) = Opening[s]
    BY DEF UnitsKept
  <2>1. Opening[s] \in Nat /\ supplied[s] = Opening[s]
    BY OpeningAssumption DEF Inv
  <2> QED
    BY <2>1 DEF Inv, Good
<1> QED
  BY <1>1, InvHolds, PTL
=============================================================================
