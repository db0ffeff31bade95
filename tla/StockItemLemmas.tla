-------------------------- MODULE StockItemLemmas --------------------------
(* Lemmas about the operations of StockItem: the items they return and the *)
(* units they move between available and reserved.                         *)
EXTENDS StockItem, FiniteSetTheorems, WellFoundedInduction, TLAPS

(* An item no operation of the code can leave behind has a quantity in an  *)
(* empty slot; Reserve overwrites the slot and would lose those units.     *)
EmptySlots(it) ==
  \A r \in Ref : it.resv[r].status = "none" => it.resv[r].qty = 0

(* One reservation accounts for its quantity in units.                     *)
LEMMA UnitsOfOne ==
  ASSUME NEW r, NEW q \in Nat
  PROVE  /\ IsFiniteSet({r} \X (1 .. q))
         /\ Cardinality({r} \X (1 .. q)) = q
<1>1. IsFiniteSet({r}) /\ Cardinality({r}) = 1
  BY FS_Singleton, Zenon
<1>2. IsFiniteSet(1 .. q) /\ Cardinality(1 .. q) = q
  <2>1. 1 \in Int /\ q \in Int
    OBVIOUS
  <2>2. /\ IsFiniteSet(1 .. q)
        /\ Cardinality(1 .. q) = IF 1 > q THEN 0 ELSE q - 1 + 1
    BY <2>1, FS_Interval, Zenon
  <2> QED
    BY <2>2
<1>3. /\ IsFiniteSet({r} \X (1 .. q))
      /\ Cardinality({r} \X (1 .. q)) = Cardinality({r}) * Cardinality(1 .. q)
  BY <1>1, <1>2, FS_Product, Zenon
<1> QED
  BY <1>1, <1>2, <1>3

(* The units of finitely many reservations are finitely many.              *)
LEMMA UnitsFinite ==
  ASSUME IsFiniteSet(Ref), NEW it \in Item, NEW refs \in SUBSET Ref
  PROVE  IsFiniteSet(UnitsOf(it, refs))
<1> DEFINE units == [r \in refs |-> {r} \X (1 .. it.resv[r].qty)]
           image == {units[r] : r \in refs}
<1>1. IsFiniteSet(refs)
  BY FS_Subset
<1>2. IsFiniteSet(image)
  <2>1. units \in Surjection(refs, image)
    BY DEF Surjection
  <2> QED
    BY <1>1, <2>1, FS_Surjection
<1>3. ASSUME NEW T \in image
      PROVE  IsFiniteSet(T)
  <2>1. PICK r \in refs : T = {r} \X (1 .. it.resv[r].qty)
    OBVIOUS
  <2>2. it.resv[r].qty \in Nat
    BY DEF Item, Reservation
  <2> QED
    BY <2>1, <2>2, UnitsOfOne
<1>4. IsFiniteSet(UNION image)
  BY <1>2, <1>3, FS_UNION
<1>5. UNION image = UnitsOf(it, refs)
  BY DEF UnitsOf
<1> QED
  BY <1>4, <1>5

(* The reserved quantity is the sum over a set of references and its rest. *)
LEMMA ReservedSplit ==
  ASSUME IsFiniteSet(Ref), NEW it \in Item, NEW refs \in SUBSET Ref
  PROVE  /\ Cardinality(UnitsOf(it, refs)) \in Nat
         /\ Reserved(it) = Cardinality(UnitsOf(it, refs))
                           + Cardinality(UnitsOf(it, Ref \ refs))
<1>1. /\ IsFiniteSet(UnitsOf(it, refs))
      /\ IsFiniteSet(UnitsOf(it, Ref \ refs))
  BY UnitsFinite
<1>2. UnitsOf(it, refs) \cap UnitsOf(it, Ref \ refs) = {}
  BY DEF UnitsOf
<1>3. UnitsOf(it, refs) \cup UnitsOf(it, Ref \ refs) = UnitsOf(it, Ref)
  BY DEF UnitsOf
<1>4. Cardinality(UnitsOf(it, refs)) \in Nat
      /\ Cardinality(UnitsOf(it, Ref \ refs)) \in Nat
  BY <1>1, FS_CardinalityType
<1>5. Cardinality(UnitsOf(it, Ref)) =
        Cardinality(UnitsOf(it, refs)) + Cardinality(UnitsOf(it, Ref \ refs))
        - Cardinality({})
  BY <1>1, <1>2, <1>3, FS_Union
<1> QED
  BY <1>4, <1>5, FS_EmptySet DEF Reserved

(* It is the quantity of one reservation and the sum over the others.      *)
LEMMA ReservedSplitOne ==
  ASSUME IsFiniteSet(Ref), NEW it \in Item, NEW r \in Ref
  PROVE  /\ Cardinality(UnitsOf(it, Ref \ {r})) \in Nat
         /\ Reserved(it) =
              it.resv[r].qty + Cardinality(UnitsOf(it, Ref \ {r}))
<1>1. UnitsOf(it, {r}) = {r} \X (1 .. it.resv[r].qty)
  BY DEF UnitsOf
<1>2. Cardinality(UnitsOf(it, {r})) = it.resv[r].qty
  <2>1. it.resv[r].qty \in Nat
    BY DEF Item, Reservation
  <2> QED
    BY <1>1, <2>1, UnitsOfOne
<1>3. {r} \in SUBSET Ref /\ Ref \ {r} \in SUBSET Ref
  OBVIOUS
<1>4. Reserved(it) = Cardinality(UnitsOf(it, {r}))
                     + Cardinality(UnitsOf(it, Ref \ {r}))
  BY <1>3, ReservedSplit, Zenon
<1>5. Cardinality(UnitsOf(it, Ref \ {r})) \in Nat
  BY <1>3, ReservedSplit, Zenon
<1> QED
  BY <1>2, <1>4, <1>5

(* Items that agree on a set of references hold the same units for it.     *)
LEMMA UnitsAgree ==
  ASSUME NEW it, NEW jt, NEW refs,
         \A r \in refs : it.resv[r].qty = jt.resv[r].qty
  PROVE  UnitsOf(it, refs) = UnitsOf(jt, refs)
BY DEF UnitsOf

-----------------------------------------------------------------------------
(* What each operation returns, and the units it moves.                    *)

(* A replenished item is an item; its reservations are untouched.          *)
LEMMA ReplenishMoves ==
  ASSUME NEW it \in Item, NEW q \in Nat
  PROVE  /\ ReplenishItem(it, q) \in Item
         /\ ReplenishItem(it, q).available = it.available + q
         /\ Reserved(ReplenishItem(it, q)) = Reserved(it)
<1>1. ReplenishItem(it, q) \in Item
  BY DEF ReplenishItem, Item
<1>2. ReplenishItem(it, q).available = it.available + q
  BY DEF ReplenishItem, Item
<1>3. ReplenishItem(it, q).resv = it.resv
  BY DEF ReplenishItem, Item
<1> QED
  BY <1>1, <1>2, <1>3, UnitsAgree DEF Reserved

(* Reserve moves the requested quantity from available to reserved, or     *)
(* nothing when the reference already holds a reservation.                 *)
LEMMA ReserveMoves ==
  ASSUME IsFiniteSet(Ref), NEW it \in Item, EmptySlots(it), NEW r \in Ref,
         NEW q \in Nat, NEW exp \in Nat, CanReserve(it, r, q)
  PROVE  /\ ReserveItem(it, r, q, exp) \in Item
         /\ ReserveItem(it, r, q, exp).available
              + Reserved(ReserveItem(it, r, q, exp))
              = it.available + Reserved(it)
<1> DEFINE jt == ReserveItem(it, r, q, exp)
<1>a. it.available \in Nat /\ Cardinality(UnitsOf(it, Ref)) \in Nat
  <2>1. IsFiniteSet(UnitsOf(it, Ref))
    BY UnitsFinite
  <2> QED
    BY <2>1, FS_CardinalityType DEF Item
<1>1. CASE HasReservation(it, r)
  <2>1. jt = it
    BY <1>1 DEF ReserveItem
  <2> QED
    BY <2>1
<1>2. CASE ~ HasReservation(it, r)
  <2>1. jt = [available |-> it.available - q,
              resv |-> [it.resv EXCEPT ![r] =
                 [status |-> "pending", qty |-> q, expiresAt |-> exp]]]
    BY <1>2 DEF ReserveItem
  <2>2. it.available - q \in Nat
    BY <1>2 DEF CanReserve, Item
  <2>3. jt \in Item
    BY <2>1, <2>2 DEF Item, Reservation
  <2>4. it.resv[r].qty = 0
    BY <1>2 DEF EmptySlots, HasReservation
  <2>5. jt.resv[r].qty = q
    BY <2>1 DEF Item
  <2>6. UnitsOf(jt, Ref \ {r}) = UnitsOf(it, Ref \ {r})
    <3>1. \A u \in Ref \ {r} : jt.resv[u].qty = it.resv[u].qty
      BY <2>1 DEF Item
    <3> QED
      BY <3>1, UnitsAgree
  <2>7. /\ Reserved(jt) = q + Cardinality(UnitsOf(it, Ref \ {r}))
        /\ Reserved(it) = 0 + Cardinality(UnitsOf(it, Ref \ {r}))
        /\ Cardinality(UnitsOf(it, Ref \ {r})) \in Nat
    <3> HIDE DEF jt
    <3> QED
      BY <2>3, <2>4, <2>5, <2>6, ReservedSplitOne
  <2>8. jt.available = it.available - q
    BY <2>1
  <2> QED
    BY <1>a, <2>3, <2>7, <2>8
<1> QED
  BY <1>1, <1>2

(* Confirm moves nothing.                                                  *)
LEMMA ConfirmMoves ==
  ASSUME NEW it \in Item, NEW r \in Ref
  PROVE  /\ ConfirmItem(it, r) \in Item
         /\ ConfirmItem(it, r).available = it.available
         /\ Reserved(ConfirmItem(it, r)) = Reserved(it)
<1> DEFINE jt == ConfirmItem(it, r)
<1>1. jt \in Item /\ jt.available = it.available
  BY DEF ConfirmItem, Item, Reservation
<1>2. \A u \in Ref : jt.resv[u].qty = it.resv[u].qty
  BY DEF ConfirmItem, Item, Reservation
<1>3. UnitsOf(jt, Ref) = UnitsOf(it, Ref)
  <2> HIDE DEF jt
  <2> QED
    BY <1>2, UnitsAgree
<1> QED
  BY <1>1, <1>3 DEF Reserved

(* Release moves the quantity of the reservation back to available.        *)
LEMMA ReleaseMoves ==
  ASSUME IsFiniteSet(Ref), NEW it \in Item, NEW r \in Ref
  PROVE  /\ ReleaseItem(it, r) \in Item
         /\ ReleaseItem(it, r).available + Reserved(ReleaseItem(it, r))
              = it.available + Reserved(it)
<1> DEFINE jt == ReleaseItem(it, r)
<1>1. jt \in Item /\ jt.available = it.available + it.resv[r].qty
  BY DEF ReleaseItem, Item, Reservation, NoReservation
<1>2. jt.resv[r].qty = 0
  BY DEF ReleaseItem, Item, NoReservation
<1>3. \A u \in Ref \ {r} : jt.resv[u].qty = it.resv[u].qty
  BY DEF ReleaseItem, Item
<1>4. it.available \in Nat /\ it.resv[r].qty \in Nat
  BY DEF Item, Reservation
<1> HIDE DEF jt
<1>5. UnitsOf(jt, Ref \ {r}) = UnitsOf(it, Ref \ {r})
  BY <1>3, UnitsAgree
<1>6. /\ Reserved(jt) = 0 + Cardinality(UnitsOf(it, Ref \ {r}))
      /\ Reserved(it) =
           it.resv[r].qty + Cardinality(UnitsOf(it, Ref \ {r}))
      /\ Cardinality(UnitsOf(it, Ref \ {r})) \in Nat
  BY <1>1, <1>2, <1>5, ReservedSplitOne
<1>7. jt.available + Reserved(jt) = it.available + Reserved(it)
  BY <1>1, <1>4, <1>6
<1> QED
  BY <1>1, <1>7 DEF jt

(* The reaper moves back the units of what it reaps.                       *)
LEMMA ReapMoves ==
  ASSUME IsFiniteSet(Ref), NEW it \in Item, NEW t \in Nat
  PROVE  /\ ReapItem(it, t) \in Item
         /\ ReapItem(it, t).available + Reserved(ReapItem(it, t))
              = it.available + Reserved(it)
<1> DEFINE jt == ReapItem(it, t)
           gone == Reapable(it, t)
           back == Cardinality(UnitsOf(it, gone))
           kept == Cardinality(UnitsOf(it, Ref \ gone))
<1>1. gone \in SUBSET Ref /\ Ref \ gone \in SUBSET Ref
  BY DEF Reapable
<1>2. /\ back \in Nat /\ kept \in Nat
      /\ Reserved(it) = back + kept
  BY <1>1, ReservedSplit
<1>3. /\ jt.available = it.available + back
      /\ jt.resv = [r \in Ref |-> IF r \in gone THEN NoReservation
                                                ELSE it.resv[r]]
  BY DEF ReapItem
<1>4. jt \in Item
  <2>1. it.available \in Nat
    BY DEF Item
  <2>2. [r \in Ref |-> IF r \in gone THEN NoReservation ELSE it.resv[r]]
          \in [Ref -> Reservation]
    BY DEF Item, Reservation, NoReservation
  <2>3. it.available + back \in Nat
    BY <2>1, <1>2
  <2> QED
    BY <2>2, <2>3 DEF ReapItem, Item
<1>5. it.available \in Nat
  BY DEF Item
<1>6. UnitsOf(jt, gone) = {}
  BY <1>1, <1>3 DEF UnitsOf, NoReservation
<1>7. UnitsOf(jt, Ref \ gone) = UnitsOf(it, Ref \ gone)
  BY <1>3, UnitsAgree
<1> HIDE DEF jt, gone, back, kept
<1>8. Reserved(jt) = Cardinality(UnitsOf(jt, gone))
                     + Cardinality(UnitsOf(jt, Ref \ gone))
  BY <1>1, <1>4, ReservedSplit, Zenon
<1>9. Reserved(jt) = 0 + kept
  BY <1>6, <1>7, <1>8, FS_EmptySet DEF kept
<1>10. jt.available + Reserved(jt) = it.available + Reserved(it)
  BY <1>2, <1>3, <1>5, <1>9
<1> QED
  BY <1>4, <1>10 DEF jt

(* Only a release or a reaping takes a reservation away.                   *)
LEMMA ReserveConfirmKeep ==
  ASSUME NEW it \in Item, NEW p \in Ref, NEW q, NEW exp,
         NEW r \in Ref, HasReservation(it, r)
  PROVE  /\ HasReservation(ReserveItem(it, p, q, exp), r)
         /\ HasReservation(ConfirmItem(it, p), r)
<1>1. HasReservation(ReserveItem(it, p, q, exp), r)
  BY DEF HasReservation, ReserveItem, Item
<1>2. HasReservation(ConfirmItem(it, p), r)
  BY DEF HasReservation, ConfirmItem, Item, Reservation
<1> QED
  BY <1>1, <1>2

(* A release takes away the reservation of its own reference only.         *)
LEMMA ReleaseTakesOne ==
  ASSUME NEW it \in Item, NEW p \in Ref, NEW r \in Ref
  PROVE  HasReservation(ReleaseItem(it, p), r)
           <=> r # p /\ HasReservation(it, r)
BY DEF HasReservation, ReleaseItem, Item, NoReservation
(* A reservation within what is available leaves an item.                  *)
LEMMA ReserveIsItem ==
  ASSUME NEW it \in Item, NEW r \in Ref, NEW q \in Nat, NEW exp \in Nat,
         CanReserve(it, r, q)
  PROVE  ReserveItem(it, r, q, exp) \in Item
<1>1. CASE HasReservation(it, r)
  BY <1>1 DEF ReserveItem
<1>2. CASE ~ HasReservation(it, r)
  <2>1. it.available - q \in Nat
    BY <1>2 DEF CanReserve, Item
  <2> QED
    BY <1>2, <2>1 DEF ReserveItem, Item, Reservation
<1> QED
  BY <1>1, <1>2

-----------------------------------------------------------------------------
(* A set of positions has a first one.                                     *)
LEMMA FirstPosition ==
  ASSUME NEW P \in SUBSET Nat, P # {}
  PROVE  \E i \in P : \A j \in P : i <= j
<1> DEFINE T == {1 .. i : i \in P}
<1>1. T \subseteq FiniteSubsetsOf(Nat) /\ T # {}
  <2>1. \A i \in P : IsFiniteSet(1 .. i)
    BY FS_Interval
  <2>2. \A i \in P : 1 .. i \in SUBSET Nat
    OBVIOUS
  <2>3. \A i \in P : 1 .. i \in FiniteSubsetsOf(Nat)
    BY <2>1, <2>2, Zenon DEF FiniteSubsetsOf
  <2> QED
    BY <2>3
<1>2. \E S \in T : \A U \in T : ~ (<<U, S>> \in StrictSubsetOrdering(Nat))
  <2> HIDE DEF T
  <2> QED
    BY <1>1, FS_StrictSubsetOrderingWellFounded, WFMin
<1>3. PICK i \in P :
        \A j \in P : ~ (<<1 .. j, 1 .. i>> \in StrictSubsetOrdering(Nat))
  BY <1>2
<1>4. ASSUME NEW j \in P, j < i
      PROVE  FALSE
  <2>1. 1 .. j \subseteq 1 .. i /\ i \in 1 .. i /\ i \notin 1 .. j
    BY <1>4
  <2>2. 1 .. j \in SUBSET Nat /\ 1 .. i \in SUBSET Nat
    OBVIOUS
  <2>3. <<1 .. j, 1 .. i>> \in StrictSubsetOrdering(Nat)
    BY <2>1, <2>2 DEF StrictSubsetOrdering
  <2> QED
    BY <1>3, <2>3
<1> QED
  BY <1>4

(* The first line that names an SKU is one that does.                      *)
LEMMA FirstLineIs ==
  ASSUME NEW T, NEW lines \in Seq(T), NEW s,
         \E i \in DOMAIN lines : lines[i].sku = s
  PROVE  /\ FirstLine(lines, s) \in DOMAIN lines
         /\ lines[FirstLine(lines, s)] \in T
         /\ lines[FirstLine(lines, s)].sku = s
<1> DEFINE P == {i \in DOMAIN lines : lines[i].sku = s}
<1>1. P \in SUBSET Nat /\ P # {}
  OBVIOUS
<1>2. \E i \in P : \A j \in P : i <= j
  BY <1>1, FirstPosition
<1>3. \E i \in DOMAIN lines :
        /\ lines[i].sku = s
        /\ \A j \in DOMAIN lines : lines[j].sku = s => i <= j
  BY <1>2
<1>4. FirstLine(lines, s) \in DOMAIN lines /\ lines[FirstLine(lines, s)].sku = s
  BY <1>3 DEF FirstLine
<1> QED
  BY <1>4

(* The last copy of an SKU is a copy of it.                                *)
LEMMA CopyOfIs ==
  ASSUME NEW T, NEW items \in Seq(T), NEW s,
         \E i \in DOMAIN items : items[i].sku = s
  PROVE  /\ CopyOf(items, s) \in DOMAIN items
         /\ items[CopyOf(items, s)].sku = s
<1> DEFINE n == Len(items)
           P == {n - i : i \in {j \in DOMAIN items : items[j].sku = s}}
<1>1. P \in SUBSET Nat /\ P # {}
  OBVIOUS
<1>2. PICK k \in P : \A j \in P : k <= j
  BY <1>1, FirstPosition
<1>3. PICK i \in DOMAIN items : items[i].sku = s /\ k = n - i
  OBVIOUS
<1>4. ASSUME NEW j \in DOMAIN items, items[j].sku = s
      PROVE  j <= i
  <2>1. n - j \in P
    BY <1>4
  <2>2. n - i <= n - j /\ n \in Nat /\ i \in Nat /\ j \in Nat
    BY <1>2, <1>3, <2>1
  <2> QED
    BY <2>2
<1> QED
  BY <1>3, <1>4 DEF CopyOf
=============================================================================
