------------------------------ MODULE UseCases ------------------------------
(***************************************************************************)
(* What the use cases of the two contexts answer to the calls of their     *)
(* HTTP adapters: the checks of the inputs, in the order the code makes    *)
(* them, and any of the results and errors that the state of the stores    *)
(* may give.  An input is named by its path in the use case's input.       *)
(***************************************************************************)
EXTENDS Http

(* strings.TrimSpace on the texts in use.                                  *)
Trim(t) == CASE t = " " -> "" [] t = " a" -> "a" [] OTHER -> t

Blank(t) == Trim(t) = ""

Violation(sentinel, path, code) == AppError({sentinel}, path, code)

LinePath(i, names) == <<"Lines", IndexName[i]>> \o names

(* Checks are pairs of a condition and the error it gives, in their order. *)
Failed(checks) == {i \in DOMAIN checks : checks[i][1]}

Refusal(checks) == checks[First(Failed(checks))][2]

FirstOf(checks, rest) == IF Failed(checks) = {} THEN rest ELSE {Refusal(checks)}

(* The lines are checked one after another.                                *)
WrongLines(ChecksOf(_, _), lines) ==
  {i \in DOMAIN lines : Failed(ChecksOf(i, lines[i])) # {}}

LineRefusal(ChecksOf(_, _), lines) ==
  LET i == First(WrongLines(ChecksOf, lines)) IN Refusal(ChecksOf(i, lines[i]))

Unexpected == Fails("Internal")
Conflict == Fails("ConcurrencyConflict")

-----------------------------------------------------------------------------
(* The inventory context.                                                  *)
StockSku(sku) == <<Blank(sku), Violation("InvalidSKU", <<"Sku">>, "invalid_sku")>>

StockRef(ref) ==
  <<Blank(ref),
    Violation("InvalidReservationRef", <<"Ref">>, "invalid_reservation_ref")>>

(* The domain lets a quantity of 0 pass; the item refuses it later, with   *)
(* the same error.                                                         *)
StockLine(i, l) ==
  <<<<Blank(l.sku), Violation("InvalidSKU", LinePath(i, <<"Sku">>), "invalid_sku")>>,
    <<l.qty < 0, Violation("InvalidQuantity", LinePath(i, <<"Quantity">>),
                           "invalid_quantity")>>>>

EmptyLine(i, l) ==
  <<<<l.qty < 1,
      Violation("InvalidQuantity", LinePath(i, <<"Quantity">>), "invalid_quantity")>>>>

StockViewOf(sku) ==
  Val([sku |-> Trim(sku), available |-> 1, reserved |-> 0, version |-> 2])

(* The item finds a line empty when it comes to it, after lines that it may*)
(* be short of.                                                            *)
Allocated(lines) ==
  LET empty == WrongLines(EmptyLine, lines)
  IN  {Fails("InsufficientStock") :
         i \in {j \in DOMAIN lines : \A k \in empty : j < k}} \cup
      {Fails("StockItemNotFound") : i \in DOMAIN lines} \cup
      (IF empty = {} THEN {Val("reserved"), Conflict}
                     ELSE {LineRefusal(EmptyLine, lines)})

ReserveCase(in) ==
  FirstOf(<<StockRef(in.ref)>>,
    IF WrongLines(StockLine, in.lines) = {} THEN {Unexpected} \cup Allocated(in.lines)
    ELSE {LineRefusal(StockLine, in.lines)})

ConfirmCase(ref) ==
  FirstOf(<<StockRef(ref)>>,
          {Val("confirmed"), Fails("ReservationNotFound"), Conflict, Unexpected})

ReleaseCase(ref) ==
  FirstOf(<<StockRef(ref)>>, {Val("released"), Conflict, Unexpected})

WrongQuantity == Violation("InvalidQuantity", <<"Quantity">>, "invalid_quantity")

(* The item refuses to be replenished with nothing, once it is loaded.     *)
ReplenishCase(in) ==
  FirstOf(<<StockSku(in.sku), <<in.qty < 0, WrongQuantity>>>>,
          IF in.qty = 0 THEN {WrongQuantity, Unexpected}
          ELSE {StockViewOf(in.sku), Conflict, Unexpected})

QueryStockCase(sku) ==
  FirstOf(<<StockSku(sku)>>,
          {StockViewOf(sku), Fails("StockItemNotFound"), Unexpected})

(* The payload of a message is the text of its reservation, or unreadable. *)
(* A confirmation that finds no reservation is taken as delivered.         *)
OnConfirmReservation(ref) ==
  {IF Is("val", o) \/ o = Fails("ReservationNotFound") THEN Val("delivered") ELSE o :
     o \in ConfirmCase(ref)}

OnOrderCancelled(ref) ==
  {IF Is("val", o) THEN Val("delivered") ELSE o : o \in ReleaseCase(ref)}

DeliverCase(m) ==
  CASE m.type \notin {"confirm", "cancelled"} -> {Fails("NoRoute")}
    [] m.type \in {"confirm", "cancelled"} /\ m.payload \in {"", "unreadable"} ->
         {Unexpected}
    [] m.type = "confirm" /\ m.payload \notin {"", "unreadable"} ->
         OnConfirmReservation(m.payload)
    [] m.type = "cancelled" /\ m.payload \notin {"", "unreadable"} ->
         OnOrderCancelled(m.payload)

-----------------------------------------------------------------------------
(* The ordering context.                                                   *)
OrderIdCheck(id) ==
  <<Blank(id), Violation("InvalidOrderID", <<"OrderId">>, "invalid_order_id")>>

ShipmentIdCheck(id) ==
  <<Blank(id),
    Violation("InvalidShipmentID", <<"ShipmentId">>, "invalid_shipment_id")>>

ToOrderLine(i, l) ==
  <<<<Blank(l.sku), Violation("InvalidSKU", LinePath(i, <<"Sku">>), "invalid_sku")>>,
    <<l.qty < 1, Violation("InvalidQuantity", LinePath(i, <<"Quantity">>),
                           "invalid_quantity")>>,
    <<l.amount < 0, Violation("InvalidMoney", LinePath(i, <<"UnitPrice", "Amount">>),
                              "invalid_money_amount")>>,
    <<Blank(l.currency),
      Violation("InvalidMoney", LinePath(i, <<"UnitPrice", "Currency">>),
                "invalid_money_currency")>>>>

(* Checks of PlaceOrder before it calls the inventory: the error, or the   *)
(* lines to reserve.                                                       *)
Currencies(lines) == {Trim(lines[i].currency) : i \in DOMAIN lines}

ReserveLines(lines) ==
  [i \in DOMAIN lines |-> [sku |-> Trim(lines[i].sku), qty |-> lines[i].qty]]

PlaceOrderCase(in) ==
  IF Blank(in.customer)
  THEN Violation("InvalidCustomerID", <<"CustomerId">>, "invalid_customer_id")
  ELSE IF WrongLines(ToOrderLine, in.lines) # {}
  THEN LineRefusal(ToOrderLine, in.lines)
  ELSE IF in.lines = <<>> THEN Violation("EmptyOrder", <<"Lines">>, "empty_order")
  ELSE IF Cardinality(Currencies(in.lines)) > 1 THEN Fails("InvalidMoney")
  ELSE Val(ReserveLines(in.lines))

Total(lines) == Seqs!FoldLeft(LAMBDA t, l : t + l.amount * l.qty, 0, lines)

OrderOf(id, in, status, version) ==
  [id |-> id, customer |-> Trim(in.customer), status |-> status,
   version |-> version, ref |-> id, total |-> Total(in.lines),
   currency |-> Trim(in.lines[1].currency),
   lines |-> [i \in DOMAIN in.lines |->
     [sku |-> Trim(in.lines[i].sku), qty |-> in.lines[i].qty,
      amount |-> in.lines[i].amount, currency |-> Trim(in.lines[i].currency)]]]

(* Some order and some shipment that were stored before.                   *)
Known(id, status, version) ==
  OrderOf(Trim(id),
          [customer |-> "c", lines |-> <<[sku |-> "a", qty |-> 2, amount |-> 3,
                                          currency |-> "JPY"]>>],
          status, version)

ShipmentOf(id, order, status, tracking, version) ==
  Val([id |-> id, order |-> order, status |-> status, tracking |-> tracking,
       version |-> version])

GetOrderCase(id) ==
  FirstOf(<<OrderIdCheck(id)>>,
          {Val(Known(id, "confirmed", 1)), Fails("OrderNotFound"),
           Fails("InvalidMoney"), Unexpected})

(* A handler that changes something answers with what it reads afterwards. *)
CancelOrderCase(id) ==
  FirstOf(<<OrderIdCheck(id)>>,
          {Val(Known(id, "cancelled", 2)), Fails("OrderNotFound"),
           Fails("OrderNotConfirmed"), Fails("InvalidMoney"), Conflict, Unexpected})

PrepareShipmentCase(id) ==
  FirstOf(<<OrderIdCheck(id)>>,
          {ShipmentOf("s", Trim(id), "preparing", "", 1), Fails("OrderNotFound"),
           Fails("OrderNotConfirmedForShipment"), Fails("InvalidMoney"), Unexpected})

GetShipmentCase(id) ==
  FirstOf(<<ShipmentIdCheck(id)>>,
          {ShipmentOf(Trim(id), "o", "preparing", "", 1),
           Fails("ShipmentNotFound"), Unexpected})

MarkShippedCase(in) ==
  FirstOf(<<ShipmentIdCheck(in.id),
            <<Blank(in.tracking),
              Violation("InvalidTrackingNumber", <<"TrackingNumber">>,
                        "invalid_tracking_number")>>>>,
          {ShipmentOf(Trim(in.id), "o", "shipped", Trim(in.tracking), 2),
           Fails("ShipmentNotFound"), Fails("ShipmentNotPreparing"), Conflict,
           Unexpected})

-----------------------------------------------------------------------------
(* The outcomes of a call; PlaceOrder, which calls the inventory, aside.   *)
Outcomes(c) ==
  CASE c.op = "reserve" -> ReserveCase(c.arg)
    [] c.op = "confirm" -> ConfirmCase(c.arg)
    [] c.op = "release" -> ReleaseCase(c.arg)
    [] c.op = "ingest" -> DeliverCase(c.arg)
    [] c.op = "replenish" -> ReplenishCase(c.arg)
    [] c.op = "getStock" -> QueryStockCase(c.arg)
    [] c.op = "getOrder" -> GetOrderCase(c.arg)
    [] c.op = "cancelOrder" -> CancelOrderCase(c.arg)
    [] c.op = "prepareShipment" -> PrepareShipmentCase(c.arg)
    [] c.op = "getShipment" -> GetShipmentCase(c.arg)
    [] c.op = "markShipped" -> MarkShippedCase(c.arg)
    [] OTHER -> {Unexpected}
=============================================================================
