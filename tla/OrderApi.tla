------------------------------ MODULE OrderApi ------------------------------
(***************************************************************************)
(* The public API of the ordering context: orders and shipments (openapi   *)
(* and httpapi of the ordering context).  Laid out like InternalApi.       *)
(***************************************************************************)
EXTENDS Http

OptString(n) == Optional(n, String)
OptURI(n) == Optional(n, Uri)

InvalidParamCode == String

InvalidParam ==
  Object(<<Required("name", String), Required("code", InvalidParamCode),
           OptString("reason")>>)

ProblemDetails ==
  Object(<<Required("type", Uri), Required("title", String),
           Required("status", Integer), OptString("detail"),
           OptURI("instance"), Optional("invalid-params", ListOf(InvalidParam))>>)

Money == Object(<<Required("amount", Integer), Required("currency", String)>>)

PlaceOrderLine ==
  Object(<<Required("sku", String), Required("quantity", Integer),
           Required("unitPrice", Money)>>)

PlaceOrderRequest ==
  Object(<<Required("customerId", String),
           Required("lines", ListOf(PlaceOrderLine))>>)

PrepareShipmentRequest == Object(<<Required("orderId", String)>>)

MarkShippedRequest == Object(<<Required("trackingNumber", String)>>)

OrderLineView ==
  Object(<<Required("sku", String), Required("quantity", Integer),
           Required("unitPrice", Money), Required("subtotal", Money)>>)

OrderView ==
  Object(<<Required("id", String), Required("customerId", String),
           Required("status", String), Required("lines", ListOf(OrderLineView)),
           Required("total", Money), Required("reservationRef", String),
           Required("version", Integer)>>)

ShipmentView ==
  Object(<<Required("id", String), Required("orderId", String),
           Required("status", String), Required("trackingNumber", String),
           Required("version", Integer)>>)

-----------------------------------------------------------------------------
(* Mutant: the contract does not know of currencies that are refused.      *)
InvalidParamCodesBefore ==
  ReasonCodes \cup
  {"empty_order", "invalid_sku", "invalid_quantity", "invalid_money_amount",
   "invalid_customer_id", "invalid_order_id", "invalid_reservation_ref",
   "invalid_shipment_id", "invalid_tracking_number"}

InvalidParamCodes ==
  ReasonCodes \cup
  {"empty_order", "invalid_sku", "invalid_quantity", "invalid_money_amount",
   "invalid_money_currency", "invalid_customer_id", "invalid_order_id",
   "invalid_reservation_ref", "invalid_shipment_id", "invalid_tracking_number"}

ValidateInvalidParamCode(v) ==
  IF v.str \in InvalidParamCodes THEN <<>> ELSE <<Leaf(<<>>, "enum")>>

ValidateInvalidParam(v) ==
  Under("code", ValidateInvalidParamCode(v.struct["code"]))

InvalidParams(v) ==
  IF "invalid-params" \in DOMAIN v.struct THEN v.struct["invalid-params"].list
  ELSE <<>>

ValidateProblemDetails(v) ==
  LET ps == InvalidParams(v)
  IN  IF \A i \in DOMAIN ps : ValidateInvalidParam(ps[i]) = <<>> THEN <<>>
      ELSE <<Leaf(<<"invalid-params">>, "nested")>>

ValidatePlaceOrderRequest(v) ==
  IF Is("list", v.struct["lines"]) THEN <<>> ELSE <<Leaf(<<"lines">>, "nil")>>

ValidateOrderView(v) ==
  IF Is("list", v.struct["lines"]) THEN <<>> ELSE <<Leaf(<<"lines">>, "nil")>>

-----------------------------------------------------------------------------
DecodeCancelOrderParams(arg) == DecodePathParam("id", arg)
DecodeGetOrderParams(arg) == DecodePathParam("id", arg)
DecodeGetShipmentParams(arg) == DecodePathParam("id", arg)
DecodeMarkShippedParams(arg) == DecodePathParam("id", arg)

DecodePlaceOrderRequest(r) ==
  LET got == DecodeBody(PlaceOrderRequest, r)
  IN  Validated(got, ValidatePlaceOrderRequest(got.val))

DecodePrepareShipmentRequest(r) == DecodeBody(PrepareShipmentRequest, r)
DecodeMarkShippedRequest(r) == DecodeBody(MarkShippedRequest, r)

-----------------------------------------------------------------------------
(* httpapi: the inputs of the use cases and their results.                 *)
ToPlaceOrderInput(req) ==
  LET lines == req.struct["lines"].list
  IN  [customer |-> req.struct["customerId"].str,
       lines |-> [i \in DOMAIN lines |->
         LET l == lines[i].struct
             price == l["unitPrice"].struct
         IN  [sku |-> l["sku"].str, qty |-> l["quantity"].num,
              amount |-> price["amount"].num, currency |-> price["currency"].str]]]

ShipmentOrder(req) == req.struct["orderId"].str

IdOf(params) == params.str

MoneyOf(amount, currency) ==
  Struct([amount |-> Num(amount), currency |-> Str(currency)])

ToOrderView(o) ==
  Struct([id |-> Str(o.id), customerId |-> Str(o.customer),
          status |-> Str(o.status), version |-> Num(o.version),
          reservationRef |-> Str(o.ref), total |-> MoneyOf(o.total, o.currency),
          lines |-> List([i \in DOMAIN o.lines |->
            LET l == o.lines[i]
            IN  Struct([sku |-> Str(l.sku), quantity |-> Num(l.qty),
                        unitPrice |-> MoneyOf(l.amount, l.currency),
                        subtotal |-> MoneyOf(l.amount * l.qty, l.currency)])])])

ToShipmentView(s) ==
  Struct([id |-> Str(s.id), orderId |-> Str(s.order), status |-> Str(s.status),
          trackingNumber |-> Str(s.tracking), version |-> Num(s.version)])

(* Mutant: the rejection comes first.                                      *)
ClassifyRejectionFirst(sentinels) ==
  CASE "ReservationRejected" \in sentinels -> 409
    [] sentinels \cap {"OrderNotFound", "ShipmentNotFound"} # {} -> 404
    [] OTHER -> 422

(* An error that says the inventory did not answer is also a rejection; the*)
(* outage comes first.                                                     *)
Classify(sentinels) ==
  IF "ReservationUnavailable" \in sentinels THEN 503
  ELSE CASE "ReservationRejected" \in sentinels -> 409
         [] sentinels \cap {"OrderNotFound", "ShipmentNotFound"} # {} -> 404
         [] sentinels \cap {"OrderNotConfirmed", "ShipmentNotPreparing",
                            "OrderNotConfirmedForShipment",
                            "ConcurrencyConflict"} # {} -> 409
         [] sentinels \cap {"EmptyOrder", "InvalidSKU", "InvalidQuantity",
                            "InvalidMoney", "InvalidCustomerID",
                            "InvalidOrderID", "InvalidReservationRef",
                            "InvalidShipmentID", "InvalidTrackingNumber"} # {} -> 422
         [] OTHER -> 500

ProblemTypeSuffix(sentinels, status) ==
  CASE status = 404 -> "resource-not-found"
    [] status = 409 ->
         IF "ReservationRejected" \in sentinels THEN "reservation-rejected"
         ELSE IF "OrderNotConfirmedForShipment" \in sentinels
         THEN "order-not-confirmed-for-shipment" ELSE "conflict"
    [] status = 422 -> "invalid-input"
    [] status = 503 -> "service-unavailable"
    [] OTHER -> "internal-error"

(* Mutant: no name but the one in lower case.                              *)
NoJsonNames == [n \in {} |-> n]

(* Names that are not their input's name in lower case.                    *)
JsonNames == [OrderId |-> "id", ShipmentId |-> "id"]

JsonNameOf(name) ==
  IF name \in DOMAIN JsonNames THEN JsonNames[name]
  ELSE IF name \in DOMAIN LowerFirst THEN LowerFirst[name] ELSE name

ToJSONPath(path) == [i \in DOMAIN path |-> JsonNameOf(path[i])]

DomainReasonOf(code) ==
  IF code \in InvalidParamCodes \ ReasonCodes THEN code ELSE "invalid"

DomainParams(err) ==
  IF err.path = <<>> THEN <<>>
  ELSE <<InvalidParamOf(Param(ToJSONPath(err.path), err.code),
                        DomainReasonOf(err.code))>>

NewError(err) ==
  LET status == Classify(err.is)
  IN  [status |-> status,
       problem |-> ProblemOf(status, ProblemTypeSuffix(err.is, status),
                             DomainParams(err))]

-----------------------------------------------------------------------------
(* Responses.  The other types of response that the contract declares are  *)
(* returned by no handler: errors go through NewError.                     *)
EncodePlaceOrderResponse(o) == Response(201, "json", Encode(OrderView, ToOrderView(o)))
EncodeGetOrderResponse(o) == Response(200, "json", Encode(OrderView, ToOrderView(o)))
EncodeCancelOrderResponse(o) ==
  Response(200, "json", Encode(OrderView, ToOrderView(o)))
EncodePrepareShipmentResponse(s) ==
  Response(201, "json", Encode(ShipmentView, ToShipmentView(s)))
EncodeGetShipmentResponse(s) ==
  Response(200, "json", Encode(ShipmentView, ToShipmentView(s)))
EncodeMarkShippedResponse(s) ==
  Response(200, "json", Encode(ShipmentView, ToShipmentView(s)))

EncodeErrorResponse(e) ==
  Response(e.status, "problem", Encode(ProblemDetails, e.problem))

WriteProblem(status, suffix, params) ==
  Response(status, "problem",
           Encode(ProblemDetails, ProblemOf(status, suffix, params)))

ErrorHandler(err) ==
  LET status == StatusOf(err)
  IN  WriteProblem(status, TypeOfRefusal(status), ContractParams(err))

NotFound == WriteProblem(404, "not-found", <<>>)

MethodNotAllowed(r) ==
  IF r.method = "OPTIONS" THEN Response(204, "none", NoBody)
  ELSE WriteProblem(405, "method-not-allowed", <<>>)

-----------------------------------------------------------------------------
Handled(decoded, call, out, response) ==
  IF Is("err", decoded) THEN Exchange(NoCall, ErrorHandler(decoded.err))
  ELSE Exchange(call, IF Is("err", out)
                      THEN EncodeErrorResponse(NewError(out.err)) ELSE response)

HandlePlaceOrder(r, out) ==
  LET got == DecodePlaceOrderRequest(r)
  IN  Handled(got, Called("placeOrder", ToPlaceOrderInput(got.val)), out,
              EncodePlaceOrderResponse(out.val))

HandleGetOrder(r, out) ==
  LET got == DecodeGetOrderParams(r.path[2])
  IN  Handled(got, Called("getOrder", IdOf(got.val)), out,
              EncodeGetOrderResponse(out.val))

HandleCancelOrder(r, out) ==
  LET got == DecodeCancelOrderParams(r.path[2])
  IN  Handled(got, Called("cancelOrder", IdOf(got.val)), out,
              EncodeCancelOrderResponse(out.val))

HandlePrepareShipment(r, out) ==
  LET got == DecodePrepareShipmentRequest(r)
  IN  Handled(got, Called("prepareShipment", ShipmentOrder(got.val)), out,
              EncodePrepareShipmentResponse(out.val))

HandleGetShipment(r, out) ==
  LET got == DecodeGetShipmentParams(r.path[2])
  IN  Handled(got, Called("getShipment", IdOf(got.val)), out,
              EncodeGetShipmentResponse(out.val))

HandleMarkShipped(r, out) ==
  LET params == DecodeMarkShippedParams(r.path[2])
      got == DecodeMarkShippedRequest(r)
      input == [id |-> params.val.str,
                tracking |-> got.val.struct["trackingNumber"].str]
  IN  IF Is("err", params) THEN Exchange(NoCall, ErrorHandler(params.err))
      ELSE Handled(got, Called("markShipped", input), out,
                   EncodeMarkShippedResponse(out.val))

ServeHTTP(r, out) ==
  LET For(m, exchange) ==
        IF r.method = m THEN exchange
        ELSE Exchange(NoCall, MethodNotAllowed(r))
  IN  CASE r.path = <<"orders">> -> For("POST", HandlePlaceOrder(r, out))
        [] Matches(r.path, <<"orders", "{}">>) -> For("GET", HandleGetOrder(r, out))
        [] Matches(r.path, <<"orders", "{}", "cancel">>) ->
             For("POST", HandleCancelOrder(r, out))
        [] r.path = <<"shipments">> -> For("POST", HandlePrepareShipment(r, out))
        [] Matches(r.path, <<"shipments", "{}">>) -> For("GET", HandleGetShipment(r, out))
        [] Matches(r.path, <<"shipments", "{}", "ship">>) ->
             For("POST", HandleMarkShipped(r, out))
        [] OTHER -> Exchange(NoCall, NotFound)
=============================================================================
