---------------------------- MODULE InternalApi ----------------------------
(***************************************************************************)
(* The internal API of the inventory: reservations and the events that the *)
(* ordering context publishes (openapiinternal and internalhttp).  Each    *)
(* type of the contract is a schema that its Encode and Decode follow; each*)
(* operation has a handler that gives the call of the application and the  *)
(* response to what the application returned, out.                         *)
(***************************************************************************)
EXTENDS Http

OptString(n) == Optional(n, String)
OptDateTime(n) == Optional(n, DateTime)
OptURI(n) == Optional(n, Uri)

Ack == Object(<<Required("status", String)>>)

InboundMessage ==
  Object(<<Required("id", String), Required("type", String),
           Required("payload", String), OptString("trace_id"),
           OptDateTime("occurred_at")>>)

(* Any text; the enumeration is left to Validate.                          *)
InvalidParamCode == String

InvalidParam ==
  Object(<<Required("name", String), Required("code", InvalidParamCode),
           OptString("reason")>>)

ProblemDetails ==
  Object(<<Required("type", Uri), Required("title", String),
           Required("status", Integer), OptString("detail"),
           OptURI("instance"), Optional("invalid-params", ListOf(InvalidParam))>>)

ReserveLine == Object(<<Required("sku", String), Required("quantity", Integer)>>)

ReserveCommand ==
  Object(<<Required("ref", String), Required("lines", ListOf(ReserveLine))>>)

-----------------------------------------------------------------------------
(* Validation of decoded values.                                           *)
InvalidParamCodes ==
  ReasonCodes \cup {"invalid_sku", "invalid_quantity", "invalid_reservation_ref"}

ValidateInvalidParamCode(v) ==
  IF v.str \in InvalidParamCodes THEN <<>> ELSE <<Leaf(<<>>, "enum")>>

ValidateInvalidParam(v) ==
  Under("code", ValidateInvalidParamCode(v.struct["code"]))

InvalidParams(v) ==
  IF "invalid-params" \in DOMAIN v.struct THEN v.struct["invalid-params"].list
  ELSE <<>>

ValidateProblemDetails(v) ==
  LET ps == InvalidParams(v)
  IN  IF \A i \in DOMAIN ps : ValidateInvalidParam(ps[i]) = <<>> THEN <<>>
      ELSE <<Leaf(<<"invalid-params">>, "nested")>>

ValidateReserveCommand(v) ==
  IF Is("list", v.struct["lines"]) THEN <<>> ELSE <<Leaf(<<"lines">>, "nil")>>

-----------------------------------------------------------------------------
DecodeConfirmReservationParams(arg) == DecodePathParam("ref", arg)
DecodeReleaseReservationParams(arg) == DecodePathParam("ref", arg)

DecodeIngestEventRequest(r) == DecodeBody(InboundMessage, r)

DecodeReserveStockRequest(r) ==
  LET got == DecodeBody(ReserveCommand, r)
  IN  Validated(got, ValidateReserveCommand(got.val))

-----------------------------------------------------------------------------
(* internalhttp: the inputs of the use cases, and their errors as problems.*)
ReserveStock(req) ==
  LET lines == req.struct["lines"].list
  IN  [ref |-> req.struct["ref"].str,
       lines |-> [i \in DOMAIN lines |->
                    [sku |-> lines[i].struct["sku"].str,
                     qty |-> lines[i].struct["quantity"].num]]]

IngestEvent(req) ==
  [type |-> req.struct["type"].str, payload |-> req.struct["payload"].str]

ReservationOf(params) == params.str

Acknowledge(status) == Struct([status |-> Str(status)])

Classify(sentinels) ==
  CASE sentinels \cap {"StockItemNotFound", "ReservationNotFound"} # {} -> 404
    [] sentinels \cap {"InsufficientStock", "ConcurrencyConflict"} # {} -> 409
    [] sentinels \cap {"InvalidSKU", "InvalidQuantity", "InvalidReservationRef",
                       "NoRoute"} # {} -> 422
    [] OTHER -> 500

ProblemTypeSuffix(status) ==
  CASE status = 404 -> "resource-not-found"
    [] status = 409 -> "conflict"
    [] status = 422 -> "invalid-input"
    [] OTHER -> "internal-error"

(* The path of the input in the use case's input, as names of the request. *)
ToJSONPath(path) ==
  [i \in DOMAIN path |->
     IF path[i] \in DOMAIN LowerFirst THEN LowerFirst[path[i]] ELSE path[i]]

DomainReasonOf(code) ==
  IF code \in InvalidParamCodes \ ReasonCodes THEN code ELSE "invalid"

DomainParams(err) ==
  IF err.path = <<>> THEN <<>>
  ELSE <<InvalidParamOf(Param(ToJSONPath(err.path), err.code),
                        DomainReasonOf(err.code))>>

NewError(err) ==
  LET status == Classify(err.is)
  IN  [status |-> status,
       problem |-> ProblemOf(status, ProblemTypeSuffix(status), DomainParams(err))]

-----------------------------------------------------------------------------
(* Responses.                                                              *)
EncodeConfirmReservationResponse(v) == Response(200, "json", Encode(Ack, v))
EncodeIngestEventResponse(v) == Response(200, "json", Encode(Ack, v))
EncodeReleaseReservationResponse(v) == Response(200, "json", Encode(Ack, v))
EncodeReserveStockResponse(v) == Response(200, "json", Encode(Ack, v))

EncodeErrorResponse(e) ==
  Response(e.status, "problem", Encode(ProblemDetails, e.problem))

WriteProblem(status, suffix, params) ==
  Response(status, "problem",
           Encode(ProblemDetails, ProblemOf(status, suffix, params)))

ErrorHandler(err) ==
  LET status == StatusOf(err)
  IN  WriteProblem(status, TypeOfRefusal(status), ContractParams(err))

NotFound == WriteProblem(404, "not-found", <<>>)

MethodNotAllowed(r) ==
  IF r.method = "OPTIONS" THEN Response(204, "none", NoBody)
  ELSE WriteProblem(405, "method-not-allowed", <<>>)

-----------------------------------------------------------------------------
(* Handlers and the router.                                                *)
Handled(decoded, call, out, response) ==
  IF Is("err", decoded) THEN Exchange(NoCall, ErrorHandler(decoded.err))
  ELSE Exchange(call, IF Is("err", out)
                      THEN EncodeErrorResponse(NewError(out.err)) ELSE response)

HandleConfirmReservation(r, out) ==
  LET got == DecodeConfirmReservationParams(r.path[2])
  IN  Handled(got, Called("confirm", ReservationOf(got.val)), out,
              EncodeConfirmReservationResponse(out.val))

HandleIngestEvent(r, out) ==
  LET got == DecodeIngestEventRequest(r)
  IN  Handled(got, Called("ingest", IngestEvent(got.val)), out,
              EncodeIngestEventResponse(out.val))

HandleReleaseReservation(r, out) ==
  LET got == DecodeReleaseReservationParams(r.path[2])
  IN  Handled(got, Called("release", ReservationOf(got.val)), out,
              EncodeReleaseReservationResponse(out.val))

HandleReserveStock(r, out) ==
  LET got == DecodeReserveStockRequest(r)
  IN  Handled(got, Called("reserve", ReserveStock(got.val)), out,
              EncodeReserveStockResponse(out.val))

ServeHTTP(r, out) ==
  LET For(exchange) ==
        IF r.method = "POST" THEN exchange
        ELSE Exchange(NoCall, MethodNotAllowed(r))
  IN  CASE r.path = <<"events">> -> For(HandleIngestEvent(r, out))
        [] r.path = <<"reservations">> -> For(HandleReserveStock(r, out))
        [] Matches(r.path, <<"reservations", "{}", "confirm">>) ->
             For(HandleConfirmReservation(r, out))
        [] Matches(r.path, <<"reservations", "{}", "release">>) ->
             For(HandleReleaseReservation(r, out))
        [] OTHER -> Exchange(NoCall, NotFound)
=============================================================================
