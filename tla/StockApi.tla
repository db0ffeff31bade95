------------------------------ MODULE StockApi ------------------------------
(***************************************************************************)
(* The public API of the inventory: replenish and look up an SKU (openapi  *)
(* and httpapi of the inventory).  Laid out like InternalApi.              *)
(***************************************************************************)
EXTENDS Http

OptString(n) == Optional(n, String)
OptURI(n) == Optional(n, Uri)

InvalidParamCode == String

InvalidParam ==
  Object(<<Required("name", String), Required("code", InvalidParamCode),
           OptString("reason")>>)

ProblemDetails ==
  Object(<<Required("type", Uri), Required("title", String),
           Required("status", Integer), OptString("detail"),
           OptURI("instance"), Optional("invalid-params", ListOf(InvalidParam))>>)

ReplenishRequest == Object(<<Required("quantity", Integer)>>)

StockView ==
  Object(<<Required("sku", String), Required("available", Integer),
           Required("reserved", Integer), Required("version", Integer)>>)

-----------------------------------------------------------------------------
InvalidParamCodes ==
  ReasonCodes \cup {"invalid_sku", "invalid_quantity", "invalid_reservation_ref"}

ValidateInvalidParamCode(v) ==
  IF v.str \in InvalidParamCodes THEN <<>> ELSE <<Leaf(<<>>, "enum")>>

ValidateInvalidParam(v) ==
  Under("code", ValidateInvalidParamCode(v.struct["code"]))

InvalidParams(v) ==
  IF "invalid-params" \in DOMAIN v.struct THEN v.struct["invalid-params"].list
  ELSE <<>>

ValidateProblemDetails(v) ==
  LET ps == InvalidParams(v)
  IN  IF \A i \in DOMAIN ps : ValidateInvalidParam(ps[i]) = <<>> THEN <<>>
      ELSE <<Leaf(<<"invalid-params">>, "nested")>>

-----------------------------------------------------------------------------
DecodeGetStockParams(arg) == DecodePathParam("sku", arg)
DecodeReplenishStockParams(arg) == DecodePathParam("sku", arg)
DecodeReplenishStockRequest(r) == DecodeBody(ReplenishRequest, r)

(* httpapi: the inputs of the use cases, their results and their errors.   *)
ReplenishStock(sku, req) ==
  [sku |-> sku.str, qty |-> req.struct["quantity"].num]

GetStock(params) == params.str

ToStockView(r) ==
  Struct([sku |-> Str(r.sku), available |-> Num(r.available),
          reserved |-> Num(r.reserved), version |-> Num(r.version)])

Classify(sentinels) ==
  CASE "StockItemNotFound" \in sentinels -> 404
    [] sentinels \cap {"InvalidSKU", "InvalidQuantity"} # {} -> 422
    [] "ConcurrencyConflict" \in sentinels -> 409
    [] OTHER -> 500

ProblemTypeSuffix(status) ==
  CASE status = 404 -> "resource-not-found"
    [] status = 409 -> "conflict"
    [] status = 422 -> "invalid-input"
    [] OTHER -> "internal-error"

ToJSONPath(path) ==
  [i \in DOMAIN path |->
     IF path[i] \in DOMAIN LowerFirst THEN LowerFirst[path[i]] ELSE path[i]]

DomainReasonOf(code) ==
  IF code \in InvalidParamCodes \ ReasonCodes THEN code ELSE "invalid"

DomainParams(err) ==
  IF err.path = <<>> THEN <<>>
  ELSE <<InvalidParamOf(Param(ToJSONPath(err.path), err.code),
                        DomainReasonOf(err.code))>>

NewError(err) ==
  LET status == Classify(err.is)
  IN  [status |-> status,
       problem |-> ProblemOf(status, ProblemTypeSuffix(status), DomainParams(err))]

-----------------------------------------------------------------------------
(* Responses.  The other types of response that the contract declares are  *)
(* returned by no handler: errors go through NewError.                     *)
EncodeGetStockResponse(r) == Response(200, "json", Encode(StockView, ToStockView(r)))

EncodeReplenishStockResponse(r) ==
  Response(200, "json", Encode(StockView, ToStockView(r)))

EncodeErrorResponse(e) ==
  Response(e.status, "problem", Encode(ProblemDetails, e.problem))

WriteProblem(status, suffix, params) ==
  Response(status, "problem",
           Encode(ProblemDetails, ProblemOf(status, suffix, params)))

ErrorHandler(err) ==
  LET status == StatusOf(err)
  IN  WriteProblem(status, TypeOfRefusal(status), ContractParams(err))

NotFound == WriteProblem(404, "not-found", <<>>)

MethodNotAllowed(r) ==
  IF r.method = "OPTIONS" THEN Response(204, "none", NoBody)
  ELSE WriteProblem(405, "method-not-allowed", <<>>)

-----------------------------------------------------------------------------
Handled(decoded, call, out, response) ==
  IF Is("err", decoded) THEN Exchange(NoCall, ErrorHandler(decoded.err))
  ELSE Exchange(call, IF Is("err", out)
                      THEN EncodeErrorResponse(NewError(out.err)) ELSE response)

HandleGetStock(r, out) ==
  LET got == DecodeGetStockParams(r.path[2])
  IN  Handled(got, Called("getStock", GetStock(got.val)), out,
              EncodeGetStockResponse(out.val))

HandleReplenishStock(r, out) ==
  LET params == DecodeReplenishStockParams(r.path[2])
      got == DecodeReplenishStockRequest(r)
  IN  IF Is("err", params) THEN Exchange(NoCall, ErrorHandler(params.err))
      ELSE Handled(got, Called("replenish", ReplenishStock(params.val, got.val)),
                   out, EncodeReplenishStockResponse(out.val))

ServeHTTP(r, out) ==
  LET For(m, exchange) ==
        IF r.method = m THEN exchange
        ELSE Exchange(NoCall, MethodNotAllowed(r))
  IN  CASE Matches(r.path, <<"stock", "{}">>) -> For("GET", HandleGetStock(r, out))
        [] Matches(r.path, <<"stock", "{}", "replenish">>) ->
             For("POST", HandleReplenishStock(r, out))
        [] OTHER -> Exchange(NoCall, NotFound)
=============================================================================
