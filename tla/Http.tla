-------------------------------- MODULE Http --------------------------------
(***************************************************************************)
(* One HTTP exchange as the servers that ogen generates and the adapters   *)
(* around them treat it: what is common to the three contracts.  A request *)
(* is decoded, refused by the error handlers of the adapter or given to the*)
(* application, and what the application returns becomes a response.       *)
(*                                                                         *)
(* A path is a sequence of segments.  A media type is "json", "problem",   *)
(* any other name, or "unparsable".                                        *)
(***************************************************************************)
EXTENDS Json

Seqs == INSTANCE SequencesExt

NoBody == [nobody |-> ""]
Followed(d) == [followed |-> d]       \* a document and something after it

Request(m, path, type, body) ==
  [method |-> m, path |-> path, type |-> type, body |-> body]

Response(status, type, body) ==
  [status |-> status, type |-> type, body |-> body]

(* A result of the application: a value, or an error that is one or more   *)
(* sentinels and may name an input by its path in the use case's input.    *)
Val(v) == [val |-> v]
AppError(sentinels, path, code) ==
  [err |-> [is |-> sentinels, path |-> path, code |-> code]]
Fails(sentinel) == AppError({sentinel}, <<>>, "")

-----------------------------------------------------------------------------
(* Decoding of a request.                                                  *)
DecodeBody(schema, r) ==
  LET trailing == Is("followed", r.body)
      got == Decode(schema, IF trailing THEN r.body.followed ELSE r.body)
  IN  CASE r.type = "unparsable" -> Failure("media-type", <<>>, <<>>)
        [] r.type \notin {"json", "unparsable"} ->
             Failure("content-type", <<>>, <<>>)
        [] r.type = "json" /\ r.body = NoBody ->
             Failure("body-required", <<>>, <<>>)
        [] r.type = "json" /\ r.body # NoBody ->
             IF Is("err", got) THEN got
             ELSE IF trailing THEN Unreadable ELSE got

(* What was decoded, unless its value has these leaves of what is wrong.   *)
Validated(got, leaves) ==
  IF Is("val", got) /\ leaves # <<>> THEN Failure("validate", <<>>, leaves)
  ELSE got

(* A text of one character or more.                                        *)
DecodePathParam(name, arg) ==
  IF arg = "" THEN Failure("param", <<name>>, <<>>) ELSE Val(Str(arg))

IndexName == <<"[0]", "[1]", "[2]">>

(* The leaves of a part of a value.                                        *)
Under(name, leaves) ==
  [i \in DOMAIN leaves |-> Leaf(<<name>> \o leaves[i].at, leaves[i].cause)]

-----------------------------------------------------------------------------
(* Refusals by the contract (E1).                                          *)
StatusOf(err) == IF err.kind = "content-type" THEN 415 ELSE 400

CodeOf(cause) ==
  IF cause \in {"required", "min_length", "max_length", "pattern",
                "unique_items"}
  THEN cause ELSE "invalid"

Param(path, code) == [name |-> path, code |-> code]

WalkLeaves(err) ==
  [i \in DOMAIN err.leaves |->
     Param(err.path \o err.leaves[i].at, CodeOf(err.leaves[i].cause))]

ExtractParams(err) ==
  CASE err.leaves # <<>> -> WalkLeaves(err)
    [] err.leaves = <<>> /\ err.kind = "param" ->
         <<Param(err.path, "invalid_param")>>
    [] err.leaves = <<>> /\ err.kind = "body-required" ->
         <<Param(<<"body">>, "body_required")>>
    [] err.leaves = <<>> /\ err.kind = "decode" /\ err.path # <<>> ->
         <<Param(err.path, "type")>>
    [] OTHER -> <<>>

(* The names of the inputs of the use cases in the requests.               *)
LowerFirst ==
  [Ref |-> "ref", Lines |-> "lines", Sku |-> "sku", Quantity |-> "quantity",
   CustomerId |-> "customerId", UnitPrice |-> "unitPrice",
   Amount |-> "amount", Currency |-> "currency", OrderId |-> "orderId",
   ShipmentId |-> "shipmentId", TrackingNumber |-> "trackingNumber"]

-----------------------------------------------------------------------------
(* Problems.  The detail is a fixed text, here the type itself.            *)
TitleOf ==
  [t \in {"validation-error", "unsupported-media-type", "not-found",
          "method-not-allowed", "invalid-input", "resource-not-found",
          "conflict", "reservation-rejected",
          "order-not-confirmed-for-shipment", "service-unavailable",
          "internal-error"} |->
   CASE t = "validation-error" -> "Bad Request"
     [] t = "unsupported-media-type" -> "Unsupported Media Type"
     [] t = "not-found" -> "Not Found"
     [] t = "method-not-allowed" -> "Method Not Allowed"
     [] t = "invalid-input" -> "Unprocessable Entity"
     [] t = "resource-not-found" -> "Resource Not Found"
     [] t = "conflict" -> "Conflict"
     [] t = "reservation-rejected" -> "Reservation Rejected"
     [] t = "order-not-confirmed-for-shipment" ->
          "Order Not Confirmed For Shipment"
     [] t = "service-unavailable" -> "Service Unavailable"
     [] t = "internal-error" -> "Internal Server Error"]

ReasonCodes == {"required", "type", "min_length", "max_length", "pattern",
                "unique_items", "invalid_param", "body_required", "invalid"}

(* Codes without a text of their own get the one of "invalid".             *)
ReasonOf(code) == IF code \in ReasonCodes THEN code ELSE "invalid"

InvalidParamOf(p, reason) ==
  Struct([name |-> Str(p.name), code |-> Str(p.code), reason |-> Str(reason)])

ContractParams(err) ==
  LET ps == ExtractParams(err)
  IN  [i \in DOMAIN ps |-> InvalidParamOf(ps[i], ReasonOf(ps[i].code))]

ProblemOf(status, type, params) ==
  LET fields == {"type", "title", "status", "detail"}
                  \cup (IF params = <<>> THEN {} ELSE {"invalid-params"})
  IN  Struct([f \in fields |->
        CASE f = "type" -> Str(type)
          [] f = "title" -> Str(TitleOf[type])
          [] f = "status" -> Num(status)
          [] f = "detail" -> Str(type)
          [] f = "invalid-params" -> List(params)])

TypeOfRefusal(status) ==
  IF status = 415 THEN "unsupported-media-type" ELSE "validation-error"

(* What an operation does with a request: the call of the application, if  *)
(* there is one, and the response.                                         *)
NoCall == [op |-> "none"]
Exchange(called, answer) == [call |-> called, answer |-> answer]
Called(op, arg) == [op |-> op, arg |-> arg]

Matches(path, pattern) ==
  /\ Len(path) = Len(pattern)
  /\ \A i \in DOMAIN path : pattern[i] \in {"{}", path[i]}
=============================================================================
