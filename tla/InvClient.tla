----------------------------- MODULE InvClient -----------------------------
(***************************************************************************)
(* The ordering context's side of the inventory's internal API: the client *)
(* that ogen generates (invclient), which has its own copy of the contract,*)
(* and the adapters that use it (aclhttp, eventhttp).                      *)
(***************************************************************************)
EXTENDS Http

OptString(n) == Optional(n, String)
OptDateTime(n) == Optional(n, DateTime)
OptURI(n) == Optional(n, Uri)

Ack == Object(<<Required("status", String)>>)

InboundMessage ==
  Object(<<Required("id", String), Required("type", String),
           Required("payload", String), OptString("trace_id"),
           OptDateTime("occurred_at")>>)

InvalidParamCode == String

InvalidParam ==
  Object(<<Required("name", String), Required("code", InvalidParamCode),
           OptString("reason")>>)

ProblemDetails ==
  Object(<<Required("type", Uri), Required("title", String),
           Required("status", Integer), OptString("detail"),
           OptURI("instance"), Optional("invalid-params", ListOf(InvalidParam))>>)

(* Mutant: the client's copy of the contract has another name.             *)
ReserveLineQty == Object(<<Required("sku", String), Required("qty", Integer)>>)

ReserveLine == Object(<<Required("sku", String), Required("quantity", Integer)>>)

ReserveCommand ==
  Object(<<Required("ref", String), Required("lines", ListOf(ReserveLine))>>)

InvalidParamCodes ==
  ReasonCodes \cup {"invalid_sku", "invalid_quantity", "invalid_reservation_ref"}

ValidateInvalidParamCode(v) ==
  IF v.str \in InvalidParamCodes THEN <<>> ELSE <<Leaf(<<>>, "enum")>>

ValidateInvalidParam(v) ==
  Under("code", ValidateInvalidParamCode(v.struct["code"]))

InvalidParams(v) ==
  IF "invalid-params" \in DOMAIN v.struct THEN v.struct["invalid-params"].list
  ELSE <<>>

ValidateProblemDetails(v) ==
  LET ps == InvalidParams(v)
  IN  IF \A i \in DOMAIN ps : ValidateInvalidParam(ps[i]) = <<>> THEN <<>>
      ELSE <<Leaf(<<"invalid-params">>, "nested")>>

-----------------------------------------------------------------------------
(* Requests.                                                               *)
EncodeIngestEventRequest(v) == Encode(InboundMessage, v)
EncodeReserveStockRequest(v) == Encode(ReserveCommand, v)

SendReleaseReservation(ref) ==
  Request("POST", <<"reservations", ref, "release">>, "none", NoBody)

SendConfirmReservation(ref) ==
  Request("POST", <<"reservations", ref, "confirm">>, "none", NoBody)

SendIngestEvent(v) ==
  Request("POST", <<"events">>, "json", EncodeIngestEventRequest(v))

SendReserveStock(v) ==
  Request("POST", <<"reservations">>, "json", EncodeReserveStockRequest(v))

(* Responses: the acknowledgement, a problem with its status, or an error  *)
(* without one when the response is not what the contract says.            *)
ClientError(kind, status) == [err |-> [kind |-> kind, status |-> status]]
Unsent == ClientError("transport", 0)

DecodeAck(resp) ==
  LET body == Decode(Ack, resp.body)
  IN  IF resp.type = "json" /\ Is("val", body) THEN body
      ELSE ClientError("unreadable", 0)

DecodeProblem(resp) ==
  LET body == Decode(ProblemDetails, resp.body)
  IN  IF /\ resp.type = "problem" /\ Is("val", body)
         /\ ValidateProblemDetails(body.val) = <<>>
      THEN ClientError("problem", resp.status)
      ELSE ClientError("unreadable", 0)

DecodeReserveStockResponse(resp) ==
  IF resp.status = 200 THEN DecodeAck(resp) ELSE DecodeProblem(resp)

DecodeReleaseReservationResponse(resp) ==
  IF resp.status = 200 THEN DecodeAck(resp) ELSE DecodeProblem(resp)

DecodeConfirmReservationResponse(resp) ==
  IF resp.status = 200 THEN DecodeAck(resp) ELSE DecodeProblem(resp)

DecodeIngestEventResponse(resp) ==
  IF resp.status = 200 THEN DecodeAck(resp) ELSE DecodeProblem(resp)

-----------------------------------------------------------------------------
(* aclhttp and eventhttp.                                                  *)
ToClientLines(lines) ==
  List([i \in DOMAIN lines |-> Struct([sku |-> Str(lines[i].sku),
                                       quantity |-> Num(lines[i].qty)])])

Reserve(ref, lines) ==
  SendReserveStock(Struct([ref |-> Str(ref), lines |-> ToClientLines(lines)]))

Release(ref) == SendReleaseReservation(ref)

Publish(m) ==
  SendIngestEvent(Struct([id |-> Str(m.id), type |-> Str(m.type),
                          payload |-> Str(m.payload),
                          trace_id |-> Str(m.traceId),
                          occurred_at |-> Str(m.occurredAt)]))

(* The sentinels of a call that failed.                                    *)
Translate(err) ==
  IF err.kind = "problem" /\ err.status < 500
  THEN {"ReservationRejected"}
  ELSE {"ReservationRejected", "ReservationUnavailable"}
=============================================================================
