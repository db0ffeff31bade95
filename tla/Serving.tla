------------------------------ MODULE Serving ------------------------------
(***************************************************************************)
(* The two services as their clients see them: the process of the inventory*)
(* with its public and its internal server and the process of the ordering *)
(* context (cmd/inventory, cmd/ordering), which serve the three contracts  *)
(* and may stop, fail or be killed, and the placing of an order, which     *)
(* calls the inventory in the middle.                                      *)
(*                                                                         *)
(* Calls a and b come from outside; the calls reserve and release are made *)
(* by the handler of a when a places an order.  What is sent is a request  *)
(* and, when code of the ordering context sends it, the call of the        *)
(* application that it stands for.                                         *)
(***************************************************************************)
EXTENDS Serve, UseCases

CONSTANTS
  Messages,     \* the messages in the outbox of the ordering context
  Loads         \* what is sent, and which processes may be disturbed

Orders == INSTANCE OrderApi
Stock == INSTANCE StockApi
Internal == INSTANCE InternalApi
Client == INSTANCE InvClient

VARIABLES
  disturbed,    \* the processes that are told to stop, fail or are killed
  sent,         \* the request of each call, and what it is meant to do
  asks,         \* the call of the application that a request led to
  response,     \* the response to each call
  stage         \* how far the placing of an order by call a is

places == <<disturbed, sent, asks, response, stage>>

servingVars == <<vars, places>>

Sent(request, meant) == [request |-> request, meant |-> meant]
NotSent == Sent(NoBody, NoCall)
NoResponse == [none |-> ""]

(* What the relay of the ordering context sends.                           *)
Relayed(m) ==
  Sent(Client!Publish(m),
       Called("ingest", [type |-> m.type, payload |-> m.payload]))

Outer == {"a", "b"}
Inner == {"reserve", "release"}

ServingInit ==
  /\ Init
  /\ \E load \in Loads :
       /\ to = [c \in Call |-> IF c \in Outer THEN load.to[c] ELSE "internal"]
       /\ sent = [c \in Call |-> IF c \in Outer THEN load.sent[c] ELSE NotSent]
       /\ disturbed = load.disturbed
  /\ asks = [c \in Call |-> NoCall]
  /\ response = [c \in Call |-> NoResponse]
  /\ stage = "idle"

-----------------------------------------------------------------------------
(* Both public servers are behind an http.ServeMux, which carries a health *)
(* check beside the contract and lets only clean paths through.  Any other *)
(* path, with a dotted segment or with an empty one before its end, the mux*)
(* answers itself with a redirect to the cleaned path (307, or 301 by the  *)
(* version of Go).  Where that leads is not modelled.                      *)
Cleaned(path) ==
  /\ path # <<>>
  /\ \A i \in DOMAIN path :
       path[i] \notin {".", ".."} /\ (path[i] = "" => i = Len(path))

Redirects(s, r) == s # "internal" /\ ~ Cleaned(r.path)

Redirected == Response(307, "redirect", NoBody)

Health(r) == r.path = <<"healthz">> /\ r.method = "GET"

Muxed(s, r, out) ==
  IF Health(r) THEN Exchange(NoCall, Response(200, "text", Str("ok")))
  ELSE IF s = "stock" THEN Stock!ServeHTTP(r, out)
  ELSE Orders!ServeHTTP(r, out)

Served(s, r, out) ==
  CASE Redirects(s, r) -> Exchange(NoCall, Redirected)
    [] s \in {"stock", "orders"} /\ ~ Redirects(s, r) -> Muxed(s, r, out)
    [] s = "internal" -> Internal!ServeHTTP(r, out)

Decoded(s, r) == Served(s, r, Unexpected).call

(* A message has an instant as its time, and the segments of a path and the*)
(* lines of a request are numbered.  Nobody sends HEAD, whose responses    *)
(* have no body, or CONNECT, whose paths the mux does not clean.           *)
ASSUME ServingAssumption ==
  /\ Server = {"stock", "internal", "orders"}
  /\ Call = Outer \cup Inner
  /\ \A m \in Messages : m.occurredAt \in Instants
  /\ \A load \in Loads :
       /\ load.disturbed \subseteq Process
       /\ \A c \in Outer :
            LET r == load.sent[c].request
                put == Decoded(load.to[c], r)
            IN  /\ \/ load.sent[c].meant = NoCall
                   \/ /\ load.to[c] = "internal"
                      /\ load.sent[c] \in {Relayed(m) : m \in Messages}
                /\ load.sent[c] # NotSent =>
                     /\ r.method \notin {"HEAD", "CONNECT"}
                     /\ DOMAIN r.path = 1 .. Len(r.path)
                     /\ put.op \in {"placeOrder", "reserve"}
                          => DOMAIN put.arg.lines \subseteq Nat

(* The value that stands for the result of the internal operations.        *)
Acked(s, out) ==
  IF s = "internal" /\ Is("val", out)
  THEN Val(Internal!Acknowledge(out.val)) ELSE out

(* The request is decoded when it is accepted.                             *)
AcceptCall(c) ==
  /\ sent[c] # NotSent
  /\ Accept(c)
  /\ asks' = [asks EXCEPT ![c] = Decoded(to[c], sent[c].request)]
  /\ UNCHANGED <<disturbed, sent, response, stage>>

RefuseCall(c) == sent[c] # NotSent /\ Refuse(c) /\ UNCHANGED places

Reply(c, out) ==
  /\ Answer(c)
  /\ response' = [response EXCEPT ![c] =
                    Served(to[c], sent[c].request, Acked(to[c], out)).answer]

Placing(c) == asks[c].op = "placeOrder"

Handle(c) ==
  /\ call[c] = "open" /\ ~ Placing(c)
  /\ \E out \in Outcomes(asks[c]) : Reply(c, out)
  /\ UNCHANGED <<disturbed, sent, asks, stage>>

-----------------------------------------------------------------------------
(* PlaceOrder.Handle.  The reference of the reservation is the order's id. *)
At(s) == call["a"] = "open" /\ Placing("a") /\ stage = s

Input == asks["a"].arg

Send(c, request, meant) ==
  sent' = [sent EXCEPT ![c] = Sent(request, meant)]

Begin ==
  LET checked == PlaceOrderCase(Input)
  IN  /\ At("idle")
      /\ IF Is("err", checked)
         THEN Reply("a", checked) /\ stage' = "done" /\ UNCHANGED sent
         ELSE /\ stage' = "reserving"
              /\ Send("reserve", Client!Reserve("o", checked.val),
                      Called("reserve", [ref |-> "o", lines |-> checked.val]))
              /\ UNCHANGED <<vars, response>>
      /\ UNCHANGED <<disturbed, asks>>

(* Mutant: a client without a time-out.                                    *)
EndingsUntimed(c) ==
  (IF call[c] = "answered" THEN {"response"} ELSE {}) \cup
  (IF call[c] \in {"refused", "lost"} THEN {"broken"} ELSE {})

(* A call of the inventory ends with its response, or without one when the *)
(* connection breaks and at the latest with the time-out of the client; the*)
(* inventory may still be handling it then, or have yet to see it.         *)
Endings(c) ==
  (IF call[c] = "answered" THEN {"response"} ELSE {}) \cup {"broken"}

ResultOf(ending, decoded) == IF ending = "response" THEN decoded ELSE Client!Unsent

Reserved ==
  /\ At("reserving")
  /\ \E ending \in Endings("reserve") :
       LET got == ResultOf(ending,
                           Client!DecodeReserveStockResponse(response["reserve"]))
       IN  IF Is("err", got)
           THEN /\ Reply("a", AppError(Client!Translate(got.err), <<>>, ""))
                /\ stage' = "done"
           ELSE stage' = "storing" /\ UNCHANGED <<vars, response>>
  /\ UNCHANGED <<disturbed, sent, asks>>

(* The answer is what is read after the commit, which may fail.            *)
Store ==
  /\ At("storing")
  /\ \E out \in {Val(OrderOf("o", Input, "confirmed", 1)), Unexpected} : Reply("a", out)
  /\ stage' = "done"
  /\ UNCHANGED <<disturbed, sent, asks>>

StoreFails ==
  /\ At("storing")
  /\ stage' = "releasing"
  /\ Send("release", Client!Release("o"), Called("release", "o"))
  /\ UNCHANGED <<vars, disturbed, asks, response>>

(* Whatever comes of the compensation.                                     *)
Compensated ==
  /\ At("releasing")
  /\ Endings("release") # {}
  /\ Reply("a", Unexpected)
  /\ stage' = "done"
  /\ UNCHANGED <<disturbed, sent, asks>>

PlaceOrder == Begin \/ Reserved \/ Store \/ StoreFails \/ Compensated

-----------------------------------------------------------------------------
Living ==
  /\ \/ \E s \in Server : Listen(s) \/ (Home(s) \in disturbed /\ Fail(s)) \/ SendError(s)
     \/ \E p \in Process :
          Running(p) \/ Exit(p) \/ (p \in disturbed /\ (Signal(p) \/ Kill(p)))
  /\ UNCHANGED places

ServingNext ==
  \/ Living
  \/ \E c \in Call : AcceptCall(c) \/ RefuseCall(c) \/ Handle(c)
  \/ PlaceOrder

(* A step of the handler of an order: nothing holds it up but a call of the*)
(* inventory that has not ended.                                           *)
Advance ==
  /\ \/ At("idle") \/ At("storing")
     \/ At("reserving") /\ Endings("reserve") # {}
     \/ At("releasing") /\ Endings("release") # {}
  /\ stage' \in {"reserving", "storing", "releasing", "done"} \ {stage}

(* The processes go on, and so does the handler of an order.  The inventory*)
(* need not answer.                                                        *)
ServingSpec ==
  /\ ServingInit /\ [][ServingNext]_servingVars
  /\ Fairness
  /\ WF_stage(Advance)

-----------------------------------------------------------------------------
(* The values of the state; a call has a response exactly when it was      *)
(* answered.                                                               *)
TypeOK ==
  /\ ServersTypeOK
  /\ disturbed \subseteq Process
  /\ stage \in {"idle", "reserving", "storing", "releasing", "done"}
  /\ \A c \in Call : (response[c] # NoResponse) <=> (call[c] = "answered")

Answered(c) == call[c] = "answered"

ResultSchema(op) ==
  CASE op \in {"placeOrder", "getOrder", "cancelOrder"} -> Orders!OrderView
    [] op \in {"prepareShipment", "getShipment", "markShipped"} ->
         Orders!ShipmentView
    [] op \in {"getStock", "replenish"} -> Stock!StockView
    [] op \in {"reserve", "confirm", "release", "ingest"} -> Client!Ack

InvalidIn(s, problem) ==
  CASE s = "orders" -> Orders!ValidateProblemDetails(problem)
    [] s = "stock" -> Stock!ValidateProblemDetails(problem)
    [] s = "internal" -> Client!ValidateProblemDetails(problem)

(* Every response is one that the contract of the server describes, read   *)
(* with the contract's own decoder and, for the internal API, with the     *)
(* client's copy of it: a result of the operation, or a problem with the   *)
(* response's status whose codes all are in the enumeration of the contract*)
(* (reasonTable in problem.go and InvalidParamCode of each contract are    *)
(* kept in step with the rules of the domain by hand).  The exception is a *)
(* redirect of the mux (main.go of both services), which README.md:186-187 *)
(* does not have: only a public server gives one, to a path that is not    *)
(* clean, and nothing was asked of the application, so that a client may   *)
(* send its request again to the place it is shown.                        *)
AnswersReadable ==
  \A c \in Call : Answered(c) =>
    LET r == response[c]
        problem == Decode(Client!ProblemDetails, r.body)
    IN  CASE r.type = "problem" ->
               /\ r.status >= 400 /\ Is("val", problem)
               /\ problem.val.struct["status"] = Num(r.status)
               /\ InvalidIn(to[c], problem.val) = <<>>
          [] r.type = "json" ->
               r.status < 300 /\ Is("val", Decode(ResultSchema(asks[c].op), r.body))
          [] r.type = "redirect" ->
               Redirects(to[c], sent[c].request) /\ asks[c] = NoCall
          [] OTHER -> r.status < 300

(* The paths of the inputs of a request: the fields of its body, with or   *)
(* without the indices of its lists, the parameters of its path, and the   *)
(* body itself.                                                            *)
PathsOver(PathsOf(_, _), s, indices) ==
  CASE Is("scalar", s) -> {<<>>}
    [] Is("items", s) ->
         {<<>>} \cup {i \o p : i \in indices, p \in PathsOf(s.items, indices)}
    [] Is("fields", s) ->
         {<<>>} \cup UNION {{<<s.fields[i].name>> \o p :
                             p \in PathsOf(s.fields[i].schema, indices)} :
                            i \in DOMAIN s.fields}

ScalarPaths(s, indices) == {<<>>}
FlatPaths(s, indices) == PathsOver(ScalarPaths, s, indices)
NestedPaths(s, indices) == PathsOver(FlatPaths, s, indices)
DeepPaths(s, indices) == PathsOver(NestedPaths, s, indices)
FieldPaths(s, indices) == PathsOver(DeepPaths, s, indices)

BodyOf(s, path) ==
  CASE s = "orders" /\ path = <<"orders">> -> Orders!PlaceOrderRequest
    [] s = "orders" /\ path = <<"shipments">> -> Orders!PrepareShipmentRequest
    [] s = "orders" /\ Matches(path, <<"shipments", "{}", "ship">>) ->
         Orders!MarkShippedRequest
    [] s = "stock" /\ Matches(path, <<"stock", "{}", "replenish">>) ->
         Stock!ReplenishRequest
    [] s = "internal" /\ path = <<"reservations">> -> Internal!ReserveCommand
    [] s = "internal" /\ path = <<"events">> -> Internal!InboundMessage
    [] OTHER -> Object(<<>>)

PathParam(s) ==
  CASE s = "orders" -> <<"id">> [] s = "stock" -> <<"sku">>
    [] s = "internal" -> <<"ref">>

InputsOf(s, path, indices) ==
  (FieldPaths(BodyOf(s, path), indices) \ {<<>>}) \cup {<<"body">>}
    \cup (IF Len(path) > 1 THEN {PathParam(s)} ELSE {})

ParamNames(r) ==
  LET problem == Decode(Client!ProblemDetails, r.body).val.struct
  IN  IF r.type # "problem" \/ "invalid-params" \notin DOMAIN problem THEN {}
      ELSE LET ps == problem["invalid-params"].list
           IN  {ps[i].struct["name"].str : i \in DOMAIN ps}

(* Whatever is wrong with a request, and whichever layer finds it, the     *)
(* problem names inputs that the request has, by their place in it: without*)
(* the index of the line when the contract is violated, with it when a rule*)
(* of the domain is (CONVENTIONS.md:411, toJSONPath and jsonNames).  Two   *)
(* operations break this: the body of POST /shipments has orderId and the  *)
(* problem says id, and the payload of an event has no field ref.          *)
ParamsNamed ==
  \A c \in Call : Answered(c) =>
    LET path == sent[c].request.path
        indices == IF response[c].status = 422
                   THEN {<<n>> : n \in {IndexName[i] : i \in DOMAIN IndexName}}
                   ELSE {<<>>}
    IN  \A name \in ParamNames(response[c]) :
          \/ name \in InputsOf(to[c], path, indices)
          \/ path = <<"shipments">> /\ name = <<"id">>
          \/ path = <<"events">> /\ name = <<"ref">>

(* What the ordering context asks for is what the use case of the inventory*)
(* gets: no call of its client is refused by the inventory's copy of the   *)
(* contract, and none arrives changed (aclhttp.go, publisher.go, and the   *)
(* two generated copies of the internal contract).                         *)
ArrivesAsSent ==
  \A c \in Call :
    Answered(c) /\ sent[c].meant # NoCall => asks[c] = sent[c].meant

ProblemType(c) ==
  Decode(Orders!ProblemDetails, response[c].body).val.struct["type"].str

(* An order is refused for want of stock only if the inventory did refuse  *)
(* it; an inventory that is down, slow, cut off or broken is reported as an*)
(* outage, which the client may try again (translate in aclhttp.go joins   *)
(* both errors; classify in errmap.go tells them apart).                   *)
OutageIsNotRefusal ==
  Answered("a") /\ asks["a"].op = "placeOrder" /\ response["a"].status = 409 =>
    /\ ProblemType("a") = "reservation-rejected"
    /\ Answered("reserve") /\ response["reserve"].status \in 400..499

(* The placing of an order that was accepted ends, though the inventory    *)
(* never answers, unless its own process ends first.                       *)
PlacingEnds == (call["a"] = "open" /\ Placing("a")) ~> (call["a"] # "open")
=============================================================================
