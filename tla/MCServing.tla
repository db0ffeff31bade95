----------------------------- MODULE MCServing -----------------------------
(* Instances of Serving for TLC.                                           *)
EXTENDS Serving

MCServers == [inventory |-> <<"stock", "internal">>, ordering |-> <<"orders">>]

-----------------------------------------------------------------------------
(* Documents: a good one of each request, and what may be wrong with it.   *)
Doc(names, values) ==
  Members([i \in DOMAIN names |-> Member(names[i], values[i])])

Price(amount, currency) ==
  Doc(<<"amount", "currency">>, <<Num(amount), Str(currency)>>)

OrderLine(sku, qty, price) ==
  Doc(<<"sku", "quantity", "unitPrice">>, <<Str(sku), qty, price>>)

Yen == Price(3, "JPY")

Order(customer, lines) ==
  Doc(<<"customerId", "lines">>, <<Str(customer), List(lines)>>)

GoodOrder == Order("c", <<OrderLine("a", Num(2), Yen), OrderLine(" a", Num(1), Yen)>>)

OrderBodies ==
  {GoodOrder, Order(" ", <<OrderLine("a", Num(2), Yen)>>), Order("c", <<>>),
   Doc(<<"customerId", "lines">>, <<Str("c"), Null>>), Doc(<<>>, <<>>)}
  \cup {Order("c", <<OrderLine("a", Num(1), Yen), line>>) :
          line \in {OrderLine(" ", Num(1), Yen), OrderLine("a", Num(0), Yen),
                    OrderLine("a", Frac, Yen), OrderLine("a", Num(1), Null),
                    OrderLine("a", Num(1), Price(-1, "JPY")),
                    OrderLine("a", Num(1), Price(1, " ")),
                    OrderLine("a", Num(1), Price(1, "EUR")),
                    Doc(<<"sku", "quantity">>, <<Str("a"), Num(1)>>)}}

ReserveDoc(ref, sku, qty) ==
  Doc(<<"ref", "lines">>,
      <<Str(ref), List(<<Doc(<<"sku", "quantity">>, <<Str(sku), qty>>)>>)>>)

ReserveBodies ==
  {ReserveDoc("o", "a", Num(1)), ReserveDoc(" ", "a", Num(1)),
   ReserveDoc("o", "", Num(1)), ReserveDoc("o", "a", Num(0)),
   ReserveDoc("o", "a", Num(-1)), ReserveDoc("o", "a", Str("1")),
   Doc(<<"ref", "lines">>, <<Str("o"), Null>>), Doc(<<"lines">>, <<List(<<>>)>>)}

EventDoc(type, payload, at) ==
  Doc(<<"id", "type", "payload", "occurred_at">>,
      <<Str("m"), Str(type), Str(payload), Str(at)>>)

EventBodies ==
  {EventDoc(type, payload, "2026-01-01T00:00:00Z") :
     type \in {"confirm", "cancelled"}, payload \in {"o", " ", ""}}
  \cup {EventDoc("other", "o", "2026-01-01T00:00:00Z"),
        EventDoc("confirm", "o", "yesterday")}

QuantityBodies ==
  {Doc(<<"quantity">>, <<q>>) : q \in {Num(1), Num(0), Str("1")}}
  \cup {Doc(<<"quantity", "other", "quantity">>, <<Num(0), Null, Num(2)>>)}

TextBodies(name) ==
  {Doc(<<name>>, <<Str(t)>>) : t \in {"x", " "}} \cup {Doc(<<name>>, <<Null>>)}

-----------------------------------------------------------------------------
(* Requests, each to one server.                                           *)
To(s, r) == [to |-> s, sent |-> Sent(r, NoCall)]

Unreadables == {NoBody, Garbage, List(<<>>)}

Posts(s, path, bodies) ==
  {To(s, Request("POST", path, "json", b)) :
     b \in bodies \cup Unreadables \cup {Followed(CHOOSE d \in bodies : TRUE)}}
  \cup {To(s, Request("POST", path, type, NoBody)) :
          type \in {"text", "unparsable"}}

Plain(s, m, path) == To(s, Request(m, path, "none", NoBody))

Ids == {"x", " ", ""}

Requests ==
  Posts("orders", <<"orders">>, OrderBodies)
  \cup Posts("orders", <<"shipments">>, TextBodies("orderId"))
  \cup UNION {Posts("orders", <<"shipments", id, "ship">>,
                    TextBodies("trackingNumber")) : id \in Ids}
  \cup UNION {Posts("stock", <<"stock", id, "replenish">>, QuantityBodies) :
                id \in Ids}
  \cup Posts("internal", <<"reservations">>, ReserveBodies)
  \cup Posts("internal", <<"events">>, EventBodies)
  \cup {Plain("orders", "GET", <<"orders", id>>) : id \in Ids}
  \cup {Plain("orders", "GET", <<"shipments", id>>) : id \in Ids}
  \cup {Plain("orders", "POST", <<"orders", id, "cancel">>) : id \in Ids}
  \cup {Plain("stock", "GET", <<"stock", id>>) : id \in Ids}
  \cup {Plain("internal", "POST", <<"reservations", id, step>>) :
          id \in Ids, step \in {"confirm", "release"}}
  \cup {Plain(s, "GET", path) : s \in {"orders", "stock", "internal"},
          path \in {<<>>, <<"">>, <<"stock", "..">>, <<"orders", "x", "">>,
                   <<"healthz", ".">>}}
  \cup {Plain(s, m, path) : s \in {"orders", "stock", "internal"},
          m \in {"GET", "PUT", "OPTIONS"},
          path \in {<<"orders">>, <<"stock", "x">>, <<"events">>, <<"healthz">>,
                    <<"nowhere">>}}

MCMessages ==
  {[id |-> "m", type |-> type, payload |-> "o", traceId |-> "t",
    occurredAt |-> "2026-01-01T00:00:00Z"] : type \in {"confirm", "cancelled"}}

Events == {[to |-> "internal", sent |-> Relayed(m)] : m \in MCMessages}

-----------------------------------------------------------------------------
(* Loads: each request and each event of the relay alone, while nothing is *)
(* disturbed; and an order beside a request to the inventory while either  *)
(* process may be told to stop, fail or be killed.                         *)
Load(x, y, ps) ==
  [to |-> [a |-> x.to, b |-> y.to], sent |-> [a |-> x.sent, b |-> y.sent],
   disturbed |-> ps]

Nothing == [to |-> "stock", sent |-> NotSent]

AnOrder == To("orders", Request("POST", <<"orders">>, "json", GoodOrder))

MCLoads ==
  {Load(x, Nothing, {}) : x \in Requests \cup Events}
  \cup {Load(AnOrder, Plain("stock", "GET", <<"stock", "x">>), {p}) : p \in Process}
=============================================================================
