-------------------------------- MODULE Json --------------------------------
(***************************************************************************)
(* JSON documents, and what the code that ogen generates for a contract    *)
(* (oas_json_gen.go and its neighbours) does with them.  A type of the     *)
(* contract is a schema; Encode and Decode read the schema as the generated*)
(* methods of the type spell it out.                                       *)
(*                                                                         *)
(* A document keeps the order and the repetition of the members of an      *)
(* object.  A Go value is a list of values or a struct: a function from the*)
(* names of the fields that are set.  Texts are opaque.                    *)
(***************************************************************************)
EXTENDS Integers, Sequences, FiniteSets

Str(x) == [str |-> x]
Num(n) == [num |-> n]
Frac == [frac |-> "0.5"]              \* a number that is no Go integer
Null == [null |-> "null"]
Member(n, d) == [name |-> n, value |-> d]
Members(ms) == [members |-> ms]
List(ds) == [list |-> ds]
Struct(f) == [struct |-> f]
Garbage == [garbage |-> "{"]          \* not JSON

Is(kind, d) == kind \in DOMAIN d

-----------------------------------------------------------------------------
(* Schemas.                                                                *)
String == [scalar |-> "string"]
Integer == [scalar |-> "integer"]
DateTime == [scalar |-> "date-time"]
Uri == [scalar |-> "uri"]
ListOf(s) == [items |-> s]
Object(fs) == [fields |-> fs]
Required(n, s) == [name |-> n, schema |-> s, required |-> TRUE]
Optional(n, s) == [name |-> n, schema |-> s, required |-> FALSE]

FieldNames(fs) == {fs[i].name : i \in DOMAIN fs}

(* Texts that the date-time format accepts.                                *)
Instants == {"2026-01-01T00:00:00Z"}

ScalarFits(k, d) ==
  CASE k = "string" -> Is("str", d)
    [] k = "integer" -> Is("num", d)
    [] k = "uri" -> Is("str", d)
    [] k = "date-time" -> Is("str", d) /\ d.str \in Instants

-----------------------------------------------------------------------------
(* Encode.  Optional fields that are not set are left out: positions are   *)
(* in order, but need not follow one another.  Every type has methods of   *)
(* its own, which call those of its fields and elements; no type of the    *)
(* contracts is nested more than four deep.                                *)
SelectFields(fs, v) == {i \in DOMAIN fs : fs[i].name \in DOMAIN v.struct}

EncodeParts(EncodePart(_, _), s, v) ==
  CASE Is("scalar", s) -> v
    [] Is("items", s) ->
         List([i \in DOMAIN v.list |-> EncodePart(s.items, v.list[i])])
    [] Is("fields", s) ->
         Members([i \in SelectFields(s.fields, v) |->
           LET f == s.fields[i]
           IN  Member(f.name, EncodePart(f.schema, v.struct[f.name]))])

EncodeScalar(s, v) == v
EncodeFlat(s, v) == EncodeParts(EncodeScalar, s, v)
EncodeNested(s, v) == EncodeParts(EncodeFlat, s, v)
EncodeDeep(s, v) == EncodeParts(EncodeNested, s, v)
Encode(s, v) == EncodeParts(EncodeDeep, s, v)

(* Decode gives [val |-> value] or [err |-> failure].  A failure has the   *)
(* names of the fields the decoder was in, and a leaf for each field of a  *)
(* validation error below them.  The decoder stops at the first member it  *)
(* cannot read; the fields that are missing from one object are all named. *)
Leaf(at, cause) == [at |-> at, cause |-> cause]

Failure(kind, path, leaves) ==
  [err |-> [kind |-> kind, path |-> path, leaves |-> leaves]]

Unreadable == Failure("decode", <<>>, <<>>)

First(S) == CHOOSE i \in S : \A j \in S : i <= j
Last(S) == CHOOSE i \in S : \A j \in S : j <= i

DecodeList(results) ==
  LET bad == {i \in DOMAIN results : Is("err", results[i])}
  IN  IF bad = {} THEN [val |-> List([i \in DOMAIN results |-> results[i].val])]
                  ELSE results[First(bad)]

(* Members with unknown names are skipped; the last of a name counts.      *)
Named(ms, n) == {i \in DOMAIN ms : ms[i].name = n}

Missing(ms, f) == f.required /\ Named(ms, f.name) = {}

DecodeFields(fs, ms, results) ==
  LET bad == {i \in DOMAIN ms : Is("err", results[i])}
      missing == {i \in DOMAIN fs : Missing(ms, fs[i])}
      set == {n \in FieldNames(fs) : Named(ms, n) # {}}
  IN  IF bad # {}
      THEN LET i == First(bad)
           IN  Failure("decode", <<ms[i].name>> \o results[i].err.path,
                       results[i].err.leaves)
      ELSE IF missing # {}
      THEN Failure("decode", <<>>,
                   [i \in missing |-> Leaf(<<fs[i].name>>, "required")])
      ELSE [val |-> Struct([n \in set |-> results[Last(Named(ms, n))].val])]

FieldSchema(fs, n) == fs[CHOOSE i \in DOMAIN fs : fs[i].name = n].schema

DecodeParts(DecodePart(_, _), s, d) ==
  CASE Is("scalar", s) /\ ScalarFits(s.scalar, d) -> [val |-> d]
    [] Is("items", s) /\ Is("list", d) ->
         DecodeList([i \in DOMAIN d.list |-> DecodePart(s.items, d.list[i])])
    [] Is("fields", s) /\ Is("members", d) ->
         DecodeFields(s.fields, d.members,
           [i \in DOMAIN d.members |->
              LET m == d.members[i]
              IN  IF m.name \in FieldNames(s.fields)
                  THEN DecodePart(FieldSchema(s.fields, m.name), m.value)
                  ELSE [val |-> Null]])
    [] OTHER -> Unreadable

DecodeScalar(s, d) ==
  IF Is("scalar", s) /\ ScalarFits(s.scalar, d) THEN [val |-> d] ELSE Unreadable

DecodeFlat(s, d) == DecodeParts(DecodeScalar, s, d)
DecodeNested(s, d) == DecodeParts(DecodeFlat, s, d)
DecodeDeep(s, d) == DecodeParts(DecodeNested, s, d)
Decode(s, d) == DecodeParts(DecodeDeep, s, d)
=============================================================================
