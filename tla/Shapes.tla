------------------------------- MODULE Shapes -------------------------------
(***************************************************************************)
(* JSON values, the shapes merged from them (normalize.rs), the Arrow      *)
(* types inferred from and transformed by them (inference.rs), and what    *)
(* arrow-json makes of values and types, which is external and modelled as *)
(* this code relies on it.                                                 *)
(*                                                                         *)
(* A value is its kind and its parts, by name or by position; of a scalar  *)
(* the kind says what types can do with it, and no more.  A text made from *)
(* another value keeps that value's parts, and its kind as what it is a    *)
(* text of; so does a scalar cut to what its type can hold.  Under a name  *)
(* that an object does not have is Absent.  Shapes and types are trees: a  *)
(* tag and parts, an array having one for all its elements.                *)
(* Functions on values and trees are recursive over a bounded depth.       *)
(***************************************************************************)
EXTENDS Integers, Sequences

CONSTANTS
  FieldNames,    \* the names fields may have
  MaxDepth       \* bound: levels of a value (serde_json reads 128 at most)

ASSUME DepthAssumption == MaxDepth \in Nat

----------------------------------------------------------------------------
(* Values. *)

Value(k, parts) == [kind |-> k, of |-> k, sub |-> parts]
Scalar(k) == Value(k, <<>>)
Array(s)  == Value("array", s)
Null      == Scalar("null")
Absent    == Scalar("absent")
Bad       == Scalar("bad")     \* a value that does not decode

Object(f) ==
  Value("object", [k \in FieldNames |-> IF k \in DOMAIN f THEN f[k] ELSE Absent])

(* Texts: plain ones; those that have the form of an ISO date or datetime, *)
(* some of which name no day or time; and one whose tenth byte is inside a *)
(* character.  A "fine_datetime" is finer than the unit of its column's    *)
(* type.  None spells a number.                                            *)
Dates == {"date", "no_date"}
Datetimes == {"datetime", "fine_datetime", "no_datetime"}
Texts == {"str", "wide"} \cup Dates \cup Datetimes

(* Numbers: integers, of which a "long" has more digits than a double      *)
(* holds; doubles with few or many digits after the point; one beyond any  *)
(* Int64; and what is left of one that was cut.                            *)
WholeNumbers == {"int", "long"}
Numerals == WholeNumbers \cup {"float", "fine", "huge", "cut"}

(* The digits before and after the point. *)
WholeDigits(k)    == CASE k = "long" -> 17 [] k = "huge" -> 31 [] OTHER -> 1
FractionDigits(k) == CASE k = "float" -> 1 [] k = "fine" -> 11 [] OTHER -> 0

Nothing == {"null", "absent"}
Scalars == {"bool"} \cup Nothing \cup Texts \cup Numerals
Containers == {"object", "array"}

ScalarValues ==
  {v \in [kind : Scalars, of : Scalars, sub : {<<>>}] : v.kind \in {v.of, "str", "cut"}}

(* The values that nest containers n deep at most. *)
ValuesTo[n \in 0 .. MaxDepth] ==
  ScalarValues \cup
    IF n = 0 THEN {}
    ELSE [kind : {"object", "str"}, of : {"object"}, sub : [FieldNames -> ValuesTo[n - 1]]]
         \cup [kind : {"array", "str"}, of : {"array"}, sub : Seq(ValuesTo[n - 1])]

Values == ValuesTo[MaxDepth]

(* The kinds of what is there in vs, and the parts of its containers. *)
KindsOf(vs)  == {v.kind : v \in vs} \ Nothing
At(vs, k)    == {v.sub[k] : v \in {u \in vs : u.kind = "object"}}
Elements(vs) == UNION {{v.sub[i] : i \in DOMAIN v.sub} : v \in {u \in vs : u.kind = "array"}}

Holds(v, kind) ==
  LET holds[u \in Values] == u.kind = kind \/ \E k \in DOMAIN u.sub : holds[u.sub[k]]
  IN  holds[v]

----------------------------------------------------------------------------
(* Shapes and types. *)

Tree(tag, parts) == [tag |-> tag, sub |-> parts]
Leaf(t)  == Tree(t, <<>>)
Unknown  == Leaf("Unknown")
Conflict == Leaf("Conflict")
NoType   == Leaf("NoType")
Failure  == Leaf("Failure")
NoField  == Leaf("NoField")

Leaves == {"Unknown", "Bool", "Number", "Str", "Conflict",
           "NoType", "Failure", "NoField", "Null", "Boolean", "Int64", "Float64",
           "Utf8", "Date32", "Timestamp", "Variant"}

(* Decimal128(precision, scale), as parse_decimal limits them. *)
Decimals ==
  {d \in [{"precision", "scale"} -> 0 .. 38] : d.precision >= 1 /\ d.scale <= d.precision}
Decimal128(d) == Tree("Decimal128", d)

(* The shapes and types that nest n deep at most. *)
TreesTo[n \in 0 .. MaxDepth] ==
  [tag : Leaves, sub : {<<>>}] \cup [tag : {"Decimal128"}, sub : Decimals] \cup
    IF n = 0 THEN {}
    ELSE [tag : {"Object", "Struct"}, sub : [FieldNames -> TreesTo[n - 1]]]
         \cup [tag : {"Array", "List"}, sub : [1 .. 1 -> TreesTo[n - 1]]]

Trees == TreesTo[MaxDepth]

(* The part of a tree for a field or an element. *)
Part(t, k) == IF t.tag \in {"Array", "List"} THEN t.sub[1] ELSE t.sub[k]

(* The tree descends where the value does. *)
Descends(t, v) ==
  \/ t.tag \in {"Object", "Struct"} /\ v.kind = "object"
  \/ t.tag \in {"Array", "List"} /\ v.kind = "array"

ShapeTag(k) ==
  CASE k \in Nothing -> "Unknown" [] k = "bool" -> "Bool" [] k \in Numerals -> "Number"
    [] k \in Texts -> "Str" [] k = "object" -> "Object" [] k = "array" -> "Array"

MergeFirst(a, b) ==   \* mutant: the first container's parts are kept
  IF a = Unknown THEN b
  ELSE IF b = Unknown \/ a.tag = b.tag THEN a ELSE Conflict

(* merge: nulls fit anything, two containers of a kind merge part by part, *)
(* anything else that differs is a conflict.                               *)
Merge(a, b) ==
  LET merge[s \in Trees] == [t \in Trees |->
        IF s = Unknown THEN t
        ELSE IF t = Unknown THEN s
        ELSE IF s.tag # t.tag THEN Conflict
        ELSE IF s.tag \notin {"Object", "Array"} THEN s
        ELSE Tree(s.tag, [k \in DOMAIN s.sub |-> merge[s.sub[k]][t.sub[k]]])]
  IN  merge[a][b]

(* The shape of an array's elements, merged from the left. *)
MergeAll(shapes) ==
  LET element[n \in 0 .. Len(shapes)] ==
        IF n = 0 THEN Unknown ELSE Merge(element[n - 1], shapes[n])
  IN  element[Len(shapes)]

ShapeOf(v) ==
  LET shape_of[u \in Values] ==
        LET parts == [k \in DOMAIN u.sub |-> shape_of[u.sub[k]]]
        IN  IF u.kind = "array" THEN Tree("Array", <<MergeAll(parts)>>)
            ELSE IF u.kind = "object" THEN Tree("Object", parts)
            ELSE Leaf(ShapeTag(u.kind))
  IN  shape_of[v]

(* The text a value is written as. *)
Text(v) == [v EXCEPT !.kind = "str"]

StringifyScalars(v) ==   \* mutant: a container has no text
  IF v.kind \in Texts \cup Nothing THEN v
  ELSE IF v.kind \in Containers THEN Null ELSE Text(v)

(* The text of a value; null stays null, and what is absent, absent. *)
Stringify(v) ==
  IF v.kind \in Texts \cup Nothing THEN v ELSE Text(v)

NormalizeFields(v, s) ==   \* mutant: the elements of arrays are not visited
  LET normalize[u \in Values] == [t \in Trees |->
        IF t = Conflict THEN Stringify(u)
        ELSE IF t.tag # "Object" \/ ~Descends(t, u) THEN u
        ELSE [u EXCEPT !.sub = [k \in DOMAIN u.sub |-> normalize[u.sub[k]][Part(t, k)]]]]
  IN  normalize[v][s]

(* normalize_value: texts in place of the conflicting nodes. *)
Normalize(v, s) ==
  LET normalize[u \in Values] == [t \in Trees |->
        IF t = Conflict THEN Stringify(u)
        ELSE IF ~Descends(t, u) THEN u
        ELSE [u EXCEPT !.sub = [k \in DOMAIN u.sub |-> normalize[u.sub[k]][Part(t, k)]]]]
  IN  normalize[v][s]

CoerceFields(v, t) ==   \* mutant: only the top-level columns are coerced
  [v EXCEPT !.sub = [k \in DOMAIN v.sub |->
     IF Part(t, k).tag = "Utf8" THEN Stringify(v.sub[k]) ELSE v.sub[k]]]

(* coerce_value: texts wherever the schema says Utf8. *)
Coerce(v, t) ==
  LET coerce[u \in Values] == [s \in Trees |->
        IF s.tag = "Utf8" THEN Stringify(u)
        ELSE IF ~Descends(s, u) THEN u
        ELSE [u EXCEPT !.sub = [k \in DOMAIN u.sub |-> coerce[u.sub[k]][Part(s, k)]]]]
  IN  coerce[v][t]

----------------------------------------------------------------------------
(* arrow-json. *)

(* One part that cannot be inferred fails the whole. *)
Whole(t) == IF \E k \in DOMAIN t.sub : t.sub[k] = Failure THEN Failure ELSE t

ScalarType(kinds) ==
  CASE kinds \subseteq WholeNumbers -> "Int64"
    [] kinds = {"bool"} -> "Boolean"
    [] kinds \subseteq Numerals /\ ~(kinds \subseteq WholeNumbers) -> "Float64"
    [] OTHER -> "Utf8"

(* Integers widen to Float64, other scalars that differ to Utf8; objects   *)
(* or arrays beside anything else are an error.  A struct has the fields   *)
(* that some object has.                                                   *)
InferType(vs) ==
  LET infer[ws \in SUBSET Values] ==
        LET kinds == KindsOf(ws)
        IN  IF ws = {Absent} THEN NoField
            ELSE IF kinds = {} THEN Leaf("Null")
            ELSE IF kinds = {"object"}
                 THEN Whole(Tree("Struct", [k \in FieldNames |-> infer[At(ws, k)]]))
            ELSE IF kinds = {"array"} THEN Whole(Tree("List", <<infer[Elements(ws)]>>))
            ELSE IF kinds \cap Containers # {} THEN Failure
            ELSE Leaf(ScalarType(kinds))
  IN  infer[vs]

Fits(k, d) == WholeDigits(k) + d.scale <= d.precision

(* What a type takes besides null: Int64 no double beyond it, a decimal    *)
(* what its precision holds, a timestamp integers and ISO texts.  A text   *)
(* that is no date or time after all is an error where one is asked for.   *)
Takes(t) ==
  CASE t.tag = "Boolean"    -> {"bool"}
    [] t.tag = "Int64"      -> Numerals \ {"huge"}
    [] t.tag = "Float64"    -> Numerals
    [] t.tag = "Decimal128" -> {k \in Numerals : Fits(k, t.sub)}
    [] t.tag = "Utf8"       -> Texts
    [] t.tag = "Date32"     -> {"date"}
    [] t.tag = "Timestamp"  -> WholeNumbers \cup {"date", "datetime", "fine_datetime"}
    [] t.tag = "Struct"     -> {"object"}
    [] t.tag = "List"       -> {"array"}
    [] t.tag = "Variant"    -> Scalars \cup Containers
    [] OTHER                -> {}

(* What it takes and cuts: Int64 the fraction, Float64 the digits that a   *)
(* double has no place for, a decimal those after its scale, a timestamp   *)
(* those finer than its unit.                                              *)
Cuts(t) ==
  CASE t.tag = "Int64"      -> Numerals \ WholeNumbers
    [] t.tag = "Float64"    -> {"long"}
    [] t.tag = "Decimal128" -> {k \in Numerals : FractionDigits(k) > t.sub.scale}
    [] t.tag = "Timestamp"  -> {"fine_datetime"}
    [] OTHER                -> {}

Cut(v) == [v EXCEPT !.kind = "cut"]

(* A struct has a cell for each of its fields, a list for each element.    *)
Decode(v, t) ==
  LET decode[u \in Values] == [s \in Trees |->
        LET cells == [k \in DOMAIN u.sub |-> decode[u.sub[k]][Part(s, k)]]
        IN  IF s = NoField THEN Absent
            ELSE IF u.kind \in Nothing THEN Null
            ELSE IF u.kind \notin Takes(s) THEN Bad
            ELSE IF u.kind \in Cuts(s) THEN Cut(u)
            ELSE IF ~Descends(s, u) THEN u
            ELSE IF \E k \in DOMAIN cells : cells[k] = Bad THEN Bad
            ELSE [u EXCEPT !.sub = cells]]
  IN  decode[v][t]

----------------------------------------------------------------------------
(* Struct mode (inference.rs). *)

(* NumberMode: Float64, or Decimal with its precision and scale. *)
Float64 == <<>>

InferenceOptions ==
  [number : {Float64} \cup Decimals, infer_temporal : BOOLEAN,
   epoch : BOOLEAN, heterogeneous : {"string", "variant"}]

(* A leaf, given the kinds of what the sample holds there: text becomes a  *)
(* date or a timestamp only if every value there has the form of one.      *)
TransformLeaf(opts, s, kinds) ==
  CASE s.tag = "Float64" /\ opts.number # Float64 -> Decimal128(opts.number)
    [] /\ s.tag = "Utf8" /\ opts.infer_temporal
       /\ kinds # {} /\ kinds \subseteq Datetimes -> Leaf("Timestamp")
    [] /\ s.tag = "Utf8" /\ opts.infer_temporal
       /\ kinds # {} /\ kinds \subseteq Dates -> Leaf("Date32")
    [] OTHER -> s

(* A transformed type: transform_type with the profile of the sampled      *)
(* values vs at the node.                                                  *)
Transform(opts, t, vs) ==
  LET transform[s \in Trees] == [ws \in SUBSET Values |->
        IF s.tag = "Struct"
        THEN Tree("Struct", [k \in FieldNames |-> transform[s.sub[k]][At(ws, k)]])
        ELSE IF s.tag = "List" THEN Tree("List", <<transform[s.sub[1]][Elements(ws)]>>)
        ELSE TransformLeaf(opts, s, KindsOf(ws))]
  IN  transform[t][vs]

----------------------------------------------------------------------------
(* What is expected of the above. *)

(* What the values in vs hold, node by node, without merging: a node is in *)
(* conflict when they disagree on its kind, numbers being one kind.        *)
ShapeOfAll(vs) ==
  LET agreed[ws \in SUBSET Values] ==
        LET tags == {ShapeTag(k) : k \in KindsOf(ws)}
        IN  IF tags = {} THEN Unknown
            ELSE IF \E t, u \in tags : t # u THEN Conflict
            ELSE IF "Object" \in tags
                 THEN Tree("Object", [k \in FieldNames |-> agreed[At(ws, k)]])
            ELSE IF "Array" \in tags THEN Tree("Array", <<agreed[Elements(ws)]>>)
            ELSE Leaf(CHOOSE t \in tags : TRUE)
  IN  agreed[vs]

(* What some type that the options ask for refuses, though every sampled   *)
(* value there is alike: a number beyond the decimal's precision, a text   *)
(* that has the form of a date or a datetime and is none.                  *)
Refused(opts) ==
  {k \in Numerals : opts.number # Float64 /\ ~Fits(k, opts.number)}
    \cup (IF opts.infer_temporal THEN {"no_date", "no_datetime"} ELSE {})

(* What is cut on the way: digits after the decimal's scale, or those that *)
(* a double has no place for, and datetimes finer than a timestamp's unit. *)
Shortened(opts) ==
  (IF opts.number = Float64 THEN {"long"}
   ELSE {k \in Numerals : FractionDigits(k) > opts.number.scale})
    \cup (IF opts.infer_temporal \/ opts.epoch THEN {"fine_datetime"} ELSE {})

(* A cell keeps its value but for the kinds in short: null for null or     *)
(* absent, the value itself or, where documents disagreed, its text.       *)
Keeps(short, cell, v) ==
  LET keeps[c \in Values] == [u \in Values |->
        \/ c = u
        \/ u.kind \in short /\ c = Cut(u)
        \/ u = Absent /\ c = Null
        \/ u.kind \notin Nothing /\ c = Text(u)
        \/ /\ u.kind \in Containers
           /\ c.kind = u.kind
           /\ DOMAIN c.sub = DOMAIN u.sub
           /\ \A k \in DOMAIN u.sub : keeps[c.sub[k]][u.sub[k]]]
  IN  keeps[cell][v]
=============================================================================
