----------------------------- MODULE Predicate -----------------------------
(***************************************************************************)
(* The filters of one scan (predicate.rs, provider.rs): DataFusion hands   *)
(* the conjuncts of a WHERE to the provider one by one; those the provider *)
(* translates go into the Cosmos query and are dropped from the local      *)
(* plan, the others stay.  The contract is that a row passes the two       *)
(* together exactly when it passes the conjuncts in DataFusion.            *)
(*                                                                         *)
(* One document is enough: filters look at one row.  It is given by what   *)
(* it holds at the filtered field and by the field's type in the inferred  *)
(* schema.  Text is a member of the same small order as the numbers: the   *)
(* text k is how the number k prints.                                      *)
(***************************************************************************)
EXTENDS Integers, Sequences

CONSTANTS
  Values,    \* the numbers, and the texts of the same numbers
  Quirks,    \* how the service may compare null or values of unlike types
  Ops        \* the comparison operators queries use

(* Three-valued logic: "U" is DataFusion's NULL and Cosmos's undefined.    *)
Truth == {"T", "F", "U"}

AllOps == {"=", "!=", "<", "<=", ">", ">="}

ASSUME ParametersAssumption ==
  /\ Values \subseteq Nat \ {0}
  /\ Quirks \subseteq [{"=", "!=", "range", "in"} -> Truth]
  /\ Ops \subseteq AllOps

VARIABLES
  cell,      \* what the document holds at the field
  type,      \* the field's type in the table's schema
  quirk,     \* the service's comparisons of unlike values
  conjuncts, \* the WHERE, as the optimizer hands it over
  pending,   \* the conjuncts the provider has not been asked about
  pushed,    \* translated ones, the Cosmos WHERE clause
  kept       \* the others, DataFusion's local filter

vars == <<cell, type, quirk, conjuncts, pending, pushed, kept>>

----------------------------------------------------------------------------
(* Data. *)

Nothing == {[json |-> "undefined", val |-> 0], [json |-> "null", val |-> 0]}
Number(v) == [json |-> "number", val |-> v]
Text(v)   == [json |-> "string", val |-> v]

(* A column typed Int64 holds numbers; one typed Utf8 holds strings, and   *)
(* anything else when the sampled documents did not agree (normalize.rs).  *)
CellsOf(t) ==
  Nothing \cup (IF t = "Int64" THEN {Number(v) : v \in Values}
                ELSE {Text(v) : v \in Values} \cup {Number(v) : v \in Values})

(* The column holds values of its own type only. *)
Homogeneous == type = "Utf8" => cell.json # "number"

(* A filter expression.  Leaves compare the column with literals of its    *)
(* type.  A literal of 0 stands for a typed NULL, which is not rendered.   *)
NullLiteral == 0

Leaf(f, op, l, ls, no) ==
  [form |-> f, op |-> op, lit |-> l, list |-> ls, negated |-> no]

Literals == Values \cup {NullLiteral}

Comparisons ==
  [form : {"col op lit", "lit op col"}, op : Ops, lit : Literals,
   list : {{}}, negated : {FALSE}]

InLists ==
  [form : {"in"}, op : {"="}, lit : {NullLiteral},
   list : SUBSET Literals, negated : BOOLEAN]

NullTests ==
  [form : {"is null", "is not null"}, op : {"="}, lit : {NullLiteral},
   list : {{}}, negated : {FALSE}]

(* LIKE, functions, computed columns, whatever has no translation *)
Others ==
  [form : {"other"}, op : {"="}, lit : {NullLiteral}, list : {{}}, negated : {FALSE}]

Leaves == Comparisons \cup InLists \cup NullTests \cup Others

Pairs(A, B) == [form : {"and", "or"}, left : A, right : B]

----------------------------------------------------------------------------
(* Three-valued logic. *)

Not(a) == CASE a = "T" -> "F" [] a = "F" -> "T" [] OTHER -> "U"

And(a, b) == IF "F" \in {a, b} THEN "F" ELSE IF "U" \in {a, b} THEN "U" ELSE "T"

Or(a, b) == Not(And(Not(a), Not(b)))

OrAll(S) == IF "T" \in S THEN "T" ELSE IF "U" \in S THEN "U" ELSE "F"

Bool(b) == IF b THEN "T" ELSE "F"

Compare(op, a, b) ==
  CASE op = "="  -> a = b
    [] op = "!=" -> a # b
    [] op = "<"  -> a < b
    [] op = "<=" -> a <= b
    [] op = ">"  -> a > b
    [] op = ">=" -> a >= b

(* flip: the operator with its sides exchanged. *)
Flip(op) ==
  CASE op = "<" -> ">" [] op = "<=" -> ">=" [] op = ">" -> "<" [] op = ">=" -> "<="
    [] OTHER -> op

----------------------------------------------------------------------------
(* DataFusion's evaluation, over the decoded column: undefined and null    *)
(* are both null, and a number in a Utf8 column is its text (decode_docs). *)

IsArrowNull == cell \in Nothing

LocalCompare(op, a, b) ==
  IF IsArrowNull \/ NullLiteral \in {a, b} THEN "U" ELSE Bool(Compare(op, a, b))

LocalLeaf(e) ==
  CASE e.form = "col op lit" -> LocalCompare(e.op, cell.val, e.lit)
    [] e.form = "lit op col" -> LocalCompare(e.op, e.lit, cell.val)
    [] e.form = "in" ->
         LET found == OrAll({LocalCompare("=", cell.val, l) : l \in e.list})
         IN  IF e.negated THEN Not(found) ELSE found
    [] e.form = "is null"     -> Bool(IsArrowNull)
    [] e.form = "is not null" -> Bool(~IsArrowNull)
    [] e.form = "other"       -> IF IsArrowNull THEN "U" ELSE Bool(cell.val = 1)

Local(e) ==
  CASE e.form = "and" -> And(LocalLeaf(e.left), LocalLeaf(e.right))
    [] e.form = "or"  -> Or(LocalLeaf(e.left), LocalLeaf(e.right))
    [] OTHER -> LocalLeaf(e)
----------------------------------------------------------------------------
(* Translation (predicate.rs).  A translated leaf has the form "guarded":  *)
(* IS_DEFINED(p) AND NOT IS_NULL(p) AND (p op lit), or p [NOT] IN (list).  *)

NoTranslation == Leaf("none", "=", NullLiteral, {}, FALSE)

Guarded(op, l, ls, no) == Leaf("guarded", op, l, ls, no)

(* A plausible bug: a NULL among the items of a list is rendered as null. *)
TranslateLeafWithNulls(e) ==
  CASE e.form = "col op lit" /\ e.lit # NullLiteral ->
         Guarded(e.op, e.lit, {}, FALSE)
    [] e.form = "lit op col" /\ e.lit # NullLiteral ->
         Guarded(Flip(e.op), e.lit, {}, FALSE)
    [] e.form = "in" /\ e.list # {} -> Guarded("in", NullLiteral, e.list, e.negated)
    [] e.form \in {"is null", "is not null"} -> e
    [] OTHER -> NoTranslation

(* A literal renders unless it is a typed null (render_scalar), a list if  *)
(* it is not empty and every item renders (translate_in_list).             *)
TranslateLeaf(e) ==
  CASE e.form = "col op lit" /\ e.lit # NullLiteral ->
         Guarded(e.op, e.lit, {}, FALSE)
    [] e.form = "lit op col" /\ e.lit # NullLiteral ->
         Guarded(Flip(e.op), e.lit, {}, FALSE)
    [] e.form = "in" /\ e.list # {} /\ NullLiteral \notin e.list ->
         Guarded("in", NullLiteral, e.list, e.negated)
    [] e.form \in {"is null", "is not null"} -> e
    [] OTHER -> NoTranslation

(* AND and OR translate when both sides do. *)
Translate(e) ==
  IF e.form \notin {"and", "or"} THEN TranslateLeaf(e)
  ELSE IF NoTranslation \in {TranslateLeaf(e.left), TranslateLeaf(e.right)}
       THEN NoTranslation
       ELSE [e EXCEPT !.left = TranslateLeaf(@), !.right = TranslateLeaf(@)]

----------------------------------------------------------------------------
(* The service's evaluation of the document as it is stored.  Undefined    *)
(* compares as undefined; comparisons of null, or of values of unlike      *)
(* types, come out as the quirk has it.                                    *)

LiteralJson == IF type = "Utf8" THEN "string" ELSE "number"

Raw(op, yes) ==
  CASE cell.json = "undefined" -> "U"
    [] cell.json = LiteralJson -> Bool(yes)
    [] OTHER -> quirk[IF op \in {"=", "!=", "in"} THEN op ELSE "range"]

RawLeaf(p) ==
  IF p.op = "in"
  THEN LET found == Raw("in", cell.val \in p.list)
       IN  IF p.negated THEN Not(found) ELSE found
  ELSE Raw(p.op, Compare(p.op, cell.val, p.lit))

IsDefined == Bool(cell.json # "undefined")
IsNull    == Bool(cell.json = "null")

(* A plausible bug: the guard tests for the field, not for its null. *)
CosmosLeafDefinedOnly(p) ==
  CASE p.form = "guarded"     -> And(IsDefined, RawLeaf(p))
    [] p.form = "is null"     -> Or(Not(IsDefined), IsNull)
    [] p.form = "is not null" -> And(IsDefined, Not(IsNull))

CosmosLeaf(p) ==
  CASE p.form = "guarded"     -> And(And(IsDefined, Not(IsNull)), RawLeaf(p))
    [] p.form = "is null"     -> Or(Not(IsDefined), IsNull)
    [] p.form = "is not null" -> And(IsDefined, Not(IsNull))

Cosmos(p) ==
  CASE p.form = "and" -> And(CosmosLeaf(p.left), CosmosLeaf(p.right))
    [] p.form = "or"  -> Or(CosmosLeaf(p.left), CosmosLeaf(p.right))
    [] OTHER -> CosmosLeaf(p)

----------------------------------------------------------------------------
(* A WHERE of one compound conjunct, or of up to two simple ones. *)
Init ==
  /\ type \in {"Int64", "Utf8"}
  /\ cell \in CellsOf(type)
  /\ quirk \in Quirks
  /\ conjuncts \in {<<a, b>> : a, b \in Leaves} \cup {<<e>> : e \in Pairs(Leaves, Leaves)}
  /\ pending = conjuncts
  /\ pushed = <<>>
  /\ kept = <<>>

(* supports_filters_pushdown decides each conjunct by whether it           *)
(* translates; scan translates the Exact ones and joins them with AND.     *)
Push ==
  /\ pending # <<>>
  /\ Translate(Head(pending)) # NoTranslation
  /\ pushed' = Append(pushed, Translate(Head(pending)))
  /\ pending' = Tail(pending)
  /\ UNCHANGED <<cell, type, quirk, conjuncts, kept>>

Keep ==
  /\ pending # <<>>
  /\ Translate(Head(pending)) = NoTranslation
  /\ kept' = Append(kept, Head(pending))
  /\ pending' = Tail(pending)
  /\ UNCHANGED <<cell, type, quirk, conjuncts, pushed>>

Next == Push \/ Keep

Spec == Init /\ [][Next]_vars

----------------------------------------------------------------------------
(* Properties. *)

(* What may stand in a Cosmos WHERE: guarded comparisons and lists of       *)
(* rendered literals, never a NULL, and the two null tests.                *)
PushedLeaves ==
  [form : {"guarded"}, op : AllOps, lit : Values, list : {{}}, negated : {FALSE}]
    \cup [form : {"guarded"}, op : {"in"}, lit : {NullLiteral},
          list : (SUBSET Values) \ {{}}, negated : BOOLEAN]
    \cup NullTests

Filters == Leaves \cup Pairs(Leaves, Leaves)

TypeOK ==
  /\ type \in {"Int64", "Utf8"}
  /\ cell \in CellsOf(type)
  /\ quirk \in Quirks
  /\ conjuncts \in Seq(Filters)
  /\ pending \in Seq(Filters)
  /\ kept \in Seq(Filters)
  /\ pushed \in Seq(PushedLeaves \cup Pairs(PushedLeaves, PushedLeaves))

All(seq, Eval(_)) == \A i \in DOMAIN seq : Eval(seq[i]) = "T"

(* The service returns the row and the local filter lets it through. *)
Passes == All(pushed, Cosmos) /\ All(kept, Local)

(* predicate.rs:5-10: pushed filters select exactly the rows DataFusion's  *)
(* own evaluation would.  At every point of the loop: the conjuncts        *)
(* decided so far pass the row just when DataFusion would pass them.       *)
SameRows ==
  Passes /\ All(pending, Local) <=> All(conjuncts, Local)

(* It holds whatever the service makes of null or of unlike values, if the *)
(* column is homogeneous.                                                  *)
ExactOnHomogeneousColumns == Homogeneous => SameRows
=============================================================================
