--------------------------- MODULE PredicateProofs --------------------------
(***************************************************************************)
(* The correctness contract of predicate.rs, proved for every set of       *)
(* values, every set of operators and whatever the service makes of null   *)
(* and of values of unlike types: on a homogeneous column the filters sent *)
(* to Cosmos and the ones kept in DataFusion select together the rows that *)
(* DataFusion alone would select.                                          *)
(*                                                                         *)
(* The argument: a guarded leaf is true in the service exactly when the    *)
(* leaf is true in DataFusion (LeafExact).  AND and OR are true in         *)
(* three-valued logic depending only on which of their sides are true, so  *)
(* the same holds of a compound filter (FilterExact).  The loop then       *)
(* moves conjuncts from one side of an equivalence to the other.           *)
(***************************************************************************)
EXTENDS Predicate, SequenceTheorems, TLAPS

(* AND is true when both sides are, OR when one is. *)
LEMMA Connectives ==
  ASSUME NEW a \in Truth, NEW b \in Truth
  PROVE  /\ And(a, b) = "T" <=> a = "T" /\ b = "T"
         /\ Or(a, b) = "T" <=> a = "T" \/ b = "T"
BY DEF And, Or, Not, Truth

(* What the fields of a leaf may hold. *)
LEMMA LeafShape ==
  ASSUME NEW e \in Leaves
  PROVE  \/ /\ e.form \in {"col op lit", "lit op col"}
            /\ e.op \in Ops /\ e.lit \in Literals
         \/ /\ e.form = "in"
            /\ e.list \in SUBSET Literals /\ e.negated \in BOOLEAN
         \/ e.form \in {"is null", "is not null"} /\ e \in NullTests
         \/ e.form = "other"
BY DEF Leaves, Comparisons, InLists, NullTests, Others

(* Every evaluation of DataFusion yields one of the three values. *)
LEMMA LocalLeafTruth ==
  ASSUME NEW e \in Leaves
  PROVE  LocalLeaf(e) \in Truth
<1>1. e.form \in {"col op lit", "lit op col", "in", "is null", "is not null", "other"}
  BY LeafShape
<1>2. \A S : OrAll(S) \in Truth /\ Not(OrAll(S)) \in Truth
  BY DEF OrAll, Not, Truth
<1>3. CASE e.form = "in"
  BY <1>2, <1>3 DEF LocalLeaf
<1>4. CASE e.form # "in"
  BY <1>1, <1>4 DEF LocalLeaf, LocalCompare, Bool, Truth
<1> QED BY <1>3, <1>4

(* So does the service, of the leaves that are pushed. *)
LEMMA CosmosLeafTruth ==
  ASSUME TypeOK, NEW p \in PushedLeaves
  PROVE  CosmosLeaf(p) \in Truth
<1>1. \A a, b : And(a, b) \in Truth
  BY DEF And, Truth
<1>2. \A a, b : Or(a, b) \in Truth
  BY DEF Or, Not, Truth
<1>3. p.form \in {"guarded", "is null", "is not null"}
  BY DEF PushedLeaves, NullTests
<1>4. CASE p.form = "guarded"
  BY <1>1, <1>4 DEF CosmosLeaf
<1>5. CASE p.form = "is null"
  BY <1>2, <1>5 DEF CosmosLeaf
<1>6. CASE p.form = "is not null"
  BY <1>1, <1>6 DEF CosmosLeaf
<1> QED BY <1>3, <1>4, <1>5, <1>6

(* A literal is a value or the typed NULL, a value is not the NULL. *)
LEMMA ValuesArePositive ==
  /\ Values \subseteq Nat
  /\ NullLiteral \notin Values
BY ParametersAssumption DEF NullLiteral

(* What the document holds at the field of a homogeneous column. *)
LEMMA CellShape ==
  ASSUME TypeOK, Homogeneous
  PROVE  \/ cell \in Nothing
         \/ /\ cell \notin Nothing
            /\ cell.json = LiteralJson /\ cell.val \in Values
            /\ cell.json \notin {"undefined", "null"}
<1>1. CASE cell \in Nothing
  BY <1>1
<1>2. CASE cell \notin Nothing
  <2>1. \/ \E v \in Values : cell = Number(v)
        \/ type = "Utf8" /\ \E v \in Values : cell = Text(v)
    BY <1>2 DEF TypeOK, CellsOf
  <2>2. \A v \in Values : /\ Number(v).json = "number" /\ Number(v).val = v
                          /\ Text(v).json = "string" /\ Text(v).val = v
    BY DEF Number, Text
  <2> QED BY <1>2, <2>1, <2>2 DEF Homogeneous, LiteralJson, TypeOK
<1> QED BY <1>1, <1>2

LEMMA NothingShape ==
  ASSUME cell \in Nothing
  PROVE  cell.json \in {"undefined", "null"}
BY DEF Nothing

(* Nothing passes a guarded leaf, whatever the raw comparison gives. *)
LEMMA GuardExcludesNothing ==
  ASSUME cell \in Nothing, NEW p, p.form = "guarded"
  PROVE  CosmosLeaf(p) # "T"
<1>1. "F" \in {IsDefined, Not(IsNull)}
  BY NothingShape DEF IsDefined, IsNull, Bool, Not
<1>2. And(IsDefined, Not(IsNull)) = "F"
  BY <1>1 DEF And
<1>3. And("F", RawLeaf(p)) = "F"
  BY DEF And
<1> QED BY <1>2, <1>3 DEF CosmosLeaf

(* On anything else the guard is transparent. *)
LEMMA GuardPassesValues ==
  ASSUME cell.json \notin {"undefined", "null"}, NEW p, p.form = "guarded",
         RawLeaf(p) \in {"T", "F"}
  PROVE  CosmosLeaf(p) = RawLeaf(p)
<1>1. IsDefined = "T" /\ Not(IsNull) = "T"
  BY DEF IsDefined, IsNull, Bool, Not
<1>2. And("T", "T") = "T"
  BY DEF And
<1>3. And("T", RawLeaf(p)) = RawLeaf(p)
  BY DEF And
<1> QED BY <1>1, <1>2, <1>3 DEF CosmosLeaf

----------------------------------------------------------------------------
(* Leaves: pushed as a guarded predicate, a leaf is true when it is true   *)
(* in DataFusion.                                                          *)

LEMMA ComparisonExact ==
  ASSUME TypeOK, Homogeneous, NEW op \in AllOps, NEW l \in Values
  PROVE  CosmosLeaf(Guarded(op, l, {}, FALSE)) = "T"
           <=> LocalCompare(op, cell.val, l) = "T"
<1> DEFINE p == Guarded(op, l, {}, FALSE)
<1>1. p.form = "guarded" /\ p.op = op /\ p.lit = l
  BY DEF Guarded, Leaf
<1>2. CASE cell \in Nothing
  <2>1. CosmosLeaf(p) # "T"
    BY <1>1, <1>2, GuardExcludesNothing
  <2> QED BY <1>2, <2>1 DEF LocalCompare, IsArrowNull
<1>3. CASE cell \notin Nothing
  <2>1. /\ cell.json = LiteralJson /\ cell.val \in Values
        /\ cell.json \notin {"undefined", "null"}
    BY <1>3, CellShape
  <2>2. RawLeaf(p) = Bool(Compare(op, cell.val, l))
    <3>1. op # "in"
      BY DEF AllOps
    <3>2. Raw(op, Compare(op, cell.val, l)) = Bool(Compare(op, cell.val, l))
      BY <2>1, Zenon DEF Raw
    <3> QED BY <1>1, <3>1, <3>2 DEF RawLeaf
  <2>3. RawLeaf(p) \in {"T", "F"}
    BY <2>2 DEF Bool
  <2>4. CosmosLeaf(p) = RawLeaf(p)
    BY <1>1, <2>1, <2>3, GuardPassesValues
  <2>5. LocalCompare(op, cell.val, l) = Bool(Compare(op, cell.val, l))
    BY <1>3, <2>1, ValuesArePositive DEF LocalCompare, IsArrowNull
  <2> QED BY <2>2, <2>4, <2>5
<1> QED BY <1>2, <1>3

LEMMA FlipMirrors ==
  ASSUME NEW op \in AllOps, NEW a \in Nat, NEW b \in Nat
  PROVE  /\ Flip(op) \in AllOps
         /\ Compare(Flip(op), a, b) = Compare(op, b, a)
<1>1. CASE op = "="
  BY <1>1 DEF AllOps, Flip, Compare
<1>2. CASE op = "!="
  BY <1>2 DEF AllOps, Flip, Compare
<1>3. CASE op = "<"
  BY <1>3 DEF AllOps, Flip, Compare
<1>4. CASE op = "<="
  BY <1>4 DEF AllOps, Flip, Compare
<1>5. CASE op = ">"
  BY <1>5 DEF AllOps, Flip, Compare
<1>6. CASE op = ">="
  BY <1>6 DEF AllOps, Flip, Compare
<1> QED BY <1>1, <1>2, <1>3, <1>4, <1>5, <1>6 DEF AllOps

(* DataFusion's value of an IN list of rendered literals. *)
LEMMA InListLocal ==
  ASSUME TypeOK, Homogeneous, NEW ls \in SUBSET Values, ls # {}
  PROVE  OrAll({LocalCompare("=", cell.val, l) : l \in ls})
           = IF cell \in Nothing THEN "U" ELSE Bool(cell.val \in ls)
<1> DEFINE S == {LocalCompare("=", cell.val, l) : l \in ls}
<1>1. CASE cell \in Nothing
  <2>1. \A l \in ls : LocalCompare("=", cell.val, l) = "U"
    BY <1>1 DEF LocalCompare, IsArrowNull
  <2>2. S = {"U"}
    BY <2>1
  <2> QED BY <1>1, <2>2 DEF OrAll
<1>2. CASE cell \notin Nothing
  <2>1. cell.val \in Values
    BY <1>2, CellShape
  <2>2. \A l \in ls : LocalCompare("=", cell.val, l) = Bool(cell.val = l)
    BY <1>2, <2>1, ValuesArePositive DEF LocalCompare, IsArrowNull, Compare
  <2>3. "U" \notin S
    BY <2>2 DEF Bool
  <2>4. "T" \in S <=> cell.val \in ls
    BY <2>2 DEF Bool
  <2>5. OrAll(S) = Bool(cell.val \in ls)
    BY <2>3, <2>4 DEF OrAll, Bool
  <2> QED BY <1>2, <2>5
<1> QED BY <1>1, <1>2

LEMMA InListExact ==
  ASSUME TypeOK, Homogeneous, NEW ls \in SUBSET Values, ls # {}, NEW no \in BOOLEAN,
         NEW e, e.form = "in", e.list = ls, e.negated = no
  PROVE  CosmosLeaf(Guarded("in", NullLiteral, ls, no)) = "T" <=> LocalLeaf(e) = "T"
<1> DEFINE p == Guarded("in", NullLiteral, ls, no)
           found == OrAll({LocalCompare("=", cell.val, l) : l \in ls})
<1>1. p.form = "guarded" /\ p.op = "in" /\ p.list = ls /\ p.negated = no
  BY DEF Guarded, Leaf
<1>2. LocalLeaf(e) = IF no THEN Not(found) ELSE found
  BY Zenon DEF LocalLeaf
<1>3. found = IF cell \in Nothing THEN "U" ELSE Bool(cell.val \in ls)
  BY InListLocal
<1>4. CASE cell \in Nothing
  <2>1. CosmosLeaf(p) # "T"
    BY <1>1, <1>4, GuardExcludesNothing
  <2>2. found = "U" /\ Not(found) = "U"
    BY <1>3, <1>4 DEF Not
  <2> QED BY <1>2, <2>1, <2>2
<1>5. CASE cell \notin Nothing
  <2>1. cell.json = LiteralJson /\ cell.json \notin {"undefined", "null"}
    BY <1>5, CellShape
  <2>2. Raw("in", cell.val \in ls) = Bool(cell.val \in ls)
    BY <2>1, Zenon DEF Raw
  <2>3. RawLeaf(p) = IF no THEN Not(Bool(cell.val \in ls)) ELSE Bool(cell.val \in ls)
    BY <1>1, <2>2 DEF RawLeaf
  <2>4. RawLeaf(p) \in {"T", "F"}
    BY <2>3 DEF Bool, Not
  <2>5. CosmosLeaf(p) = RawLeaf(p)
    BY <1>1, <2>1, <2>4, GuardPassesValues
  <2> QED BY <1>2, <1>3, <1>5, <2>3, <2>5
<1> QED BY <1>4, <1>5

LEMMA NullTestExact ==
  ASSUME TypeOK, NEW e \in NullTests
  PROVE  CosmosLeaf(e) = "T" <=> LocalLeaf(e) = "T"
<1>1. cell \in Nothing <=> cell.json \in {"undefined", "null"}
  <2>1. ASSUME cell \notin Nothing
        PROVE  cell.json \in {"number", "string"}
    <3>1. \E v \in Values : cell = Number(v) \/ cell = Text(v)
      BY <2>1 DEF TypeOK, CellsOf
    <3> QED BY <3>1 DEF Number, Text
  <2> QED BY <2>1, NothingShape
<1>2. CASE e.form = "is null"
  <2>1. LocalLeaf(e) = Bool(IsArrowNull) /\ CosmosLeaf(e) = Or(Not(IsDefined), IsNull)
    BY <1>2 DEF LocalLeaf, CosmosLeaf
  <2> QED BY <1>1, <2>1 DEF IsArrowNull, Bool, Or, And, Not, IsDefined, IsNull
<1>3. CASE e.form = "is not null"
  <2>1. LocalLeaf(e) = Bool(~IsArrowNull) /\ CosmosLeaf(e) = And(IsDefined, Not(IsNull))
    BY <1>3 DEF LocalLeaf, CosmosLeaf
  <2> QED BY <1>1, <2>1 DEF IsArrowNull, Bool, And, Not, IsDefined, IsNull
<1> QED BY <1>2, <1>3 DEF NullTests

(* A leaf that translates is pushed as a leaf that is true when it is. *)
LEMMA LeafExact ==
  ASSUME TypeOK, NEW e \in Leaves, TranslateLeaf(e) # NoTranslation
  PROVE  /\ TranslateLeaf(e) \in PushedLeaves
         /\ Homogeneous => (CosmosLeaf(TranslateLeaf(e)) = "T" <=> LocalLeaf(e) = "T")
<1>1. CASE e.form = "col op lit"
  <2>1. e.lit # NullLiteral /\ TranslateLeaf(e) = Guarded(e.op, e.lit, {}, FALSE)
    BY <1>1, Zenon DEF TranslateLeaf
  <2>2. e.op \in AllOps /\ e.lit \in Values
    BY <1>1, <2>1, LeafShape, ParametersAssumption DEF Literals
  <2>3. LocalLeaf(e) = LocalCompare(e.op, cell.val, e.lit)
    BY <1>1 DEF LocalLeaf
  <2>4. Guarded(e.op, e.lit, {}, FALSE) \in PushedLeaves
    BY <2>2 DEF Guarded, Leaf, PushedLeaves
  <2> QED BY <2>1, <2>2, <2>3, <2>4, ComparisonExact
<1>2. CASE e.form = "lit op col"
  <2>1. e.lit # NullLiteral /\ TranslateLeaf(e) = Guarded(Flip(e.op), e.lit, {}, FALSE)
    BY <1>2, Zenon DEF TranslateLeaf
  <2>2. e.op \in AllOps /\ e.lit \in Values
    BY <1>2, <2>1, LeafShape, ParametersAssumption DEF Literals
  <2>3. LocalLeaf(e) = LocalCompare(e.op, e.lit, cell.val)
    BY <1>2 DEF LocalLeaf
  <2>4. Flip(e.op) \in AllOps
    BY <2>2, FlipMirrors
  <2>5. Guarded(Flip(e.op), e.lit, {}, FALSE) \in PushedLeaves
    BY <2>2, <2>4 DEF Guarded, Leaf, PushedLeaves
  <2>6. ASSUME Homogeneous
        PROVE  LocalCompare(Flip(e.op), cell.val, e.lit) = LocalCompare(e.op, e.lit, cell.val)
    <3>1. CASE cell \in Nothing
      BY <3>1 DEF LocalCompare, IsArrowNull
    <3>2. CASE cell \notin Nothing
      <4>1. cell.val \in Nat /\ e.lit \in Nat
        BY <2>2, <2>6, <3>2, CellShape, ValuesArePositive
      <4>2. Compare(Flip(e.op), cell.val, e.lit) = Compare(e.op, e.lit, cell.val)
        BY <2>2, <4>1, FlipMirrors
      <4> QED BY <4>2 DEF LocalCompare
    <3> QED BY <3>1, <3>2
  <2> QED BY <2>1, <2>2, <2>3, <2>4, <2>5, <2>6, ComparisonExact
<1>3. CASE e.form = "in"
  <2>1. /\ e.list # {} /\ NullLiteral \notin e.list
        /\ TranslateLeaf(e) = Guarded("in", NullLiteral, e.list, e.negated)
    BY <1>3, Zenon DEF TranslateLeaf
  <2>2. e.list \in SUBSET Values /\ e.negated \in BOOLEAN
    BY <1>3, <2>1, LeafShape DEF Literals
  <2>3. Guarded("in", NullLiteral, e.list, e.negated) \in PushedLeaves
    BY <2>1, <2>2 DEF Guarded, Leaf, PushedLeaves
  <2> QED BY <1>3, <2>1, <2>2, <2>3, InListExact
<1>4. CASE e.form \in {"is null", "is not null"}
  <2>1. TranslateLeaf(e) = e
    BY <1>4, Zenon DEF TranslateLeaf
  <2>2. e \in NullTests
    BY <1>4, LeafShape
  <2> QED BY <2>1, <2>2, NullTestExact DEF PushedLeaves
<1>5. CASE e.form = "other"
  BY <1>5, Zenon DEF TranslateLeaf
<1> QED BY <1>1, <1>2, <1>3, <1>4, <1>5, LeafShape

----------------------------------------------------------------------------
(* Filters. *)

PushedFilters == PushedLeaves \cup Pairs(PushedLeaves, PushedLeaves)

LEMMA FilterExact ==
  ASSUME TypeOK, NEW e \in Filters, Translate(e) # NoTranslation
  PROVE  /\ Translate(e) \in PushedFilters
         /\ Homogeneous => (Cosmos(Translate(e)) = "T" <=> Local(e) = "T")
<1>1. CASE e \in Leaves
  <2>1. e.form \notin {"and", "or"}
    BY <1>1, LeafShape DEF NullTests
  <2>2. Translate(e) = TranslateLeaf(e) /\ Local(e) = LocalLeaf(e)
    BY <2>1, Zenon DEF Translate, Local
  <2>3. TranslateLeaf(e) \in PushedLeaves
    BY <1>1, <2>2, LeafExact
  <2>4. TranslateLeaf(e).form \notin {"and", "or"}
    BY <2>3 DEF PushedLeaves, NullTests
  <2>5. Cosmos(TranslateLeaf(e)) = CosmosLeaf(TranslateLeaf(e))
    BY <2>4, Zenon DEF Cosmos
  <2> QED BY <1>1, <2>2, <2>3, <2>5, LeafExact DEF PushedFilters
<1>2. CASE e \in Pairs(Leaves, Leaves)
  <2> DEFINE l == TranslateLeaf(e.left)
             r == TranslateLeaf(e.right)
             t == Translate(e)
  <2>1. e.form \in {"and", "or"} /\ e.left \in Leaves /\ e.right \in Leaves
    BY <1>2 DEF Pairs
  <2>2. l # NoTranslation /\ r # NoTranslation
    BY <2>1 DEF Translate
  <2>3. t = [e EXCEPT !.left = l, !.right = r]
    BY <2>1, <2>2 DEF Translate
  <2>4. t = [form |-> e.form, left |-> l, right |-> r]
    BY <1>2, <2>3 DEF Pairs
  <2>5. l \in PushedLeaves /\ r \in PushedLeaves
    BY <2>1, <2>2, LeafExact
  <2>6. t \in PushedFilters
    BY <2>1, <2>4, <2>5 DEF PushedFilters, Pairs
  <2>7. ASSUME Homogeneous
        PROVE  Cosmos(t) = "T" <=> Local(e) = "T"
    <3>1. /\ CosmosLeaf(l) = "T" <=> LocalLeaf(e.left) = "T"
          /\ CosmosLeaf(r) = "T" <=> LocalLeaf(e.right) = "T"
      BY <2>1, <2>2, <2>7, LeafExact
    <3>2. /\ CosmosLeaf(l) \in Truth /\ CosmosLeaf(r) \in Truth
          /\ LocalLeaf(e.left) \in Truth /\ LocalLeaf(e.right) \in Truth
      BY <2>1, <2>5, CosmosLeafTruth, LocalLeafTruth
    <3>3. CASE e.form = "and"
      <4>1. Local(e) = And(LocalLeaf(e.left), LocalLeaf(e.right))
        BY <3>3 DEF Local
      <4>2. Cosmos(t) = And(CosmosLeaf(l), CosmosLeaf(r))
        BY <2>4, <3>3 DEF Cosmos
      <4> QED BY <3>1, <3>2, <4>1, <4>2, Connectives
    <3>4. CASE e.form = "or"
      <4>1. Local(e) = Or(LocalLeaf(e.left), LocalLeaf(e.right))
        BY <3>4 DEF Local
      <4>2. Cosmos(t) = Or(CosmosLeaf(l), CosmosLeaf(r))
        BY <2>4, <3>4 DEF Cosmos
      <4> QED BY <3>1, <3>2, <4>1, <4>2, Connectives
    <3> QED BY <2>1, <3>3, <3>4
  <2> QED BY <2>6, <2>7
<1> QED BY <1>1, <1>2 DEF Filters

----------------------------------------------------------------------------
(* The loop. *)

LEMMA InitType == Init => TypeOK
<1> SUFFICES ASSUME Init PROVE TypeOK
  OBVIOUS
<1>1. conjuncts \in Seq(Filters)
  <2>1. CASE conjuncts \in {<<a, b>> : a, b \in Leaves}
    <3>1. PICK a \in Leaves, b \in Leaves : conjuncts = <<a, b>>
      BY <2>1
    <3> QED BY <3>1 DEF Filters
  <2>2. CASE conjuncts \in {<<e>> : e \in Pairs(Leaves, Leaves)}
    <3>1. PICK e \in Pairs(Leaves, Leaves) : conjuncts = <<e>>
      BY <2>2
    <3> QED BY <3>1 DEF Filters
  <2> QED BY <2>1, <2>2 DEF Init
<1> QED BY <1>1 DEF Init, TypeOK

LEMMA TypeStep == TypeOK /\ [Next]_vars => TypeOK'
<1> SUFFICES ASSUME TypeOK, [Next]_vars PROVE TypeOK'
  OBVIOUS
<1>1. CASE Push
  <2>1. Head(pending) \in Filters /\ Tail(pending) \in Seq(Filters)
    BY <1>1 DEF Push, TypeOK
  <2>2. Translate(Head(pending)) \in PushedFilters
    BY <1>1, <2>1, FilterExact DEF Push
  <2> QED BY <1>1, <2>1, <2>2 DEF Push, TypeOK, PushedFilters
<1>2. CASE Keep
  BY <1>2 DEF Keep, TypeOK
<1>3. CASE UNCHANGED vars
  BY <1>3 DEF vars, TypeOK
<1> QED BY <1>1, <1>2, <1>3 DEF Next

(* An evaluation depends on the document, the column and the service only. *)
LEMMA EvaluationsKeep ==
  ASSUME UNCHANGED <<cell, type, quirk>>
  PROVE  /\ Homogeneous' <=> Homogeneous
         /\ \A e : Local(e)' = Local(e)
         /\ \A p : Cosmos(p)' = Cosmos(p)
<1>1. Homogeneous' <=> Homogeneous
  BY DEF Homogeneous
<1>2. \A op, a, b : LocalCompare(op, a, b)' = LocalCompare(op, a, b)
  BY DEF LocalCompare, IsArrowNull
<1>3. \A e : LocalLeaf(e)' = LocalLeaf(e)
  BY <1>2, Zenon DEF LocalLeaf, IsArrowNull
<1>4. \A e : Local(e)' = Local(e)
  BY <1>3, Zenon DEF Local
<1>5. \A op, yes : Raw(op, yes)' = Raw(op, yes)
  BY Zenon DEF Raw, LiteralJson
<1>6. \A p : CosmosLeaf(p)' = CosmosLeaf(p)
  BY <1>5, Zenon DEF CosmosLeaf, RawLeaf, IsDefined, IsNull
<1>7. \A p : Cosmos(p)' = Cosmos(p)
  BY <1>6, Zenon DEF Cosmos
<1> QED BY <1>1, <1>4, <1>7

(* The row passes what is left when it passes its head and its tail, and   *)
(* what was pushed or kept when it passes the rest and the last.           *)
LEMMA PendingSplits ==
  ASSUME TypeOK, pending # <<>>
  PROVE  All(pending, Local) <=>
           Local(Head(pending)) = "T" /\ All(Tail(pending), Local)
<1> DEFINE n == Len(pending)
<1>1. n \in Nat /\ n > 0 /\ DOMAIN pending = 1 .. n
  BY DEF TypeOK
<1>2. /\ Head(pending) = pending[1]
      /\ DOMAIN Tail(pending) = 1 .. n - 1
      /\ \A i \in 1 .. n - 1 : Tail(pending)[i] = pending[i + 1]
  BY <1>1 DEF TypeOK
<1>3. (\A i \in 1 .. n : Local(pending[i]) = "T") <=>
        Local(pending[1]) = "T" /\ \A i \in 1 .. n - 1 : Local(pending[i + 1]) = "T"
  <2>1. ASSUME Local(pending[1]) = "T",
               \A i \in 1 .. n - 1 : Local(pending[i + 1]) = "T", NEW i \in 1 .. n
        PROVE  Local(pending[i]) = "T"
    <3>1. CASE i = 1
      BY <2>1, <3>1
    <3>2. CASE i # 1
      <4>1. i - 1 \in 1 .. n - 1 /\ (i - 1) + 1 = i
        BY <1>1, <3>2
      <4> QED BY <2>1, <4>1
    <3> QED BY <3>1, <3>2
  <2> QED BY <1>1, <2>1
<1> QED BY <1>1, <1>2, <1>3 DEF All

LEMMA PushedGrows ==
  ASSUME TypeOK, NEW p
  PROVE  All(Append(pushed, p), Cosmos) <=> All(pushed, Cosmos) /\ Cosmos(p) = "T"
<1> DEFINE n == Len(pushed)
<1>1. n \in Nat /\ DOMAIN pushed = 1 .. n
  BY DEF TypeOK
<1>2. /\ DOMAIN Append(pushed, p) = 1 .. n + 1
      /\ Append(pushed, p)[n + 1] = p
      /\ \A i \in 1 .. n : Append(pushed, p)[i] = pushed[i]
  BY <1>1 DEF TypeOK
<1>3. \A i : i \in 1 .. n + 1 <=> i \in 1 .. n \/ i = n + 1
  BY <1>1
<1> QED BY <1>1, <1>2, <1>3 DEF All

LEMMA KeptGrows ==
  ASSUME TypeOK, NEW e
  PROVE  All(Append(kept, e), Local) <=> All(kept, Local) /\ Local(e) = "T"
<1> DEFINE n == Len(kept)
<1>1. n \in Nat /\ DOMAIN kept = 1 .. n
  BY DEF TypeOK
<1>2. /\ DOMAIN Append(kept, e) = 1 .. n + 1
      /\ Append(kept, e)[n + 1] = e
      /\ \A i \in 1 .. n : Append(kept, e)[i] = kept[i]
  BY <1>1 DEF TypeOK
<1>3. \A i : i \in 1 .. n + 1 <=> i \in 1 .. n \/ i = n + 1
  BY <1>1
<1> QED BY <1>1, <1>2, <1>3 DEF All

LEMMA RowsStep == TypeOK /\ ExactOnHomogeneousColumns /\ [Next]_vars
                    => ExactOnHomogeneousColumns'
<1> SUFFICES ASSUME TypeOK, ExactOnHomogeneousColumns, [Next]_vars, Homogeneous'
             PROVE  SameRows'
  BY DEF ExactOnHomogeneousColumns
<1>1. UNCHANGED <<cell, type, quirk, conjuncts>>
  BY DEF Next, Push, Keep, vars
<1>2. Homogeneous /\ SameRows
  BY <1>1, EvaluationsKeep DEF ExactOnHomogeneousColumns
<1>3. /\ All(pushed, Cosmos)' <=> All(pushed', Cosmos)
      /\ All(kept, Local)' <=> All(kept', Local)
      /\ All(pending, Local)' <=> All(pending', Local)
      /\ All(conjuncts, Local)' <=> All(conjuncts', Local)
  BY <1>1, EvaluationsKeep DEF All
<1>4. CASE Push
  <2>1. pending # <<>> /\ Head(pending) \in Filters
    BY <1>4 DEF Push, TypeOK
  <2>2. Cosmos(Translate(Head(pending))) = "T" <=> Local(Head(pending)) = "T"
    BY <1>2, <1>4, <2>1, FilterExact DEF Push
  <2>3. /\ pushed' = Append(pushed, Translate(Head(pending)))
        /\ pending' = Tail(pending) /\ kept' = kept
    BY <1>4 DEF Push
  <2>4. All(pushed', Cosmos) <=> All(pushed, Cosmos) /\ Local(Head(pending)) = "T"
    BY <2>2, <2>3, PushedGrows
  <2>5. All(pending, Local) <=> Local(Head(pending)) = "T" /\ All(pending', Local)
    BY <2>1, <2>3, PendingSplits
  <2> QED BY <1>1, <1>2, <1>3, <2>3, <2>4, <2>5 DEF SameRows, Passes
<1>5. CASE Keep
  <2>1. pending # <<>>
    BY <1>5 DEF Keep
  <2>2. /\ kept' = Append(kept, Head(pending))
        /\ pending' = Tail(pending) /\ pushed' = pushed
    BY <1>5 DEF Keep
  <2>3. All(kept', Local) <=> All(kept, Local) /\ Local(Head(pending)) = "T"
    BY <2>2, KeptGrows
  <2>4. All(pending, Local) <=> Local(Head(pending)) = "T" /\ All(pending', Local)
    BY <2>1, <2>2, PendingSplits
  <2> QED BY <1>1, <1>2, <1>3, <2>2, <2>3, <2>4 DEF SameRows, Passes
<1>6. CASE UNCHANGED vars
  BY <1>1, <1>2, <1>3, <1>6 DEF vars, SameRows, Passes
<1> QED BY <1>4, <1>5, <1>6 DEF Next

(* The sequences hold filters of the forms the code produces: above all,   *)
(* no NULL literal is ever in the Cosmos WHERE clause (render_scalar).     *)
THEOREM TypeCorrect == Spec => []TypeOK
<1>1. TypeOK /\ [Next]_vars => TypeOK'
  BY TypeStep
<1> QED BY InitType, <1>1, PTL DEF Spec

(* The correctness contract (predicate.rs:5-10) on a homogeneous column,   *)
(* for all values and operators and whatever the service's comparisons     *)
(* with null or with values of another type give.                          *)
THEOREM Contract == Spec => []ExactOnHomogeneousColumns
<1>1. Init => ExactOnHomogeneousColumns
  BY DEF Init, ExactOnHomogeneousColumns, SameRows, Passes, All
<1>2. TypeOK /\ ExactOnHomogeneousColumns /\ [Next]_vars
        => ExactOnHomogeneousColumns'
  BY RowsStep
<1> QED BY <1>1, <1>2, TypeCorrect, PTL DEF Spec
=============================================================================
