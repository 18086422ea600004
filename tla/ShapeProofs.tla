---------------------------- MODULE ShapeProofs -----------------------------
(***************************************************************************)
(* Proofs about values, shapes and types: that the functions on them are   *)
(* defined, that the merged shape is where the values agree, and what      *)
(* becomes of values whose shape is merged.                                *)
(***************************************************************************)
EXTENDS Shapes, Numbers

----------------------------------------------------------------------------
(* The sets of values and trees. *)

Levels == 0 .. MaxDepth

(* Induction over levels, where zero is no special case. *)
LEMMA LevelInduction ==
  ASSUME NEW S, \A n \in Levels : (n # 0 => n - 1 \in S) => n \in S
  PROVE  \A n \in Levels : n \in S
<1> USE DepthAssumption DEF Levels
<1> DEFINE T == {n \in Nat : n <= MaxDepth => n \in S}
<1>1. 0 \in T
  OBVIOUS
<1>2. ASSUME NEW n \in Nat, n \in T PROVE n + 1 \in T
  <2> SUFFICES ASSUME n + 1 <= MaxDepth PROVE n + 1 \in S
    OBVIOUS
  <2>1. n + 1 \in Levels /\ (n + 1) - 1 = n /\ n \in S
    BY <1>2
  <2> QED
    BY <2>1
<1> HIDE DEF T
<1>3. Nat \subseteq T
  BY <1>1, <1>2, Induction
<1> QED
  BY <1>3 DEF T

(* The values one level above those in P, and the trees. *)
ValuesOver(P, n) ==
  ScalarValues \cup
    IF n = 0 THEN {}
    ELSE [kind : {"object", "str"}, of : {"object"}, sub : [FieldNames -> P]]
         \cup [kind : {"array", "str"}, of : {"array"}, sub : Seq(P)]

TreesOver(P, n) ==
  [tag : Leaves, sub : {<<>>}] \cup [tag : {"Decimal128"}, sub : Decimals] \cup
    IF n = 0 THEN {}
    ELSE [tag : {"Object", "Struct"}, sub : [FieldNames -> P]]
         \cup [tag : {"Array", "List"}, sub : [1 .. 1 -> P]]

LEMMA ValuesToIs ==
  ASSUME NEW n \in Levels
  PROVE  ValuesTo[n] = ValuesOver(ValuesTo[n - 1], n)
<1> USE DepthAssumption DEF Levels
<1> DEFINE Good(m, g) == g = [i \in 0 .. m |-> ValuesOver(g[i - 1], i)]
           T == {m \in Nat : \E g : Good(m, g)}
<1>0. \A P, Q : ValuesOver(P, 0) = ValuesOver(Q, 0)
  BY DEF ValuesOver
<1>1. 0 \in T
  <2>1. Good(0, [i \in 0 .. 0 |-> ValuesOver({}, 0)])
    BY <1>0
  <2> QED
    BY <2>1
<1>2. ASSUME NEW m \in Nat, m \in T PROVE m + 1 \in T
  <2>1. PICK g : Good(m, g)
    BY <1>2
  <2> DEFINE f == [i \in 0 .. m + 1 |-> ValuesOver(g[i - 1], i)]
  <2>2. \A i \in 1 .. m + 1 : f[i - 1] = g[i - 1]
    BY <2>1
  <2>3. \A i \in 0 .. m + 1 : f[i] = ValuesOver(g[i - 1], i)
    OBVIOUS
  <2>4. f = [i \in 0 .. m + 1 |-> f[i]]
    OBVIOUS
  <2> HIDE DEF f
  <2>5. \A i \in 1 .. m + 1 : f[i] = ValuesOver(f[i - 1], i)
    BY <2>2, <2>3
  <2>6. f[0] = ValuesOver(f[0 - 1], 0)
    BY <1>0, <2>3
  <2>7. \A i \in 0 .. m + 1 : f[i] = ValuesOver(f[i - 1], i)
    <3> SUFFICES ASSUME NEW i \in 0 .. m + 1 PROVE f[i] = ValuesOver(f[i - 1], i)
      OBVIOUS
    <3>1. i = 0 \/ i \in 1 .. m + 1
      OBVIOUS
    <3> QED
      BY <2>5, <2>6, <3>1
  <2>8. f = [i \in 0 .. m + 1 |-> ValuesOver(f[i - 1], i)]
    BY <2>4, <2>7
  <2> QED
    BY <2>8
<1> HIDE DEF T
<1>3. MaxDepth \in T
  BY <1>1, <1>2, Induction
<1>4. PICK g : Good(MaxDepth, g)
  BY <1>3 DEF T
<1>5. \E f : f = [i \in 0 .. MaxDepth |-> ValuesOver(f[i - 1], i)]
  BY <1>4
<1>6. ValuesTo = [i \in 0 .. MaxDepth |-> ValuesOver(ValuesTo[i - 1], i)]
  BY <1>5, Zenon DEF ValuesTo, ValuesOver
<1> QED
  BY <1>6

LEMMA TreesToIs ==
  ASSUME NEW n \in Levels
  PROVE  TreesTo[n] = TreesOver(TreesTo[n - 1], n)
<1> USE DepthAssumption DEF Levels
<1> DEFINE Good(m, g) == g = [i \in 0 .. m |-> TreesOver(g[i - 1], i)]
           T == {m \in Nat : \E g : Good(m, g)}
<1>0. \A P, Q : TreesOver(P, 0) = TreesOver(Q, 0)
  BY DEF TreesOver
<1>1. 0 \in T
  <2>1. Good(0, [i \in 0 .. 0 |-> TreesOver({}, 0)])
    BY <1>0
  <2> QED
    BY <2>1
<1>2. ASSUME NEW m \in Nat, m \in T PROVE m + 1 \in T
  <2>1. PICK g : Good(m, g)
    BY <1>2
  <2> DEFINE f == [i \in 0 .. m + 1 |-> TreesOver(g[i - 1], i)]
  <2>2. \A i \in 1 .. m + 1 : f[i - 1] = g[i - 1]
    BY <2>1
  <2>3. \A i \in 0 .. m + 1 : f[i] = TreesOver(g[i - 1], i)
    OBVIOUS
  <2>4. f = [i \in 0 .. m + 1 |-> f[i]]
    OBVIOUS
  <2> HIDE DEF f
  <2>5. \A i \in 1 .. m + 1 : f[i] = TreesOver(f[i - 1], i)
    BY <2>2, <2>3
  <2>6. f[0] = TreesOver(f[0 - 1], 0)
    BY <1>0, <2>3
  <2>7. \A i \in 0 .. m + 1 : f[i] = TreesOver(f[i - 1], i)
    <3> SUFFICES ASSUME NEW i \in 0 .. m + 1 PROVE f[i] = TreesOver(f[i - 1], i)
      OBVIOUS
    <3>1. i = 0 \/ i \in 1 .. m + 1
      OBVIOUS
    <3> QED
      BY <2>5, <2>6, <3>1
  <2>8. f = [i \in 0 .. m + 1 |-> TreesOver(f[i - 1], i)]
    BY <2>4, <2>7
  <2> QED
    BY <2>8
<1> HIDE DEF T
<1>3. MaxDepth \in T
  BY <1>1, <1>2, Induction
<1>4. PICK g : Good(MaxDepth, g)
  BY <1>3 DEF T
<1>5. \E f : f = [i \in 0 .. MaxDepth |-> TreesOver(f[i - 1], i)]
  BY <1>4
<1>6. TreesTo = [i \in 0 .. MaxDepth |-> TreesOver(TreesTo[i - 1], i)]
  BY <1>5, Zenon DEF TreesTo, TreesOver
<1> QED
  BY <1>6

(* What a value is made of, and what is made of values. *)
LEMMA ValueFacts ==
  ASSUME NEW n \in Levels, NEW v \in ValuesTo[n]
  PROVE  /\ v = [kind |-> v.kind, of |-> v.of, sub |-> v.sub]
         /\ v.kind \in Scalars \cup Containers
         /\ v.kind = "object" => n # 0 /\ v.sub \in [FieldNames -> ValuesTo[n - 1]]
         /\ v.kind = "array" => n # 0 /\ v.sub \in Seq(ValuesTo[n - 1])
         /\ Text(v) \in ValuesTo[n]
         /\ v.kind \in Scalars \ {"str", "cut"} => v = Scalar(v.kind)
         /\ v.kind \in Scalars \ {"str"} => Cut(v) \in ValuesTo[n]
<1> DEFINE P == ValuesTo[n - 1]
<1>1. ValuesTo[n] = ValuesOver(P, n)
  BY ValuesToIs
<1> HIDE DEF P
<1>2. "str" \in Scalars /\ "object" \notin Scalars /\ "array" \notin Scalars
  BY DEF Scalars, Texts, Dates, Datetimes, Numerals, WholeNumbers, Nothing
<1>3. CASE v \in ScalarValues
  BY <1>1, <1>2, <1>3 DEF ValuesOver, ScalarValues, Scalar, Value, Containers, Text, Cut, Numerals, Scalars
<1>4. CASE /\ n # 0
           /\ v \in [kind : {"object", "str"}, of : {"object"}, sub : [FieldNames -> P]]
  <2>1. Text(v) \in ValuesTo[n]
    BY <1>1, <1>4 DEF ValuesOver, Text
  <2>2. v.sub \in [FieldNames -> P] /\ v.kind \in {"object", "str"}
    BY <1>4
  <2>3. v = [kind |-> v.kind, of |-> v.of, sub |-> v.sub]
    BY <1>4
  <2> QED
    BY <1>2, <1>4, <2>1, <2>2, <2>3 DEF P, Containers
<1>5. CASE /\ n # 0
           /\ v \in [kind : {"array", "str"}, of : {"array"}, sub : Seq(P)]
  <2>1. Text(v) \in ValuesTo[n]
    BY <1>1, <1>5 DEF ValuesOver, Text
  <2>2. v.sub \in Seq(P) /\ v.kind \in {"array", "str"}
    BY <1>5
  <2>3. v = [kind |-> v.kind, of |-> v.of, sub |-> v.sub]
    BY <1>5
  <2> QED
    BY <1>2, <1>5, <2>1, <2>2, <2>3 DEF P, Containers
<1> QED
  BY <1>1, <1>3, <1>4, <1>5 DEF ValuesOver

LEMMA ValuesMade ==
  ASSUME NEW n \in Levels
  PROVE  /\ \A k \in Scalars : Scalar(k) \in ValuesTo[n]
         /\ n # 0 => \A v \in ValuesTo[n] :
              /\ v.kind = "object" => \A f \in [FieldNames -> ValuesTo[n - 1]] :
                   [v EXCEPT !.sub = f] \in ValuesTo[n]
              /\ v.kind = "array" => \A s \in Seq(ValuesTo[n - 1]) :
                   [v EXCEPT !.sub = s] \in ValuesTo[n]
<1> DEFINE P == ValuesTo[n - 1]
<1>1. ValuesTo[n] = ValuesOver(P, n)
  BY ValuesToIs
<1> HIDE DEF P
<1>2. \A k \in Scalars : Scalar(k) \in ValuesTo[n]
  BY <1>1 DEF ValuesOver, ScalarValues, Scalar, Value
<1>3. "object" \notin Scalars /\ "array" \notin Scalars
  BY DEF Scalars, Texts, Dates, Datetimes, Numerals, WholeNumbers, Nothing
<1>4. ASSUME n # 0, NEW v \in ValuesTo[n], v.kind = "object", NEW f \in [FieldNames -> P]
      PROVE  [v EXCEPT !.sub = f] \in ValuesTo[n]
  <2>1. v \in [kind : {"object", "str"}, of : {"object"}, sub : [FieldNames -> P]]
    BY <1>1, <1>3, <1>4 DEF ValuesOver, ScalarValues
  <2>2. [v EXCEPT !.sub = f] \in [kind : {"object", "str"}, of : {"object"}, sub : [FieldNames -> P]]
    BY <2>1
  <2> QED
    BY <1>1, <1>4, <2>2 DEF ValuesOver
<1>5. ASSUME n # 0, NEW v \in ValuesTo[n], v.kind = "array", NEW s \in Seq(P)
      PROVE  [v EXCEPT !.sub = s] \in ValuesTo[n]
  <2>1. v \in [kind : {"array", "str"}, of : {"array"}, sub : Seq(P)]
    BY <1>1, <1>3, <1>5 DEF ValuesOver, ScalarValues
  <2>2. [v EXCEPT !.sub = s] \in [kind : {"array", "str"}, of : {"array"}, sub : Seq(P)]
    BY <2>1
  <2> QED
    BY <1>1, <1>5, <2>2 DEF ValuesOver
<1> QED
  BY <1>2, <1>4, <1>5 DEF P

(* What nests less deep nests no deeper. *)
LEMMA ValuesBelow ==
  ASSUME NEW n \in Levels
  PROVE  ValuesTo[n] \subseteq Values /\ (n # 0 => ValuesTo[n - 1] \subseteq ValuesTo[n])
<1> USE DepthAssumption DEF Levels
<1>1. \A P, Q, i, j : P \subseteq Q /\ (j = 0 => i = 0) => ValuesOver(P, i) \subseteq ValuesOver(Q, j)
  BY DEF ValuesOver
<1> DEFINE S == {i \in Levels : i # 0 => ValuesTo[i - 1] \subseteq ValuesTo[i]}
<1>2. ASSUME NEW i \in Levels, i # 0 => i - 1 \in S PROVE i \in S
  <2> SUFFICES ASSUME i # 0 PROVE ValuesTo[i - 1] \subseteq ValuesTo[i]
    OBVIOUS
  <2>1. i - 1 \in Levels
    OBVIOUS
  <2>2. /\ ValuesTo[i] = ValuesOver(ValuesTo[i - 1], i)
        /\ ValuesTo[i - 1] = ValuesOver(ValuesTo[i - 2], i - 1)
    BY <2>1, ValuesToIs
  <2>3. CASE i - 1 = 0
    BY <2>2, <2>3 DEF ValuesOver
  <2>4. CASE i - 1 # 0
    <3>1. ValuesTo[i - 2] \subseteq ValuesTo[i - 1]
      BY <1>2, <2>4
    <3> QED
      BY <1>1, <2>2, <3>1
  <2> QED
    BY <2>3, <2>4
<1> HIDE DEF S
<1>3. \A i \in Levels : i \in S
  BY <1>2, LevelInduction
<1> DEFINE R == {d \in Nat : n + d <= MaxDepth => ValuesTo[n] \subseteq ValuesTo[n + d]}
<1>4. 0 \in R
  OBVIOUS
<1>5. ASSUME NEW d \in Nat, d \in R PROVE d + 1 \in R
  <2> SUFFICES ASSUME n + (d + 1) <= MaxDepth PROVE ValuesTo[n] \subseteq ValuesTo[n + (d + 1)]
    OBVIOUS
  <2>1. n + (d + 1) \in Levels /\ n + (d + 1) # 0 /\ n + (d + 1) - 1 = n + d
    OBVIOUS
  <2>2. ValuesTo[n + d] \subseteq ValuesTo[n + (d + 1)]
    BY <1>3, <2>1 DEF S
  <2> QED
    BY <1>5, <2>2
<1> HIDE DEF R
<1>6. MaxDepth - n \in R
  BY <1>4, <1>5, Induction
<1>7. ValuesTo[n] \subseteq Values
  BY <1>6 DEF R, Values
<1> QED
  BY <1>3, <1>7 DEF S

LEMMA TreeFacts ==
  ASSUME NEW n \in Levels, NEW t \in TreesTo[n]
  PROVE  /\ t = [tag |-> t.tag, sub |-> t.sub]
         /\ \/ t.tag \in Leaves /\ t = Leaf(t.tag)
            \/ t.tag = "Decimal128" /\ t.sub \in Decimals
            \/ n # 0 /\ t.tag \in {"Object", "Struct"} /\ t.sub \in [FieldNames -> TreesTo[n - 1]]
            \/ n # 0 /\ t.tag \in {"Array", "List"} /\ t.sub \in [1 .. 1 -> TreesTo[n - 1]]
<1> DEFINE P == TreesTo[n - 1]
<1>1. TreesTo[n] = TreesOver(P, n)
  BY TreesToIs
<1> HIDE DEF P
<1>2. CASE t \in [tag : Leaves, sub : {<<>>}]
  BY <1>2 DEF Leaf, Tree
<1>3. CASE n # 0 /\ t \in [tag : {"Object", "Struct"}, sub : [FieldNames -> P]]
  <2>1. t = [tag |-> t.tag, sub |-> t.sub] /\ t.tag \in {"Object", "Struct"}
    BY <1>3
  <2>2. t.sub \in [FieldNames -> P]
    BY <1>3
  <2> QED
    BY <1>3, <2>1, <2>2 DEF P
<1>4. CASE n # 0 /\ t \in [tag : {"Array", "List"}, sub : [1 .. 1 -> P]]
  <2>1. t = [tag |-> t.tag, sub |-> t.sub] /\ t.tag \in {"Array", "List"}
    BY <1>4
  <2>2. t.sub \in [1 .. 1 -> P]
    BY <1>4
  <2> QED
    BY <1>4, <2>1, <2>2 DEF P
<1>5. CASE t \in [tag : {"Decimal128"}, sub : Decimals]
  BY <1>5
<1> QED
  BY <1>1, <1>2, <1>3, <1>4, <1>5 DEF TreesOver

LEMMA TreesMade ==
  ASSUME NEW n \in Levels
  PROVE  /\ \A l \in Leaves : Leaf(l) \in TreesTo[n]
         /\ \A d \in Decimals : Decimal128(d) \in TreesTo[n]
         /\ n # 0 =>
              /\ \A f \in [FieldNames -> TreesTo[n - 1]] :
                   Tree("Object", f) \in TreesTo[n] /\ Tree("Struct", f) \in TreesTo[n]
              /\ \A e \in TreesTo[n - 1] :
                   Tree("Array", <<e>>) \in TreesTo[n] /\ Tree("List", <<e>>) \in TreesTo[n]
<1> DEFINE P == TreesTo[n - 1]
<1>1. TreesTo[n] = TreesOver(P, n)
  BY TreesToIs
<1> HIDE DEF P
<1>2. \A l \in Leaves : Leaf(l) \in TreesTo[n]
  BY <1>1 DEF TreesOver, Leaf, Tree
<1>3. ASSUME n # 0, NEW f \in [FieldNames -> P]
      PROVE  Tree("Object", f) \in TreesTo[n] /\ Tree("Struct", f) \in TreesTo[n]
  BY <1>1, <1>3 DEF TreesOver, Tree
<1>4. ASSUME n # 0, NEW e \in P
      PROVE  Tree("Array", <<e>>) \in TreesTo[n] /\ Tree("List", <<e>>) \in TreesTo[n]
  <2>1. <<e>> \in [1 .. 1 -> P]
    OBVIOUS
  <2> QED
    BY <1>1, <1>4, <2>1 DEF TreesOver, Tree
<1>5. \A d \in Decimals : Decimal128(d) \in TreesTo[n]
  BY <1>1 DEF TreesOver, Decimal128, Tree
<1> QED
  BY <1>2, <1>3, <1>4, <1>5 DEF P

LEMMA TreesBelow ==
  ASSUME NEW n \in Levels
  PROVE  TreesTo[n] \subseteq Trees /\ (n # 0 => TreesTo[n - 1] \subseteq TreesTo[n])
<1> USE DepthAssumption DEF Levels
<1>1. \A P, Q, i, j : P \subseteq Q /\ (j = 0 => i = 0) => TreesOver(P, i) \subseteq TreesOver(Q, j)
  BY DEF TreesOver
<1> DEFINE S == {i \in Levels : i # 0 => TreesTo[i - 1] \subseteq TreesTo[i]}
<1>2. ASSUME NEW i \in Levels, i # 0 => i - 1 \in S PROVE i \in S
  <2> SUFFICES ASSUME i # 0 PROVE TreesTo[i - 1] \subseteq TreesTo[i]
    OBVIOUS
  <2>1. i - 1 \in Levels
    OBVIOUS
  <2>2. /\ TreesTo[i] = TreesOver(TreesTo[i - 1], i)
        /\ TreesTo[i - 1] = TreesOver(TreesTo[i - 2], i - 1)
    BY <2>1, TreesToIs
  <2>3. CASE i - 1 = 0
    BY <2>2, <2>3 DEF TreesOver
  <2>4. CASE i - 1 # 0
    <3>1. TreesTo[i - 2] \subseteq TreesTo[i - 1]
      BY <1>2, <2>4
    <3> QED
      BY <1>1, <2>2, <3>1
  <2> QED
    BY <2>3, <2>4
<1> HIDE DEF S
<1>3. \A i \in Levels : i \in S
  BY <1>2, LevelInduction
<1> DEFINE R == {d \in Nat : n + d <= MaxDepth => TreesTo[n] \subseteq TreesTo[n + d]}
<1>4. 0 \in R
  OBVIOUS
<1>5. ASSUME NEW d \in Nat, d \in R PROVE d + 1 \in R
  <2> SUFFICES ASSUME n + (d + 1) <= MaxDepth PROVE TreesTo[n] \subseteq TreesTo[n + (d + 1)]
    OBVIOUS
  <2>1. n + (d + 1) \in Levels /\ n + (d + 1) # 0 /\ n + (d + 1) - 1 = n + d
    OBVIOUS
  <2>2. TreesTo[n + d] \subseteq TreesTo[n + (d + 1)]
    BY <1>3, <2>1 DEF S
  <2> QED
    BY <1>5, <2>2
<1> HIDE DEF R
<1>6. MaxDepth - n \in R
  BY <1>4, <1>5, Induction
<1>7. TreesTo[n] \subseteq Trees
  BY <1>6 DEF R, Trees
<1> QED
  BY <1>3, <1>7 DEF S

LEMMA PartsBelow ==
  ASSUME NEW n \in Levels, NEW v \in ValuesTo[n], NEW m \in Levels, NEW t \in TreesTo[m],
         Descends(t, v), NEW k \in DOMAIN v.sub
  PROVE  /\ n # 0 /\ v.sub[k] \in ValuesTo[n - 1]
         /\ m # 0 /\ Part(t, k) \in TreesTo[m - 1]
<1>1. CASE v.kind = "object" /\ t.tag \in {"Object", "Struct"}
  <2>1. n # 0 /\ v.sub \in [FieldNames -> ValuesTo[n - 1]]
    BY <1>1, ValueFacts
  <2>2. m # 0 /\ t.sub \in [FieldNames -> TreesTo[m - 1]]
    BY <1>1, TreeFacts DEF Leaves
  <2> QED
    BY <1>1, <2>1, <2>2 DEF Part
<1>2. CASE v.kind = "array" /\ t.tag \in {"Array", "List"}
  <2>1. n # 0 /\ v.sub \in Seq(ValuesTo[n - 1])
    BY <1>2, ValueFacts
  <2>2. m # 0 /\ t.sub \in [1 .. 1 -> TreesTo[m - 1]]
    BY <1>2, TreeFacts DEF Leaves
  <2> QED
    BY <1>2, <2>1, <2>2 DEF Part
<1> QED
  BY <1>1, <1>2 DEF Descends

(* The parts of containers and trees are one level down. *)
LEMMA PartBelow ==
  ASSUME NEW n \in Levels
  PROVE  /\ \A v \in ValuesTo[n] : v.kind \in Containers =>
              n # 0 /\ \A k \in DOMAIN v.sub : v.sub[k] \in ValuesTo[n - 1]
         /\ \A t \in TreesTo[n] : t.tag # "Decimal128" =>
              \A k \in DOMAIN t.sub : n # 0 /\ t.sub[k] \in TreesTo[n - 1]
<1>1. ASSUME NEW v \in ValuesTo[n], v.kind \in Containers
      PROVE  n # 0 /\ \A k \in DOMAIN v.sub : v.sub[k] \in ValuesTo[n - 1]
  BY <1>1, ValueFacts DEF Containers
<1>2. ASSUME NEW t \in TreesTo[n], t.tag # "Decimal128", NEW k \in DOMAIN t.sub
      PROVE  n # 0 /\ t.sub[k] \in TreesTo[n - 1]
  BY <1>2, TreeFacts DEF Leaf, Tree
<1> QED
  BY <1>1, <1>2

LEMMA SetsBelow ==
  ASSUME NEW n \in Levels, NEW ws \in SUBSET ValuesTo[n]
  PROVE  /\ "object" \in KindsOf(ws) => n # 0
         /\ "array" \in KindsOf(ws) => n # 0
         /\ n # 0 => /\ \A k \in FieldNames : At(ws, k) \in SUBSET ValuesTo[n - 1]
                     /\ Elements(ws) \in SUBSET ValuesTo[n - 1]
         /\ n = 0 => Elements(ws) = {} /\ \A k : At(ws, k) = {}
<1>1. "object" \in KindsOf(ws) => n # 0
  BY ValueFacts DEF KindsOf
<1>2. "array" \in KindsOf(ws) => n # 0
  BY ValueFacts DEF KindsOf
<1>3. ASSUME n # 0, NEW k \in FieldNames PROVE At(ws, k) \in SUBSET ValuesTo[n - 1]
  <2>1. \A v \in ws : v.kind = "object" => v.sub[k] \in ValuesTo[n - 1]
    BY ValueFacts
  <2> QED
    BY <2>1 DEF At
<1>4. ASSUME n # 0 PROVE Elements(ws) \in SUBSET ValuesTo[n - 1]
  <2>1. \A v \in ws : v.kind = "array" => \A i \in DOMAIN v.sub : v.sub[i] \in ValuesTo[n - 1]
    BY PartBelow DEF Containers
  <2> QED
    BY <2>1 DEF Elements
<1>5. ASSUME n = 0 PROVE Elements(ws) = {} /\ \A k : At(ws, k) = {}
  <2>1. \A v \in ws : v.kind \notin {"object", "array"}
    BY <1>5, ValueFacts
  <2> QED
    BY <2>1 DEF At, Elements
<1> QED
  BY <1>1, <1>2, <1>3, <1>4, <1>5

----------------------------------------------------------------------------
(* The functions are defined: each is of a value or a tree what it says of *)
(* one, in terms of its parts. *)

LEMMA NormalizeIs ==
  ASSUME NEW v \in Values, NEW s \in Trees
  PROVE  Normalize(v, s) =
           IF s = Conflict THEN Stringify(v)
           ELSE IF ~Descends(s, v) THEN v
           ELSE [v EXCEPT !.sub = [k \in DOMAIN v.sub |-> Normalize(v.sub[k], Part(s, k))]]
<1> USE DepthAssumption DEF Levels
<1> DEFINE Body(g, u, t) ==
             IF t = Conflict THEN Stringify(u)
             ELSE IF ~Descends(t, u) THEN u
             ELSE [u EXCEPT !.sub = [k \in DOMAIN u.sub |-> g[u.sub[k]][Part(t, k)]]]
           Row(g, u) == [t \in Trees |-> Body(g, u, t)]
           Good(n, g) == g = [u \in ValuesTo[n] |-> Row(g, u)]
           S == {n \in Levels : \E g : Good(n, g)}
<1>1. ASSUME NEW n \in Levels, n # 0 => n - 1 \in S PROVE n \in S
  <2>1. \E g : n # 0 => Good(n - 1, g)
    BY <1>1
  <2> PICK g : n # 0 => Good(n - 1, g)
    BY <2>1
  <2> DEFINE f == [u \in ValuesTo[n] |-> Row(g, u)]
  <2>2. \A u \in ValuesTo[n] : f[u] = Row(g, u)
    OBVIOUS
  <2>3. n # 0 => \A u \in ValuesTo[n - 1] : g[u] = Row(g, u)
    BY <2>1
  <2> HIDE DEF f, Row
  <2>4. n # 0 => \A u \in ValuesTo[n - 1] : f[u] = g[u]
    BY <2>2, <2>3, ValuesBelow
  <2>5. ASSUME NEW u \in ValuesTo[n] PROVE Row(f, u) = Row(g, u)
    <3>1. ASSUME NEW t \in Trees, Descends(t, u), NEW k \in DOMAIN u.sub PROVE f[u.sub[k]] = g[u.sub[k]]
      BY <3>1, <2>4, PartBelow DEF Descends, Containers
    <3>2. ASSUME NEW t \in Trees PROVE Body(f, u, t) = Body(g, u, t)
      BY <3>1
    <3> HIDE DEF Body
    <3> QED
      BY <3>2 DEF Row
  <2>6. f = [u \in ValuesTo[n] |-> Row(f, u)]
    BY <2>5 DEF f
  <2> QED
    BY <2>6
<1> HIDE DEF S
<1>2. MaxDepth \in S
  BY <1>1, LevelInduction
<1>3. \E f : Good(MaxDepth, f)
  BY <1>2 DEF S
<1> DEFINE normalize == CHOOSE f : f = [u \in Values |-> Row(f, u)]
<1>4. normalize = [u \in Values |-> Row(normalize, u)]
  BY <1>3, Zenon DEF Values
<1>5. \A u, t : Normalize(u, t) = normalize[u][t]
  BY DEF Normalize
<1> HIDE DEF normalize, Body
<1>6. Normalize(v, s) = Body(normalize, v, s)
  <2>1. normalize[v] = Row(normalize, v)
    <3> HIDE DEF Row
    <3> QED
      BY <1>4
  <2> QED
    BY <1>5, <2>1
<1>7. [k \in DOMAIN v.sub |-> Normalize(v.sub[k], Part(s, k))]
        = [k \in DOMAIN v.sub |-> normalize[v.sub[k]][Part(s, k)]]
  BY <1>5
<1> QED
  BY <1>6, <1>7, Zenon DEF Body

LEMMA CoerceIs ==
  ASSUME NEW v \in Values, NEW t \in Trees
  PROVE  Coerce(v, t) =
           IF t.tag = "Utf8" THEN Stringify(v)
           ELSE IF ~Descends(t, v) THEN v
           ELSE [v EXCEPT !.sub = [k \in DOMAIN v.sub |-> Coerce(v.sub[k], Part(t, k))]]
<1> USE DepthAssumption DEF Levels
<1> DEFINE Body(g, u, s) ==
             IF s.tag = "Utf8" THEN Stringify(u)
             ELSE IF ~Descends(s, u) THEN u
             ELSE [u EXCEPT !.sub = [k \in DOMAIN u.sub |-> g[u.sub[k]][Part(s, k)]]]
           Row(g, u) == [s \in Trees |-> Body(g, u, s)]
           Good(n, g) == g = [u \in ValuesTo[n] |-> Row(g, u)]
           S == {n \in Levels : \E g : Good(n, g)}
<1>1. ASSUME NEW n \in Levels, n # 0 => n - 1 \in S PROVE n \in S
  <2>1. \E g : n # 0 => Good(n - 1, g)
    BY <1>1
  <2> PICK g : n # 0 => Good(n - 1, g)
    BY <2>1
  <2> DEFINE f == [u \in ValuesTo[n] |-> Row(g, u)]
  <2>2. \A u \in ValuesTo[n] : f[u] = Row(g, u)
    OBVIOUS
  <2>3. n # 0 => \A u \in ValuesTo[n - 1] : g[u] = Row(g, u)
    BY <2>1
  <2> HIDE DEF f, Row
  <2>4. n # 0 => \A u \in ValuesTo[n - 1] : f[u] = g[u]
    BY <2>2, <2>3, ValuesBelow
  <2>5. ASSUME NEW u \in ValuesTo[n] PROVE Row(f, u) = Row(g, u)
    <3>1. ASSUME NEW s \in Trees, Descends(s, u), NEW k \in DOMAIN u.sub PROVE f[u.sub[k]] = g[u.sub[k]]
      BY <3>1, <2>4, PartBelow DEF Descends, Containers
    <3>2. ASSUME NEW s \in Trees PROVE Body(f, u, s) = Body(g, u, s)
      BY <3>1
    <3> HIDE DEF Body
    <3> QED
      BY <3>2 DEF Row
  <2>6. f = [u \in ValuesTo[n] |-> Row(f, u)]
    BY <2>5 DEF f
  <2> QED
    BY <2>6
<1> HIDE DEF S
<1>2. MaxDepth \in S
  BY <1>1, LevelInduction
<1>3. \E f : Good(MaxDepth, f)
  BY <1>2 DEF S
<1> DEFINE coerce == CHOOSE f : f = [u \in Values |-> Row(f, u)]
<1>4. coerce = [u \in Values |-> Row(coerce, u)]
  BY <1>3, Zenon DEF Values
<1>5. \A u, s : Coerce(u, s) = coerce[u][s]
  BY DEF Coerce
<1> HIDE DEF coerce, Body
<1>6. Coerce(v, t) = Body(coerce, v, t)
  <2>1. coerce[v] = Row(coerce, v)
    <3> HIDE DEF Row
    <3> QED
      BY <1>4
  <2> QED
    BY <1>5, <2>1
<1>7. [k \in DOMAIN v.sub |-> Coerce(v.sub[k], Part(t, k))]
        = [k \in DOMAIN v.sub |-> coerce[v.sub[k]][Part(t, k)]]
  BY <1>5
<1> QED
  BY <1>6, <1>7, Zenon DEF Body

(* The cells of what is decoded. *)
Cells(v, t) == [k \in DOMAIN v.sub |-> Decode(v.sub[k], Part(t, k))]

LEMMA DecodeIs ==
  ASSUME NEW v \in Values, NEW t \in Trees
  PROVE  Decode(v, t) =
           IF t = NoField THEN Absent
           ELSE IF v.kind \in Nothing THEN Null
           ELSE IF v.kind \notin Takes(t) THEN Bad
           ELSE IF v.kind \in Cuts(t) THEN Cut(v)
           ELSE IF ~Descends(t, v) THEN v
           ELSE IF \E k \in DOMAIN Cells(v, t) : Cells(v, t)[k] = Bad THEN Bad
           ELSE [v EXCEPT !.sub = Cells(v, t)]
<1> USE DepthAssumption DEF Levels
<1> DEFINE Body(g, u, s) ==
             LET cells == [k \in DOMAIN u.sub |-> g[u.sub[k]][Part(s, k)]]
             IN  IF s = NoField THEN Absent
                 ELSE IF u.kind \in Nothing THEN Null
                 ELSE IF u.kind \notin Takes(s) THEN Bad
                 ELSE IF u.kind \in Cuts(s) THEN Cut(u)
                 ELSE IF ~Descends(s, u) THEN u
                 ELSE IF \E k \in DOMAIN cells : cells[k] = Bad THEN Bad
                 ELSE [u EXCEPT !.sub = cells]
           Row(g, u) == [s \in Trees |-> Body(g, u, s)]
           Good(n, g) == g = [u \in ValuesTo[n] |-> Row(g, u)]
           S == {n \in Levels : \E g : Good(n, g)}
<1>1. ASSUME NEW n \in Levels, n # 0 => n - 1 \in S PROVE n \in S
  <2>1. \E g : n # 0 => Good(n - 1, g)
    BY <1>1
  <2> PICK g : n # 0 => Good(n - 1, g)
    BY <2>1
  <2> DEFINE f == [u \in ValuesTo[n] |-> Row(g, u)]
  <2>2. \A u \in ValuesTo[n] : f[u] = Row(g, u)
    OBVIOUS
  <2>3. n # 0 => \A u \in ValuesTo[n - 1] : g[u] = Row(g, u)
    BY <2>1
  <2> HIDE DEF f, Row
  <2>4. n # 0 => \A u \in ValuesTo[n - 1] : f[u] = g[u]
    BY <2>2, <2>3, ValuesBelow
  <2>5. ASSUME NEW u \in ValuesTo[n] PROVE Row(f, u) = Row(g, u)
    <3>1. ASSUME NEW s \in Trees, Descends(s, u), NEW k \in DOMAIN u.sub PROVE f[u.sub[k]] = g[u.sub[k]]
      BY <3>1, <2>4, PartBelow DEF Descends, Containers
    <3>2. ASSUME NEW s \in Trees PROVE Body(f, u, s) = Body(g, u, s)
      BY <3>1
    <3> HIDE DEF Body
    <3> QED
      BY <3>2 DEF Row
  <2>6. f = [u \in ValuesTo[n] |-> Row(f, u)]
    BY <2>5 DEF f
  <2> QED
    BY <2>6
<1> HIDE DEF S
<1>2. MaxDepth \in S
  BY <1>1, LevelInduction
<1>3. \E f : Good(MaxDepth, f)
  BY <1>2 DEF S
<1> DEFINE decode == CHOOSE f : f = [u \in Values |-> Row(f, u)]
<1>4. decode = [u \in Values |-> Row(decode, u)]
  BY <1>3, Zenon DEF Values
<1>5. \A u, s : Decode(u, s) = decode[u][s]
  BY DEF Decode
<1> HIDE DEF decode, Body
<1>6. Decode(v, t) = Body(decode, v, t)
  <2>1. decode[v] = Row(decode, v)
    <3> HIDE DEF Row
    <3> QED
      BY <1>4
  <2> QED
    BY <1>5, <2>1
<1>7. Cells(v, t) = [k \in DOMAIN v.sub |-> decode[v.sub[k]][Part(t, k)]]
  BY <1>5 DEF Cells
<1> QED
  BY <1>6, <1>7, Zenon DEF Body

LEMMA MergeIs ==
  ASSUME NEW a \in Trees, NEW b \in Trees
  PROVE  Merge(a, b) =
           IF a = Unknown THEN b
           ELSE IF b = Unknown THEN a
           ELSE IF a.tag # b.tag THEN Conflict
           ELSE IF a.tag \notin {"Object", "Array"} THEN a
           ELSE Tree(a.tag, [k \in DOMAIN a.sub |-> Merge(a.sub[k], b.sub[k])])
<1> USE DepthAssumption DEF Levels
<1> DEFINE Body(g, s, t) ==
             IF s = Unknown THEN t
             ELSE IF t = Unknown THEN s
             ELSE IF s.tag # t.tag THEN Conflict
             ELSE IF s.tag \notin {"Object", "Array"} THEN s
             ELSE Tree(s.tag, [k \in DOMAIN s.sub |-> g[s.sub[k]][t.sub[k]]])
           Row(g, s) == [t \in Trees |-> Body(g, s, t)]
           Good(n, g) == g = [s \in TreesTo[n] |-> Row(g, s)]
           S == {n \in Levels : \E g : Good(n, g)}
<1>1. ASSUME NEW n \in Levels, n # 0 => n - 1 \in S PROVE n \in S
  <2>1. \E g : n # 0 => Good(n - 1, g)
    BY <1>1
  <2> PICK g : n # 0 => Good(n - 1, g)
    BY <2>1
  <2> DEFINE f == [s \in TreesTo[n] |-> Row(g, s)]
  <2>2. \A s \in TreesTo[n] : f[s] = Row(g, s)
    OBVIOUS
  <2>3. n # 0 => \A s \in TreesTo[n - 1] : g[s] = Row(g, s)
    BY <2>1
  <2> HIDE DEF f, Row
  <2>4. n # 0 => \A s \in TreesTo[n - 1] : f[s] = g[s]
    BY <2>2, <2>3, TreesBelow
  <2>5. ASSUME NEW s \in TreesTo[n] PROVE Row(f, s) = Row(g, s)
    <3>1. ASSUME s.tag \in {"Object", "Array"}, NEW k \in DOMAIN s.sub PROVE f[s.sub[k]] = g[s.sub[k]]
      BY <3>1, <2>4, PartBelow
    <3>2. ASSUME NEW t \in Trees PROVE Body(f, s, t) = Body(g, s, t)
      BY <3>1
    <3> HIDE DEF Body
    <3> QED
      BY <3>2 DEF Row
  <2>6. f = [s \in TreesTo[n] |-> Row(f, s)]
    BY <2>5 DEF f
  <2> QED
    BY <2>6
<1> HIDE DEF S
<1>2. MaxDepth \in S
  BY <1>1, LevelInduction
<1>3. \E f : Good(MaxDepth, f)
  BY <1>2 DEF S
<1> DEFINE merge == CHOOSE f : f = [s \in Trees |-> Row(f, s)]
<1>4. merge = [s \in Trees |-> Row(merge, s)]
  BY <1>3, Zenon DEF Trees
<1>5. \A u, t : Merge(u, t) = merge[u][t]
  BY DEF Merge
<1> HIDE DEF merge, Body
<1>6. Merge(a, b) = Body(merge, a, b)
  <2>1. merge[a] = Row(merge, a)
    <3> HIDE DEF Row
    <3> QED
      BY <1>4
  <2> QED
    BY <1>5, <2>1
<1>7. [k \in DOMAIN a.sub |-> Merge(a.sub[k], b.sub[k])]
        = [k \in DOMAIN a.sub |-> merge[a.sub[k]][b.sub[k]]]
  BY <1>5
<1> QED
  BY <1>6, <1>7, Zenon DEF Body

(* The kinds of what there is, and the shapes they have. *)
LEMMA KindFacts ==
  /\ \A n \in Levels : \A ws \in SUBSET ValuesTo[n] : KindsOf(ws) \subseteq (Scalars \ Nothing) \cup Containers
  /\ \A k \in (Scalars \ Nothing) \cup Containers :
       /\ ShapeTag(k) = "Object" <=> k = "object"
       /\ ShapeTag(k) = "Array" <=> k = "array"
       /\ ShapeTag(k) = "Bool" <=> k = "bool"
       /\ ShapeTag(k) = "Number" <=> k \in Numerals
       /\ ShapeTag(k) = "Str" <=> k \in Texts
       /\ ShapeTag(k) \in {"Object", "Array", "Bool", "Number", "Str"}
<1>1. ASSUME NEW n \in Levels, NEW ws \in SUBSET ValuesTo[n] PROVE KindsOf(ws) \subseteq (Scalars \ Nothing) \cup Containers
  BY ValueFacts DEF KindsOf
<1>2. \A k \in (Scalars \ Nothing) \cup Containers :
       /\ ShapeTag(k) = "Object" <=> k = "object"
       /\ ShapeTag(k) = "Array" <=> k = "array"
       /\ ShapeTag(k) = "Bool" <=> k = "bool"
       /\ ShapeTag(k) = "Number" <=> k \in Numerals
       /\ ShapeTag(k) = "Str" <=> k \in Texts
       /\ ShapeTag(k) \in {"Object", "Array", "Bool", "Number", "Str"}
  <2>1. /\ {"object", "array", "bool"} \cap (Nothing \cup Numerals \cup Texts) = {}
        /\ Nothing \cap (Numerals \cup Texts) = {} /\ Numerals \cap Texts = {}
    BY DEF Nothing, Numerals, WholeNumbers, Texts, Dates, Datetimes
  <2>2. (Scalars \ Nothing) \cup Containers = {"object", "array", "bool"} \cup Numerals \cup Texts
    BY <2>1 DEF Scalars, Containers
  <2>3. \A k \in Numerals : ShapeTag(k) = "Number"
    BY <2>1 DEF ShapeTag
  <2>4. \A k \in Texts : ShapeTag(k) = "Str"
    BY <2>1 DEF ShapeTag
  <2>5. ShapeTag("object") = "Object" /\ ShapeTag("array") = "Array" /\ ShapeTag("bool") = "Bool"
    BY <2>1 DEF ShapeTag
  <2> QED
    BY <2>1, <2>2, <2>3, <2>4, <2>5
<1> QED
  BY <1>1, <1>2

LEMMA TransformIs ==
  ASSUME NEW opts, NEW t \in Trees, NEW vs \in SUBSET Values
  PROVE  Transform(opts, t, vs) =
           IF t.tag = "Struct"
           THEN Tree("Struct", [k \in FieldNames |-> Transform(opts, t.sub[k], At(vs, k))])
           ELSE IF t.tag = "List" THEN Tree("List", <<Transform(opts, t.sub[1], Elements(vs))>>)
           ELSE TransformLeaf(opts, t, KindsOf(vs))
<1> USE DepthAssumption DEF Levels
<1> DEFINE Body(g, s, ws) ==
             IF s.tag = "Struct"
             THEN Tree("Struct", [k \in FieldNames |-> g[s.sub[k]][At(ws, k)]])
             ELSE IF s.tag = "List" THEN Tree("List", <<g[s.sub[1]][Elements(ws)]>>)
             ELSE TransformLeaf(opts, s, KindsOf(ws))
           Row(g, s) == [ws \in SUBSET Values |-> Body(g, s, ws)]
           Good(n, g) == g = [s \in TreesTo[n] |-> Row(g, s)]
           S == {n \in Levels : \E g : Good(n, g)}
<1>1. ASSUME NEW n \in Levels, n # 0 => n - 1 \in S PROVE n \in S
  <2>1. \E g : n # 0 => Good(n - 1, g)
    BY <1>1
  <2> PICK g : n # 0 => Good(n - 1, g)
    BY <2>1
  <2> DEFINE f == [s \in TreesTo[n] |-> Row(g, s)]
  <2>2. \A s \in TreesTo[n] : f[s] = Row(g, s)
    OBVIOUS
  <2>3. n # 0 => \A s \in TreesTo[n - 1] : g[s] = Row(g, s)
    BY <2>1
  <2> HIDE DEF f, Row
  <2>4. n # 0 => \A s \in TreesTo[n - 1] : f[s] = g[s]
    BY <2>2, <2>3, TreesBelow
  <2>5. ASSUME NEW s \in TreesTo[n] PROVE Row(f, s) = Row(g, s)
    <3>1. s.tag = "Struct" => \A k \in FieldNames : f[s.sub[k]] = g[s.sub[k]]
      BY <2>4, TreeFacts DEF Leaves
    <3>2. s.tag = "List" => f[s.sub[1]] = g[s.sub[1]]
      BY <2>4, TreeFacts DEF Leaves
    <3>3. ASSUME NEW ws \in SUBSET Values PROVE Body(f, s, ws) = Body(g, s, ws)
      BY <3>1, <3>2
    <3> HIDE DEF Body
    <3> QED
      BY <3>3 DEF Row
  <2>6. f = [s \in TreesTo[n] |-> Row(f, s)]
    BY <2>5 DEF f
  <2> QED
    BY <2>6
<1> HIDE DEF S
<1>2. MaxDepth \in S
  BY <1>1, LevelInduction
<1>3. \E f : Good(MaxDepth, f)
  BY <1>2 DEF S
<1> DEFINE transform == CHOOSE f : f = [s \in Trees |-> Row(f, s)]
<1>4. transform = [s \in Trees |-> Row(transform, s)]
  BY <1>3, Zenon DEF Trees
<1>5. \A u, us : Transform(opts, u, us) = transform[u][us]
  BY DEF Transform
<1> HIDE DEF transform, Body
<1>6. Transform(opts, t, vs) = Body(transform, t, vs)
  <2>1. transform[t] = Row(transform, t)
    <3> HIDE DEF Row
    <3> QED
      BY <1>4
  <2> QED
    BY <1>5, <2>1
<1>7. [k \in FieldNames |-> Transform(opts, t.sub[k], At(vs, k))]
        = [k \in FieldNames |-> transform[t.sub[k]][At(vs, k)]]
  BY <1>5
<1>8. Transform(opts, t.sub[1], Elements(vs)) = transform[t.sub[1]][Elements(vs)]
  BY <1>5
<1> QED
  BY <1>6, <1>7, <1>8, Zenon DEF Body

(* The kinds of shapes that the values in ws have. *)
Tags(ws) == {ShapeTag(k) : k \in KindsOf(ws)}

LEMMA ShapeOfAllIs ==
  ASSUME NEW vs \in SUBSET Values
  PROVE  ShapeOfAll(vs) =
           IF Tags(vs) = {} THEN Unknown
           ELSE IF \E t, u \in Tags(vs) : t # u THEN Conflict
           ELSE IF "Object" \in Tags(vs)
                THEN Tree("Object", [k \in FieldNames |-> ShapeOfAll(At(vs, k))])
           ELSE IF "Array" \in Tags(vs) THEN Tree("Array", <<ShapeOfAll(Elements(vs))>>)
           ELSE Leaf(CHOOSE t \in Tags(vs) : TRUE)
<1> USE DepthAssumption DEF Levels
<1> DEFINE Row(g, ws) ==
             LET tags == {ShapeTag(k) : k \in KindsOf(ws)}
             IN  IF tags = {} THEN Unknown
                 ELSE IF \E t, u \in tags : t # u THEN Conflict
                 ELSE IF "Object" \in tags
                      THEN Tree("Object", [k \in FieldNames |-> g[At(ws, k)]])
                 ELSE IF "Array" \in tags THEN Tree("Array", <<g[Elements(ws)]>>)
                 ELSE Leaf(CHOOSE t \in tags : TRUE)
           Good(n, g) == g = [ws \in SUBSET ValuesTo[n] |-> Row(g, ws)]
           S == {n \in Levels : \E g : Good(n, g)}
<1>1. ASSUME NEW n \in Levels, n # 0 => n - 1 \in S PROVE n \in S
  <2>1. \E g : n # 0 => Good(n - 1, g)
    BY <1>1
  <2> PICK g : n # 0 => Good(n - 1, g)
    BY <2>1
  <2> DEFINE f == [ws \in SUBSET ValuesTo[n] |-> Row(g, ws)]
  <2>2. \A ws \in SUBSET ValuesTo[n] : f[ws] = Row(g, ws)
    OBVIOUS
  <2>3. n # 0 => \A ws \in SUBSET ValuesTo[n - 1] : g[ws] = Row(g, ws)
    BY <2>1
  <2> HIDE DEF f, Row
  <2>4. n # 0 => \A ws \in SUBSET ValuesTo[n - 1] : f[ws] = g[ws]
    BY <2>2, <2>3, ValuesBelow
  <2>5. ASSUME NEW ws \in SUBSET ValuesTo[n] PROVE Row(f, ws) = Row(g, ws)
    <3>1. "object" \in KindsOf(ws) => \A k \in FieldNames : f[At(ws, k)] = g[At(ws, k)]
      BY <2>4, SetsBelow
    <3>2. "array" \in KindsOf(ws) => f[Elements(ws)] = g[Elements(ws)]
      BY <2>4, SetsBelow
    <3>3. /\ "Object" \in Tags(ws) => "object" \in KindsOf(ws)
          /\ "Array" \in Tags(ws) => "array" \in KindsOf(ws)
      BY KindFacts DEF Tags
    <3> QED
      BY <3>1, <3>2, <3>3 DEF Row, Tags
  <2>6. f = [ws \in SUBSET ValuesTo[n] |-> Row(f, ws)]
    BY <2>5 DEF f
  <2> QED
    BY <2>6
<1> HIDE DEF S
<1>2. MaxDepth \in S
  BY <1>1, LevelInduction
<1>3. \E f : Good(MaxDepth, f)
  BY <1>2 DEF S
<1> DEFINE agreed == CHOOSE f : f = [ws \in SUBSET Values |-> Row(f, ws)]
<1>4. agreed = [ws \in SUBSET Values |-> Row(agreed, ws)]
  BY <1>3, Zenon DEF Values
<1>5. \A u : ShapeOfAll(u) = agreed[u]
  BY DEF ShapeOfAll
<1> HIDE DEF agreed, Row
<1>6. ShapeOfAll(vs) = Row(agreed, vs)
  BY <1>4, <1>5
<1>7. [k \in FieldNames |-> ShapeOfAll(At(vs, k))] = [k \in FieldNames |-> agreed[At(vs, k)]]
  BY <1>5
<1>8. ShapeOfAll(Elements(vs)) = agreed[Elements(vs)]
  BY <1>5
<1> QED
  BY <1>6, <1>7, <1>8, Zenon DEF Row, Tags

LEMMA InferTypeIs ==
  ASSUME NEW vs \in SUBSET Values
  PROVE  InferType(vs) =
           IF vs = {Absent} THEN NoField
           ELSE IF KindsOf(vs) = {} THEN Leaf("Null")
           ELSE IF KindsOf(vs) = {"object"}
                THEN Whole(Tree("Struct", [k \in FieldNames |-> InferType(At(vs, k))]))
           ELSE IF KindsOf(vs) = {"array"} THEN Whole(Tree("List", <<InferType(Elements(vs))>>))
           ELSE IF KindsOf(vs) \cap Containers # {} THEN Failure
           ELSE Leaf(ScalarType(KindsOf(vs)))
<1> USE DepthAssumption DEF Levels
<1> DEFINE Row(g, ws) ==
             LET kinds == KindsOf(ws)
             IN  IF ws = {Absent} THEN NoField
                 ELSE IF kinds = {} THEN Leaf("Null")
                 ELSE IF kinds = {"object"}
                      THEN Whole(Tree("Struct", [k \in FieldNames |-> g[At(ws, k)]]))
                 ELSE IF kinds = {"array"} THEN Whole(Tree("List", <<g[Elements(ws)]>>))
                 ELSE IF kinds \cap Containers # {} THEN Failure
                 ELSE Leaf(ScalarType(kinds))
           Good(n, g) == g = [ws \in SUBSET ValuesTo[n] |-> Row(g, ws)]
           S == {n \in Levels : \E g : Good(n, g)}
<1>1. ASSUME NEW n \in Levels, n # 0 => n - 1 \in S PROVE n \in S
  <2>1. \E g : n # 0 => Good(n - 1, g)
    BY <1>1
  <2> PICK g : n # 0 => Good(n - 1, g)
    BY <2>1
  <2> DEFINE f == [ws \in SUBSET ValuesTo[n] |-> Row(g, ws)]
  <2>2. \A ws \in SUBSET ValuesTo[n] : f[ws] = Row(g, ws)
    OBVIOUS
  <2>3. n # 0 => \A ws \in SUBSET ValuesTo[n - 1] : g[ws] = Row(g, ws)
    BY <2>1
  <2> HIDE DEF f, Row
  <2>4. n # 0 => \A ws \in SUBSET ValuesTo[n - 1] : f[ws] = g[ws]
    BY <2>2, <2>3, ValuesBelow
  <2>5. ASSUME NEW ws \in SUBSET ValuesTo[n] PROVE Row(f, ws) = Row(g, ws)
    <3>1. "object" \in KindsOf(ws) => \A k \in FieldNames : f[At(ws, k)] = g[At(ws, k)]
      BY <2>4, SetsBelow
    <3>2. "array" \in KindsOf(ws) => f[Elements(ws)] = g[Elements(ws)]
      BY <2>4, SetsBelow
    <3> QED
      BY <3>1, <3>2 DEF Row
  <2>6. f = [ws \in SUBSET ValuesTo[n] |-> Row(f, ws)]
    BY <2>5 DEF f
  <2> QED
    BY <2>6
<1> HIDE DEF S
<1>2. MaxDepth \in S
  BY <1>1, LevelInduction
<1>3. \E f : Good(MaxDepth, f)
  BY <1>2 DEF S
<1> DEFINE infer == CHOOSE f : f = [ws \in SUBSET Values |-> Row(f, ws)]
<1>4. infer = [ws \in SUBSET Values |-> Row(infer, ws)]
  BY <1>3, Zenon DEF Values
<1>5. \A u : InferType(u) = infer[u]
  BY DEF InferType
<1> HIDE DEF infer, Row
<1>6. InferType(vs) = Row(infer, vs)
  BY <1>4, <1>5
<1>7. [k \in FieldNames |-> InferType(At(vs, k))] = [k \in FieldNames |-> infer[At(vs, k)]]
  BY <1>5
<1>8. InferType(Elements(vs)) = infer[Elements(vs)]
  BY <1>5
<1> QED
  BY <1>6, <1>7, <1>8, Zenon DEF Row

(* The shapes of the parts of a value. *)
PartShapes(v) == [k \in DOMAIN v.sub |-> ShapeOf(v.sub[k])]

LEMMA ShapeOfIs ==
  ASSUME NEW v \in Values
  PROVE  ShapeOf(v) =
           IF v.kind = "array" THEN Tree("Array", <<MergeAll(PartShapes(v))>>)
           ELSE IF v.kind = "object" THEN Tree("Object", PartShapes(v))
           ELSE Leaf(ShapeTag(v.kind))
<1> USE DepthAssumption DEF Levels
<1> DEFINE Row(g, u) ==
             LET parts == [k \in DOMAIN u.sub |-> g[u.sub[k]]]
             IN  IF u.kind = "array" THEN Tree("Array", <<MergeAll(parts)>>)
                 ELSE IF u.kind = "object" THEN Tree("Object", parts)
                 ELSE Leaf(ShapeTag(u.kind))
           Good(n, g) == g = [u \in ValuesTo[n] |-> Row(g, u)]
           S == {n \in Levels : \E g : Good(n, g)}
<1>1. ASSUME NEW n \in Levels, n # 0 => n - 1 \in S PROVE n \in S
  <2>1. \E g : n # 0 => Good(n - 1, g)
    BY <1>1
  <2> PICK g : n # 0 => Good(n - 1, g)
    BY <2>1
  <2> DEFINE f == [u \in ValuesTo[n] |-> Row(g, u)]
  <2>2. \A u \in ValuesTo[n] : f[u] = Row(g, u)
    OBVIOUS
  <2>3. n # 0 => \A u \in ValuesTo[n - 1] : g[u] = Row(g, u)
    BY <2>1
  <2> HIDE DEF f, Row
  <2>4. n # 0 => \A u \in ValuesTo[n - 1] : f[u] = g[u]
    BY <2>2, <2>3, ValuesBelow
  <2>5. ASSUME NEW u \in ValuesTo[n] PROVE Row(f, u) = Row(g, u)
    <3>1. u.kind \in Containers => \A k \in DOMAIN u.sub : f[u.sub[k]] = g[u.sub[k]]
      BY <2>4, PartBelow
    <3>2. u.kind \in Containers =>
            [k \in DOMAIN u.sub |-> f[u.sub[k]]] = [k \in DOMAIN u.sub |-> g[u.sub[k]]]
      BY <3>1
    <3> QED
      BY <3>2 DEF Row, Containers
  <2>6. f = [u \in ValuesTo[n] |-> Row(f, u)]
    BY <2>5 DEF f
  <2> QED
    BY <2>6
<1> HIDE DEF S
<1>2. MaxDepth \in S
  BY <1>1, LevelInduction
<1>3. \E f : Good(MaxDepth, f)
  BY <1>2 DEF S
<1> DEFINE shape_of == CHOOSE f : f = [u \in Values |-> Row(f, u)]
<1>4. shape_of = [u \in Values |-> Row(shape_of, u)]
  BY <1>3, Zenon DEF Values
<1>5. \A u : ShapeOf(u) = shape_of[u]
  BY DEF ShapeOf
<1> HIDE DEF shape_of, Row
<1>6. ShapeOf(v) = Row(shape_of, v)
  BY <1>4, <1>5
<1>7. PartShapes(v) = [k \in DOMAIN v.sub |-> shape_of[v.sub[k]]]
  BY <1>5 DEF PartShapes
<1> QED
  BY <1>6, <1>7, Zenon DEF Row

(* The parts of a container are kept. *)
PartsKept(short, cell, v) == \A k \in DOMAIN v.sub : Keeps(short, cell.sub[k], v.sub[k])

LEMMA KeepsIs ==
  ASSUME NEW short, NEW cell \in Values, NEW v \in Values
  PROVE  Keeps(short, cell, v) <=>
           (\/ cell = v
            \/ v.kind \in short /\ cell = Cut(v)
            \/ v = Absent /\ cell = Null
            \/ v.kind \notin Nothing /\ cell = Text(v)
            \/ /\ v.kind \in Containers
               /\ cell.kind = v.kind
               /\ DOMAIN cell.sub = DOMAIN v.sub
               /\ PartsKept(short, cell, v))
<1> USE DepthAssumption DEF Levels
<1> DEFINE Body(g, c, u) ==
             \/ c = u
             \/ u.kind \in short /\ c = Cut(u)
             \/ u = Absent /\ c = Null
             \/ u.kind \notin Nothing /\ c = Text(u)
             \/ /\ u.kind \in Containers
                /\ c.kind = u.kind
                /\ DOMAIN c.sub = DOMAIN u.sub
                /\ \A k \in DOMAIN u.sub : g[c.sub[k]][u.sub[k]]
           Row(g, c) == [u \in Values |-> Body(g, c, u)]
           Good(n, g) == g = [c \in ValuesTo[n] |-> Row(g, c)]
           S == {n \in Levels : \E g : Good(n, g)}
<1>1. ASSUME NEW n \in Levels, n # 0 => n - 1 \in S PROVE n \in S
  <2>1. \E g : n # 0 => Good(n - 1, g)
    BY <1>1
  <2> PICK g : n # 0 => Good(n - 1, g)
    BY <2>1
  <2> DEFINE f == [c \in ValuesTo[n] |-> Row(g, c)]
  <2>2. \A c \in ValuesTo[n] : f[c] = Row(g, c)
    OBVIOUS
  <2>3. n # 0 => \A c \in ValuesTo[n - 1] : g[c] = Row(g, c)
    BY <2>1
  <2> HIDE DEF f, Row
  <2>4. n # 0 => \A c \in ValuesTo[n - 1] : f[c] = g[c]
    BY <2>2, <2>3, ValuesBelow
  <2>5. ASSUME NEW c \in ValuesTo[n] PROVE Row(f, c) = Row(g, c)
    <3>1. ASSUME NEW u \in Values PROVE Body(f, c, u) = Body(g, c, u)
      <4>1. u.kind \in Containers /\ c.kind = u.kind =>
              \A k \in DOMAIN c.sub : f[c.sub[k]] = g[c.sub[k]]
        BY <2>4, PartBelow
      <4> QED
        BY <4>1
    <3> HIDE DEF Body
    <3> QED
      BY <3>1 DEF Row
  <2>6. f = [c \in ValuesTo[n] |-> Row(f, c)]
    BY <2>5 DEF f
  <2> QED
    BY <2>6
<1> HIDE DEF S
<1>2. MaxDepth \in S
  BY <1>1, LevelInduction
<1>3. \E f : Good(MaxDepth, f)
  BY <1>2 DEF S
<1> DEFINE keeps == CHOOSE f : f = [c \in Values |-> Row(f, c)]
<1>4. keeps = [c \in Values |-> Row(keeps, c)]
  BY <1>3, Zenon DEF Values
<1>5. \A u, t : Keeps(short, u, t) = keeps[u][t]
  BY DEF Keeps
<1> HIDE DEF keeps, Body
<1>6. Keeps(short, cell, v) = Body(keeps, cell, v)
  <2>1. keeps[cell] = Row(keeps, cell)
    <3> HIDE DEF Row
    <3> QED
      BY <1>4
  <2> QED
    BY <1>5, <2>1
<1>7. PartsKept(short, cell, v) = (\A k \in DOMAIN v.sub : keeps[cell.sub[k]][v.sub[k]])
  BY <1>5 DEF PartsKept
<1> QED
  BY <1>6, <1>7, Zenon DEF Body

(* A merge from the left is a chain of merges. *)
LEMMA MergeAllIs ==
  ASSUME NEW N \in Nat, NEW shapes, Len(shapes) = N
  PROVE  \E e : /\ e[0] = Unknown
                /\ \A i \in 1 .. N : e[i] = Merge(e[i - 1], shapes[i])
                /\ MergeAll(shapes) = e[N]
<1> DEFINE Element(t, i) == IF i = 0 THEN Unknown ELSE Merge(t, shapes[i])
           Good(m, g) == g = [i \in 0 .. m |-> Element(g[i - 1], i)]
           T == {m \in Nat : \E g : Good(m, g)}
<1>0. \A t, u : Element(t, 0) = Element(u, 0)
  OBVIOUS
<1>e. \A t, i : Element(t, i) = IF i = 0 THEN Unknown ELSE Merge(t, shapes[i])
  OBVIOUS
<1> HIDE DEF Element
<1>1. 0 \in T
  <2>1. Good(0, [i \in 0 .. 0 |-> Element(Unknown, i)])
    BY <1>0
  <2> QED
    BY <2>1
<1>2. ASSUME NEW m \in Nat, m \in T PROVE m + 1 \in T
  <2>1. PICK g : Good(m, g)
    BY <1>2
  <2> DEFINE f == [i \in 0 .. m + 1 |-> Element(g[i - 1], i)]
  <2>2. \A i \in 1 .. m + 1 : f[i - 1] = g[i - 1]
    BY <2>1
  <2>3. \A i \in 0 .. m + 1 : f[i] = Element(g[i - 1], i)
    OBVIOUS
  <2>4. f = [i \in 0 .. m + 1 |-> f[i]]
    OBVIOUS
  <2> HIDE DEF f
  <2>5. \A i \in 1 .. m + 1 : f[i] = Element(f[i - 1], i)
    BY <2>2, <2>3
  <2>6. f[0] = Element(f[0 - 1], 0)
    BY <1>0, <2>3
  <2>7. \A i \in 0 .. m + 1 : f[i] = Element(f[i - 1], i)
    <3> SUFFICES ASSUME NEW i \in 0 .. m + 1 PROVE f[i] = Element(f[i - 1], i)
      OBVIOUS
    <3>1. i = 0 \/ i \in 1 .. m + 1
      OBVIOUS
    <3> QED
      BY <2>5, <2>6, <3>1
  <2>8. f = [i \in 0 .. m + 1 |-> Element(f[i - 1], i)]
    BY <2>4, <2>7
  <2> QED
    BY <2>8
<1> HIDE DEF T
<1>3. N \in T
  BY <1>1, <1>2, Induction
<1>4. PICK g : Good(N, g)
  BY <1>3 DEF T
<1>5. \E f : f = [i \in 0 .. N |-> Element(f[i - 1], i)]
  BY <1>4
<1> DEFINE e == CHOOSE f : f = [i \in 0 .. N |-> Element(f[i - 1], i)]
<1>6. e = [i \in 0 .. N |-> Element(e[i - 1], i)]
  BY <1>5, Zenon
<1>7. MergeAll(shapes) = e[N]
  BY Zenon DEF MergeAll, Element
<1> HIDE DEF e
<1>8. e[0] = Unknown /\ \A i \in 1 .. N : e[i] = Merge(e[i - 1], shapes[i])
  BY <1>6, <1>e
<1> QED
  BY <1>7, <1>8

----------------------------------------------------------------------------
(* Where the values agree. *)

(* The parts of the values of one set and of another. *)
LEMMA TagsOfUnion ==
  ASSUME NEW S, NEW T
  PROVE  Tags(S \cup T) = Tags(S) \cup Tags(T)
<1>1. KindsOf(S \cup T) = KindsOf(S) \cup KindsOf(T)
  BY DEF KindsOf
<1> QED
  BY <1>1 DEF Tags

LEMMA AtUnion ==
  ASSUME NEW S, NEW T, NEW k
  PROVE  At(S \cup T, k) = At(S, k) \cup At(T, k)
BY DEF At

LEMMA ElementsOfUnion ==
  ASSUME NEW S, NEW T
  PROVE  Elements(S \cup T) = Elements(S) \cup Elements(T)
BY DEF Elements

LEMMA TagFacts ==
  ASSUME NEW n \in Levels, NEW ws \in SUBSET ValuesTo[n]
  PROVE  /\ Tags(ws) \subseteq {"Object", "Array", "Bool", "Number", "Str"}
         /\ "Object" \in Tags(ws) <=> "object" \in KindsOf(ws)
         /\ "Array" \in Tags(ws) <=> "array" \in KindsOf(ws)
         /\ Tags(ws) = {} <=> KindsOf(ws) = {}
         /\ Tags(ws) = {"Object"} => KindsOf(ws) = {"object"}
         /\ Tags(ws) = {"Array"} => KindsOf(ws) = {"array"}
         /\ Tags(ws) = {"Bool"} => KindsOf(ws) = {"bool"}
         /\ Tags(ws) = {"Number"} => KindsOf(ws) # {} /\ KindsOf(ws) \subseteq Numerals
         /\ Tags(ws) = {"Str"} => KindsOf(ws) # {} /\ KindsOf(ws) \subseteq Texts
<1>1. KindsOf(ws) \subseteq (Scalars \ Nothing) \cup Containers
  BY KindFacts
<1>2. \A k \in KindsOf(ws) :
       /\ ShapeTag(k) \in Tags(ws)
       /\ ShapeTag(k) = "Object" <=> k = "object"
       /\ ShapeTag(k) = "Array" <=> k = "array"
       /\ ShapeTag(k) = "Bool" <=> k = "bool"
       /\ ShapeTag(k) = "Number" <=> k \in Numerals
       /\ ShapeTag(k) = "Str" <=> k \in Texts
       /\ ShapeTag(k) \in {"Object", "Array", "Bool", "Number", "Str"}
  BY <1>1, KindFacts DEF Tags
<1>3. \A t \in Tags(ws) : \E k \in KindsOf(ws) : t = ShapeTag(k)
  BY DEF Tags
<1> QED
  BY <1>2, <1>3

(* The shape of values: nothing known, a conflict, or what they agree on. *)
LEMMA ShapeCases ==
  ASSUME NEW n \in Levels, NEW ws \in SUBSET ValuesTo[n]
  PROVE  \/ Tags(ws) = {} /\ ShapeOfAll(ws) = Unknown
         \/ (\E t, u \in Tags(ws) : t # u) /\ ShapeOfAll(ws) = Conflict
         \/ /\ Tags(ws) = {"Object"} /\ n # 0
            /\ ShapeOfAll(ws) = Tree("Object", [k \in FieldNames |-> ShapeOfAll(At(ws, k))])
         \/ /\ Tags(ws) = {"Array"} /\ n # 0
            /\ ShapeOfAll(ws) = Tree("Array", <<ShapeOfAll(Elements(ws))>>)
         \/ \E l \in {"Bool", "Number", "Str"} : Tags(ws) = {l} /\ ShapeOfAll(ws) = Leaf(l)
<1>1. ws \in SUBSET Values
  BY ValuesBelow
<1> DEFINE parts == [k \in FieldNames |-> ShapeOfAll(At(ws, k))]
           element == ShapeOfAll(Elements(ws))
<1>2. ShapeOfAll(ws) =
           IF Tags(ws) = {} THEN Unknown
           ELSE IF \E t, u \in Tags(ws) : t # u THEN Conflict
           ELSE IF "Object" \in Tags(ws) THEN Tree("Object", parts)
           ELSE IF "Array" \in Tags(ws) THEN Tree("Array", <<element>>)
           ELSE Leaf(CHOOSE t \in Tags(ws) : TRUE)
  BY <1>1, ShapeOfAllIs
<1> HIDE DEF parts, element
<1>3. Tags(ws) \subseteq {"Object", "Array", "Bool", "Number", "Str"}
  BY TagFacts
<1>4. /\ "Object" \in Tags(ws) => n # 0
      /\ "Array" \in Tags(ws) => n # 0
  BY SetsBelow, TagFacts
<1>5. CASE Tags(ws) = {}
  BY <1>2, <1>5
<1>6. CASE \E t, u \in Tags(ws) : t # u
  BY <1>2, <1>6
<1>7. CASE Tags(ws) # {} /\ \A t, u \in Tags(ws) : t = u
  <2>1. PICK l \in Tags(ws) : TRUE
    BY <1>7
  <2>2. Tags(ws) = {l}
    BY <1>7, <2>1
  <2>3. (CHOOSE t \in Tags(ws) : TRUE) = l
    BY <2>2
  <2>4. /\ l = "Object" => ShapeOfAll(ws) = Tree("Object", parts)
        /\ l = "Array" => ShapeOfAll(ws) = Tree("Array", <<element>>)
        /\ l \notin {"Object", "Array"} => ShapeOfAll(ws) = Leaf(l)
    BY <1>2, <1>7, <2>2, <2>3
  <2> QED
    BY <1>3, <1>4, <2>2, <2>4 DEF parts, element
<1> QED
  BY <1>5, <1>6, <1>7

(* The shape of values nests no deeper than they do. *)
LEMMA ShapeTyped ==
  \A n \in Levels : \A ws \in SUBSET ValuesTo[n] : ShapeOfAll(ws) \in TreesTo[n]
<1> DEFINE S == {n \in Levels : \A ws \in SUBSET ValuesTo[n] : ShapeOfAll(ws) \in TreesTo[n]}
<1>1. ASSUME NEW n \in Levels, n # 0 => n - 1 \in S PROVE n \in S
  <2> SUFFICES ASSUME NEW ws \in SUBSET ValuesTo[n] PROVE ShapeOfAll(ws) \in TreesTo[n]
    OBVIOUS
  <2>1. \A l \in Leaves : Leaf(l) \in TreesTo[n]
    BY TreesMade
  <2>2. CASE ShapeOfAll(ws) \in {Unknown, Conflict} \cup {Leaf(l) : l \in {"Bool", "Number", "Str"}}
    BY <2>1, <2>2 DEF Unknown, Conflict, Leaves
  <2>3. CASE n # 0 /\ ShapeOfAll(ws) = Tree("Object", [k \in FieldNames |-> ShapeOfAll(At(ws, k))])
    <3>1. [k \in FieldNames |-> ShapeOfAll(At(ws, k))] \in [FieldNames -> TreesTo[n - 1]]
      BY <1>1, <2>3, SetsBelow
    <3> QED
      BY <2>3, <3>1, TreesMade
  <2>4. CASE n # 0 /\ ShapeOfAll(ws) = Tree("Array", <<ShapeOfAll(Elements(ws))>>)
    <3>1. ShapeOfAll(Elements(ws)) \in TreesTo[n - 1]
      BY <1>1, <2>4, SetsBelow
    <3> QED
      BY <2>4, <3>1, TreesMade
  <2> QED
    BY <2>2, <2>3, <2>4, ShapeCases
<1> HIDE DEF S
<1>2. \A n \in Levels : n \in S
  BY <1>1, LevelInduction
<1> QED
  BY <1>2 DEF S

(* A shape's tag says which case it is. *)
LEMMA ShapeTags ==
  ASSUME NEW n \in Levels, NEW ws \in SUBSET ValuesTo[n]
  PROVE  /\ ShapeOfAll(ws) \in Trees
         /\ ShapeOfAll(ws) = Unknown <=> Tags(ws) = {}
         /\ ShapeOfAll(ws) = Conflict <=> \E t, u \in Tags(ws) : t # u
         /\ ShapeOfAll(ws).tag = "Unknown" => ShapeOfAll(ws) = Unknown
         /\ ShapeOfAll(ws).tag = "Conflict" => ShapeOfAll(ws) = Conflict
         /\ ShapeOfAll(ws) \notin {Unknown, Conflict} => Tags(ws) = {ShapeOfAll(ws).tag}
<1> DEFINE s == ShapeOfAll(ws)
<1>1. s \in Trees
  BY ShapeTyped, TreesBelow
<1> DEFINE o == Tree("Object", [k \in FieldNames |-> ShapeOfAll(At(ws, k))])
           a == Tree("Array", <<ShapeOfAll(Elements(ws))>>)
<1>2. \/ Tags(ws) = {} /\ s = Unknown
      \/ (\E t, u \in Tags(ws) : t # u) /\ s = Conflict
      \/ Tags(ws) = {"Object"} /\ s = o
      \/ Tags(ws) = {"Array"} /\ s = a
      \/ \E l \in {"Bool", "Number", "Str"} : Tags(ws) = {l} /\ s = Leaf(l)
  BY ShapeCases
<1>3. o.tag = "Object" /\ a.tag = "Array" /\ \A l : Leaf(l).tag = l
  BY DEF Tree, Leaf
<1>4. Unknown.tag = "Unknown" /\ Conflict.tag = "Conflict"
  BY <1>3 DEF Unknown, Conflict
<1> HIDE DEF s, o, a
<1> QED
  BY <1>1, <1>2, <1>3, <1>4 DEF s

(* Merging the shapes of two sets is the shape of both. *)
THEOREM MergeOfShapes ==
  \A n \in Levels : \A S, T \in SUBSET ValuesTo[n] :
    Merge(ShapeOfAll(S), ShapeOfAll(T)) = ShapeOfAll(S \cup T)
<1> DEFINE Good == {n \in Levels : \A S, T \in SUBSET ValuesTo[n] :
                      Merge(ShapeOfAll(S), ShapeOfAll(T)) = ShapeOfAll(S \cup T)}
<1>1. ASSUME NEW n \in Levels, n # 0 => n - 1 \in Good PROVE n \in Good
  <2> SUFFICES ASSUME NEW S \in SUBSET ValuesTo[n], NEW T \in SUBSET ValuesTo[n]
               PROVE  Merge(ShapeOfAll(S), ShapeOfAll(T)) = ShapeOfAll(S \cup T)
    OBVIOUS
  <2> DEFINE a == ShapeOfAll(S)
             b == ShapeOfAll(T)
             c == ShapeOfAll(S \cup T)
  <2>0. Conflict.tag = "Conflict"
    BY DEF Conflict, Leaf, Tree
  <2>1. S \cup T \in SUBSET ValuesTo[n]
    OBVIOUS
  <2>2. /\ a \in Trees /\ (a = Unknown <=> Tags(S) = {})
        /\ a = Conflict <=> \E t, u \in Tags(S) : t # u
        /\ a.tag = "Unknown" => a = Unknown
        /\ a.tag = "Conflict" => a = Conflict
        /\ a \notin {Unknown, Conflict} => Tags(S) = {a.tag}
    BY ShapeTags
  <2>3. /\ b \in Trees /\ (b = Unknown <=> Tags(T) = {})
        /\ b = Conflict <=> \E t, u \in Tags(T) : t # u
        /\ b.tag = "Unknown" => b = Unknown
        /\ b.tag = "Conflict" => b = Conflict
        /\ b \notin {Unknown, Conflict} => Tags(T) = {b.tag}
    BY ShapeTags
  <2>4. /\ c = Unknown <=> Tags(S \cup T) = {}
        /\ c = Conflict <=> \E t, u \in Tags(S \cup T) : t # u
    BY <2>1, ShapeTags
  <2>5. Tags(S \cup T) = Tags(S) \cup Tags(T)
    BY TagsOfUnion
  <2>6. Merge(a, b) = IF a = Unknown THEN b
                      ELSE IF b = Unknown THEN a
                      ELSE IF a.tag # b.tag THEN Conflict
                      ELSE IF a.tag \notin {"Object", "Array"} THEN a
                      ELSE Tree(a.tag, [k \in DOMAIN a.sub |-> Merge(a.sub[k], b.sub[k])])
    BY <2>2, <2>3, MergeIs
  <2>7. ASSUME NEW X \in SUBSET ValuesTo[n], NEW Y \in SUBSET ValuesTo[n], Tags(X) = {}
        PROVE  ShapeOfAll(X \cup Y) = ShapeOfAll(Y)
    <3>1. KindsOf(X) = {}
      BY <2>7, TagFacts
    <3>2. (\A k : At(X, k) = {}) /\ Elements(X) = {}
      BY <3>1 DEF KindsOf, At, Elements, Nothing
    <3>3. /\ Tags(X \cup Y) = Tags(Y)
          /\ \A k : At(X \cup Y, k) = At(Y, k)
          /\ Elements(X \cup Y) = Elements(Y)
      <4>1. Tags(X \cup Y) = Tags(X) \cup Tags(Y)
        BY TagsOfUnion
      <4>2. ASSUME NEW k PROVE At(X \cup Y, k) = At(Y, k)
        <5>1. At(X \cup Y, k) = At(X, k) \cup At(Y, k)
          BY AtUnion
        <5> QED
          BY <3>2, <5>1
      <4>3. Elements(X \cup Y) = Elements(X) \cup Elements(Y)
        BY ElementsOfUnion
      <4> QED
        BY <2>7, <3>2, <4>1, <4>2, <4>3
    <3>4. X \cup Y \in SUBSET ValuesTo[n]
      OBVIOUS
    <3> DEFINE os(ws) == [k \in FieldNames |-> ShapeOfAll(At(ws, k))]
               es(ws) == ShapeOfAll(Elements(ws))
    <3>5. os(X \cup Y) = os(Y) /\ es(X \cup Y) = es(Y)
      BY <3>3
    <3> DEFINE F(tags, o, e) ==
                 IF tags = {} THEN Unknown
                 ELSE IF \E t, u \in tags : t # u THEN Conflict
                 ELSE IF "Object" \in tags THEN Tree("Object", o)
                 ELSE IF "Array" \in tags THEN Tree("Array", <<e>>)
                 ELSE Leaf(CHOOSE t \in tags : TRUE)
    <3>6. ASSUME NEW ws \in SUBSET ValuesTo[n]
          PROVE  ShapeOfAll(ws) = F(Tags(ws), os(ws), es(ws))
      <4>1. ws \in SUBSET Values
        BY ValuesBelow
      <4> QED
        BY <4>1, ShapeOfAllIs
    <3> HIDE DEF os, es, F
    <3> QED
      BY <3>3, <3>4, <3>5, <3>6
  <2>8. CASE Tags(S) = {}
    BY <2>2, <2>6, <2>7, <2>8
  <2>9. CASE Tags(S) # {} /\ Tags(T) = {}
    <3>1. S \cup T = T \cup S
      OBVIOUS
    <3>2. ShapeOfAll(T \cup S) = ShapeOfAll(S)
      BY <2>7, <2>9
    <3> QED
      BY <2>2, <2>3, <2>6, <2>9, <3>1, <3>2
  <2>10. CASE Tags(S) # {} /\ Tags(T) # {} /\ a.tag # b.tag
    <3>1. \E t, u \in Tags(S) \cup Tags(T) : t # u
      BY <2>2, <2>3, <2>10
    <3> HIDE DEF a, b, c
    <3> QED
      BY <2>2, <2>3, <2>4, <2>5, <2>6, <2>10, <3>1 DEF a, b, c
  <2>11. CASE Tags(S) # {} /\ Tags(T) # {} /\ a.tag = b.tag
    <3>1. Merge(a, b) = IF a.tag \notin {"Object", "Array"} THEN a
                        ELSE Tree(a.tag, [k \in DOMAIN a.sub |-> Merge(a.sub[k], b.sub[k])])
      BY <2>2, <2>3, <2>6, <2>11
    <3>2. CASE a \in {Conflict} \cup {Leaf(l) : l \in {"Bool", "Number", "Str"}}
      <4>2. Merge(a, b) = a
        <5>1. a.tag \notin {"Object", "Array"}
          BY <3>2 DEF Conflict, Leaf, Tree
        <5> HIDE DEF a, b
        <5> QED
          BY <3>1, <5>1
      <4>3. CASE a = Conflict
        <5>1. \E t, u \in Tags(S \cup T) : t # u
          BY <2>2, <2>5, <4>3
        <5> QED
          BY <2>4, <4>2, <4>3, <5>1
      <4>4. CASE a # Conflict
        <5>1. PICK l \in {"Bool", "Number", "Str"} : a = Leaf(l)
          BY <3>2, <4>4
        <5>2. a.tag = l
          BY <5>1 DEF Leaf, Tree
        <5>3. Tags(S) = {l}
          BY <2>2, <2>11, <4>4, <5>2
        <5>4. Tags(T) = {l}
          <6> HIDE DEF a, b
          <6> QED
            BY <2>0, <2>3, <2>11, <5>1, <5>2
        <5>5. Tags(S \cup T) = {l}
          BY <2>5, <5>3, <5>4
        <5>6. c = Leaf(l)
          <6> DEFINE x == Tree("Object", [k \in FieldNames |-> ShapeOfAll(At(S \cup T, k))])
                     y == Tree("Array", <<ShapeOfAll(Elements(S \cup T))>>)
                     C == Tags(S \cup T)
          <6>1. \/ C = {}
                \/ (\E t, u \in C : t # u)
                \/ C = {"Object"}
                \/ C = {"Array"}
                \/ \E m \in {"Bool", "Number", "Str"} : C = {m} /\ c = Leaf(m)
            BY <2>1, ShapeCases
          <6> HIDE DEF c, C
          <6> QED
            BY <5>5, <6>1 DEF C
        <5> QED
          BY <4>2, <5>1, <5>6
      <4> QED
        BY <4>3, <4>4
    <3>3. CASE Tags(S) = {"Object"}
      <4>1. Tags(T) = {"Object"}
        <5>1. a.tag = "Object"
          BY <3>3, ShapeCases DEF Tree
        <5> HIDE DEF a, b
        <5> QED
          BY <2>0, <2>3, <2>11, <5>1
      <4>2. Tags(S \cup T) = {"Object"}
        BY <2>5, <3>3, <4>1
      <4>3. ASSUME NEW X \in SUBSET ValuesTo[n], Tags(X) = {"Object"}
            PROVE  n # 0 /\ ShapeOfAll(X) = Tree("Object", [k \in FieldNames |-> ShapeOfAll(At(X, k))])
        BY <4>3, ShapeCases
      <4>4. ASSUME NEW k \in FieldNames
            PROVE  Merge(ShapeOfAll(At(S, k)), ShapeOfAll(At(T, k))) = ShapeOfAll(At(S \cup T, k))
        <5>1. n # 0 /\ At(S, k) \in SUBSET ValuesTo[n - 1] /\ At(T, k) \in SUBSET ValuesTo[n - 1]
          BY <3>3, <4>3, SetsBelow
        <5>2. At(S \cup T, k) = At(S, k) \cup At(T, k)
          BY AtUnion
        <5> QED
          BY <1>1, <5>1, <5>2
      <4>5. a.sub = [k \in FieldNames |-> ShapeOfAll(At(S, k))] /\ a.tag = "Object"
        BY <3>3, <4>3 DEF Tree
      <4>6. b.sub = [k \in FieldNames |-> ShapeOfAll(At(T, k))]
        BY <4>1, <4>3 DEF Tree
      <4>7. c = Tree("Object", [k \in FieldNames |-> ShapeOfAll(At(S \cup T, k))])
        BY <2>1, <4>2, <4>3
      <4>8. \A k \in FieldNames : a.sub[k] = ShapeOfAll(At(S, k)) /\ b.sub[k] = ShapeOfAll(At(T, k))
        BY <4>5, <4>6
      <4>9. DOMAIN a.sub = FieldNames
        BY <4>5
      <4> HIDE DEF a, b, c
      <4>10. [k \in DOMAIN a.sub |-> Merge(a.sub[k], b.sub[k])]
               = [k \in FieldNames |-> ShapeOfAll(At(S \cup T, k))]
        BY <4>4, <4>8, <4>9
      <4>11. Merge(a, b) = c
        BY <3>1, <4>5, <4>7, <4>10
      <4> QED
        BY <4>11 DEF a, b, c
    <3>4. CASE Tags(S) = {"Array"}
      <4>1. Tags(T) = {"Array"}
        <5>1. a.tag = "Array"
          BY <3>4, ShapeCases DEF Tree
        <5> HIDE DEF a, b
        <5> QED
          BY <2>0, <2>3, <2>11, <5>1
      <4>2. Tags(S \cup T) = {"Array"}
        BY <2>5, <3>4, <4>1
      <4>3. ASSUME NEW X \in SUBSET ValuesTo[n], Tags(X) = {"Array"}
            PROVE  n # 0 /\ ShapeOfAll(X) = Tree("Array", <<ShapeOfAll(Elements(X))>>)
        BY <4>3, ShapeCases
      <4>4. Merge(ShapeOfAll(Elements(S)), ShapeOfAll(Elements(T))) = ShapeOfAll(Elements(S \cup T))
        <5>1. n # 0 /\ Elements(S) \in SUBSET ValuesTo[n - 1] /\ Elements(T) \in SUBSET ValuesTo[n - 1]
          BY <3>4, <4>3, SetsBelow
        <5>2. Elements(S \cup T) = Elements(S) \cup Elements(T)
          BY ElementsOfUnion
        <5> QED
          BY <1>1, <5>1, <5>2
      <4>5. a.sub = <<ShapeOfAll(Elements(S))>> /\ a.tag = "Array"
        BY <3>4, <4>3 DEF Tree
      <4>6. b.sub = <<ShapeOfAll(Elements(T))>>
        BY <4>1, <4>3 DEF Tree
      <4>7. c = Tree("Array", <<ShapeOfAll(Elements(S \cup T))>>)
        BY <2>1, <4>2, <4>3
      <4> HIDE DEF a, b, c
      <4>10. [k \in DOMAIN a.sub |-> Merge(a.sub[k], b.sub[k])]
               = <<ShapeOfAll(Elements(S \cup T))>>
        BY <4>4, <4>5, <4>6
      <4>11. Merge(a, b) = c
        BY <3>1, <4>5, <4>7, <4>10
      <4> QED
        BY <4>11 DEF a, b, c
    <3> QED
      BY <2>11, <3>2, <3>3, <3>4, ShapeCases
  <2> QED
    BY <2>8, <2>9, <2>10, <2>11
<1> HIDE DEF Good
<1>2. \A n \in Levels : n \in Good
  BY <1>1, LevelInduction
<1> QED
  BY <1>2 DEF Good

(* What one value, and no value, holds. *)
LEMMA SingletonFacts ==
  ASSUME NEW v
  PROVE  /\ KindsOf({v}) = {v.kind} \ Nothing
         /\ v.kind \notin Nothing => Tags({v}) = {ShapeTag(v.kind)}
         /\ v.kind \in Nothing => Tags({v}) = {}
         /\ v.kind = "object" => \A k : At({v}, k) = {v.sub[k]}
         /\ v.kind = "array" => Elements({v}) = {v.sub[i] : i \in DOMAIN v.sub}
<1>1. KindsOf({v}) = {v.kind} \ Nothing
  BY DEF KindsOf
<1>2. v.kind \notin Nothing => Tags({v}) = {ShapeTag(v.kind)}
  BY <1>1 DEF Tags
<1>3. v.kind \in Nothing => Tags({v}) = {}
  BY <1>1 DEF Tags
<1>4. v.kind = "object" => \A k : At({v}, k) = {v.sub[k]}
  BY DEF At
<1>5. v.kind = "array" => Elements({v}) = {v.sub[i] : i \in DOMAIN v.sub}
  BY DEF Elements
<1> QED
  BY <1>1, <1>2, <1>3, <1>4, <1>5

(* The shape of a value is that of the set of it alone: merging the shapes *)
(* of an array's elements from the left is where the elements agree.       *)
LEMMA ShapeOfOne ==
  \A n \in Levels : \A v \in ValuesTo[n] : ShapeOf(v) = ShapeOfAll({v})
<1> DEFINE Good == {n \in Levels : \A v \in ValuesTo[n] : ShapeOf(v) = ShapeOfAll({v})}
<1>1. ASSUME NEW n \in Levels, n # 0 => n - 1 \in Good PROVE n \in Good
  <2> SUFFICES ASSUME NEW v \in ValuesTo[n] PROVE ShapeOf(v) = ShapeOfAll({v})
    OBVIOUS
  <2>1. v \in Values /\ {v} \in SUBSET ValuesTo[n]
    BY ValuesBelow
  <2>2. ShapeOf(v) =
           IF v.kind = "array" THEN Tree("Array", <<MergeAll(PartShapes(v))>>)
           ELSE IF v.kind = "object" THEN Tree("Object", PartShapes(v))
           ELSE Leaf(ShapeTag(v.kind))
    BY <2>1, ShapeOfIs
  <2>3. v.kind \in Scalars \cup Containers
    BY ValueFacts
  <2> DEFINE o == Tree("Object", [k \in FieldNames |-> ShapeOfAll(At({v}, k))])
             a == Tree("Array", <<ShapeOfAll(Elements({v}))>>)
             F(tags) == IF tags = {} THEN Unknown
                        ELSE IF \E t, u \in tags : t # u THEN Conflict
                        ELSE IF "Object" \in tags THEN o
                        ELSE IF "Array" \in tags THEN a
                        ELSE Leaf(CHOOSE t \in tags : TRUE)
  <2>4. ShapeOfAll({v}) = F(Tags({v}))
    <3>1. {v} \in SUBSET Values
      BY <2>1
    <3> QED
      BY <3>1, ShapeOfAllIs
  <2>5. /\ F({}) = Unknown /\ F({"Object"}) = o /\ F({"Array"}) = a
        /\ \A l \in {"Bool", "Number", "Str"} : F({l}) = Leaf(l)
    <3> HIDE DEF o, a
    <3> QED
      OBVIOUS
  <2> HIDE DEF o, a, F
  <2>6. CASE v.kind \in Nothing
    <3>1. Tags({v}) = {}
      BY <2>6, SingletonFacts
    <3>2. ShapeTag(v.kind) = "Unknown"
      BY <2>6 DEF ShapeTag, Nothing, Numerals, WholeNumbers, Texts, Dates, Datetimes
    <3>3. v.kind \notin Containers
      BY <2>6 DEF Nothing, Containers
    <3> QED
      BY <2>2, <2>4, <2>5, <3>1, <3>2, <3>3 DEF Unknown, Containers
  <2>7. CASE v.kind \in Scalars \ Nothing
    <3>1. Tags({v}) = {ShapeTag(v.kind)}
      BY <2>7, SingletonFacts
    <3>2. ShapeTag(v.kind) \in {"Bool", "Number", "Str"} /\ v.kind \notin Containers
      BY <2>7 DEF ShapeTag, Scalars, Containers, Nothing, Numerals, WholeNumbers, Texts, Dates, Datetimes
    <3> QED
      BY <2>2, <2>4, <2>5, <3>1, <3>2 DEF Containers
  <2>8. CASE v.kind = "object"
    <3>1. Tags({v}) = {"Object"}
      BY <2>8, SingletonFacts DEF ShapeTag, Numerals, WholeNumbers, Texts, Dates, Datetimes, Nothing
    <3>2. n # 0 /\ v.sub \in [FieldNames -> ValuesTo[n - 1]]
      BY <2>8, ValueFacts
    <3>3. ASSUME NEW k \in FieldNames PROVE ShapeOf(v.sub[k]) = ShapeOfAll(At({v}, k))
      <4>1. At({v}, k) = {v.sub[k]}
        BY <2>8, SingletonFacts
      <4> QED
        BY <1>1, <3>2, <4>1
    <3>4. PartShapes(v) = [k \in FieldNames |-> ShapeOfAll(At({v}, k))]
      BY <3>2, <3>3 DEF PartShapes
    <3> QED
      BY <2>2, <2>4, <2>5, <2>8, <3>1, <3>4 DEF o
  <2>9. CASE v.kind = "array"
    <3>1. Tags({v}) = {"Array"}
      BY <2>9, SingletonFacts DEF ShapeTag, Numerals, WholeNumbers, Texts, Dates, Datetimes, Nothing
    <3>2. n # 0 /\ n - 1 \in Levels /\ v.sub \in Seq(ValuesTo[n - 1])
      BY <2>9, ValueFacts, DepthAssumption DEF Levels
    <3> DEFINE N == Len(v.sub)
               First(i) == {v.sub[j] : j \in 1 .. i}
    <3>3. N \in Nat /\ DOMAIN v.sub = 1 .. N /\ Len(PartShapes(v)) = N
      BY <3>2 DEF PartShapes
    <3>4. PICK e : /\ e[0] = Unknown
                   /\ \A i \in 1 .. N : e[i] = Merge(e[i - 1], PartShapes(v)[i])
                   /\ MergeAll(PartShapes(v)) = e[N]
      <4> HIDE DEF N
      <4> QED
        BY <3>3, MergeAllIs
    <3>5. ASSUME NEW i \in 1 .. N
          PROVE  /\ PartShapes(v)[i] = ShapeOfAll({v.sub[i]})
                 /\ {v.sub[i]} \in SUBSET ValuesTo[n - 1]
                 /\ First(i - 1) \in SUBSET ValuesTo[n - 1]
                 /\ First(i) = First(i - 1) \cup {v.sub[i]}
      <4>1. v.sub[i] \in ValuesTo[n - 1] /\ PartShapes(v)[i] = ShapeOf(v.sub[i])
        BY <3>2, <3>3 DEF PartShapes
      <4>2. First(i - 1) \in SUBSET ValuesTo[n - 1]
        BY <3>2, <3>3
      <4>3. First(i) = First(i - 1) \cup {v.sub[i]}
        <5>1. 1 .. i = (1 .. i - 1) \cup {i}
          BY <3>3
        <5> QED
          BY <5>1
      <4> QED
        BY <1>1, <3>2, <4>1, <4>2, <4>3
    <3> DEFINE T == {i \in Nat : i <= N => e[i] = ShapeOfAll(First(i))}
    <3>6. 0 \in T
      <4>1. First(0) = {}
        OBVIOUS
      <4>2. {} \in SUBSET ValuesTo[n] /\ Tags({}) = {}
        BY DEF Tags, KindsOf
      <4>3. ShapeOfAll({}) = Unknown
        BY <4>2, ShapeTags
      <4> QED
        BY <3>4, <4>1, <4>3
    <3>7. ASSUME NEW i \in Nat, i \in T PROVE i + 1 \in T
      <4> SUFFICES ASSUME i + 1 <= N PROVE e[i + 1] = ShapeOfAll(First(i + 1))
        OBVIOUS
      <4>1. i + 1 \in 1 .. N /\ (i + 1) - 1 = i /\ i <= N
        BY <3>3
      <4>2. e[i] = ShapeOfAll(First(i))
        BY <3>7, <4>1
      <4> HIDE DEF First, N
      <4>3. e[i + 1] = Merge(ShapeOfAll(First(i)), ShapeOfAll({v.sub[i + 1]}))
        BY <3>4, <3>5, <4>1, <4>2
      <4>4. /\ First(i) \in SUBSET ValuesTo[n - 1] /\ {v.sub[i + 1]} \in SUBSET ValuesTo[n - 1]
            /\ First(i + 1) = First(i) \cup {v.sub[i + 1]}
        BY <3>5, <4>1
      <4>5. Merge(ShapeOfAll(First(i)), ShapeOfAll({v.sub[i + 1]}))
              = ShapeOfAll(First(i) \cup {v.sub[i + 1]})
        BY <3>2, <4>4, MergeOfShapes
      <4> QED
        BY <4>3, <4>4, <4>5
    <3> HIDE DEF T
    <3>8. N \in T
      BY <3>3, <3>6, <3>7, Induction
    <3>9. First(N) = Elements({v})
      BY <2>9, <3>3, SingletonFacts
    <3>10. e[N] = ShapeOfAll(First(N))
      <4> HIDE DEF First
      <4> QED
        BY <3>3, <3>8 DEF T
    <3>11. MergeAll(PartShapes(v)) = ShapeOfAll(Elements({v}))
      BY <3>4, <3>9, <3>10
    <3> QED
      BY <2>2, <2>4, <2>5, <2>9, <3>1, <3>11 DEF a
  <2> QED
    BY <2>3, <2>6, <2>7, <2>8, <2>9 DEF Containers
<1> HIDE DEF Good
<1>2. \A n \in Levels : n \in Good
  BY <1>1, LevelInduction
<1> QED
  BY <1>2 DEF Good
----------------------------------------------------------------------------
(* Values made to agree. *)

(* Normalizing a value makes one that nests no deeper, and changes no kind *)
(* except to make a text. *)
LEMMA NormalizeTyped ==
  \A n \in Levels : \A v \in ValuesTo[n] : \A s \in Trees :
    /\ Normalize(v, s) \in ValuesTo[n]
    /\ s # Conflict => Normalize(v, s).kind = v.kind
    /\ Normalize(v, s).kind \in Scalars \ {"str"} => Normalize(v, s) = v
<1> DEFINE G(n, v, s) == /\ Normalize(v, s) \in ValuesTo[n]
                         /\ s # Conflict => Normalize(v, s).kind = v.kind
                         /\ Normalize(v, s).kind \in Scalars \ {"str"} => Normalize(v, s) = v
           Good == {n \in Levels : \A v \in ValuesTo[n] : \A s \in Trees : G(n, v, s)}
<1>1. ASSUME NEW n \in Levels, n # 0 => n - 1 \in Good PROVE n \in Good
  <2> SUFFICES ASSUME NEW v \in ValuesTo[n], NEW s \in Trees PROVE G(n, v, s)
    OBVIOUS
  <2> DEFINE parts == [k \in DOMAIN v.sub |-> Normalize(v.sub[k], Part(s, k))]
  <2>1. v \in Values
    BY ValuesBelow
  <2>2. Normalize(v, s) =
           IF s = Conflict THEN Stringify(v)
           ELSE IF ~Descends(s, v) THEN v
           ELSE [v EXCEPT !.sub = parts]
    BY <2>1, NormalizeIs
  <2>3. Text(v) \in ValuesTo[n] /\ Text(v).kind = "str"
    BY ValueFacts DEF Text
  <2>4. CASE s = Conflict
    BY <2>2, <2>3, <2>4 DEF Stringify
  <2>5. CASE s # Conflict /\ ~Descends(s, v)
    BY <2>2, <2>5
  <2>6. CASE s # Conflict /\ Descends(s, v)
    <3>1. /\ Normalize(v, s) = [v EXCEPT !.sub = parts]
          /\ v = [kind |-> v.kind, of |-> v.of, sub |-> v.sub]
      BY <2>2, <2>6, ValueFacts
    <3>2. v.kind \in Containers /\ v.kind \notin Scalars
      BY <2>6 DEF Descends, Containers, Scalars, Texts, Numerals, WholeNumbers, Nothing, Dates, Datetimes
    <3>3. n - 1 \in Good
      BY <1>1, <3>2, PartBelow
    <3>4. ASSUME NEW k \in DOMAIN v.sub PROVE parts[k] \in ValuesTo[n - 1]
      <4>1. MaxDepth \in Levels
        BY DepthAssumption DEF Levels
      <4>2. v.sub[k] \in ValuesTo[n - 1] /\ MaxDepth # 0 /\ Part(s, k) \in TreesTo[MaxDepth - 1]
        BY <2>6, <4>1, PartsBelow DEF Trees
      <4>3. Part(s, k) \in Trees
        BY <4>1, <4>2, TreesBelow DEF Trees
      <4> QED
        BY <3>3, <4>2, <4>3
    <3>5. [v EXCEPT !.sub = parts] \in ValuesTo[n]
      <4>1. CASE v.kind = "object"
        <5>1. n # 0 /\ DOMAIN v.sub = FieldNames
          BY <4>1, ValueFacts
        <5>2. parts \in [FieldNames -> ValuesTo[n - 1]]
          BY <3>4, <5>1
        <5> HIDE DEF parts
        <5> QED
          BY <4>1, <5>1, <5>2, ValuesMade
      <4>2. CASE v.kind = "array"
        <5>1. n # 0 /\ v.sub \in Seq(ValuesTo[n - 1])
          BY <4>2, ValueFacts
        <5>2. Len(v.sub) \in Nat /\ DOMAIN v.sub = 1 .. Len(v.sub)
          BY <5>1
        <5>3. parts \in [1 .. Len(v.sub) -> ValuesTo[n - 1]]
          BY <3>4, <5>2
        <5> HIDE DEF parts
        <5>4. parts \in Seq(ValuesTo[n - 1])
          BY <5>2, <5>3
        <5> QED
          BY <4>2, <5>1, <5>4, ValuesMade
      <4> QED
        BY <3>2, <4>1, <4>2 DEF Containers
    <3>6. [v EXCEPT !.sub = parts].kind = v.kind
      BY <3>1
    <3> HIDE DEF parts
    <3> QED
      BY <2>6, <3>1, <3>2, <3>5, <3>6
  <2> HIDE DEF G
  <2> QED
    BY <2>4, <2>5, <2>6 DEF G
<1> HIDE DEF Good
<1>2. \A n \in Levels : n \in Good
  BY <1>1, LevelInduction
<1> QED
  BY <1>2 DEF Good

(* The same of coercion. *)
LEMMA CoerceTyped ==
  \A n \in Levels : \A v \in ValuesTo[n] : \A s \in Trees :
    /\ Coerce(v, s) \in ValuesTo[n]
    /\ s.tag # "Utf8" => Coerce(v, s).kind = v.kind
<1> DEFINE G(n, v, s) == /\ Coerce(v, s) \in ValuesTo[n]
                         /\ s.tag # "Utf8" => Coerce(v, s).kind = v.kind
           Good == {n \in Levels : \A v \in ValuesTo[n] : \A s \in Trees : G(n, v, s)}
<1>1. ASSUME NEW n \in Levels, n # 0 => n - 1 \in Good PROVE n \in Good
  <2> SUFFICES ASSUME NEW v \in ValuesTo[n], NEW s \in Trees PROVE G(n, v, s)
    OBVIOUS
  <2> DEFINE parts == [k \in DOMAIN v.sub |-> Coerce(v.sub[k], Part(s, k))]
  <2>1. v \in Values
    BY ValuesBelow
  <2>2. Coerce(v, s) =
           IF s.tag = "Utf8" THEN Stringify(v)
           ELSE IF ~Descends(s, v) THEN v
           ELSE [v EXCEPT !.sub = parts]
    BY <2>1, CoerceIs
  <2>3. Text(v) \in ValuesTo[n] /\ Text(v).kind = "str"
    BY ValueFacts DEF Text
  <2>4. CASE s.tag = "Utf8"
    BY <2>2, <2>3, <2>4 DEF Stringify
  <2>5. CASE s.tag # "Utf8" /\ ~Descends(s, v)
    BY <2>2, <2>5
  <2>6. CASE s.tag # "Utf8" /\ Descends(s, v)
    <3>1. /\ Coerce(v, s) = [v EXCEPT !.sub = parts]
          /\ v = [kind |-> v.kind, of |-> v.of, sub |-> v.sub]
      BY <2>2, <2>6, ValueFacts
    <3>2. v.kind \in Containers /\ v.kind \notin Scalars
      BY <2>6 DEF Descends, Containers, Scalars, Texts, Numerals, WholeNumbers, Nothing, Dates, Datetimes
    <3>3. n - 1 \in Good
      BY <1>1, <3>2, PartBelow
    <3>4. ASSUME NEW k \in DOMAIN v.sub PROVE parts[k] \in ValuesTo[n - 1]
      <4>1. MaxDepth \in Levels
        BY DepthAssumption DEF Levels
      <4>2. v.sub[k] \in ValuesTo[n - 1] /\ MaxDepth # 0 /\ Part(s, k) \in TreesTo[MaxDepth - 1]
        BY <2>6, <4>1, PartsBelow DEF Trees
      <4>3. Part(s, k) \in Trees
        BY <4>1, <4>2, TreesBelow DEF Trees
      <4> QED
        BY <3>3, <4>2, <4>3
    <3>5. [v EXCEPT !.sub = parts] \in ValuesTo[n]
      <4>1. CASE v.kind = "object"
        <5>1. n # 0 /\ DOMAIN v.sub = FieldNames
          BY <4>1, ValueFacts
        <5>2. parts \in [FieldNames -> ValuesTo[n - 1]]
          BY <3>4, <5>1
        <5> HIDE DEF parts
        <5> QED
          BY <4>1, <5>1, <5>2, ValuesMade
      <4>2. CASE v.kind = "array"
        <5>1. n # 0 /\ v.sub \in Seq(ValuesTo[n - 1])
          BY <4>2, ValueFacts
        <5>2. Len(v.sub) \in Nat /\ DOMAIN v.sub = 1 .. Len(v.sub)
          BY <5>1
        <5>3. parts \in [1 .. Len(v.sub) -> ValuesTo[n - 1]]
          BY <3>4, <5>2
        <5> HIDE DEF parts
        <5>4. parts \in Seq(ValuesTo[n - 1])
          BY <5>2, <5>3
        <5> QED
          BY <4>2, <5>1, <5>4, ValuesMade
      <4> QED
        BY <3>2, <4>1, <4>2 DEF Containers
    <3>6. [v EXCEPT !.sub = parts].kind = v.kind
      BY <3>1
    <3> HIDE DEF parts
    <3> QED
      BY <2>6, <3>1, <3>2, <3>5, <3>6
  <2> HIDE DEF G
  <2> QED
    BY <2>4, <2>5, <2>6 DEF G
<1> HIDE DEF Good
<1>2. \A n \in Levels : n \in Good
  BY <1>1, LevelInduction
<1> QED
  BY <1>2 DEF Good

(* Values normalized by their shape. *)
Normalized(vs) == {Normalize(v, ShapeOfAll(vs)) : v \in vs}

LEMMA NormalizedTyped ==
  ASSUME NEW n \in Levels, NEW vs \in SUBSET ValuesTo[n]
  PROVE  Normalized(vs) \in SUBSET ValuesTo[n]
<1>1. ShapeOfAll(vs) \in Trees
  BY ShapeTags
<1>2. \A v \in vs : Normalize(v, ShapeOfAll(vs)) \in ValuesTo[n]
  BY <1>1, NormalizeTyped
<1> QED
  BY <1>2 DEF Normalized

(* The kinds of the values are known where they agree. *)
LEMMA KindsByTags ==
  ASSUME NEW n \in Levels, NEW vs \in SUBSET ValuesTo[n]
  PROVE  \A v \in vs : v.kind \in Nothing \/ (v.kind \in KindsOf(vs) /\ ShapeTag(v.kind) \in Tags(vs))
BY DEF Tags, KindsOf

(* Values that agree and hold no others are left as they are. *)
LEMMA NormalizedScalars ==
  ASSUME NEW n \in Levels, NEW vs \in SUBSET ValuesTo[n],
         Tags(vs) \in {{}} \cup {{l} : l \in {"Bool", "Number", "Str"}}
  PROVE  /\ \A v \in vs : Normalize(v, ShapeOfAll(vs)) = v /\ v.kind \in Nothing \cup KindsOf(vs)
         /\ Normalized(vs) = vs
         /\ \/ KindsOf(vs) = {}
            \/ KindsOf(vs) = {"bool"}
            \/ KindsOf(vs) # {} /\ KindsOf(vs) \subseteq Numerals
            \/ KindsOf(vs) # {} /\ KindsOf(vs) \subseteq Texts
<1> DEFINE s == ShapeOfAll(vs)
<1>1. s \in {Unknown} \cup {Leaf(l) : l \in {"Bool", "Number", "Str"}}
  BY ShapeCases
<1>2. s \in Trees
  BY ShapeTags
<1>3. s # Conflict /\ \A v : ~Descends(s, v)
  BY <1>1 DEF Unknown, Conflict, Leaf, Tree, Descends
<1> HIDE DEF s
<1>4. \A v \in vs : Normalize(v, s) = v
  <2> SUFFICES ASSUME NEW v \in vs PROVE Normalize(v, s) = v
    OBVIOUS
  <2>1. v \in Values
    BY ValuesBelow
  <2> QED
    BY <1>2, <1>3, <2>1, NormalizeIs
<1>5. Normalized(vs) = vs
  BY <1>4 DEF Normalized, s
<1>6. \/ KindsOf(vs) = {}
      \/ KindsOf(vs) = {"bool"}
      \/ KindsOf(vs) # {} /\ KindsOf(vs) \subseteq Numerals
      \/ KindsOf(vs) # {} /\ KindsOf(vs) \subseteq Texts
  BY TagFacts
<1> QED
  BY <1>4, <1>5, <1>6, KindsByTags DEF s

(* Values that disagree are made texts. *)
LEMMA NormalizedConflicts ==
  ASSUME NEW n \in Levels, NEW vs \in SUBSET ValuesTo[n], \E t, u \in Tags(vs) : t # u
  PROVE  /\ \A v \in vs : Normalize(v, ShapeOfAll(vs)) = Stringify(v)
         /\ KindsOf(Normalized(vs)) # {}
         /\ KindsOf(Normalized(vs)) \subseteq Texts
<1>1. ShapeOfAll(vs) = Conflict /\ Conflict \in Trees
  BY ShapeTags
<1>2. \A v \in vs : Normalize(v, ShapeOfAll(vs)) = Stringify(v)
  BY <1>1, NormalizeIs, ValuesBelow
<1>3. ASSUME NEW v \in vs
      PROVE  /\ v.kind \in Nothing => Stringify(v).kind \in Nothing
             /\ v.kind \notin Nothing => Stringify(v).kind \in Texts
  <2>1. v = [kind |-> v.kind, of |-> v.of, sub |-> v.sub]
    BY ValueFacts
  <2>2. Text(v).kind = "str"
    BY <2>1 DEF Text
  <2> QED
    BY <2>2 DEF Stringify, Texts
<1>4. KindsOf(vs) # {}
  BY TagFacts
<1>5. PICK v \in vs : v.kind \notin Nothing
  BY <1>4 DEF KindsOf
<1>6. Stringify(v) \in Normalized(vs) /\ Stringify(v).kind \in Texts
  BY <1>2, <1>3, <1>5 DEF Normalized
<1>7. \A u \in Normalized(vs) : u.kind \in Nothing \cup Texts
  BY <1>2, <1>3 DEF Normalized
<1>8. Texts \cap Nothing = {}
  BY DEF Texts, Nothing, Dates, Datetimes
<1> QED
  BY <1>2, <1>6, <1>7, <1>8 DEF KindsOf

(* Objects are normalized field by field. *)
LEMMA NormalizedObjects ==
  ASSUME NEW n \in Levels, NEW vs \in SUBSET ValuesTo[n], Tags(vs) = {"Object"}
  PROVE  /\ n # 0
         /\ \A v \in vs : v.kind \in Nothing => Normalize(v, ShapeOfAll(vs)) = v
         /\ \A v \in vs : v.kind \notin Nothing =>
              /\ v.kind = "object"
              /\ Normalize(v, ShapeOfAll(vs)) =
                   [v EXCEPT !.sub = [k \in FieldNames |-> Normalize(v.sub[k], ShapeOfAll(At(vs, k)))]]
         /\ KindsOf(Normalized(vs)) = {"object"}
         /\ \A k \in FieldNames : At(Normalized(vs), k) = Normalized(At(vs, k))
<1> DEFINE s == ShapeOfAll(vs)
           Norm(v, k) == Normalize(v.sub[k], ShapeOfAll(At(vs, k)))
           Whole1(v) == [v EXCEPT !.sub = [k \in FieldNames |-> Norm(v, k)]]
<1>1. n # 0 /\ s = Tree("Object", [k \in FieldNames |-> ShapeOfAll(At(vs, k))])
  BY ShapeCases
<1>2. s \in Trees
  BY ShapeTags
<1>3. KindsOf(vs) = {"object"}
  BY TagFacts
<1>4. \A v \in vs : v.kind \in Nothing \cup {"object"}
  BY <1>3, KindsByTags
<1>5. /\ s.tag = "Object" /\ s # Conflict
      /\ \A k \in FieldNames : Part(s, k) = ShapeOfAll(At(vs, k))
  BY <1>1 DEF Tree, Part, Conflict, Leaf
<1> HIDE DEF s
<1>6. ASSUME NEW v \in vs
      PROVE  /\ v.kind \in Nothing => Normalize(v, s) = v
             /\ v.kind = "object" => Normalize(v, s) = Whole1(v)
  <2> DEFINE parts == [k \in DOMAIN v.sub |-> Normalize(v.sub[k], Part(s, k))]
  <2>1. v \in Values
    BY ValuesBelow
  <2>2. Normalize(v, s) =
           IF s = Conflict THEN Stringify(v)
           ELSE IF ~Descends(s, v) THEN v
           ELSE [v EXCEPT !.sub = parts]
    BY <1>2, <2>1, NormalizeIs
  <2>3. v.kind = "object" => DOMAIN v.sub = FieldNames
    BY ValueFacts
  <2>4. v.kind = "object" => parts = [k \in FieldNames |-> Norm(v, k)]
    BY <1>5, <2>3
  <2>5. Descends(s, v) <=> v.kind = "object"
    BY <1>5 DEF Descends
  <2>6. v.kind \in Nothing => v.kind # "object"
    BY DEF Nothing
  <2> HIDE DEF parts, Norm
  <2> QED
    BY <1>5, <2>2, <2>4, <2>5, <2>6
<1>7. ASSUME NEW v \in vs, v.kind = "object"
      PROVE  /\ Whole1(v).kind = "object"
             /\ \A k \in FieldNames : Whole1(v).sub[k] = Norm(v, k)
  <2>1. v = [kind |-> v.kind, of |-> v.of, sub |-> v.sub]
    BY ValueFacts
  <2> HIDE DEF Norm
  <2> QED
    BY <1>7, <2>1
<1>8. Normalized(vs) = {Normalize(v, s) : v \in vs}
  BY DEF Normalized, s
<1>9. "object" \notin Nothing
  BY DEF Nothing
<1> DEFINE N == Normalized(vs)
<1>10. \A w \in N : \E v \in vs : /\ w = Normalize(v, s)
                                  /\ w.kind = v.kind
                                  /\ v.kind \in Nothing \cup {"object"}
  <2> HIDE DEF Whole1
  <2> QED
    BY <1>4, <1>6, <1>7, <1>8
<1>11. KindsOf(N) = {"object"}
  <2>1. PICK v \in vs : v.kind = "object"
    BY <1>3 DEF KindsOf
  <2>2. Normalize(v, s) \in N /\ Normalize(v, s).kind = "object"
    BY <1>6, <1>7, <1>8, <2>1
  <2> HIDE DEF N
  <2> QED
    BY <1>9, <1>10, <2>2 DEF KindsOf
<1>12. ASSUME NEW k \in FieldNames PROVE At(N, k) = Normalized(At(vs, k))
  <2>1. \A v \in vs : v.kind = "object" =>
          Normalize(v, s) \in N /\ Normalize(v, s).kind = "object" /\ Normalize(v, s).sub[k] = Norm(v, k)
    <3> HIDE DEF Norm
    <3> QED
      BY <1>6, <1>7, <1>8
  <2>2. \A w \in N : w.kind = "object" => \E v \in vs : v.kind = "object" /\ w = Normalize(v, s)
    BY <1>10
  <2>3. At(N, k) = {Norm(v, k) : v \in {u \in vs : u.kind = "object"}}
    <3> HIDE DEF N, Norm
    <3>1. At(N, k) = {w.sub[k] : w \in {u \in N : u.kind = "object"}}
      BY DEF At
    <3> QED
      BY <2>1, <2>2, <3>1
  <2>4. Normalized(At(vs, k)) = {Norm(v, k) : v \in {u \in vs : u.kind = "object"}}
    BY DEF Normalized, At
  <2> QED
    BY <2>3, <2>4
<1> HIDE DEF N, Norm
<1>13. \A v \in vs : v.kind \notin Nothing => v.kind = "object"
  BY <1>4
<1> QED
  BY <1>1, <1>6, <1>11, <1>12, <1>13 DEF s, N, Norm

(* Arrays are normalized element by element. *)
LEMMA NormalizedArrays ==
  ASSUME NEW n \in Levels, NEW vs \in SUBSET ValuesTo[n], Tags(vs) = {"Array"}
  PROVE  /\ n # 0
         /\ \A v \in vs : v.kind \in Nothing => Normalize(v, ShapeOfAll(vs)) = v
         /\ \A v \in vs : v.kind \notin Nothing =>
              /\ v.kind = "array"
              /\ Normalize(v, ShapeOfAll(vs)) =
                   [v EXCEPT !.sub = [k \in DOMAIN v.sub |->
                                        Normalize(v.sub[k], ShapeOfAll(Elements(vs)))]]
         /\ KindsOf(Normalized(vs)) = {"array"}
         /\ Elements(Normalized(vs)) = Normalized(Elements(vs))
<1> DEFINE s == ShapeOfAll(vs)
           Norm(v, k) == Normalize(v.sub[k], ShapeOfAll(Elements(vs)))
           Whole1(v) == [v EXCEPT !.sub = [k \in DOMAIN v.sub |-> Norm(v, k)]]
<1>1. n # 0 /\ s = Tree("Array", <<ShapeOfAll(Elements(vs))>>)
  BY ShapeCases
<1>2. s \in Trees
  BY ShapeTags
<1>3. KindsOf(vs) = {"array"}
  BY TagFacts
<1>4. \A v \in vs : v.kind \in Nothing \cup {"array"}
  BY <1>3, KindsByTags
<1>5. /\ s.tag = "Array" /\ s # Conflict
      /\ \A k : Part(s, k) = ShapeOfAll(Elements(vs))
  BY <1>1 DEF Tree, Part, Conflict, Leaf
<1> HIDE DEF s
<1>6. ASSUME NEW v \in vs
      PROVE  /\ v.kind \in Nothing => Normalize(v, s) = v
             /\ v.kind = "array" => Normalize(v, s) = Whole1(v)
  <2> DEFINE parts == [k \in DOMAIN v.sub |-> Normalize(v.sub[k], Part(s, k))]
  <2>1. v \in Values
    BY ValuesBelow
  <2>2. Normalize(v, s) =
           IF s = Conflict THEN Stringify(v)
           ELSE IF ~Descends(s, v) THEN v
           ELSE [v EXCEPT !.sub = parts]
    BY <1>2, <2>1, NormalizeIs
  <2>4. parts = [k \in DOMAIN v.sub |-> Norm(v, k)]
    BY <1>5
  <2>5. Descends(s, v) <=> v.kind = "array"
    BY <1>5 DEF Descends
  <2>6. v.kind \in Nothing => v.kind # "array"
    BY DEF Nothing
  <2> HIDE DEF parts, Norm
  <2> QED
    BY <1>5, <2>2, <2>4, <2>5, <2>6
<1>7. ASSUME NEW v \in vs, v.kind = "array"
      PROVE  /\ Whole1(v).kind = "array"
             /\ DOMAIN Whole1(v).sub = DOMAIN v.sub
             /\ \A k \in DOMAIN v.sub : Whole1(v).sub[k] = Norm(v, k)
  <2>1. v = [kind |-> v.kind, of |-> v.of, sub |-> v.sub]
    BY ValueFacts
  <2> HIDE DEF Norm
  <2> QED
    BY <1>7, <2>1
<1>8. Normalized(vs) = {Normalize(v, s) : v \in vs}
  BY DEF Normalized, s
<1>9. "array" \notin Nothing
  BY DEF Nothing
<1> DEFINE N == Normalized(vs)
<1>10. \A w \in N : \E v \in vs : /\ w = Normalize(v, s)
                                  /\ w.kind = v.kind
                                  /\ v.kind \in Nothing \cup {"array"}
  <2> HIDE DEF Whole1
  <2> QED
    BY <1>4, <1>6, <1>7, <1>8
<1>11. KindsOf(N) = {"array"}
  <2>1. PICK v \in vs : v.kind = "array"
    BY <1>3 DEF KindsOf
  <2>2. Normalize(v, s) \in N /\ Normalize(v, s).kind = "array"
    BY <1>6, <1>7, <1>8, <2>1
  <2> HIDE DEF N
  <2> QED
    BY <1>9, <1>10, <2>2 DEF KindsOf
<1>12. Elements(N) = Normalized(Elements(vs))
  <2> DEFINE e == ShapeOfAll(Elements(vs))
  <2>1. ASSUME NEW v \in vs, v.kind = "array"
        PROVE  /\ Normalize(v, s) \in N
               /\ Normalize(v, s).kind = "array"
               /\ DOMAIN Normalize(v, s).sub = DOMAIN v.sub
               /\ \A k \in DOMAIN v.sub : Normalize(v, s).sub[k] = Normalize(v.sub[k], e)
    <3> HIDE DEF Whole1
    <3> QED
      BY <1>6, <1>7, <1>8, <2>1
  <2>2. \A w \in N : w.kind = "array" => \E v \in vs : v.kind = "array" /\ w = Normalize(v, s)
    BY <1>10
  <2> HIDE DEF N, e
  <2>3. \A x : x \in Elements(N) <=> \E w \in N : w.kind = "array" /\ \E k \in DOMAIN w.sub : x = w.sub[k]
    BY DEF Elements
  <2>4. \A x : x \in Elements(vs) <=> \E v \in vs : v.kind = "array" /\ \E k \in DOMAIN v.sub : x = v.sub[k]
    BY DEF Elements
  <2>5. \A x : x \in Normalized(Elements(vs)) <=> \E y \in Elements(vs) : x = Normalize(y, e)
    BY DEF Normalized, e
  <2>6. ASSUME NEW x \in Elements(N) PROVE x \in Normalized(Elements(vs))
    <3>1. PICK w \in N : w.kind = "array" /\ \E k \in DOMAIN w.sub : x = w.sub[k]
      BY <2>3
    <3>2. PICK k \in DOMAIN w.sub : x = w.sub[k]
      BY <3>1
    <3>3. PICK v \in vs : v.kind = "array" /\ w = Normalize(v, s)
      BY <2>2, <3>1
    <3>4. k \in DOMAIN v.sub /\ x = Normalize(v.sub[k], e)
      BY <2>1, <3>2, <3>3
    <3>5. v.sub[k] \in Elements(vs)
      BY <2>4, <3>3, <3>4
    <3> QED
      BY <2>5, <3>4, <3>5
  <2>7. ASSUME NEW x \in Normalized(Elements(vs)) PROVE x \in Elements(N)
    <3>1. PICK y \in Elements(vs) : x = Normalize(y, e)
      BY <2>5
    <3>2. PICK v \in vs : v.kind = "array" /\ \E k \in DOMAIN v.sub : y = v.sub[k]
      BY <2>4
    <3>3. PICK k \in DOMAIN v.sub : y = v.sub[k]
      BY <3>2
    <3> DEFINE w == Normalize(v, s)
    <3>4. /\ w \in N /\ w.kind = "array"
          /\ k \in DOMAIN w.sub
          /\ x = w.sub[k]
      BY <2>1, <3>1, <3>2, <3>3
    <3> HIDE DEF w
    <3> QED
      BY <2>3, <3>4
  <2> QED
    BY <2>6, <2>7
<1> HIDE DEF N
<1>13. \A v \in vs : v.kind \notin Nothing => v.kind = "array"
  BY <1>4
<1> QED
  BY <1>1, <1>6, <1>11, <1>12, <1>13 DEF s, N
----------------------------------------------------------------------------
(* Types. *)

(* The type of objects is that of their fields, of arrays that of their    *)
(* elements, unless that fails. *)
LEMMA InferObjects ==
  ASSUME NEW n \in Levels, NEW ws \in SUBSET ValuesTo[n], KindsOf(ws) = {"object"}
  PROVE  InferType(ws) =
           IF \E k \in FieldNames : InferType(At(ws, k)) = Failure THEN Failure
           ELSE Tree("Struct", [k \in FieldNames |-> InferType(At(ws, k))])
<1> DEFINE parts == [k \in FieldNames |-> InferType(At(ws, k))]
<1>1. ws \in SUBSET Values
  BY ValuesBelow
<1>2. ws # {Absent}
  <2>1. KindsOf({Absent}) = {}
    BY DEF KindsOf, Absent, Scalar, Value, Nothing
  <2> QED
    BY <2>1
<1>3. InferType(ws) = Whole(Tree("Struct", parts))
  BY <1>1, <1>2, InferTypeIs
<1>4. Whole(Tree("Struct", parts)) = IF \E k \in FieldNames : parts[k] = Failure THEN Failure
                                     ELSE Tree("Struct", parts)
  BY DEF Whole, Tree
<1> QED
  BY <1>3, <1>4

LEMMA InferArrays ==
  ASSUME NEW n \in Levels, NEW ws \in SUBSET ValuesTo[n], KindsOf(ws) = {"array"}
  PROVE  InferType(ws) =
           IF InferType(Elements(ws)) = Failure THEN Failure
           ELSE Tree("List", <<InferType(Elements(ws))>>)
<1> DEFINE part == InferType(Elements(ws))
<1>1. ws \in SUBSET Values
  BY ValuesBelow
<1>2. ws # {Absent}
  <2>1. KindsOf({Absent}) = {}
    BY DEF KindsOf, Absent, Scalar, Value, Nothing
  <2> QED
    BY <2>1
<1>3. InferType(ws) = Whole(Tree("List", <<part>>))
  BY <1>1, <1>2, InferTypeIs
<1> HIDE DEF part
<1>4. Whole(Tree("List", <<part>>)) = IF part = Failure THEN Failure ELSE Tree("List", <<part>>)
  BY DEF Whole, Tree
<1> QED
  BY <1>3, <1>4 DEF part

(* The type of scalars. *)
LEMMA InferScalars ==
  ASSUME NEW n \in Levels, NEW ws \in SUBSET ValuesTo[n], KindsOf(ws) \cap Containers = {}
  PROVE  InferType(ws) =
           IF ws = {Absent} THEN NoField
           ELSE IF KindsOf(ws) = {} THEN Leaf("Null")
           ELSE Leaf(ScalarType(KindsOf(ws)))
<1>1. ws \in SUBSET Values
  BY ValuesBelow
<1>2. KindsOf(ws) # {"object"} /\ KindsOf(ws) # {"array"}
  BY DEF Containers
<1> QED
  BY <1>1, <1>2, InferTypeIs

(* A type nests no deeper than the values it is inferred from. *)
LEMMA InferTyped ==
  \A n \in Levels : \A ws \in SUBSET ValuesTo[n] : InferType(ws) \in TreesTo[n]
<1> DEFINE S == {n \in Levels : \A ws \in SUBSET ValuesTo[n] : InferType(ws) \in TreesTo[n]}
<1>1. ASSUME NEW n \in Levels, n # 0 => n - 1 \in S PROVE n \in S
  <2> SUFFICES ASSUME NEW ws \in SUBSET ValuesTo[n] PROVE InferType(ws) \in TreesTo[n]
    OBVIOUS
  <2>1. \A l \in Leaves : Leaf(l) \in TreesTo[n]
    BY TreesMade
  <2>2. /\ Failure \in TreesTo[n] /\ NoField \in TreesTo[n] /\ Leaf("Null") \in TreesTo[n]
        /\ \A kinds : Leaf(ScalarType(kinds)) \in TreesTo[n]
    BY <2>1 DEF Leaves, Failure, NoField, ScalarType
  <2>3. CASE KindsOf(ws) = {"object"}
    <3>1. n # 0 /\ \A k \in FieldNames : At(ws, k) \in SUBSET ValuesTo[n - 1]
      BY <2>3, SetsBelow
    <3>2. [k \in FieldNames |-> InferType(At(ws, k))] \in [FieldNames -> TreesTo[n - 1]]
      BY <1>1, <3>1
    <3>3. Tree("Struct", [k \in FieldNames |-> InferType(At(ws, k))]) \in TreesTo[n]
      BY <3>1, <3>2, TreesMade
    <3> QED
      BY <2>2, <2>3, <3>3, InferObjects
  <2>4. CASE KindsOf(ws) = {"array"}
    <3>1. n # 0 /\ Elements(ws) \in SUBSET ValuesTo[n - 1]
      BY <2>4, SetsBelow
    <3>2. InferType(Elements(ws)) \in TreesTo[n - 1]
      BY <1>1, <3>1
    <3>3. Tree("List", <<InferType(Elements(ws))>>) \in TreesTo[n]
      BY <3>1, <3>2, TreesMade
    <3> QED
      BY <2>2, <2>4, <3>3, InferArrays
  <2>5. CASE KindsOf(ws) \notin {{"object"}, {"array"}}
    <3>1. ws \in SUBSET Values
      BY ValuesBelow
    <3>2. InferType(ws) \in {NoField, Failure, Leaf("Null"), Leaf(ScalarType(KindsOf(ws)))}
      BY <2>5, <3>1, InferTypeIs
    <3> QED
      BY <2>2, <3>2
  <2> QED
    BY <2>3, <2>4, <2>5
<1> HIDE DEF S
<1>2. \A n \in Levels : n \in S
  BY <1>1, LevelInduction
<1> QED
  BY <1>2 DEF S

(* Inference accepts values normalized by their shape. *)
THEOREM InferWorks ==
  \A n \in Levels : \A vs \in SUBSET ValuesTo[n] : InferType(Normalized(vs)) # Failure
<1> DEFINE S == {n \in Levels : \A vs \in SUBSET ValuesTo[n] : InferType(Normalized(vs)) # Failure}
<1>1. ASSUME NEW n \in Levels, n # 0 => n - 1 \in S PROVE n \in S
  <2> SUFFICES ASSUME NEW vs \in SUBSET ValuesTo[n] PROVE InferType(Normalized(vs)) # Failure
    OBVIOUS
  <2> DEFINE N == Normalized(vs)
  <2>1. N \in SUBSET ValuesTo[n]
    BY NormalizedTyped
  <2>2. \A t, f : Tree(t, f).tag = t
    BY DEF Tree
  <2>3. /\ Failure.tag = "Failure" /\ NoField.tag = "NoField"
        /\ \A l : Leaf(l).tag = l
        /\ \A kinds : ScalarType(kinds) # "Failure"
    BY DEF Failure, NoField, Leaf, Tree, ScalarType
  <2>4. CASE KindsOf(N) \cap Containers = {}
    <3> HIDE DEF N
    <3>1. InferType(N) \in {NoField, Leaf("Null"), Leaf(ScalarType(KindsOf(N)))}
      BY <2>1, <2>4, InferScalars
    <3>2. InferType(N) # Failure
      BY <2>3, <3>1
    <3> QED
      BY <3>2 DEF N
  <2>5. CASE Tags(vs) \in {{}} \cup {{l} : l \in {"Bool", "Number", "Str"}}
    <3>1. N = vs
      BY <2>5, NormalizedScalars
    <3>2. KindsOf(N) \cap Containers = {}
      BY <2>5, <3>1, NormalizedScalars DEF Numerals, WholeNumbers, Texts, Dates, Datetimes, Containers
    <3> QED
      BY <2>4, <3>2
  <2>6. CASE \E t, u \in Tags(vs) : t # u
    <3>1. KindsOf(N) \subseteq Texts
      BY <2>6, NormalizedConflicts
    <3>2. KindsOf(N) \cap Containers = {}
      BY <3>1 DEF Texts, Dates, Datetimes, Containers
    <3> QED
      BY <2>4, <3>2
  <2>7. CASE Tags(vs) = {"Object"}
    <3>1. /\ n # 0 /\ KindsOf(N) = {"object"}
          /\ \A k \in FieldNames : At(N, k) = Normalized(At(vs, k))
      BY <2>7, NormalizedObjects
    <3>2. ASSUME NEW k \in FieldNames PROVE InferType(At(N, k)) # Failure
      <4>1. At(vs, k) \in SUBSET ValuesTo[n - 1]
        BY <3>1, SetsBelow
      <4> QED
        BY <1>1, <3>1, <4>1
    <3> HIDE DEF N
    <3>3. InferType(N) = Tree("Struct", [k \in FieldNames |-> InferType(At(N, k))])
      BY <2>1, <3>1, <3>2, InferObjects
    <3>4. InferType(N) # Failure
      BY <2>2, <2>3, <3>3
    <3> QED
      BY <3>4 DEF N
  <2>8. CASE Tags(vs) = {"Array"}
    <3>1. /\ n # 0 /\ KindsOf(N) = {"array"}
          /\ Elements(N) = Normalized(Elements(vs))
      BY <2>8, NormalizedArrays
    <3>2. InferType(Elements(N)) # Failure
      <4>1. Elements(vs) \in SUBSET ValuesTo[n - 1]
        BY <3>1, SetsBelow
      <4> QED
        BY <1>1, <3>1, <4>1
    <3> HIDE DEF N
    <3>3. InferType(N) = Tree("List", <<InferType(Elements(N))>>)
      BY <2>1, <3>1, <3>2, InferArrays
    <3>4. InferType(N) # Failure
      BY <2>2, <2>3, <3>3
    <3> QED
      BY <3>4 DEF N
  <2> QED
    BY <2>5, <2>6, <2>7, <2>8, ShapeCases
<1> HIDE DEF S
<1>2. \A n \in Levels : n \in S
  BY <1>1, LevelInduction
<1> QED
  BY <1>2 DEF S

(* Coercing values by the type inferred from them, once normalized, is     *)
(* normalizing them. *)
LEMMA CoerceIsNormalize ==
  \A n \in Levels : \A vs \in SUBSET ValuesTo[n] : \A v \in vs :
    Coerce(v, InferType(Normalized(vs))) = Normalize(v, ShapeOfAll(vs))
<1> DEFINE Good == {n \in Levels : \A vs \in SUBSET ValuesTo[n] : \A v \in vs :
                      Coerce(v, InferType(Normalized(vs))) = Normalize(v, ShapeOfAll(vs))}
<1>1. ASSUME NEW n \in Levels, n # 0 => n - 1 \in Good PROVE n \in Good
  <2> SUFFICES ASSUME NEW vs \in SUBSET ValuesTo[n], NEW v \in vs
               PROVE  Coerce(v, InferType(Normalized(vs))) = Normalize(v, ShapeOfAll(vs))
    OBVIOUS
  <2> DEFINE N == Normalized(vs)
             t == InferType(N)
             coerced == [k \in DOMAIN v.sub |-> Coerce(v.sub[k], Part(t, k))]
  <2>1. N \in SUBSET ValuesTo[n] /\ v \in Values /\ v \in ValuesTo[n]
    BY NormalizedTyped, ValuesBelow
  <2>2. t \in Trees /\ t # Failure
    BY <2>1, InferTyped, InferWorks, TreesBelow
  <2>3. Coerce(v, t) = IF t.tag = "Utf8" THEN Stringify(v)
                       ELSE IF ~Descends(t, v) THEN v
                       ELSE [v EXCEPT !.sub = coerced]
    BY <2>1, <2>2, CoerceIs
  <2>4. \A l : Leaf(l).tag = l
    BY DEF Leaf, Tree
  <2>5. /\ \A l \in Leaves : \A u : ~Descends(Leaf(l), u)
        /\ "Utf8" \in Leaves
        /\ \A kinds : ScalarType(kinds) \in Leaves
        /\ NoField.tag # "Utf8" /\ Leaf("Null").tag # "Utf8"
        /\ \A u : ~Descends(NoField, u) /\ ~Descends(Leaf("Null"), u)
    BY DEF Descends, Leaf, Tree, Leaves, ScalarType, NoField
  <2>6. CASE KindsOf(N) # {} /\ KindsOf(N) \subseteq Texts
    <3>1. KindsOf(N) \cap Containers = {}
      BY <2>6 DEF Texts, Dates, Datetimes, Containers
    <3>2. ScalarType(KindsOf(N)) = "Utf8"
      BY <2>6 DEF ScalarType, Texts, Dates, Datetimes, Numerals, WholeNumbers
    <3>3. N # {Absent}
      <4>1. KindsOf({Absent}) = {}
        BY DEF KindsOf, Absent, Scalar, Value, Nothing
      <4> QED
        BY <2>6, <4>1
    <3> HIDE DEF N
    <3>4. t = Leaf("Utf8")
      BY <2>1, <2>6, <3>1, <3>2, <3>3, InferScalars
    <3> HIDE DEF t
    <3>5. Coerce(v, t) = Stringify(v)
      BY <2>3, <2>4, <3>4
    <3>6. CASE Tags(vs) \in {{}} \cup {{l} : l \in {"Bool", "Number", "Str"}}
      <4>1. N = vs /\ Normalize(v, ShapeOfAll(vs)) = v /\ v.kind \in Nothing \cup KindsOf(vs)
        BY <3>6, NormalizedScalars DEF N
      <4>2. Stringify(v) = v
        BY <2>6, <4>1 DEF Stringify
      <4> QED
        BY <3>5, <4>1, <4>2 DEF t, N
    <3>7. CASE \E x, y \in Tags(vs) : x # y
      <4>1. Normalize(v, ShapeOfAll(vs)) = Stringify(v)
        BY <3>7, NormalizedConflicts
      <4> QED
        BY <3>5, <4>1 DEF t, N
    <3>8. CASE Tags(vs) \in {{"Object"}, {"Array"}}
      <4>1. KindsOf(N) \in {{"object"}, {"array"}}
        BY <3>8, NormalizedObjects, NormalizedArrays DEF N
      <4> QED
        BY <2>6, <4>1 DEF Texts, Dates, Datetimes
    <3> QED
      BY <3>6, <3>7, <3>8, ShapeCases
  <2>7. CASE /\ Tags(vs) \in {{}} \cup {{l} : l \in {"Bool", "Number", "Str"}}
             /\ ~(KindsOf(N) # {} /\ KindsOf(N) \subseteq Texts)
    <3>1. N = vs /\ Normalize(v, ShapeOfAll(vs)) = v
      BY <2>7, NormalizedScalars
    <3>2. \/ KindsOf(N) = {}
          \/ KindsOf(N) = {"bool"}
          \/ KindsOf(N) # {} /\ KindsOf(N) \subseteq Numerals
      BY <2>7, <3>1, NormalizedScalars
    <3>3. KindsOf(N) \cap Containers = {}
      BY <3>2 DEF Numerals, WholeNumbers, Containers
    <3>4. KindsOf(N) # {} => ScalarType(KindsOf(N)) # "Utf8"
      BY <3>2 DEF ScalarType, Numerals, WholeNumbers
    <3> HIDE DEF N
    <3>5. \/ t \in {NoField, Leaf("Null")}
          \/ KindsOf(N) # {} /\ t = Leaf(ScalarType(KindsOf(N)))
      BY <2>1, <3>3, InferScalars
    <3> HIDE DEF t
    <3>6. t.tag # "Utf8" /\ ~Descends(t, v)
      BY <2>4, <2>5, <3>4, <3>5
    <3> QED
      BY <2>3, <3>1, <3>6 DEF t, N
  <2>8. CASE Tags(vs) = {"Object"}
    <3>1. /\ n # 0 /\ KindsOf(N) = {"object"}
          /\ \A k \in FieldNames : At(N, k) = Normalized(At(vs, k))
      BY <2>8, NormalizedObjects
    <3>2. t = Tree("Struct", [k \in FieldNames |-> InferType(At(N, k))])
      <4> HIDE DEF N
      <4> QED
        BY <2>1, <2>2, <3>1, InferObjects
    <3>3. /\ t.tag = "Struct"
          /\ \A k \in FieldNames : Part(t, k) = InferType(Normalized(At(vs, k)))
      BY <3>1, <3>2 DEF Tree, Part
    <3> HIDE DEF t, N
    <3>4. CASE v.kind \in Nothing
      <4>1. Normalize(v, ShapeOfAll(vs)) = v
        BY <2>8, <3>4, NormalizedObjects
      <4>2. ~Descends(t, v)
        BY <3>3, <3>4 DEF Descends, Nothing
      <4> QED
        BY <2>3, <3>3, <4>1, <4>2 DEF t, N
    <3>5. CASE v.kind \notin Nothing
      <4> DEFINE fields == [k \in FieldNames |-> Normalize(v.sub[k], ShapeOfAll(At(vs, k)))]
      <4>1. v.kind = "object" /\ Normalize(v, ShapeOfAll(vs)) = [v EXCEPT !.sub = fields]
        BY <2>8, <3>5, NormalizedObjects
      <4>2. Descends(t, v) /\ DOMAIN v.sub = FieldNames
        BY <2>1, <3>3, <4>1, ValueFacts DEF Descends
      <4>3. ASSUME NEW k \in FieldNames
            PROVE  Coerce(v.sub[k], Part(t, k)) = Normalize(v.sub[k], ShapeOfAll(At(vs, k)))
        <5>1. At(vs, k) \in SUBSET ValuesTo[n - 1]
          BY <3>1, SetsBelow
        <5>2. v.sub[k] \in At(vs, k)
          BY <4>1 DEF At
        <5> QED
          BY <1>1, <3>1, <3>3, <5>1, <5>2
      <4>4. coerced = fields
        BY <4>2, <4>3
      <4> HIDE DEF coerced, fields
      <4> QED
        BY <2>3, <3>3, <4>1, <4>2, <4>4 DEF t, N
    <3> QED
      BY <3>4, <3>5
  <2>9. CASE Tags(vs) = {"Array"}
    <3>1. /\ n # 0 /\ KindsOf(N) = {"array"}
          /\ Elements(N) = Normalized(Elements(vs))
      BY <2>9, NormalizedArrays
    <3>2. t = Tree("List", <<InferType(Elements(N))>>)
      <4> HIDE DEF N
      <4> QED
        BY <2>1, <2>2, <3>1, InferArrays
    <3>3. t.tag = "List" /\ \A k : Part(t, k) = InferType(Normalized(Elements(vs)))
      BY <3>1, <3>2 DEF Tree, Part
    <3> HIDE DEF t, N
    <3>4. CASE v.kind \in Nothing
      <4>1. Normalize(v, ShapeOfAll(vs)) = v
        BY <2>9, <3>4, NormalizedArrays
      <4>2. ~Descends(t, v)
        BY <3>3, <3>4 DEF Descends, Nothing
      <4> QED
        BY <2>3, <3>3, <4>1, <4>2 DEF t, N
    <3>5. CASE v.kind \notin Nothing
      <4> DEFINE parts == [k \in DOMAIN v.sub |-> Normalize(v.sub[k], ShapeOfAll(Elements(vs)))]
      <4>1. v.kind = "array" /\ Normalize(v, ShapeOfAll(vs)) = [v EXCEPT !.sub = parts]
        BY <2>9, <3>5, NormalizedArrays
      <4>2. Descends(t, v)
        BY <3>3, <4>1 DEF Descends
      <4>3. ASSUME NEW k \in DOMAIN v.sub
            PROVE  Coerce(v.sub[k], Part(t, k)) = Normalize(v.sub[k], ShapeOfAll(Elements(vs)))
        <5>1. Elements(vs) \in SUBSET ValuesTo[n - 1]
          BY <3>1, SetsBelow
        <5>2. v.sub[k] \in Elements(vs)
          BY <4>1 DEF Elements
        <5> QED
          BY <1>1, <3>1, <3>3, <5>1, <5>2
      <4>4. coerced = parts
        BY <4>3
      <4> HIDE DEF coerced, parts
      <4> QED
        BY <2>3, <3>3, <4>1, <4>2, <4>4 DEF t, N
    <3> QED
      BY <3>4, <3>5
  <2>10. CASE \E x, y \in Tags(vs) : x # y
    BY <2>6, <2>10, NormalizedConflicts
  <2> QED
    BY <2>6, <2>7, <2>8, <2>9, <2>10, ShapeCases
<1> HIDE DEF Good
<1>2. \A n \in Levels : n \in Good
  BY <1>1, LevelInduction
<1> QED
  BY <1>2 DEF Good

(* The parts of a value, and those it is a text of, are one level down. *)
LEMMA AnyPartBelow ==
  ASSUME NEW n \in Levels, NEW v \in ValuesTo[n], NEW k \in DOMAIN v.sub
  PROVE  n # 0 /\ v.sub[k] \in ValuesTo[n - 1]
<1> DEFINE P == ValuesTo[n - 1]
<1>1. ValuesTo[n] = ValuesOver(P, n)
  BY ValuesToIs
<1> HIDE DEF P
<1>2. CASE v \in ScalarValues
  <2>1. v.sub = <<>>
    BY <1>2 DEF ScalarValues
  <2> QED
    BY <2>1
<1>3. CASE /\ n # 0
           /\ v \in [kind : {"object", "str"}, of : {"object"}, sub : [FieldNames -> P]]
  <2>1. v.sub \in [FieldNames -> P]
    BY <1>3
  <2> QED
    BY <1>3, <2>1 DEF P
<1>4. CASE /\ n # 0
           /\ v \in [kind : {"array", "str"}, of : {"array"}, sub : Seq(P)]
  <2>1. v.sub \in Seq(P)
    BY <1>4
  <2> QED
    BY <1>4, <2>1 DEF P
<1> QED
  BY <1>1, <1>2, <1>3, <1>4 DEF ValuesOver

LEMMA HoldsIs ==
  ASSUME NEW v \in Values, NEW kind
  PROVE  Holds(v, kind) = (v.kind = kind \/ \E k \in DOMAIN v.sub : Holds(v.sub[k], kind))
<1> USE DepthAssumption DEF Levels
<1> DEFINE Row(g, u) ==
             u.kind = kind \/ \E k \in DOMAIN u.sub : g[u.sub[k]]
           Good(n, g) == g = [u \in ValuesTo[n] |-> Row(g, u)]
           S == {n \in Levels : \E g : Good(n, g)}
<1>1. ASSUME NEW n \in Levels, n # 0 => n - 1 \in S PROVE n \in S
  <2>1. \E g : n # 0 => Good(n - 1, g)
    BY <1>1
  <2> PICK g : n # 0 => Good(n - 1, g)
    BY <2>1
  <2> DEFINE f == [u \in ValuesTo[n] |-> Row(g, u)]
  <2>2. \A u \in ValuesTo[n] : f[u] = Row(g, u)
    OBVIOUS
  <2>3. n # 0 => \A u \in ValuesTo[n - 1] : g[u] = Row(g, u)
    BY <2>1
  <2> HIDE DEF f, Row
  <2>4. n # 0 => \A u \in ValuesTo[n - 1] : f[u] = g[u]
    BY <2>2, <2>3, ValuesBelow
  <2>5. ASSUME NEW u \in ValuesTo[n] PROVE Row(f, u) = Row(g, u)
    <3>1. \A k \in DOMAIN u.sub : f[u.sub[k]] = g[u.sub[k]]
      BY <2>4, AnyPartBelow
    <3> QED
      BY <3>1 DEF Row
  <2>6. f = [u \in ValuesTo[n] |-> Row(f, u)]
    BY <2>5 DEF f
  <2> QED
    BY <2>6
<1> HIDE DEF S
<1>2. MaxDepth \in S
  BY <1>1, LevelInduction
<1>3. \E f : Good(MaxDepth, f)
  BY <1>2 DEF S
<1> DEFINE holds == CHOOSE f : f = [u \in Values |-> Row(f, u)]
<1>4. holds = [u \in Values |-> Row(holds, u)]
  BY <1>3, Zenon DEF Values
<1>5. \A u : Holds(u, kind) = holds[u]
  BY DEF Holds
<1> HIDE DEF holds, Row
<1>6. Holds(v, kind) = Row(holds, v)
  BY <1>4, <1>5
<1>7. (\E k \in DOMAIN v.sub : Holds(v.sub[k], kind)) = (\E k \in DOMAIN v.sub : holds[v.sub[k]])
  BY <1>5
<1> QED
  BY <1>6, <1>7, Zenon DEF Row

(* What a value does not hold, its parts do not. *)
LEMMA NotHeld ==
  ASSUME NEW n \in Levels, NEW v \in ValuesTo[n], NEW kind, ~Holds(v, kind)
  PROVE  /\ v.kind # kind
         /\ \A k \in DOMAIN v.sub : ~Holds(v.sub[k], kind)
<1>1. v \in Values
  BY ValuesBelow
<1> QED
  BY <1>1, HoldsIs

(* What is cut is a number or a datetime, and what is left of it a value. *)
LEMMA CutTyped ==
  ASSUME NEW n \in Levels, NEW v \in ValuesTo[n], NEW t, v.kind \in Cuts(t)
  PROVE  Cut(v) \in ValuesTo[n] /\ Cut(v).kind = "cut"
<1>1. v.kind \in Numerals \cup {"fine_datetime"}
  BY DEF Cuts, Numerals, WholeNumbers
<1>2. v.kind \in Scalars \ {"str"}
  BY <1>1 DEF Scalars, Texts, Datetimes, Numerals, WholeNumbers
<1>3. v = [kind |-> v.kind, of |-> v.of, sub |-> v.sub] /\ Cut(v) \in ValuesTo[n]
  BY <1>2, ValueFacts
<1> QED
  BY <1>3 DEF Cut

(* What decodes nests no deeper, and is absent only where there is no field. *)
LEMMA DecodeTyped ==
  \A n \in Levels : \A v \in ValuesTo[n] : \A t \in Trees :
    /\ Decode(v, t) = Bad \/ Decode(v, t) \in ValuesTo[n]
    /\ Decode(v, t) = Absent <=> t = NoField
<1> DEFINE G(n, v, t) == /\ Decode(v, t) = Bad \/ Decode(v, t) \in ValuesTo[n]
                         /\ Decode(v, t) = Absent <=> t = NoField
           Good == {n \in Levels : \A v \in ValuesTo[n] : \A t \in Trees : G(n, v, t)}
<1>1. ASSUME NEW n \in Levels, n # 0 => n - 1 \in Good PROVE n \in Good
  <2> SUFFICES ASSUME NEW v \in ValuesTo[n], NEW t \in Trees PROVE G(n, v, t)
    OBVIOUS
  <2> DEFINE cells == Cells(v, t)
  <2>1. v \in Values /\ v = [kind |-> v.kind, of |-> v.of, sub |-> v.sub]
    BY ValuesBelow, ValueFacts
  <2>2. Decode(v, t) =
           IF t = NoField THEN Absent
           ELSE IF v.kind \in Nothing THEN Null
           ELSE IF v.kind \notin Takes(t) THEN Bad
           ELSE IF v.kind \in Cuts(t) THEN Cut(v)
           ELSE IF ~Descends(t, v) THEN v
           ELSE IF \E k \in DOMAIN cells : cells[k] = Bad THEN Bad
           ELSE [v EXCEPT !.sub = cells]
    BY <2>1, DecodeIs
  <2>3. /\ Absent \in ValuesTo[n] /\ Null \in ValuesTo[n]
        /\ Null # Absent /\ Bad # Absent
        /\ Absent.kind = "absent" /\ "absent" \in Nothing
    <3>1. {"absent", "null"} \subseteq Scalars
      BY DEF Scalars, Nothing
    <3>2. \A x \in {"absent", "null", "bad"} : Scalar(x).kind = x
      BY DEF Scalar, Value
    <3> QED
      BY <3>1, <3>2, ValuesMade DEF Absent, Null, Bad, Nothing
  <2>c. v.kind \in Cuts(t) => Cut(v) \in ValuesTo[n] /\ Cut(v) # Absent
    BY <2>1, <2>3, CutTyped
  <2>4. CASE Decode(v, t) # [v EXCEPT !.sub = cells]
    <3> HIDE DEF cells
    <3> QED
      BY <2>2, <2>3, <2>c, <2>4
  <2>5. CASE /\ Decode(v, t) = [v EXCEPT !.sub = cells]
             /\ ~(t # NoField /\ v.kind \notin Nothing /\ Descends(t, v)
                  /\ \A k \in DOMAIN cells : cells[k] # Bad)
    <3> HIDE DEF cells
    <3> QED
      BY <2>2, <2>3, <2>c, <2>5
  <2>6. CASE /\ Decode(v, t) = [v EXCEPT !.sub = cells]
             /\ t # NoField /\ v.kind \notin Nothing /\ Descends(t, v)
             /\ \A k \in DOMAIN cells : cells[k] # Bad
    <3>1. v.kind \in Containers /\ DOMAIN cells = DOMAIN v.sub
      BY <2>6 DEF Descends, Containers, Cells
    <3>2. n - 1 \in Good
      BY <1>1, <3>1, PartBelow
    <3>3. ASSUME NEW k \in DOMAIN v.sub PROVE cells[k] \in ValuesTo[n - 1]
      <4>1. MaxDepth \in Levels
        BY DepthAssumption DEF Levels
      <4>2. v.sub[k] \in ValuesTo[n - 1] /\ MaxDepth # 0 /\ Part(t, k) \in TreesTo[MaxDepth - 1]
        BY <2>6, <4>1, PartsBelow DEF Trees
      <4>3. Part(t, k) \in Trees
        BY <4>1, <4>2, TreesBelow DEF Trees
      <4>4. cells[k] = Decode(v.sub[k], Part(t, k))
        BY DEF Cells
      <4> QED
        BY <2>6, <3>1, <3>2, <4>2, <4>3, <4>4
    <3>4. [v EXCEPT !.sub = cells] \in ValuesTo[n]
      <4>1. CASE v.kind = "object"
        <5>1. n # 0 /\ DOMAIN v.sub = FieldNames
          BY <4>1, ValueFacts
        <5>2. cells \in [FieldNames -> ValuesTo[n - 1]]
          BY <3>3, <5>1 DEF Cells
        <5> HIDE DEF cells
        <5> QED
          BY <4>1, <5>1, <5>2, ValuesMade
      <4>2. CASE v.kind = "array"
        <5>1. n # 0 /\ v.sub \in Seq(ValuesTo[n - 1])
          BY <4>2, ValueFacts
        <5>2. Len(v.sub) \in Nat /\ DOMAIN v.sub = 1 .. Len(v.sub)
          BY <5>1
        <5>3. cells \in [1 .. Len(v.sub) -> ValuesTo[n - 1]]
          BY <3>3, <5>2 DEF Cells
        <5> HIDE DEF cells
        <5>4. cells \in Seq(ValuesTo[n - 1])
          BY <5>2, <5>3
        <5> QED
          BY <4>2, <5>1, <5>4, ValuesMade
      <4> QED
        BY <3>1, <4>1, <4>2 DEF Containers
    <3>5. [v EXCEPT !.sub = cells].kind = v.kind
      BY <2>1
    <3> HIDE DEF cells
    <3> QED
      BY <2>3, <2>6, <3>4, <3>5
  <2> HIDE DEF G
  <2> QED
    BY <2>4, <2>5, <2>6 DEF G
<1> HIDE DEF Good
<1>2. \A n \in Levels : n \in Good
  BY <1>1, LevelInduction
<1> QED
  BY <1>2 DEF Good

(* What does not decode is not a value. *)
LEMMA BadIsNone ==
  \A n \in Levels : Bad \notin ValuesTo[n]
<1> SUFFICES ASSUME NEW n \in Levels, Bad \in ValuesTo[n] PROVE FALSE
  OBVIOUS
<1>1. Bad.kind = "bad"
  BY DEF Bad, Scalar, Value
<1> QED
  BY <1>1, ValueFacts DEF Scalars, Texts, Dates, Datetimes, Numerals, WholeNumbers, Nothing, Containers

(* The options change leaves only. *)
LEMMA TransformTyped ==
  ASSUME NEW opts, opts.number \in {Float64} \cup Decimals
  PROVE  \A n \in Levels : \A t \in TreesTo[n] : \A ws \in SUBSET Values :
           Transform(opts, t, ws) \in TreesTo[n]
<1> DEFINE S == {n \in Levels : \A t \in TreesTo[n] : \A ws \in SUBSET Values :
                   Transform(opts, t, ws) \in TreesTo[n]}
<1>1. ASSUME NEW n \in Levels, n # 0 => n - 1 \in S PROVE n \in S
  <2> SUFFICES ASSUME NEW t \in TreesTo[n], NEW ws \in SUBSET Values
               PROVE  Transform(opts, t, ws) \in TreesTo[n]
    OBVIOUS
  <2> DEFINE parts == [k \in FieldNames |-> Transform(opts, t.sub[k], At(ws, k))]
             part == Transform(opts, t.sub[1], Elements(ws))
  <2>1. Transform(opts, t, ws) =
           IF t.tag = "Struct" THEN Tree("Struct", parts)
           ELSE IF t.tag = "List" THEN Tree("List", <<part>>)
           ELSE TransformLeaf(opts, t, KindsOf(ws))
    BY TransformIs, TreesBelow
  <2>2. MaxDepth \in Levels
    BY DepthAssumption DEF Levels
  <2>3. CASE t.tag = "Struct"
    <3>1. n # 0 /\ t.sub \in [FieldNames -> TreesTo[n - 1]]
      BY <2>3, TreeFacts DEF Leaves
    <3>2. ASSUME NEW k \in FieldNames PROVE parts[k] \in TreesTo[n - 1]
      <4>1. At(ws, k) \in SUBSET Values
        BY <2>2, SetsBelow, ValuesBelow DEF Values
      <4> QED
        BY <1>1, <3>1, <4>1
    <3>3. parts \in [FieldNames -> TreesTo[n - 1]]
      BY <3>2
    <3> HIDE DEF parts
    <3> QED
      BY <2>1, <2>3, <3>1, <3>3, TreesMade
  <2>4. CASE t.tag = "List"
    <3>1. n # 0 /\ t.sub \in [1 .. 1 -> TreesTo[n - 1]]
      BY <2>4, TreeFacts DEF Leaves
    <3>2. Elements(ws) \in SUBSET Values
      BY <2>2, SetsBelow, ValuesBelow DEF Values
    <3>3. part \in TreesTo[n - 1]
      BY <1>1, <3>1, <3>2
    <3> HIDE DEF part
    <3> QED
      BY <2>1, <2>4, <3>1, <3>3, TreesMade
  <2>5. CASE t.tag \notin {"Struct", "List"}
    <3>1. {Leaf("Timestamp"), Leaf("Date32")} \subseteq TreesTo[n]
      BY TreesMade DEF Leaves
    <3>2. opts.number # Float64 => Decimal128(opts.number) \in TreesTo[n]
      BY TreesMade
    <3>3. \/ TransformLeaf(opts, t, KindsOf(ws)) \in {t, Leaf("Timestamp"), Leaf("Date32")}
          \/ /\ opts.number # Float64
             /\ TransformLeaf(opts, t, KindsOf(ws)) = Decimal128(opts.number)
      BY DEF TransformLeaf
    <3> QED
      BY <2>1, <2>5, <3>1, <3>2, <3>3
  <2> QED
    BY <2>3, <2>4, <2>5
<1> HIDE DEF S
<1>2. \A n \in Levels : n \in S
  BY <1>1, LevelInduction
<1> QED
  BY <1>2 DEF S

(* With the options off, a type stays as it is. *)
LEMMA TransformPlain ==
  ASSUME NEW opts, opts.number = Float64, opts.infer_temporal = FALSE
  PROVE  \A n \in Levels : \A t \in TreesTo[n] : \A ws \in SUBSET Values :
           Transform(opts, t, ws) = t
<1> DEFINE S == {n \in Levels : \A t \in TreesTo[n] : \A ws \in SUBSET Values :
                   Transform(opts, t, ws) = t}
<1>1. ASSUME NEW n \in Levels, n # 0 => n - 1 \in S PROVE n \in S
  <2> SUFFICES ASSUME NEW t \in TreesTo[n], NEW ws \in SUBSET Values
               PROVE  Transform(opts, t, ws) = t
    OBVIOUS
  <2> DEFINE parts == [k \in FieldNames |-> Transform(opts, t.sub[k], At(ws, k))]
             part == Transform(opts, t.sub[1], Elements(ws))
  <2>1. /\ t = [tag |-> t.tag, sub |-> t.sub]
        /\ Transform(opts, t, ws) =
           IF t.tag = "Struct" THEN Tree("Struct", parts)
           ELSE IF t.tag = "List" THEN Tree("List", <<part>>)
           ELSE TransformLeaf(opts, t, KindsOf(ws))
    BY TransformIs, TreesBelow, TreeFacts
  <2>2. MaxDepth \in Levels
    BY DepthAssumption DEF Levels
  <2>3. CASE t.tag = "Struct"
    <3>1. n # 0 /\ t.sub \in [FieldNames -> TreesTo[n - 1]]
      BY <2>3, TreeFacts DEF Leaves
    <3>2. ASSUME NEW k \in FieldNames PROVE parts[k] = t.sub[k]
      <4>1. At(ws, k) \in SUBSET Values
        BY <2>2, SetsBelow, ValuesBelow DEF Values
      <4> QED
        BY <1>1, <3>1, <4>1
    <3>3. parts = t.sub
      BY <3>1, <3>2
    <3> HIDE DEF parts
    <3> QED
      BY <2>1, <2>3, <3>3 DEF Tree
  <2>4. CASE t.tag = "List"
    <3>1. n # 0 /\ t.sub \in [1 .. 1 -> TreesTo[n - 1]]
      BY <2>4, TreeFacts DEF Leaves
    <3>2. Elements(ws) \in SUBSET Values
      BY <2>2, SetsBelow, ValuesBelow DEF Values
    <3>3. part = t.sub[1]
      BY <1>1, <3>1, <3>2
    <3>4. <<t.sub[1]>> = t.sub
      BY <3>1
    <3> HIDE DEF part
    <3> QED
      BY <2>1, <2>4, <3>3, <3>4 DEF Tree
  <2>5. CASE t.tag \notin {"Struct", "List"}
    BY <2>1, <2>5 DEF TransformLeaf
  <2> QED
    BY <2>3, <2>4, <2>5
<1> HIDE DEF S
<1>2. \A n \in Levels : n \in S
  BY <1>1, LevelInduction
<1> QED
  BY <1>2 DEF S

(* The type that values of the sample get. *)
SampleType(opts, vs) == Transform(opts, InferType(Normalized(vs)), Normalized(vs))

LEMMA SampleTypeTyped ==
  ASSUME NEW opts, opts.number \in {Float64} \cup Decimals, NEW n \in Levels, NEW vs \in SUBSET ValuesTo[n]
  PROVE  SampleType(opts, vs) \in TreesTo[n] /\ SampleType(opts, vs) \in Trees
<1>1. Normalized(vs) \in SUBSET ValuesTo[n] /\ Normalized(vs) \in SUBSET Values
  BY NormalizedTyped, ValuesBelow
<1>2. InferType(Normalized(vs)) \in TreesTo[n]
  BY <1>1, InferTyped
<1>3. SampleType(opts, vs) \in TreesTo[n]
  BY <1>1, <1>2, TransformTyped DEF SampleType
<1> QED
  BY <1>3, TreesBelow

LEMMA SampleTypeOfObjects ==
  ASSUME NEW opts, NEW n \in Levels, NEW vs \in SUBSET ValuesTo[n], Tags(vs) = {"Object"}
  PROVE  SampleType(opts, vs) = Tree("Struct", [k \in FieldNames |-> SampleType(opts, At(vs, k))])
<1> DEFINE N == Normalized(vs)
           t == InferType(N)
<1>1. /\ N \in SUBSET ValuesTo[n] /\ N \in SUBSET Values
      /\ t \in Trees /\ t # Failure
  BY NormalizedTyped, ValuesBelow, InferTyped, InferWorks, TreesBelow
<1>2. /\ n # 0 /\ KindsOf(N) = {"object"}
      /\ \A k \in FieldNames : At(N, k) = Normalized(At(vs, k))
  BY NormalizedObjects
<1> HIDE DEF N
<1>3. t = Tree("Struct", [k \in FieldNames |-> InferType(At(N, k))])
  BY <1>1, <1>2, InferObjects
<1>4. t.tag = "Struct" /\ \A k \in FieldNames : t.sub[k] = InferType(At(N, k))
  BY <1>3 DEF Tree
<1> DEFINE parts == [k \in FieldNames |-> Transform(opts, t.sub[k], At(N, k))]
           types == [k \in FieldNames |-> SampleType(opts, At(vs, k))]
<1>5. parts = types
  BY <1>2, <1>4 DEF SampleType
<1> HIDE DEF t
<1>6. Transform(opts, t, N) = Tree("Struct", parts)
  BY <1>1, <1>4, TransformIs
<1> HIDE DEF parts, types
<1>7. SampleType(opts, vs) = Tree("Struct", types)
  BY <1>5, <1>6 DEF SampleType, t, N
<1> QED
  BY <1>7 DEF types

LEMMA SampleTypeOfArrays ==
  ASSUME NEW opts, NEW n \in Levels, NEW vs \in SUBSET ValuesTo[n], Tags(vs) = {"Array"}
  PROVE  SampleType(opts, vs) = Tree("List", <<SampleType(opts, Elements(vs))>>)
<1> DEFINE N == Normalized(vs)
           t == InferType(N)
<1>1. /\ N \in SUBSET ValuesTo[n] /\ N \in SUBSET Values
      /\ t \in Trees /\ t # Failure
  BY NormalizedTyped, ValuesBelow, InferTyped, InferWorks, TreesBelow
<1>2. /\ n # 0 /\ KindsOf(N) = {"array"}
      /\ Elements(N) = Normalized(Elements(vs))
  BY NormalizedArrays
<1> HIDE DEF N
<1>3. t = Tree("List", <<InferType(Elements(N))>>)
  BY <1>1, <1>2, InferArrays
<1>4. t.tag = "List" /\ t.sub[1] = InferType(Elements(N))
  BY <1>3 DEF Tree
<1> DEFINE part == Transform(opts, t.sub[1], Elements(N))
           typ == SampleType(opts, Elements(vs))
<1>5. part = typ
  BY <1>2, <1>4 DEF SampleType
<1> HIDE DEF t
<1>6. Transform(opts, t, N) = Tree("List", <<part>>)
  BY <1>1, <1>4, TransformIs
<1> HIDE DEF part, typ
<1>7. SampleType(opts, vs) = Tree("List", <<typ>>)
  BY <1>5, <1>6 DEF SampleType, t, N
<1> QED
  BY <1>7 DEF typ

LEMMA SampleTypeOfScalars ==
  ASSUME NEW opts, NEW n \in Levels, NEW vs \in SUBSET ValuesTo[n],
         KindsOf(Normalized(vs)) \cap Containers = {}
  PROVE  SampleType(opts, vs) =
           IF Normalized(vs) = {Absent} THEN NoField
           ELSE IF KindsOf(Normalized(vs)) = {} THEN Leaf("Null")
           ELSE TransformLeaf(opts, Leaf(ScalarType(KindsOf(Normalized(vs)))), KindsOf(Normalized(vs)))
<1> DEFINE N == Normalized(vs)
           t == InferType(N)
<1>1. /\ N \in SUBSET ValuesTo[n] /\ N \in SUBSET Values
      /\ t \in Trees
  BY NormalizedTyped, ValuesBelow, InferTyped, TreesBelow
<1> HIDE DEF N
<1>2. t = IF N = {Absent} THEN NoField
          ELSE IF KindsOf(N) = {} THEN Leaf("Null")
          ELSE Leaf(ScalarType(KindsOf(N)))
  BY <1>1, InferScalars DEF N
<1> HIDE DEF t
<1>3. /\ t.tag \notin {"Struct", "List"}
      /\ \A kinds : /\ TransformLeaf(opts, NoField, kinds) = NoField
                    /\ TransformLeaf(opts, Leaf("Null"), kinds) = Leaf("Null")
  <2>1. \A l : Leaf(l).tag = l
    BY DEF Leaf, Tree
  <2>2. \A kinds : ScalarType(kinds) \notin {"Struct", "List"}
    BY DEF ScalarType
  <2>3. t.tag \notin {"Struct", "List"}
    BY <1>2, <2>1, <2>2 DEF NoField
  <2> QED
    BY <2>1, <2>3 DEF TransformLeaf, NoField
<1>4. Transform(opts, t, N) = TransformLeaf(opts, t, KindsOf(N))
  BY <1>1, <1>3, TransformIs
<1>5. Transform(opts, t, N) =
           IF N = {Absent} THEN NoField
           ELSE IF KindsOf(N) = {} THEN Leaf("Null")
           ELSE TransformLeaf(opts, Leaf(ScalarType(KindsOf(N))), KindsOf(N))
  BY <1>2, <1>3, <1>4
<1> QED
  BY <1>5 DEF SampleType, t, N

(* What may become of a scalar. *)
LEMMA KeepsScalars ==
  ASSUME NEW short, NEW c \in Values, NEW v \in Values,
         \/ c = v
         \/ v.kind \in short /\ c = Cut(v)
         \/ v = Absent /\ c = Null
         \/ v.kind \notin Nothing /\ c = Text(v)
  PROVE  Keeps(short, c, v)
BY KeepsIs

(* A leaf takes the kinds it was inferred from, unless they are refused,   *)
(* and cuts only those that the options give up.                           *)
LEMMA LeafTakes ==
  ASSUME NEW opts, NEW K, K # {},
         K = {"bool"} \/ K \subseteq Numerals \/ K \subseteq Texts,
         NEW k \in K,
         NEW t, t = TransformLeaf(opts, Leaf(ScalarType(K)), K)
  PROVE  /\ t # NoField
         /\ \A v : ~Descends(t, v)
         /\ k \notin Refused(opts) => k \in Takes(t)
         /\ k \in Cuts(t) => k \in Shortened(opts) /\ k # "str"
<1>1. \A l : Leaf(l).tag = l
  BY DEF Leaf, Tree
<1>2. CASE K = {"bool"}
  <2>1. ScalarType(K) = "Boolean"
    BY <1>2 DEF ScalarType, Numerals, WholeNumbers
  <2>2. t = Leaf("Boolean")
    BY <1>1, <2>1 DEF TransformLeaf
  <2>3. t.tag = "Boolean" /\ k = "bool"
    BY <1>1, <1>2, <2>2
  <2>4. Takes(t) = {"bool"} /\ Cuts(t) = {}
    BY <2>3 DEF Takes, Cuts
  <2> QED
    BY <1>1, <2>3, <2>4 DEF Descends, NoField
<1>3. CASE K \subseteq WholeNumbers
  <2>1. ScalarType(K) = "Int64"
    BY <1>3 DEF ScalarType, WholeNumbers
  <2>2. t = Leaf("Int64")
    BY <1>1, <2>1 DEF TransformLeaf
  <2>3. t.tag = "Int64" /\ k \in WholeNumbers
    BY <1>1, <1>3, <2>2
  <2>4. Takes(t) = Numerals \ {"huge"} /\ Cuts(t) = Numerals \ WholeNumbers
    BY <2>3 DEF Takes, Cuts
  <2> QED
    BY <1>1, <2>3, <2>4 DEF Descends, NoField, Numerals, WholeNumbers
<1>4. CASE K \subseteq Numerals /\ ~(K \subseteq WholeNumbers)
  <2>1. ScalarType(K) = "Float64"
    BY <1>4 DEF ScalarType, Numerals, WholeNumbers
  <2>2. k \in Numerals /\ k # "str"
    BY <1>4 DEF Numerals, WholeNumbers
  <2>3. CASE opts.number = Float64
    <3>1. t.tag = "Float64"
      BY <1>1, <2>1, <2>3 DEF TransformLeaf
    <3>2. Takes(t) = Numerals /\ Cuts(t) = {"long"}
      BY <3>1 DEF Takes, Cuts
    <3>3. "long" \in Shortened(opts)
      BY <2>3 DEF Shortened
    <3> QED
      BY <1>1, <2>2, <3>1, <3>2, <3>3 DEF Descends, NoField
  <2>4. CASE opts.number # Float64
    <3>1. t = Decimal128(opts.number)
      BY <1>1, <2>1, <2>4 DEF TransformLeaf
    <3>2. t.tag = "Decimal128" /\ t.sub = opts.number
      BY <3>1 DEF Decimal128, Tree
    <3>3. /\ Takes(t) = {l \in Numerals : Fits(l, opts.number)}
          /\ Cuts(t) = {l \in Numerals : FractionDigits(l) > opts.number.scale}
      BY <3>2 DEF Takes, Cuts
    <3>4. k \notin Refused(opts) => Fits(k, opts.number)
      BY <2>2, <2>4 DEF Refused
    <3>5. {l \in Numerals : FractionDigits(l) > opts.number.scale} \subseteq Shortened(opts)
      BY <2>4 DEF Shortened
    <3> QED
      BY <1>1, <2>2, <3>2, <3>3, <3>4, <3>5 DEF Descends, NoField
  <2> QED
    BY <2>3, <2>4
<1>5. CASE K \subseteq Texts
  <2>1. ScalarType(K) = "Utf8"
    <3>1. K # {} /\ K \cap Numerals = {} /\ "bool" \notin K
      BY <1>5 DEF Texts, Dates, Datetimes, Numerals, WholeNumbers
    <3> QED
      BY <3>1 DEF ScalarType, Numerals
  <2>2. \/ t.tag = "Utf8"
        \/ t.tag = "Timestamp" /\ k \in Datetimes /\ opts.infer_temporal
        \/ t.tag = "Date32" /\ k \in Dates /\ opts.infer_temporal
    BY <1>1, <2>1 DEF TransformLeaf
  <2>3. k \in Texts
    BY <1>5
  <2>4. t # NoField /\ \A v : ~Descends(t, v)
    BY <1>1, <2>2 DEF Descends, NoField
  <2>5. CASE t.tag = "Utf8"
    <3>1. Takes(t) = Texts /\ Cuts(t) = {}
      BY <2>5 DEF Takes, Cuts
    <3> QED
      BY <2>3, <2>4, <3>1
  <2>6. CASE t.tag = "Timestamp" /\ k \in Datetimes /\ opts.infer_temporal
    <3>1. /\ Takes(t) = WholeNumbers \cup {"date", "datetime", "fine_datetime"}
          /\ Cuts(t) = {"fine_datetime"}
      BY <2>6 DEF Takes, Cuts
    <3>2. "no_datetime" \in Refused(opts) /\ "fine_datetime" \in Shortened(opts)
      BY <2>6 DEF Refused, Shortened
    <3> QED
      BY <2>4, <2>6, <3>1, <3>2 DEF Datetimes
  <2>7. CASE t.tag = "Date32" /\ k \in Dates /\ opts.infer_temporal
    <3>1. Takes(t) = {"date"} /\ Cuts(t) = {}
      BY <2>7 DEF Takes, Cuts
    <3>2. "no_date" \in Refused(opts)
      BY <2>7 DEF Refused
    <3> QED
      BY <2>4, <2>7, <3>1, <3>2 DEF Dates
  <2> QED
    BY <2>2, <2>5, <2>6, <2>7
<1> QED
  BY <1>2, <1>3, <1>4, <1>5

(* A sampled value, as it is decoded. *)
SampleCell(opts, vs, v) == Decode(Normalize(v, ShapeOfAll(vs)), SampleType(opts, vs))

(* A value without what the types that the options ask for refuse. *)
Readable(opts, v) == \A kind \in Refused(opts) : ~Holds(v, kind)

LEMMA ReadableParts ==
  ASSUME NEW opts, NEW n \in Levels, NEW v \in ValuesTo[n], Readable(opts, v)
  PROVE  /\ v.kind \notin Refused(opts)
         /\ \A k \in DOMAIN v.sub : Readable(opts, v.sub[k])
BY NotHeld DEF Readable

(* It decodes, and keeps what the value is. *)
CellGood(opts, vs, v) ==
  /\ Readable(opts, v) => SampleCell(opts, vs, v) # Bad
  /\ SampleCell(opts, vs, v) # Bad => Keeps(Shortened(opts), SampleCell(opts, vs, v), v)

(* Where values are texts, numbers or booleans, or made texts, they decode. *)
LEMMA ScalarsDecode ==
  ASSUME NEW opts, opts.number \in {Float64} \cup Decimals, NEW n \in Levels, NEW vs \in SUBSET ValuesTo[n], NEW v \in vs,
         Tags(vs) \notin {{"Object"}, {"Array"}}
  PROVE  CellGood(opts, vs, v)
<1> DEFINE N == Normalized(vs)
           K == KindsOf(N)
           t == SampleType(opts, vs)
           u == Normalize(v, ShapeOfAll(vs))
           d == Decode(u, t)
<1>1. /\ u \in N /\ N \in SUBSET ValuesTo[n] /\ t \in Trees
      /\ u \in ValuesTo[n] /\ u \in Values /\ v \in ValuesTo[n] /\ v \in Values
  <2>1. u \in N /\ N \in SUBSET ValuesTo[n] /\ t \in Trees
    BY NormalizedTyped, SampleTypeTyped DEF Normalized
  <2> HIDE DEF N, t, u
  <2> QED
    BY <2>1, ValuesBelow
<1>2. /\ K = {} \/ K = {"bool"} \/ K \subseteq Numerals \/ K \subseteq Texts
      /\ u = v \/ u = Stringify(v)
      /\ u.kind \in Nothing \cup K
  <2>1. CASE Tags(vs) \in {{}} \cup {{l} : l \in {"Bool", "Number", "Str"}}
    <3>1. N = vs /\ u = v /\ v.kind \in Nothing \cup KindsOf(vs)
      BY <2>1, NormalizedScalars
    <3>2. K = {} \/ K = {"bool"} \/ K \subseteq Numerals \/ K \subseteq Texts
      BY <2>1, <3>1, NormalizedScalars
    <3> QED
      BY <3>1, <3>2
  <2>2. CASE \E x, y \in Tags(vs) : x # y
    <3>1. K # {} /\ K \subseteq Texts /\ u = Stringify(v)
      BY <2>2, NormalizedConflicts
    <3>2. u.kind \in Nothing \cup K
      BY <1>1 DEF KindsOf
    <3> QED
      BY <3>1, <3>2
  <2> QED
    BY <2>1, <2>2, ShapeCases
<1>3. K \cap Containers = {}
  BY <1>2 DEF Numerals, WholeNumbers, Texts, Dates, Datetimes, Containers
<1>4. t = IF N = {Absent} THEN NoField
          ELSE IF K = {} THEN Leaf("Null")
          ELSE TransformLeaf(opts, Leaf(ScalarType(K)), K)
  BY <1>3, SampleTypeOfScalars
<1>5. d = IF t = NoField THEN Absent
          ELSE IF u.kind \in Nothing THEN Null
          ELSE IF u.kind \notin Takes(t) THEN Bad
          ELSE IF u.kind \in Cuts(t) THEN Cut(u)
          ELSE IF ~Descends(t, u) THEN u
          ELSE IF \E k \in DOMAIN Cells(u, t) : Cells(u, t)[k] = Bad THEN Bad
          ELSE [u EXCEPT !.sub = Cells(u, t)]
  BY <1>1, DecodeIs
<1>6. /\ v.kind \in Nothing => v = Null \/ v = Absent
      /\ \A l \in Nothing : l \notin {"str", "cut"} /\ l \in Scalars
      /\ Null # Bad /\ Absent # Bad
      /\ Null.kind \in Nothing /\ Absent.kind \in Nothing
  BY <1>1, ValueFacts DEF Nothing, Scalars, Null, Absent, Bad, Scalar, Value
<1>7. \/ u = v
      \/ v.kind \notin Nothing /\ u = Text(v)
  BY <1>2 DEF Stringify
<1>8. Keeps(Shortened(opts), u, v) /\ (v.kind \in Nothing => Keeps(Shortened(opts), Null, v)) /\ Null \in Values
  <2>1. Null \in Values
    BY <1>1, ValuesMade, ValuesBelow DEF Null, Nothing, Scalars
  <2>2. Keeps(Shortened(opts), u, v)
    <3> HIDE DEF u, N, K, t, d
    <3> QED
      BY <1>1, <1>7, KeepsScalars
  <2>3. v.kind \in Nothing => Keeps(Shortened(opts), Null, v)
    BY <1>1, <1>6, <2>1, KeepsScalars
  <2> QED
    BY <2>1, <2>2, <2>3
<1>9. u # Bad
  BY <1>1, BadIsNone
<1>14. Text(v).kind = "str"
  <2>1. v = [kind |-> v.kind, of |-> v.of, sub |-> v.sub]
    BY <1>1, ValueFacts
  <2> QED
    BY <2>1 DEF Text
<1>10. u.kind \in Nothing => v.kind \in Nothing
  BY <1>6, <1>7, <1>14
<1>11. CASE t = NoField
  <2>1. N = {Absent}
    <3>1. Leaf("Null") # NoField
      BY DEF Leaf, Tree, NoField
    <3>2. ASSUME K # {} PROVE TransformLeaf(opts, Leaf(ScalarType(K)), K) # NoField
      <4>1. PICK k \in K : TRUE
        BY <3>2
      <4> DEFINE l == TransformLeaf(opts, Leaf(ScalarType(K)), K)
      <4>2. l = TransformLeaf(opts, Leaf(ScalarType(K)), K)
        OBVIOUS
      <4> HIDE DEF l, K
      <4> QED
        BY <1>2, <3>2, <4>2, LeafTakes
    <3> HIDE DEF N, K
    <3> QED
      BY <1>4, <1>11, <3>1, <3>2
  <2>2. u = Absent
    BY <1>1, <2>1
  <2> HIDE DEF u, t, N
  <2>3. d = u
    BY <1>5, <1>11, <2>2
  <2>4. d # Bad /\ Keeps(Shortened(opts), d, v)
    <3> HIDE DEF d
    <3> QED
      BY <1>8, <1>9, <2>3
  <2> QED
    BY <2>4 DEF CellGood, SampleCell, u, t
<1>12. CASE t # NoField /\ u.kind \in Nothing
  <2>1. d = Null
    <3> HIDE DEF u, t, N
    <3> QED
      BY <1>5, <1>12
  <2>2. d # Bad /\ Keeps(Shortened(opts), d, v)
    <3> HIDE DEF d, u
    <3> QED
      BY <1>6, <1>8, <1>10, <1>12, <2>1
  <2> QED
    BY <2>2 DEF CellGood, SampleCell
<1>13. CASE t # NoField /\ u.kind \notin Nothing
  <2>1. u.kind \in K
    BY <1>2, <1>13
  <2>2. t = TransformLeaf(opts, Leaf(ScalarType(K)), K)
    <3>1. N # {Absent}
      BY <1>4, <1>13
    <3> HIDE DEF K, N, t
    <3> QED
      BY <1>4, <2>1, <3>1
  <2>3. /\ \A w : ~Descends(t, w)
        /\ u.kind \notin Refused(opts) => u.kind \in Takes(t)
        /\ u.kind \in Cuts(t) => u.kind \in Shortened(opts) /\ u.kind # "str"
    <3> HIDE DEF K, t, u
    <3> QED
      BY <1>2, <2>1, <2>2, LeafTakes
  <2>4. d = IF u.kind \notin Takes(t) THEN Bad
            ELSE IF u.kind \in Cuts(t) THEN Cut(u) ELSE u
    <3> HIDE DEF u, t, N
    <3> QED
      BY <1>5, <1>13, <2>3
  <2>5. Readable(opts, v) => u.kind \notin Refused(opts)
    <3> SUFFICES ASSUME Readable(opts, v) PROVE u.kind \notin Refused(opts)
      OBVIOUS
    <3>1. v.kind \notin Refused(opts)
      BY <1>1, ReadableParts
    <3>2. "str" \notin Refused(opts)
      BY DEF Refused, Numerals, WholeNumbers
    <3> QED
      BY <1>7, <1>14, <3>1, <3>2
  <2>6. u.kind \in Cuts(t) => Cut(u) # Bad /\ Keeps(Shortened(opts), Cut(u), v)
    <3> SUFFICES ASSUME u.kind \in Cuts(t) PROVE Cut(u) # Bad /\ Keeps(Shortened(opts), Cut(u), v)
      OBVIOUS
    <3>1. u = v /\ v.kind \in Shortened(opts)
      <4> HIDE DEF u, t, d, N, K
      <4> QED
        BY <1>7, <1>14, <2>3
    <3>2. Cut(v) \in Values /\ Cut(v).kind = "cut"
      <4>1. MaxDepth \in Levels
        BY DepthAssumption DEF Levels
      <4> HIDE DEF u, t, d, N, K
      <4> QED
        BY <1>1, <3>1, <4>1, CutTyped DEF Values
    <3>3. Cut(v) # Bad
      BY <3>2 DEF Bad, Scalar, Value
    <3>4. Keeps(Shortened(opts), Cut(v), v)
      <4> HIDE DEF u, N, K, t, d
      <4> QED
        BY <1>1, <3>1, <3>2, KeepsScalars
    <3> HIDE DEF u, t, d, N, K
    <3> QED
      BY <3>1, <3>3, <3>4
  <2>7. /\ Readable(opts, v) => d # Bad
        /\ d # Bad => Keeps(Shortened(opts), d, v)
    <3> HIDE DEF d, u, t
    <3> QED
      BY <1>8, <1>9, <2>3, <2>4, <2>5, <2>6
  <2> QED
    BY <2>7 DEF CellGood, SampleCell
<1> QED
  BY <1>11, <1>12, <1>13

(* A container is kept when its parts are. *)
LEMMA KeepsParts ==
  ASSUME NEW short, NEW c \in Values, NEW v \in Values, v.kind \in Containers, c.kind = v.kind,
         DOMAIN c.sub = DOMAIN v.sub,
         \A k \in DOMAIN v.sub : Keeps(short, c.sub[k], v.sub[k])
  PROVE  Keeps(short, c, v)
<1>1. PartsKept(short, c, v)
  BY DEF PartsKept
<1> QED
  BY <1>1, KeepsIs

(* A cell of a container is good when the cells of its parts are. *)
LEMMA ContainerDecodes ==
  ASSUME NEW opts, opts.number \in {Float64} \cup Decimals, NEW n \in Levels, NEW vs \in SUBSET ValuesTo[n], NEW v \in vs,
         v.kind \in Containers,
         NEW u, NEW t \in Trees, NEW cells,
         u = Normalize(v, ShapeOfAll(vs)), t = SampleType(opts, vs),
         u \in Values, u.kind = v.kind, DOMAIN u.sub = DOMAIN v.sub,
         Descends(t, u), t.tag \in {"Struct", "List"},
         cells = Cells(u, t),
         Readable(opts, v) => \A k \in DOMAIN v.sub : cells[k] # Bad,
         \A k \in DOMAIN v.sub : cells[k] # Bad => Keeps(Shortened(opts), cells[k], v.sub[k])
  PROVE  CellGood(opts, vs, v)
<1> DEFINE d == Decode(u, t)
<1>1. v \in Values /\ u = [kind |-> u.kind, of |-> u.of, sub |-> u.sub]
  <2>1. MaxDepth \in Levels
    BY DepthAssumption DEF Levels
  <2> QED
    BY <2>1, ValuesBelow, ValueFacts DEF Values
<1>2. d = IF t = NoField THEN Absent
          ELSE IF u.kind \in Nothing THEN Null
          ELSE IF u.kind \notin Takes(t) THEN Bad
          ELSE IF u.kind \in Cuts(t) THEN Cut(u)
          ELSE IF ~Descends(t, u) THEN u
          ELSE IF \E k \in DOMAIN cells : cells[k] = Bad THEN Bad
          ELSE [u EXCEPT !.sub = cells]
  BY <1>1, DecodeIs
<1>3. /\ t # NoField
      /\ u.kind \notin Nothing
      /\ u.kind \in Takes(t) /\ u.kind \notin Cuts(t)
  <2>1. \/ t.tag = "Struct" /\ u.kind = "object"
        \/ t.tag = "List" /\ u.kind = "array"
    BY DEF Descends
  <2>2. /\ t.tag = "Struct" => Takes(t) = {"object"} /\ Cuts(t) = {}
        /\ t.tag = "List" => Takes(t) = {"array"} /\ Cuts(t) = {}
    BY DEF Takes, Cuts
  <2>3. NoField.tag = "NoField"
    BY DEF NoField, Leaf, Tree
  <2> QED
    BY <2>1, <2>2, <2>3 DEF Nothing
<1>4. DOMAIN cells = DOMAIN v.sub
  BY DEF Cells
<1>5. d = IF \E k \in DOMAIN v.sub : cells[k] = Bad THEN Bad ELSE [u EXCEPT !.sub = cells]
  BY <1>2, <1>3, <1>4
<1>6. d = Bad \/ d \in Values
  <2>1. MaxDepth \in Levels
    BY DepthAssumption DEF Levels
  <2> QED
    BY <2>1, DecodeTyped DEF Values
<1>7. [u EXCEPT !.sub = cells] # Bad
  <2>1. [u EXCEPT !.sub = cells].kind = u.kind
    BY <1>1
  <2>2. Bad.kind = "bad"
    BY DEF Bad, Scalar, Value
  <2> QED
    BY <2>1, <2>2 DEF Containers
<1>8. Readable(opts, v) => d # Bad
  BY <1>5, <1>7
<1>9. ASSUME d # Bad PROVE Keeps(Shortened(opts), d, v)
  <2>1. d = [u EXCEPT !.sub = cells] /\ \A k \in DOMAIN v.sub : cells[k] # Bad
    BY <1>5, <1>9
  <2>2. d.kind = v.kind /\ d.sub = cells
    BY <1>1, <2>1
  <2>3. d \in Values
    BY <1>6, <1>9
  <2> HIDE DEF d
  <2>4. DOMAIN d.sub = DOMAIN v.sub /\ \A k \in DOMAIN v.sub : Keeps(Shortened(opts), d.sub[k], v.sub[k])
    BY <1>4, <2>1, <2>2
  <2> QED
    BY <1>1, <2>2, <2>3, <2>4, KeepsParts
<1> QED
  BY <1>8, <1>9 DEF CellGood, SampleCell

(* Null stays null. *)
LEMMA NothingDecodes ==
  ASSUME NEW opts, opts.number \in {Float64} \cup Decimals, NEW n \in Levels, NEW vs \in SUBSET ValuesTo[n], NEW v \in vs,
         v.kind \in Nothing, Normalize(v, ShapeOfAll(vs)) = v,
         SampleType(opts, vs) # NoField
  PROVE  CellGood(opts, vs, v)
<1> DEFINE t == SampleType(opts, vs)
<1>1. v \in Values /\ t \in Trees
  BY ValuesBelow, SampleTypeTyped
<1>2. SampleCell(opts, vs, v) = Null
  <2> HIDE DEF t
  <2>1. t # NoField => Decode(v, t) = Null
    BY <1>1, DecodeIs
  <2> QED
    BY <2>1 DEF SampleCell, t
<1>3. /\ v = Null \/ v = Absent
      /\ Null # Bad
      /\ Null \in Values
  <2>1. \A l \in Nothing : l \in Scalars \ {"str", "cut"}
    BY DEF Nothing, Scalars
  <2>2. v = Null \/ v = Absent
    BY <2>1, ValueFacts DEF Null, Absent, Nothing
  <2>3. Null # Bad
    BY DEF Null, Bad, Scalar, Value
  <2>4. Null \in Values
    BY <2>1, ValuesMade, ValuesBelow DEF Null, Nothing
  <2> QED
    BY <2>2, <2>3, <2>4
<1>4. Keeps(Shortened(opts), Null, v)
  BY <1>1, <1>3, KeepsScalars
<1> QED
  BY <1>2, <1>3, <1>4 DEF CellGood

(* Every sampled value decodes, and keeps what it is. *)
LEMMA SampleDecodes ==
  ASSUME NEW opts, opts.number \in {Float64} \cup Decimals
  PROVE  \A n \in Levels : \A vs \in SUBSET ValuesTo[n] : \A v \in vs : CellGood(opts, vs, v)
<1> DEFINE Good == {n \in Levels : \A vs \in SUBSET ValuesTo[n] : \A v \in vs : CellGood(opts, vs, v)}
<1>1. ASSUME NEW n \in Levels, n # 0 => n - 1 \in Good PROVE n \in Good
  <2> SUFFICES ASSUME NEW vs \in SUBSET ValuesTo[n], NEW v \in vs PROVE CellGood(opts, vs, v)
    OBVIOUS
  <2> DEFINE t == SampleType(opts, vs)
             u == Normalize(v, ShapeOfAll(vs))
             cells == Cells(u, t)
  <2>1. t \in Trees /\ u \in Values /\ v \in ValuesTo[n]
    BY SampleTypeTyped, ShapeTags, NormalizeTyped, ValuesBelow
  <2>2. v = [kind |-> v.kind, of |-> v.of, sub |-> v.sub]
    BY <2>1, ValueFacts
  <2>3. CASE Tags(vs) = {"Object"}
    <3> DEFINE fields == [k \in FieldNames |-> Normalize(v.sub[k], ShapeOfAll(At(vs, k)))]
    <3>1. /\ n # 0
          /\ v.kind \in Nothing => u = v
          /\ v.kind \notin Nothing => v.kind = "object" /\ u = [v EXCEPT !.sub = fields]
      BY <2>3, NormalizedObjects
    <3>2. t = Tree("Struct", [k \in FieldNames |-> SampleType(opts, At(vs, k))])
      BY <2>3, SampleTypeOfObjects
    <3>3. t.tag = "Struct" /\ \A k \in FieldNames : Part(t, k) = SampleType(opts, At(vs, k))
      BY <3>2 DEF Tree, Part
    <3>4. CASE v.kind \in Nothing
      <4>1. t # NoField
        BY <3>3 DEF NoField, Leaf, Tree
      <4> QED
        BY <3>1, <3>4, <4>1, NothingDecodes
    <3>5. CASE v.kind \notin Nothing
      <4> HIDE DEF t
      <4>1. /\ u.kind = "object" /\ v.kind = "object" /\ u.sub = fields
            /\ DOMAIN v.sub = FieldNames /\ DOMAIN u.sub = FieldNames
        <5> HIDE DEF u
        <5>1. u.kind = "object" /\ v.kind = "object" /\ u.sub = fields
          BY <2>2, <3>1, <3>5
        <5>2. DOMAIN v.sub = FieldNames
          BY <2>1, <5>1, ValueFacts
        <5> QED
          BY <5>1, <5>2
      <4>2. ASSUME NEW k \in FieldNames
            PROVE  /\ At(vs, k) \in SUBSET ValuesTo[n - 1]
                   /\ v.sub[k] \in At(vs, k)
                   /\ cells[k] = SampleCell(opts, At(vs, k), v.sub[k])
                   /\ CellGood(opts, At(vs, k), v.sub[k])
                   /\ Readable(opts, v) => Readable(opts, v.sub[k])
        <5>1. At(vs, k) \in SUBSET ValuesTo[n - 1]
          BY <3>1, SetsBelow
        <5>2. v.sub[k] \in At(vs, k)
          BY <4>1 DEF At
        <5>3. u.sub[k] = Normalize(v.sub[k], ShapeOfAll(At(vs, k)))
          <6> HIDE DEF u
          <6> QED
            BY <4>1
        <5>4. cells[k] = SampleCell(opts, At(vs, k), v.sub[k])
          <6>1. cells[k] = Decode(u.sub[k], Part(t, k))
            <7> HIDE DEF u
            <7> QED
              BY <4>1 DEF Cells
          <6> HIDE DEF u, cells
          <6> QED
            BY <3>3, <5>3, <6>1 DEF SampleCell
        <5>5. CellGood(opts, At(vs, k), v.sub[k])
          BY <1>1, <3>1, <5>1, <5>2
        <5>6. Readable(opts, v) => Readable(opts, v.sub[k])
          <6> HIDE DEF u
          <6> QED
            BY <2>1, <4>1, ReadableParts
        <5> HIDE DEF cells, u
        <5> QED
          BY <5>1, <5>2, <5>4, <5>5, <5>6
      <4>3. /\ Readable(opts, v) => \A k \in DOMAIN v.sub : cells[k] # Bad
            /\ \A k \in DOMAIN v.sub : cells[k] # Bad => Keeps(Shortened(opts), cells[k], v.sub[k])
        <5> HIDE DEF cells, u
        <5> QED
          BY <4>1, <4>2 DEF CellGood
      <4>4. Descends(t, u) /\ v.kind \in Containers
        <5> HIDE DEF u
        <5> QED
          BY <3>3, <4>1 DEF Descends, Containers
      <4>5. u = Normalize(v, ShapeOfAll(vs)) /\ t = SampleType(opts, vs) /\ cells = Cells(u, t)
        BY DEF t
      <4> HIDE DEF u, t, cells
      <4> QED
        BY <2>1, <3>3, <4>1, <4>3, <4>4, <4>5, ContainerDecodes
    <3> QED
      BY <3>4, <3>5
  <2>4. CASE Tags(vs) = {"Array"}
    <3> DEFINE parts == [k \in DOMAIN v.sub |-> Normalize(v.sub[k], ShapeOfAll(Elements(vs)))]
    <3>1. /\ n # 0
          /\ v.kind \in Nothing => u = v
          /\ v.kind \notin Nothing => v.kind = "array" /\ u = [v EXCEPT !.sub = parts]
      BY <2>4, NormalizedArrays
    <3>2. t = Tree("List", <<SampleType(opts, Elements(vs))>>)
      BY <2>4, SampleTypeOfArrays
    <3>3. t.tag = "List" /\ \A k : Part(t, k) = SampleType(opts, Elements(vs))
      BY <3>2 DEF Tree, Part
    <3>4. CASE v.kind \in Nothing
      <4>1. t # NoField
        BY <3>3 DEF NoField, Leaf, Tree
      <4> QED
        BY <3>1, <3>4, <4>1, NothingDecodes
    <3>5. CASE v.kind \notin Nothing
      <4> HIDE DEF t
      <4>1. /\ u.kind = "array" /\ v.kind = "array" /\ u.sub = parts
            /\ DOMAIN u.sub = DOMAIN v.sub
        <5> HIDE DEF u
        <5>1. u.kind = "array" /\ v.kind = "array" /\ u.sub = parts
          BY <2>2, <3>1, <3>5
        <5> QED
          BY <5>1
      <4>2. ASSUME NEW k \in DOMAIN v.sub
            PROVE  /\ cells[k] = SampleCell(opts, Elements(vs), v.sub[k])
                   /\ CellGood(opts, Elements(vs), v.sub[k])
                   /\ Readable(opts, v) => Readable(opts, v.sub[k])
        <5>1. Elements(vs) \in SUBSET ValuesTo[n - 1]
          BY <3>1, SetsBelow
        <5>2. v.sub[k] \in Elements(vs)
          BY <4>1 DEF Elements
        <5>3. u.sub[k] = Normalize(v.sub[k], ShapeOfAll(Elements(vs)))
          <6> HIDE DEF u
          <6> QED
            BY <4>1
        <5>4. cells[k] = SampleCell(opts, Elements(vs), v.sub[k])
          <6>1. cells[k] = Decode(u.sub[k], Part(t, k))
            <7> HIDE DEF u
            <7> QED
              BY <4>1 DEF Cells
          <6> HIDE DEF u, cells
          <6> QED
            BY <3>3, <5>3, <6>1 DEF SampleCell
        <5>5. CellGood(opts, Elements(vs), v.sub[k])
          BY <1>1, <3>1, <5>1, <5>2
        <5>6. Readable(opts, v) => Readable(opts, v.sub[k])
          BY <2>1, ReadableParts
        <5> HIDE DEF cells, u
        <5> QED
          BY <5>4, <5>5, <5>6
      <4>3. /\ Readable(opts, v) => \A k \in DOMAIN v.sub : cells[k] # Bad
            /\ \A k \in DOMAIN v.sub : cells[k] # Bad => Keeps(Shortened(opts), cells[k], v.sub[k])
        <5> HIDE DEF cells, u
        <5> QED
          BY <4>1, <4>2 DEF CellGood
      <4>4. Descends(t, u) /\ v.kind \in Containers
        <5> HIDE DEF u
        <5> QED
          BY <3>3, <4>1 DEF Descends, Containers
      <4>5. u = Normalize(v, ShapeOfAll(vs)) /\ t = SampleType(opts, vs) /\ cells = Cells(u, t)
        BY DEF t
      <4> HIDE DEF u, t, cells
      <4> QED
        BY <2>1, <3>3, <4>1, <4>3, <4>4, <4>5, ContainerDecodes
    <3> QED
      BY <3>4, <3>5
  <2>5. CASE Tags(vs) \notin {{"Object"}, {"Array"}}
    BY <2>5, ScalarsDecode
  <2> QED
    BY <2>3, <2>4, <2>5
<1> HIDE DEF Good
<1>2. \A n \in Levels : n \in Good
  BY <1>1, LevelInduction
<1> QED
  BY <1>2 DEF Good
=============================================================================
