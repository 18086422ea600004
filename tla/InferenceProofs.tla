-------------------------- MODULE InferenceProofs ---------------------------
(***************************************************************************)
(* That the shape is where the sampled documents agree, that documents     *)
(* fail only where they disagree with it and otherwise keep their values,  *)
(* and that both paths prepare them alike, from one inductive invariant:   *)
(* the shape is the one of the documents observed, the schema the one of   *)
(* the whole sample, and every row what its document decodes to.  A        *)
(* document that does not disagree might as well have been sampled, so the *)
(* lemmas are about any documents whose shape was merged.                  *)
(***************************************************************************)
EXTENDS Inference, ShapeProofs

(* The sampled documents. *)
Sampled == {sample[i] : i \in DOMAIN sample}

(* Documents that the shape is of: those that are sampled, and with them   *)
(* any that do not disagree.                                               *)
Shaped(S) == S \subseteq Documents /\ S # {} /\ shape = ShapeOfAll(S)

(* They are normalized. *)
Docs(S) == {NormalizeDoc(d, VariantFields) : d \in S}

Typed ==
  /\ path \in {"struct", "provider"}
  /\ opts \in Options
  /\ sample \in Seq(Documents) /\ Len(sample) \in 1 .. MaxSample
  /\ rest \in Seq(Documents) /\ Len(rest) <= MaxRest

(* The documents and how many of them are sampled, merged and decoded. *)
Counted ==
  /\ merged \in 0 .. Len(sample)
  /\ rows \in Seq(Values)
  /\ Len(rows) <= Len(sample) + Len(rest)
  /\ type = NoType => rows = <<>>
  /\ outcome \in {"running", "ok", "error", "panic"}

(* The schema is the one the whole sample asks for. *)
SchemaInv ==
  type # NoType => merged = Len(sample) /\ type = Schema(NormalizedSample)

(* What a document decodes to. *)
RowOf(i) == Decode(Prepared((sample \o rest)[i]), type)

RowsInv ==
  /\ \A i \in DOMAIN rows : rows[i] = RowOf(i) /\ rows[i] # Bad
  /\ outcome = "error" =>
       /\ type # NoType
       /\ Len(rows) < Len(sample) + Len(rest)
       /\ RowOf(Len(rows) + 1) = Bad

(* The inductive invariant. *)
IInv ==
  /\ Typed
  /\ Counted
  /\ ShapeIsWhereTheyAgree
  /\ SchemaInv
  /\ RowsInv

----------------------------------------------------------------------------
(* Documents and their fields. *)

LEMMA DocumentFacts ==
  ASSUME NEW d \in Documents
  PROVE  /\ MaxDepth \in Levels /\ MaxDepth # 0 /\ MaxDepth - 1 \in Levels
         /\ d \in Values /\ d.kind = "object"
         /\ d = [kind |-> d.kind, of |-> d.of, sub |-> d.sub]
         /\ d.sub \in [FieldNames -> ValuesTo[MaxDepth - 1]]
<1>1. MaxDepth \in Levels
  BY DepthAssumption DEF Levels
<1>2. d \in Values /\ d.kind = "object"
  BY ParametersAssumption
<1>3. /\ d = [kind |-> d.kind, of |-> d.of, sub |-> d.sub]
      /\ MaxDepth # 0 /\ d.sub \in [FieldNames -> ValuesTo[MaxDepth - 1]]
  BY <1>1, <1>2, ValueFacts DEF Values
<1>4. MaxDepth - 1 \in Levels
  BY <1>1, <1>3, DepthAssumption DEF Levels
<1> QED
  BY <1>1, <1>2, <1>3, <1>4

LEMMA SampleFacts ==
  ASSUME Typed
  PROVE  /\ Sampled \subseteq Documents /\ Sampled # {}
         /\ NormalizedSample = Docs(Sampled)
<1>1. sample \in Seq(Documents) /\ Len(sample) \in Nat \ {0}
  BY ParametersAssumption DEF Typed
<1>2. 1 \in DOMAIN sample
  BY <1>1
<1> QED
  BY <1>1, <1>2 DEF Sampled, Docs, NormalizedSample

LEMMA ShapedFacts ==
  ASSUME NEW S, Shaped(S)
  PROVE  /\ S \subseteq Documents /\ S # {}
         /\ S \in SUBSET Values
         /\ KindsOf(S) = {"object"}
         /\ Tags(S) = {"Object"}
         /\ \A k \in FieldNames : At(S, k) \in SUBSET ValuesTo[MaxDepth - 1]
         /\ \A d \in S : \A k \in FieldNames : d.sub[k] \in At(S, k)
<1>1. S \subseteq Documents /\ S # {}
  BY DEF Shaped
<1>2. \A d \in S : d \in Values /\ d.kind = "object"
  BY <1>1, ParametersAssumption
<1>3. KindsOf(S) = {"object"}
  BY <1>1, <1>2 DEF KindsOf, Nothing
<1>4. Tags(S) = {"Object"}
  <2>1. ShapeTag("object") = "Object"
    BY KindFacts DEF Containers
  <2> QED
    BY <1>3, <2>1 DEF Tags
<1>5. ASSUME NEW k \in FieldNames, NEW d \in S
      PROVE  d.sub[k] \in ValuesTo[MaxDepth - 1] /\ d.sub[k] \in At(S, k)
  BY <1>1, <1>2, DocumentFacts DEF At
<1>6. \A k \in FieldNames : At(S, k) \in SUBSET ValuesTo[MaxDepth - 1]
  BY <1>5 DEF At
<1> QED
  BY <1>1, <1>2, <1>3, <1>4, <1>5, <1>6

(* The shape of documents is an object of their columns' shapes. *)
LEMMA ShapeOfSample ==
  ASSUME Typed, NEW S, Shaped(S)
  PROVE  /\ shape = Tree("Object", [k \in FieldNames |-> ShapeOfAll(At(S, k))])
         /\ shape.sub = [k \in FieldNames |-> ShapeOfAll(At(S, k))]
         /\ \A k \in FieldNames : Part(shape, k) = ShapeOfAll(At(S, k))
         /\ VariantFields \subseteq FieldNames
         /\ VariantFields # {} => path = "struct"
         /\ \A k \in FieldNames : ShapeOfAll(At(S, k)) \in Trees
<1>1. S \in SUBSET Values /\ Tags(S) = {"Object"}
  BY ShapedFacts
<1>3. shape = Tree("Object", [k \in FieldNames |-> ShapeOfAll(At(S, k))])
  BY <1>1, ShapeOfAllIs DEF Shaped
<1>4. shape.tag = "Object" /\ shape.sub = [k \in FieldNames |-> ShapeOfAll(At(S, k))]
  BY <1>3 DEF Tree
<1>5. \A k \in FieldNames : Part(shape, k) = ShapeOfAll(At(S, k))
  BY <1>4 DEF Part
<1>6. VariantFields \subseteq FieldNames /\ (VariantFields # {} => path = "struct")
  BY <1>4 DEF VariantFields
<1>7. \A k \in FieldNames : ShapeOfAll(At(S, k)) \in Trees
  <2>1. MaxDepth - 1 \in Levels
    BY ShapedFacts, DocumentFacts
  <2> QED
    BY <2>1, ShapedFacts, ShapeTags
<1> QED
  BY <1>3, <1>4, <1>5, <1>6, <1>7

(* A document with its columns normalized by the shape. *)
LEMMA NormalizeDocIs ==
  ASSUME Typed, NEW S, Shaped(S), NEW d \in Documents, NEW skip
  PROVE  /\ NormalizeDoc(d, skip) \in Values
         /\ NormalizeDoc(d, skip).kind = "object"
         /\ DOMAIN NormalizeDoc(d, skip).sub = FieldNames
         /\ \A k \in FieldNames :
              NormalizeDoc(d, skip).sub[k] =
                IF k \in skip THEN d.sub[k] ELSE Normalize(d.sub[k], ShapeOfAll(At(S, k)))
<1> DEFINE fields == [k \in FieldNames |->
                        IF k \in skip THEN d.sub[k] ELSE Normalize(d.sub[k], ShapeOfAll(At(S, k)))]
<1>1. NormalizeDoc(d, skip) = [d EXCEPT !.sub = fields]
  BY ShapeOfSample DEF NormalizeDoc
<1>2. /\ MaxDepth \in Levels /\ MaxDepth # 0 /\ MaxDepth - 1 \in Levels
      /\ d \in Values /\ d.kind = "object"
      /\ d = [kind |-> d.kind, of |-> d.of, sub |-> d.sub]
      /\ d.sub \in [FieldNames -> ValuesTo[MaxDepth - 1]]
  BY DocumentFacts
<1>3. fields \in [FieldNames -> ValuesTo[MaxDepth - 1]]
  BY <1>2, ShapeOfSample, NormalizeTyped
<1>4. [d EXCEPT !.sub = fields] \in Values
  BY <1>2, <1>3, ValuesMade DEF Values
<1>5. [d EXCEPT !.sub = fields].kind = "object" /\ [d EXCEPT !.sub = fields].sub = fields
  BY <1>2
<1> QED
  BY <1>1, <1>4, <1>5

LEMMA WithoutIs ==
  ASSUME NEW d \in Values, d.kind = "object", NEW names
  PROVE  /\ Without(d, names) \in Values
         /\ Without(d, names).kind = "object"
         /\ \A k \in FieldNames :
              Without(d, names).sub[k] = IF k \in names THEN Absent ELSE d.sub[k]
<1> DEFINE fields == [k \in FieldNames |-> IF k \in names THEN Absent ELSE d.sub[k]]
<1>1. MaxDepth \in Levels
  BY DepthAssumption DEF Levels
<1>2. /\ d = [kind |-> d.kind, of |-> d.of, sub |-> d.sub]
      /\ MaxDepth # 0 /\ d.sub \in [FieldNames -> ValuesTo[MaxDepth - 1]]
  BY <1>1, ValueFacts DEF Values
<1>3. MaxDepth - 1 \in Levels
  BY <1>1, <1>2, DepthAssumption DEF Levels
<1>4. Absent \in ValuesTo[MaxDepth - 1]
  BY <1>3, ValuesMade DEF Absent, Scalars, Nothing
<1>5. fields \in [FieldNames -> ValuesTo[MaxDepth - 1]]
  BY <1>2, <1>4
<1>6. [d EXCEPT !.sub = fields] \in Values
  BY <1>1, <1>2, <1>5, ValuesMade DEF Values
<1>7. [d EXCEPT !.sub = fields].kind = "object" /\ [d EXCEPT !.sub = fields].sub = fields
  BY <1>2
<1> QED
  BY <1>6, <1>7 DEF Without

(* The type of a column, NoField for one carried as Variant. *)
PlainType(S, k) ==
  IF k \in VariantFields THEN NoField ELSE InferType(Normalized(At(S, k)))

(* The schema is inferred column by column. *)
LEMMA InferredIs ==
  ASSUME Typed, NEW S, Shaped(S)
  PROVE  /\ Inferred(Docs(S)) = Tree("Struct", [k \in FieldNames |-> PlainType(S, k)])
         /\ \A k \in FieldNames : PlainType(S, k) \in TreesTo[MaxDepth - 1]
         /\ Inferred(Docs(S)) # Failure
         /\ \A k \in FieldNames \ VariantFields :
              At(Docs(S), k) = Normalized(At(S, k))
<1> DEFINE doc(d) == NormalizeDoc(d, VariantFields)
           ws == {Without(d, VariantFields) : d \in Docs(S)}
<1>1. S \subseteq Documents /\ S # {}
  BY ShapedFacts
<1>2. Docs(S) = {doc(d) : d \in S}
  BY DEF Docs
<1>3. ASSUME NEW d \in S
      PROVE  /\ doc(d) \in Values /\ doc(d).kind = "object"
             /\ \A k \in FieldNames :
                  doc(d).sub[k] = IF k \in VariantFields THEN d.sub[k]
                                  ELSE Normalize(d.sub[k], ShapeOfAll(At(S, k)))
  BY <1>1, NormalizeDocIs
<1>4. ws \in SUBSET Values /\ KindsOf(ws) = {"object"}
  <2>1. \A d \in Docs(S) : d \in Values /\ d.kind = "object"
    BY <1>2, <1>3
  <2>2. \A w \in ws : w \in Values /\ w.kind = "object"
    BY <2>1, WithoutIs
  <2>3. ws # {}
    BY <1>1, <1>2
  <2> HIDE DEF ws
  <2> QED
    BY <2>2, <2>3 DEF KindsOf, Nothing
<1>5. ASSUME NEW k \in FieldNames \ VariantFields
      PROVE  At(Docs(S), k) = Normalized(At(S, k))
  <2>1. At(Docs(S), k) = {doc(d).sub[k] : d \in S}
    BY <1>2, <1>3 DEF At
  <2>2. \A d \in S : doc(d).sub[k] = Normalize(d.sub[k], ShapeOfAll(At(S, k)))
    BY <1>3
  <2>3. At(S, k) = {d.sub[k] : d \in S}
    BY <1>1, ParametersAssumption DEF At
  <2>4. Normalized(At(S, k)) = {Normalize(v, ShapeOfAll(At(S, k))) : v \in At(S, k)}
    BY DEF Normalized
  <2> DEFINE norm(v) == Normalize(v, ShapeOfAll(At(S, k)))
  <2>5. Normalized(At(S, k)) = {norm(v) : v \in At(S, k)}
    BY <2>4
  <2>6. \A d \in S : doc(d).sub[k] = norm(d.sub[k])
    BY <2>2
  <2> HIDE DEF doc, norm
  <2>7. \A d \in S : d.sub[k] \in At(S, k)
    BY <2>3
  <2> QED
    BY <2>1, <2>3, <2>5, <2>6, <2>7
<1>6. ASSUME NEW k \in FieldNames
      PROVE  At(ws, k) = IF k \in VariantFields THEN {Absent} ELSE Normalized(At(S, k))
  <2>1. \A d \in Docs(S) : d \in Values /\ d.kind = "object"
    BY <1>2, <1>3
  <2>2. \A d \in Docs(S) :
          /\ Without(d, VariantFields).kind = "object"
          /\ Without(d, VariantFields).sub[k] = IF k \in VariantFields THEN Absent ELSE d.sub[k]
    BY <2>1, WithoutIs
  <2>3. At(ws, k) = {Without(d, VariantFields).sub[k] : d \in Docs(S)}
    BY <2>2 DEF At
  <2>4. Docs(S) # {}
    BY <1>1, <1>2
  <2>5. CASE k \in VariantFields
    BY <2>2, <2>3, <2>4, <2>5
  <2>6. CASE k \notin VariantFields
    <3>1. At(ws, k) = {d.sub[k] : d \in Docs(S)}
      BY <2>2, <2>3, <2>6
    <3>2. At(Docs(S), k) = {d.sub[k] : d \in Docs(S)}
      BY <2>1 DEF At
    <3> QED
      BY <1>5, <2>6, <3>1, <3>2
  <2> QED
    BY <2>5, <2>6
<1>7. MaxDepth \in Levels /\ MaxDepth - 1 \in Levels
  BY <1>1, DocumentFacts
<1>8. ASSUME NEW k \in FieldNames
      PROVE  InferType(At(ws, k)) = PlainType(S, k)
  <2> HIDE DEF ws
  <2>1. CASE k \in VariantFields
    <3>1. Absent \in Values
      BY <1>7, ValuesMade DEF Absent, Scalars, Nothing, Values
    <3>2. InferType({Absent}) = NoField
      BY <3>1, InferTypeIs
    <3> QED
      BY <1>6, <2>1, <3>2 DEF PlainType
  <2>2. CASE k \notin VariantFields
    BY <1>6, <2>2 DEF PlainType
  <2> QED
    BY <2>1, <2>2
<1>9. ASSUME NEW k \in FieldNames
      PROVE  PlainType(S, k) \in TreesTo[MaxDepth - 1] /\ PlainType(S, k) # Failure
  <2>1. CASE k \in VariantFields
    <3>1. NoField # Failure
      BY DEF NoField, Failure, Leaf, Tree
    <3> QED
      BY <1>7, <2>1, <3>1, TreesMade DEF PlainType, NoField, Leaves
  <2>2. CASE k \notin VariantFields
    BY <1>7, <2>2, ShapedFacts, NormalizedTyped, InferTyped, InferWorks DEF PlainType
  <2> QED
    BY <2>1, <2>2
<1>10. Inferred(Docs(S)) = Tree("Struct", [k \in FieldNames |-> PlainType(S, k)])
  <2>1. Inferred(Docs(S)) = InferType(ws)
    BY DEF Inferred
  <2> HIDE DEF ws
  <2>2. InferType(ws) = IF \E k \in FieldNames : InferType(At(ws, k)) = Failure THEN Failure
                        ELSE Tree("Struct", [k \in FieldNames |-> InferType(At(ws, k))])
    BY <1>4, <1>7, InferObjects DEF Values
  <2> QED
    BY <1>8, <1>9, <2>1, <2>2
<1>11. Inferred(Docs(S)) # Failure
  BY <1>10 DEF Tree, Failure, Leaf
<1> QED
  BY <1>5, <1>9, <1>10, <1>11

LEMMA NumberFacts ==
  ASSUME Typed
  PROVE  opts.number \in {Float64} \cup Decimals
<1>1. opts \in InferenceOptions
  BY ParametersAssumption DEF Typed
<1> QED
  BY <1>1 DEF InferenceOptions

(* The type a column is decoded with. *)
ColumnType(S, k) ==
  IF path = "provider" THEN PlainType(S, k)
  ELSE IF k \in VariantFields THEN Leaf("Variant")
  ELSE IF PlainType(S, k) = NoField THEN NoField
  ELSE IF opts.epoch THEN Leaf("Timestamp")
  ELSE SampleType(opts, At(S, k))

LEMMA SchemaIs ==
  ASSUME Typed, NEW S, Shaped(S)
  PROVE  /\ Schema(Docs(S)) = Tree("Struct", [k \in FieldNames |-> ColumnType(S, k)])
         /\ Schema(Docs(S)) \in Trees
         /\ Schema(Docs(S)) # NoType
         /\ Schema(Docs(S)).tag = "Struct"
         /\ \A k \in FieldNames :
              /\ Schema(Docs(S)).sub[k] = ColumnType(S, k) /\ Part(Schema(Docs(S)), k) = ColumnType(S, k)
              /\ ColumnType(S, k) \in Trees
<1>1. MaxDepth \in Levels /\ MaxDepth # 0 /\ MaxDepth - 1 \in Levels
  BY ShapedFacts, DocumentFacts
<1>2. Inferred(Docs(S)) = Tree("Struct", [k \in FieldNames |-> PlainType(S, k)])
  BY InferredIs
<1>3. Schema(Docs(S)) = Tree("Struct", [k \in FieldNames |-> ColumnType(S, k)])
  <2>1. CASE path = "provider"
    BY <1>2, <2>1 DEF Schema, ColumnType
  <2>2. CASE path = "struct"
    <3> DEFINE column(k) == IF k \in VariantFields THEN Leaf("Variant")
                            ELSE IF Inferred(Docs(S)).sub[k] = NoField THEN NoField
                            ELSE IF opts.epoch THEN Leaf("Timestamp")
                            ELSE Transform(opts, Inferred(Docs(S)).sub[k], At(Docs(S), k))
    <3>1. Schema(Docs(S)) = Tree("Struct", [k \in FieldNames |-> column(k)])
      BY <2>2 DEF Schema, StructType
    <3>2. ASSUME NEW k \in FieldNames PROVE column(k) = ColumnType(S, k)
      <4>1. Inferred(Docs(S)).sub[k] = PlainType(S, k)
        BY <1>2 DEF Tree
      <4>2. k \notin VariantFields =>
              Transform(opts, PlainType(S, k), At(Docs(S), k)) = SampleType(opts, At(S, k))
        BY InferredIs DEF PlainType, SampleType
      <4> QED
        BY <2>2, <4>1, <4>2 DEF ColumnType
    <3> HIDE DEF column
    <3> QED
      BY <3>1, <3>2
  <2> QED
    BY <2>1, <2>2 DEF Typed
<1>4. ASSUME NEW k \in FieldNames PROVE ColumnType(S, k) \in TreesTo[MaxDepth - 1]
  <2>1. PlainType(S, k) \in TreesTo[MaxDepth - 1]
    BY InferredIs
  <2>2. SampleType(opts, At(S, k)) \in TreesTo[MaxDepth - 1]
    BY <1>1, NumberFacts, ShapedFacts, SampleTypeTyped
  <2>3. /\ Leaf("Variant") \in TreesTo[MaxDepth - 1]
        /\ Leaf("Timestamp") \in TreesTo[MaxDepth - 1]
        /\ NoField \in TreesTo[MaxDepth - 1]
    BY <1>1, TreesMade DEF Leaves, NoField
  <2> QED
    BY <2>1, <2>2, <2>3 DEF ColumnType
<1>5. Schema(Docs(S)) \in Trees
  <2> DEFINE f == [k \in FieldNames |-> ColumnType(S, k)]
  <2>1. f \in [FieldNames -> TreesTo[MaxDepth - 1]]
    BY <1>4
  <2> HIDE DEF f
  <2>2. Tree("Struct", f) \in TreesTo[MaxDepth]
    BY <1>1, <2>1, TreesMade
  <2> QED
    BY <1>3, <2>2 DEF f, Trees
<1>6. Schema(Docs(S)).tag = "Struct" /\ Schema(Docs(S)).sub = [k \in FieldNames |-> ColumnType(S, k)]
  BY <1>3 DEF Tree
<1>7. Schema(Docs(S)) # NoType
  BY <1>6 DEF NoType, Leaf, Tree
<1>8. \A k \in FieldNames : Schema(Docs(S)).sub[k] = ColumnType(S, k) /\ Part(Schema(Docs(S)), k) = ColumnType(S, k)
  BY <1>6 DEF Part
<1>9. \A k \in FieldNames : ColumnType(S, k) \in Trees
  BY <1>1, <1>4, TreesBelow
<1> QED
  BY <1>3, <1>5, <1>6, <1>7, <1>8, <1>9

(* Both paths make a document of a document; of one in S, the one          *)
(* whose columns are normalized, but for the Variant ones.                 *)
LEMMA PreparedIs ==
  ASSUME Typed, NEW S, Shaped(S), type = Schema(Docs(S)), NEW d \in Documents
  PROVE  /\ Prepared(d) \in Values
         /\ Prepared(d).kind = "object"
         /\ DOMAIN Prepared(d).sub = FieldNames
         /\ d \in S => \A k \in FieldNames :
              Prepared(d).sub[k] =
                IF k \in VariantFields THEN d.sub[k] ELSE Normalize(d.sub[k], ShapeOfAll(At(S, k)))
<1>1. CASE path = "struct"
  BY <1>1, NormalizeDocIs DEF Prepared
<1>2. CASE path = "provider"
  <2>1. /\ MaxDepth \in Levels /\ MaxDepth - 1 \in Levels
        /\ d \in Values /\ d.kind = "object"
        /\ d = [kind |-> d.kind, of |-> d.of, sub |-> d.sub]
        /\ d.sub \in [FieldNames -> ValuesTo[MaxDepth - 1]]
    BY DocumentFacts
  <2>2. type \in Trees /\ type.tag = "Struct"
    BY SchemaIs
  <2>3. Prepared(d) = Coerce(d, type)
    BY <1>2 DEF Prepared
  <2>4. Coerce(d, type) = [d EXCEPT !.sub = [k \in FieldNames |-> Coerce(d.sub[k], Part(type, k))]]
    <3>1. Descends(type, d) /\ type.tag # "Utf8"
      BY <2>1, <2>2 DEF Descends
    <3> QED
      BY <2>1, <2>2, <3>1, CoerceIs
  <2>5. Prepared(d) \in Values /\ Prepared(d).kind = "object"
    BY <2>1, <2>2, <2>3, CoerceTyped DEF Values
  <2>6. Prepared(d).sub = [k \in FieldNames |-> Coerce(d.sub[k], Part(type, k))]
    BY <2>1, <2>3, <2>4
  <2>7. ASSUME d \in S, NEW k \in FieldNames
        PROVE  /\ k \notin VariantFields
               /\ Prepared(d).sub[k] = Normalize(d.sub[k], ShapeOfAll(At(S, k)))
    <3>1. k \notin VariantFields
      BY <1>2 DEF VariantFields
    <3>2. Part(type, k) = InferType(Normalized(At(S, k)))
      BY <1>2, <3>1, SchemaIs DEF ColumnType, PlainType
    <3>3. At(S, k) \in SUBSET ValuesTo[MaxDepth - 1] /\ d.sub[k] \in At(S, k)
      BY <2>7, ShapedFacts
    <3> QED
      BY <2>1, <2>6, <3>1, <3>2, <3>3, CoerceIsNormalize
  <2> QED
    BY <2>5, <2>6, <2>7
<1> QED
  BY <1>1, <1>2 DEF Typed

(* The cell of a document's row under a name. *)
Cell(S, d, k) == Decode(Prepared(d).sub[k], ColumnType(S, k))

(* A document is a row of its cells, when all of them decode. *)
LEMMA RowIs ==
  ASSUME Typed, NEW S, Shaped(S), type = Schema(Docs(S)), NEW d \in Documents
  PROVE  /\ Decode(Prepared(d), type) = Bad <=> \E k \in FieldNames : Cell(S, d, k) = Bad
         /\ Decode(Prepared(d), type) # Bad =>
              /\ Decode(Prepared(d), type) \in Values
              /\ Decode(Prepared(d), type).kind = "object"
              /\ DOMAIN Decode(Prepared(d), type).sub = FieldNames
              /\ \A k \in FieldNames : Decode(Prepared(d), type).sub[k] = Cell(S, d, k)
<1> DEFINE u == Prepared(d)
           row == Decode(u, type)
           cells == Cells(u, type)
<1>1. u \in Values /\ u.kind = "object" /\ DOMAIN u.sub = FieldNames
  BY PreparedIs
<1>2. /\ type \in Trees /\ type.tag = "Struct"
      /\ \A k \in FieldNames : Part(type, k) = ColumnType(S, k)
  BY SchemaIs
<1>3. MaxDepth \in Levels
  BY DepthAssumption DEF Levels
<1>4. u = [kind |-> u.kind, of |-> u.of, sub |-> u.sub]
  <2> HIDE DEF u
  <2> QED
    BY <1>1, <1>3, ValueFacts DEF Values
<1>5. DOMAIN cells = FieldNames /\ \A k \in FieldNames : cells[k] = Cell(S, d, k)
  BY <1>1, <1>2 DEF Cells, Cell
<1>6. row = IF \E k \in FieldNames : cells[k] = Bad THEN Bad ELSE [u EXCEPT !.sub = cells]
  <2>1. Takes(type) = {"object"} /\ Cuts(type) = {} /\ NoField.tag = "NoField"
    BY <1>2 DEF Takes, Cuts, NoField, Leaf, Tree
  <2>2. /\ type # NoField /\ u.kind \notin Nothing /\ u.kind \in Takes(type)
        /\ u.kind \notin Cuts(type) /\ Descends(type, u)
    <3> HIDE DEF u
    <3> QED
      BY <1>1, <1>2, <2>1 DEF Nothing, Descends
  <2> HIDE DEF u
  <2>3. row = IF \E k \in DOMAIN cells : cells[k] = Bad THEN Bad ELSE [u EXCEPT !.sub = cells]
    BY <1>1, <1>2, <2>2, DecodeIs
  <2> QED
    BY <1>5, <2>3
<1>7. row = Bad \/ row \in Values
  <2> HIDE DEF u
  <2> QED
    BY <1>1, <1>2, <1>3, DecodeTyped DEF Values
<1>8. [u EXCEPT !.sub = cells].kind = "object" /\ [u EXCEPT !.sub = cells].sub = cells
  <2> HIDE DEF u
  <2> QED
    BY <1>1, <1>4
<1>9. [u EXCEPT !.sub = cells] # Bad
  <2>1. Bad.kind = "bad"
    BY DEF Bad, Scalar, Value
  <2> HIDE DEF u
  <2> QED
    BY <1>8, <2>1
<1>10. row = Bad <=> \E k \in FieldNames : Cell(S, d, k) = Bad
  <2> HIDE DEF u, row, cells
  <2> QED
    BY <1>5, <1>6, <1>9
<1>11. ASSUME row # Bad
       PROVE  /\ row \in Values /\ row.kind = "object" /\ DOMAIN row.sub = FieldNames
              /\ \A k \in FieldNames : row.sub[k] = Cell(S, d, k)
  <2> HIDE DEF u, row, cells
  <2> QED
    BY <1>5, <1>6, <1>7, <1>8, <1>11
<1> QED
  BY <1>10, <1>11

----------------------------------------------------------------------------
(* The cells of the documents that the schema is of. *)

LEMMA NothingKept ==
  ASSUME NEW short, NEW v \in Values, v.kind \in Nothing
  PROVE  Keeps(short, Null, v) /\ Null # Bad
<1>1. MaxDepth \in Levels
  BY DepthAssumption DEF Levels
<1>2. \A l \in Nothing : l \in Scalars \ {"str", "cut"}
  BY DEF Nothing, Scalars
<1>3. v = Null \/ v = Absent
  BY <1>1, <1>2, ValueFacts DEF Null, Absent, Nothing, Values
<1>4. Null # Bad
  BY DEF Null, Bad, Scalar, Value
<1>5. Null \in Values
  BY <1>1, <1>2, ValuesMade DEF Null, Nothing, Values
<1> QED
  BY <1>3, <1>4, <1>5, KeepsScalars

(* A Variant takes every value as it is. *)
LEMMA VariantCell ==
  ASSUME NEW short, NEW v \in Values
  PROVE  /\ Decode(v, Leaf("Variant")) # Bad
         /\ Keeps(short, Decode(v, Leaf("Variant")), v)
<1> DEFINE t == Leaf("Variant")
<1>1. MaxDepth \in Levels
  BY DepthAssumption DEF Levels
<1>2. t \in Trees
  BY <1>1, TreesMade DEF Trees, Leaves
<1>3. /\ t # NoField /\ ~Descends(t, v)
      /\ v.kind \in Takes(t) /\ v.kind \notin Cuts(t)
  <2>1. t.tag = "Variant" /\ NoField.tag = "NoField"
    BY DEF NoField, Leaf, Tree
  <2> HIDE DEF t
  <2>2. Takes(t) = Scalars \cup Containers /\ Cuts(t) = {}
    BY <2>1 DEF Takes, Cuts
  <2>3. v.kind \in Scalars \cup Containers
    BY <1>1, ValueFacts DEF Values
  <2> QED
    BY <2>1, <2>2, <2>3 DEF Descends
<1>4. Decode(v, t) = IF v.kind \in Nothing THEN Null ELSE v
  <2> HIDE DEF t
  <2> QED
    BY <1>2, <1>3, DecodeIs
<1>5. v # Bad
  BY <1>1, BadIsNone DEF Values
<1>6. Keeps(short, v, v)
  BY KeepsScalars
<1> HIDE DEF t
<1>7. Decode(v, t) # Bad /\ Keeps(short, Decode(v, t), v)
  BY <1>4, <1>5, <1>6, NothingKept
<1> QED
  BY <1>7 DEF t

(* A timestamp takes no text but a date, which no value was made into, and *)
(* cuts those that are too fine for it.                                    *)
LEMMA EpochCell ==
  ASSUME NEW short, "fine_datetime" \in short, NEW v \in Values, NEW s \in Trees,
         Decode(Normalize(v, s), Leaf("Timestamp")) # Bad
  PROVE  Keeps(short, Decode(Normalize(v, s), Leaf("Timestamp")), v)
<1> DEFINE t == Leaf("Timestamp")
           u == Normalize(v, s)
<1>1. MaxDepth \in Levels
  BY DepthAssumption DEF Levels
<1>2. t \in Trees
  BY <1>1, TreesMade DEF Trees, Leaves
<1>3. u \in Values /\ (u.kind \in Scalars \ {"str"} => u = v)
  BY <1>1, NormalizeTyped DEF Values
<1>4. /\ t # NoField /\ ~Descends(t, u) /\ Cuts(t) = {"fine_datetime"}
      /\ u.kind \in Takes(t) => u.kind \in Scalars \ {"str"}
  <2>1. t.tag = "Timestamp" /\ NoField.tag = "NoField"
    BY DEF NoField, Leaf, Tree
  <2> HIDE DEF t, u
  <2>2. /\ Takes(t) = WholeNumbers \cup {"date", "datetime", "fine_datetime"}
        /\ Cuts(t) = {"fine_datetime"}
    BY <2>1 DEF Takes, Cuts
  <2> QED
    BY <2>1, <2>2 DEF Descends, Scalars, Texts, Dates, Datetimes, Numerals, WholeNumbers
<1>5. \A l \in Nothing : l \in Scalars \ {"str"}
  BY DEF Nothing, Scalars
<1>6. Decode(u, t) = IF u.kind \in Nothing THEN Null
                     ELSE IF u.kind \notin Takes(t) THEN Bad
                     ELSE IF u.kind \in Cuts(t) THEN Cut(u) ELSE u
  <2> HIDE DEF t, u
  <2> QED
    BY <1>2, <1>3, <1>4, DecodeIs
<1>7. Keeps(short, v, v)
  BY KeepsScalars
<1> HIDE DEF t, u
<1>8. ASSUME u.kind \notin Nothing, u.kind \in Takes(t), u.kind \in Cuts(t)
      PROVE  Keeps(short, Cut(u), v)
  <2>1. u = v /\ v.kind \in short
    BY <1>3, <1>4, <1>8
  <2>2. Cut(u) \in Values
    BY <1>1, <1>3, <1>8, CutTyped DEF Values
  <2> QED
    BY <2>1, <2>2, KeepsScalars
<1>9. Decode(u, t) # Bad => Keeps(short, Decode(u, t), v)
  BY <1>3, <1>4, <1>5, <1>6, <1>7, <1>8, NothingKept
<1> QED
  BY <1>9 DEF t, u

(* A column without options is the plain one. *)
PlainOptions == [number |-> Float64, infer_temporal |-> FALSE, epoch |-> FALSE]

LEMMA PlainCell ==
  ASSUME NEW n \in Levels, NEW vs \in SUBSET ValuesTo[n], NEW v \in vs
  PROVE  /\ Decode(Normalize(v, ShapeOfAll(vs)), InferType(Normalized(vs))) # Bad
         /\ Keeps({"long"}, Decode(Normalize(v, ShapeOfAll(vs)), InferType(Normalized(vs))), v)
<1>1. PlainOptions.number = Float64 /\ PlainOptions.infer_temporal = FALSE /\ PlainOptions.epoch = FALSE
  BY DEF PlainOptions
<1>2. SampleType(PlainOptions, vs) = InferType(Normalized(vs))
  <2>1. Normalized(vs) \in SUBSET ValuesTo[n] /\ Normalized(vs) \in SUBSET Values
    BY NormalizedTyped, ValuesBelow
  <2>2. InferType(Normalized(vs)) \in TreesTo[n]
    BY <2>1, InferTyped
  <2> QED
    BY <1>1, <2>1, <2>2, TransformPlain DEF SampleType
<1>3. CellGood(PlainOptions, vs, v)
  BY <1>1, SampleDecodes
<1>4. Refused(PlainOptions) = {} /\ Shortened(PlainOptions) = {"long"}
  BY <1>1 DEF Refused, Shortened
<1>5. Readable(PlainOptions, v)
  BY <1>4 DEF Readable
<1> QED
  BY <1>2, <1>3, <1>4, <1>5 DEF CellGood, SampleCell

(* Nothing in the document is refused, and no field of it is an epoch. *)
Decodes(d) == path = "struct" => ~opts.epoch /\ Readable(opts, d)

LEMMA CellOfSample ==
  ASSUME Typed, NEW S, Shaped(S), type = Schema(Docs(S)), NEW d \in S, NEW k \in FieldNames
  PROVE  /\ Decodes(d) => Cell(S, d, k) # Bad
         /\ Cell(S, d, k) # Bad => Keeps(Shorter, Cell(S, d, k), d.sub[k])
<1> DEFINE v == d.sub[k]
           col == At(S, k)
<1>1. MaxDepth - 1 \in Levels /\ col \in SUBSET ValuesTo[MaxDepth - 1] /\ v \in col
  BY ShapedFacts, DocumentFacts
<1>2. v \in ValuesTo[MaxDepth - 1] /\ v \in Values /\ ShapeOfAll(col) \in Trees
  BY <1>1, ValuesBelow, ShapeTags
<1>3. Prepared(d).sub[k] = IF k \in VariantFields THEN v ELSE Normalize(v, ShapeOfAll(col))
  BY ShapedFacts, PreparedIs
<1>4. Readable(opts, d) => Readable(opts, v)
  <2>1. d \in Documents /\ MaxDepth \in Levels /\ d \in ValuesTo[MaxDepth] /\ k \in DOMAIN d.sub
    BY ShapedFacts, DocumentFacts DEF Values
  <2> QED
    BY <2>1, ReadableParts
<1>5. CASE path = "provider"
  <2>1. k \notin VariantFields
    BY <1>5 DEF VariantFields
  <2>2. Cell(S, d, k) = Decode(Normalize(v, ShapeOfAll(col)), InferType(Normalized(col)))
    BY <1>3, <1>5, <2>1 DEF Cell, ColumnType, PlainType
  <2>3. Shorter = {"long"}
    BY <1>5 DEF Shorter
  <2> QED
    BY <1>1, <2>2, <2>3, PlainCell
<1>6. CASE path = "struct" /\ k \in VariantFields
  <2>1. Cell(S, d, k) = Decode(v, Leaf("Variant"))
    BY <1>3, <1>6 DEF Cell, ColumnType
  <2> QED
    BY <1>2, <2>1, VariantCell
<1>7. CASE path = "struct" /\ k \notin VariantFields /\ opts.epoch /\ PlainType(S, k) # NoField
  <2>1. Cell(S, d, k) = Decode(Normalize(v, ShapeOfAll(col)), Leaf("Timestamp"))
    BY <1>3, <1>7 DEF Cell, ColumnType
  <2>2. "fine_datetime" \in Shorter
    BY <1>7 DEF Shorter, Shortened
  <2>3. ~Decodes(d)
    BY <1>7 DEF Decodes
  <2> QED
    BY <1>2, <2>1, <2>2, <2>3, EpochCell
<1>8. CASE path = "struct" /\ k \notin VariantFields /\ ~(opts.epoch /\ PlainType(S, k) # NoField)
  <2>1. ColumnType(S, k) = SampleType(opts, col)
    <3>1. CASE PlainType(S, k) # NoField
      BY <1>8, <3>1 DEF ColumnType
    <3>2. CASE PlainType(S, k) = NoField
      <4>1. InferType(Normalized(col)) = NoField
        BY <1>8, <3>2 DEF PlainType
      <4>2. Normalized(col) \in SUBSET Values /\ NoField \in Trees
        <5>1. Normalized(col) \in SUBSET ValuesTo[MaxDepth - 1]
          BY <1>1, NormalizedTyped
        <5> QED
          BY <1>1, <5>1, ValuesBelow, TreesMade, TreesBelow DEF NoField, Leaves
      <4>3. Transform(opts, NoField, Normalized(col)) = NoField
        <5>1. NoField.tag = "NoField"
          BY DEF NoField, Leaf, Tree
        <5>2. TransformLeaf(opts, NoField, KindsOf(Normalized(col))) = NoField
          BY <5>1 DEF TransformLeaf
        <5> QED
          BY <4>2, <5>1, <5>2, TransformIs
      <4>4. SampleType(opts, col) = NoField
        BY <4>1, <4>3 DEF SampleType
      <4> QED
        BY <1>8, <3>2, <4>4 DEF ColumnType
    <3> QED
      BY <3>1, <3>2
  <2>2. Cell(S, d, k) = SampleCell(opts, col, v)
    BY <1>3, <1>8, <2>1 DEF Cell, SampleCell
  <2>3. CellGood(opts, col, v)
    BY <1>1, NumberFacts, SampleDecodes
  <2>4. Shorter = Shortened(opts) /\ (Decodes(d) => Readable(opts, v))
    BY <1>4, <1>8 DEF Shorter, Decodes
  <2> QED
    BY <2>2, <2>3, <2>4 DEF CellGood
<1> QED
  BY <1>5, <1>6, <1>7, <1>8 DEF Typed

(* Documents that the schema is of decode, but for epochs and what is      *)
(* refused, and a row that decodes keeps its document's values.            *)
LEMMA RowOfSample ==
  ASSUME Typed, NEW S, Shaped(S), type = Schema(Docs(S)), NEW d \in S
  PROVE  /\ Decodes(d) => Decode(Prepared(d), type) # Bad
         /\ Decode(Prepared(d), type) # Bad => Keeps(Shorter, Decode(Prepared(d), type), d)
<1>1. d \in Documents /\ d \in Values /\ d.kind = "object" /\ DOMAIN d.sub = FieldNames
  BY ShapedFacts, DocumentFacts
<1>2. \A k \in FieldNames : /\ Decodes(d) => Cell(S, d, k) # Bad
                            /\ Cell(S, d, k) # Bad => Keeps(Shorter, Cell(S, d, k), d.sub[k])
  BY CellOfSample
<1>3. Decodes(d) => Decode(Prepared(d), type) # Bad
  BY <1>1, <1>2, RowIs
<1> DEFINE row == Decode(Prepared(d), type)
<1>4. ASSUME row # Bad PROVE Keeps(Shorter, row, d)
  <2>1. /\ row \in Values /\ row.kind = "object" /\ DOMAIN row.sub = FieldNames
        /\ \A k \in FieldNames : row.sub[k] = Cell(S, d, k) /\ Cell(S, d, k) # Bad
    BY <1>1, <1>4, RowIs
  <2> HIDE DEF row
  <2> QED
    BY <1>1, <1>2, <2>1, KeepsParts DEF Containers
<1> QED
  BY <1>3, <1>4

----------------------------------------------------------------------------
(* The inductive invariant. *)

LEMMA InitIInv ==
  ASSUME Init
  PROVE  IInv
<1>1. Typed
  <2>1. MaxSample \in Nat /\ MaxRest \in Nat
    BY ParametersAssumption
  <2>2. sample \in Seq(Documents) /\ Len(sample) \in 1 .. MaxSample
    <3>1. PICK n \in 1 .. MaxSample : sample \in [1 .. n -> Documents]
      BY DEF Init
    <3> QED
      BY <2>1, <3>1
  <2>3. rest \in Seq(Documents) /\ Len(rest) <= MaxRest
    <3>1. PICK n \in 0 .. MaxRest : rest \in [1 .. n -> Documents]
      BY DEF Init
    <3> QED
      BY <2>1, <3>1
  <2> QED
    BY <2>2, <2>3 DEF Init, Typed
<1>2. Counted
  BY <1>1 DEF Init, Counted, Typed
<1>3. ShapeIsWhereTheyAgree
  <2>1. Observed = {}
    BY DEF Init, Observed
  <2>2. ShapeOfAll({}) = Unknown
    <3>1. Tags({}) = {}
      BY DEF Tags, KindsOf
    <3> QED
      BY <3>1, ShapeOfAllIs
  <2> QED
    BY <2>1, <2>2 DEF Init, ShapeIsWhereTheyAgree
<1>4. SchemaInv /\ RowsInv
  BY DEF Init, SchemaInv, RowsInv
<1> QED
  BY <1>1, <1>2, <1>3, <1>4 DEF IInv

(* The whole sample is observed when as many documents are merged. *)
LEMMA AllObserved ==
  ASSUME Typed, ShapeIsWhereTheyAgree, merged = Len(sample)
  PROVE  Shaped(Sampled) /\ NormalizedSample = Docs(Sampled)
<1>1. DOMAIN sample = 1 .. Len(sample)
  BY DEF Typed
<1>2. Observed = Sampled
  BY <1>1 DEF Observed, Sampled
<1> QED
  BY <1>2, SampleFacts DEF ShapeIsWhereTheyAgree, Shaped

(* One document more is one document's shape merged in. *)
LEMMA ObserveShape ==
  ASSUME IInv, Observe
  PROVE  ShapeIsWhereTheyAgree'
<1> DEFINE d == sample[merged + 1]
<1>1. merged \in 0 .. Len(sample) /\ merged + 1 \in DOMAIN sample /\ sample \in Seq(Documents)
  BY DEF IInv, Typed, Counted, Observe
<1>2. d \in Documents /\ d \in Values /\ MaxDepth \in Levels
  BY <1>1, DocumentFacts
<1>3. Observed \in SUBSET Values
  <2>1. \A i \in 1 .. merged : sample[i] \in Documents
    BY <1>1
  <2> QED
    BY <2>1, ParametersAssumption DEF Observed
<1>4. Observed' = Observed \cup {d}
  BY <1>1 DEF Observed, Observe
<1>5. ShapeOf(d) = ShapeOfAll({d})
  BY <1>2, ShapeOfOne DEF Values
<1>6. Merge(ShapeOfAll(Observed), ShapeOfAll({d})) = ShapeOfAll(Observed \cup {d})
  <2>1. Observed \in SUBSET ValuesTo[MaxDepth] /\ {d} \in SUBSET ValuesTo[MaxDepth]
    BY <1>2, <1>3 DEF Values
  <2> HIDE DEF d
  <2> QED
    BY <1>2, <2>1, MergeOfShapes
<1>7. shape' = Merge(ShapeOfAll(Observed), ShapeOf(d))
  BY DEF Observe, IInv, ShapeIsWhereTheyAgree
<1> HIDE DEF d
<1>8. shape' = ShapeOfAll(Observed')
  BY <1>4, <1>5, <1>6, <1>7
<1>9. \A s : (ShapeOfAll(s))' = ShapeOfAll(s)'
  OBVIOUS
<1> QED
  BY <1>8 DEF ShapeIsWhereTheyAgree

(* Neither the schema of a sample nor the row of a document changes. *)
LEMMA SchemaKept ==
  ASSUME UNCHANGED <<path, opts, sample, shape>>
  PROVE  Schema(NormalizedSample)' = Schema(NormalizedSample)
<1>1. VariantFields' = VariantFields
  BY DEF VariantFields
<1>2. NormalizedSample' = NormalizedSample
  BY <1>1 DEF NormalizedSample, NormalizeDoc
<1>3. Inferred(NormalizedSample)' = Inferred(NormalizedSample)
  BY <1>1, <1>2 DEF Inferred
<1> QED
  BY <1>1, <1>2, <1>3 DEF Schema, StructType

LEMMA RowKept ==
  ASSUME UNCHANGED <<path, opts, sample, rest, shape, type>>, NEW i
  PROVE  RowOf(i)' = RowOf(i)
<1>1. VariantFields' = VariantFields
  BY DEF VariantFields
<1> QED
  BY <1>1 DEF RowOf, Prepared, NormalizeDoc

(* The document of a row. *)
LEMMA DocumentOfRow ==
  ASSUME Typed, NEW i \in 1 .. Len(sample) + Len(rest)
  PROVE  /\ (sample \o rest)[i] \in Documents
         /\ i <= Len(sample) => (sample \o rest)[i] = sample[i] /\ sample[i] \in Sampled
         /\ Len(sample \o rest) = Len(sample) + Len(rest)
<1>1. sample \in Seq(Documents) /\ rest \in Seq(Documents)
  BY DEF Typed
<1>2. (sample \o rest)[i] \in Documents /\ Len(sample \o rest) = Len(sample) + Len(rest)
  BY <1>1
<1>3. i <= Len(sample) => (sample \o rest)[i] = sample[i] /\ sample[i] \in Sampled
  BY <1>1 DEF Sampled
<1> QED
  BY <1>2, <1>3

LEMMA ObserveIInv ==
  ASSUME IInv, Observe
  PROVE  IInv'
<1>1. Typed'
  BY DEF IInv, Typed, Observe
<1>2. type = NoType /\ rows = <<>> /\ outcome # "error"
  BY DEF IInv, SchemaInv, Counted, RowsInv, Observe
<1>3. Counted'
  BY <1>2 DEF IInv, Typed, Counted, Observe
<1>4. SchemaInv' /\ RowsInv'
  BY <1>2 DEF SchemaInv, RowsInv, Observe
<1> QED
  BY <1>1, <1>3, <1>4, ObserveShape DEF IInv

LEMMA InferIInv ==
  ASSUME IInv, Infer
  PROVE  IInv'
<1>1. Typed'
  BY DEF IInv, Typed, Infer
<1>2. Shaped(Sampled) /\ NormalizedSample = Docs(Sampled)
  BY AllObserved DEF IInv, Infer
<1>3. type = NoType /\ rows = <<>> /\ outcome = "running"
  BY DEF IInv, Counted, Infer
<1>4. outcome' \in {"running", "panic"} /\ (type' = type \/ type' = Schema(NormalizedSample))
  <2>1. Inferred(NormalizedSample) # Failure
    BY <1>2, InferredIs DEF IInv
  <2> QED
    BY <1>3, <2>1 DEF Infer
<1>5. Counted'
  <2>1. rows' = rows /\ merged' = merged /\ sample' = sample /\ rest' = rest
    BY DEF Infer
  <2> QED
    BY <1>3, <1>4, <2>1 DEF IInv, Counted
<1>6. ShapeIsWhereTheyAgree'
  BY DEF IInv, Infer, ShapeIsWhereTheyAgree, Observed
<1>7. SchemaInv'
  <2>1. Schema(NormalizedSample)' = Schema(NormalizedSample) /\ merged' = Len(sample')
    BY SchemaKept DEF Infer
  <2> QED
    BY <1>3, <1>4, <2>1 DEF SchemaInv
<1>8. RowsInv'
  <2>1. rows' = <<>>
    BY <1>3 DEF Infer
  <2> QED
    BY <1>4, <2>1 DEF RowsInv
<1> QED
  BY <1>1, <1>5, <1>6, <1>7, <1>8 DEF IInv

LEMMA DecodeRowIInv ==
  ASSUME IInv, DecodeRow
  PROVE  IInv'
<1> DEFINE n == Len(rows) + 1
<1>1. UNCHANGED <<path, opts, sample, rest, merged, shape, type>>
  BY DEF DecodeRow
<1>2. Typed' /\ ShapeIsWhereTheyAgree'
  BY <1>1 DEF IInv, Typed, ShapeIsWhereTheyAgree, Observed
<1>3. SchemaInv'
  <2>1. Schema(NormalizedSample)' = Schema(NormalizedSample)
    BY <1>1, SchemaKept
  <2> QED
    BY <1>1, <2>1 DEF IInv, SchemaInv
<1>4. /\ type # NoType /\ Shaped(Sampled) /\ type = Schema(Docs(Sampled))
      /\ outcome = "running"
      /\ rows \in Seq(Values)
      /\ n \in 1 .. Len(sample) + Len(rest)
      /\ IF RowOf(n) = Bad THEN outcome' = "error" /\ rows' = rows
         ELSE rows' = Append(rows, RowOf(n)) /\ outcome' = outcome
  <2>1. Typed /\ rows \in Seq(Values) /\ Len(rows) < Len(sample \o rest)
    BY DEF IInv, Counted, DecodeRow
  <2>2. sample \in Seq(Documents) /\ rest \in Seq(Documents)
    BY <2>1 DEF Typed
  <2>3. n \in 1 .. Len(sample) + Len(rest)
    BY <2>1, <2>2
  <2> QED
    BY <2>1, <2>3, AllObserved DEF IInv, SchemaInv, RowOf, DecodeRow
<1>5. (sample \o rest)[n] \in Documents
  BY <1>4, DocumentOfRow DEF IInv
<1>6. RowOf(n) # Bad => RowOf(n) \in Values
  BY <1>4, <1>5, RowIs DEF IInv, RowOf
<1>7. \A i : RowOf(i)' = RowOf(i)
  BY <1>1, RowKept
<1>8. /\ Len(rows) \in Nat /\ DOMAIN rows = 1 .. Len(rows)
      /\ RowOf(n) # Bad =>
           /\ Len(rows') = n /\ DOMAIN rows' = DOMAIN rows \cup {n}
           /\ \A i \in DOMAIN rows : rows'[i] = rows[i]
           /\ rows'[n] = RowOf(n)
  <2>1. \A s \in Seq(Values), v \in Values :
          /\ Len(Append(s, v)) = Len(s) + 1
          /\ DOMAIN Append(s, v) = DOMAIN s \cup {Len(s) + 1}
          /\ \A i \in DOMAIN s : Append(s, v)[i] = s[i]
          /\ Append(s, v)[Len(s) + 1] = v
    OBVIOUS
  <2>2. Len(rows) \in Nat /\ DOMAIN rows = 1 .. Len(rows)
    BY <1>4
  <2>3. RowOf(n) # Bad => RowOf(n) \in Values /\ rows' = Append(rows, RowOf(n))
    BY <1>4, <1>6
  <2> SUFFICES ASSUME RowOf(n) # Bad
               PROVE  /\ Len(rows') = n /\ DOMAIN rows' = DOMAIN rows \cup {n}
                      /\ \A i \in DOMAIN rows : rows'[i] = rows[i]
                      /\ rows'[n] = RowOf(n)
    BY <2>2
  <2> DEFINE row == RowOf(n)
  <2>4. row \in Values /\ rows' = Append(rows, row)
    BY <2>3
  <2> HIDE DEF row
  <2>5. /\ Len(rows') = n /\ DOMAIN rows' = DOMAIN rows \cup {n}
        /\ \A i \in DOMAIN rows : rows'[i] = rows[i]
        /\ rows'[n] = row
    BY <1>4, <2>1, <2>4
  <2> QED
    BY <2>5 DEF row
<1>9. Counted'
  <2>1. Len(sample)' = Len(sample) /\ Len(rest)' = Len(rest)
    BY <1>1
  <2> HIDE DEF n
  <2>2. CASE RowOf(n) = Bad
    BY <1>1, <1>4, <2>1, <2>2 DEF IInv, Counted
  <2>3. CASE RowOf(n) # Bad
    <3>1. rows' \in Seq(Values)
      BY <1>4, <1>6, <2>3
    <3>2. Len(rows') <= Len(sample) + Len(rest)
      BY <1>4, <1>8, <2>3
    <3> QED
      BY <1>1, <1>4, <2>1, <2>3, <3>1, <3>2 DEF IInv, Counted
  <2> QED
    BY <2>2, <2>3
<1>10. RowsInv'
  <2>1. Len(sample)' = Len(sample) /\ Len(rest)' = Len(rest)
    BY <1>1
  <2>2. CASE RowOf(n) = Bad
    <3>1. rows' = rows /\ Len(rows)' = Len(rows)
      BY <1>4, <2>2
    <3>2. Len(rows) < Len(sample) + Len(rest)
      BY <1>4, <1>8
    <3>3. RowOf(Len(rows) + 1)' = Bad
      BY <1>7, <2>2, <3>1
    <3>4. \A i \in DOMAIN rows' : rows'[i] = RowOf(i)' /\ rows'[i] # Bad
      BY <1>7, <3>1 DEF IInv, RowsInv
    <3> QED
      BY <1>1, <1>4, <2>1, <3>1, <3>2, <3>3, <3>4 DEF RowsInv
  <2>3. CASE RowOf(n) # Bad
    <3> HIDE DEF n
    <3>1. \A i \in DOMAIN rows' : rows'[i] = RowOf(i) /\ rows'[i] # Bad
      BY <1>4, <1>8, <2>3 DEF IInv, RowsInv
    <3>2. outcome' = "running"
      BY <1>4, <2>3
    <3> QED
      BY <1>7, <3>1, <3>2 DEF RowsInv
  <2> QED
    BY <2>2, <2>3
<1> QED
  BY <1>2, <1>3, <1>9, <1>10 DEF IInv

(* Nothing but the outcome changes, if anything, and not into an error. *)
LEMMA FinishIInv ==
  ASSUME IInv, UNCHANGED <<path, opts, sample, rest, merged, shape, type, rows>>,
         outcome' = outcome \/ outcome' = "ok"
  PROVE  IInv'
<1>1. Typed' /\ ShapeIsWhereTheyAgree'
  BY DEF IInv, Typed, ShapeIsWhereTheyAgree, Observed
<1>2. SchemaInv'
  BY SchemaKept DEF IInv, SchemaInv
<1>3. Counted'
  BY DEF IInv, Counted
<1>4. RowsInv'
  <2>1. \A i : RowOf(i)' = RowOf(i)
    BY RowKept
  <2>2. Len(rows)' = Len(rows) /\ Len(sample)' = Len(sample) /\ Len(rest)' = Len(rest)
    OBVIOUS
  <2>3. RowOf(Len(rows) + 1)' = RowOf(Len(rows) + 1)
    BY <2>1, <2>2
  <2> QED
    BY <2>1, <2>2, <2>3 DEF IInv, RowsInv
<1> QED
  BY <1>1, <1>2, <1>3, <1>4 DEF IInv

(* What sample, schema, rows and outcome have to do with each other, in    *)
(* every state of build_struct_batch and of convert.rs.                    *)
THEOREM InferenceInvariant == Spec => []IInv
<1>1. Init => IInv
  BY InitIInv
<1>2. IInv /\ [Next]_vars => IInv'
  <2> SUFFICES ASSUME IInv, [Next]_vars PROVE IInv'
    OBVIOUS
  <2>1. CASE Observe
    BY <2>1, ObserveIInv
  <2>2. CASE Infer
    BY <2>2, InferIInv
  <2>3. CASE DecodeRow
    BY <2>3, DecodeRowIInv
  <2>4. CASE Finish
    BY <2>4, FinishIInv DEF Finish
  <2>5. CASE UNCHANGED vars
    BY <2>5, FinishIInv DEF vars
  <2> QED
    BY <2>1, <2>2, <2>3, <2>4, <2>5 DEF Next
<1> QED
  BY <1>1, <1>2, PTL DEF Spec

----------------------------------------------------------------------------
(* What follows from it. *)

LEMMA IInvTypeOK ==
  ASSUME IInv
  PROVE  TypeOK
<1>1. shape.tag \in {"Unknown", "Object"}
  <2>1. MaxDepth \in Levels /\ Observed \in SUBSET Values /\ \A d \in Observed : d.kind = "object"
    <3>1. \A i \in 1 .. merged : sample[i] \in Documents
      BY DEF IInv, Typed, Counted
    <3> QED
      BY <3>1, ParametersAssumption, DepthAssumption DEF Observed, Levels
  <2>2. Tags(Observed) \subseteq {"Object"}
    BY <2>1, KindFacts DEF Tags, KindsOf, Containers
  <2>3. Unknown.tag = "Unknown" /\ \A f : Tree("Object", f).tag = "Object"
    BY DEF Unknown, Leaf, Tree
  <2>4. Observed \in SUBSET ValuesTo[MaxDepth]
    BY <2>1 DEF Values
  <2> QED
    BY <2>1, <2>2, <2>3, <2>4, ShapeCases DEF IInv, ShapeIsWhereTheyAgree
<1>2. ASSUME type # NoType
      PROVE  /\ type.tag = "Struct" /\ merged = Len(sample)
             /\ \A i \in DOMAIN rows :
                  /\ rows[i].kind = "object"
                  /\ \A k \in FieldNames : rows[i].sub[k] = Absent <=> type.sub[k] = NoField
  <2>1. /\ Typed /\ merged = Len(sample) /\ Shaped(Sampled) /\ type = Schema(Docs(Sampled))
        /\ \A k \in FieldNames :
             type.sub[k] = ColumnType(Sampled, k) /\ ColumnType(Sampled, k) \in Trees
    BY <1>2, AllObserved, SchemaIs DEF IInv, SchemaInv
  <2>2. ASSUME NEW i \in DOMAIN rows
        PROVE  /\ rows[i].kind = "object"
               /\ \A k \in FieldNames : rows[i].sub[k] = Absent <=> type.sub[k] = NoField
    <3> DEFINE d == (sample \o rest)[i]
    <3>1. d \in Documents
      <4>1. i \in 1 .. Len(sample) + Len(rest)
        <5>1. rows \in Seq(Values) /\ Len(rows) <= Len(sample) + Len(rest)
          BY DEF IInv, Counted
        <5>2. Len(sample) \in Nat /\ Len(rest) \in Nat
          BY <2>1 DEF Typed
        <5> QED
          BY <5>1, <5>2
      <4> QED
        BY <2>1, <4>1, DocumentOfRow
    <3>2. rows[i] = Decode(Prepared(d), type) /\ rows[i] # Bad
      BY DEF IInv, RowsInv, RowOf
    <3> HIDE DEF d
    <3>3. rows[i].kind = "object" /\ \A k \in FieldNames : rows[i].sub[k] = Cell(Sampled, d, k)
      BY <2>1, <3>1, <3>2, RowIs
    <3>4. ASSUME NEW k \in FieldNames
          PROVE  Cell(Sampled, d, k) = Absent <=> ColumnType(Sampled, k) = NoField
      <4>1. /\ MaxDepth \in Levels /\ Prepared(d) \in ValuesTo[MaxDepth]
            /\ k \in DOMAIN Prepared(d).sub
        BY <2>1, <3>1, PreparedIs, DocumentFacts DEF Values
      <4>2. MaxDepth - 1 \in Levels /\ Prepared(d).sub[k] \in ValuesTo[MaxDepth - 1]
        BY <3>1, <4>1, AnyPartBelow, DocumentFacts
      <4> QED
        BY <2>1, <4>2, DecodeTyped DEF Cell
    <3> QED
      BY <2>1, <3>3, <3>4
  <2> QED
    BY <2>1, <2>2, SchemaIs
<1>3. type = NoType => DOMAIN rows = {}
  BY DEF IInv, Counted
<1>4. Typed /\ Counted
  BY DEF IInv
<1>5. \A i \in DOMAIN rows :
        /\ rows[i].kind = "object"
        /\ \A k \in FieldNames : rows[i].sub[k] = Absent <=> type.sub[k] = NoField
  BY <1>2, <1>3
<1>6. type # NoType => type.tag = "Struct" /\ merged = Len(sample)
  BY <1>2
<1> QED
  BY <1>1, <1>4, <1>5, <1>6 DEF TypeOK, Typed, Counted

(* Every row has exactly the columns of the schema, and the state its      *)
(* types.                                                                  *)
THEOREM InferenceTypeOK == Spec => []TypeOK
  BY InferenceInvariant, IInvTypeOK, PTL

(* However the documents follow each other, and the elements in their      *)
(* arrays, the merged shape is what they agree on.                         *)
THEOREM ShapeIsAgreement == Spec => []ShapeIsWhereTheyAgree
<1>1. IInv => ShapeIsWhereTheyAgree
  BY DEF IInv
<1> QED
  BY <1>1, InferenceInvariant, PTL

(* The document that fails. *)
LEMMA FailingDocument ==
  ASSUME IInv, outcome = "error", NEW d, d = (sample \o rest)[Len(rows) + 1]
  PROVE  /\ type # NoType /\ Typed
         /\ d \in Documents
         /\ Decode(Prepared(d), type) = Bad
         /\ Shaped(Sampled) /\ NormalizedSample = Docs(Sampled)
         /\ type = Schema(NormalizedSample)
<1>1. /\ Typed /\ type # NoType
      /\ Len(rows) < Len(sample) + Len(rest)
      /\ RowOf(Len(rows) + 1) = Bad
  BY DEF IInv, RowsInv
<1>2. Len(rows) \in Nat /\ Len(sample) \in Nat /\ Len(rest) \in Nat
  <2>1. rows \in Seq(Values) /\ sample \in Seq(Documents) /\ rest \in Seq(Documents)
    BY DEF IInv, Typed, Counted
  <2> QED
    BY <2>1
<1>3. Len(rows) + 1 \in 1 .. Len(sample) + Len(rest)
  BY <1>1, <1>2
<1>4. d \in Documents /\ Decode(Prepared(d), type) = Bad
  BY <1>1, <1>3, DocumentOfRow DEF RowOf
<1> QED
  BY <1>1, <1>4, AllObserved DEF IInv, SchemaInv

(* A document that does not disagree might as well have been sampled. *)
LEMMA MightBeSampled ==
  ASSUME Typed, Shaped(Sampled), NormalizedSample = Docs(Sampled), type = Schema(NormalizedSample),
         NEW d \in Documents, ~Disagrees(d)
  PROVE  Shaped(Sampled \cup {d}) /\ type = Schema(Docs(Sampled \cup {d}))
<1>1. /\ MaxDepth \in Levels /\ d \in ValuesTo[MaxDepth]
      /\ Sampled \in SUBSET ValuesTo[MaxDepth] /\ {d} \in SUBSET ValuesTo[MaxDepth]
  BY DocumentFacts, ShapedFacts DEF Values
<1>2. shape = ShapeOfAll(Sampled) /\ ShapeOf(d) = ShapeOfAll({d})
  BY <1>1, ShapeOfOne DEF Shaped
<1>3. Merge(ShapeOfAll(Sampled), ShapeOfAll({d})) = ShapeOfAll(Sampled \cup {d})
  BY <1>1, MergeOfShapes
<1>4. Shaped(Sampled \cup {d})
  BY <1>2, <1>3 DEF Disagrees, Shaped
<1>5. Docs(Sampled \cup {d}) = NormalizedSample \cup {NormalizeDoc(d, VariantFields)}
  BY DEF Docs
<1> QED
  BY <1>4, <1>5 DEF Disagrees

LEMMA IInvFailures ==
  ASSUME IInv
  PROVE  OnlyDisagreementFails
<1> SUFFICES ASSUME outcome = "error", NEW d, d = (sample \o rest)[Len(rows) + 1]
             PROVE  /\ type # NoType
                    /\ \/ Disagrees(d)
                       \/ path = "struct" /\ opts.epoch
                       \/ path = "struct" /\ \E kind \in Refused(opts) : Holds(d, kind)
  BY DEF OnlyDisagreementFails
<1>1. /\ type # NoType /\ Typed /\ d \in Documents
      /\ Decode(Prepared(d), type) = Bad
      /\ Shaped(Sampled) /\ NormalizedSample = Docs(Sampled) /\ type = Schema(NormalizedSample)
  BY FailingDocument
<1>2. ASSUME ~Disagrees(d) PROVE ~Decodes(d)
  <2>1. Shaped(Sampled \cup {d}) /\ type = Schema(Docs(Sampled \cup {d}))
    BY <1>1, <1>2, MightBeSampled
  <2> DEFINE S == Sampled \cup {d}
  <2>2. Shaped(S) /\ type = Schema(Docs(S)) /\ d \in S
    BY <2>1
  <2> HIDE DEF S
  <2>3. Decodes(d) => Decode(Prepared(d), type) # Bad
    BY <1>1, <2>2, RowOfSample
  <2> QED
    BY <1>1, <2>3
<1>3. ~Decodes(d) => /\ path = "struct"
                     /\ opts.epoch \/ \E kind \in Refused(opts) : Holds(d, kind)
  BY DEF Decodes, Readable
<1> QED
  BY <1>1, <1>2, <1>3

(* A document fails a batch only where it disagrees with the sample, or    *)
(* holds what the asked-for types refuse; inference fails none.            *)
THEOREM OnlyDisagreementsFail == Spec => []OnlyDisagreementFails
  BY InferenceInvariant, IInvFailures, PTL

LEMMA IInvKeeps ==
  ASSUME IInv
  PROVE  SampledRowsKeepValues
<1> SUFFICES ASSUME NEW i \in DOMAIN rows, i <= Len(sample)
             PROVE  Keeps(Shorter, rows[i], sample[i])
  BY DEF SampledRowsKeepValues
<1>1. Typed /\ Shaped(Sampled) /\ type = Schema(Docs(Sampled))
  BY AllObserved DEF IInv, Counted, SchemaInv
<1>2. i \in 1 .. Len(sample) + Len(rest)
  <2>1. /\ rows \in Seq(Values) /\ Len(rows) <= Len(sample) + Len(rest)
        /\ Len(sample) \in Nat /\ Len(rest) \in Nat
    BY DEF IInv, Typed, Counted
  <2> QED
    BY <2>1
<1>3. (sample \o rest)[i] = sample[i] /\ sample[i] \in Sampled
  BY <1>1, <1>2, DocumentOfRow
<1>4. rows[i] = Decode(Prepared(sample[i]), type) /\ rows[i] # Bad
  BY <1>3 DEF IInv, RowsInv, RowOf
<1> QED
  BY <1>1, <1>3, <1>4, RowOfSample

(* No value of a sampled document is lost, but for the digits that the     *)
(* options give up: null stands for what is not there, a text for what     *)
(* documents disagree on, and the rest is itself.                          *)
THEOREM SampleIsKept == Spec => []SampledRowsKeepValues
  BY InferenceInvariant, IInvKeeps, PTL

LEMMA IInvPaths ==
  ASSUME IInv
  PROVE  PathsAgree
<1> SUFFICES ASSUME type # NoType, VariantFields = {}, NEW i \in DOMAIN sample
             PROVE  NormalizeDoc(sample[i], {}) = Coerce(sample[i], Inferred(NormalizedSample))
  BY DEF PathsAgree
<1> DEFINE d == sample[i]
<1>1. /\ Typed /\ Shaped(Sampled) /\ NormalizedSample = Docs(Sampled)
      /\ d \in Sampled /\ d \in Documents
  BY AllObserved, SampleFacts DEF IInv, SchemaInv, Sampled
<1> HIDE DEF d
<1>2. /\ MaxDepth \in Levels /\ MaxDepth # 0 /\ MaxDepth - 1 \in Levels
      /\ d \in Values /\ d.kind = "object" /\ DOMAIN d.sub = FieldNames
  BY <1>1, DocumentFacts
<1> DEFINE t == Inferred(NormalizedSample)
<1>3. /\ t = Tree("Struct", [k \in FieldNames |-> PlainType(Sampled, k)])
      /\ t \in Trees
  <2>1. t = Tree("Struct", [k \in FieldNames |-> PlainType(Sampled, k)])
    BY <1>1, InferredIs
  <2> DEFINE f == [k \in FieldNames |-> PlainType(Sampled, k)]
  <2>2. f \in [FieldNames -> TreesTo[MaxDepth - 1]]
    BY <1>1, InferredIs
  <2> HIDE DEF f
  <2>3. Tree("Struct", f) \in Trees
    BY <1>2, <2>2, TreesMade DEF Trees
  <2> QED
    BY <2>1, <2>3 DEF f
<1>4. t.tag = "Struct" /\ \A k \in FieldNames : Part(t, k) = InferType(Normalized(At(Sampled, k)))
  <2>1. t.tag = "Struct" /\ t.sub = [k \in FieldNames |-> PlainType(Sampled, k)]
    BY <1>3 DEF Tree
  <2> HIDE DEF t
  <2> QED
    BY <2>1 DEF Part, PlainType
<1> HIDE DEF t
<1>5. Coerce(d, t) = [d EXCEPT !.sub = [k \in FieldNames |-> Coerce(d.sub[k], Part(t, k))]]
  <2>1. Descends(t, d) /\ t.tag # "Utf8"
    BY <1>2, <1>4 DEF Descends
  <2> QED
    BY <1>2, <1>3, <2>1, CoerceIs
<1>6. \A k \in FieldNames :
        Coerce(d.sub[k], Part(t, k)) = Normalize(d.sub[k], ShapeOfAll(At(Sampled, k)))
  <2>1. \A k \in FieldNames : At(Sampled, k) \in SUBSET ValuesTo[MaxDepth - 1] /\ d.sub[k] \in At(Sampled, k)
    BY <1>1, ShapedFacts
  <2> QED
    BY <1>2, <1>4, <2>1, CoerceIsNormalize
<1>7. NormalizeDoc(d, {}) =
        [d EXCEPT !.sub = [k \in FieldNames |-> Normalize(d.sub[k], ShapeOfAll(At(Sampled, k)))]]
  BY <1>1, ShapeOfSample DEF NormalizeDoc
<1>8. NormalizeDoc(d, {}) = Coerce(d, t)
  BY <1>5, <1>6, <1>7
<1> QED
  BY <1>8 DEF d, t

(* Normalizing by the merged shape and coercing by the inferred schema are *)
(* one function on the sampled documents.                                  *)
THEOREM PathsAlwaysAgree == Spec => []PathsAgree
  BY InferenceInvariant, IInvPaths, PTL

(* With every knob off, the schema is the plain one: of PlainWhenOff only  *)
(* the panic of the profile fails (inference.rs:14).                       *)
PlainSchemaWhenOff ==
  path = "struct" /\ opts.number = Float64 /\ opts.infer_temporal = FALSE
    /\ opts.epoch = FALSE /\ opts.heterogeneous = "string"
  => (type # NoType => type = Inferred(NormalizedSample))

LEMMA IInvPlain ==
  ASSUME IInv
  PROVE  PlainSchemaWhenOff
<1> SUFFICES ASSUME path = "struct", opts.number = Float64, opts.infer_temporal = FALSE,
                    opts.epoch = FALSE, opts.heterogeneous = "string", type # NoType
             PROVE  type = Inferred(NormalizedSample)
  BY DEF PlainSchemaWhenOff
<1>1. Typed /\ Shaped(Sampled) /\ NormalizedSample = Docs(Sampled) /\ type = Schema(Docs(Sampled))
  BY AllObserved DEF IInv, SchemaInv
<1>2. type = Tree("Struct", [k \in FieldNames |-> ColumnType(Sampled, k)])
  BY <1>1, SchemaIs
<1>3. Inferred(NormalizedSample) = Tree("Struct", [k \in FieldNames |-> PlainType(Sampled, k)])
  BY <1>1, InferredIs
<1>4. ASSUME NEW k \in FieldNames PROVE ColumnType(Sampled, k) = PlainType(Sampled, k)
  <2>1. k \notin VariantFields
    BY DEF VariantFields
  <2>2. MaxDepth - 1 \in Levels /\ At(Sampled, k) \in SUBSET ValuesTo[MaxDepth - 1]
    BY <1>1, ShapedFacts, DocumentFacts
  <2>3. Normalized(At(Sampled, k)) \in SUBSET ValuesTo[MaxDepth - 1]
    BY <2>2, NormalizedTyped
  <2>4. Normalized(At(Sampled, k)) \in SUBSET Values
    BY <2>2, <2>3, ValuesBelow
  <2>5. InferType(Normalized(At(Sampled, k))) \in TreesTo[MaxDepth - 1]
    BY <2>2, <2>3, InferTyped
  <2>6. SampleType(opts, At(Sampled, k)) = PlainType(Sampled, k)
    BY <2>1, <2>2, <2>4, <2>5, TransformPlain DEF SampleType, PlainType
  <2> QED
    BY <2>1, <2>6 DEF ColumnType
<1> QED
  BY <1>2, <1>3, <1>4

(* The options' defaults change nothing of the inferred schema.            *)
THEOREM PlainSchema == Spec => []PlainSchemaWhenOff
  BY InferenceInvariant, IInvPlain, PTL
=============================================================================
