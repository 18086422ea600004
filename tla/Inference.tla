----------------------------- MODULE Inference ------------------------------
(***************************************************************************)
(* From JSON documents to one typed Arrow batch: a sample is merged into a *)
(* shape, conflicting nodes become text, a schema is inferred, and all     *)
(* documents are decoded with it (normalize.rs, inference.rs, convert.rs). *)
(* Two paths share this and differ at the end:                             *)
(*                                                                         *)
(*   "struct"    build_struct_batch, the native dialect: the schema's      *)
(*               types may be transformed by options, and documents are    *)
(*               normalized by the sample's shape;                         *)
(*   "provider"  convert.rs, the datafusion dialect: the schema was cached *)
(*               earlier and documents are coerced by the schema.          *)
(*                                                                         *)
(* The sample is a prefix of what is decoded.  In the struct path the rest *)
(* are the documents after the first sample_size ones, in the provider     *)
(* path what the container held when it was scanned.                       *)
(***************************************************************************)
EXTENDS Shapes

CONSTANTS
  Documents,     \* the documents a container may hold
  MaxSample,     \* bound: documents sampled
  MaxRest,       \* bound: documents decoded beyond the sample
  Options        \* struct-mode options in use

VARIABLES
  path,      \* "struct" or "provider"
  opts,      \* the options of the statement
  sample,    \* the sampled documents
  rest,      \* the documents decoded after them
  merged,    \* how many sampled documents the shape covers
  shape,     \* the shape merged so far
  type,      \* the type documents are decoded with, NoType before inference
  rows,      \* the rows decoded so far
  outcome    \* "running", "ok", "error" or "panic"

vars == <<path, opts, sample, rest, merged, shape, type, rows, outcome>>

ASSUME ParametersAssumption ==
  /\ MaxSample \in Nat \ {0}
  /\ MaxRest \in Nat
  /\ Options \subseteq InferenceOptions
  /\ \A d \in Documents : d \in Values /\ d.kind = "object" /\ d.of = "object"

----------------------------------------------------------------------------
(* The top-level fields carried as Variant columns. *)
VariantFields ==
  IF path = "struct" /\ opts.heterogeneous = "variant"
  THEN {k \in DOMAIN shape.sub : shape.sub[k] = Conflict} ELSE {}

Without(d, names) ==
  [d EXCEPT !.sub = [k \in FieldNames |-> IF k \in names THEN Absent ELSE d.sub[k]]]

(* A document with the top-level fields in skip as they are. *)
NormalizeDoc(d, skip) ==
  [d EXCEPT !.sub = [k \in FieldNames |->
     IF k \in skip THEN d.sub[k] ELSE Normalize(d.sub[k], Part(shape, k))]]

NormalizedSample == {NormalizeDoc(sample[i], VariantFields) : i \in DOMAIN sample}

(* The schema that normalized documents ask for; documents are decoded     *)
(* with that of the sample.  In the struct path the named epoch field      *)
(* comes first, the transforms for the others, and the Variant columns at  *)
(* the end.                                                                *)
Inferred(docs) == InferType({Without(d, VariantFields) : d \in docs})

StructType(base, docs) ==
  Tree("Struct",
    [k \in FieldNames |->
       IF k \in VariantFields THEN Leaf("Variant")
       ELSE IF base.sub[k] = NoField THEN NoField
       ELSE IF opts.epoch THEN Leaf("Timestamp")
       ELSE Transform(opts, base.sub[k], At(docs, k))])

Schema(docs) ==
  IF path = "struct" THEN StructType(Inferred(docs), docs) ELSE Inferred(docs)

----------------------------------------------------------------------------
Init ==
  /\ path \in {"struct", "provider"}
  /\ opts \in Options
  /\ \E n \in 1 .. MaxSample : sample \in [1 .. n -> Documents]
  /\ \E n \in 0 .. MaxRest : rest \in [1 .. n -> Documents]
  /\ merged = 0
  /\ shape = Unknown
  /\ type = NoType
  /\ rows = <<>>
  /\ outcome = "running"

(* infer_doc_shape, one document of the sample. *)
Observe ==
  /\ merged < Len(sample)
  /\ shape' = Merge(shape, ShapeOf(sample[merged + 1]))
  /\ merged' = merged + 1
  /\ UNCHANGED <<path, opts, sample, rest, type, rows, outcome>>

(* The profile, which is taken whatever the options, looks at the first    *)
(* ten bytes of every text of the sample.                                  *)
ProfilePanics == path = "struct" /\ \E d \in NormalizedSample : Holds(d, "wide")

Infer ==
  /\ merged = Len(sample)
  /\ type = NoType
  /\ outcome = "running"
  /\ outcome' = CASE Inferred(NormalizedSample) = Failure -> "error"
                  [] Inferred(NormalizedSample) # Failure /\ ProfilePanics -> "panic"
                  [] OTHER -> outcome
  /\ type' = IF outcome' # "running" THEN type ELSE Schema(NormalizedSample)
  /\ UNCHANGED <<path, opts, sample, rest, merged, shape, rows>>

Prepared(d) ==
  IF path = "struct" THEN NormalizeDoc(d, VariantFields) ELSE Coerce(d, type)

(* Without a column the struct path has nothing to decode, and no row; in  *)
(* the provider path a container's documents have fields (id, at least),   *)
(* which the model may leave out.                                          *)
NoColumn == path = "struct" /\ \A k \in FieldNames : type.sub[k] = NoField

DecodeRowOrSkip ==   \* mutant: a row that fails is written all the same
  LET docs == sample \o rest
  IN  /\ type # NoType
      /\ outcome = "running"
      /\ ~NoColumn
      /\ Len(rows) < Len(docs)
      /\ rows' = Append(rows, Decode(Prepared(docs[Len(rows) + 1]), type))
      /\ UNCHANGED <<path, opts, sample, rest, merged, shape, type, outcome>>

(* One row; one that does not decode fails them all. *)
DecodeRow ==
  LET docs == sample \o rest
      row  == Decode(Prepared(docs[Len(rows) + 1]), type)
  IN  /\ type # NoType
      /\ outcome = "running"
      /\ ~NoColumn
      /\ Len(rows) < Len(docs)
      /\ IF row = Bad
         THEN outcome' = "error" /\ rows' = rows
         ELSE rows' = Append(rows, row) /\ outcome' = outcome
      /\ UNCHANGED <<path, opts, sample, rest, merged, shape, type>>

Finish ==
  /\ type # NoType
  /\ outcome = "running"
  /\ Len(rows) = Len(sample \o rest) \/ NoColumn
  /\ outcome' = "ok"
  /\ UNCHANGED <<path, opts, sample, rest, merged, shape, type, rows>>

Next == Observe \/ Infer \/ DecodeRow \/ Finish

Spec == Init /\ [][Next]_vars

----------------------------------------------------------------------------
(* Properties. *)

(* The state has its types, the schema is a Struct the whole sample was    *)
(* merged for, and every row has exactly its columns.                      *)
TypeOK ==
  /\ path \in {"struct", "provider"}
  /\ opts \in Options
  /\ sample \in Seq(Documents) /\ Len(sample) \in 1 .. MaxSample
  /\ rest \in Seq(Documents) /\ Len(rest) <= MaxRest
  /\ merged \in 0 .. Len(sample)
  /\ shape.tag \in {"Unknown", "Object"}
  /\ type # NoType => type.tag = "Struct" /\ merged = Len(sample)
  /\ Len(rows) <= Len(sample) + Len(rest)
  /\ \A i \in DOMAIN rows :
       /\ rows[i].kind = "object"
       /\ \A k \in FieldNames : rows[i].sub[k] = Absent <=> type.sub[k] = NoField
  /\ outcome \in {"running", "ok", "error", "panic"}

Observed == {sample[i] : i \in 1 .. merged}

(* normalize.rs:16-17 and :35: whatever the order of the documents and of  *)
(* the elements of their arrays, the merged shape is a conflict exactly    *)
(* where two of them disagree.                                             *)
ShapeIsWhereTheyAgree == shape = ShapeOfAll(Observed)

(* A document that would have made another shape or schema, had it been in *)
(* the sample.                                                             *)
Disagrees(d) ==
  \/ Merge(shape, ShapeOf(d)) # shape
  \/ Schema(NormalizedSample \cup {NormalizeDoc(d, VariantFields)}) # type

(* Whether sampled or not, a document fails a batch only where it          *)
(* disagrees with the sample (inference.rs:90, convert.rs:34), or where it *)
(* holds what the types refuse that the options asked for: numbers beyond  *)
(* the decimal's precision, texts with no more than the form of a date or  *)
(* time, and anything under an epoch field, whose type the user asserts.   *)
(* Inference itself accepts every normalized sample (normalize.rs:1-9).    *)
OnlyDisagreementFails ==
  outcome = "error" =>
    /\ type # NoType
    /\ LET d == (sample \o rest)[Len(rows) + 1]
       IN  \/ Disagrees(d)
           \/ path = "struct" /\ opts.epoch
           \/ path = "struct" /\ \E kind \in Refused(opts) : Holds(d, kind)

(* Every sampled document is a row that keeps all its values, but for the  *)
(* digits that the options give up; by default those that a double has no  *)
(* place for (inference.rs:34).                                            *)
Shorter == IF path = "struct" THEN Shortened(opts) ELSE {"long"}

SampledRowsKeepValues ==
  \A i \in DOMAIN rows : i <= Len(sample) => Keeps(Shorter, rows[i], sample[i])

(* Both paths agree on sampled documents: normalizing by the shape and     *)
(* coercing by the schema prepare the same document (normalize.rs:141-144).*)
PathsAgree ==
  type # NoType /\ VariantFields = {} =>
    \A i \in DOMAIN sample :
      NormalizeDoc(sample[i], {}) = Coerce(sample[i], Inferred(NormalizedSample))

(* inference.rs:14: with every knob off the struct path infers what plain  *)
(* inference does.                                                         *)
PlainWhenOff ==
  path = "struct" /\ opts = [number |-> Float64, infer_temporal |-> FALSE,
                             epoch |-> FALSE, heterogeneous |-> "string"] =>
    outcome # "panic" /\ (type # NoType => type = Inferred(NormalizedSample))
=============================================================================
