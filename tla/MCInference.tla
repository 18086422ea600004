---------------------------- MODULE MCInference -----------------------------
(* Inference over documents of one field that holds every kind of scalar,  *)
(* an object or an array of them.                                          *)
EXTENDS Inference

Opt(n, t, e, h) ==
  [number |-> n, infer_temporal |-> t, epoch |-> e, heterogeneous |-> h]

Decimal(p, s) == [precision |-> p, scale |-> s]

Plain == Opt(Float64, FALSE, FALSE, "string")
MCOptions ==
  {Plain, Opt(Decimal(3, 1), TRUE, FALSE, "string"), Opt(Decimal(38, 9), TRUE, FALSE, "variant"),
   Opt(Float64, FALSE, TRUE, "variant")}
OnlyPlain == {Plain}

Nested(S) == {Object(<<>>), Array(<<>>)}
  \cup {Object([a |-> v]) : v \in S} \cup {Array(<<v>>) : v \in S}

MCValues ==
  {Scalar(k) : k \in {"null", "int", "long", "float", "fine", "huge", "str", "date",
                      "no_date", "fine_datetime", "no_datetime"}}
  \cup Nested({Scalar(k) : k \in {"null", "int", "fine", "str"}})
  \cup {Array(<<Scalar("int"), Scalar("str")>>), Array(<<Object([a |-> Scalar("int")])>>)}

DocumentsWith(S) == {Object(<<>>)} \cup {Object([x |-> v]) : v \in S}
MCDocuments == DocumentsWith(MCValues)

FewValues == {Scalar("int"), Scalar("str")}
WideDocuments == DocumentsWith(FewValues \cup {Scalar("wide")})

MCFieldNames == {"x", "a"}
=============================================================================
