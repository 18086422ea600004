---------------------------- MODULE MCPredicate ----------------------------
(* Predicate with two values, so that a comparison with one can come out   *)
(* either way, and every quirk that treats the operators uniformly beside  *)
(* the one predicate.rs:19-22 reports.                                     *)
EXTENDS Predicate

Uniform(t) == [op \in {"=", "!=", "range", "in"} |-> t]
Reported == [op \in {"=", "!=", "range", "in"} |->
               CASE op = "!=" -> "T" [] op = "range" -> "U" [] OTHER -> "F"]
MCQuirks == {Uniform(t) : t \in Truth} \cup {Reported}
OnlyReported == {Reported}
=============================================================================
