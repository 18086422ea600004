---------------------------- MODULE MCMetadata ----------------------------
(* Metadata on two databases of two containers, with all short patterns as *)
(* the filter of containers and some at the other levels.                  *)
EXTENDS Metadata

d == <<"d">>
da == <<"d", "a">>
a == <<"a">>
ab == <<"a", "%">>

MCDatabases == {d, da}
MCContainers == {a, ab}
MCNameOrder == <<a, ab, d, da>>
MCFieldSets == {{}, {a, ab}}

MCStart ==
  [k \in Keys |-> CASE k = <<d, a>> -> {a, ab}
                    [] k = <<d, ab>> -> {a, ab}
                    [] k = <<da, a>> -> {a, ab}
                    [] OTHER -> Absent]

Call(depth, catalog, schema, table, types, column) ==
  [depth |-> depth, catalog |-> catalog, schema |-> schema, table |-> table,
   types |-> types, column |-> column]

(* All patterns of up to two characters, and those of three with a         *)
(* backslash in the middle; none that ends in a backslash that escapes     *)
(* nothing, of which metadata.rs:190 says nothing.                         *)
Patterns ==
  LET Special == {"a", "%", "_"}
  IN  {<<>>} \cup {<<x>> : x \in Special}
        \cup {<<x, y>> : x \in Special \cup {"\\"}, y \in Special}
        \cup {<<"\\", "\\">>}
        \cup {<<x, "\\", y>> : x \in Special, y \in {"%", "_"}}
        \cup {<<"%", "a", "_">>, <<"_", "%", "%">>}

CONSTANTS r1, r2

Whole == Call("columns", None, None, None, None, None)

MCCalls ==
  [r \in Readers |->
     IF r = r1
     THEN {Call("tables", d, None, p, None, None) : p \in Patterns}
            \cup {Whole, Call("catalogs", <<"%", "a">>, None, None, None, None),
                  Call("schemas", None, <<"%">>, None, None, None),
                  Call("tables", None, <<"_">>, None, None, None),
                  Call("tables", None, None, None, {"view"}, None)}
     ELSE {Call("columns", d, <<>>, a, {"table", "view"}, <<"a", "_">>)}]

(* A bound: what lists no columns is tried on the account as it was at     *)
(* first, and while nobody else has begun to list.                         *)
FiltersAlone ==
  reader[r1].call.depth \in {"catalogs", "schemas", "tables"} =>
    changes = 0 /\ reader[r2].step = "idle"
=============================================================================
