---------------------------- MODULE MCPushdown -----------------------------
(* Pushdown on small queries: up to three operators under an aggregate,    *)
(* tables of three rows with ties and nulls in different places.           *)
EXTENDS Pushdown

Key(c, a, nf) == [col |-> c, asc |-> a, nulls_first |-> nf]

(* Columns with a null among two values, and with a null and a tie. *)
MCTables == {<<2, 0, 1>>, <<1, 0, 1>>}
NoNulls  == {<<1, 2>>, <<1, 1>>}

Default == [count |-> TRUE, avg |-> FALSE, sort |-> TRUE, multi_sort |-> FALSE]
AllOn   == [count |-> TRUE, avg |-> TRUE, sort |-> TRUE, multi_sort |-> TRUE]
AllOff  == [count |-> FALSE, avg |-> FALSE, sort |-> FALSE, multi_sort |-> FALSE]
MCConfigs == {Default, AllOn}
OnlyDefault == {Default}
OnlyAllOn == {AllOn}
OffConfigs == {AllOff}

MCAggregates == {"count_star", "count_col", "count_distinct", "avg"}
CastAggregates == {"avg_cast"}

(* Both placements of nulls in both directions, a text key, a computed     *)
(* key, and two keys.                                                      *)
MCSortKeys ==
  {<<Key("n", TRUE, TRUE)>>, <<Key("n", FALSE, FALSE)>>, <<Key("n", TRUE, FALSE)>>,
   <<Key("n", FALSE, TRUE)>>, <<Key("s", TRUE, TRUE)>>, <<Key("expr", TRUE, TRUE)>>,
   <<Key("n", TRUE, TRUE), Key("n", FALSE, FALSE)>>}
OneSortKey == {<<Key("n", TRUE, TRUE)>>}

MCLimits == {<<0, 2>>, <<1, 1>>}
=============================================================================
