----------------------------- MODULE Pushdown ------------------------------
(***************************************************************************)
(* Planning one query of the datafusion dialect over one container: the    *)
(* Cosmos optimizer rule (pushdown.rs) folds an aggregate or a sort into   *)
(* the scan while DataFusion's own rules push filters and limits down the  *)
(* same plan, over and over until nothing changes.  Then the provider      *)
(* turns the scan into one Cosmos query (provider.rs, convert.rs).         *)
(*                                                                         *)
(* A plan is a sequence of operators, the outermost first, over a scan.    *)
(* The meaning of a plan is the set of answers it may give: SQL leaves the *)
(* order of rows open unless it is sorted, and which rows a LIMIT keeps.   *)
(* Rewriting may choose among the answers of the query, never add one.     *)
(*                                                                         *)
(* DataFusion is external: its rules are the rewrites that keep a plan's   *)
(* meaning as DataFusion understands it, taken in any order.               *)
(***************************************************************************)
EXTENDS Integers, Sequences, SequencesExt, FiniteSetsExt, FiniteSets

CONSTANTS
  Tables,          \* possible contents: sequences of the column n, 0 for null
  Largest,         \* the largest number in a table
  Configs,         \* possible PushdownConfigs
  Aggregates,      \* the aggregate calls a query may make
  SortKeys,        \* the ORDER BY lists a query may use
  Limits,          \* the <<skip, fetch>> pairs a query may use
  MaxOps,          \* bound: operators in a query
  LimitOverSort    \* "kept" or "dropped": see PushLimitIntoSort

None == -1         \* no fetch, no limit

AllAggregates == {"count_star", "count_col", "count_distinct", "avg", "avg_cast"}

(* Sort expressions: the numeric column n, a text column s, and an         *)
(* expression that is not a bare column.                                   *)
Keys == [col : {"n", "s", "expr"}, asc : BOOLEAN, nulls_first : BOOLEAN]

(* "pushable" is n >= 1, which predicate.rs translates; "local" is one it  *)
(* does not, a function of the text column.                                *)
Preds == {"pushable", "local"}

PushdownConfig ==
  [count : BOOLEAN, avg : BOOLEAN, sort : BOOLEAN, multi_sort : BOOLEAN]

ASSUME ParametersAssumption ==
  /\ Largest \in Nat
  /\ Tables \subseteq Seq(0 .. Largest)
  /\ Configs \subseteq PushdownConfig
  /\ Aggregates \subseteq AllAggregates
  /\ SortKeys \subseteq Seq(Keys) \ {<<>>}
  /\ Limits \subseteq Nat \X Nat
  /\ MaxOps \in Nat
  /\ LimitOverSort \in {"kept", "dropped"}

VARIABLES
  table,    \* the documents: row i has n = table[i] and a text that sorts as i
  config,   \* the statement's pushdown toggles
  query,    \* the plan SQL planning made, before any rewrite
  ops,      \* the operators of the current plan, the outermost first
  scan      \* its leaf

vars == <<table, config, query, ops, scan>>

----------------------------------------------------------------------------
(* Operators and scans. *)

Filter(p)   == [op |-> "filter", pred |-> p]
Limit(s, n) == [op |-> "limit", skip |-> s, fetch |-> n]
Sort(ks, n) == [op |-> "sort", keys |-> ks, fetch |-> n]
Agg(f)      == [op |-> "agg", fn |-> f]

RowOps == {Filter(p) : p \in Preds}
            \cup {Limit(l[1], l[2]) : l \in Limits}
            \cup {Sort(ks, None) : ks \in SortKeys}

(* The TableScan node.  DataFusion sees cols, filters and fetch.  The      *)
(* provider behind it holds keys and top (OrderBy) or, for a folded        *)
(* aggregate, agg (CosmosAggregateProvider).                               *)
BareScan == [cols |-> "some", filters |-> {}, fetch |-> None,
             keys |-> <<>>, top |-> None, agg |-> "none"]

MinFetch(a, b) == IF a = None \/ b < a THEN b ELSE a

----------------------------------------------------------------------------
(* The meaning of a plan.  An answer is one value, a fraction, <<0, 0>> for  *)
(* null; or it is rows, and which of them comes before which.              *)

Rows(S, b) == [kind |-> "rows", rows |-> S, before |-> b, value |-> <<0, 0>>]
Value(v)   == [kind |-> "value", rows |-> {}, before |-> {}, value |-> v]
Error      == [kind |-> "error", rows |-> {}, before |-> {}, value |-> <<0, 0>>]

Within(b, S) == b \cap (S \X S)

(* The orders that rows may come in, and all rows in every order. *)
OrdersOf(S) ==
  {b \in SUBSET (S \X S) :
     /\ \A i \in S : <<i, i>> \notin b
     /\ \A i, j \in S : i # j => <<i, j>> \in b \/ <<j, i>> \in b
     /\ \A i, j, k \in S : <<i, j>> \in b /\ <<j, k>> \in b => <<i, k>> \in b}

Listings ==
  UNION {{Rows(S, b) : b \in OrdersOf(S)} : S \in SUBSET UNION {DOMAIN t : t \in Tables}}

(* By the first rank in which two rows differ. *)
Before(ranks, i, j) ==
  \E m \in DOMAIN ranks :
    /\ ranks[m][i] < ranks[m][j]
    /\ \A l \in 1 .. m - 1 : ranks[l][i] = ranks[l][j]

Orderings(S, ranks) ==
  {a \in Listings :
     a.rows = S /\ \A i, j \in S : Before(ranks, i, j) => <<i, j>> \in a.before}

(* Where a row stands under one key: nulls before or after everything,     *)
(* whatever the direction.                                                 *)
Rank(k, i) ==
  LET v == IF k.col = "n" THEN table[i] ELSE IF k.col = "s" THEN i ELSE -table[i]
  IN  IF k.col # "s" /\ table[i] = 0
      THEN IF k.nulls_first THEN -Largest - 1 ELSE Largest + 1
      ELSE IF k.asc THEN v ELSE -v

Ranks(ks) == [m \in DOMAIN ks |-> [i \in DOMAIN table |-> Rank(ks[m], i)]]

(* Cosmos orders null as the smallest value.  How it orders text is not    *)
(* known here, so all texts rank alike and any order of them may come out. *)
CosmosRank(k, i) ==
  LET v == IF k.col = "n" THEN table[i] ELSE 0
  IN  IF k.asc THEN v ELSE -v

CosmosRanks(ks) == [m \in DOMAIN ks |-> [i \in DOMAIN table |-> CosmosRank(ks[m], i)]]

Passes(p, i) == IF p = "pushable" THEN table[i] >= 1 ELSE i # 2

Kept(a, p) ==
  LET S == {i \in a.rows : Passes(p, i)} IN Rows(S, Within(a.before, S))

(* The rows of a from place skip on, at most n of them. *)
Window(a, skip, n) ==
  LET place(i) == Cardinality({j \in a.rows : <<j, i>> \in a.before})
      S == {i \in a.rows : skip <= place(i) /\ (n # None => place(i) < skip + n)}
  IN  Rows(S, Within(a.before, S))

NonNull(S) == {i \in S : table[i] # 0}

Average(S, values) ==
  IF S = {} THEN <<0, 0>> ELSE <<MapThenSumSet(LAMBDA i : values[i], S), Cardinality(S)>>

(* n counts halves, so CAST(n AS BIGINT) drops the odd one. *)
Whole(v) == 2 * (v \div 2)

(* DataFusion's aggregates skip nulls. *)
Aggregate(f, S) ==
  CASE f = "count_star"     -> <<Cardinality(S), 1>>
    [] f = "count_col"      -> <<Cardinality(NonNull(S)), 1>>
    [] f = "count_distinct" -> <<Cardinality({table[i] : i \in NonNull(S)}), 1>>
    [] f = "avg"            -> Average(NonNull(S), table)
    [] f = "avg_cast"       -> Average(NonNull(S), [i \in S |-> Whole(table[i])])

(* What an operator computes locally from one answer of its input. *)
Apply(o, a) ==
  IF a = Error THEN {Error} ELSE
  CASE o.op = "filter" -> {Kept(a, o.pred)}
    [] o.op = "limit"  -> {Window(a, o.skip, o.fetch)}
    [] o.op = "agg"    -> {Value(Aggregate(o.fn, a.rows))}
    [] o.op = "sort"   -> {Window(l, 0, o.fetch) : l \in Orderings(a.rows, Ranks(o.keys))}

(* What the innermost operators compute, of the answers of the scan. *)
Inside(os, A) ==
  LET inside[n \in 0 .. Len(os)] ==
        IF n = 0 THEN A
        ELSE UNION {Apply(os[Len(os) - n + 1], a) : a \in inside[n - 1]}
  IN  inside

Above(os, A) == Inside(os, A)[Len(os)]

----------------------------------------------------------------------------
(* The query a scan sends, and what the service answers. *)

Selected(sc) == {i \in DOMAIN table : \A p \in sc.filters : Passes(p, i)}

(* SELECT VALUE COUNT(1) or AVG(c["n"]) with the pushed WHERE; what the    *)
(* service's AVG makes of a null is open (pushdown.rs:19-22).              *)
ScalarAnswers(sc) ==
  IF sc.agg = "count_star" THEN {Value(<<Cardinality(Selected(sc)), 1>>)}
  ELSE {Value(Average(NonNull(Selected(sc)), table))}
         \cup {Value(<<0, 0>>) : i \in {j \in Selected(sc) : table[j] = 0}}

(* build_scan_sql: SELECT cols WHERE filters ORDER BY keys LIMIT, where an *)
(* OrderBy's top-N replaces the scan's own limit (provider.rs:132-135).    *)
(* With no column to select the text is "SELECT  FROM c", a syntax error.  *)
DocsAnswers(sc) ==
  LET limit == IF sc.keys # <<>> /\ sc.top # None THEN sc.top ELSE sc.fetch
  IN  IF sc.cols = "none" THEN {Error}
      ELSE {Window(l, 0, limit) : l \in Orderings(Selected(sc), CosmosRanks(sc.keys))}

ScanAnswers(sc) == IF sc.agg # "none" THEN ScalarAnswers(sc) ELSE DocsAnswers(sc)

Answers(os, sc) == Above(os, ScanAnswers(sc))
----------------------------------------------------------------------------
(* DataFusion's rules. *)

Init ==
  /\ table \in Tables
  /\ config \in Configs
  /\ \E os \in BoundedSeq(RowOps, MaxOps) :
       query \in {os} \cup {<<Agg(f)>> \o os : f \in Aggregates}
  /\ ops = query
  /\ scan = BareScan

Inner == ops[Len(ops)]

Rewrite(os, sc) == /\ ops' = os
                   /\ scan' = sc
                   /\ UNCHANGED <<table, config, query>>

(* A filter moves below a sort, unless the sort keeps only some rows. *)
FilterMeetsSort(j) ==
  /\ ops[j].op = "filter"
  /\ ops[j + 1].op = "sort"
  /\ ops[j + 1].fetch = None

PushFilterBelowSort(j) ==
  /\ FilterMeetsSort(j)
  /\ Rewrite([ops EXCEPT ![j] = ops[j + 1], ![j + 1] = ops[j]], scan)

(* supports_filters_pushdown: the provider takes a filter as Exact when it *)
(* translates.  CosmosTableProvider answers alike with and without OrderBy.*)
SupportsFilter(p) == p = "pushable"

FilterMeetsScan ==
  /\ ops # <<>>
  /\ Inner.op = "filter"
  /\ scan.fetch = None
  /\ SupportsFilter(Inner.pred)

PushFilterIntoScan ==
  /\ FilterMeetsScan
  /\ Rewrite(Front(ops), [scan EXCEPT !.filters = @ \cup {Inner.pred}])

(* A limit over a sort becomes the sort's fetch.  The limit above it is    *)
(* then redundant unless it skips rows: it may be kept or dropped, and     *)
(* provider.rs:129-131 counts on a top-N's limit not reaching the scan.    *)
Reach(o) == o.skip + o.fetch

Stays(j) == LimitOverSort = "kept" \/ ops[j].skip > 0

LimitMeetsSort(j) ==
  /\ ops[j].op = "limit"
  /\ ops[j + 1].op = "sort"
  /\ Stays(j) => ops[j + 1].fetch # MinFetch(ops[j + 1].fetch, Reach(ops[j]))

PushLimitIntoSort(j) ==
  LET sorted == [ops EXCEPT ![j + 1].fetch = MinFetch(@, Reach(ops[j]))]
  IN  /\ LimitMeetsSort(j)
      /\ Rewrite(IF Stays(j) THEN sorted ELSE RemoveAt(sorted, j), scan)

(* A limit over a scan becomes the scan's fetch, and stays above it.       *)
LimitMeetsScan ==
  /\ ops # <<>>
  /\ Inner.op = "limit"
  /\ scan.fetch # MinFetch(scan.fetch, Reach(Inner))

PushLimitIntoScan ==
  /\ LimitMeetsScan
  /\ Rewrite(ops, [scan EXCEPT !.fetch = MinFetch(@, Reach(Inner))])

(* COUNT of rows with nothing below it that reads a column: the scan is    *)
(* asked for no column at all.                                             *)
ReadsNoColumn ==
  /\ ops # <<>>
  /\ ops[1] = Agg("count_star")
  /\ \A j \in 2 .. Len(ops) : ops[j].op = "limit"
  /\ scan.cols = "some"

TrimColumns ==
  /\ ReadsNoColumn
  /\ Rewrite(ops, [scan EXCEPT !.cols = "none"])

----------------------------------------------------------------------------
(* The Cosmos rule (pushdown.rs), which looks at one node and its input.   *)

(* A plausible bug: any COUNT is folded as it is. *)
ValueExpressionAnyCount(f) ==
  CASE f \in {"count_star", "count_col", "count_distinct"} /\ config.count -> f
    [] f \in {"avg", "avg_cast"} /\ config.avg -> "avg"
    [] OTHER -> "none"

(* value_expression: which aggregates have a Cosmos VALUE expression.  The *)
(* argument of AVG is peeled of every cast, so avg_cast is avg there.      *)
ValueExpression(f) ==
  CASE f = "count_star" /\ config.count -> "count_star"
    [] f \in {"avg", "avg_cast"} /\ config.avg -> "avg"
    [] OTHER -> "none"

(* try_fold_aggregate: an aggregate directly over the scan of a container, *)
(* with no fetch on the scan.  The new scan has the WHERE and nothing else.*)
AggregateFolds ==
  /\ ops # <<>>
  /\ Inner.op = "agg"
  /\ scan.fetch = None
  /\ scan.agg = "none"
  /\ ValueExpression(Inner.fn) # "none"
  /\ \A p \in scan.filters : SupportsFilter(p)

FoldAggregate ==
  /\ AggregateFolds
  /\ Rewrite(Front(ops), [BareScan EXCEPT !.filters = scan.filters,
                                          !.agg = ValueExpression(Inner.fn)])

(* A plausible bug: the placement of nulls is not looked at. *)
CosmosOrdersNonNull(k) == k.col = "n"

(* Cosmos and DataFusion order the key alike: nulls smallest, and a column *)
(* whose type is numeric (pushdown.rs:224-236).                            *)
CosmosOrders(k) == k.nulls_first = k.asc /\ k.col = "n"

(* A plausible bug: a scan that has its filters already is left alone. *)
UnfilteredSortFolds ==
  /\ ops # <<>>
  /\ Inner.op = "sort"
  /\ config.sort
  /\ Len(Inner.keys) > 1 => config.multi_sort
  /\ scan.fetch = None
  /\ scan.agg = "none"
  /\ scan.filters = {}
  /\ \A j \in DOMAIN Inner.keys : CosmosOrders(Inner.keys[j])

(* try_fold_sort: a sort directly over the scan of a container without a   *)
(* fetch goes into the provider, with the sort's own fetch as top-N.       *)
SortFolds ==
  /\ ops # <<>>
  /\ Inner.op = "sort"
  /\ config.sort
  /\ Len(Inner.keys) > 1 => config.multi_sort
  /\ scan.fetch = None
  /\ scan.agg = "none"
  /\ \A j \in DOMAIN Inner.keys : CosmosOrders(Inner.keys[j])

(* A plausible bug: the limit over a sort is folded into the scan with it. *)
FoldSortAndLimit ==
  /\ SortFolds
  /\ Rewrite(IF Inner.fetch # None THEN Front(Front(ops)) ELSE Front(ops),
             [scan EXCEPT !.keys = Inner.keys, !.top = Inner.fetch])

FoldSort ==
  /\ SortFolds
  /\ Rewrite(Front(ops), [scan EXCEPT !.keys = Inner.keys, !.top = Inner.fetch])

Next ==
  \/ \E j \in 1 .. Len(ops) - 1 : PushFilterBelowSort(j) \/ PushLimitIntoSort(j)
  \/ PushFilterIntoScan
  \/ PushLimitIntoScan
  \/ TrimColumns
  \/ FoldAggregate
  \/ FoldSort

Spec == Init /\ [][Next]_vars

----------------------------------------------------------------------------
(* Properties. *)

TypeOK ==
  /\ table \in Tables
  /\ config \in Configs
  /\ ops \in Seq([op : {"filter"}, pred : Preds]
                  \cup [op : {"limit"}, skip : Nat, fetch : Nat]
                  \cup [op : {"sort"}, keys : SortKeys, fetch : Nat \cup {None}]
                  \cup [op : {"agg"}, fn : Aggregates])
  /\ scan \in [cols : {"some", "none"}, filters : SUBSET Preds,
               fetch : Nat \cup {None}, keys : SortKeys \cup {<<>>},
               top : Nat \cup {None}, agg : {"none", "count_star", "avg"}]

(* The caveat pushdown.rs:19-22 states: AVG folded over a null. *)
AvgOverNull ==
  scan.agg = "avg" /\ \E i \in Selected(scan) : table[i] = 0

(* Whatever was folded or pushed, and in whichever order the rules ran, a  *)
(* plan that answers gives an answer the query may have: the same rows, in *)
(* the order asked for, the same top-N, the same count.                    *)
AnswersAreRight ==
  ~AvgOverNull =>
     Answers(ops, scan) \ {Error} \subseteq Answers(query, BareScan)

(* A sort over filters Cosmos evaluates, on keys it orders alike and the   *)
(* statement allows, reaches the service whichever rules ran first: the    *)
(* fold is lost neither to a filter or a limit that moved before it nor to *)
(* one that moved after it (pushdown.rs:197-254).                          *)
Foldable(j) ==
  /\ query[j].op = "sort"
  /\ config.sort
  /\ Len(query[j].keys) > 1 => config.multi_sort
  /\ \A m \in DOMAIN query[j].keys : CosmosOrders(query[j].keys[m])
  /\ \A m \in j + 1 .. Len(query) : query[m].op = "filter"
  /\ \A m \in DOMAIN query :
       query[m].op = "filter" => SupportsFilter(query[m].pred)

(* No rule has anything to do. *)
Settled ==
  /\ \A j \in 1 .. Len(ops) - 1 : ~FilterMeetsSort(j) /\ ~LimitMeetsSort(j)
  /\ ~FilterMeetsScan /\ ~LimitMeetsScan /\ ~ReadsNoColumn
  /\ ~AggregateFolds /\ ~SortFolds

NoFoldIsMissed ==
  Settled /\ (\E j \in DOMAIN query : Foldable(j)) => scan.keys # <<>> \/ scan.agg # "none"

(* A top-N is the provider's secret: DataFusion sees a scan without a fetch *)
(* below a limit (pushdown.rs:243-252).  As long as that limit stays, no   *)
(* rule changes what the top-N is taken of: no filter, no aggregate and no *)
(* other order reaches the scan any more, whatever the rest of the plan.   *)
TopNIsFinal ==
  [][LimitOverSort = "kept" /\ scan.top # None =>
       /\ scan'.top = scan.top /\ scan'.keys = scan.keys
       /\ scan'.filters = scan.filters /\ scan'.agg = scan.agg]_vars

(* AVG folded over numbers alone is the average DataFusion computes:       *)
(* pushdown.rs:183-185 has it that the cast under it only widens.          *)
FoldedAverageIsRight ==
  scan.agg = "avg" /\ ~AvgOverNull =>
     Answers(ops, scan) \subseteq Answers(query, BareScan)

(* pushdown.rs:4-5: a query that is not folded stays in DataFusion, the    *)
(* correct path.  So every plan answers.                                   *)
EveryPlanAnswers == Error \notin Answers(ops, scan)
=============================================================================
