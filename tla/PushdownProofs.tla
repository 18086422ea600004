--------------------------- MODULE PushdownProofs ---------------------------
(* Proofs about Pushdown: its types, why a top-N that only the provider    *)
(* knows of is never applied to other rows than its query meant, why no    *)
(* rule that comes first keeps a sort from being folded, and, in the       *)
(* second part, that whatever rules run in whatever order, a plan gives    *)
(* only answers that its query may have.                                   *)
EXTENDS Pushdown, SequenceTheorems, FiniteSetTheorems, Numbers

(* The operators of a plan. *)
Operators == [op : {"filter"}, pred : Preds]
               \cup [op : {"limit"}, skip : Nat, fetch : Nat]
               \cup [op : {"sort"}, keys : SortKeys, fetch : Nat \cup {None}]
               \cup [op : {"agg"}, fn : Aggregates]

Scans == [cols : {"some", "none"}, filters : SUBSET Preds,
          fetch : Nat \cup {None}, keys : SortKeys \cup {<<>>},
          top : Nat \cup {None}, agg : {"none", "count_star", "avg"}]

(* The operator at position j of a plan is a limit that covers n.          *)
LimitAt(os, j, n) ==
  /\ j \in DOMAIN os
  /\ os[j].op = "limit"
  /\ os[j].skip + os[j].fetch = n

(* Every fetch that came to be by merging a limit into a sort has that     *)
(* limit right above it: as the sort's fetch, and as the provider's top-N  *)
(* once the sort is folded.                                                *)
FetchUnderLimit(os, sc) ==
  /\ \A j \in DOMAIN os :
       os[j].op = "sort" /\ os[j].fetch # None => LimitAt(os, j - 1, os[j].fetch)
  /\ sc.top # None => LimitAt(os, Len(os), sc.top)

IInv == TypeOK /\ (LimitOverSort = "kept" => FetchUnderLimit(ops, scan))
-----------------------------------------------------------------------------
(* Sequences. *)
LEMMA FrontFacts ==
  ASSUME NEW S, NEW s \in Seq(S), s # <<>>
  PROVE  /\ Front(s) \in Seq(S)
         /\ Len(Front(s)) = Len(s) - 1
         /\ \A i \in 1 .. Len(s) - 1 : Front(s)[i] = s[i]
         /\ Len(s) \in DOMAIN s /\ s[Len(s)] \in S
<1>1. Len(s) \in Nat /\ Len(s) # 0 /\ DOMAIN s = 1 .. Len(s)
  OBVIOUS
<1>2. Len(s) \in DOMAIN s /\ s[Len(s)] \in S
  BY <1>1
<1>3. Front(s) = SubSeq(s, 1, Len(s) - 1)
  BY DEF Front
<1>4. Len(Front(s)) = Len(s) - 1
  BY <1>1, <1>3
<1>5. Front(s) \in Seq(S)
  BY <1>1, <1>3
<1>6. \A i \in 1 .. Len(s) - 1 : Front(s)[i] = s[i]
  BY <1>1, <1>3
<1> QED
  BY <1>2, <1>4, <1>5, <1>6

LEMMA RemoveAtFacts ==
  ASSUME NEW S, NEW s \in Seq(S), NEW j \in 1 .. Len(s)
  PROVE  /\ RemoveAt(s, j) \in Seq(S)
         /\ Len(RemoveAt(s, j)) = Len(s) - 1
         /\ \A m \in 1 .. Len(s) - 1 : RemoveAt(s, j)[m] = s[IF m < j THEN m ELSE m + 1]
<1> DEFINE left == SubSeq(s, 1, j - 1)
           right == SubSeq(s, j + 1, Len(s))
<1>1. /\ left \in Seq(S) /\ Len(left) = j - 1
      /\ \A m \in 1 .. j - 1 : left[m] = s[m]
  OBVIOUS
<1>2. /\ right \in Seq(S) /\ Len(right) = Len(s) - j
      /\ \A m \in 1 .. Len(s) - j : right[m] = s[m + j]
  OBVIOUS
<1> HIDE DEF left, right
<1>3. RemoveAt(s, j) = left \o right
  BY DEF RemoveAt, left, right
<1>4. /\ left \o right \in Seq(S)
      /\ Len(left \o right) = Len(left) + Len(right)
      /\ \A m \in 1 .. Len(left) + Len(right) :
           (left \o right)[m] = IF m <= Len(left) THEN left[m] ELSE right[m - Len(left)]
  BY <1>1, <1>2, ConcatProperties
<1> DEFINE both == left \o right
<1> HIDE DEF both
<1>5. Len(both) = Len(s) - 1 /\ Len(s) \in Nat
  BY <1>1, <1>2, <1>4 DEF both
<1>6. ASSUME NEW m \in 1 .. Len(s) - 1
      PROVE  both[m] = s[IF m < j THEN m ELSE m + 1]
  <2>0. both[m] = IF m <= j - 1 THEN left[m] ELSE right[m - (j - 1)]
    BY <1>1, <1>2, <1>4, <1>5 DEF both
  <2>1. CASE m < j
    BY <1>1, <2>0, <2>1
  <2>2. CASE m >= j
    <3>1. m - (j - 1) \in 1 .. Len(s) - j /\ m - (j - 1) + j = m + 1
      BY <1>5, <2>2
    <3>2. right[m - (j - 1)] = s[m + 1]
      BY <1>2, <3>1
    <3> QED
      BY <2>0, <2>2, <3>2
  <2> QED
    BY <2>1, <2>2
<1> QED
  BY <1>3, <1>4, <1>5, <1>6 DEF both

LEMMA TypeParts ==
  TypeOK <=> /\ table \in Tables /\ config \in Configs
             /\ ops \in Seq(Operators) /\ scan \in Scans
BY DEF TypeOK, Operators, Scans

(* None is no number of rows. *)
LEMMA NoneIsNoFetch == None \notin Nat
BY DEF None
-----------------------------------------------------------------------------
LEMMA RowOpsAreOperators == RowOps \subseteq Operators
BY ParametersAssumption DEF RowOps, Operators, Filter, Limit, Sort

LEMMA BareScanIsScan == BareScan \in Scans
BY DEF BareScan, Scans

LEMMA QueryType ==
  ASSUME NEW os \in BoundedSeq(RowOps, MaxOps),
         NEW q \in {os} \cup {<<Agg(f)>> \o os : f \in Aggregates}
  PROVE  q \in Seq(Operators)
<1>1. os \in Seq(RowOps)
  BY ParametersAssumption DEF BoundedSeq, SeqOf
<1>2. os \in Seq(Operators)
  BY <1>1, RowOpsAreOperators
<1>3. ASSUME NEW f \in Aggregates PROVE <<Agg(f)>> \o os \in Seq(Operators)
  <2>1. Agg(f) \in Operators
    BY DEF Agg, Operators
  <2> QED
    BY <2>1, <1>2
<1> QED
  BY <1>2, <1>3

(* Before any rule has run no sort has a fetch. *)
LEMMA QueryHasNoFetch ==
  ASSUME NEW os \in BoundedSeq(RowOps, MaxOps),
         NEW q \in {os} \cup {<<Agg(f)>> \o os : f \in Aggregates},
         NEW j \in DOMAIN q, q[j].op = "sort"
  PROVE  q[j].fetch = None
<1>1. os \in Seq(RowOps)
  BY ParametersAssumption DEF BoundedSeq, SeqOf
<1>2. \A o \in RowOps : o.op = "sort" => o.fetch = None
  BY DEF RowOps, Filter, Limit, Sort
<1>3. CASE q = os
  BY <1>1, <1>2, <1>3
<1>4. ASSUME NEW f \in Aggregates, q = <<Agg(f)>> \o os
      PROVE  q[j].fetch = None
  <2>1. j = 1 => q[j].op = "agg"
    BY <1>1, <1>4 DEF Agg
  <2>2. j # 1 => j - 1 \in DOMAIN os /\ q[j] = os[j - 1]
    BY <1>1, <1>4
  <2> QED
    BY <2>1, <2>2, <1>1, <1>2
<1> QED
  BY <1>3, <1>4

LEMMA InitInv == Init => IInv
<1> SUFFICES ASSUME Init PROVE IInv
  OBVIOUS
<1>1. PICK os \in BoundedSeq(RowOps, MaxOps) :
        query \in {os} \cup {<<Agg(f)>> \o os : f \in Aggregates}
  BY DEF Init
<1>2. ops \in Seq(Operators)
  BY <1>1, QueryType DEF Init
<1>3. TypeOK
  BY <1>2, BareScanIsScan, TypeParts DEF Init
<1>4. \A j \in DOMAIN ops : ops[j].op = "sort" => ops[j].fetch = None
  BY <1>1, QueryHasNoFetch DEF Init
<1>5. scan.top = None
  BY DEF Init, BareScan
<1> QED
  BY <1>3, <1>4, <1>5 DEF IInv, FetchUnderLimit
-----------------------------------------------------------------------------
(* DataFusion's rules. *)
LEMMA FilterBelowSortStep ==
  ASSUME IInv, NEW j \in 1 .. Len(ops) - 1, PushFilterBelowSort(j)
  PROVE  IInv'
<1>1. /\ ops \in Seq(Operators) /\ scan \in Scans
      /\ ops[j].op = "filter" /\ ops[j + 1].op = "sort" /\ ops[j + 1].fetch = None
      /\ ops' = [ops EXCEPT ![j] = ops[j + 1], ![j + 1] = ops[j]]
      /\ UNCHANGED <<scan, table, config>>
  BY TypeParts DEF IInv, PushFilterBelowSort, FilterMeetsSort, Rewrite
<1>2. j \in DOMAIN ops /\ j + 1 \in DOMAIN ops /\ Len(ops) \in Nat
  BY <1>1
<1>3. ops' \in Seq(Operators) /\ Len(ops') = Len(ops) /\ DOMAIN ops' = DOMAIN ops
  BY <1>1, <1>2
<1>4. TypeOK'
  BY <1>1, <1>3, TypeParts DEF IInv, TypeOK, Operators, Scans
<1>5. ASSUME LimitOverSort = "kept" PROVE FetchUnderLimit(ops, scan)'
  <2>1. FetchUnderLimit(ops, scan)
    BY <1>5 DEF IInv
  <2>2. /\ ops'[j] = ops[j + 1] /\ ops'[j + 1] = ops[j]
        /\ \A i \in DOMAIN ops \ {j, j + 1} : ops'[i] = ops[i]
    BY <1>1, <1>2
  <2>3. ASSUME NEW n, NEW i, LimitAt(ops, i, n) PROVE LimitAt(ops', i, n)
    BY <2>2, <2>3, <1>1, <1>3 DEF LimitAt
  <2>4. ASSUME NEW i \in DOMAIN ops', ops'[i].op = "sort", ops'[i].fetch # None
        PROVE  LimitAt(ops', i - 1, ops'[i].fetch)
    BY <2>1, <2>2, <2>3, <2>4, <1>1, <1>3 DEF FetchUnderLimit
  <2>5. scan'.top # None => LimitAt(ops', Len(ops'), scan'.top)
    BY <2>1, <2>3, <1>1, <1>3 DEF FetchUnderLimit
  <2> QED
    BY <2>4, <2>5 DEF FetchUnderLimit
<1> QED
  BY <1>4, <1>5 DEF IInv, FetchUnderLimit, LimitAt

LEMMA InnerParts ==
  ASSUME IInv, ops # <<>>
  PROVE  /\ Inner \in Operators /\ Inner = ops[Len(ops)]
         /\ Front(ops) \in Seq(Operators)
         /\ Len(Front(ops)) = Len(ops) - 1
         /\ \A i \in DOMAIN Front(ops) : i \in DOMAIN ops /\ Front(ops)[i] = ops[i]
<1>1. ops \in Seq(Operators)
  BY TypeParts DEF IInv
<1> QED
  BY <1>1, FrontFacts DEF Inner

(* The innermost operator goes and what it leaves above keeps its limits. *)
LEMMA FrontKeeps ==
  ASSUME IInv, LimitOverSort = "kept", ops # <<>>,
         NEW sc, sc.top # None => LimitAt(Front(ops), Len(Front(ops)), sc.top)
  PROVE  FetchUnderLimit(Front(ops), sc)
<1>1. FetchUnderLimit(ops, scan) /\ ops \in Seq(Operators)
  BY TypeParts DEF IInv
<1>2. ASSUME NEW j \in DOMAIN Front(ops), Front(ops)[j].op = "sort", Front(ops)[j].fetch # None
      PROVE  LimitAt(Front(ops), j - 1, Front(ops)[j].fetch)
  <2>1. j \in DOMAIN ops /\ Front(ops)[j] = ops[j]
    BY InnerParts
  <2>2. LimitAt(ops, j - 1, ops[j].fetch)
    BY <1>1, <1>2, <2>1 DEF FetchUnderLimit
  <2>3. j - 1 \in DOMAIN Front(ops)
    BY <1>1, <2>2, InnerParts DEF LimitAt
  <2> QED
    BY <2>1, <2>2, <2>3, InnerParts DEF LimitAt
<1> QED
  BY <1>2 DEF FetchUnderLimit

LEMMA StepInv ==
  ASSUME IInv, ops' \in Seq(Operators), scan' \in Scans, UNCHANGED <<table, config>>,
         LimitOverSort = "kept" => FetchUnderLimit(ops', scan')
  PROVE  IInv'
<1>1. TypeOK'
  BY DEF IInv, TypeOK, Operators, Scans
<1> QED
  BY <1>1 DEF IInv, FetchUnderLimit, LimitAt

LEMMA FilterIntoScanStep ==
  ASSUME IInv, PushFilterIntoScan
  PROVE  IInv'
<1>1. /\ ops # <<>> /\ Inner.op = "filter" /\ scan \in Scans
      /\ ops' = Front(ops) /\ UNCHANGED <<table, config>>
      /\ scan' = [scan EXCEPT !.filters = @ \cup {Inner.pred}]
  BY TypeParts DEF IInv, PushFilterIntoScan, FilterMeetsScan, Rewrite
<1>2. Inner.pred \in Preds
  BY <1>1, InnerParts DEF Operators
<1>3. scan' \in Scans /\ scan'.top = scan.top
  BY <1>1, <1>2 DEF Scans
<1>4. ASSUME LimitOverSort = "kept" PROVE FetchUnderLimit(ops', scan')
  <2>1. scan.top = None
    BY <1>1, <1>4, InnerParts DEF IInv, FetchUnderLimit, LimitAt
  <2> QED
    BY <2>1, <1>1, <1>3, <1>4, FrontKeeps
<1> QED
  BY <1>1, <1>3, <1>4, InnerParts, StepInv

LEMMA MinFetchType ==
  ASSUME NEW a \in Nat \cup {None}, NEW b \in Nat
  PROVE  MinFetch(a, b) \in Nat /\ (a \in {None, b} => MinFetch(a, b) = b)
BY DEF MinFetch, None

LEMMA LimitIntoSortStep ==
  ASSUME IInv, NEW j \in 1 .. Len(ops) - 1, PushLimitIntoSort(j)
  PROVE  IInv'
<1> DEFINE sum == ops[j].skip + ops[j].fetch
           wanted == MinFetch(ops[j + 1].fetch, sum)
           sorted == [ops EXCEPT ![j + 1].fetch = wanted]
<1>1. /\ ops \in Seq(Operators) /\ scan \in Scans
      /\ ops[j].op = "limit" /\ ops[j + 1].op = "sort"
      /\ UNCHANGED <<scan, table, config>>
      /\ ops' = sorted \/ ops' = RemoveAt(sorted, j)
      /\ LimitOverSort = "kept" => ops' = sorted
  BY TypeParts DEF IInv, PushLimitIntoSort, LimitMeetsSort, Stays, Reach, Rewrite
<1>2. /\ j \in DOMAIN ops /\ j + 1 \in DOMAIN ops /\ j \in 1 .. Len(ops)
      /\ DOMAIN ops = 1 .. Len(ops) /\ Len(ops) \in Nat
  BY <1>1
<1>3. /\ sum \in Nat
      /\ ops[j + 1] \in [op : {"sort"}, keys : SortKeys, fetch : Nat \cup {None}]
  BY <1>1, <1>2 DEF Operators
<1>4. wanted \in Nat
  BY <1>3, MinFetchType
<1>5. [ops[j + 1] EXCEPT !.fetch = wanted] \in Operators
  BY <1>3, <1>4 DEF Operators
<1>6. /\ sorted \in Seq(Operators) /\ Len(sorted) = Len(ops) /\ DOMAIN sorted = DOMAIN ops
      /\ sorted[j + 1] = [ops[j + 1] EXCEPT !.fetch = wanted]
      /\ \A i \in DOMAIN ops \ {j + 1} : sorted[i] = ops[i]
  <2>1. sorted = [ops EXCEPT ![j + 1] = [ops[j + 1] EXCEPT !.fetch = wanted]]
    BY <1>2
  <2> HIDE DEF sorted, wanted
  <2> QED
    BY <2>1, <1>1, <1>2, <1>5
<1> HIDE DEF sorted
<1>7. ops' \in Seq(Operators)
  BY <1>1, <1>2, <1>6, RemoveAtFacts
<1>8. ASSUME LimitOverSort = "kept" PROVE FetchUnderLimit(ops', scan')
  <2>1. FetchUnderLimit(ops, scan) /\ ops' = sorted
    BY <1>1, <1>8 DEF IInv
  <2>2. ops[j + 1].fetch # None => ops[j + 1].fetch = sum
    <3>1. SUFFICES ASSUME ops[j + 1].fetch # None PROVE ops[j + 1].fetch = sum
      OBVIOUS
    <3>2. LimitAt(ops, (j + 1) - 1, ops[j + 1].fetch)
      BY <3>1, <2>1, <1>1, <1>2 DEF FetchUnderLimit
    <3>3. (j + 1) - 1 = j
      OBVIOUS
    <3> QED
      BY <3>2, <3>3 DEF LimitAt
  <2>3. wanted = sum
    BY <2>2, <1>3, MinFetchType
  <2>4. LimitAt(sorted, j, sum)
    BY <1>1, <1>2, <1>6 DEF LimitAt
  <2>5. ASSUME NEW n, NEW i, LimitAt(ops, i, n) PROVE LimitAt(sorted, i, n)
    BY <2>5, <1>1, <1>6 DEF LimitAt
  <2>6. ASSUME NEW i \in DOMAIN sorted, sorted[i].op = "sort", sorted[i].fetch # None
        PROVE  LimitAt(sorted, i - 1, sorted[i].fetch)
    <3>1. CASE i = j + 1
      BY <3>1, <2>3, <2>4, <1>3, <1>6, <1>2
    <3>2. CASE i # j + 1
      BY <3>2, <2>1, <2>5, <2>6, <1>6 DEF FetchUnderLimit
    <3> QED
      BY <3>1, <3>2
  <2>7. scan.top # None => LimitAt(sorted, Len(sorted), scan.top)
    BY <2>1, <2>5, <1>6 DEF FetchUnderLimit
  <2> QED
    BY <2>1, <2>6, <2>7, <1>1 DEF FetchUnderLimit
<1> QED
  BY <1>1, <1>7, <1>8, StepInv

(* Rules that change only what the scan is asked for above its top-N. *)
LEMMA ScanOnlyStep ==
  ASSUME IInv, PushLimitIntoScan \/ TrimColumns
  PROVE  IInv'
<1>1. ops \in Seq(Operators) /\ scan \in Scans
  BY TypeParts DEF IInv
<1>2. /\ ops' = ops /\ UNCHANGED <<table, config>>
      /\ scan' \in Scans /\ scan'.top = scan.top
  <2>1. CASE PushLimitIntoScan
    <3>1. /\ ops # <<>> /\ Inner.op = "limit" /\ ops' = ops /\ UNCHANGED <<table, config>>
          /\ scan' = [scan EXCEPT !.fetch = MinFetch(scan.fetch, Reach(Inner))]
      BY <2>1 DEF PushLimitIntoScan, LimitMeetsScan, Reach, Rewrite
    <3>2. Reach(Inner) \in Nat
      BY <3>1, InnerParts DEF Operators, Reach
    <3>3. MinFetch(scan.fetch, Reach(Inner)) \in Nat
      BY <1>1, <3>2, MinFetchType DEF Scans
    <3> QED
      BY <1>1, <3>1, <3>3 DEF Scans
  <2>2. CASE TrimColumns
    BY <1>1, <2>2 DEF TrimColumns, ReadsNoColumn, Rewrite, Scans
  <2> QED
    BY <2>1, <2>2
<1>3. LimitOverSort = "kept" => FetchUnderLimit(ops', scan')
  BY <1>2 DEF IInv, FetchUnderLimit
<1> QED
  BY <1>1, <1>2, <1>3, StepInv
-----------------------------------------------------------------------------
(* The Cosmos rule. *)
LEMMA FoldAggregateStep ==
  ASSUME IInv, FoldAggregate
  PROVE  IInv'
<1>1. /\ ops # <<>> /\ ops' = Front(ops) /\ UNCHANGED <<table, config>>
      /\ scan' = [BareScan EXCEPT !.filters = scan.filters, !.agg = ValueExpression(Inner.fn)]
      /\ ValueExpression(Inner.fn) # "none" /\ scan \in Scans
  BY TypeParts DEF IInv, FoldAggregate, AggregateFolds, Rewrite
<1>2. ValueExpression(Inner.fn) \in {"count_star", "avg"}
  BY <1>1 DEF ValueExpression
<1>3. scan' \in Scans /\ scan'.top = None
  BY <1>1, <1>2 DEF Scans, BareScan
<1> QED
  BY <1>1, <1>3, FrontKeeps, InnerParts, StepInv

LEMMA FoldSortStep ==
  ASSUME IInv, FoldSort
  PROVE  IInv'
<1>1. /\ ops # <<>> /\ Inner.op = "sort"
      /\ ops' = Front(ops) /\ UNCHANGED <<table, config>>
      /\ scan' = [scan EXCEPT !.keys = Inner.keys, !.top = Inner.fetch] /\ scan \in Scans
  BY TypeParts DEF IInv, FoldSort, SortFolds, Rewrite
<1>2. Inner \in [op : {"sort"}, keys : SortKeys, fetch : Nat \cup {None}]
  BY <1>1, InnerParts DEF Operators
<1>3. scan' \in Scans /\ scan'.top = Inner.fetch
  BY <1>1, <1>2 DEF Scans
<1>4. ASSUME LimitOverSort = "kept" PROVE FetchUnderLimit(ops', scan')
  <2>1. ops \in Seq(Operators) /\ Len(ops) \in DOMAIN ops
    BY <1>1, FrontFacts, TypeParts DEF IInv
  <2>2. ASSUME Inner.fetch # None
        PROVE  LimitAt(ops, Len(ops) - 1, Inner.fetch)
    BY <1>1, <1>4, <2>1, <2>2, InnerParts DEF IInv, FetchUnderLimit
  <2>3. ASSUME Inner.fetch # None
        PROVE  LimitAt(Front(ops), Len(Front(ops)), Inner.fetch)
    BY <1>1, <2>1, <2>2, <2>3, InnerParts DEF LimitAt
  <2> QED
    BY <1>1, <1>3, <1>4, <2>3, FrontKeeps
<1> QED
  BY <1>1, <1>3, <1>4, InnerParts, StepInv

LEMMA NextStep == IInv /\ [Next]_vars => IInv'
<1> SUFFICES ASSUME IInv, [Next]_vars PROVE IInv'
  OBVIOUS
<1>1. CASE UNCHANGED vars
  BY <1>1 DEF vars, IInv, TypeOK, FetchUnderLimit, LimitAt
<1>2. CASE Next
  BY <1>2, FilterBelowSortStep, FilterIntoScanStep, LimitIntoSortStep, ScanOnlyStep,
     FoldAggregateStep, FoldSortStep DEF Next
<1> QED
  BY <1>1, <1>2
-----------------------------------------------------------------------------
(* The invariant holds of every plan that any sequence of rules makes of   *)
(* any query (pushdown.rs:98-254 with DataFusion's rules around it).      *)
THEOREM Invariance == Spec => []IInv
BY InitInv, NextStep, PTL DEF Spec

(* Plans and scans stay well formed: what a fold leaves in the scan is one *)
(* of the aggregates, keys and fetches that build_scan_sql knows.          *)
THEOREM TypeCorrect == Spec => []TypeOK
<1>1. IInv => TypeOK
  BY DEF IInv
<1> QED
  BY <1>1, Invariance, PTL

(* With a top-N in the provider the innermost operator is its limit, and   *)
(* no rule that touches rows looks through a limit.                        *)
LEMMA TopNStep ==
  IInv /\ [Next]_vars =>
    [LimitOverSort = "kept" /\ scan.top # None =>
       /\ scan'.top = scan.top /\ scan'.keys = scan.keys
       /\ scan'.filters = scan.filters /\ scan'.agg = scan.agg]_vars
<1> SUFFICES ASSUME IInv, Next, LimitOverSort = "kept", scan.top # None
             PROVE  /\ scan'.top = scan.top /\ scan'.keys = scan.keys
                    /\ scan'.filters = scan.filters /\ scan'.agg = scan.agg
  OBVIOUS
<1>1. ops # <<>> => Inner.op = "limit"
  BY InnerParts DEF IInv, FetchUnderLimit, LimitAt
<1>2. scan \in Scans
  BY TypeParts DEF IInv
<1>3. ~PushFilterIntoScan /\ ~FoldAggregate /\ ~FoldSort
  BY <1>1 DEF PushFilterIntoScan, FilterMeetsScan, FoldAggregate, AggregateFolds, FoldSort, SortFolds
<1>4. ASSUME NEW j \in 1 .. Len(ops) - 1, PushFilterBelowSort(j) \/ PushLimitIntoSort(j)
      PROVE  scan' = scan
  BY <1>4 DEF PushFilterBelowSort, FilterMeetsSort, PushLimitIntoSort, LimitMeetsSort, Stays, Reach, Rewrite
<1>5. CASE PushLimitIntoScan
  BY <1>2, <1>5 DEF PushLimitIntoScan, LimitMeetsScan, Reach, Rewrite, Scans
<1>6. CASE TrimColumns
  BY <1>2, <1>6 DEF TrimColumns, ReadsNoColumn, Rewrite, Scans
<1> QED
  BY <1>3, <1>4, <1>5, <1>6 DEF Next

(* A top-N that was folded into the provider is final: no filter and no    *)
(* aggregate that is pushed later slips below it, and no later fold        *)
(* replaces or forgets it (pushdown.rs:243-252), for every query, however  *)
(* many operators it has and in whatever order the rules run.              *)
THEOREM TopN == Spec => TopNIsFinal
<1>1. Spec => []IInv /\ [][Next]_vars
  BY Invariance, PTL DEF Spec
<1> QED
  BY <1>1, TopNStep, PTL DEF TopNIsFinal
-----------------------------------------------------------------------------
(* A sort that can be folded when nothing but pushable filters is below it. *)
Folds(o) ==
  /\ o.op = "sort"
  /\ config.sort
  /\ Len(o.keys) > 1 => config.multi_sort
  /\ \A m \in DOMAIN o.keys : CosmosOrders(o.keys[m])

PushableFilters(os) ==
  \A m \in DOMAIN os : os[m].op = "filter" => SupportsFilter(os[m].pred)

(* Where such a sort is in a plan.                                         *)
FoldIsAhead(os, sc) ==
  /\ sc.fetch = None
  /\ PushableFilters(os)
  /\ \E j \in DOMAIN os : Folds(os[j]) /\ \A m \in j + 1 .. Len(os) : os[m].op = "filter"

(* A fold the query allows has been made, or can still be.                 *)
FoldInv ==
  (\E j \in DOMAIN query : Foldable(j)) =>
     scan.keys # <<>> \/ scan.agg # "none" \/ FoldIsAhead(ops, scan)

LEMMA FoldInit == Init => FoldInv
BY DEF Init, FoldInv, FoldIsAhead, Foldable, Folds, PushableFilters, BareScan

(* Once made it stays, and before that every rule leaves it possible.      *)
LEMMA FoldStep == IInv /\ FoldInv /\ [Next]_vars => FoldInv'
<1> SUFFICES ASSUME IInv, FoldInv, [Next]_vars, (\E j \in DOMAIN query : Foldable(j))'
             PROVE  (scan.keys # <<>> \/ scan.agg # "none" \/ FoldIsAhead(ops, scan))'
  BY DEF FoldInv
<1>1. UNCHANGED <<table, config, query>>
  BY DEF Next, vars, Rewrite, PushFilterBelowSort, PushFilterIntoScan, PushLimitIntoSort,
         PushLimitIntoScan, TrimColumns, FoldAggregate, FoldSort
<1>2. scan.keys # <<>> \/ scan.agg # "none" \/ FoldIsAhead(ops, scan)
  BY <1>1 DEF FoldInv, Foldable
<1>3. ops \in Seq(Operators) /\ scan \in Scans
  BY TypeParts DEF IInv
<1>4. \A o : Folds(o)' <=> Folds(o)
  BY <1>1 DEF Folds
<1>5. CASE UNCHANGED vars
  BY <1>2, <1>5, <1>4 DEF vars, FoldIsAhead, PushableFilters
<1>6. CASE FoldSort
  <2>1. Inner \in [op : {"sort"}, keys : SortKeys, fetch : Nat \cup {None}]
    BY <1>6, InnerParts DEF Operators, FoldSort, SortFolds
  <2>2. scan'.keys = Inner.keys
    BY <1>3, <1>6 DEF FoldSort, Rewrite, Scans
  <2> QED
    BY <2>1, <2>2, ParametersAssumption
<1>7. CASE FoldAggregate
  <2>1. scan'.agg = ValueExpression(Inner.fn) /\ ValueExpression(Inner.fn) # "none"
    BY <1>7 DEF FoldAggregate, AggregateFolds, Rewrite, BareScan
  <2> QED
    BY <2>1
<1>8. ASSUME PushLimitIntoScan \/ TrimColumns \/ PushFilterIntoScan
              \/ \E j \in 1 .. Len(ops) - 1 : PushFilterBelowSort(j) \/ PushLimitIntoSort(j)
      PROVE  scan'.keys = scan.keys /\ scan'.agg = scan.agg
  BY <1>3, <1>8 DEF PushLimitIntoScan, TrimColumns, PushFilterIntoScan, PushFilterBelowSort,
                    PushLimitIntoSort, Rewrite, Scans
<1>9. CASE Next /\ ~FoldSort /\ ~FoldAggregate /\ (scan.keys # <<>> \/ scan.agg # "none")
  BY <1>8, <1>9 DEF Next
<1>10. CASE Next /\ ~FoldSort /\ ~FoldAggregate /\ FoldIsAhead(ops, scan)
  <2> DEFINE n == Len(ops)
  <2>1. PICK j \in DOMAIN ops : Folds(ops[j]) /\ \A m \in j + 1 .. n : ops[m].op = "filter"
    BY <1>10 DEF FoldIsAhead
  <2>2. n \in Nat /\ DOMAIN ops = 1 .. n /\ j \in 1 .. n /\ ops # <<>> /\ ops[j].op = "sort"
    BY <1>3, <2>1 DEF Folds
  <2>3. scan.fetch = None /\ PushableFilters(ops)
    BY <1>10 DEF FoldIsAhead
  <2>4. Inner = ops[n] /\ (j = n \/ Inner.op = "filter")
    BY <2>1, <2>2 DEF Inner
  <2>5. ASSUME NEW os, NEW sc, NEW l \in Nat, DOMAIN os = 1 .. Len(os),
               sc.fetch = None, PushableFilters(os), l \in DOMAIN os, Folds(os[l]),
               \A m \in l + 1 .. Len(os) : os[m].op = "filter"
        PROVE  FoldIsAhead(os, sc)
    BY <2>5 DEF FoldIsAhead
  <2>6. CASE PushFilterIntoScan
    <3>1. /\ ops' = Front(ops) /\ scan'.fetch = scan.fetch /\ j # n
      BY <1>3, <2>2, <2>4, <2>6 DEF PushFilterIntoScan, FilterMeetsScan, Rewrite, Scans
    <3>2. /\ ops' \in Seq(Operators) /\ Len(ops') = n - 1
          /\ \A i \in DOMAIN ops' : i \in DOMAIN ops /\ ops'[i] = ops[i]
      BY <2>2, <3>1, InnerParts
    <3>3. PushableFilters(ops')
      BY <2>3, <3>2 DEF PushableFilters
    <3>4. j \in DOMAIN ops' /\ DOMAIN ops' = 1 .. Len(ops')
      BY <2>2, <3>1, <3>2
    <3>5. Folds(ops'[j]) /\ \A m \in j + 1 .. Len(ops') : ops'[m].op = "filter"
      BY <2>1, <2>2, <3>2, <3>4
    <3>6. FoldIsAhead(ops', scan')
      BY <2>2, <2>3, <2>5, <3>1, <3>3, <3>4, <3>5
    <3> QED
      BY <1>4, <3>6 DEF FoldIsAhead, PushableFilters
  <2>7. CASE PushLimitIntoScan
    <3>1. Inner.op = "limit"
      BY <2>7 DEF PushLimitIntoScan, LimitMeetsScan
    <3> QED
      BY <2>2, <2>4, <3>1
  <2>8. CASE TrimColumns
    <3>1. ops' = ops /\ scan'.fetch = scan.fetch
      BY <1>3, <2>8 DEF TrimColumns, Rewrite, Scans
    <3> QED
      BY <1>4, <1>10, <3>1 DEF FoldIsAhead, PushableFilters
  <2>9. ASSUME NEW i \in 1 .. n - 1, PushFilterBelowSort(i)
        PROVE  FoldIsAhead(ops, scan)'
    <3>1. /\ ops[i].op = "filter" /\ ops[i + 1].op = "sort" /\ scan' = scan
          /\ ops' = [ops EXCEPT ![i] = ops[i + 1], ![i + 1] = ops[i]]
      BY <2>9 DEF PushFilterBelowSort, FilterMeetsSort, Rewrite
    <3>2. i \in DOMAIN ops /\ i + 1 \in DOMAIN ops
      BY <2>2
    <3>3. /\ ops' \in Seq(Operators) /\ Len(ops') = n /\ DOMAIN ops' = 1 .. Len(ops')
          /\ ops'[i] = ops[i + 1] /\ ops'[i + 1] = ops[i]
          /\ \A m \in DOMAIN ops \ {i, i + 1} : ops'[m] = ops[m]
      BY <1>3, <2>2, <3>1, <3>2
    <3>4. PushableFilters(ops')
      BY <2>2, <2>3, <3>2, <3>3 DEF PushableFilters
    <3>5. i + 1 <= j
      <4>1. SUFFICES ASSUME j < i + 1 PROVE FALSE
        BY <2>2
      <4>2. i + 1 \in j + 1 .. n
        BY <2>2, <4>1
      <4> QED
        BY <2>1, <3>1, <4>2
    <3> DEFINE os == ops'
    <3>8. /\ Len(os) = n /\ DOMAIN os = 1 .. Len(os) /\ PushableFilters(os)
          /\ i \in DOMAIN os /\ j \in DOMAIN os /\ i \in Nat
      BY <2>2, <3>3, <3>4
    <3> HIDE DEF os
    <3>6. CASE j = i + 1
      <4>1. Folds(ops'[i]) /\ \A m \in i + 1 .. n : ops'[m].op = "filter"
        BY <2>1, <2>2, <3>1, <3>3, <3>6
      <4>2. FoldIsAhead(os, scan)
        BY <2>3, <2>5, <3>8, <4>1 DEF os
      <4> QED
        BY <1>4, <3>1, <4>2 DEF FoldIsAhead, PushableFilters, os
    <3>7. CASE i + 1 < j
      <4>1. Folds(ops'[j]) /\ \A m \in j + 1 .. n : ops'[m].op = "filter"
        BY <2>1, <2>2, <3>3, <3>7
      <4>2. FoldIsAhead(os, scan)
        BY <2>2, <2>3, <2>5, <3>8, <4>1 DEF os
      <4> QED
        BY <1>4, <3>1, <4>2 DEF FoldIsAhead, PushableFilters, os
    <3> QED
      BY <2>2, <3>5, <3>6, <3>7
  <2>10. ASSUME NEW i \in 1 .. n - 1, PushLimitIntoSort(i)
         PROVE  FoldIsAhead(ops, scan)'
    <3> DEFINE wanted == MinFetch(ops[i + 1].fetch, Reach(ops[i]))
               sorted == [ops EXCEPT ![i + 1].fetch = wanted]
    <3>1. /\ ops[i].op = "limit" /\ ops[i + 1].op = "sort" /\ scan' = scan
          /\ ops' = sorted \/ ops' = RemoveAt(sorted, i)
      BY <2>10 DEF PushLimitIntoSort, LimitMeetsSort, Rewrite
    <3>2. i \in DOMAIN ops /\ i + 1 \in DOMAIN ops /\ i \in Nat
      BY <2>2
    <3>3. i + 1 <= j
      <4>1. SUFFICES ASSUME j < i + 1 PROVE FALSE
        BY <2>2
      <4>2. i + 1 \in j + 1 .. n
        BY <2>2, <4>1
      <4> QED
        BY <2>1, <3>1, <4>2
    <3>4. ops[i + 1] \in [op : {"sort"}, keys : SortKeys, fetch : Nat \cup {None}]
      BY <1>3, <3>1, <3>2 DEF Operators
    <3>11. Reach(ops[i]) \in Nat
      BY <1>3, <3>1, <3>2 DEF Operators, Reach
    <3>12. [ops[i + 1] EXCEPT !.fetch = wanted] \in Operators
      BY <3>4, <3>11, MinFetchType DEF Operators
    <3> HIDE DEF wanted
    <3>5. /\ sorted[i + 1] = [ops[i + 1] EXCEPT !.fetch = wanted]
          /\ \A m \in DOMAIN ops \ {i + 1} : sorted[m] = ops[m]
          /\ DOMAIN sorted = 1 .. n /\ Len(sorted) = n
          /\ sorted \in Seq(Operators)
      BY <1>3, <2>2, <3>2, <3>12
    <3>6. sorted[i + 1].op = "sort" /\ sorted[i + 1].keys = ops[i + 1].keys
      BY <3>4, <3>5
    <3> HIDE DEF sorted
    <3>7. Folds(sorted[j]) /\ \A m \in j + 1 .. n : sorted[m].op = "filter"
      <4>1. Folds(sorted[j])
        BY <2>1, <2>2, <3>5, <3>6 DEF Folds
      <4> QED
        BY <2>1, <2>2, <3>3, <3>5, <4>1
    <3>8. PushableFilters(sorted)
      BY <2>2, <2>3, <3>5, <3>6 DEF PushableFilters
    <3>9. CASE ops' = sorted
      <4>1. DOMAIN sorted = 1 .. Len(sorted) /\ j \in DOMAIN sorted /\ j \in Nat
        BY <2>2, <3>5
      <4>2. FoldIsAhead(sorted, scan)
        BY <2>3, <2>5, <3>5, <3>7, <3>8, <4>1
      <4> QED
        BY <1>4, <3>1, <3>9, <4>2 DEF FoldIsAhead, PushableFilters
    <3>10. CASE ops' = RemoveAt(sorted, i)
      <4> DEFINE os == RemoveAt(sorted, i)
      <4>1. i \in 1 .. Len(sorted)
        BY <2>2, <3>5
      <4>7. /\ os \in Seq(Operators) /\ Len(os) = Len(sorted) - 1
            /\ \A m \in 1 .. Len(sorted) - 1 : os[m] = sorted[IF m < i THEN m ELSE m + 1]
        BY <3>5, <4>1, RemoveAtFacts
      <4> HIDE DEF os
      <4>2. /\ Len(os) = n - 1 /\ DOMAIN os = 1 .. Len(os)
            /\ \A m \in 1 .. n - 1 : os[m] = IF m < i THEN sorted[m] ELSE sorted[m + 1]
        BY <3>5, <4>7
      <4>3. PushableFilters(os)
        BY <2>2, <3>2, <3>5, <3>8, <4>2 DEF PushableFilters
      <4>4. j - 1 \in DOMAIN os /\ os[j - 1] = sorted[j]
        BY <2>2, <3>2, <3>3, <4>2
      <4>5. \A m \in j - 1 + 1 .. Len(os) : os[m].op = "filter"
        BY <2>2, <3>2, <3>3, <3>7, <4>2
      <4>6. FoldIsAhead(os, scan)
        BY <2>2, <2>3, <2>5, <3>7, <4>2, <4>3, <4>4, <4>5
      <4> QED
        BY <1>4, <3>1, <3>10, <4>6 DEF FoldIsAhead, PushableFilters, os
    <3> QED
      BY <3>1, <3>9, <3>10
  <2> QED
    BY <1>10, <2>6, <2>7, <2>8, <2>9, <2>10 DEF Next
<1> QED
  BY <1>2, <1>5, <1>6, <1>7, <1>9, <1>10

(* Where a fold is still possible some rule has something to do. *)
LEMMA FoldIsNear ==
  ASSUME IInv, FoldInv, Settled, \E j \in DOMAIN query : Foldable(j)
  PROVE  scan.keys # <<>> \/ scan.agg # "none"
<1> SUFFICES ASSUME scan.agg = "none", FoldIsAhead(ops, scan)
             PROVE  FALSE
  BY DEF FoldInv
<1>1. ops \in Seq(Operators)
  BY TypeParts DEF IInv
<1>2. PICK j \in DOMAIN ops : Folds(ops[j]) /\ \A m \in j + 1 .. Len(ops) : ops[m].op = "filter"
  BY DEF FoldIsAhead
<1>3. Len(ops) \in DOMAIN ops /\ ops # <<>> /\ Inner = ops[Len(ops)]
  BY <1>1 DEF Inner
<1>4. CASE j = Len(ops)
  <2>1. SortFolds
    BY <1>2, <1>3, <1>4 DEF Folds, SortFolds, FoldIsAhead
  <2> QED
    BY <2>1 DEF Settled
<1>5. CASE j # Len(ops)
  <2>1. Inner.op = "filter"
    BY <1>1, <1>2, <1>3, <1>5
  <2>2. FilterMeetsScan
    BY <1>3, <2>1 DEF FilterMeetsScan, FoldIsAhead, PushableFilters
  <2> QED
    BY <2>2 DEF Settled
<1> QED
  BY <1>4, <1>5

(* A sort the service can evaluate reaches it, whichever of DataFusion's   *)
(* rules and of the folds ran first (pushdown.rs:197-254), for queries of  *)
(* any length and whether or not a merged limit is kept.                   *)
THEOREM NoneIsMissed == Spec => []NoFoldIsMissed
<1>1. Spec => [](IInv /\ FoldInv)
  BY Invariance, FoldInit, FoldStep, PTL DEF Spec
<1>2. IInv /\ FoldInv => NoFoldIsMissed
  BY FoldIsNear DEF NoFoldIsMissed
<1> QED
  BY <1>1, <1>2, PTL

----------------------------------------------------------------------------
(* The meaning of plans. *)

(* What the n innermost operators compute, from that of one less. *)
InsideFrom(S) ==
  \A os \in Seq(S) : \A A :
    /\ Inside(os, A)[0] = A
    /\ \A n \in 1 .. Len(os) :
         Inside(os, A)[n] = UNION {Apply(os[Len(os) - n + 1], a) : a \in Inside(os, A)[n - 1]}

LEMMA InsideDefined ==
  ASSUME NEW S
  PROVE  InsideFrom(S)
<1> SUFFICES ASSUME NEW os \in Seq(S), NEW A
             PROVE  /\ Inside(os, A)[0] = A
                    /\ \A n \in 1 .. Len(os) :
                         Inside(os, A)[n] =
                           UNION {Apply(os[Len(os) - n + 1], a) : a \in Inside(os, A)[n - 1]}
  BY DEF InsideFrom
<1> DEFINE N == Len(os)
           Step(n, B) == UNION {Apply(os[N - n + 1], a) : a \in B}
           Good(n, g) == /\ g = [i \in 0 .. n |-> g[i]]
                         /\ g[0] = A
                         /\ \A i \in 1 .. n : g[i] = Step(i, g[i - 1])
           T == {n \in Nat : \E g : Good(n, g)}
           e == Inside(os, A)
<1>0. N \in Nat
  OBVIOUS
<1> HIDE DEF N, Step
<1>1. 0 \in T
  <2>1. Good(0, [i \in 0 .. 0 |-> A])
    OBVIOUS
  <2> QED
    BY <2>1
<1>2. ASSUME NEW n \in Nat, n \in T PROVE n + 1 \in T
  <2>1. PICK g : Good(n, g)
    BY <1>2
  <2> DEFINE f == [i \in 0 .. n + 1 |-> IF i = n + 1 THEN Step(n + 1, g[n]) ELSE g[i]]
  <2>2. f = [i \in 0 .. n + 1 |-> f[i]] /\ f[0] = A
    BY <2>1
  <2>3. ASSUME NEW i \in 1 .. n + 1 PROVE f[i] = Step(i, f[i - 1])
    <3>1. CASE i = n + 1
      BY <3>1
    <3>2. CASE i # n + 1
      BY <2>1, <3>2
    <3> QED
      BY <3>1, <3>2
  <2>4. Good(n + 1, f)
    BY <2>2, <2>3
  <2> QED
    BY <2>4
<1> HIDE DEF T
<1>3. N \in T
  BY <1>0, <1>1, <1>2, Induction
<1>4. PICK g : Good(N, g)
  BY <1>3 DEF T
<1>5. ASSUME NEW i \in 0 .. N PROVE g[i] = IF i = 0 THEN A ELSE Step(i, g[i - 1])
  <2>1. CASE i = 0
    BY <1>4, <2>1
  <2>2. CASE i # 0
    <3>1. i \in 1 .. N
      BY <1>0, <2>2
    <3>2. g[i] = Step(i, g[i - 1])
      BY <1>4, <3>1
    <3> QED
      BY <2>2, <3>2
  <2> QED
    BY <2>1, <2>2
<1>6. g = [i \in 0 .. N |-> IF i = 0 THEN A ELSE Step(i, g[i - 1])]
  BY <1>4, <1>5
<1>7. \E f : f = [i \in 0 .. N |-> IF i = 0 THEN A ELSE Step(i, f[i - 1])]
  BY <1>6
<1>8. e = [i \in 0 .. N |-> IF i = 0 THEN A ELSE Step(i, e[i - 1])]
  BY <1>7, Zenon DEF Inside, Step, N
<1> HIDE DEF e
<1>9. e[0] = A
  <2>1. 0 \in 0 .. N
    BY <1>0
  <2> QED
    BY <1>8, <2>1
<1>10. ASSUME NEW n \in 1 .. N PROVE e[n] = Step(n, e[n - 1])
  <2>1. n \in 0 .. N /\ n # 0
    BY <1>0
  <2> QED
    BY <1>8, <2>1
<1> QED
  BY <1>9, <1>10 DEF e, Step, N

(* Plans whose outer operators are the same answer alike. *)
LEMMA OuterKeeps ==
  ASSUME NEW S, NEW os \in Seq(S), NEW os2 \in Seq(S), NEW A, NEW A2,
         NEW k \in 0 .. Len(os), NEW k2 \in 0 .. Len(os2), Len(os) - k = Len(os2) - k2,
         \A i \in 1 .. Len(os) - k : os[i] = os2[i],
         Inside(os2, A2)[k2] \subseteq Inside(os, A)[k]
  PROVE  Above(os2, A2) \subseteq Above(os, A)
<1> DEFINE n == Len(os)
           n2 == Len(os2)
           e == Inside(os, A)
           e2 == Inside(os2, A2)
           T == {d \in Nat : d <= n - k => e2[k2 + d] \subseteq e[k + d]}
<1>1. n \in Nat /\ n2 \in Nat
  OBVIOUS
<1>2. /\ \A i \in 1 .. n : e[i] = UNION {Apply(os[n - i + 1], a) : a \in e[i - 1]}
      /\ \A i \in 1 .. n2 : e2[i] = UNION {Apply(os2[n2 - i + 1], a) : a \in e2[i - 1]}
  BY InsideDefined DEF InsideFrom
<1> HIDE DEF e, e2
<1>3. 0 \in T
  BY <1>1 DEF e, e2
<1>4. ASSUME NEW d \in Nat, d \in T PROVE d + 1 \in T
  <2> SUFFICES ASSUME d + 1 <= n - k PROVE e2[k2 + (d + 1)] \subseteq e[k + (d + 1)]
    OBVIOUS
  <2>1. e2[k2 + d] \subseteq e[k + d]
    BY <1>1, <1>4
  <2> DEFINE i == n - (k + (d + 1)) + 1
  <2>2. /\ i \in 1 .. n - k /\ i = n2 - (k2 + (d + 1)) + 1
        /\ k + (d + 1) \in 1 .. n /\ k + (d + 1) - 1 = k + d
        /\ k2 + (d + 1) \in 1 .. n2 /\ k2 + (d + 1) - 1 = k2 + d
    BY <1>1
  <2> HIDE DEF i
  <2>3. e[k + (d + 1)] = UNION {Apply(os[i], a) : a \in e[k + d]}
    BY <1>2, <2>2 DEF i
  <2>4. e2[k2 + (d + 1)] = UNION {Apply(os2[i], a) : a \in e2[k2 + d]}
    <3> DEFINE m == k2 + (d + 1)
    <3>1. m \in 1 .. n2 /\ m - 1 = k2 + d /\ n2 - m + 1 = i
      BY <2>2
    <3> HIDE DEF m
    <3>2. e2[m] = UNION {Apply(os2[n2 - m + 1], a) : a \in e2[m - 1]}
      BY <1>2, <3>1
    <3> QED
      BY <3>1, <3>2 DEF m
  <2>5. os[i] = os2[i]
    BY <2>2
  <2> QED
    BY <2>1, <2>3, <2>4, <2>5
<1> HIDE DEF T
<1>5. n - k \in T /\ n - k \in Nat
  <2>1. Nat \subseteq T
    BY <1>3, <1>4, Induction
  <2> QED
    BY <1>1, <2>1
<1>6. e2[k2 + (n - k)] \subseteq e[k + (n - k)]
  BY <1>1, <1>5 DEF T
<1>7. k2 + (n - k) = n2 /\ k + (n - k) = n
  BY <1>1
<1> QED
  BY <1>6, <1>7 DEF Above, e, e2

(* The same, of one list of operators. *)
InsideSteps(os, A) ==
  /\ Inside(os, A)[0] = A
  /\ \A n \in 1 .. Len(os) :
       Inside(os, A)[n] = UNION {Apply(os[Len(os) - n + 1], a) : a \in Inside(os, A)[n - 1]}

LEMMA InsideAt ==
  ASSUME NEW S, NEW os \in Seq(S), NEW A
  PROVE  InsideSteps(os, A)
BY InsideDefined DEF InsideFrom, InsideSteps

(* And so do their inner operators. *)
LEMMA InnerKeeps ==
  ASSUME NEW S, NEW os \in Seq(S), NEW os2 \in Seq(S), NEW A, Len(os2) = Len(os),
         NEW k \in 0 .. Len(os), \A i \in Len(os) - k + 1 .. Len(os) : os[i] = os2[i]
  PROVE  Inside(os2, A)[k] = Inside(os, A)[k]
<1> DEFINE n == Len(os)
           e == Inside(os, A)
           e2 == Inside(os2, A)
           T == {d \in Nat : d <= k => e2[d] = e[d]}
<1>1. n \in Nat /\ k \in Nat
  OBVIOUS
<1>2. /\ e[0] = A /\ e2[0] = A
      /\ \A i \in 1 .. n : e[i] = UNION {Apply(os[n - i + 1], a) : a \in e[i - 1]}
      /\ \A i \in 1 .. n : e2[i] = UNION {Apply(os2[n - i + 1], a) : a \in e2[i - 1]}
  <2>1. InsideSteps(os, A) /\ InsideSteps(os2, A)
    BY InsideAt
  <2>2. e[0] = A /\ e2[0] = A
    BY <2>1 DEF InsideSteps
  <2>3. \A i \in 1 .. n : e[i] = UNION {Apply(os[n - i + 1], a) : a \in e[i - 1]}
    BY <2>1 DEF InsideSteps
  <2>4. Len(os2) = n
    OBVIOUS
  <2>5. \A i \in 1 .. n : e2[i] = UNION {Apply(os2[n - i + 1], a) : a \in e2[i - 1]}
    BY <2>1, <2>4 DEF InsideSteps
  <2> QED
    BY <2>2, <2>3, <2>5
<1> HIDE DEF e, e2
<1>3. 0 \in T
  BY <1>2
<1>4. ASSUME NEW d \in Nat, d \in T PROVE d + 1 \in T
  <2> SUFFICES ASSUME d + 1 <= k PROVE e2[d + 1] = e[d + 1]
    OBVIOUS
  <2>1. e2[d] = e[d]
    BY <1>4, <1>1
  <2> DEFINE i == n - (d + 1) + 1
  <2>2. i \in n - k + 1 .. n /\ d + 1 \in 1 .. n /\ d + 1 - 1 = d
    BY <1>1
  <2> HIDE DEF i
  <2>3. e[d + 1] = UNION {Apply(os[i], a) : a \in e[d]}
    BY <1>2, <2>2 DEF i
  <2>4. e2[d + 1] = UNION {Apply(os2[i], a) : a \in e2[d]}
    BY <1>2, <2>2 DEF i
  <2> QED
    BY <2>1, <2>2, <2>3, <2>4
<1> HIDE DEF T
<1>5. k \in T
  BY <1>1, <1>3, <1>4, Induction
<1> QED
  BY <1>1, <1>5 DEF T, e, e2

LEMMA ErrorStays ==
  ASSUME NEW S, NEW os \in Seq(S)
  PROVE  Above(os, {Error}) \subseteq {Error}
<1> DEFINE n == Len(os)
           A == {Error}
           e == Inside(os, A)
           T == {d \in Nat : d <= n => e[d] \subseteq A}
<1>1. n \in Nat
  OBVIOUS
<1>2. \A o : \A a \in A : Apply(o, a) = A
  BY DEF Apply
<1> HIDE DEF A
<1>3. /\ e[0] = A
      /\ \A i \in 1 .. n : e[i] = UNION {Apply(os[n - i + 1], a) : a \in e[i - 1]}
  BY InsideDefined DEF InsideFrom
<1> HIDE DEF e
<1>4. 0 \in T
  BY <1>3
<1>5. ASSUME NEW d \in Nat, d \in T PROVE d + 1 \in T
  <2> SUFFICES ASSUME d + 1 <= n PROVE e[d + 1] \subseteq A
    OBVIOUS
  <2>1. e[d] \subseteq A
    BY <1>1, <1>5
  <2>2. d + 1 \in 1 .. n /\ d + 1 - 1 = d
    BY <1>1
  <2>3. e[d + 1] = UNION {Apply(os[n - (d + 1) + 1], a) : a \in e[d]}
    BY <1>3, <2>2
  <2> QED
    BY <1>2, <2>1, <2>3
<1> HIDE DEF T
<1>6. n \in T
  BY <1>1, <1>4, <1>5, Induction
<1>7. e[n] \subseteq A
  BY <1>1, <1>6 DEF T
<1> QED
  BY <1>7 DEF Above, e, A

(* Answers that are rows of the table. *)
IsRows(a) == a.kind = "rows" /\ a.rows \subseteq DOMAIN table

LEMMA WindowRows ==
  ASSUME NEW a, NEW skip, NEW n
  PROVE  Window(a, skip, n).kind = "rows" /\ Window(a, skip, n).rows \subseteq a.rows
BY DEF Window, Rows

LEMMA ListingRows ==
  ASSUME NEW S, NEW ranks, NEW l \in Orderings(S, ranks)
  PROVE  /\ l.rows = S /\ l.kind = "rows"
         /\ l = Rows(S, l.before) /\ l.before \in OrdersOf(S)
<1>1. l \in Listings /\ l.rows = S
  BY DEF Orderings
<1>2. PICK R \in SUBSET UNION {DOMAIN t : t \in Tables} : l \in {Rows(R, b) : b \in OrdersOf(R)}
  BY <1>1 DEF Listings
<1>3. PICK b \in OrdersOf(R) : l = Rows(R, b)
  BY <1>2
<1>4. l.rows = R /\ l.before = b /\ l.kind = "rows"
  BY <1>3 DEF Rows
<1> QED
  BY <1>1, <1>3, <1>4

LEMMA ApplyRows ==
  ASSUME NEW o \in Operators, o.op # "agg", NEW a, IsRows(a), NEW b \in Apply(o, a)
  PROVE  IsRows(b)
<1>0. a # Error
  BY DEF IsRows, Error
<1>1. CASE o.op = "filter"
  BY <1>0, <1>1 DEF Apply, Kept, Rows, IsRows
<1>2. CASE o.op = "limit"
  BY <1>0, <1>2, WindowRows DEF Apply, IsRows
<1>3. CASE o.op = "sort"
  <2>1. PICK l \in Orderings(a.rows, Ranks(o.keys)) : b = Window(l, 0, o.fetch)
    BY <1>0, <1>3 DEF Apply
  <2> QED
    BY <2>1, ListingRows, WindowRows DEF IsRows
<1> QED
  BY <1>1, <1>2, <1>3 DEF Operators

LEMMA InsideRows ==
  ASSUME NEW os \in Seq(Operators), NEW A, \A a \in A : IsRows(a), NEW k \in 0 .. Len(os),
         \A i \in Len(os) - k + 1 .. Len(os) : os[i].op # "agg"
  PROVE  \A a \in Inside(os, A)[k] : IsRows(a)
<1> DEFINE n == Len(os)
           e == Inside(os, A)
           T == {d \in Nat : d <= k => \A a \in e[d] : IsRows(a)}
<1>1. n \in Nat /\ k \in Nat
  OBVIOUS
<1>2. /\ e[0] = A
      /\ \A i \in 1 .. n : e[i] = UNION {Apply(os[n - i + 1], a) : a \in e[i - 1]}
  BY InsideDefined DEF InsideFrom
<1> HIDE DEF e
<1>3. 0 \in T
  BY <1>2
<1>4. ASSUME NEW d \in Nat, d \in T PROVE d + 1 \in T
  <2> SUFFICES ASSUME d + 1 <= k PROVE \A a \in e[d + 1] : IsRows(a)
    OBVIOUS
  <2> DEFINE i == n - (d + 1) + 1
  <2>1. \A a \in e[d] : IsRows(a)
    BY <1>1, <1>4
  <2>2. d + 1 \in 1 .. n /\ d + 1 - 1 = d /\ i \in n - k + 1 .. n /\ i \in 1 .. n
    BY <1>1
  <2> HIDE DEF i
  <2>3. e[d + 1] = UNION {Apply(os[i], a) : a \in e[d]}
    BY <1>2, <2>2 DEF i
  <2>4. os[i] \in Operators /\ os[i].op # "agg"
    BY <2>2
  <2> QED
    BY <2>1, <2>3, <2>4, ApplyRows
<1> HIDE DEF T
<1>5. k \in T
  BY <1>1, <1>3, <1>4, Induction
<1> QED
  BY <1>1, <1>5 DEF T, e
----------------------------------------------------------------------------
(* Orders.  Rows that no rank tells apart. *)
Tie(ranks, i, j) == \A m \in DOMAIN ranks : ranks[m][i] = ranks[m][j]

LEMMA BeforeIsOrder ==
  ASSUME NEW D, NEW n \in Nat, NEW ranks \in [1 .. n -> [D -> Int]],
         NEW i \in D, NEW j \in D, NEW k \in D
  PROVE  /\ ~Before(ranks, i, i)
         /\ Before(ranks, i, j) /\ Before(ranks, j, k) => Before(ranks, i, k)
         /\ Before(ranks, i, j) \/ Before(ranks, j, i) \/ Tie(ranks, i, j)
         /\ Tie(ranks, i, j) /\ Before(ranks, j, k) => Before(ranks, i, k)
         /\ Before(ranks, i, j) /\ Tie(ranks, j, k) => Before(ranks, i, k)
<1>1. \A m \in 1 .. n : ranks[m][i] \in Int /\ ranks[m][j] \in Int /\ ranks[m][k] \in Int
  OBVIOUS
<1>2. ~Before(ranks, i, i)
  BY <1>1 DEF Before
<1>3. ASSUME Before(ranks, i, j), Before(ranks, j, k)
      PROVE  Before(ranks, i, k)
  <2>1. PICK a \in 1 .. n : /\ ranks[a][i] < ranks[a][j]
                            /\ \A l \in 1 .. a - 1 : ranks[l][i] = ranks[l][j]
    BY <1>3 DEF Before
  <2>2. PICK b \in 1 .. n : /\ ranks[b][j] < ranks[b][k]
                            /\ \A l \in 1 .. b - 1 : ranks[l][j] = ranks[l][k]
    BY <1>3 DEF Before
  <2>3. CASE a <= b
    <3>1. ranks[a][i] < ranks[a][k]
      <4>1. CASE a = b
        BY <1>1, <2>1, <2>2, <4>1
      <4>2. CASE a < b
        <5>1. a \in 1 .. b - 1
          BY <4>2
        <5>2. ranks[a][j] = ranks[a][k]
          BY <2>2, <5>1
        <5> QED
          BY <2>1, <5>2
      <4> QED
        BY <2>3, <4>1, <4>2
    <3>2. \A l \in 1 .. a - 1 : ranks[l][i] = ranks[l][k]
      BY <2>1, <2>2, <2>3
    <3> QED
      BY <3>1, <3>2 DEF Before
  <2>4. CASE b < a
    <3>1. ranks[b][i] < ranks[b][k]
      BY <1>1, <2>1, <2>2, <2>4
    <3>2. \A l \in 1 .. b - 1 : ranks[l][i] = ranks[l][k]
      BY <2>1, <2>2, <2>4
    <3> QED
      BY <3>1, <3>2 DEF Before
  <2> QED
    BY <2>3, <2>4
<1>4. ASSUME ~Tie(ranks, i, j)
      PROVE  Before(ranks, i, j) \/ Before(ranks, j, i)
  <2> DEFINE T == {m \in 1 .. n : ranks[m][i] # ranks[m][j]}
  <2>1. T \subseteq Nat /\ T # {}
    <3>1. DOMAIN ranks = 1 .. n
      OBVIOUS
    <3>2. PICK m \in 1 .. n : ranks[m][i] # ranks[m][j]
      BY <1>4, <3>1 DEF Tie
    <3>3. m \in T
      BY <3>2
    <3>4. T \subseteq Nat
      OBVIOUS
    <3> QED
      BY <3>3, <3>4
  <2>2. PICK m \in T : \A l \in T : m <= l
    BY <2>1, LeastNumber
  <2>3. \A l \in 1 .. m - 1 : ranks[l][i] = ranks[l][j]
    BY <2>2
  <2>4. ranks[m][i] < ranks[m][j] \/ ranks[m][j] < ranks[m][i]
    BY <1>1, <2>2
  <2> QED
    BY <2>2, <2>3, <2>4 DEF Before
<1>5. ASSUME Tie(ranks, i, j), Before(ranks, j, k)
      PROVE  Before(ranks, i, k)
  BY <1>5 DEF Tie, Before
<1>6. ASSUME Before(ranks, i, j), Tie(ranks, j, k)
      PROVE  Before(ranks, i, k)
  BY <1>6 DEF Tie, Before
<1> QED
  BY <1>2, <1>3, <1>4, <1>5, <1>6

LEMMA TieIsEqual ==
  ASSUME NEW ranks, NEW i, NEW j, NEW k
  PROVE  /\ Tie(ranks, i, j) => Tie(ranks, j, i)
         /\ Tie(ranks, i, j) /\ Tie(ranks, j, k) => Tie(ranks, i, k)
BY DEF Tie

LEMMA Pairs ==
  ASSUME NEW F, NEW p \in F \X F
  PROVE  \E i \in F, j \in F : p = <<i, j>>
OBVIOUS

LEMMA TableRows ==
  ASSUME table \in Tables
  PROVE  /\ table \in Seq(0 .. Largest) /\ DOMAIN table = 1 .. Len(table)
         /\ Len(table) \in Nat /\ DOMAIN table \in SUBSET Int
<1>1. table \in Seq(0 .. Largest)
  BY ParametersAssumption
<1> QED
  BY <1>1

(* How the rows of the table rank, by one key after the other. *)
Ranking == UNION {[1 .. n -> [DOMAIN table -> Int]] : n \in Nat}

(* An order of S has the ranks in it. *)
Respects(b, ranks, S) == \A i, j \in S : Before(ranks, i, j) => <<i, j>> \in b

(* An order of some of the rows is part of an order of all: what the ranks *)
(* leave open of the others is settled by their numbers.                   *)
LEMMA OrdersExtend ==
  ASSUME table \in Tables, NEW ranks \in Ranking,
         NEW S \in SUBSET DOMAIN table, NEW F \in SUBSET S,
         NEW b \in OrdersOf(F), Respects(b, ranks, F)
  PROVE  \E c \in OrdersOf(S) : Respects(c, ranks, S) /\ Within(c, F) = b
<1> DEFINE D == DOMAIN table
<1>0. PICK n \in Nat : ranks \in [1 .. n -> [D -> Int]]
  BY DEF Ranking
<1>12. D \in SUBSET Int /\ S \in SUBSET D
  BY TableRows
<1> HIDE DEF D
<1> DEFINE Open(i, j) == \/ i \in F /\ j \in F /\ <<i, j>> \in b
                         \/ i \in F /\ j \notin F
                         \/ i \notin F /\ j \notin F /\ i < j
           Less(i, j) == Before(ranks, i, j) \/ (Tie(ranks, i, j) /\ Open(i, j))
           c == {p \in S \X S : Less(p[1], p[2])}
<1>1. /\ b \subseteq F \X F
      /\ \A i \in F : <<i, i>> \notin b
      /\ \A i, j \in F : i # j => <<i, j>> \in b \/ <<j, i>> \in b
      /\ \A i, j, k \in F : <<i, j>> \in b /\ <<j, k>> \in b => <<i, k>> \in b
  BY DEF OrdersOf
<1>2. \A i, j, k \in S : Open(i, j) /\ Open(j, k) => Open(i, k)
  <2>1. \A i \in S : i \in Int
    BY <1>12
  <2> QED
    BY <1>1, <2>1
<1>3. ASSUME NEW i \in S, NEW j \in S
      PROVE  ~Open(i, i) /\ (i # j => Open(i, j) \/ Open(j, i))
  <2>1. i \in Int /\ j \in Int
    BY <1>12
  <2>2. ~Open(i, i)
    BY <1>1, <2>1
  <2>3. CASE i \in F /\ j \in F
    BY <1>1, <2>2, <2>3
  <2>4. CASE i \notin F \/ j \notin F
    BY <2>1, <2>2, <2>4
  <2> QED
    BY <2>3, <2>4
<1> HIDE DEF Open
<1>4. \A i \in S : ~Less(i, i)
  BY <1>0, <1>3, <1>12, BeforeIsOrder
<1>5. \A i, j \in S : i # j => Less(i, j) \/ Less(j, i)
  BY <1>0, <1>3, <1>12, BeforeIsOrder, TieIsEqual
<1>6. ASSUME NEW i \in S, NEW j \in S, NEW k \in S, Less(i, j), Less(j, k)
      PROVE  Less(i, k)
  <2>0. i \in D /\ j \in D /\ k \in D
    BY <1>12
  <2>1. CASE Before(ranks, i, j) \/ Before(ranks, j, k)
    <3>1. Before(ranks, i, k)
      BY <1>0, <1>6, <2>0, <2>1, BeforeIsOrder
    <3> QED
      BY <3>1
  <2>2. CASE Tie(ranks, i, j) /\ Open(i, j) /\ Tie(ranks, j, k) /\ Open(j, k)
    BY <1>2, <2>2, TieIsEqual
  <2> QED
    BY <1>6, <2>1, <2>2
<1>7. \A i, j \in S : <<i, j>> \in c <=> Less(i, j)
  OBVIOUS
<1>8. c \in OrdersOf(S)
  <2>1. c \in SUBSET (S \X S)
    OBVIOUS
  <2> HIDE DEF c, Less
  <2> QED
    BY <1>4, <1>5, <1>6, <1>7, <2>1 DEF OrdersOf
<1>9. Respects(c, ranks, S)
  BY <1>7 DEF Respects
<1>10. \A i, j \in F : <<i, j>> \in c <=> <<i, j>> \in b
  <2> SUFFICES ASSUME NEW i \in F, NEW j \in F PROVE Less(i, j) <=> <<i, j>> \in b
    BY <1>7
  <2>1. Open(i, j) <=> <<i, j>> \in b
    BY DEF Open
  <2>2. ASSUME <<i, j>> \in b PROVE ~Before(ranks, j, i)
    BY <1>1, <2>2 DEF Respects
  <2>3. i \in D /\ j \in D
    BY <1>12
  <2>4. Before(ranks, i, j) \/ Before(ranks, j, i) \/ Tie(ranks, i, j)
    BY <1>0, <2>3, BeforeIsOrder
  <2> QED
    BY <2>1, <2>2, <2>4 DEF Respects
<1>11. Within(c, F) = b
  <2> HIDE DEF c
  <2>1. ASSUME NEW p \in F \X F PROVE p \in c <=> p \in b
    <3>1. PICK i \in F, j \in F : p = <<i, j>>
      BY Pairs
    <3> QED
      BY <1>10, <3>1
  <2>2. Within(c, F) \subseteq F \X F
    BY DEF Within
  <2>3. \A p \in F \X F : p \in Within(c, F) <=> p \in c
    BY DEF Within
  <2> QED
    BY <1>1, <2>1, <2>2, <2>3
<1> QED
  BY <1>8, <1>9, <1>11
(* Every order that the ranks allow is among the listings. *)
LEMMA ListingIsOrdering ==
  ASSUME table \in Tables, NEW S \in SUBSET DOMAIN table, NEW ranks, NEW b \in OrdersOf(S),
         Respects(b, ranks, S)
  PROVE  Rows(S, b) \in Orderings(S, ranks)
<1>1. S \in SUBSET UNION {DOMAIN t : t \in Tables}
  OBVIOUS
<1>2. Rows(S, b) \in {Rows(S, c) : c \in OrdersOf(S)}
  OBVIOUS
<1>3. Rows(S, b) \in Listings
  BY <1>1, <1>2 DEF Listings
<1>4. Rows(S, b).rows = S /\ Rows(S, b).before = b
  BY DEF Rows
<1> QED
  BY <1>3, <1>4 DEF Orderings, Respects

(* Sorting some of the rows is sorting them all and keeping some. *)
LEMMA OrderingExtends ==
  ASSUME table \in Tables, NEW ranks \in Ranking,
         NEW S \in SUBSET DOMAIN table, NEW F \in SUBSET S, NEW l \in Orderings(F, ranks)
  PROVE  \E m \in Orderings(S, ranks) : Within(m.before, F) = l.before
<1> DEFINE b == l.before
<1>1. b \in OrdersOf(F) /\ Respects(b, ranks, F)
  BY ListingRows DEF Orderings, Respects
<1> HIDE DEF b
<1>2. PICK c \in OrdersOf(S) : Respects(c, ranks, S) /\ Within(c, F) = b
  BY <1>1, OrdersExtend
<1>3. Rows(S, c) \in Orderings(S, ranks)
  BY <1>2, ListingIsOrdering
<1>4. Rows(S, c).before = c
  BY DEF Rows
<1> QED
  BY <1>2, <1>3, <1>4 DEF b

(* However rows are ranked there is an order of them. *)
LEMMA SomeOrdering ==
  ASSUME table \in Tables, NEW ranks \in Ranking, NEW S \in SUBSET DOMAIN table
  PROVE  Orderings(S, ranks) # {}
<1>1. {} \in OrdersOf({})
  BY DEF OrdersOf
<1>2. Rows({}, {}) \in Orderings({}, ranks)
  BY <1>1, ListingIsOrdering DEF Respects
<1> QED
  BY <1>2, OrderingExtends

LEMMA RanksType ==
  ASSUME table \in Tables, NEW ks \in Seq(Keys)
  PROVE  Ranks(ks) \in Ranking /\ CosmosRanks(ks) \in Ranking
<1>1. DOMAIN ks = 1 .. Len(ks) /\ Len(ks) \in Nat
  OBVIOUS
<1>3. Largest \in Nat
  BY ParametersAssumption
<1>2. \A i \in DOMAIN table : table[i] \in Int /\ i \in Int
  <2>1. \A i \in DOMAIN table : table[i] \in 0 .. Largest
    BY <1>3, TableRows
  <2> QED
    BY <1>3, <2>1, TableRows
<1>4. \A k : \A i \in DOMAIN table : Rank(k, i) \in Int
  BY <1>2, <1>3 DEF Rank
<1>5. \A k : \A i \in DOMAIN table : CosmosRank(k, i) \in Int
  BY <1>2 DEF CosmosRank
<1> DEFINE T == [DOMAIN table -> Int]
<1>8. ASSUME NEW k
      PROVE  /\ [i \in DOMAIN table |-> Rank(k, i)] \in T
             /\ [i \in DOMAIN table |-> CosmosRank(k, i)] \in T
  BY <1>4, <1>5
<1> HIDE DEF T
<1>6. Ranks(ks) \in [1 .. Len(ks) -> T]
  BY <1>1, <1>8 DEF Ranks
<1>7. CosmosRanks(ks) \in [1 .. Len(ks) -> T]
  BY <1>1, <1>8 DEF CosmosRanks
<1> QED
  BY <1>1, <1>6, <1>7 DEF T, Ranking

(* On keys that Cosmos orders like DataFusion the orders are the same. *)
LEMMA SameOrderings ==
  ASSUME table \in Tables, NEW ks \in Seq(Keys), \A m \in DOMAIN ks : CosmosOrders(ks[m]),
         NEW S \in SUBSET DOMAIN table
  PROVE  Orderings(S, CosmosRanks(ks)) = Orderings(S, Ranks(ks))
<1>1. Largest \in Nat /\ \A i \in DOMAIN table : table[i] \in 0 .. Largest
  BY TableRows, ParametersAssumption
<1>2. ASSUME NEW m \in DOMAIN ks, NEW i \in DOMAIN table, NEW j \in DOMAIN table
      PROVE  /\ Rank(ks[m], i) < Rank(ks[m], j) <=> CosmosRank(ks[m], i) < CosmosRank(ks[m], j)
             /\ Rank(ks[m], i) = Rank(ks[m], j) <=> CosmosRank(ks[m], i) = CosmosRank(ks[m], j)
  <2> DEFINE k == ks[m]
  <2>1. k.col = "n" /\ k.nulls_first = k.asc
    BY DEF CosmosOrders
  <2>2. k.asc \in BOOLEAN
    <3>1. k \in Keys
      OBVIOUS
    <3> HIDE DEF k
    <3> QED
      BY <3>1 DEF Keys
  <2> HIDE DEF k
  <2>3. table[i] \in 0 .. Largest /\ table[j] \in 0 .. Largest
    BY <1>1
  <2>4. CASE k.asc
    BY <1>1, <2>1, <2>3, <2>4 DEF Rank, CosmosRank, k
  <2>5. CASE ~k.asc
    BY <1>1, <2>1, <2>3, <2>5 DEF Rank, CosmosRank, k
  <2> QED
    BY <2>2, <2>4, <2>5
<1>3. \A m \in DOMAIN ks, i \in DOMAIN table :
        Ranks(ks)[m][i] = Rank(ks[m], i) /\ CosmosRanks(ks)[m][i] = CosmosRank(ks[m], i)
  BY DEF Ranks, CosmosRanks
<1>4. DOMAIN Ranks(ks) = DOMAIN ks /\ DOMAIN CosmosRanks(ks) = DOMAIN ks
  BY DEF Ranks, CosmosRanks
<1>5. ASSUME NEW i \in DOMAIN table, NEW j \in DOMAIN table
      PROVE  Before(CosmosRanks(ks), i, j) <=> Before(Ranks(ks), i, j)
  <2>1. DOMAIN ks = 1 .. Len(ks)
    OBVIOUS
  <2>2. \A m \in DOMAIN ks : \A q \in 1 .. m - 1 : q \in DOMAIN ks
    BY <2>1
  <2> QED
    BY <1>2, <1>3, <1>4, <2>2 DEF Before
<1>6. \A i, j \in S : Before(CosmosRanks(ks), i, j) <=> Before(Ranks(ks), i, j)
  BY <1>5
<1> QED
  BY <1>6 DEF Orderings
Passing(S, p) == {i \in S : Passes(p, i)}

(* Keeping some rows of a listing of them all gives any listing of those.  *)
LEMMA KeptOfOrdering ==
  ASSUME table \in Tables, NEW ranks \in Ranking, NEW S \in SUBSET DOMAIN table, NEW p,
         NEW l \in Orderings(Passing(S, p), ranks)
  PROVE  \E m \in Orderings(S, ranks) : Kept(m, p) = l
<1> DEFINE F == Passing(S, p)
<1>1. F \in SUBSET S /\ l \in Orderings(F, ranks)
  BY DEF Passing
<1>2. \A m : m.rows = S => Kept(m, p) = Rows(F, Within(m.before, F))
  BY DEF Kept, Passing
<1> HIDE DEF F
<1>3. PICK m \in Orderings(S, ranks) : Within(m.before, F) = l.before
  BY <1>1, OrderingExtends
<1>4. m.rows = S /\ l = Rows(F, l.before)
  BY <1>1, ListingRows
<1> QED
  BY <1>2, <1>3, <1>4
----------------------------------------------------------------------------
(* Windows. *)
LEMMA TableIsFinite ==
  ASSUME table \in Tables, NEW S \in SUBSET DOMAIN table
  PROVE  IsFiniteSet(S)
<1>1. IsFiniteSet(1 .. Len(table))
  BY TableRows, FS_Interval
<1> QED
  BY <1>1, TableRows, FS_Subset

LEMMA WithinAll ==
  ASSUME NEW S, NEW b \in OrdersOf(S)
  PROVE  Within(b, S) = b
BY DEF Within, OrdersOf

(* All rows from the first on. *)
LEMMA WholeWindow ==
  ASSUME NEW S, IsFiniteSet(S), NEW b \in OrdersOf(S)
  PROVE  Window(Rows(S, b), 0, None) = Rows(S, b)
<1> DEFINE place(i) == Cardinality({j \in S : <<j, i>> \in b})
<1>1. \A i : 0 <= place(i)
  <2> SUFFICES ASSUME NEW i PROVE 0 <= place(i)
    OBVIOUS
  <2>1. IsFiniteSet({j \in S : <<j, i>> \in b})
    BY FS_Subset
  <2> QED
    BY <2>1, FS_CardinalityType
<1>2. Window(Rows(S, b), 0, None) =
        LET R == {i \in S : 0 <= place(i) /\ (None # None => place(i) < 0 + None)}
        IN  Rows(R, Within(b, R))
  BY DEF Window, Rows
<1> HIDE DEF place
<1>3. {i \in S : 0 <= place(i) /\ (None # None => place(i) < 0 + None)} = S
  BY <1>1
<1> QED
  BY <1>2, <1>3, WithinAll

(* A window of the first rows is a window of all of them, when the first   *)
(* reach as far.                                                           *)
LEMMA WindowOfFirst ==
  ASSUME NEW S, IsFiniteSet(S), NEW b \in OrdersOf(S), NEW skip \in Nat, NEW f \in Nat,
         NEW n \in Nat, skip + f <= n
  PROVE  Window(Window(Rows(S, b), 0, n), skip, f) = Window(Rows(S, b), skip, f)
<1> DEFINE P(i) == {j \in S : <<j, i>> \in b}
           place(i) == Cardinality(P(i))
           R == {i \in S : place(i) < n}
           W == Rows(R, Within(b, R))
<1>0. n # None /\ f # None
  BY DEF None
<1>1. ASSUME NEW i PROVE IsFiniteSet(P(i)) /\ place(i) \in Nat
  <2>1. IsFiniteSet(P(i))
    BY FS_Subset
  <2> QED
    BY <2>1, FS_CardinalityType
<1>2. Window(Rows(S, b), 0, n) = W
  <2>1. Window(Rows(S, b), 0, n) =
          LET T == {i \in S : 0 <= place(i) /\ (n # None => place(i) < 0 + n)}
          IN  Rows(T, Within(b, T))
    BY DEF Window, Rows
  <2>2. \A i \in S : place(i) \in Nat
    BY <1>1
  <2> HIDE DEF place
  <2>3. \A i \in S : 0 <= place(i) /\ (n # None => place(i) < 0 + n) <=> place(i) < n
    BY <1>0, <2>2
  <2>4. {i \in S : 0 <= place(i) /\ (n # None => place(i) < 0 + n)} = R
    BY <2>3
  <2> QED
    BY <2>1, <2>4
<1>3. ASSUME NEW i \in R, NEW j \in S, <<j, i>> \in b
      PROVE  j \in R
  <2>1. P(j) \subseteq P(i)
    BY <1>3 DEF OrdersOf
  <2>2. place(j) <= place(i)
    BY <1>1, <2>1, FS_Subset
  <2>3. place(j) \in Nat /\ place(i) \in Nat /\ place(i) < n
    BY <1>1
  <2>4. place(j) < n
    <3> HIDE DEF place
    <3> QED
      BY <2>2, <2>3
  <2> QED
    BY <2>4
<1>4. ASSUME NEW i \in R
      PROVE  Cardinality({j \in R : <<j, i>> \in Within(b, R)}) = place(i)
  <2>1. {j \in R : <<j, i>> \in Within(b, R)} = P(i)
    BY <1>3 DEF Within
  <2> QED
    BY <2>1
<1> DEFINE T == {i \in S : skip <= place(i) /\ (f # None => place(i) < skip + f)}
<1>5. Window(Rows(S, b), skip, f) = Rows(T, Within(b, T))
  BY DEF Window, Rows
<1> DEFINE inner(i) == Cardinality({j \in R : <<j, i>> \in Within(b, R)})
           U == {i \in R : skip <= inner(i) /\ (f # None => inner(i) < skip + f)}
<1>6. Window(W, skip, f) = Rows(U, Within(Within(b, R), U))
  BY DEF Window, Rows
<1>7. U = T
  <2>1. \A i \in R : inner(i) = place(i)
    BY <1>4
  <2>2. \A i \in S : place(i) \in Nat
    BY <1>1
  <2> HIDE DEF inner, place
  <2>3. \A i \in S : i \in R <=> place(i) < n
    OBVIOUS
  <2>4. \A i \in S : place(i) < skip + f => i \in R
    BY <2>2, <2>3
  <2>5. R \subseteq S
    OBVIOUS
  <2> HIDE DEF R
  <2> QED
    BY <1>0, <2>1, <2>4, <2>5
<1>8. T \subseteq R
  <2>1. U \subseteq R
    OBVIOUS
  <2> QED
    BY <1>7, <2>1
<1> HIDE DEF T, U, R
<1>9. Within(Within(b, R), T) = Within(b, T)
  BY <1>8 DEF Within
<1> QED
  BY <1>2, <1>5, <1>6, <1>7, <1>9
----------------------------------------------------------------------------
(* What plans mean depends on the table alone. *)
LEMMA InsideIs == InsideFrom(Operators)
BY InsideDefined

LEMMA SameApply ==
  ASSUME table' = table
  PROVE  \A o, a : Apply(o, a)' = Apply(o, a)
<1>1. \A p, i : Passes(p, i)' = Passes(p, i)
  BY DEF Passes
<1>2. \A a, p : Kept(a, p)' = Kept(a, p)
  BY <1>1 DEF Kept
<1>3. \A ks : Ranks(ks)' = Ranks(ks)
  BY DEF Ranks, Rank
<1>4. \A f, S : Aggregate(f, S)' = Aggregate(f, S)
  BY DEF Aggregate, NonNull
<1> SUFFICES ASSUME NEW o, NEW a PROVE Apply(o, a)' = Apply(o, a)
  OBVIOUS
<1> DEFINE sorted == {Window(l, 0, o.fetch) : l \in Orderings(a.rows, Ranks(o.keys))}
           rows == Kept(a, o.pred)
           val == Value(Aggregate(o.fn, a.rows))
<1>5. sorted' = sorted /\ rows' = rows /\ val' = val
  BY <1>2, <1>3, <1>4
<1>6. Apply(o, a) = IF a = Error THEN {Error} ELSE
        CASE o.op = "filter" -> {rows}
          [] o.op = "limit"  -> {Window(a, o.skip, o.fetch)}
          [] o.op = "agg"    -> {val}
          [] o.op = "sort"   -> sorted
  BY DEF Apply
<1>7. Apply(o, a)' = IF a = Error THEN {Error} ELSE
        CASE o.op = "filter" -> {rows'}
          [] o.op = "limit"  -> {Window(a, o.skip, o.fetch)}
          [] o.op = "agg"    -> {val'}
          [] o.op = "sort"   -> sorted'
  BY DEF Apply
<1> HIDE DEF sorted, rows, val
<1> QED
  BY <1>5, <1>6, <1>7

LEMMA SameAbove ==
  ASSUME table' = table, NEW os \in Seq(Operators), NEW A
  PROVE  Above(os, A)' = Above(os, A)
<1> DEFINE n == Len(os)
           e == Inside(os, A)
           e2 == Inside(os, A)'
           T == {d \in Nat : d <= n => e2[d] = e[d]}
<1>1. n \in Nat
  OBVIOUS
<1>2. InsideFrom(Operators)'
  BY InsideIs, PTL
<1>3. /\ e[0] = A
      /\ \A i \in 1 .. n : e[i] = UNION {Apply(os[n - i + 1], a) : a \in e[i - 1]}
  BY InsideIs DEF InsideFrom
<1>4. /\ e2[0] = A
      /\ \A i \in 1 .. n : e2[i] = UNION {Apply(os[n - i + 1], a)' : a \in e2[i - 1]}
  BY <1>2 DEF InsideFrom
<1>5. \A o, a : Apply(o, a)' = Apply(o, a)
  BY SameApply
<1> HIDE DEF e, e2
<1>6. 0 \in T
  BY <1>3, <1>4
<1>7. ASSUME NEW d \in Nat, d \in T PROVE d + 1 \in T
  <2> SUFFICES ASSUME d + 1 <= n PROVE e2[d + 1] = e[d + 1]
    OBVIOUS
  <2>1. e2[d] = e[d]
    BY <1>1, <1>7
  <2>2. d + 1 \in 1 .. n /\ d + 1 - 1 = d
    BY <1>1
  <2>3. e[d + 1] = UNION {Apply(os[n - (d + 1) + 1], a) : a \in e[d]}
    BY <1>3, <2>2
  <2>4. e2[d + 1] = UNION {Apply(os[n - (d + 1) + 1], a)' : a \in e2[d]}
    BY <1>4, <2>2
  <2> QED
    BY <1>5, <2>1, <2>3, <2>4
<1> HIDE DEF T
<1>8. n \in T
  BY <1>1, <1>6, <1>7, Induction
<1>9. e2[n] = e[n]
  BY <1>1, <1>8 DEF T
<1> QED
  BY <1>9 DEF Above, e, e2

LEMMA SameScanAnswers ==
  ASSUME table' = table
  PROVE  \A sc : ScanAnswers(sc)' = ScanAnswers(sc)
<1>1. \A sc : Selected(sc)' = Selected(sc)
  BY DEF Selected, Passes
<1>2. \A S : NonNull(S)' = NonNull(S)
  BY DEF NonNull
<1>3. \A ks : CosmosRanks(ks)' = CosmosRanks(ks)
  BY DEF CosmosRanks, CosmosRank
<1>4. \A sc : ScalarAnswers(sc)' = ScalarAnswers(sc)
  BY <1>1, <1>2 DEF ScalarAnswers
<1>5. \A sc : DocsAnswers(sc)' = DocsAnswers(sc)
  BY <1>1, <1>3 DEF DocsAnswers
<1> QED
  BY <1>4, <1>5 DEF ScanAnswers

LEMMA SameAnswers ==
  ASSUME table' = table, NEW os \in Seq(Operators), NEW sc
  PROVE  Answers(os, sc)' = Answers(os, sc)
<1>1. ScanAnswers(sc)' = ScanAnswers(sc)
  BY SameScanAnswers
<1>2. \A A : Above(os, A)' = Above(os, A)
  BY SameAbove
<1> QED
  BY <1>1, <1>2 DEF Answers
----------------------------------------------------------------------------
(* Two operators of a plan, one above the other. *)
AfterTwo(os, j, B) ==
  UNION {Apply(os[j], a) : a \in UNION {Apply(os[j + 1], b) : b \in B}}

LEMMA TwoOperators ==
  ASSUME NEW os \in Seq(Operators), NEW A, NEW j \in 1 .. Len(os) - 1
  PROVE  Inside(os, A)[Len(os) - j + 1] = AfterTwo(os, j, Inside(os, A)[Len(os) - j - 1])
<1> DEFINE n == Len(os)
           e == Inside(os, A)
<1>1. \A i \in 1 .. n : e[i] = UNION {Apply(os[n - i + 1], a) : a \in e[i - 1]}
  BY InsideIs DEF InsideFrom
<1>2. n \in Nat
  OBVIOUS
<1> HIDE DEF e
<1>3. e[n - j + 1] = UNION {Apply(os[j], a) : a \in e[n - j]}
  <2> DEFINE i == n - j + 1
  <2>1. i \in 1 .. n /\ i - 1 = n - j /\ n - i + 1 = j
    BY <1>2
  <2> HIDE DEF i
  <2>2. e[i] = UNION {Apply(os[j], a) : a \in e[n - j]}
    BY <1>1, <2>1
  <2> QED
    BY <2>2 DEF i
<1>4. e[n - j] = UNION {Apply(os[j + 1], a) : a \in e[n - j - 1]}
  <2> DEFINE i == n - j
  <2>1. i \in 1 .. n /\ i - 1 = n - j - 1 /\ n - i + 1 = j + 1
    BY <1>2
  <2> HIDE DEF i
  <2>2. e[i] = UNION {Apply(os[j + 1], a) : a \in e[n - j - 1]}
    BY <1>1, <2>1
  <2> QED
    BY <2>2 DEF i
<1> QED
  BY <1>3, <1>4 DEF e, AfterTwo

(* Rewriting two neighbours keeps a plan's meaning if it keeps theirs. *)
LEMMA NeighboursKeep ==
  ASSUME NEW os \in Seq(Operators), NEW os2 \in Seq(Operators), NEW A,
         Len(os2) = Len(os), NEW j \in 1 .. Len(os) - 1,
         \A i \in DOMAIN os \ {j, j + 1} : os2[i] = os[i],
         \A a \in A : IsRows(a), \A i \in j + 2 .. Len(os) : os[i].op # "agg",
         \A a : IsRows(a) =>
           \A b \in Apply(os2[j + 1], a) : \A x \in Apply(os2[j], b) :
             \E c \in Apply(os[j + 1], a) : x \in Apply(os[j], c)
  PROVE  Above(os2, A) \subseteq Above(os, A)
<1> DEFINE n == Len(os)
           B == Inside(os, A)[n - j - 1]
<1>0. n \in Nat /\ DOMAIN os = 1 .. n
  OBVIOUS
<1>1. n - j - 1 \in 0 .. Len(os) /\ n - (n - j - 1) + 1 = j + 2
  BY <1>0
<1>2. \A i \in j + 2 .. n : os[i] = os2[i]
  BY <1>0
<1>3. Inside(os2, A)[n - j - 1] = B
  <2> DEFINE k == n - j - 1
  <2>1. k \in 0 .. Len(os) /\ \A i \in Len(os) - k + 1 .. Len(os) : os[i] = os2[i]
    BY <1>1, <1>2
  <2> HIDE DEF k
  <2>2. Inside(os2, A)[k] = Inside(os, A)[k]
    BY <2>1, InnerKeeps
  <2> QED
    BY <2>2 DEF k
<1>4. \A a \in B : IsRows(a)
  <2> DEFINE k == n - j - 1
  <2>1. k \in 0 .. Len(os) /\ \A i \in Len(os) - k + 1 .. Len(os) : os[i].op # "agg"
    BY <1>1
  <2> HIDE DEF k
  <2>2. \A a \in Inside(os, A)[k] : IsRows(a)
    BY <2>1, InsideRows
  <2> QED
    BY <2>2 DEF k
<1>5. Inside(os, A)[n - j + 1] = AfterTwo(os, j, B)
  BY TwoOperators
<1>6. Inside(os2, A)[n - j + 1] = AfterTwo(os2, j, B)
  <2>1. j \in 1 .. Len(os2) - 1
    OBVIOUS
  <2>2. Inside(os2, A)[Len(os2) - j + 1] = AfterTwo(os2, j, Inside(os2, A)[Len(os2) - j - 1])
    BY <2>1, TwoOperators
  <2> QED
    BY <1>3, <2>2
<1> HIDE DEF B
<1>7. Inside(os2, A)[n - j + 1] \subseteq Inside(os, A)[n - j + 1]
  BY <1>4, <1>5, <1>6 DEF AfterTwo
<1> DEFINE k == n - j + 1
<1>8. k \in 0 .. Len(os) /\ k \in 0 .. Len(os2) /\ \A i \in 1 .. Len(os) - k : os[i] = os2[i]
  <2>1. k \in 0 .. Len(os) /\ k \in 0 .. Len(os2) /\ Len(os) - k = j - 1
    BY <1>0
  <2>2. \A i \in 1 .. j - 1 : i \in DOMAIN os \ {j, j + 1}
    BY <1>0
  <2> HIDE DEF k
  <2> QED
    BY <2>1, <2>2
<1>9. Inside(os2, A)[k] \subseteq Inside(os, A)[k]
  BY <1>7
<1> HIDE DEF k
<1> QED
  BY <1>8, <1>9, OuterKeeps

LEMMA WholeListing ==
  ASSUME table \in Tables, NEW S \in SUBSET DOMAIN table, NEW ranks, NEW l \in Orderings(S, ranks)
  PROVE  /\ Window(l, 0, None) = l
         /\ l = Rows(S, l.before) /\ l.before \in OrdersOf(S) /\ IsFiniteSet(S)
<1>1. l = Rows(S, l.before) /\ l.before \in OrdersOf(S)
  BY ListingRows
<1>2. IsFiniteSet(S)
  BY TableIsFinite
<1> DEFINE b == l.before
<1>3. l = Rows(S, b) /\ b \in OrdersOf(S)
  BY <1>1
<1> HIDE DEF b
<1>4. Window(Rows(S, b), 0, None) = Rows(S, b)
  BY <1>2, <1>3, WholeWindow
<1> QED
  BY <1>1, <1>2, <1>3, <1>4

LEMMA SortKeysType ==
  ASSUME NEW ks \in SortKeys \cup {<<>>}
  PROVE  ks \in Seq(Keys)
<1>1. CASE ks = <<>>
  BY <1>1
<1>2. CASE ks \in SortKeys
  BY <1>2, ParametersAssumption
<1> QED
  BY <1>1, <1>2

LEMMA ErrorIsNoRows ==
  ASSUME NEW a, IsRows(a)
  PROVE  a # Error
BY DEF IsRows, Error

(* A filter above a sort, and below it. *)
LEMMA FilterBelowSort ==
  ASSUME table \in Tables, NEW filter \in Operators, NEW sort \in Operators,
         filter.op = "filter", sort.op = "sort", sort.fetch = None,
         NEW a, IsRows(a), NEW b \in Apply(filter, a), NEW x \in Apply(sort, b)
  PROVE  \E c \in Apply(sort, a) : x \in Apply(filter, c)
<1> DEFINE S == a.rows
           F == Passing(S, filter.pred)
           ranks == Ranks(sort.keys)
<1>1. S \in SUBSET DOMAIN table
  BY DEF IsRows
<1>2. b = Kept(a, filter.pred) /\ b.rows = F /\ b.kind = "rows"
  BY ErrorIsNoRows DEF Apply, Kept, Rows, Passing
<1>3. b # Error
  BY <1>2 DEF Error
<1>4. PICK l \in Orderings(F, ranks) : x = Window(l, 0, None)
  BY <1>2, <1>3 DEF Apply
<1>5. F \in SUBSET DOMAIN table
  BY <1>1 DEF Passing
<1>6. x = l
  BY <1>4, <1>5, WholeListing
<1>7. ranks \in Ranking
  BY SortKeysType, RanksType DEF Operators
<1> HIDE DEF S, ranks
<1>8. PICK m \in Orderings(S, ranks) : Kept(m, filter.pred) = l
  BY <1>1, <1>4, <1>7, KeptOfOrdering
<1>9. m = Window(m, 0, None) /\ m.kind = "rows"
  BY <1>1, WholeListing, ListingRows
<1>10. m \in Apply(sort, a)
  BY <1>9, ErrorIsNoRows DEF Apply, S, ranks
<1>11. x \in Apply(filter, m)
  BY <1>6, <1>8, <1>9 DEF Apply, Error
<1> QED
  BY <1>10, <1>11

(* A limit above a sort, and merged into it: the rows it needs come first. *)
LEMMA LimitInSort ==
  ASSUME table \in Tables, NEW limit \in Operators, NEW sort \in Operators, NEW top \in Operators,
         limit.op = "limit", sort.op = "sort", sort.fetch = None,
         top.op = "sort", top.keys = sort.keys, top.fetch = Reach(limit),
         NEW a, IsRows(a), NEW b \in Apply(top, a), NEW x \in Apply(limit, b)
  PROVE  \E c \in Apply(sort, a) : x \in Apply(limit, c)
<1> DEFINE S == a.rows
           ranks == Ranks(sort.keys)
           n == Reach(limit)
<1>1. S \in SUBSET DOMAIN table
  BY DEF IsRows
<1>2. limit.skip \in Nat /\ limit.fetch \in Nat /\ n \in Nat /\ limit.skip + limit.fetch <= n
  BY DEF Operators, Reach
<1>3. PICK l \in Orderings(S, ranks) : b = Window(l, 0, n)
  BY ErrorIsNoRows DEF Apply
<1> DEFINE c == l.before
<1> HIDE DEF S, ranks, n
<1>4. /\ l = Rows(S, c) /\ c \in OrdersOf(S) /\ IsFiniteSet(S)
      /\ l = Window(l, 0, None) /\ l.kind = "rows"
  BY <1>1, WholeListing, ListingRows
<1> HIDE DEF c
<1>5. b.kind = "rows"
  BY <1>3, WindowRows
<1>6. x = Window(b, limit.skip, limit.fetch)
  BY <1>5 DEF Apply, Error
<1>7. x = Window(l, limit.skip, limit.fetch)
  BY <1>2, <1>3, <1>4, <1>6, WindowOfFirst
<1>8. l \in Apply(sort, a)
  BY <1>4, ErrorIsNoRows DEF Apply, S, ranks
<1>9. x \in Apply(limit, l)
  BY <1>4, <1>7 DEF Apply, Error
<1> QED
  BY <1>8, <1>9
----------------------------------------------------------------------------
(* The innermost operator of a plan, left to the scan. *)
LEMMA InnermostGoes ==
  ASSUME NEW os \in Seq(Operators), os # <<>>, NEW A, NEW A2,
         \A x \in A2 : \E a \in A : x \in Apply(os[Len(os)], a)
  PROVE  Above(Front(os), A2) \subseteq Above(os, A)
<1> DEFINE n == Len(os)
           os2 == Front(os)
<1>1. n \in Nat /\ n # 0
  OBVIOUS
<1>2. os2 \in Seq(Operators) /\ Len(os2) = n - 1 /\ \A i \in 1 .. n - 1 : os2[i] = os[i]
  BY FrontFacts
<1> HIDE DEF os2
<1>3. Inside(os2, A2)[0] = A2
  BY <1>2, InsideIs DEF InsideFrom
<1>4. Inside(os, A)[1] = UNION {Apply(os[n], a) : a \in A}
  <2> DEFINE i == 1
  <2>1. i \in 1 .. n /\ n - i + 1 = n /\ i - 1 = 0
    BY <1>1
  <2> HIDE DEF i
  <2>2. Inside(os, A)[i] = UNION {Apply(os[n - i + 1], a) : a \in Inside(os, A)[i - 1]}
    BY <2>1, InsideIs DEF InsideFrom
  <2>3. Inside(os, A)[0] = A
    BY InsideIs DEF InsideFrom
  <2>4. Inside(os, A)[i] = UNION {Apply(os[n], a) : a \in A}
    BY <2>1, <2>2, <2>3
  <2> QED
    BY <2>4 DEF i
<1>5. Inside(os2, A2)[0] \subseteq Inside(os, A)[1]
  BY <1>3, <1>4
<1>6. /\ 1 \in 0 .. Len(os) /\ 0 \in 0 .. Len(os2) /\ Len(os) - 1 = Len(os2) - 0
      /\ \A i \in 1 .. Len(os) - 1 : os[i] = os2[i]
  BY <1>1, <1>2
<1> DEFINE k == 1
           k2 == 0
<1>7. /\ k \in 0 .. Len(os) /\ k2 \in 0 .. Len(os2) /\ Len(os) - k = Len(os2) - k2
      /\ \A i \in 1 .. Len(os) - k : os[i] = os2[i]
      /\ Inside(os2, A2)[k2] \subseteq Inside(os, A)[k]
  BY <1>5, <1>6
<1> HIDE DEF k, k2
<1> QED
  BY <1>2, <1>7, OuterKeeps DEF os2

(* The innermost operator stays, and makes the same of what the scan gives. *)
LEMMA InnermostStays ==
  ASSUME NEW os \in Seq(Operators), os # <<>>, NEW A, NEW A2,
         \A b \in A2 : \A x \in Apply(os[Len(os)], b) : \E a \in A : x \in Apply(os[Len(os)], a)
  PROVE  Above(os, A2) \subseteq Above(os, A)
<1> DEFINE n == Len(os)
           k == 1
<1>1. n \in Nat /\ n # 0
  OBVIOUS
<1>2. k \in 1 .. n /\ n - k + 1 = n /\ k - 1 = 0
  BY <1>1
<1> HIDE DEF k
<1>3. ASSUME NEW B PROVE Inside(os, B)[k] = UNION {Apply(os[n], a) : a \in B}
  <2>1. Inside(os, B)[k] = UNION {Apply(os[n - k + 1], a) : a \in Inside(os, B)[k - 1]}
    BY <1>2, InsideIs DEF InsideFrom
  <2>2. Inside(os, B)[0] = B
    BY InsideIs DEF InsideFrom
  <2> QED
    BY <1>2, <2>1, <2>2
<1>4. Inside(os, A2)[k] \subseteq Inside(os, A)[k]
  BY <1>3
<1>5. k \in 0 .. Len(os)
  BY <1>2
<1> QED
  BY <1>4, <1>5, OuterKeeps
----------------------------------------------------------------------------
(* Scans. *)
LEMMA ScanParts ==
  ASSUME table \in Tables, NEW sc \in Scans
  PROVE  /\ Selected(sc) \in SUBSET DOMAIN table
         /\ sc.keys \in Seq(Keys) /\ CosmosRanks(sc.keys) \in Ranking
         /\ Orderings(Selected(sc), CosmosRanks(sc.keys)) # {}
<1>1. Selected(sc) \in SUBSET DOMAIN table
  BY DEF Selected
<1>2. sc.keys \in SortKeys \cup {<<>>}
  BY DEF Scans
<1>3. sc.keys \in Seq(Keys)
  BY <1>2, SortKeysType
<1>4. CosmosRanks(sc.keys) \in Ranking
  BY <1>3, RanksType
<1> QED
  BY <1>1, <1>3, <1>4, SomeOrdering

(* At most so many rows does a scan ask for. *)
ScanLimit(sc) == IF sc.keys # <<>> /\ sc.top # None THEN sc.top ELSE sc.fetch

LEMMA DocsScan ==
  ASSUME NEW sc, sc.agg = "none", sc.cols = "some"
  PROVE  ScanAnswers(sc) =
           {Window(l, 0, ScanLimit(sc)) : l \in Orderings(Selected(sc), CosmosRanks(sc.keys))}
BY DEF ScanAnswers, DocsAnswers, ScanLimit

LEMMA ScanRows ==
  ASSUME table \in Tables, NEW sc \in Scans, sc.agg = "none", sc.cols = "some"
  PROVE  \A a \in ScanAnswers(sc) : IsRows(a)
<1>1. ScanAnswers(sc) =
        {Window(l, 0, ScanLimit(sc)) : l \in Orderings(Selected(sc), CosmosRanks(sc.keys))}
  BY DocsScan
<1>2. \A l \in Orderings(Selected(sc), CosmosRanks(sc.keys)) : l.rows \subseteq DOMAIN table
  BY ListingRows, ScanParts
<1> QED
  BY <1>1, <1>2, WindowRows DEF IsRows

(* Without a limit the scan gives every order of the rows it selects. *)
LEMMA UnlimitedScan ==
  ASSUME table \in Tables, NEW sc \in Scans, sc.agg = "none", sc.cols = "some",
         sc.fetch = None, sc.top = None
  PROVE  ScanAnswers(sc) = Orderings(Selected(sc), CosmosRanks(sc.keys))
<1> DEFINE O == Orderings(Selected(sc), CosmosRanks(sc.keys))
<1>1. \A l \in O : Window(l, 0, None) = l
  BY ScanParts, WholeListing
<1>4. ScanLimit(sc) = None
  BY DEF ScanLimit
<1>5. ScanAnswers(sc) = {Window(l, 0, ScanLimit(sc)) : l \in O}
  BY DocsScan
<1> HIDE DEF O
<1>2. ScanAnswers(sc) = {Window(l, 0, None) : l \in O}
  BY <1>4, <1>5
<1>3. {Window(l, 0, None) : l \in O} = O
  BY <1>1
<1> QED
  BY <1>2, <1>3 DEF O
----------------------------------------------------------------------------
(* The rules that reach the scan, one by one. *)
LEMMA FilterInScan ==
  ASSUME table \in Tables, NEW os \in Seq(Operators), os # <<>>, os[Len(os)].op = "filter",
         NEW sc \in Scans, sc.agg = "none", sc.cols = "some", sc.fetch = None, sc.top = None,
         NEW sc2 \in Scans, sc2 = [sc EXCEPT !.filters = @ \cup {os[Len(os)].pred}]
  PROVE  Answers(Front(os), sc2) \subseteq Answers(os, sc)
<1> DEFINE o == os[Len(os)]
           ranks == CosmosRanks(sc.keys)
           S == Selected(sc)
<1>1. /\ sc2.agg = "none" /\ sc2.cols = "some" /\ sc2.fetch = None /\ sc2.top = None
      /\ sc2.keys = sc.keys /\ sc2.filters = sc.filters \cup {o.pred}
  BY DEF Scans
<1>2. ScanAnswers(sc) = Orderings(S, ranks)
  BY UnlimitedScan
<1>3. Selected(sc2) = Passing(S, o.pred)
  BY <1>1 DEF Selected, Passing
<1>4. ScanAnswers(sc2) = Orderings(Passing(S, o.pred), ranks)
  BY <1>1, <1>3, UnlimitedScan
<1>5. S \in SUBSET DOMAIN table /\ ranks \in Ranking
  BY ScanParts
<1>6. o.op = "filter"
  OBVIOUS
<1> HIDE DEF o, S, ranks
<1>7. ASSUME NEW x \in ScanAnswers(sc2)
      PROVE  \E a \in ScanAnswers(sc) : x \in Apply(o, a)
  <2>1. PICK a \in Orderings(S, ranks) : Kept(a, o.pred) = x
    <3>1. x \in Orderings(Passing(S, o.pred), ranks)
      BY <1>4
    <3> QED
      BY <1>5, <3>1, KeptOfOrdering
  <2>2. a # Error
    BY ListingRows DEF Error
  <2>3. x \in Apply(o, a)
    BY <1>6, <2>1, <2>2 DEF Apply
  <2> QED
    BY <1>2, <2>1, <2>3
<1> QED
  BY <1>7, InnermostGoes DEF Answers, o

LEMMA LimitInScan ==
  ASSUME table \in Tables, NEW os \in Seq(Operators), os # <<>>, os[Len(os)].op = "limit",
         NEW sc \in Scans, sc.agg = "none", sc.cols = "some",
         sc.fetch # MinFetch(sc.fetch, Reach(os[Len(os)])),
         NEW sc2 \in Scans, sc2 = [sc EXCEPT !.fetch = MinFetch(sc.fetch, Reach(os[Len(os)]))]
  PROVE  Answers(os, sc2) \subseteq Answers(os, sc)
<1> DEFINE o == os[Len(os)]
           n == Reach(o)
           m == sc.fetch
           S == Selected(sc)
           O == Orderings(S, CosmosRanks(sc.keys))
<1>1. /\ sc2.agg = "none" /\ sc2.cols = "some" /\ sc2.top = sc.top
      /\ sc2.keys = sc.keys /\ sc2.filters = sc.filters /\ sc2.fetch = MinFetch(m, n)
  BY DEF Scans
<1>2. Selected(sc2) = S
  BY <1>1 DEF Selected
<1>3. CASE sc.keys # <<>> /\ sc.top # None
  <2>1. ScanAnswers(sc2) = ScanAnswers(sc)
    BY <1>1, <1>2, <1>3, DocsScan DEF ScanLimit
  <2> QED
    BY <2>1 DEF Answers
<1>4. CASE ~(sc.keys # <<>> /\ sc.top # None)
  <2>1. ScanAnswers(sc) = {Window(l, 0, m) : l \in O}
    BY <1>4, DocsScan DEF ScanLimit
  <2>2. o \in Operators /\ o.op = "limit"
    OBVIOUS
  <2>3. o.skip \in Nat /\ o.fetch \in Nat /\ n \in Nat /\ o.skip + o.fetch <= n
    <3> HIDE DEF o
    <3> QED
      BY <2>2 DEF Operators, Reach
  <2>4. m \in Nat \cup {None} /\ m # MinFetch(m, n)
    BY DEF Scans
  <2>5. S \in SUBSET DOMAIN table
    BY ScanParts
  <2> HIDE DEF n, m
  <2>6. MinFetch(m, n) = n /\ (m = None \/ (m \in Nat /\ n <= m))
    BY <2>3, <2>4 DEF MinFetch
  <2>7. ScanAnswers(sc2) = {Window(l, 0, n) : l \in O}
    <3>1. ScanLimit(sc2) = n
      BY <1>1, <1>4, <2>6 DEF ScanLimit
    <3> QED
      BY <1>1, <1>2, <3>1, DocsScan
  <2>8. ASSUME NEW b \in ScanAnswers(sc2), NEW x \in Apply(o, b)
        PROVE  \E a \in ScanAnswers(sc) : x \in Apply(o, a)
    <3>1. PICK l \in O : b = Window(l, 0, n)
      BY <2>7
    <3> DEFINE c == l.before
               a == Window(l, 0, m)
    <3>2. l = Rows(S, c) /\ c \in OrdersOf(S) /\ IsFiniteSet(S) /\ l = Window(l, 0, None)
      BY <2>5, WholeListing
    <3>3. a \in ScanAnswers(sc) /\ a.kind = "rows" /\ b.kind = "rows"
      BY <2>1, <3>1, WindowRows
    <3> HIDE DEF c, o, S
    <3>4. x = Window(b, o.skip, o.fetch)
      BY <2>2, <3>3 DEF Apply, Error
    <3>5. x = Window(l, o.skip, o.fetch)
      BY <2>3, <3>1, <3>2, <3>4, WindowOfFirst
    <3>6. Window(a, o.skip, o.fetch) = Window(l, o.skip, o.fetch)
      <4>1. CASE m = None
        BY <3>2, <4>1
      <4>2. CASE m \in Nat /\ n <= m
        <5>1. o.skip + o.fetch <= m
          BY <2>3, <4>2
        <5> QED
          BY <2>3, <3>2, <4>2, <5>1, WindowOfFirst
      <4> QED
        BY <2>6, <4>1, <4>2
    <3> HIDE DEF a
    <3>7. x \in Apply(o, a)
      BY <2>2, <3>3, <3>5, <3>6 DEF Apply, Error
    <3> QED
      BY <3>3, <3>7
  <2> QED
    BY <2>8, InnermostStays DEF Answers
<1> QED
  BY <1>3, <1>4

LEMMA SortInScan ==
  ASSUME table \in Tables, NEW os \in Seq(Operators), os # <<>>, os[Len(os)].op = "sort",
         \A m \in DOMAIN os[Len(os)].keys : CosmosOrders(os[Len(os)].keys[m]),
         NEW sc \in Scans, sc.agg = "none", sc.cols = "some", sc.fetch = None, sc.top = None,
         NEW sc2 \in Scans, sc2 = [sc EXCEPT !.keys = os[Len(os)].keys, !.top = os[Len(os)].fetch]
  PROVE  Answers(Front(os), sc2) \subseteq Answers(os, sc)
<1> DEFINE o == os[Len(os)]
           S == Selected(sc)
<1>1. o \in Operators /\ o.op = "sort" /\ \A m \in DOMAIN o.keys : CosmosOrders(o.keys[m])
  OBVIOUS
<1>2. /\ sc2.agg = "none" /\ sc2.cols = "some" /\ sc2.fetch = None /\ sc2.top = o.fetch
      /\ sc2.keys = o.keys /\ sc2.filters = sc.filters
  BY DEF Scans
<1>3. Selected(sc2) = S
  BY <1>2 DEF Selected
<1>4. ScanAnswers(sc) = Orderings(S, CosmosRanks(sc.keys)) /\ ScanAnswers(sc) # {}
  BY UnlimitedScan, ScanParts
<1>5. S \in SUBSET DOMAIN table
  BY ScanParts
<1> HIDE DEF o, S
<1>6. o.keys \in SortKeys
  BY <1>1 DEF Operators
<1>7. o.keys \in Seq(Keys) /\ o.keys # <<>>
  BY <1>6, ParametersAssumption
<1>8. ScanLimit(sc2) = o.fetch
  BY <1>2, <1>7 DEF ScanLimit
<1>9. ScanAnswers(sc2) = {Window(l, 0, o.fetch) : l \in Orderings(S, CosmosRanks(o.keys))}
  <2>1. ScanAnswers(sc2) =
          {Window(l, 0, ScanLimit(sc2)) : l \in Orderings(Selected(sc2), CosmosRanks(sc2.keys))}
    BY <1>2 DEF ScanAnswers, DocsAnswers, ScanLimit
  <2>2. Orderings(Selected(sc2), CosmosRanks(sc2.keys)) = Orderings(S, CosmosRanks(o.keys))
    BY <1>2, <1>3
  <2> QED
    BY <1>8, <2>1, <2>2
<1>10. Orderings(S, CosmosRanks(o.keys)) = Orderings(S, Ranks(o.keys))
  BY <1>1, <1>5, <1>7, SameOrderings
<1>11. PICK a \in ScanAnswers(sc) : a.rows = S /\ a.kind = "rows"
  BY <1>4, ListingRows
<1>12. Apply(o, a) = {Window(l, 0, o.fetch) : l \in Orderings(S, Ranks(o.keys))}
  BY <1>1, <1>11 DEF Apply, Error
<1>13. \A x \in ScanAnswers(sc2) : x \in Apply(o, a)
  BY <1>9, <1>10, <1>12
<1> QED
  BY <1>13, InnermostGoes DEF Answers, o

LEMMA AggregateInScan ==
  ASSUME table \in Tables, "avg_cast" \notin Aggregates,
         NEW os \in Seq(Operators), os # <<>>, os[Len(os)].op = "agg",
         ValueExpression(os[Len(os)].fn) # "none",
         NEW sc \in Scans, sc.agg = "none", sc.cols = "some", sc.fetch = None, sc.top = None,
         NEW sc2, sc2 = [BareScan EXCEPT !.filters = sc.filters,
                                         !.agg = ValueExpression(os[Len(os)].fn)],
         ~(sc2.agg = "avg" /\ \E i \in Selected(sc2) : table[i] = 0)
  PROVE  Answers(Front(os), sc2) \subseteq Answers(os, sc)
<1> DEFINE o == os[Len(os)]
           S == Selected(sc)
<1>1. o \in Operators /\ o.op = "agg" /\ ValueExpression(o.fn) # "none"
  OBVIOUS
<1>2. sc2.agg = ValueExpression(o.fn) /\ sc2.filters = sc.filters
  BY DEF BareScan
<1>3. Selected(sc2) = S
  BY <1>2 DEF Selected
<1>4. ScanAnswers(sc) = Orderings(S, CosmosRanks(sc.keys)) /\ ScanAnswers(sc) # {}
  BY UnlimitedScan, ScanParts
<1> HIDE DEF o, S
<1>5. o.fn \in Aggregates /\ o.fn # "avg_cast"
  BY <1>1 DEF Operators
<1>6. PICK a \in ScanAnswers(sc) : a.rows = S /\ a.kind = "rows"
  BY <1>4, ListingRows
<1>7. Apply(o, a) = {Value(Aggregate(o.fn, S))}
  BY <1>1, <1>6 DEF Apply, Error
<1>8. ASSUME NEW x \in ScanAnswers(sc2)
      PROVE  x = Value(Aggregate(o.fn, S))
  <2>1. x \in ScalarAnswers(sc2)
    BY <1>1, <1>2 DEF ScanAnswers
  <2>2. CASE o.fn = "count_star"
    BY <1>1, <1>2, <1>3, <2>1, <2>2 DEF ValueExpression, ScalarAnswers, Aggregate
  <2>3. CASE o.fn = "avg"
    <3>1. sc2.agg = "avg" /\ \A i \in S : table[i] # 0
      BY <1>1, <1>2, <1>3, <2>3 DEF ValueExpression
    <3>2. x = Value(Average(NonNull(S), table))
      BY <1>3, <2>1, <3>1 DEF ScalarAnswers
    <3> QED
      BY <2>3, <3>2 DEF Aggregate
  <2>4. o.fn \in {"count_star", "avg"}
    BY <1>1, <1>5 DEF ValueExpression
  <2> QED
    BY <2>2, <2>3, <2>4
<1>9. \A x \in ScanAnswers(sc2) : x \in Apply(o, a)
  BY <1>7, <1>8
<1> QED
  BY <1>9, InnermostGoes DEF Answers, o
----------------------------------------------------------------------------
(* The invariant.  An aggregate is the outermost operator, so what lies    *)
(* below it are rows, and a folded one has nothing above or below it.      *)
AggregateOnTop(os, sc) ==
  /\ \A i \in DOMAIN os : os[i].op = "agg" => i = 1
  /\ sc.agg # "none" => os = <<>> /\ sc.cols = "some"

(* A scan of no column gives an error where all columns give answers.      *)
Full(sc) == [sc EXCEPT !.cols = "some"]

AnswersInv ==
  /\ query \in Seq(Operators)
  /\ AggregateOnTop(ops, scan)
  /\ ~AvgOverNull => Answers(ops, Full(scan)) \subseteq Answers(query, BareScan)

LEMMA FullParts ==
  ASSUME NEW sc \in Scans
  PROVE  /\ Full(sc) \in Scans /\ Full(sc).cols = "some" /\ Full(sc).agg = sc.agg
         /\ Full(sc).fetch = sc.fetch /\ Full(sc).top = sc.top /\ Full(sc).keys = sc.keys
         /\ Full(sc).filters = sc.filters
         /\ sc.cols = "some" => Full(sc) = sc
         /\ Selected(Full(sc)) = Selected(sc)
<1>1. /\ Full(sc) \in Scans /\ Full(sc).cols = "some" /\ Full(sc).agg = sc.agg
      /\ Full(sc).fetch = sc.fetch /\ Full(sc).top = sc.top /\ Full(sc).keys = sc.keys
      /\ Full(sc).filters = sc.filters
  BY DEF Full, Scans
<1>2. sc.cols = "some" => Full(sc) = sc
  BY DEF Full, Scans
<1>3. Selected(Full(sc)) = Selected(sc)
  BY <1>1 DEF Selected
<1> QED
  BY <1>1, <1>2, <1>3

LEMMA QueryAggregateOnTop ==
  ASSUME NEW os \in BoundedSeq(RowOps, MaxOps),
         NEW q \in {os} \cup {<<Agg(f)>> \o os : f \in Aggregates},
         NEW i \in DOMAIN q, q[i].op = "agg"
  PROVE  i = 1
<1>1. os \in Seq(RowOps)
  BY ParametersAssumption DEF BoundedSeq, SeqOf
<1>2. \A o \in RowOps : o.op # "agg"
  BY DEF RowOps, Filter, Limit, Sort
<1>3. CASE q = os
  BY <1>1, <1>2, <1>3
<1>4. ASSUME NEW f \in Aggregates, q = <<Agg(f)>> \o os, i # 1
      PROVE  FALSE
  <2>1. i - 1 \in DOMAIN os /\ q[i] = os[i - 1]
    BY <1>1, <1>4
  <2> QED
    BY <1>1, <1>2, <2>1
<1> QED
  BY <1>3, <1>4

LEMMA AnswersInit == Init => AnswersInv
<1> SUFFICES ASSUME Init PROVE AnswersInv
  OBVIOUS
<1>1. PICK os \in BoundedSeq(RowOps, MaxOps) :
        query \in {os} \cup {<<Agg(f)>> \o os : f \in Aggregates}
  BY DEF Init
<1>2. query \in Seq(Operators)
  BY <1>1, QueryType
<1>3. AggregateOnTop(ops, scan)
  BY <1>1, QueryAggregateOnTop DEF Init, AggregateOnTop, BareScan
<1>4. Full(BareScan) = BareScan
  <2>1. BareScan.cols = "some"
    BY DEF BareScan
  <2> QED
    BY <2>1, BareScanIsScan, FullParts
<1> QED
  BY <1>2, <1>3, <1>4 DEF AnswersInv, Init
----------------------------------------------------------------------------
(* What a step may do: add no answer, unless it folds an AVG over a null. *)
Rewrites(os, sc, os2, sc2) ==
  /\ AggregateOnTop(os2, sc2)
  /\ ~(sc2.agg = "avg" /\ \E i \in Selected(sc2) : table[i] = 0) =>
       Answers(os2, Full(sc2)) \subseteq Answers(os, Full(sc))

(* A plan that still has operators scans documents. *)
LEMMA PlanParts ==
  ASSUME IInv, AggregateOnTop(ops, scan), ops # <<>>
  PROVE  /\ table \in Tables /\ ops \in Seq(Operators) /\ scan \in Scans /\ scan.agg = "none"
         /\ \A a \in ScanAnswers(Full(scan)) : IsRows(a)
         /\ LimitOverSort = "kept" /\ Inner.op # "limit" => scan.top = None
<1>1. table \in Tables /\ ops \in Seq(Operators) /\ scan \in Scans
  BY TypeParts DEF IInv
<1>2. scan.agg = "none"
  BY DEF AggregateOnTop
<1>3. \A a \in ScanAnswers(Full(scan)) : IsRows(a)
  BY <1>1, <1>2, FullParts, ScanRows
<1>4. LimitOverSort = "kept" /\ Inner.op # "limit" => scan.top = None
  BY InnerParts DEF IInv, FetchUnderLimit, LimitAt
<1> QED
  BY <1>1, <1>2, <1>3, <1>4

LEMMA FrontOnTop ==
  ASSUME IInv, AggregateOnTop(ops, scan), ops # <<>>, NEW sc, sc.agg = "none"
  PROVE  AggregateOnTop(Front(ops), sc)
BY InnerParts DEF AggregateOnTop

LEMMA FilterIntoScanRewrites ==
  ASSUME IInv, AggregateOnTop(ops, scan), LimitOverSort = "kept", PushFilterIntoScan
  PROVE  Rewrites(ops, scan, ops', scan')
<1> DEFINE sc == Full(scan)
           sc2 == Full(scan')
<1>1. /\ ops # <<>> /\ Inner.op = "filter" /\ scan.fetch = None
      /\ ops' = Front(ops) /\ scan' = [scan EXCEPT !.filters = @ \cup {Inner.pred}]
  BY DEF PushFilterIntoScan, FilterMeetsScan, Rewrite
<1>2. table \in Tables /\ ops \in Seq(Operators) /\ scan \in Scans /\ scan.agg = "none" /\ scan.top = None
  BY <1>1, PlanParts
<1>3. Inner = ops[Len(ops)] /\ Inner.pred \in Preds
  BY <1>1, InnerParts DEF Operators
<1>4. scan' \in Scans /\ scan'.agg = "none"
  BY <1>1, <1>2, <1>3 DEF Scans
<1>5. sc2 = [sc EXCEPT !.filters = @ \cup {ops[Len(ops)].pred}]
  BY <1>1, <1>2, <1>3 DEF Full, Scans
<1>6. /\ sc \in Scans /\ sc.agg = "none" /\ sc.cols = "some" /\ sc.fetch = None /\ sc.top = None
      /\ sc2 \in Scans
  BY <1>1, <1>2, <1>4, FullParts
<1> HIDE DEF sc, sc2
<1>7. Answers(Front(ops), sc2) \subseteq Answers(ops, sc)
  BY <1>1, <1>2, <1>3, <1>5, <1>6, FilterInScan
<1> QED
  BY <1>1, <1>4, <1>7, FrontOnTop DEF Rewrites, sc, sc2

LEMMA LimitIntoScanRewrites ==
  ASSUME IInv, AggregateOnTop(ops, scan), PushLimitIntoScan
  PROVE  Rewrites(ops, scan, ops', scan')
<1> DEFINE sc == Full(scan)
           sc2 == Full(scan')
           n == MinFetch(scan.fetch, Reach(Inner))
<1>1. /\ ops # <<>> /\ Inner.op = "limit" /\ scan.fetch # n
      /\ ops' = ops /\ scan' = [scan EXCEPT !.fetch = n]
  BY DEF PushLimitIntoScan, LimitMeetsScan, Rewrite
<1>2. table \in Tables /\ ops \in Seq(Operators) /\ scan \in Scans /\ scan.agg = "none"
  BY <1>1, PlanParts
<1>3. Inner = ops[Len(ops)] /\ Reach(Inner) \in Nat
  BY <1>1, InnerParts DEF Operators, Reach
<1>4. n \in Nat
  BY <1>2, <1>3, MinFetchType DEF Scans
<1> HIDE DEF n
<1>5. scan' \in Scans /\ scan'.agg = "none"
  BY <1>1, <1>2, <1>4 DEF Scans
<1>6. sc2 = [sc EXCEPT !.fetch = n]
  BY <1>1, <1>2 DEF Full, Scans
<1>7. /\ sc \in Scans /\ sc.agg = "none" /\ sc.cols = "some" /\ sc.fetch = scan.fetch
      /\ sc2 \in Scans
  BY <1>2, <1>5, FullParts
<1> HIDE DEF sc, sc2
<1>8. n = MinFetch(sc.fetch, Reach(ops[Len(ops)]))
  BY <1>3, <1>7 DEF n
<1>9. Answers(ops, sc2) \subseteq Answers(ops, sc)
  BY <1>1, <1>2, <1>3, <1>6, <1>7, <1>8, LimitInScan
<1>10. AggregateOnTop(ops', scan')
  BY <1>1, <1>5 DEF AggregateOnTop
<1> QED
  BY <1>1, <1>9, <1>10 DEF Rewrites, sc, sc2

LEMMA FoldSortRewrites ==
  ASSUME IInv, AggregateOnTop(ops, scan), LimitOverSort = "kept", FoldSort
  PROVE  Rewrites(ops, scan, ops', scan')
<1> DEFINE sc == Full(scan)
           sc2 == Full(scan')
<1>1. /\ ops # <<>> /\ Inner.op = "sort" /\ scan.fetch = None
      /\ \A j \in DOMAIN Inner.keys : CosmosOrders(Inner.keys[j])
      /\ ops' = Front(ops) /\ scan' = [scan EXCEPT !.keys = Inner.keys, !.top = Inner.fetch]
  BY DEF FoldSort, SortFolds, Rewrite
<1>2. table \in Tables /\ ops \in Seq(Operators) /\ scan \in Scans /\ scan.agg = "none" /\ scan.top = None
  BY <1>1, PlanParts
<1>3. /\ Inner = ops[Len(ops)]
      /\ Inner.keys \in SortKeys /\ Inner.fetch \in Nat \cup {None}
  BY <1>1, InnerParts DEF Operators
<1>4. scan' \in Scans /\ scan'.agg = "none"
  BY <1>1, <1>2, <1>3 DEF Scans
<1>5. sc2 = [sc EXCEPT !.keys = ops[Len(ops)].keys, !.top = ops[Len(ops)].fetch]
  BY <1>1, <1>2, <1>3 DEF Full, Scans
<1>6. /\ sc \in Scans /\ sc.agg = "none" /\ sc.cols = "some" /\ sc.fetch = None /\ sc.top = None
      /\ sc2 \in Scans
  BY <1>1, <1>2, <1>4, FullParts
<1> HIDE DEF sc, sc2
<1>7. Answers(Front(ops), sc2) \subseteq Answers(ops, sc)
  BY <1>1, <1>2, <1>3, <1>5, <1>6, SortInScan
<1> QED
  BY <1>1, <1>4, <1>7, FrontOnTop DEF Rewrites, sc, sc2

LEMMA FoldAggregateRewrites ==
  ASSUME IInv, AggregateOnTop(ops, scan), LimitOverSort = "kept", "avg_cast" \notin Aggregates,
         FoldAggregate
  PROVE  Rewrites(ops, scan, ops', scan')
<1> DEFINE sc == Full(scan)
           sc2 == scan'
<1>1. /\ ops # <<>> /\ Inner.op = "agg" /\ scan.fetch = None /\ ValueExpression(Inner.fn) # "none"
      /\ ops' = Front(ops)
      /\ sc2 = [BareScan EXCEPT !.filters = scan.filters, !.agg = ValueExpression(Inner.fn)]
  BY DEF FoldAggregate, AggregateFolds, Rewrite
<1>2. table \in Tables /\ ops \in Seq(Operators) /\ scan \in Scans /\ scan.agg = "none" /\ scan.top = None
  BY <1>1, PlanParts
<1>3. Inner = ops[Len(ops)]
  BY <1>1, InnerParts
<1>4. Full(sc2) = sc2 /\ sc2.cols = "some"
  <2>1. sc2.cols = "some"
    BY <1>1 DEF BareScan
  <2>2. sc2 \in Scans
    BY FoldAggregateStep DEF IInv, TypeOK, Scans
  <2> HIDE DEF sc2
  <2> QED
    BY <2>1, <2>2, FullParts
<1>5. /\ sc \in Scans /\ sc.agg = "none" /\ sc.cols = "some" /\ sc.fetch = None /\ sc.top = None
      /\ sc.filters = scan.filters
  BY <1>1, <1>2, FullParts
<1>6. Len(ops) = 1
  <2>1. Len(ops) \in DOMAIN ops
    BY <1>1, <1>2, FrontFacts
  <2> QED
    BY <1>1, <1>3, <2>1 DEF AggregateOnTop
<1>7. ops' = <<>>
  BY <1>1, <1>6, InnerParts
<1>8. AggregateOnTop(ops', scan')
  BY <1>4, <1>7 DEF AggregateOnTop
<1> HIDE DEF sc, sc2
<1>9. ~(sc2.agg = "avg" /\ \E i \in Selected(sc2) : table[i] = 0) =>
        Answers(Front(ops), sc2) \subseteq Answers(ops, sc)
  BY <1>1, <1>2, <1>3, <1>5, AggregateInScan
<1> QED
  BY <1>1, <1>4, <1>8, <1>9 DEF Rewrites, sc, sc2
LEMMA FilterBelowSortRewrites ==
  ASSUME IInv, AggregateOnTop(ops, scan), NEW j \in 1 .. Len(ops) - 1, PushFilterBelowSort(j)
  PROVE  Rewrites(ops, scan, ops', scan')
<1> DEFINE A == ScanAnswers(Full(scan))
           os2 == ops'
<1>1. /\ ops[j].op = "filter" /\ ops[j + 1].op = "sort" /\ ops[j + 1].fetch = None
      /\ os2 = [ops EXCEPT ![j] = ops[j + 1], ![j + 1] = ops[j]] /\ scan' = scan
  BY DEF PushFilterBelowSort, FilterMeetsSort, Rewrite
<1>2. ops # <<>> /\ ops \in Seq(Operators)
  BY TypeParts DEF IInv
<1>3. table \in Tables /\ \A a \in A : IsRows(a)
  BY <1>2, PlanParts
<1>4. j \in DOMAIN ops /\ j + 1 \in DOMAIN ops /\ Len(ops) \in Nat /\ DOMAIN ops = 1 .. Len(ops)
  BY <1>2
<1> HIDE DEF A, os2
<1>5. /\ os2 \in Seq(Operators) /\ Len(os2) = Len(ops) /\ DOMAIN os2 = DOMAIN ops
      /\ os2[j] = ops[j + 1] /\ os2[j + 1] = ops[j]
      /\ \A i \in DOMAIN ops \ {j, j + 1} : os2[i] = ops[i]
  BY <1>1, <1>2, <1>4
<1>6. \A i \in j + 2 .. Len(ops) : ops[i].op # "agg"
  BY <1>2, <1>4 DEF AggregateOnTop
<1> DEFINE filter == ops[j]
           sort == ops[j + 1]
<1>7. /\ filter \in Operators /\ sort \in Operators
      /\ filter.op = "filter" /\ sort.op = "sort" /\ sort.fetch = None
  BY <1>1, <1>2, <1>4
<1> HIDE DEF filter, sort
<1>8. ASSUME NEW a, IsRows(a), NEW b \in Apply(filter, a), NEW x \in Apply(sort, b)
      PROVE  \E c \in Apply(sort, a) : x \in Apply(filter, c)
  BY <1>3, <1>7, <1>8, FilterBelowSort
<1>9. \A a : IsRows(a) =>
        \A b \in Apply(os2[j + 1], a) : \A x \in Apply(os2[j], b) :
          \E c \in Apply(ops[j + 1], a) : x \in Apply(ops[j], c)
  BY <1>5, <1>8 DEF filter, sort
<1>10. Above(os2, A) \subseteq Above(ops, A)
  BY <1>2, <1>3, <1>5, <1>6, <1>9, NeighboursKeep
<1>11. AggregateOnTop(os2, scan)
  BY <1>1, <1>2, <1>4, <1>5 DEF AggregateOnTop
<1> QED
  BY <1>1, <1>10, <1>11 DEF Rewrites, Answers, A, os2

(* A sort whose limit is kept has no fetch but that limit's. *)
LEMMA LimitIntoSortRewrites ==
  ASSUME IInv, AggregateOnTop(ops, scan), LimitOverSort = "kept",
         NEW j \in 1 .. Len(ops) - 1, PushLimitIntoSort(j)
  PROVE  Rewrites(ops, scan, ops', scan')
<1> DEFINE A == ScanAnswers(Full(scan))
           os2 == ops'
           limit == ops[j]
           sort == ops[j + 1]
           n == MinFetch(sort.fetch, Reach(limit))
           top == [sort EXCEPT !.fetch = n]
<1>1. /\ limit.op = "limit" /\ sort.op = "sort" /\ sort.fetch # n /\ scan' = scan
      /\ os2 = [ops EXCEPT ![j + 1].fetch = n]
  BY DEF PushLimitIntoSort, LimitMeetsSort, Stays, Rewrite
<1>2. ops # <<>> /\ ops \in Seq(Operators)
  BY TypeParts DEF IInv
<1>3. table \in Tables /\ \A a \in A : IsRows(a)
  BY <1>2, PlanParts
<1>4. j \in DOMAIN ops /\ j + 1 \in DOMAIN ops /\ Len(ops) \in Nat /\ DOMAIN ops = 1 .. Len(ops)
      /\ (j + 1) - 1 = j
  BY <1>2
<1>5. limit \in Operators /\ sort \in [op : {"sort"}, keys : SortKeys, fetch : Nat \cup {None}]
  BY <1>1, <1>2, <1>4 DEF Operators
<1>6. sort.fetch = None /\ n = Reach(limit) /\ n \in Nat
  <2>1. Reach(limit) \in Nat
    BY <1>1, <1>5 DEF Operators, Reach
  <2>2. sort.fetch # None => sort.fetch = Reach(limit)
    <3>1. FetchUnderLimit(ops, scan)
      BY DEF IInv
    <3>2. sort.fetch # None => LimitAt(ops, (j + 1) - 1, sort.fetch)
      BY <1>1, <1>4, <3>1 DEF FetchUnderLimit
    <3> QED
      BY <1>4, <3>2 DEF LimitAt, Reach
  <2>3. sort.fetch \in {None, Reach(limit)} => n = Reach(limit)
    BY <1>5, <2>1, MinFetchType
  <2> HIDE DEF n
  <2> QED
    BY <1>1, <2>1, <2>2, <2>3
<1>7. os2 = [ops EXCEPT ![j + 1] = top]
  BY <1>1, <1>4
<1> HIDE DEF A, os2, n
<1>8. /\ top \in Operators /\ sort \in Operators
      /\ top.op = "sort" /\ top.keys = sort.keys /\ top.fetch = Reach(limit)
  BY <1>5, <1>6 DEF Operators
<1> HIDE DEF top
<1>9. /\ os2 \in Seq(Operators) /\ Len(os2) = Len(ops) /\ DOMAIN os2 = DOMAIN ops
      /\ os2[j] = limit /\ os2[j + 1] = top
      /\ \A i \in DOMAIN ops \ {j, j + 1} : os2[i] = ops[i]
  BY <1>2, <1>4, <1>7, <1>8
<1>10. \A i \in j + 2 .. Len(ops) : ops[i].op # "agg"
  BY <1>2, <1>4 DEF AggregateOnTop
<1>11. ASSUME NEW a, IsRows(a), NEW b \in Apply(top, a), NEW x \in Apply(limit, b)
       PROVE  \E c \in Apply(sort, a) : x \in Apply(limit, c)
  <2> HIDE DEF limit, sort
  <2> QED
    BY <1>1, <1>3, <1>5, <1>6, <1>8, <1>11, LimitInSort
<1>12. \A a : IsRows(a) =>
         \A b \in Apply(os2[j + 1], a) : \A x \in Apply(os2[j], b) :
           \E c \in Apply(ops[j + 1], a) : x \in Apply(ops[j], c)
  BY <1>9, <1>11
<1>13. Above(os2, A) \subseteq Above(ops, A)
  BY <1>2, <1>3, <1>9, <1>10, <1>12, NeighboursKeep
<1>14. AggregateOnTop(os2, scan)
  BY <1>1, <1>2, <1>4, <1>8, <1>9 DEF AggregateOnTop
<1> QED
  BY <1>1, <1>13, <1>14 DEF Rewrites, Answers, A, os2

LEMMA TrimColumnsRewrites ==
  ASSUME IInv, AggregateOnTop(ops, scan), TrimColumns
  PROVE  Rewrites(ops, scan, ops', scan')
<1>1. ops # <<>> /\ ops' = ops /\ scan' = [scan EXCEPT !.cols = "none"]
  BY DEF TrimColumns, ReadsNoColumn, Rewrite
<1>2. scan \in Scans /\ scan.agg = "none"
  BY <1>1, PlanParts
<1>3. Full(scan') = Full(scan) /\ scan'.agg = "none"
  BY <1>1, <1>2 DEF Full, Scans
<1> QED
  BY <1>1, <1>3 DEF Rewrites, AggregateOnTop

LEMMA NextRewrites ==
  ASSUME IInv, AggregateOnTop(ops, scan), LimitOverSort = "kept", "avg_cast" \notin Aggregates,
         Next
  PROVE  Rewrites(ops, scan, ops', scan')
BY FilterBelowSortRewrites, LimitIntoSortRewrites, FilterIntoScanRewrites, LimitIntoScanRewrites,
   TrimColumnsRewrites, FoldAggregateRewrites, FoldSortRewrites DEF Next

LEMMA AnswersStep ==
  ASSUME LimitOverSort = "kept", "avg_cast" \notin Aggregates
  PROVE  IInv /\ AnswersInv /\ [Next]_vars => AnswersInv'
<1> SUFFICES ASSUME IInv, AnswersInv, [Next]_vars PROVE AnswersInv'
  OBVIOUS
<1>1. IInv'
  BY NextStep
<1>2. UNCHANGED <<table, query>>
  BY DEF Next, vars, Rewrite, PushFilterBelowSort, PushFilterIntoScan, PushLimitIntoSort,
         PushLimitIntoScan, TrimColumns, FoldAggregate, FoldSort
<1>3. ops \in Seq(Operators) /\ ops' \in Seq(Operators)
  BY <1>1 DEF IInv, TypeOK, Operators
<1>4. Rewrites(ops, scan, ops', scan')
  <2>1. CASE Next
    BY <2>1, NextRewrites DEF AnswersInv
  <2>2. CASE UNCHANGED vars
    BY <2>2 DEF vars, Rewrites, AnswersInv
  <2> QED
    BY <2>1, <2>2
<1>5. AvgOverNull' <=> scan'.agg = "avg" /\ \E i \in Selected(scan') : table[i] = 0
  BY <1>2 DEF AvgOverNull, Selected, Passes
<1>6. ~AvgOverNull' => ~AvgOverNull
  <2>1. CASE UNCHANGED vars
    BY <2>1 DEF vars, AvgOverNull, Selected, Passes
  <2>2. CASE Next
    <3>1. ops # <<>>
      BY <1>3, <2>2 DEF Next, PushFilterIntoScan, FilterMeetsScan, PushLimitIntoScan, LimitMeetsScan,
         TrimColumns, ReadsNoColumn, FoldAggregate, AggregateFolds, FoldSort, SortFolds
    <3>2. scan.agg = "none"
      BY <3>1, PlanParts DEF AnswersInv
    <3> QED
      BY <3>2 DEF AvgOverNull
  <2> QED
    BY <2>1, <2>2
<1>7. \A os \in Seq(Operators) : \A sc : Answers(os, sc)' = Answers(os, sc)
  BY <1>2, SameAnswers
<1>8. /\ Answers(ops, Full(scan))' = Answers(ops', Full(scan'))
      /\ Answers(query, BareScan)' = Answers(query, BareScan)
  BY <1>2, <1>3, <1>7 DEF AnswersInv
<1>9. ~AvgOverNull' => Answers(ops, Full(scan))' \subseteq Answers(query, BareScan)'
  BY <1>4, <1>5, <1>6, <1>8 DEF AnswersInv, Rewrites
<1>10. AggregateOnTop(ops, scan)'
  BY <1>4 DEF Rewrites, AggregateOnTop
<1> QED
  BY <1>2, <1>9, <1>10 DEF AnswersInv

(* Where no column is asked for there is nothing but the error. *)
LEMMA AnswersMeant ==
  ASSUME IInv, AnswersInv
  PROVE  AnswersAreRight
<1> SUFFICES ASSUME ~AvgOverNull
             PROVE  Answers(ops, scan) \ {Error} \subseteq Answers(query, BareScan)
  BY DEF AnswersAreRight
<1>1. scan \in Scans /\ ops \in Seq(Operators)
  BY TypeParts DEF IInv
<1>2. Answers(ops, Full(scan)) \subseteq Answers(query, BareScan)
  BY DEF AnswersInv
<1>3. CASE scan.cols = "some"
  BY <1>1, <1>2, <1>3, FullParts
<1>4. CASE scan.cols = "none"
  <2>1. scan.agg = "none"
    BY <1>4 DEF AnswersInv, AggregateOnTop
  <2>2. ScanAnswers(scan) = {Error}
    BY <1>4, <2>1 DEF ScanAnswers, DocsAnswers
  <2>3. Answers(ops, scan) \subseteq {Error}
    BY <1>1, <2>2, ErrorStays DEF Answers
  <2> QED
    BY <2>3
<1> QED
  BY <1>1, <1>3, <1>4 DEF Scans

(* Whatever rules rewrite a plan, and in whatever order, it gives only     *)
(* answers that its query may have (pushdown.rs:4-5, provider.rs:113-137): *)
(* for every table, query, filter and list of keys.  It rests on           *)
(* DataFusion keeping the limit it merges into a sort (provider.rs:129-131)*)
(* and on AVG not being taken of a cast that drops digits, which           *)
(* pushdown.rs:183-185 assumes; runs show what happens without them.       *)
THEOREM AnswersKept ==
  ASSUME LimitOverSort = "kept", "avg_cast" \notin Aggregates
  PROVE  Spec => []AnswersAreRight
<1>1. Spec => []IInv /\ [][Next]_vars
  BY Invariance, PTL DEF Spec
<1>2. Spec => AnswersInv
  BY AnswersInit DEF Spec
<1>3. IInv /\ AnswersInv /\ [Next]_vars => AnswersInv'
  BY AnswersStep
<1>4. IInv /\ AnswersInv => AnswersAreRight
  BY AnswersMeant
<1> QED
  BY <1>1, <1>2, <1>3, <1>4, PTL
=============================================================================
