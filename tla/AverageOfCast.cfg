\* AVG over a cast the query itself makes.
SPECIFICATION Spec
CONSTANTS
  Tables <- NoNulls
  Largest = 2
  Configs <- OnlyAllOn
  Aggregates <- CastAggregates
  SortKeys <- OneSortKey
  Limits <- MCLimits
  MaxOps = 1
  LimitOverSort = "kept"
INVARIANTS
  FoldedAverageIsRight
CHECK_DEADLOCK FALSE
