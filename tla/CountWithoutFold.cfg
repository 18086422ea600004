\* COUNT of rows with the fold off.
SPECIFICATION Spec
CONSTANTS
  Tables <- MCTables
  Largest = 2
  Configs <- OffConfigs
  Aggregates <- MCAggregates
  SortKeys <- OneSortKey
  Limits <- MCLimits
  MaxOps = 1
  LimitOverSort = "kept"
INVARIANTS
  EveryPlanAnswers
CHECK_DEADLOCK FALSE
