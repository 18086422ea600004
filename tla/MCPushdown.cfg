\* Queries of up to three operators under an aggregate, default toggles and all on.
SPECIFICATION Spec
CONSTANTS
  Tables <- MCTables
  Largest = 2
  Configs <- MCConfigs
  Aggregates <- MCAggregates
  SortKeys <- MCSortKeys
  Limits <- MCLimits
  MaxOps = 3
  LimitOverSort = "kept"
INVARIANTS
  TypeOK
  AnswersAreRight
  NoFoldIsMissed
PROPERTIES
  TopNIsFinal
\* The optimizer stops when no rule applies.
CHECK_DEADLOCK FALSE
