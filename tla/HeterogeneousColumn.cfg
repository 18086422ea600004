\* A text column that holds a number as well.
SPECIFICATION Spec
CONSTANTS
  Values = {1, 2}
  Quirks <- OnlyReported
  Ops = {"="}
INVARIANTS
  SameRows
\* The loop over the conjuncts ends.
CHECK_DEADLOCK FALSE
