\* WHERE clauses of a pair of simple conjuncts, joined or not.
SPECIFICATION Spec
CONSTANTS
  Values = {1, 2}
  Quirks <- MCQuirks
  Ops = {"=", "!=", "<", ">="}
INVARIANTS
  TypeOK
  ExactOnHomogeneousColumns
\* The loop over the conjuncts ends.
CHECK_DEADLOCK FALSE
