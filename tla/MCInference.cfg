\* Samples of up to two documents and one more, every order.
SPECIFICATION Spec
CONSTANTS
  Documents <- MCDocuments
  FieldNames <- MCFieldNames
  MaxDepth = 3
  MaxSample = 2
  MaxRest = 1
  Options <- MCOptions
INVARIANTS
  TypeOK
  ShapeIsWhereTheyAgree
  OnlyDisagreementFails
  SampledRowsKeepValues
  PathsAgree
\* A batch is built once.
CHECK_DEADLOCK FALSE
