\* Two overlapping calls on two containers of one document id.
SPECIFICATION FairSpec
CONSTANTS
  Callers = {t1, t2}
  Containers = {orders, items}
  Ids = {1}
  Kinds = {"int", "str"}
  SampleSize = 2
  MetadataSample = 1
INVARIANTS
  TypeOK
  SchemasComeFromSamples
  OneFillPerCaller
PROPERTIES
  NoLateSampler
  Stabilises
  CallsReturn
  ImplementsMemoizer
