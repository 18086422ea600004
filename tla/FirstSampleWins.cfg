\* Two calls miss together; the later insert replaces the schema of the first.
SPECIFICATION FairSpec
CONSTANTS
  Callers = {t1, t2}
  Containers = {orders}
  Ids = {1}
  Kinds = {"int", "str"}
  SampleSize = 2
  MetadataSample = 1
PROPERTIES
  FirstSampleWins
