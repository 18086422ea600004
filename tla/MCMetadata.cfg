\* Two readers of an account that changes once.
SPECIFICATION Spec
CONSTANTS
  r1 = r1
  r2 = r2
  Readers = {r1, r2}
  None = None
  Absent = Absent
  Databases <- MCDatabases
  Containers <- MCContainers
  NameOrder <- MCNameOrder
  FieldSets <- MCFieldSets
  Start <- MCStart
  Calls <- MCCalls
  Changes = 1
CONSTRAINT FiltersAlone
INVARIANTS
  TypeOK
  ListsWhatIsThere
PROPERTIES
  RetriesGetThrough
