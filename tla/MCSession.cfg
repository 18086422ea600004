\* Two connections and two statements that look for one container's schema.
SPECIFICATION Spec
CONSTANTS
  Connections = {n1, n2}
  Statements = {s1, s2}
  Containers = {"c"}
  Unset = Unset
  Queries <- OneQuery
  Catalogs = {Unset}
  NonEmpty <- TwoPlaces
  Malformed = {}
  DatabaseOptions <- MovingDatabaseOptions
  ConnectionOptions <- MovingConnectionOptions
  StatementOptions <- MovingStatementOptions
  ListBound = 1
  HasVariant = FALSE
SYMMETRY Alike
INVARIANTS
  TypeOK
  SchemasMatchTargets
PROPERTIES
  TargetsMoveByOwnCalls
