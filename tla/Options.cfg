\* One connection and one statement, with every option set and refused.
SPECIFICATION HSpec
CONSTANTS
  Connections = {n1}
  Statements = {s1}
  Containers = {"c"}
  Unset = Unset
  Queries <- OneQuery
  Catalogs = {Unset, "d2"}
  NonEmpty <- OnePlace
  Malformed = {"bad"}
  DatabaseOptions <- CredentialOptions
  ConnectionOptions <- ScopingOptions
  StatementOptions <- EveryStatementOption
  ListBound = 2
  HasVariant = FALSE
CONSTRAINTS
  StatementsArePlain
  FewOptions
INVARIANTS
  ConnectsAsConfigured
  AsAsked
PROPERTIES
  ReadyStaysReady
  OnlyEmptyIsNotFound
