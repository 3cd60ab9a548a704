\* Every command against PostgreSQL from two sessions, concurrently.
SPECIFICATION Spec
CONSTANTS
  Versions = {1, 2}
  Repeatables = {3}
  Editions <- MCEditions
  SumOf <- MCSumOf
  TitleOf <- MCTitleOf
  MaxRank = 9
  Target = 0
  OutOfOrder = FALSE
  Sessions = {s1, s2}
  Dialect = "postgresql"
  NoTransaction = {3}
  CreateSchemas = TRUE
  BaselineVersion = 1
  BaselineOnMigrate = TRUE
  ValidateOnMigrate = TRUE
  Embedded = TRUE
  InitialDisk <- AllScripts
  SchemaAtStart = FALSE
  Commands = {"migrate", "baseline", "repair", "clean"}
  MaxCommands = 3
  MaxEdits = 1
  LockLoss = FALSE
SYMMETRY Symmetry
INVARIANTS
  AtMostOnce
  TransactionalIsExact
PROPERTIES
  HistoryIsKept
