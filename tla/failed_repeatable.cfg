\* A failed repeatable is taken for applied.
SPECIFICATION Spec
CONSTANTS
  Versions = {1, 2}
  Repeatables = {3}
  Editions <- MCEditions
  SumOf <- MCSumOf
  TitleOf <- MCTitleOf
  MaxRank = 9
  Target = 0
  OutOfOrder = FALSE
  Sessions = {s1}
  Dialect = "postgresql"
  NoTransaction = {3}
  CreateSchemas = TRUE
  BaselineVersion = 1
  BaselineOnMigrate = FALSE
  ValidateOnMigrate = TRUE
  Embedded = TRUE
  InitialDisk <- AllScripts
  SchemaAtStart = TRUE
  Commands = {"migrate"}
  MaxCommands = 1
  MaxEdits = 0
  LockLoss = FALSE
INVARIANTS
  FailedIsReported
