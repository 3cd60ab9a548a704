\* Every command ends: two sessions on PostgreSQL, whose lock may be lost.
SPECIFICATION FairSpec
CONSTANTS
  Versions = {1, 2}
  Repeatables = {}
  Editions <- OneEdition
  SumOf <- OneSum
  TitleOf <- OneTitle
  MaxRank = 9
  Target = 0
  OutOfOrder = FALSE
  Sessions = {s1, s2}
  Dialect = "postgresql"
  NoTransaction = {2}
  CreateSchemas = TRUE
  BaselineVersion = 1
  BaselineOnMigrate = FALSE
  ValidateOnMigrate = TRUE
  Embedded = FALSE
  InitialDisk <- AllScripts
  SchemaAtStart = TRUE
  Commands = {"migrate", "baseline", "repair", "clean"}
  MaxCommands = 2
  MaxEdits = 1
  LockLoss = TRUE
INVARIANTS
  TransactionalIsExact
PROPERTIES
  CommandsEnd
