\* Long sequences of commands, failures and edits, one after the other, on SQLite.
SPECIFICATION FairSpec
CONSTANTS
  Versions = {1, 2, 3}
  Repeatables = {4}
  Editions <- MCEditions
  SumOf <- MCSumOf
  TitleOf <- MCTitleOf
  MaxRank = 9
  Target = 2
  OutOfOrder = TRUE
  Sessions = {s1}
  Dialect = "sqlite"
  NoTransaction = {1}
  CreateSchemas = TRUE
  BaselineVersion = 1
  BaselineOnMigrate = FALSE
  ValidateOnMigrate = TRUE
  Embedded = FALSE
  InitialDisk <- AllButFirst
  SchemaAtStart = TRUE
  Commands = {"migrate", "baseline", "repair", "clean"}
  MaxCommands = 4
  MaxEdits = 2
  LockLoss = FALSE
INVARIANTS
  SuccessMeansUpToDate
  FailureBlocks
PROPERTIES
  RepairUnblocks
  CleanLeavesNothing
  CommandsEnd
