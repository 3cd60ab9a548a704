\* Two migrators on SQLite, where acquireLock does nothing.
SPECIFICATION Spec
CONSTANTS
  Versions = {1, 2}
  Repeatables = {3}
  Editions <- MCEditions
  SumOf <- MCSumOf
  TitleOf <- MCTitleOf
  MaxRank = 9
  Target = 0
  OutOfOrder = FALSE
  Sessions = {s1, s2}
  Dialect = "sqlite"
  NoTransaction = {}
  CreateSchemas = TRUE
  BaselineVersion = 1
  BaselineOnMigrate = FALSE
  ValidateOnMigrate = TRUE
  Embedded = TRUE
  InitialDisk <- AllScripts
  SchemaAtStart = TRUE
  Commands = {"migrate"}
  MaxCommands = 2
  MaxEdits = 0
  LockLoss = FALSE
SYMMETRY Symmetry
INVARIANTS
  AtMostOnce
