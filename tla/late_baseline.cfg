\* Baseline, unlocked, inserts its row after Migrate has applied scripts.
SPECIFICATION Spec
CONSTANTS
  Versions = {1, 2}
  Repeatables = {3}
  Editions <- MCEditions
  SumOf <- MCSumOf
  TitleOf <- MCTitleOf
  MaxRank = 9
  Target = 0
  OutOfOrder = FALSE
  Sessions = {s1, s2}
  Dialect = "postgresql"
  NoTransaction = {2}
  CreateSchemas = TRUE
  BaselineVersion = 1
  BaselineOnMigrate = FALSE
  ValidateOnMigrate = TRUE
  Embedded = TRUE
  InitialDisk <- AllScripts
  SchemaAtStart = TRUE
  Commands = {"migrate", "baseline"}
  MaxCommands = 2
  MaxEdits = 0
  LockLoss = FALSE
SYMMETRY Symmetry
INVARIANTS
  BaselineComesFirst
