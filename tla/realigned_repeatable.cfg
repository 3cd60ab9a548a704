\* Repair realigns an outdated repeatable, which is then never applied.
SPECIFICATION Spec
CONSTANTS
  Versions = {1, 2}
  Repeatables = {3}
  Editions <- MCEditions
  SumOf <- MCSumOf
  TitleOf <- MCTitleOf
  MaxRank = 9
  Target = 0
  OutOfOrder = FALSE
  Sessions = {s1}
  Dialect = "postgresql"
  NoTransaction = {2}
  CreateSchemas = TRUE
  BaselineVersion = 1
  BaselineOnMigrate = FALSE
  ValidateOnMigrate = TRUE
  Embedded = TRUE
  InitialDisk <- AllScripts
  SchemaAtStart = TRUE
  Commands = {"migrate", "repair"}
  MaxCommands = 2
  MaxEdits = 1
  LockLoss = FALSE
PROPERTIES
  OutdatedSurvivesRepair
