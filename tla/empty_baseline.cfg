\* BaselineOnMigrate baselines the schema this Migrate has just created.
SPECIFICATION Spec
CONSTANTS
  Versions = {1, 2}
  Repeatables = {3}
  Editions <- MCEditions
  SumOf <- MCSumOf
  TitleOf <- MCTitleOf
  MaxRank = 9
  Target = 0
  OutOfOrder = FALSE
  Sessions = {s1}
  Dialect = "postgresql"
  NoTransaction = {2}
  CreateSchemas = TRUE
  BaselineVersion = 1
  BaselineOnMigrate = TRUE
  ValidateOnMigrate = TRUE
  Embedded = TRUE
  InitialDisk <- AllScripts
  SchemaAtStart = FALSE
  Commands = {"migrate"}
  MaxCommands = 1
  MaxEdits = 0
  LockLoss = FALSE
PROPERTIES
  EmptyIsNotBaselined
