\* Two PostgreSQL migrators at a time, with failures, crashes and edits.
SPECIFICATION Spec
CONSTANTS
  Versions = {1, 2}
  Repeatables = {3}
  Editions <- MCEditions
  SumOf <- MCSumOf
  TitleOf <- MCTitleOf
  MaxRank = 9
  Target = 0
  OutOfOrder = FALSE
  Sessions = {s1, s2}
  Dialect = "postgresql"
  NoTransaction = {2}
  CreateSchemas = TRUE
  BaselineVersion = 1
  BaselineOnMigrate = FALSE
  ValidateOnMigrate = TRUE
  Embedded = TRUE
  InitialDisk <- AllButFirst
  SchemaAtStart = TRUE
  Commands = {"migrate"}
  MaxCommands = 4
  MaxEdits = 2
  LockLoss = FALSE
SYMMETRY Symmetry
INVARIANTS
  TypeOK
  MutualExclusion
  RecordedWasRun
  FailureBlocks
  OrderedHistory
  SuccessMeansUpToDate
  RecordedIsWhatRan
  FailureIsNotLost
PROPERTIES
  KeepsTheLog
