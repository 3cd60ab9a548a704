\* Two callers share a pool: of three connections on PostgreSQL, of one on SQLite.
SPECIFICATION Spec
CONSTANTS
  MaxOpen <- MCMaxOpen
  Sessions = {"s1", "s2"}
  Connections = {"c1", "c2", "c3"}
  Process <- OneProcess
  SchemaOf <- OneConfigured
  LoginPath = "public"
  Scripts = {"tx", "noTx"}
  NoTransaction = {"noTx"}
  BuildsIndex = {}
  Nobody = "nobody"
  MaxCommands = 3
INVARIANTS
  TypeOK
  ExclusiveUnlessBroken
  NothingLeaks
  ScriptRunsInSchema
PROPERTIES
  CommandsEnd
