\* A script builds an index concurrently while another migrator waits for the lock.
SPECIFICATION Spec
CONSTANTS
  MaxOpen <- OnlyPostgres
  Sessions = {"s1", "s2"}
  Connections = {"c1", "c2", "c3"}
  Process <- OneProcess
  SchemaOf <- OneConfigured
  LoginPath = "public"
  Scripts = {"tx", "noTx"}
  NoTransaction = {"noTx"}
  BuildsIndex = {"noTx"}
  Nobody = "nobody"
  MaxCommands = 2
PROPERTIES
  IndexBuildsEnd
