SPECIFICATION Spec

CONSTANTS
  NumberOf <- MCNumberOf
  Lower <- MCLower
  VersionedPrefix = "V"
  RepeatablePrefix = "R"
  ScriptSuffixes = {".sql"}
  Events = {"beforemigrate"}
  Blank = {"sp", "nl", "cr"}
  Directives = {"noTransaction"}
  WordStarts <- MCWordStarts
  Digits = {"1"}
  Settings <- MCSettings
  Servers = {"sqlite", "postgresql", "other"}
  Directories <- MCDirectories
  Collation <- MCCollation
  PlaceholderValues <- MCPlaceholderValues
  Schema <- MCSchema
  InstalledBy <- MCInstalledBy
  Table <- MCTable

INVARIANTS
  MigrationsAreOrdered
  LoadedIffUnambiguous
  SplitsAtDelimiters
  EverythingIsSent
  PlaceholdersAreReplaced
  ChecksumIgnoresLineEnds
  DirectiveIsSeen

CHECK_DEADLOCK FALSE
