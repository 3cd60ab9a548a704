------------------------------ MODULE Resolver ------------------------------
(***************************************************************************)
(* What a program does with its scripts: it configures goway (config.go),  *)
(* loads the migrations (config.go, dialect.go, source.go, resolver.go) and *)
(* Migrate turns each script into the statements it sends (migrate.go).     *)
(* One program on one schema: Migrator has everything about the history.    *)
(***************************************************************************)
EXTENDS Versions, ScriptNames, StatementSplitter

CONSTANTS
  Settings,        \* Sets of raw versions that programs pass to the setters
  Servers,         \* "sqlite", "postgresql" and others
  Directories(_),  \* The files that the sources may hold, by server
  Collation,       \* The lexemes of descriptions, in the order of strings
  PlaceholderValues,  \* What the program passes to Placeholders: a value for each key
  Schema, InstalledBy, Table  \* The values of flyway:defaultSchema, :user and :table

\* A file has a name, a text, and can be read or not.
None == <<>>

VARIABLES
  server,       \* What answers on the data source
  files,        \* What the sources hold, one after another
  looked,       \* How many of them resolveMigrations has looked at
  settings,     \* Raw versions passed to BaselineVersion and Target
  dialect,      \* The dialect of the Migrator
  versioned,    \* Resolved migrations
  repeatable,
  callbacks,    \* Callback scripts
  stage,        \* How far the program is
  sent          \* Statements of each migration that Migrate ran

ASSUME CollationIsSequence == Collation \in Seq(ToSet(Collation))

\* What the sources hold, and the names in them, are sequences, and descriptions
\* are of lexemes that have a place in the order of strings.
ASSUME FilesAreSequences ==
  \A on \in Servers : \A fs \in Directories(on) :
    /\ fs \in Seq(ToSet(fs))
    /\ \A f \in ToSet(fs) :
         /\ f.name \in Seq(ToSet(f.name))
         /\ IsRepeatable(f.name) => Description(f.name) \in Seq(ToSet(Collation))

\* No two keys that the program sets are one but for their case: which of their
\* values stays would depend on the order in which a map is walked.
ASSUME PlaceholderKeysDiffer ==
  \A k, l \in DOMAIN PlaceholderValues : LowerCase(k) = LowerCase(l) => k = l

vars == <<server, files, looked, settings, dialect, versioned, repeatable,
          callbacks, stage, sent>>
programVars == <<server, files, settings>>
resolvedVars == <<versioned, repeatable, callbacks>>

Init ==
  /\ server \in Servers
  /\ files \in Directories(server)
  /\ looked = 0
  /\ settings \in Settings
  /\ dialect = "none"
  /\ versioned = <<>> /\ repeatable = <<>> /\ callbacks = <<>>
  /\ stage = "configuring"
  /\ sent = <<>>

-----------------------------------------------------------------------------
(* Load.                                                                   *)

\* A setter that is given what is no version leaves an error for Load.
configErr == \E raw \in settings : ~IsVersion(raw)

Refuse(reason) ==
  /\ stage' = reason
  /\ UNCHANGED <<programVars, looked, dialect, resolvedVars, sent>>

\* LoadContext: an invalid setting comes first.
RefuseSettings ==
  /\ stage = "configuring" /\ configErr
  /\ Refuse("bad setting")

\* detectDialect: the first question failed, for whatever reason, and the second
\* failed or was answered by something else.
RefuseServer ==
  /\ stage = "configuring" /\ ~configErr
  /\ Refuse("no dialect")

DetectDialect ==
  /\ stage = "configuring" /\ ~configErr
  /\ server \in {"sqlite", "postgresql"}
  /\ dialect' = server
  /\ stage' = "resolving"
  /\ UNCHANGED <<programVars, looked, resolvedVars, sent>>

NextFile == files[looked + 1]
Looking == stage = "resolving" /\ looked < Len(files)

AddCallback ==
  /\ Looking /\ ~IsMigration(NextFile.name) /\ IsCallback(NextFile.name)
  /\ callbacks' = Append(callbacks, NextFile)
  /\ looked' = looked + 1
  /\ UNCHANGED <<programVars, dialect, versioned, repeatable, stage, sent>>

IgnoreFile ==
  /\ Looking /\ ~IsMigration(NextFile.name) /\ ~IsCallback(NextFile.name)
  /\ looked' = looked + 1
  /\ UNCHANGED <<programVars, dialect, resolvedVars, stage, sent>>

\* Only the text of a migration is read here.
RefuseUnreadable ==
  /\ Looking /\ IsMigration(NextFile.name) /\ ~NextFile.readable
  /\ Refuse("unreadable")

Readable == Looking /\ IsMigration(NextFile.name) /\ NextFile.readable

\* resolvedMigration.
Resolved(file) ==
  [file          |-> file,
   description   |-> Description(file.name),
   version       |-> IF IsRepeatable(file.name) THEN None ELSE Parts(RawVersion(file.name)),
   display       |-> IF IsRepeatable(file.name) THEN None ELSE Display(RawVersion(file.name)),
   checksum      |-> Digested(file.text),
   noTransaction |-> RequestsNoTransaction(file.text)]

SeenRepeatable(file) == \E m \in ToSet(repeatable) : m.description = Description(file.name)

\* Planted bug: two spellings of a version are two versions.
SeenVersion_Display(file) ==
  \E m \in ToSet(versioned) : m.display = Display(RawVersion(file.name))

SeenVersion(file) ==
  \E m \in ToSet(versioned) :
    VersionKey(m.version) = VersionKey(Parts(RawVersion(file.name)))

RefuseRepeatable ==
  /\ Readable /\ IsRepeatable(NextFile.name) /\ SeenRepeatable(NextFile)
  /\ Refuse("duplicate")

AddRepeatable ==
  /\ Readable /\ IsRepeatable(NextFile.name) /\ ~SeenRepeatable(NextFile)
  /\ repeatable' = Append(repeatable, Resolved(NextFile))
  /\ looked' = looked + 1
  /\ UNCHANGED <<programVars, dialect, versioned, callbacks, stage, sent>>

RefuseName ==
  /\ Readable /\ IsVersioned(NextFile.name) /\ ~IsVersion(RawVersion(NextFile.name))
  /\ Refuse("bad version")

RefuseVersion ==
  /\ Readable /\ IsVersioned(NextFile.name) /\ IsVersion(RawVersion(NextFile.name))
  /\ SeenVersion(NextFile)
  /\ Refuse("duplicate")

AddVersioned ==
  /\ Readable /\ IsVersioned(NextFile.name) /\ IsVersion(RawVersion(NextFile.name))
  /\ ~SeenVersion(NextFile)
  /\ versioned' = Append(versioned, Resolved(NextFile))
  /\ looked' = looked + 1
  /\ UNCHANGED <<programVars, dialect, repeatable, callbacks, stage, sent>>

\* The order of strings.
CollationOf(description) ==
  [i \in 1..Len(description) |-> CHOOSE n \in 1..Len(Collation) : Collation[n] = description[i]]

\* What a stable sort by Compare of by[i] for each s[i] makes of s (there is one
\* such sequence).
StableSorts(s, by) ==
  {[i \in 1..Len(s) |-> s[p[i]]] :
     p \in {q \in Bijection(1..Len(s), 1..Len(s)) :
             \A i, j \in 1..Len(s) : i < j =>
               \/ Compare(by[q[i]], by[q[j]]) < 0
               \/ Compare(by[q[i]], by[q[j]]) = 0 /\ q[i] < q[j]}}

VersionsOf(s)     == [i \in 1..Len(s) |-> s[i].version]
DescriptionsOf(s) == [i \in 1..Len(s) |-> CollationOf(s[i].description)]

\* The stable sorts at the end of resolveMigrations.
SortMigrations ==
  /\ stage = "resolving" /\ looked = Len(files)
  /\ versioned' \in StableSorts(versioned, VersionsOf(versioned))
  /\ repeatable' \in StableSorts(repeatable, DescriptionsOf(repeatable))
  /\ stage' = "loaded"
  /\ UNCHANGED <<programVars, looked, dialect, callbacks, sent>>

-----------------------------------------------------------------------------
(* Migrate, on an empty history: every migration is pending.               *)

Migrations == versioned \o repeatable
Migration == Migrations[Len(sent) + 1].file

\* The setter Placeholders stores the keys in lower case.
Placeholders ==
  [key \in {LowerCase(k) : k \in DOMAIN PlaceholderValues} |->
     PlaceholderValues[CHOOSE k \in DOMAIN PlaceholderValues : LowerCase(k) = key]]

\* effectivePlaceholders: configured values go before built in ones.
EffectivePlaceholders(file) ==
  Placeholders
    @@ (<<"flyway:defaultschema">> :> Schema) @@ (<<"flyway:user">> :> InstalledBy)
    @@ (<<"flyway:table">> :> Table)          @@ (<<"flyway:filename">> :> file.name)

Applying == stage = "loaded" /\ Len(sent) < Len(Migrations)

\* applyMigration, until the statements are executed.
SendStatements ==
  /\ Applying /\ ~HasUnknown(Migration.text, EffectivePlaceholders(Migration))
  /\ sent' = Append(sent, Statements(Replaced(Migration.text, EffectivePlaceholders(Migration)),
                                     dialect))
  /\ UNCHANGED <<programVars, looked, dialect, resolvedVars, stage>>

RefusePlaceholder ==
  /\ Applying /\ HasUnknown(Migration.text, EffectivePlaceholders(Migration))
  /\ Refuse("unknown placeholder")

Next ==
  \/ RefuseSettings \/ RefuseServer \/ DetectDialect
  \/ AddCallback \/ IgnoreFile \/ RefuseUnreadable
  \/ RefuseRepeatable \/ AddRepeatable \/ RefuseName \/ RefuseVersion \/ AddVersioned
  \/ SortMigrations \/ SendStatements \/ RefusePlaceholder

Spec == Init /\ [][Next]_vars

=============================================================================
