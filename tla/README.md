# goway in TLA+

goway is a Go library (and a small command line tool) that brings a PostgreSQL
or SQLite database up to date with versioned and repeatable SQL scripts and
keeps the record of what was applied in a schema history table, in the format
of Flyway. This directory holds TLA+ specifications of it: what its commands do
to the database, statement by statement, when several processes issue them,
fail and crash; what it does with the names and texts of scripts before that;
the connections it does it over; the TLC runs that check all this; and TLAPS
proofs of the most important properties for every number of processes and
scripts.

Paths are relative to the repository (`src/`).

## 1. Inventory

### Components, their state and their operations

| Component | Files | State | Operations |
|---|---|---|---|
| Schema history table | `history.go`, the DML and DDL of `dialect_*.go` | the table: does it exist, its rows, with `installed_rank` as primary key | `exists`, `create`, `all`, `nextInstalledRank`, `insert`, `deleteFailed`, `updateChecksum` |
| Migration states | `info.go`, `migration.go` | none: a function of scripts, rows and configuration | `computeInfos`, `pending`, `validate`, `infos` |
| Migrate | `migrate.go`, `script.go` | a pending list and the migration in progress; the advisory lock; one connection or transaction per migration | lock, prepare, read, validate, callbacks, apply each, unlock |
| Baseline | `baseline.go` | none of its own | prepare, read, insert the marker |
| Repair | `repair.go` | the records it read | delete failed rows, realign checksums one by one |
| Clean | `clean.go`, `cleanStatements` | the statements to send | drop and recreate the schema, or drop object by object |
| Info, Validate | `migrator.go`, `validate.go` | none | read and compute |
| Schemas | `migrator.go` | which schemas exist | `resolveDefaultSchema`, `ensureSchemas` |
| Sources and loading | `config.go`, `source.go`, `resolver.go` | the resolved scripts, fixed when `Load` runs, and closures that read the text again | `LoadContext`, `resolveMigrations`, `scan`, `read` |
| Versions and names | `version.go`, `name.go` | none | `parseVersion`, `Compare`, `normalizedVersionKey`, `parseResourceName` |
| Splitter, placeholders, checksum | `parser.go`, `placeholder.go`, `checksum.go` | none | pure functions on the text of a script |
| Callbacks | `callback.go` | the registered callbacks | run at five points of Migrate |
| Connection pool | `*sql.DB`, used by `migrate.go`, `clean.go` | idle and used connections, their `search_path` and pragmas | dedicated connections for the lock, for scripts outside a transaction, for Clean |
| Command line tool | `cmd/goway/main.go` | none | one command per process |

### How they interact

A process calls `Load` once: the scripts are resolved, their checksums computed,
their texts forgotten (`resolver.go:50`). Commands then share nothing but the
database. Migrate holds a PostgreSQL advisory lock on a connection of its own
and sends everything else over others; Baseline, Repair and Clean take no lock;
SQLite has no lock at all, only one writer at a time. Migrate decides what to
apply from one read of the history, then applies script by script, each in a
transaction together with its row or, when the script opted out, statement by
statement with the row afterwards.

### What is hard

* **Interleaving.** Locked and unlocked commands of several processes on one
  table; ranks read and used in two statements; decisions on rows read earlier.
* **Failure.** Every statement may return an error and takes the error path of
  the code; a commit may succeed and its answer be lost; a process may die
  between any two statements; the server may end the connection that holds the
  lock while the run goes on.
* **Ordering.** Scripts are added, changed, renamed and removed between and
  during runs; what may still be applied depends on all of the history.
* **Waiting.** The lock, SQLite's single writer, uncommitted rows with the same
  key, `DROP SCHEMA`, a pool of limited size.

### What makes each component correct

* *History table:* ranks are unique and grow; a row is never lost or altered by
  somebody else's command, its checksum excepted; the row of a transactional
  script is there exactly when the script's effects are.
* *States, Migrate:* one migrator at a time; a version takes effect once;
  versions are applied in order; nothing is applied behind a failure; success
  means that nothing is left to apply; what is recorded is what ran.
* *Baseline:* its marker comes before every script.
* *Repair:* afterwards Migrate's validation no longer fails, and what still has
  to be applied is still applied.
* *All:* every command ends.
* *All of Migrate:* together the sessions keep a log: scripts run in order, each
  once, and a row for each run.
* *Loading:* every file that is a migration is loaded once, under one order and
  one equality of versions, or Load refuses. *Splitter:* exactly the semicolons
  that end statements divide, and nothing is lost, whatever the SQL. *Checksum:*
  independent of line ends.
* *Pool:* no command waits for itself; lock and `search_path`, which stay on a
  connection, never reach the wrong command.

`PROJECT.json` lists the hazards line by line, with the properties for each.

## 2. Modules

| Module | Models | Uses |
|---|---|---|
| `SchemaHistory` | rows, ranks, checksums and the effect of each statement on the table | |
| `MigrationStates` | `info.go`: the state of each script, the pending list, the problems validation finds, the updates of Repair | `SchemaHistory` |
| `Migrator` | the commands, one action per statement sent to the database, for a set of sessions; failures; the scripts that change; fairness; type invariant | `MigrationStates` |
| `MigratorProperties` | safety, action and liveness properties, and what the documentation says | `Migrator` |
| `MigrationLog` | the abstract specification: a log of runs and failures that `Migrator` implements | |
| `MCMigrator` | values of constants for TLC | `MigratorProperties` |
| `MigratorProofs` | proofs about `Migrator`: types, the lock, at most once | `MigratorProperties` |
| `RecordProofs` | proofs: what `info.go` computes for every table, ranks, what is kept in the table and recorded, Repair and Clean | `MigratorProofs` |
| `MigrateProofs` | proofs: what Migrate decides when it is alone | `RecordProofs` |
| `LogProofs` | proof that `Migrator` implements `MigrationLog` | `MigrateProofs` |
| `ConnectionPool` | which connection each statement is sent over on either dialect, the limit of the pool, the lock and the `search_path` of a connection; its properties | |
| `MCPool` | values of constants for TLC | `ConnectionPool` |
| `PoolProofs` | proofs about the connections | `ConnectionPool` |
| `Versions` | `version.go` and the key of a version | |
| `LetterCase` | `strings.ToLower`, of names and of keys | |
| `ScriptNames` | `name.go`, names of callbacks | `LetterCase` |
| `ScriptText` | `checksum.go`, `script.go`, `placeholder.go` | `LetterCase` |
| `StatementSplitter` | `parser.go` | `ScriptText` |
| `Resolver` | `LoadContext`, `detectDialect`, `resolveMigrations` file by file, the placeholders a script has, and `applyMigration` up to the statements it sends | `Versions`, `ScriptNames`, `StatementSplitter` |
| `TextShapes` | what texts and divisions of them can look like, for the properties and the lemmas | `ScriptText` |
| `ScriptProperties` | what loading and splitting must do, told by how the inputs were made | `Resolver`, `TextShapes` |
| `TextLemmas` | lemmas on what `ScriptText` and `StatementSplitter` compute, for every text | `TextShapes`, `StatementSplitter` |
| `LoadProofs` | proofs about versions and about Load | `ScriptProperties`, `TextLemmas` |
| `ScriptProofs` | proofs about the texts of scripts: checksum, directive, placeholders, statements | `LoadProofs` |
| `MCTexts` | the inputs for TLC | `ScriptProperties` |

`Migrator` takes scripts as opaque, ordered, distinct values with checksums;
`Resolver` and the modules under it justify that. `ConnectionPool` takes the
statements of a command as given; `Migrator` says what they do.

### How state and actions correspond to the code

A *session* is a process that uses the library, with one command at a time.

| Variable | In the code |
|---|---|
| `pc[p]` | the next statement the command of session `p` sends (`Steps`) |
| `my[p]` | its local variables: `res` (`f.resolved`), `todo` (the rest of `service.pending()`), `cur`, `text` (what `read()` returned), `rank`, `failed` (`runErr != nil`), `created` (`createdSchemas`), `fixes` (Repair's remaining updates), `drop` (Clean's remaining statements), `ok` (no error to return) |
| `holders` | the session that holds the advisory lock |
| `schemaExists`, `tableExists`, `rows` | the managed schema, the history table and its committed rows |
| `effects[k]` | the editions of script `k` whose statements all took effect, in order: what the history is compared with |
| `disk` | the scripts in the configured locations now |
| `edits`, `started` | counters for the bounds |

A script is a *key* and an *edition*. A key is a version, or the description
that identifies a repeatable; keys are numbers in the order in which `pending`
applies scripts. An edition fixes the checksum (`SumOf`) and the description in
the file's name (`TitleOf`), so it can be the same text under another name; for
a repeatable, whose description is its key, another title only means another
path.

| Action | In the code |
|---|---|
| `Start`, `AcquireLock`, `Release` | entry of a command, `acquireLock`, the deferred release |
| `EnsureSchemas`, `CreateSchema`, `HistoryExists`, `CreateHistory` | `ensureSchemas`, `exists`, `create` |
| `NextInstalledRank`, `InsertSchemaMarker`, `InsertBaseline` | `nextInstalledRank` before each of the four inserts, `recordSchemaCreation`, `insertBaseline` |
| `ReadForMigrate`, `BeforeMigrate`, `BeginMigration`, `AllApplied`, `AfterMigrate` | the body of `Migrate` and the head of `applyMigration` |
| `RunInTransaction`, `InsertInTransaction`, `Commit` | `applyWithinTransaction`; its writes are private until `Commit`, which makes effects and row durable in one step |
| `RunStatements`, `RunStatementsFails`, `InsertAfterRun` | `applyWithoutTransaction` |
| `ReadForBaseline` | `Baseline` |
| `DeleteFailedRows`, `ReadForRepair`, `UpdateOneChecksum`, `RepairDone` | `Repair` |
| `DropSchema`, `RecreateSchema`, `ListObjects`, `DropObject`, `CleanDone` | `Clean` on PostgreSQL and on SQLite |
| `OperationFails` | any statement, read of a script or callback returns an error: the `if err != nil` of that place |
| `CommitAnswerLost`, `Crash`, `LoseLock` | the failures the code cannot see |
| `EditScript`, `Load` | the scripts change; a process is replaced and resolves them again |
| `Quiet` | nothing is in progress and the bound on commands is reached |

In `ConnectionPool` the variables are `pc` and `my` (the schema, the lock's
connection, the script's connection, the scripts left) for each caller, and for
each connection who has it (`user`), whether the server still knows it
(`alive`), its `search_path` (`path`, and `local` inside a transaction), and
whether it holds the advisory lock (`holder`); `dialect` never changes. A
statement sent to `*sql.DB` borrows a free connection for its own length;
consecutive ones are one step.
`Break` ends a connection in use, `CloseIdle` one that is not.

In `Resolver`, `files` is what the sources hold, `looked` the index of the loop,
`versioned`, `repeatable` and `callbacks` the slices it fills, `stage` how far the
program is or why it was refused, `sent` the statements per script. There is an
action for each way through the loop of `resolveMigrations`. Names and texts are
sequences of lexemes: all that the code tells apart (`"V"`, `"_"`, a numeral,
`"--"`, `"'"`, `"E"`, `"$"`, `"BEGIN"`, `"nl"`, ...), with words that mean nothing
as one lexeme. The scanners, which only move forward, are functions of the place
they are at (`Past`, `Looks`, `PastQuoted`).

What the database does is modelled from what the code relies on: the primary key
refuses a rank that is taken; PostgreSQL makes an insert wait for an uncommitted
row of the same rank, and `DROP SCHEMA` for transactions that used the table;
SQLite refuses to write while another transaction has written.

Definitions whose names end in a suffix after an underscore (such as
`AcquireLock_NoLock`, commented "Planted bug") are not part of the model. Each
is a plausible mistake in the definition below it; with the mistake in place the
property named in `PROJECT.json` is violated, which shows that the property
depends on that piece of code.

### Abstractions

* One managed schema. Configuration is by constants, the same for all sessions;
  Clean is enabled.
* A script's statements take effect as one step at their end. Outside a
  transaction they may also stop half way (`RunStatementsFails`), after which
  `effects` counts nothing: it counts complete runs.
* Callbacks may fail, but change nothing the history is compared with.
* Checksums collide only where `SumOf` says so.
* SQLite's Clean drops the objects of the scripts as one, before or after the
  history table.
* Columns nobody compares (user, time, duration, file name) are left out.
* In the pool, scripts run in any order, and a statement that is not part of a
  script takes no time; an unlock fails only with its connection.
* Numerals have a value and a spelling, so that `01` and `1` are two lexemes of
  one value; strings are ordered by `Collation`. A lexeme that is not in
  lower case is in the domain of `Lower`, which says what `ToLower` makes of it: a suffix of a file's name,
  a key of a placeholder. A configured prefix is one lexeme, a separator two.

## 3. Properties and runs

| Property | Says |
|---|---|
| `MutualExclusion` | no two sessions are inside Migrate |
| `AtMostOnce` | a transactional version takes effect at most once between two cleans |
| `TransactionalIsExact` | a transactional script has as many successful rows as it took effect |
| `RecordedWasRun` | a script outside a transaction is not recorded more often than it ran |
| `FailureBlocks` | no script's row is above the row of a failed version |
| `OrderedHistory` | versions were applied in ascending order |
| `SuccessMeansUpToDate` | when Migrate is about to return success, everything it resolved is settled in the history as it is then |
| `RecordedIsWhatRan` | a recorded checksum is that of an edition that took effect |
| `HistoryIsKept` | a step loses no successful row, unless it cleans, and changes nothing in it but its checksum |
| `RepairUnblocks` | when Repair is done, validation finds only scripts that are gone or renamed |
| `FailureIsNotLost` | when Migrate ends on a script that failed outside a transaction, the script is marked as failed or still pending |
| `CleanLeavesNothing` | a Clean that succeeds leaves no table and no effect (the run checks SQLite, the theorem is about both dialects) |
| `CommandsEnd` | every command ends |
| `KeepsTheLog` | `Migrator` implements `MigrationLog` |
| `ExclusiveUnlessBroken` | two callers are past `acquireLock` only if the lock's connection of one of them broke |
| `NothingLeaks` | no idle connection holds the lock, and every lent one is known to its caller as either the lock's or the script's |
| `ScriptRunsInSchema` | a script runs in the schema its command's history is in |
| `MigrationsAreOrdered` | loaded versions are in numeric, repeatables in alphabetic order |
| `LoadedIffUnambiguous` | Load succeeds exactly when no two migrations are one and none is bad, and then drops none; a stored version finds its migration |
| `SplitsAtDelimiters` | what is sent are the statements that were written, where the inputs say what these are (not of `BEGIN` on PostgreSQL) |
| `EverythingIsSent` | of any text, however wrong, all but blanks is sent, once and in order, in parts that end at semicolons |
| `PlaceholdersAreReplaced` | each placeholder, its key in whatever letter case, configured or built in, becomes its value, once; an unknown one stops the run |
| `ChecksumIgnoresLineEnds` | the checksum covers everything but line ends and a byte order mark |
| `DirectiveIsSeen` | a script with a directive before any SQL opts out, and none that has no directive, wherever else it mentions a marker |

| Run | Configuration and bounds | Result |
|---|---|---|
| `pg_migrators` | 2 sessions, 4 Migrates, 2 changes of scripts, versions 1 and 2, a repeatable, one script outside a transaction, compiled-in scripts, version 1 added late | holds, refinement included; 750,000 states |
| `pg_commands` | 2 sessions, 3 commands of all kinds, 1 change, no schema at the start, baselineOnMigrate | holds; 800,000 states |
| `pg_progress` | 2 sessions, 2 commands of all kinds, a directory that changes, the lock may be lost; fairness | `CommandsEnd`, `TransactionalIsExact` hold |
| `sequence` | 1 session, SQLite, 4 commands of all kinds, 2 changes, three versions, target 2, outOfOrder, directory source; fairness | holds; 700,000 states |
| `pool` | 2 callers of one process, one with a configured schema, 3 connections on PostgreSQL and 1 on SQLite, 3 commands, one script in and one outside a transaction; fairness | holds; 290,000 states |
| `texts` | on SQLite up to 3 files out of 20 names in every order; on both dialects one script of up to 3 of about 27 pieces (statements, strings, comments and names with and without a marker, placeholders with keys in any case), or with an element that does not end, or a byte order mark, or any text of up to 4 lexemes out of 11: words, `BEGIN`, `END`, blanks, quotes, comments, brackets, dollar signs, backslashes, semicolons | holds; 676,000 states |
| `failed_repeatable` | 1 session, 1 Migrate | `FailedIsReported` violated |
| `empty_baseline` | 1 session, 1 Migrate, no schema at the start, baselineOnMigrate | `EmptyIsNotBaselined` violated |
| `realigned_repeatable` | Migrate, a change, Repair | `OutdatedSurvivesRepair` violated |
| `late_baseline` | Migrate and Baseline, concurrently | `BaselineComesFirst` violated |
| `sqlite_migrators` | 2 Migrates on SQLite | `AtMostOnce` violated |
| `concurrent_index` | the pool, 2 commands, the script outside a transaction builds an index concurrently; fairness | `IndexBuildsEnd` violated |

**Why the bounds are enough.** The sessions interact pairwise, through a lock, a
rank or a decision on an earlier read, so two sessions show the races; a third
one adds no new kind. Two versions and a repeatable suffice for order, "below
current" and the two halves of the pending list; the third version of `sequence`
is there for the target. Four Migrates let a failure or crash be followed by
another attempt of each session; three mixed commands let an unlocked command
fall between two others; four in sequence reach "fail, change, repair, retry".
Two changes allow a script to be removed and put back, or two scripts to change.
Three editions are a text, another text, and the first text renamed. `MaxRank`
is 9 so that it is not reached within the bounds on commands. SQLite never
waits (a busy database is an error), so liveness on SQLite needs no second
session. In the pool, three connections are one more than the callers: with two,
both callers can hold their lock connection's place and wait for a second one for
ever, which is the known demand of the code, not a race. On SQLite, where no lock is
taken, one connection is the smallest pool there is, and it suffices. Three commands let a
caller get a connection the other left its path on. In `texts`, what the code
tells apart depends on an element, the one before it and whether a semicolon
follows: three pieces. In a text that is not made of pieces, four lexemes are enough for an element that
does not end, or ends at the end of the text, beside a semicolon on either side.
Two files clash or are ordered, a third one tells sorting
from exchanging neighbours.

**Where a property is not expected.** `RecordedIsWhatRan` needs compiled-in
scripts: with a directory, `applyMigration` reads a text that may be younger
than the checksum, and Repair rewrites checksums of what ran. `FailureBlocks`,
`SuccessMeansUpToDate` rest on validateOnMigrate. `OrderedHistory` is about
`outOfOrder` off. `RecordedWasRun` and, on SQLite, `TransactionalIsExact` do not
survive a Clean that stops half way. `AtMostOnce` is about PostgreSQL with the
lock kept; `sqlite_migrators` is the counterexample without a lock.

### What the violated runs show

1. **A failed repeatable counts as applied.** `populateRepeatableEntry`
   (`info.go:256-274`) does not look at `success`. After a repeatable outside a
   transaction fails, its row has the script's checksum: state `Success`. The
   next Migrate succeeds and does not run it. `schema-history.md:52` says a
   failed migration "must be resolved".
2. **An empty schema is baselined.** Migrate looks only for the table
   (`migrate.go:46-59`), so with baselineOnMigrate it baselines a schema it has
   created itself and ignores the versions up to the baseline.
   `reference/configuration.md:140` says a non-empty schema is baselined.
3. **Repair swallows a changed repeatable.** It realigns the checksum of every
   run (`repair.go:61`); `commands.md:115` says Migrate applies outdated
   migrations after a repair.
4. **Baseline above scripts.** Baseline checks and inserts without the lock
   (`baseline.go:34-57`); the check's own message (`baseline.go:49`) says that
   a history with migrations cannot be baselined.
5. **SQLite applies twice.** Without a lock both migrators read the history
   first, then apply one after the other (`migrate.go:361`); the comment at
   `migrate.go:24` and `guides/dialects.md:131` say that only one makes
   progress. Scripts that can run twice without an error are then run twice.
6. **A concurrent index build hangs.** A second migrator waits inside
   `SELECT pg_advisory_lock` (`migrate.go:369`), a statement with a snapshot, which
   `CREATE INDEX CONCURRENTLY` waits for. The lock belongs to another connection of
   the process that builds the index, and that connection is idle, so the server
   finds no deadlock. `guides/dialects.md:125` recommends such scripts.

More was met while modelling that is no run. Where a document and the code
disagree on something below, the properties claim neither side, unless it says so.

* *Clean on SQLite.* One that fails returns its connection to the pool with
  foreign keys switched off (`clean.go:34`), although `dialect_sqlite.go:116` says
  that they are off for the duration of the clean.
* *A failure without a trace.* A failure outside a transaction may leave no row,
  because the row is written with the context and on the connection that failed
  (`migrate.go:204-215`).
* *Where a directive counts.* `cookbook/non-transactional-migrations.md:26` says
  that it must come before any SQL statement, `docs/design.md:130` speaks of the
  first comment lines, `guides/writing-migrations.md:142` of the start of the
  file. The code takes one on any line (`script.go:18-32`), behind statements as well.
* *What hides a directive.* `script.go:13-16` says that a marker in a string or a
  statement does not count. A line of a multi-line string or block comment that
  begins with `--` does, the code looks at lines only; and a byte order mark hides
  a directive on the first line. `DirectiveIsSeen` has such scripts among its inputs ("hidden"
  pieces, the mark) and allows both outcomes for these; everywhere else a mere
  mention of the marker must not count.
* *`BEGIN` on PostgreSQL.* `guides/dialects.md:107-112` says that the splitter
  understands parentheses, `BEGIN`/`END` and `CASE`/`END` on PostgreSQL too, so that
  stored procedures stay whole. The code counts these words on SQLite only
  (`parser.go:114`) and parentheses nowhere: a function with a `BEGIN ATOMIC` body is
  cut at the semicolons in it, and so is a rule with several commands. Bodies in dollar quotes
  stay whole. `SplitsAtDelimiters` says nothing of a script with `BEGIN` on PostgreSQL.
* *Names that do not match.* `guides/writing-migrations.md:89` says that such files
  are ignored. A name like `Vx__a.sql`, with prefix and separator but no version,
  refuses the whole Load (`resolver.go:74-77`). `LoadedIffUnambiguous` states
  the refusal, which `ErrInvalidMigrationName` (`errors.go:41`) and the tests of
  versions support.

### The abstract log

`MigrationLog` has three variables: `log`, what was recorded with place and
checksum, `ran`, how often each script took effect, and `stopped`, whether a
version has failed. It allows four steps: apply a script that is due and record
it, run a script whose record comes later, record such a run, record a failure;
nothing is applied after a failure. `Log` in `MigratorProperties` instantiates it with the rows and
effects of `Migrator`, and `KeepsTheLog == Log!Spec` is checked in
`pg_migrators`: every step of any session, failures and crashes included, is a
step of the log or leaves it alone.

## 4. Fairness

For `Migrator`, `FairSpec` asks one thing of each session: `WF_vars(Answered(p))`. A statement
the program has sent is answered in the end, with the ordinary result if that
stays possible, and with an error where only an error is possible (`Refused`: no
table, a taken rank, SQLite busy). This is what a synchronous `database/sql`
call with a live server gives; the code itself never retries and never waits
except in such a call. Nothing has to fail, no command has to be issued, no
script has to change. Waiting for the advisory lock, for an uncommitted row or
for a transaction before `DROP SCHEMA` is a disabled action, so `CommandsEnd`
says that whoever is waited for finishes, and that weak fairness suffices
because with the bounded number of commands nobody is overtaken for ever.

`ConnectionPool` asks the same of each caller, `WF_vars(Step(p) \/ Refused(p))`:
`database/sql` serves requests for a connection in order, so one that is free is
lent in the end, and a statement is answered. Connections need not break.

## 5. Proofs

TLAPS proves the following for every set of sessions, versions, repeatables and
editions, every configuration that an assumption does not exclude, and no bound on
ranks, commands or changes beyond those that the constants name. The other
assumptions are those that the modules name where they declare the constants
(`KeysAssumption`, `EditionsAssumption`, `PolicyAssumption`,
`ConfigurationAssumption`, `PoolAssumption`, ...), which TLC evaluates in every run.
`Exclusive` says that Migrate is alone: either on PostgreSQL, while the server keeps
the connection of the lock, or on any dialect if commands are issued one at a
time (`OneAtATime`).

| Theorem | Property | Assumes | Invariant |
|---|---|---|---|
| `TypeCorrect` | `TypeOK` | | `TypeInv` |
| `MutuallyExclusive` | `MutualExclusion` | PostgreSQL, lock kept | `LockInv` |
| `AppliedAtMostOnce` | `AtMostOnce` | PostgreSQL, lock kept | `EffectInv` |
| `HistoryKept` | `HistoryIsKept` | | |
| `RecordedExactly` | `TransactionalIsExact` | PostgreSQL | `RankInv`, `ExactInv` |
| `RunBeforeRecorded` | `RecordedWasRun` | no Clean | `RankInv`, `WasRunInv` |
| `RecordedWhatRan` | `RecordedIsWhatRan` | scripts compiled in; Migrate and Baseline | `CommandInv`, `WhatRanInv` |
| `NothingAfterFailure` | `FailureBlocks` | `Exclusive`, validateOnMigrate | `TopInv`, `BlockInv` |
| `VersionsInOrder` | `OrderedHistory` | `Exclusive`, outOfOrder off | `TopInv`, `OrderInv` |
| `SuccessIsUpToDate` | `SuccessMeansUpToDate` | `Exclusive`, validateOnMigrate; beside Migrate only Baseline | `TopInv`, `SettledInv` |
| `FailureNotLost` | `FailureIsNotLost` | `Exclusive`, versions only; beside Migrate nothing | `TopInv`, `PendingInv` |
| `LogIsKept` | `KeepsTheLog` | `Exclusive`, validateOnMigrate, repeatables in transactions; Migrate and Baseline | all of these, `DueInv` |
| `RepairedUnblocks` | `RepairUnblocks` | `OneAtATime` | `RepairInv` |
| `CleanedLeavesNothing` | `CleanLeavesNothing` | `OneAtATime` | `CleanInv` |
| `PoolTypeCorrect`, `ExclusiveOnConnections`, `NoConnectionLeaks`, `RunsInSchema` | `TypeOK`, `ExclusiveUnlessBroken`, `NothingLeaks`, `ScriptRunsInSchema` of `ConnectionPool` | | `PoolInv` |
| `MigrationsOrdered`, `LoadsUnambiguously` | `MigrationsAreOrdered`, `LoadedIffUnambiguous` | files marked by their names | `LoadInv` |
| `ScriptsAreSentWhole` | `EverythingIsSent` | files marked by their pieces | `LoadInv`, `SentInv` |
| `DirectivesDecide`, `ChecksumsOfText`, `PlaceholdersReplaced` | `DirectiveIsSeen`, `ChecksumIgnoresLineEnds`, `PlaceholdersAreReplaced` | files marked by their pieces | `LoadInv`, `SentInv` |
| `KeysAreVersions`, `CompareIsAntisymmetric`, `CompareIsTransitive` | about the operators of `Versions` | | |

None of these properties is inductive. Every theorem about `Migrator` uses `TypeInv`;
`LockInv`, weakened to `Guarded` (one session, or `LockInv`), wherever `Exclusive`
is assumed. TLC checked each invariant on the instance of a run before it was
proved.

**Types, lock, once** (`MigratorProofs`). `TypeInv` adds to the types what the
registers hold at each step (`Fits`): which steps belong to which command, that the
migration in progress is pending and has a text, that a rank was read before it is
used. Without it a row with rank 0 or script `Nil` could be inserted. `LockInv`
says that a session between `AcquireLock` and `Release` is the holder. `EffectInv`
says that the transactional versions still pending for the holder have taken no
effect, and that each effect of such a version has a successful row: the second
part gives the first when the pending list is computed, exclusion keeps it true
while the list is worked off, Repair deletes only failed rows, Clean removes rows
and effects together. The proofs have one step per action; `OneSession`,
`OnlyGoto` and `Returning` reduce steps about one session's registers to it.

**Rows** (`RecordProofs`, first part). When ranks are unique, a script's applied row is the one
with the greatest rank; what is pending, failed or mismatched follows from it
(`PendingVersion`, `PendingRepeatable`, `ReportedFailures`). `RunRanksCount` and the
three lemmas behind it say how an insert, an update and a deletion change the
number of successful rows of a script, by counting ranks.

**Records** (`RecordProofs`). These need no lock. `RankInv` says that ranks are
unique, the ranks about to be committed included: two sessions may read the same
rank, but the primary key lets one insert it. With it `HistoryKept` follows, as
Repair names a row by its rank; and `ExactInv`, that there are as many ranks of
successful rows of a transactional script as effects, survives a lost lock.
On SQLite a Clean that stops half way breaks it, hence "PostgreSQL".
`WasRunInv` counts, with the successful rows, the sessions that ran the script
and have yet to record it. `WhatRanInv` says that such a session ran the text that
its checksum is of: true of compiled-in scripts only, and Repair would rewrite
the checksum.

**Migrate alone** (`MigrateProofs`). All of these say of a session past its read
(`Past`) that what it concluded from the rows is still true, as nobody else
adds a script's row (`OthersAddNothing`). `TopInv`: the rank it is to insert is above
every script's, and its script is the least left. `BlockInv`: no version has a
failed row, for validation would have found it (`FailureIsReported`: nothing is
above such a row, so it is the version's last). `OrderInv`: what is left is above
every version that ran, as the pending list has nothing below the current version
and is worked off from the least up. `SettledInv`: what is not left is settled,
and a run that failed is on its way to an error. `PendingInv`: what is left is still
pending, so that a failed version either gets a row that validation reports or
can run again. The last two must say what other commands do meanwhile: a Repair or
Clean between a Migrate's last script and its end takes away what was settled, a
Baseline hides a failed version, so these theorems exclude them unless commands come one at
a time. With that alternative, the theorems hold for all commands together and cover the run
`sequence`. `FailureNotLost` is about versions because of finding 1.

**The refinement** (`LogProofs`). Initial states map to initial states, and under
the conjunction of the invariants every step of a session is a step of the log or
none (`LogStep`): a commit applies, the statements of a script outside a transaction run, its
row records or stops. That a script is due in the log is `DueInv`, that versions enter in
order is `OrderInv`, that nothing is applied after a failure is `BlockInv`, that
a record has a run is `WasRunInv`. Repair and Clean rewrite the history and are no
steps of a log. A repeatable outside a transaction that fails leaves a row that hides its last
success, so that the script runs again although the log has it: hence "repeatables
in transactions".

**Repair and Clean** (`RecordProofs`, last part). They take no lock, so these theorems are
about commands one at a time, on either dialect. `RepairInv`: from the deletion
to the end no row is a failure and the updates that are left are those that a new
comparison would find. `CleanInv`: what is still there is still to be dropped,
also when an earlier Clean stopped half way, and on PostgreSQL nothing is there when
the schema is about to be created again. The run `sequence` has only SQLite, where
Clean has more steps.

**Connections** (`PoolProofs`). `PoolInv` says of each session which of the lock's and
the script's connection it has at each step, that `user` names exactly these
(`LentInv`), that the holder of the lock is a connection some session has for it
and past `acquireLock` it is one's own unless it broke (`HolderInv`), and that a
script's connection has the path of its command (`PathInv`), wherever `search_path` was
left by an earlier one.

**Versions** (`LoadProofs`), with any number of components of any size.
`KeysAreVersions`: `Compare` finds two versions equal exactly when `VersionKey` gives
them one key. Sorting and "out of order" use the first, the refusal of duplicates
and the join of scripts to history rows the second. With it
`CompareIsAntisymmetric` and `CompareIsTransitive` make `Compare` a total preorder, as a sort
needs. `Compare` is zero for lists that agree up to trailing zeros and is
otherwise decided by the first place where they differ (`CompareIs`, which rests on the
least element of a set of naturals); a key has the same number at every place as
its version and ends where the last number that is not zero is (`KeyHasThePartsOf`).

**Loading** (`LoadProofs`), of any number of files with names of any length.
`LoadInv` says that each slice lists exactly the files looked at that are of its
kind (`Lists`), with no two of one version or description, that every refusal
has a reason, and that after the sorts versions are in strict order: a stable sort
leaves equal ones together, and `KeysAreVersions` turns "equal for `Compare`" into "of
one key", which `SeenVersion` has excluded. `MigrationsAreOrdered` and
`LoadedIffUnambiguous` speak of what the files are said to mean, so their
theorems use `FilesAreMarked`: a file's mark is the kind of its name, and marks
are in the order of the first number that differs (`Precedes`, which does not
use `Compare`; `CompareBelow` shows that `Compare` agrees with it). For the files
of `MCTexts`, marked by hand, TLC evaluates this assumption in the run `texts`.
`FilesAreSequences`, `CollationIsSequence` and `SeparatorsApart` say what kind of thing
files, descriptions and lexemes are. A version that is displayed and read back
has the same parts because only separators change (`DisplayKeepsParts`).

**Texts** (`TextLemmas`, `ScriptProofs`), of any length and of any number of
pieces. Three of the four invariants relate what the program computes from a text to the
pieces the text was put together from; the fourth, `EverythingIsSent`, is about any
text. They need induction over texts. The
library's induction theorems have an operator as parameter and cannot be cited,
but the well-foundedness of strict inclusion on finite sets of numbers, which
they rest on, can: `NumbersUpwards` says that a *set* that holds 0 and with each
number the next holds all, and `SequencesUpwards` the same of sets of texts, so
a property is proved as one of the set of texts that have it. The recursive
functions in `Looks`, `PastQuoted` and `Divided` exist (`LoopExists`,
`QuotedExists`, `DividedExists`) because the loops they stand for only move
forward: of the splitter's loop that is `PastForward`, which has a case for each
element it skips.

* *Directive.* A text has one exactly when one of its pieces has a marked comment line:
  on its first line (`Opens`) if the line has only blanks before the piece, or on a
  later line (`Hides`) wherever it stands (`DirectivesIn`). The induction is over the number
  of pieces: a directive of two texts joined is in one of the two, or the marker in the
  second belongs to a comment that begins in the first (`DirectiveBehind`), which
  `DirectivesRight` excludes for the inputs. A marker elsewhere, in a statement, a
  string or a comment behind a statement, is in a line that does not begin with `--`.
* *Checksum.* What the digest is fed is the text without its line ends
  (`DigestedUnmarked`, `DigestedMarked`), by induction over the number of lines,
  in which `UpToIs` says that the lines up to one, joined, are the text up to
  its end. The hard place is `\r\n`, where one line ends and the next begins two
  places further.
* *Placeholders.* `ReplacedPieces`: a text made of pieces with at most one
  placeholder each becomes what the pieces become. Its key is looked up in lower case
  among keys that the setter has put in lower case (`Placeholders`); `PlaceholderKeysDiffer` says that no
  two configured keys are one, as the setter would keep either. The loop comes to the
  beginning of each piece, because none takes its suffix from a later one.
  `SentInv` says that what is sent so far are the statements of the first
  migrations, none of which has an unknown key, and that the run ends with "unknown
  placeholder" at one that has.
* *Statements.* `DividedCuts`, by induction from the end of the text: what the
  loop flushes from a place on is a sequence of parts of the script which, joined,
  are the script from the start of the current statement on, and each but the last
  ends with the delimiter. `StatementsDivide`: `TrimSpace` takes blanks only, never
  the delimiter, and a part it leaves empty had nothing else. Which
  semicolons divide does not matter to this proof, so it holds of SQL that the splitter
  does not understand.

`PiecesAreMarked`, which TLC evaluates for all inputs of `texts`, is the
assumption behind them: a text is the concatenation of its pieces' texts, a byte
order mark is the first piece or none, a piece that begins with a marked comment is a "directive", one with a marked
comment on a later line is "hidden", any other may mention a marker too, but none that
does is put behind a line comment that is not finished; each piece is plain or has one placeholder and its
value is what the text around it says, and a `${` without `}` comes in no piece
before one with a `}`. It restricts the inputs, not the code. `ScriptsAreSentWhole` uses
only that texts and values are sequences, and that `;` is no blank
(`DelimiterIsNoBlank`).

**Only model-checked.** `CommandsEnd`, in `Migrator` and in `ConnectionPool`:
liveness under fairness is out of the prover's reach, as is ENABLED.
`SplitsAtDelimiters`: that each statement sent is one that was written depends
on what every element of SQL hides, in both dialects, and on what may stand next
to it (an `E` before a quote, the depth of a trigger's body). An assumption on
pieces strong enough for a proof would repeat the scanner case by case, and the
theorem would say little more than the assumption. What holds without one is
`EverythingIsSent`. The properties of the runs
that are violated are, of course, not theorems: the counterexamples are within
the theorems' other assumptions (`sqlite_migrators` drops `Exclusive`).

## 6. Plan

Done: all modules above, twelve runs, the theorems of section 5, the refinement
among them. Next, in this order:

1. Two sessions in one migration after the lock's connection was lost, and
   Repair against a history that was cleaned and rebuilt under it: properties
   for what must still hold.
2. Clean, Repair and Baseline as steps of a second abstract specification, so that a
   refinement covers all commands.

## 7. Not modelled

Statement text and quoting (formatting); walking directories and location syntax
(I/O); the command line tool (flags and printing around one call); `Info`'s
presentation; the loops over several schemas; what programmatic callbacks do;
CRC32 itself; settings of prefix, separator and suffix other than the defaults'
shape; two keys in `Placeholders` that differ in case only, of which the
setter keeps one by the order of a Go map (`PlaceholderKeysDiffer` excludes them).
SQL that the splitter does not understand (SQLite's `BEGIN; ... COMMIT;`,
unnested comments of SQLite, dollar signs in identifiers of PostgreSQL, rules with
several commands) is left out of the pieces of `texts`, and `BEGIN` on PostgreSQL is
a piece of which `SplitsAtDelimiters` says nothing. Transactions on SQLite, comments and `BEGIN`
are in its texts of any lexemes, for which `EverythingIsSent` says all that is claimed.
Concurrent use of one Migrator by several goroutines is two callers of
`ConnectionPool`; they share only values that no command writes.
`ErrFailedMigration` and `ErrOutOfOrder` (`errors.go`) are returned nowhere:
validation and the pending list do their work, and the model follows the code.
