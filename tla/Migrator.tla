------------------------------ MODULE Migrator ------------------------------
(***************************************************************************)
(* The commands of a Migrator that change the database: Migrate, Baseline, *)
(* Repair and Clean, issued by several processes (sessions) against one    *)
(* database.  Every statement sent to the database is one step, so the     *)
(* sessions interleave wherever the program waits for an answer, and every *)
(* statement may fail, which takes the error path the code takes.          *)
(*                                                                         *)
(* Info and Validate only read; what they compute is in MigrationStates.   *)
(* Managed schemas are one schema here: the loops over them repeat the     *)
(* same steps.  SQLite has no schemas; its database always exists.         *)
(***************************************************************************)
EXTENDS MigrationStates, Sequences

CONSTANTS
  Sessions,           \* Processes that use the library, one command at a time each
  Dialect,            \* "postgresql" or "sqlite"
  NoTransaction,      \* Scripts that opted out of the transaction (script.go)
  CreateSchemas,      \* Configuration.createSchemas
  BaselineVersion,    \* Configuration.baselineVersion
  BaselineOnMigrate,  \* Configuration.baselineOnMigrate
  ValidateOnMigrate,  \* Configuration.validateOnMigrate
  Embedded,           \* Scripts compiled into the process: FSLocation of an
                      \* embed.FS; otherwise a directory that may change
  InitialDisk,        \* The scripts at the start
  SchemaAtStart,      \* Whether the schema exists at the start
  Commands,           \* The commands the sessions issue
  MaxCommands,        \* Bound: commands issued
  MaxEdits,           \* Bound: changes of a script
  LockLoss            \* Whether the server may end the connection of the lock

ASSUME ConfigurationAssumption ==
  /\ Dialect \in {"postgresql", "sqlite"}
  /\ NoTransaction \subseteq Keys
  /\ BaselineVersion \in Versions
  /\ {CreateSchemas, BaselineOnMigrate, ValidateOnMigrate, Embedded,
      SchemaAtStart, LockLoss} \subseteq BOOLEAN
  /\ InitialDisk \in Scripts
  /\ Commands \subseteq {"migrate", "baseline", "repair", "clean"}
  /\ MaxCommands \in Nat /\ MaxEdits \in Nat

VARIABLES
  pc,            \* The statement each session sends next
  my,            \* What each session keeps in memory
  holders,       \* The session that holds the advisory lock, if any
  schemaExists,  \* The managed schema
  tableExists,   \* The history table ...
  rows,          \* ... and its committed rows
  effects,       \* The editions of each script whose statements all took
                 \* effect in the database, in the order they did
  disk,          \* The scripts in the configured locations
  edits,         \* Number of changes to them
  started        \* Number of commands issued

database == <<schemaExists, tableExists, rows, effects>>
environment == <<disk, edits, started>>
vars == <<pc, my, holders, database, environment>>

Postgres == Dialect = "postgresql"

\* The statements of acquireLock and release, and of Migrate between them.
LockedSteps ==
  {"schemas", "createSchema", "exists", "create", "markRank", "markInsert",
   "baseRank", "baseInsert", "read", "before", "next", "txBody", "txRank",
   "txInsert", "txCommit", "run", "runRank", "runInsert", "after"}
Steps == LockedSteps \cup
  {"idle", "lock", "release", "delete", "update", "list", "drop", "recreate"}

\* A process that has just been started, with the scripts Load resolved.
Loaded(scripts) ==
  [cmd     |-> "none",    \* the command in progress
   res     |-> scripts,   \* f.resolved
   todo    |-> {},        \* pending entries not yet applied
   cur     |-> Nil,       \* the migration being applied ...
   text    |-> Nil,       \* ... the edition of it that read() returned ...
   rank    |-> 0,         \* ... and the rank to record it under
   failed  |-> FALSE,     \* runErr # nil in applyWithoutTransaction
   created |-> FALSE,     \* createdSchemas is not empty
   fixes   |-> {},        \* checksum updates Repair has not sent yet
   drop    |-> {},        \* DROP statements Clean has not sent yet
   ok      |-> TRUE]      \* no error to return so far

Registers ==
  [cmd     : {"none", "migrate", "baseline", "repair", "clean"},
   res     : Scripts,
   todo    : SUBSET Keys,
   cur     : Keys \cup {Nil},
   text    : Editions \cup {Nil},
   rank    : Ranks \cup {0},
   failed  : BOOLEAN,
   created : BOOLEAN,
   fixes   : SUBSET [rank : Ranks, checksum : Checksums],
   drop    : SUBSET {"history", "objects"},
   ok      : BOOLEAN]

NoEffects == [k \in Keys |-> <<>>]

Init ==
  /\ pc = [p \in Sessions |-> "idle"]
  /\ my = [p \in Sessions |-> Loaded(InitialDisk)]
  /\ holders = {}
  /\ schemaExists = (SchemaAtStart \/ ~Postgres)
  /\ tableExists = FALSE
  /\ rows = {}
  /\ effects = NoEffects
  /\ disk = InitialDisk
  /\ edits = 0
  /\ started = 0

-----------------------------------------------------------------------------
(* Helpers.                                                                *)

Goto(p, step) == pc' = [pc EXCEPT ![p] = step]

\* The command returns; its local variables are gone, the Migrator stays.
Return(p) ==
  /\ Goto(p, "idle")
  /\ my' = [my EXCEPT ![p] = Loaded(my[p].res)]

\* SQLite has one writer: a transaction that has written keeps every other
\* connection from writing until it ends.
Writing(q) == pc[q] \in {"txRank", "txInsert", "txCommit"}
Busy(p) == ~Postgres /\ \E q \in Sessions \ {p} : Writing(q)

\* PostgreSQL makes an insert wait for an uncommitted row of the same rank.
RankAwaited(p) ==
  \E q \in Sessions \ {p} : pc[q] = "txCommit" /\ my[q].rank = my[p].rank

\* PostgreSQL makes DROP SCHEMA wait for the transactions that used the table.
TableInUse == \E q \in Sessions : pc[q] \in {"txInsert", "txCommit"}

CanInsert(p) ==
  /\ tableExists
  /\ ~RankTaken(rows, my[p].rank)
  /\ ~RankAwaited(p)
  /\ ~Busy(p)

\* Planted bug: the entries are sorted the wrong way round.
LeastOf_Greatest(p, k) == k \in my[p].todo /\ \A l \in my[p].todo : l <= k

\* The loop takes the pending entries in the order infos are sorted in.
LeastOf(p, k) == k \in my[p].todo /\ \A l \in my[p].todo : k <= l

-----------------------------------------------------------------------------
(* Commands begin.                                                         *)

\* A command is issued.  Migrate locks first, Clean on SQLite lists what to
\* drop, the others start with the statement they share with Migrate.
Start(p, c) ==
  /\ pc[p] = "idle" /\ started < MaxCommands
  /\ started' = started + 1
  /\ my' = [my EXCEPT ![p].cmd = c]
  /\ Goto(p, CASE c = "migrate"  -> "lock"
               [] c = "baseline" -> "schemas"
               [] c = "repair"   -> "exists"
               [] c = "clean"    -> IF Postgres THEN "drop" ELSE "list")
  /\ UNCHANGED <<holders, database, disk, edits>>

\* Planted bug: the lock is not taken.
AcquireLock_NoLock(p) ==
  /\ pc[p] = "lock"
  /\ Goto(p, "schemas")
  /\ UNCHANGED <<my, holders, database, environment>>

\* acquireLock: pg_advisory_lock waits while another session has the lock; other
\* dialects get a no-op.
AcquireLock(p) ==
  /\ pc[p] = "lock"
  /\ IF Postgres THEN holders = {} /\ holders' = {p} ELSE UNCHANGED holders
  /\ Goto(p, "schemas")
  /\ UNCHANGED <<my, database, environment>>

-----------------------------------------------------------------------------
(* ensureSchemas, exists and create, shared by the commands.               *)

\* ensureSchemas: look for the schema, if it is to be created when missing.
EnsureSchemas(p) ==
  /\ pc[p] = "schemas"
  /\ Goto(p, IF CreateSchemas /\ Postgres /\ ~schemaExists
             THEN "createSchema" ELSE "exists")
  /\ UNCHANGED <<my, holders, database, environment>>

\* ensureSchemas: CREATE SCHEMA IF NOT EXISTS.
CreateSchema(p) ==
  /\ pc[p] = "createSchema"
  /\ schemaExists' = TRUE
  /\ my' = [my EXCEPT ![p].created = TRUE]
  /\ Goto(p, "exists")
  /\ UNCHANGED <<holders, tableExists, rows, effects, environment>>

\* exists.  Repair has nothing to do without a table.
HistoryExists(p) ==
  /\ pc[p] = "exists"
  /\ IF my[p].cmd = "repair"
     THEN IF tableExists
          THEN Goto(p, "delete") /\ UNCHANGED my
          ELSE Return(p)
     ELSE Goto(p, IF tableExists THEN "read" ELSE "create") /\ UNCHANGED my
  /\ UNCHANGED <<holders, database, environment>>

\* Migrate marks a table it created before it reads it.
AfterMark == IF BaselineOnMigrate THEN "baseRank" ELSE "read"
AfterCreate(p) ==
  IF my[p].cmd # "migrate" THEN "read"
  ELSE IF my[p].created THEN "markRank"
  ELSE AfterMark

\* Planted bug: the table is dropped and created although it may exist by now.
CreateHistory_Replaces(p) ==
  /\ pc[p] = "create"
  /\ schemaExists /\ ~Busy(p)
  /\ tableExists' = TRUE /\ rows' = {}
  /\ Goto(p, AfterCreate(p))
  /\ UNCHANGED <<my, holders, schemaExists, effects, environment>>

\* create: CREATE TABLE IF NOT EXISTS.
CreateHistory(p) ==
  /\ pc[p] = "create"
  /\ schemaExists /\ ~Busy(p)
  /\ tableExists' = TRUE
  /\ Goto(p, AfterCreate(p))
  /\ UNCHANGED <<my, holders, schemaExists, rows, effects, environment>>

\* Planted bug: the rank is the maximum, not the one after it.
NextInstalledRank_NotNext(p) ==
  /\ pc[p] \in {"markRank", "baseRank", "txRank", "runRank"}
  /\ tableExists
  /\ \E n \in Ranks : IsNextRank(rows, n) /\ my' = [my EXCEPT ![p].rank = n - 1]
  /\ Goto(p, CASE pc[p] = "markRank" -> "markInsert"
               [] pc[p] = "baseRank" -> "baseInsert"
               [] pc[p] = "txRank"   -> "txInsert"
               [] pc[p] = "runRank"  -> "runInsert")
  /\ UNCHANGED <<holders, database, environment>>

\* nextInstalledRank, in front of each of the four inserts.
NextInstalledRank(p) ==
  /\ pc[p] \in {"markRank", "baseRank", "txRank", "runRank"}
  /\ tableExists
  /\ \E n \in Ranks : IsNextRank(rows, n) /\ my' = [my EXCEPT ![p].rank = n]
  /\ Goto(p, CASE pc[p] = "markRank" -> "markInsert"
               [] pc[p] = "baseRank" -> "baseInsert"
               [] pc[p] = "txRank"   -> "txInsert"
               [] pc[p] = "runRank"  -> "runInsert")
  /\ UNCHANGED <<holders, database, environment>>

\* recordSchemaCreation, its insert.
InsertSchemaMarker(p) ==
  /\ pc[p] = "markInsert" /\ CanInsert(p)
  /\ rows' = rows \cup {SchemaRow(my[p].rank)}
  /\ Goto(p, AfterMark)
  /\ UNCHANGED <<my, holders, schemaExists, tableExists, effects, environment>>

\* insertBaseline, its insert: the end of Baseline, not of Migrate.
InsertBaseline(p) ==
  /\ pc[p] = "baseInsert" /\ CanInsert(p)
  /\ rows' = rows \cup {BaselineRow(my[p].rank, BaselineVersion)}
  /\ IF my[p].cmd = "migrate" THEN Goto(p, "read") /\ UNCHANGED my ELSE Return(p)
  /\ UNCHANGED <<holders, schemaExists, tableExists, effects, environment>>

-----------------------------------------------------------------------------
(* Migrate between reading the history and releasing the lock.             *)

\* all, computeInfos and validate(true).
ReadForMigrate(p) ==
  /\ pc[p] = "read" /\ my[p].cmd = "migrate" /\ tableExists
  /\ IF ValidateOnMigrate /\ Problems(my[p].res, rows, TRUE) # {}
     THEN /\ Goto(p, "release")
          /\ my' = [my EXCEPT ![p].ok = FALSE]
     ELSE /\ Goto(p, "before")
          /\ my' = [my EXCEPT ![p].todo = Pending(my[p].res, rows)]
  /\ UNCHANGED <<holders, database, environment>>

\* fireCallbacks(beforeMigrate), outside any transaction.
BeforeMigrate(p) ==
  /\ pc[p] = "before"
  /\ Goto(p, "next")
  /\ UNCHANGED <<my, holders, database, environment>>

\* What the path found when the process was loaded holds now: nothing if the file
\* is gone or has another description in its name, and so another path.
DirectoryText(p, k) ==
  IF disk[k] # Nil /\ TitleOf[disk[k]] = TitleOf[my[p].res[k]] THEN disk[k] ELSE Nil

\* Planted bug: the text comes from the directory whatever was loaded.
TextOf_Directory(p, k) == DirectoryText(p, k)

\* The text read() returns now: the process's own, or the directory's.
TextOf(p, k) == IF Embedded THEN my[p].res[k] ELSE DirectoryText(p, k)

\* applyMigration: read the next pending script and choose how to run it.
BeginMigration(p) ==
  /\ pc[p] = "next"
  /\ \E k \in Keys :
       /\ LeastOf(p, k)
       /\ TextOf(p, k) # Nil
       /\ my' = [my EXCEPT ![p].cur = k, ![p].text = TextOf(p, k),
                          ![p].failed = FALSE]
       /\ Goto(p, IF k \in NoTransaction THEN "run" ELSE "txBody")
  /\ UNCHANGED <<holders, database, environment>>

\* The loop over the pending entries ends.
AllApplied(p) ==
  /\ pc[p] = "next" /\ my[p].todo = {}
  /\ Goto(p, "after")
  /\ UNCHANGED <<my, holders, database, environment>>

\* applyWithinTransaction: begin, callbacks and statements.  Nothing is visible
\* to others until the commit.
RunInTransaction(p) ==
  /\ pc[p] = "txBody" /\ ~Busy(p)
  /\ Goto(p, "txRank")
  /\ UNCHANGED <<my, holders, database, environment>>

\* Planted bug: the row is inserted on the pool, outside the transaction.
InsertInTransaction_Outside(p) ==
  /\ pc[p] = "txInsert" /\ CanInsert(p)
  /\ rows' = rows \cup
       {SqlRow(my[p].rank, my[p].cur, my[p].res[my[p].cur], TRUE)}
  /\ Goto(p, "txCommit")
  /\ UNCHANGED <<my, holders, schemaExists, tableExists, effects, environment>>

\* applyWithinTransaction: the insert, as yet uncommitted.
InsertInTransaction(p) ==
  /\ pc[p] = "txInsert" /\ CanInsert(p)
  /\ Goto(p, "txCommit")
  /\ UNCHANGED <<my, holders, database, environment>>

\* What a commit makes durable: the script's effects and its row.
Committed(p) ==
  /\ effects' = [effects EXCEPT ![my[p].cur] = Append(@, my[p].text)]
  /\ rows' = rows \cup
       {SqlRow(my[p].rank, my[p].cur, my[p].res[my[p].cur], TRUE)}

\* The entry is appended to the result and the loop goes on.
EntryDone(p) ==
  my' = [my EXCEPT ![p].todo = @ \ {my[p].cur}, ![p].cur = Nil,
                   ![p].text = Nil, ![p].rank = 0]

\* applyWithinTransaction: COMMIT.
Commit(p) ==
  /\ pc[p] = "txCommit"
  /\ Committed(p)
  /\ EntryDone(p)
  /\ Goto(p, "next")
  /\ UNCHANGED <<holders, schemaExists, tableExists, environment>>

\* runStatements on a dedicated connection, each statement durable at once.
RunStatements(p) ==
  /\ pc[p] = "run" /\ ~Busy(p)
  /\ effects' = [effects EXCEPT ![my[p].cur] = Append(@, my[p].text)]
  /\ Goto(p, "runRank")
  /\ UNCHANGED <<my, holders, schemaExists, tableExists, rows, environment>>

\* runStatements: a statement or a callback fails, part of the script having
\* taken effect; the error is kept until the failure is recorded.
RunStatementsFails(p) ==
  /\ pc[p] = "run"
  /\ my' = [my EXCEPT ![p].failed = TRUE, ![p].ok = FALSE]
  /\ Goto(p, "runRank")
  /\ UNCHANGED <<holders, database, environment>>

\* Planted bug: a failure is recorded as a success.
InsertAfterRun_AlwaysSuccess(p) ==
  /\ pc[p] = "runInsert" /\ CanInsert(p)
  /\ rows' = rows \cup {SqlRow(my[p].rank, my[p].cur, my[p].res[my[p].cur], TRUE)}
  /\ IF my[p].failed
     THEN Goto(p, "release") /\ UNCHANGED my
     ELSE Goto(p, "next") /\ EntryDone(p)
  /\ UNCHANGED <<holders, schemaExists, tableExists, effects, environment>>

\* Planted bug: the loop goes on after a failure.
InsertAfterRun_GoesOn(p) ==
  /\ pc[p] = "runInsert" /\ CanInsert(p)
  /\ rows' = rows \cup {SqlRow(my[p].rank, my[p].cur, my[p].res[my[p].cur],
                                ~my[p].failed)}
  /\ Goto(p, "next") /\ EntryDone(p)
  /\ UNCHANGED <<holders, schemaExists, tableExists, effects, environment>>

\* applyWithoutTransaction: the row of a success, or of a failure.
InsertAfterRun(p) ==
  /\ pc[p] = "runInsert" /\ CanInsert(p)
  /\ rows' = rows \cup {SqlRow(my[p].rank, my[p].cur, my[p].res[my[p].cur],
                                ~my[p].failed)}
  /\ IF my[p].failed
     THEN Goto(p, "release") /\ UNCHANGED my
     ELSE Goto(p, "next") /\ EntryDone(p)
  /\ UNCHANGED <<holders, schemaExists, tableExists, effects, environment>>

\* fireCallbacks(afterMigrate); the result is complete.
AfterMigrate(p) ==
  /\ pc[p] = "after"
  /\ Goto(p, "release")
  /\ UNCHANGED <<my, holders, database, environment>>

\* Planted bug: the connection goes back to the pool with the lock still held.
Release_KeepsLock(p) ==
  /\ pc[p] = "release"
  /\ Return(p)
  /\ UNCHANGED <<holders, database, environment>>

\* The deferred release: pg_advisory_unlock on the connection of the lock, on
\* every path out of Migrate.
Release(p) ==
  /\ pc[p] = "release"
  /\ holders' = holders \ {p}
  /\ Return(p)
  /\ UNCHANGED <<database, environment>>

-----------------------------------------------------------------------------
(* Baseline, Repair and Clean, none of which takes the lock.               *)

\* Baseline: the loop over the history returns at its first row that is not a
\* schema marker, whether a baseline (nothing to do) or a migration (an error).
ReadForBaseline(p) ==
  /\ pc[p] = "read" /\ my[p].cmd = "baseline" /\ tableExists
  /\ IF \A x \in rows : x.type = "SCHEMA"
     THEN Goto(p, "baseRank") /\ UNCHANGED my
     ELSE Return(p)
  /\ UNCHANGED <<holders, database, environment>>

\* Repair: deleteFailed.
DeleteFailedRows(p) ==
  /\ pc[p] = "delete" /\ tableExists /\ ~Busy(p)
  /\ rows' = DeleteFailed(rows)
  /\ Goto(p, "read")
  /\ UNCHANGED <<my, holders, schemaExists, tableExists, effects, environment>>

\* Repair: all, and the comparison with the resolved scripts.
ReadForRepair(p) ==
  /\ pc[p] = "read" /\ my[p].cmd = "repair" /\ tableExists
  /\ my' = [my EXCEPT ![p].fixes = RepairFixes(my[p].res, rows)]
  /\ Goto(p, "update")
  /\ UNCHANGED <<holders, database, environment>>

\* Planted bug: the loop does not move on to the next record.
UpdateOneChecksum_Stays(p) ==
  /\ pc[p] = "update" /\ tableExists /\ ~Busy(p)
  /\ \E f \in my[p].fixes :
       /\ \A g \in my[p].fixes : f.rank <= g.rank
       /\ rows' = UpdateChecksum(rows, f.rank, f.checksum)
  /\ UNCHANGED <<pc, my, holders, schemaExists, tableExists, effects, environment>>

\* Repair: updateChecksum of one record, in rank order.
UpdateOneChecksum(p) ==
  /\ pc[p] = "update" /\ tableExists /\ ~Busy(p)
  /\ \E f \in my[p].fixes :
       /\ \A g \in my[p].fixes : f.rank <= g.rank
       /\ rows' = UpdateChecksum(rows, f.rank, f.checksum)
       /\ my' = [my EXCEPT ![p].fixes = @ \ {f}]
  /\ UNCHANGED <<pc, holders, schemaExists, tableExists, effects, environment>>

\* Repair: every record was looked at.
RepairDone(p) ==
  /\ pc[p] = "update" /\ my[p].fixes = {}
  /\ Return(p)
  /\ UNCHANGED <<holders, database, environment>>

\* Clean on PostgreSQL: DROP SCHEMA IF EXISTS ... CASCADE.
DropSchema(p) ==
  /\ pc[p] = "drop" /\ Postgres /\ ~TableInUse
  /\ schemaExists' = FALSE
  /\ tableExists' = FALSE
  /\ rows' = {}
  /\ effects' = NoEffects
  /\ Goto(p, "recreate")
  /\ UNCHANGED <<my, holders, environment>>

\* Clean on PostgreSQL: CREATE SCHEMA, a statement of its own.
RecreateSchema(p) ==
  /\ pc[p] = "recreate" /\ ~schemaExists
  /\ schemaExists' = TRUE
  /\ Return(p)
  /\ UNCHANGED <<holders, tableExists, rows, effects, environment>>

\* Planted bug: without a history table there is taken to be nothing to drop.
ListObjects_OfHistory(p) ==
  /\ pc[p] = "list"
  /\ my' = [my EXCEPT ![p].drop =
               IF ~tableExists THEN {}
               ELSE {"history"} \cup (IF effects # NoEffects THEN {"objects"} ELSE {})]
  /\ Goto(p, "drop")
  /\ UNCHANGED <<holders, database, environment>>

\* Clean on SQLite: cleanStatements reads the catalog.  The objects of the
\* scripts are dropped as one here, before or after the history table.
ListObjects(p) ==
  /\ pc[p] = "list"
  /\ my' = [my EXCEPT ![p].drop =
               (IF tableExists THEN {"history"} ELSE {})
                 \cup (IF effects # NoEffects THEN {"objects"} ELSE {})]
  /\ Goto(p, "drop")
  /\ UNCHANGED <<holders, database, environment>>

\* Clean on SQLite: one DROP ... IF EXISTS.
DropObject(p) ==
  /\ pc[p] = "drop" /\ ~Postgres /\ ~Busy(p)
  /\ \E d \in my[p].drop :
       /\ my' = [my EXCEPT ![p].drop = @ \ {d}]
       /\ IF d = "history"
          THEN tableExists' = FALSE /\ rows' = {} /\ UNCHANGED effects
          ELSE effects' = NoEffects /\ UNCHANGED <<tableExists, rows>>
  /\ UNCHANGED <<pc, holders, schemaExists, environment>>

\* Clean on SQLite: everything listed is dropped.
CleanDone(p) ==
  /\ pc[p] = "drop" /\ ~Postgres /\ my[p].drop = {}
  /\ Return(p)
  /\ UNCHANGED <<holders, database, environment>>

-----------------------------------------------------------------------------
(* Failures.                                                               *)

\* The command's next operation returns an error: Migrate releases its lock on
\* the way out, a transaction is rolled back, the other commands just return.
\* An error inside runStatements is RunStatementsFails.
OperationFails(p) ==
  /\ pc[p] \in Steps \ {"idle", "run", "release"}
  /\ pc[p] = "next" => my[p].todo # {}
  /\ IF my[p].cmd = "migrate" /\ pc[p] # "lock"
     THEN /\ Goto(p, "release")
          /\ my' = [my EXCEPT ![p].ok = FALSE]
     ELSE Return(p)
  /\ UNCHANGED <<holders, database, environment>>

\* The server commits but the answer is lost: Commit returns an error.
CommitAnswerLost(p) ==
  /\ pc[p] = "txCommit"
  /\ Committed(p)
  /\ my' = [my EXCEPT ![p].ok = FALSE]
  /\ Goto(p, "release")
  /\ UNCHANGED <<holders, schemaExists, tableExists, environment>>

\* The process dies and is started anew.  Its connections close, which rolls
\* back its transaction and gives up its lock.
Crash(p) ==
  /\ pc[p] # "idle"
  /\ Goto(p, "idle")
  /\ my' = [my EXCEPT ![p] = Loaded(disk)]
  /\ holders' = holders \ {p}
  /\ UNCHANGED <<database, environment>>

\* The server ends the idle connection that holds the lock.  The session, which
\* sends its statements over other connections, is not told.
LoseLock(p) ==
  /\ LockLoss /\ p \in holders
  /\ holders' = holders \ {p}
  /\ UNCHANGED <<pc, my, database, environment>>

\* The answer to the next operation can only be an error: a table, schema or
\* script is missing, a rank or schema is taken, or SQLite has another writer.
Refused(p) ==
  \/ pc[p] = "create" /\ (~schemaExists \/ Busy(p))
  \/ /\ pc[p] \in {"markRank", "markInsert", "baseRank", "baseInsert", "txRank",
                   "runRank", "runInsert", "read", "delete", "update"}
     /\ ~tableExists
  \/ /\ pc[p] \in {"markInsert", "baseInsert", "txInsert", "runInsert"}
     /\ RankTaken(rows, my[p].rank) \/ Busy(p)
  \/ pc[p] \in {"txBody", "delete", "update", "drop"} /\ Busy(p)
  \/ pc[p] = "recreate" /\ schemaExists
  \/ pc[p] = "next" /\ \E k \in Keys : LeastOf(p, k) /\ TextOf(p, k) = Nil

-----------------------------------------------------------------------------
(* The scripts and the processes.                                          *)

\* A script is added, changed, renamed or removed.
EditScript(k, e) ==
  /\ edits < MaxEdits /\ disk[k] # e
  /\ disk' = [disk EXCEPT ![k] = e]
  /\ edits' = edits + 1
  /\ UNCHANGED <<pc, my, holders, database, started>>

\* A process is replaced, and Load resolves the scripts as they are now.
Load(p) ==
  /\ pc[p] = "idle" /\ my[p].res # disk
  /\ my' = [my EXCEPT ![p] = Loaded(disk)]
  /\ UNCHANGED <<pc, holders, database, environment>>

\* Nothing is in progress and no command is left: the bounded system may stop.
Quiet ==
  /\ started = MaxCommands /\ \A p \in Sessions : pc[p] = "idle"
  /\ UNCHANGED vars

-----------------------------------------------------------------------------
(* The specification.                                                      *)

SharedStep(p) ==
  \/ EnsureSchemas(p) \/ CreateSchema(p) \/ HistoryExists(p) \/ CreateHistory(p)
  \/ NextInstalledRank(p) \/ InsertSchemaMarker(p) \/ InsertBaseline(p)

MigrateStep(p) ==
  \/ AcquireLock(p) \/ ReadForMigrate(p) \/ BeforeMigrate(p)
  \/ BeginMigration(p) \/ AllApplied(p)
  \/ RunInTransaction(p) \/ InsertInTransaction(p) \/ Commit(p)
  \/ RunStatements(p) \/ InsertAfterRun(p)
  \/ AfterMigrate(p) \/ Release(p)

OtherStep(p) ==
  \/ ReadForBaseline(p)
  \/ DeleteFailedRows(p) \/ ReadForRepair(p) \/ UpdateOneChecksum(p) \/ RepairDone(p)
  \/ DropSchema(p) \/ RecreateSchema(p)
  \/ ListObjects(p) \/ DropObject(p) \/ CleanDone(p)

Step(p) == SharedStep(p) \/ MigrateStep(p) \/ OtherStep(p)

Failure(p) ==
  OperationFails(p) \/ RunStatementsFails(p) \/ CommitAnswerLost(p) \/ Crash(p) \/ LoseLock(p)

Next ==
  \/ \E p \in Sessions :
       (\E c \in Commands : Start(p, c)) \/ Step(p) \/ Failure(p) \/ Load(p)
  \/ \E k \in Keys, e \in Editions \cup {Nil} : EditScript(k, e)
  \/ Quiet

Spec == Init /\ [][Next]_vars

\* A statement that was sent is answered in the end, with an error if nothing
\* else is possible.  No command has to be issued, and nothing has to fail.
Answered(p) ==
  \/ Step(p)
  \/ Refused(p) /\ OperationFails(p)
  \/ pc[p] = "run" /\ Busy(p) /\ RunStatementsFails(p)

FairSpec == Spec /\ \A p \in Sessions : WF_vars(Answered(p))

-----------------------------------------------------------------------------
(* The type invariant.                                                     *)

\* Every variable holds values of the kind the code gives it.
TypeOK ==
  /\ pc \in [Sessions -> Steps]
  /\ my \in [Sessions -> Registers]
  /\ holders \subseteq Sessions
  /\ schemaExists \in BOOLEAN
  /\ tableExists \in BOOLEAN
  /\ rows \subseteq Row
  /\ effects \in [Keys -> Seq(Editions)]
  /\ disk \in Scripts
  /\ edits \in Nat
  /\ started \in Nat

=============================================================================
