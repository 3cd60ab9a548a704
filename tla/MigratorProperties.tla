------------------------- MODULE MigratorProperties -------------------------
(***************************************************************************)
(* What the commands of Migrator must guarantee, and what the project's    *)
(* documentation says of them.  Which property is expected under which     *)
(* configuration is said with each; README.md has the whole table.         *)
(***************************************************************************)
EXTENDS Migrator

\* p is inside Migrate, from the moment acquireLock returned.
InMigrate(p) == my[p].cmd = "migrate" /\ pc[p] \in LockedSteps \cup {"release"}

RunsOf(k) == {x \in SqlRows(rows, k) : x.success}

-----------------------------------------------------------------------------
(* Safety.                                                                 *)

\* "Only one migrator may run at a time" (migrate.go:24): between acquireLock
\* and the deferred release no two sessions are inside Migrate.  PostgreSQL,
\* as long as the server keeps the connection of the lock.
MutualExclusion ==
  \A p, q \in Sessions : InMigrate(p) /\ InMigrate(q) => p = q

\* A versioned migration that runs in a transaction takes effect at most once
\* between two cleans, whatever other sessions do, fail or crash in between:
\* the pending list computed after the lock was taken never names a version
\* that someone else applied (Migrate, applyWithinTransaction).
AtMostOnce ==
  \A k \in Versions \ NoTransaction : Len(effects[k]) <= 1

\* A transactional script has exactly as many successful rows as it took
\* effect: its statements and its row commit together or not at all, and no
\* command removes the one without the other (applyWithinTransaction, Repair,
\* Clean on PostgreSQL).
TransactionalIsExact ==
  \A k \in Keys \ NoTransaction : Cardinality(RunsOf(k)) = Len(effects[k])

\* A script that opted out of the transaction is never recorded as a success
\* more often than it took effect; a crash may only lose the record
\* (applyWithoutTransaction).  Without Clean.
RecordedWasRun ==
  \A k \in NoTransaction : Cardinality(RunsOf(k)) <= Len(effects[k])

\* Nothing is applied after a versioned migration failed until the failed row
\* is repaired: no script's row has a rank above it (validate(true) in Migrate,
\* errors.go ErrFailedMigration).  With validateOnMigrate.
FailureBlocks ==
  \A x, y \in rows :
    /\ x.type = "SQL" /\ ~x.success /\ x.key \in Versions
    /\ y.type = "SQL"
    => y.rank <= x.rank

\* Without outOfOrder, versions were applied in ascending order, although scripts
\* are added and removed, commands fail half way and failed rows are deleted
\* (computeInfos, pending).
OrderedHistory ==
  \A x, y \in rows :
    /\ x.type = "SQL" /\ x.success /\ x.key \in Versions
    /\ y.type = "SQL" /\ y.success /\ y.key \in Versions
    => (x.rank < y.rank <=> x.key < y.key)

\* Script k needs nothing more: a version was applied, or policy exempts it; a
\* transactional repeatable's last run was a success with its present text.
IsSettled(res, rs, k) ==
  IF k \in Versions
  THEN \/ \E x \in SqlRows(rs, k) : x.success
       \/ Target # Nil /\ k > Target
       \/ CoveredByBaseline(rs, k)
       \/ ~OutOfOrder /\ BelowCurrent(rs, k)
  ELSE \/ k \in NoTransaction
       \/ \E x \in SqlRows(rs, k) : /\ IsLatest(x, SqlRows(rs, k))
                                    /\ x.success
                                    /\ x.checksum = Checksum(k, res[k])

\* When Migrate is about to return without an error, every script it resolved
\* is settled in the history as it is then, not as it was when the pending list
\* was computed.  With validateOnMigrate, while only Migrate runs concurrently.
SuccessMeansUpToDate ==
  \A p \in Sessions :
    pc[p] = "release" /\ my[p].ok =>
      \A k \in Keys : my[p].res[k] # Nil => IsSettled(my[p].res, rows, k)

\* A script that failed outside a transaction is not forgotten: when Migrate gives
\* up, either its row reports the failure to the next validation, or there is no
\* row and the script is still pending, although rank and row are read and written
\* with the connection and context that failed (applyWithoutTransaction).  While
\* only Migrate runs concurrently; for versions.
FailureIsNotLost ==
  \A p \in Sessions :
    pc[p] = "release" /\ my[p].failed =>
      my[p].cur \in FailedKeys(my[p].res, rows) \cup Pending(my[p].res, rows)

\* The checksum of a successful row is that of an edition of the script that
\* took effect, so that a later comparison compares with what really ran
\* (buildRecord records what Load computed, applyMigration reads the text
\* again).  Scripts compiled into the process, without Repair.
RecordedIsWhatRan ==
  \A x \in rows :
    x.type = "SQL" /\ x.success =>
      \E i \in 1..Len(effects[x.key]) :
        x.checksum = Checksum(x.key, effects[x.key][i])

\* A row survives a step unless the step is a clean or it records a failure, and
\* only its checksum ever changes: neither Repair, which decides on rows it read
\* earlier, nor an insert disturbs what another session recorded.
SameRecord(x, y) == [x EXCEPT !.checksum = y.checksum] = y
HistoryIsKept ==
  [][\A x \in rows :
       \/ \E y \in rows' : SameRecord(x, y)
       \/ ~x.success
       \/ ~tableExists' ]_vars

\* When Repair is done, Migrate's validation finds nothing but scripts that are
\* gone or renamed, which Repair leaves alone (Repair, validate).  One session.
RepairUnblocks ==
  [][\A p \in Sessions : RepairDone(p) =>
       Problems(my[p].res, rows, TRUE) \subseteq
         LostKeys(my[p].res, rows)
           \cup {k \in Keys : DescriptionMismatch(my[p].res, rows, k)} ]_vars

\* When Clean ends without an error, on SQLite with the last object dropped and on
\* PostgreSQL with the schema created again, nothing is left, also when it takes up
\* what a Clean that failed half way, or a Migrate that died, left behind (Clean,
\* cleanStatements).  One session: another one's script may run in between.
CleanLeavesNothing ==
  [][\A p \in Sessions :
       CleanDone(p) \/ RecreateSchema(p) => ~tableExists /\ effects = NoEffects]_vars

-----------------------------------------------------------------------------
(* Refinement.                                                             *)

\* The log MigrationLog speaks of: the successful rows of scripts, in the order of
\* their ranks; how often each script took effect; and whether a version failed.
Log ==
  INSTANCE MigrationLog WITH
    Places  <- Ranks,
    Sums    <- {Checksum(k, e) : k \in Keys, e \in Editions},
    log     <- {[at |-> x.rank, key |-> x.key, checksum |-> x.checksum] :
                  x \in {y \in rows : y.type = "SQL" /\ y.success}},
    ran     <- [k \in Keys |-> Len(effects[k])],
    stopped <- \E x \in rows : x.type = "SQL" /\ ~x.success /\ x.key \in Versions

\* Whatever the sessions do, and wherever they fail or die, outside they are one
\* migrator that keeps a log: every script enters it at its end, when it is due
\* and with the effect it had, and none after a failure (Migrate, applyMigration).
\* PostgreSQL, with validateOnMigrate, while only Migrate runs concurrently.
KeepsTheLog == Log!Spec

-----------------------------------------------------------------------------
(* Liveness.                                                               *)

\* Every command ends: the lock is handed on however its holder ended, and no
\* wait of one session for another is forever.
CommandsEnd ==
  \A p \in Sessions : pc[p] # "idle" ~> pc[p] = "idle"

-----------------------------------------------------------------------------
(* What the documentation says.                                            *)

\* schema-history.md:52 "`Failed` | A migration was applied but failed and must
\* be resolved": validation reports every script whose last run failed.
FailedIsReported ==
  \A p \in Sessions, k \in Keys :
    pc[p] = "idle" /\ my[p].res[k] # Nil
    /\ (\E x \in SqlRows(rows, k) : IsLatest(x, SqlRows(rows, k)) /\ ~x.success)
    => k \in Problems(my[p].res, rows, FALSE)

\* configuration.md:140 "a non-empty schema without a history table is baselined
\* automatically": the Migrate that has just created the schema does not baseline it.
EmptyIsNotBaselined ==
  [][\A p \in Sessions :
       InsertBaseline(p) /\ my[p].cmd = "migrate" => ~my[p].created ]_vars

\* commands.md:115 "Use `Migrate` to apply pending or outdated migrations after
\* repair": a script Repair finds outdated is still to be applied afterwards.
OutdatedSurvivesRepair ==
  [][\A p \in Sessions : UpdateOneChecksum(p) =>
       \A k \in Repeatables :
         StateOf(my[p].res, rows, k) = "Outdated"
           => StateOf(my[p].res, rows', k) = "Outdated" ]_vars

\* baseline.go:49 "cannot baseline a schema history that already contains applied
\* migrations": no baseline row is above a script's row.
BaselineComesFirst ==
  \A x, y \in rows : x.type = "BASELINE" /\ y.type = "SQL" => x.rank < y.rank

=============================================================================
