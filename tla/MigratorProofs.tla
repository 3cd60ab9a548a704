--------------------------- MODULE MigratorProofs ---------------------------
(***************************************************************************)
(* Theorems about Migrator, for every number of sessions and every set of  *)
(* scripts, whatever the bounds.                                           *)
(***************************************************************************)
EXTENDS MigratorProperties, TLAPS

-----------------------------------------------------------------------------
(* The typing invariant, strengthened until every step preserves it.       *)

Applying == {"txBody", "txRank", "txInsert", "txCommit", "run", "runRank", "runInsert"}
Inserting == {"markInsert", "baseInsert", "txInsert", "txCommit", "runInsert"}
MigrateOnly ==
  Applying \cup {"lock", "markRank", "markInsert", "before", "next", "after", "release"}
OthersOnly == {"delete", "update", "list", "drop", "recreate"}

\* What the registers of a session hold when it is about to take a step.
Fits(step, m) ==
  /\ step = "idle" => m.cmd = "none"
  /\ step \in MigrateOnly => m.cmd = "migrate"
  /\ step \in OthersOnly => m.cmd # "migrate"
  /\ m.cmd # "migrate" \/ step = "lock" => m.todo = {}
  /\ \A k \in m.todo : m.res[k] # Nil
  /\ step \in Applying => m.cur \in m.todo /\ m.text \in Editions
  /\ step \in {"run", "runRank", "runInsert"} => m.cur \in NoTransaction
  /\ step \in Inserting => m.rank \in Ranks

SessionsOK ==
  /\ pc \in [Sessions -> Steps]
  /\ my \in [Sessions -> Registers]
  /\ \A p \in Sessions : Fits(pc[p], my[p])

\* The record of a script names one.
DatabaseOK ==
  /\ schemaExists \in BOOLEAN
  /\ tableExists \in BOOLEAN
  /\ rows \subseteq Row
  /\ \A x \in rows : x.type = "SQL" => x.key \in Keys
  /\ effects \in [Keys -> Seq(Editions)]

EnvironmentOK ==
  /\ holders \subseteq Sessions
  /\ disk \in Scripts
  /\ edits \in Nat
  /\ started \in Nat

TypeInv == SessionsOK /\ DatabaseOK /\ EnvironmentOK

-----------------------------------------------------------------------------
(* What one session does to its own registers.                             *)

\* A process that was just started has registers of the right kind.
LEMMA LoadedFits ==
  ASSUME NEW s \in Scripts
  PROVE  Loaded(s) \in Registers /\ Fits("idle", Loaded(s))
BY DEF Loaded, Registers, Fits, MigrateOnly, OthersOnly, Applying, Inserting, Ranks

\* A session's step leaves the registers right when its own are.
LEMMA OneSession ==
  ASSUME SessionsOK, NEW p \in Sessions, NEW step \in Steps, NEW m \in Registers,
         pc' = [pc EXCEPT ![p] = step], my' = [my EXCEPT ![p] = m],
         Fits(step, m)
  PROVE  SessionsOK'
<1>1. pc' \in [Sessions -> Steps] /\ my' \in [Sessions -> Registers]
  BY DEF SessionsOK
<1>2. ASSUME NEW q \in Sessions PROVE Fits(pc'[q], my'[q])
  <2>1. CASE q = p
    BY <2>1 DEF SessionsOK
  <2>2. CASE q # p
    <3>1. pc'[q] = pc[q] /\ my'[q] = my[q]
      BY <2>2 DEF SessionsOK
    <3> QED BY <3>1 DEF SessionsOK
  <2> QED BY <2>1, <2>2
<1> QED BY <1>1, <1>2 DEF SessionsOK

\* A session goes on to another statement with the registers it has.
LEMMA OnlyGoto ==
  ASSUME SessionsOK, NEW p \in Sessions, NEW step \in Steps,
         Goto(p, step), UNCHANGED my, Fits(step, my[p])
  PROVE  SessionsOK'
<1>1. my[p] \in Registers /\ my' = [my EXCEPT ![p] = my[p]]
  BY DEF SessionsOK
<1> QED BY <1>1, OneSession DEF Goto

\* A command returns.
LEMMA Returning ==
  ASSUME SessionsOK, NEW p \in Sessions, Return(p)
  PROVE  SessionsOK'
<1>1. my[p].res \in Scripts
  BY DEF SessionsOK, Registers
<1>2. "idle" \in Steps
  BY DEF Steps
<1> QED BY <1>1, <1>2, LoadedFits, OneSession DEF Return, Goto

\* The first step of a command.
LEMMA StartSessions ==
  ASSUME SessionsOK, NEW p \in Sessions, NEW c \in Commands, Start(p, c)
  PROVE  SessionsOK'
<1> DEFINE m == [my[p] EXCEPT !.cmd = c]
<1> DEFINE step == CASE c = "migrate"  -> "lock"
                     [] c = "baseline" -> "schemas"
                     [] c = "repair"   -> "exists"
                     [] c = "clean"    -> IF Postgres THEN "drop" ELSE "list"
<1>1. my[p] \in Registers /\ Fits(pc[p], my[p]) /\ pc[p] = "idle"
  BY DEF SessionsOK, Start
<1>2. c \in {"migrate", "baseline", "repair", "clean"}
  BY ConfigurationAssumption
<1>3. m \in Registers
  BY <1>1, <1>2 DEF Registers
<1>4. step \in Steps /\ Fits(step, m)
  BY <1>1, <1>2
  DEF Steps, LockedSteps, Fits, MigrateOnly, OthersOnly, Applying, Inserting, Registers
<1>5. pc' = [pc EXCEPT ![p] = step] /\ my' = [my EXCEPT ![p] = m]
  BY DEF Start, Goto
<1> HIDE DEF m, step
<1> QED BY <1>3, <1>4, <1>5, OneSession

\* The steps Migrate shares with the other commands.
LEMMA SharedSessions ==
  ASSUME SessionsOK, NEW p \in Sessions, SharedStep(p)
  PROVE  SessionsOK'
<1> USE DEF Steps, LockedSteps, Fits, MigrateOnly, OthersOnly, Applying, Inserting
<1>0. my[p] \in Registers /\ Fits(pc[p], my[p])
  BY DEF SessionsOK
<1>1. CASE EnsureSchemas(p)
  BY <1>0, <1>1, OnlyGoto DEF EnsureSchemas
<1>2. CASE CreateSchema(p)
  <2> DEFINE m == [my[p] EXCEPT !.created = TRUE]
  <2>1. m \in Registers /\ Fits("exists", m)
    BY <1>0 DEF Registers
  <2>2. pc' = [pc EXCEPT ![p] = "exists"] /\ my' = [my EXCEPT ![p] = m]
    BY <1>2 DEF CreateSchema, Goto
  <2> HIDE DEF m
  <2> QED BY <2>1, <2>2, OneSession
<1>3. CASE HistoryExists(p)
  BY <1>0, <1>3, OnlyGoto, Returning DEF HistoryExists
<1>4. CASE CreateHistory(p)
  BY <1>0, <1>4, OnlyGoto DEF CreateHistory, AfterCreate, AfterMark
<1>5. CASE NextInstalledRank(p)
  <2>1. PICK n \in Ranks : my' = [my EXCEPT ![p].rank = n]
    BY <1>5 DEF NextInstalledRank
  <2> DEFINE m == [my[p] EXCEPT !.rank = n]
  <2> DEFINE step == CASE pc[p] = "markRank" -> "markInsert"
                       [] pc[p] = "baseRank" -> "baseInsert"
                       [] pc[p] = "txRank"   -> "txInsert"
                       [] pc[p] = "runRank"  -> "runInsert"
  <2>2. pc[p] \in {"markRank", "baseRank", "txRank", "runRank"}
    BY <1>5 DEF NextInstalledRank
  <2>3. m \in Registers
    BY <1>0 DEF Registers
  <2>4. step \in Steps /\ Fits(step, m)
    BY <1>0, <2>2 DEF Registers
  <2>5. pc' = [pc EXCEPT ![p] = step] /\ my' = [my EXCEPT ![p] = m]
    BY <1>5, <2>1 DEF NextInstalledRank, Goto
  <2> HIDE DEF m, step
  <2> QED BY <2>3, <2>4, <2>5, OneSession
<1>6. CASE InsertSchemaMarker(p)
  BY <1>0, <1>6, OnlyGoto DEF InsertSchemaMarker, AfterMark
<1>7. CASE InsertBaseline(p)
  BY <1>0, <1>7, OnlyGoto, Returning DEF InsertBaseline
<1> QED BY <1>1, <1>2, <1>3, <1>4, <1>5, <1>6, <1>7 DEF SharedStep

\* The steps of Migrate alone.
LEMMA MigrateSessions ==
  ASSUME SessionsOK, EnvironmentOK, NEW p \in Sessions, MigrateStep(p)
  PROVE  SessionsOK'
<1> USE DEF Steps, LockedSteps, Fits, MigrateOnly, OthersOnly, Applying, Inserting
<1>0. my[p] \in Registers /\ Fits(pc[p], my[p])
  BY DEF SessionsOK
<1>1. CASE AcquireLock(p)
  BY <1>0, <1>1, OnlyGoto DEF AcquireLock
<1>2. CASE ReadForMigrate(p)
  <2>1. CASE ValidateOnMigrate /\ Problems(my[p].res, rows, TRUE) # {}
    <3> DEFINE m == [my[p] EXCEPT !.ok = FALSE]
    <3>1. m \in Registers /\ Fits("release", m)
      BY <1>0, <1>2 DEF Registers, ReadForMigrate
    <3>2. pc' = [pc EXCEPT ![p] = "release"] /\ my' = [my EXCEPT ![p] = m]
      BY <1>2, <2>1 DEF ReadForMigrate, Goto
    <3> HIDE DEF m
    <3> QED BY <3>1, <3>2, OneSession
  <2>2. CASE ~(ValidateOnMigrate /\ Problems(my[p].res, rows, TRUE) # {})
    <3> DEFINE m == [my[p] EXCEPT !.todo = Pending(my[p].res, rows)]
    <3>1. /\ Pending(my[p].res, rows) \subseteq Keys
          /\ \A k \in Pending(my[p].res, rows) : my[p].res[k] # Nil
      BY DEF Pending
    <3>2. m \in Registers /\ Fits("before", m)
      BY <1>0, <1>2, <3>1 DEF Registers, ReadForMigrate
    <3>3. pc' = [pc EXCEPT ![p] = "before"] /\ my' = [my EXCEPT ![p] = m]
      BY <1>2, <2>2 DEF ReadForMigrate, Goto
    <3> HIDE DEF m
    <3> QED BY <3>2, <3>3, OneSession
  <2> QED BY <2>1, <2>2
<1>3. CASE BeforeMigrate(p)
  BY <1>0, <1>3, OnlyGoto DEF BeforeMigrate
<1>4. CASE BeginMigration(p)
  <2>1. PICK k \in Keys :
          /\ LeastOf(p, k) /\ TextOf(p, k) # Nil
          /\ my' = [my EXCEPT ![p].cur = k, ![p].text = TextOf(p, k),
                             ![p].failed = FALSE]
          /\ Goto(p, IF k \in NoTransaction THEN "run" ELSE "txBody")
    BY <1>4 DEF BeginMigration
  <2> DEFINE m == [my[p] EXCEPT !.cur = k, !.text = TextOf(p, k), !.failed = FALSE]
  <2> DEFINE step == IF k \in NoTransaction THEN "run" ELSE "txBody"
  <2>2. TextOf(p, k) \in Editions
    BY <1>0, <2>1 DEF TextOf, DirectoryText, EnvironmentOK, Scripts, Registers
  <2>3. k \in my[p].todo /\ pc[p] = "next"
    BY <1>4, <2>1 DEF LeastOf, BeginMigration
  <2>4. m \in Registers
    BY <1>0, <2>2 DEF Registers
  <2>5. step \in Steps /\ Fits(step, m)
    BY <1>0, <2>2, <2>3 DEF Registers
  <2>6. pc' = [pc EXCEPT ![p] = step] /\ my' = [my EXCEPT ![p] = m]
    BY <2>1 DEF Goto, SessionsOK
  <2> HIDE DEF m, step
  <2> QED BY <2>4, <2>5, <2>6, OneSession
<1>5. CASE AllApplied(p)
  BY <1>0, <1>5, OnlyGoto DEF AllApplied
<1>6. CASE RunInTransaction(p)
  BY <1>0, <1>6, OnlyGoto DEF RunInTransaction
<1>7. CASE InsertInTransaction(p)
  BY <1>0, <1>7, OnlyGoto DEF InsertInTransaction
<1>9. ASSUME EntryDone(p), Goto(p, "next"), pc[p] \in Applying
      PROVE  SessionsOK'
  <2> DEFINE m == [my[p] EXCEPT !.todo = @ \ {my[p].cur}, !.cur = Nil,
                                !.text = Nil, !.rank = 0]
  <2>1. m \in Registers /\ Fits("next", m)
    BY <1>0, <1>9 DEF Registers
  <2>2. pc' = [pc EXCEPT ![p] = "next"] /\ my' = [my EXCEPT ![p] = m]
    BY <1>9 DEF EntryDone, Goto, SessionsOK
  <2> HIDE DEF m
  <2> QED BY <2>1, <2>2, OneSession
<1>10. CASE Commit(p)
  BY <1>9, <1>10 DEF Commit
<1>11. CASE RunStatements(p)
  BY <1>0, <1>11, OnlyGoto DEF RunStatements
<1>12. CASE InsertAfterRun(p)
  BY <1>0, <1>9, <1>12, OnlyGoto DEF InsertAfterRun
<1>13. CASE AfterMigrate(p)
  BY <1>0, <1>13, OnlyGoto DEF AfterMigrate
<1>14. CASE Release(p)
  BY <1>14, Returning DEF Release
<1> QED
  BY <1>1, <1>2, <1>3, <1>4, <1>5, <1>6, <1>7, <1>10, <1>11, <1>12, <1>13, <1>14
  DEF MigrateStep

\* Repair's updates name ranks and checksums: a script's row names the script.
LEMMA FixesType ==
  ASSUME DatabaseOK, NEW s \in Scripts
  PROVE  RepairFixes(s, rows) \subseteq [rank : Ranks, checksum : Checksums]
<1> SUFFICES ASSUME NEW x \in rows, ~IsSynthetic(x), s[x.key] # Nil
             PROVE  [rank |-> x.rank, checksum |-> Checksum(x.key, s[x.key])]
                      \in [rank : Ranks, checksum : Checksums]
  BY DEF RepairFixes
<1>1. x.rank \in Ranks /\ x.key \in Keys
  BY DEF DatabaseOK, Row, IsSynthetic
<1>2. s[x.key] \in Editions
  BY <1>1 DEF Scripts
<1>3. Checksum(x.key, s[x.key]) \in Checksums
  BY <1>1, <1>2, EditionsAssumption DEF Checksum, Checksums
<1> QED BY <1>1, <1>3

\* The steps of Baseline, Repair and Clean.
LEMMA OtherSessions ==
  ASSUME SessionsOK, DatabaseOK, NEW p \in Sessions, OtherStep(p)
  PROVE  SessionsOK'
<1> USE DEF Steps, LockedSteps, Fits, MigrateOnly, OthersOnly, Applying, Inserting
<1>0. my[p] \in Registers /\ Fits(pc[p], my[p])
  BY DEF SessionsOK
<1>1. CASE ReadForBaseline(p)
  BY <1>0, <1>1, OnlyGoto, Returning DEF ReadForBaseline
<1>2. CASE DeleteFailedRows(p)
  BY <1>0, <1>2, OnlyGoto DEF DeleteFailedRows
<1>3. CASE ReadForRepair(p)
  <2> DEFINE m == [my[p] EXCEPT !.fixes = RepairFixes(my[p].res, rows)]
  <2>1. m \in Registers /\ Fits("update", m)
    BY <1>0, <1>3, FixesType DEF Registers, ReadForRepair
  <2>2. pc' = [pc EXCEPT ![p] = "update"] /\ my' = [my EXCEPT ![p] = m]
    BY <1>3 DEF ReadForRepair, Goto
  <2> HIDE DEF m
  <2> QED BY <2>1, <2>2, OneSession
<1>4. CASE UpdateOneChecksum(p)
  <2>1. PICK f \in my[p].fixes : my' = [my EXCEPT ![p].fixes = @ \ {f}]
    BY <1>4 DEF UpdateOneChecksum
  <2> DEFINE m == [my[p] EXCEPT !.fixes = @ \ {f}]
  <2>2. m \in Registers /\ Fits(pc[p], m) /\ pc[p] \in Steps
    BY <1>0, <1>4 DEF Registers, UpdateOneChecksum
  <2>3. pc' = [pc EXCEPT ![p] = pc[p]] /\ my' = [my EXCEPT ![p] = m]
    BY <1>4, <2>1 DEF UpdateOneChecksum, SessionsOK
  <2> HIDE DEF m
  <2> QED BY <2>2, <2>3, OneSession
<1>5. CASE RepairDone(p)
  BY <1>5, Returning DEF RepairDone
<1>6. CASE DropSchema(p)
  BY <1>0, <1>6, OnlyGoto DEF DropSchema
<1>7. CASE RecreateSchema(p)
  BY <1>7, Returning DEF RecreateSchema
<1>8. CASE ListObjects(p)
  <2> DEFINE d == (IF tableExists THEN {"history"} ELSE {})
                    \cup (IF effects # NoEffects THEN {"objects"} ELSE {})
  <2> DEFINE m == [my[p] EXCEPT !.drop = d]
  <2>1. d \subseteq {"history", "objects"}
    OBVIOUS
  <2>2. my' = [my EXCEPT ![p] = m] /\ pc' = [pc EXCEPT ![p] = "drop"] /\ pc[p] = "list"
    BY <1>8 DEF ListObjects, Goto
  <2> HIDE DEF d
  <2>3. m \in Registers /\ Fits("drop", m)
    BY <1>0, <2>1, <2>2 DEF Registers
  <2> HIDE DEF m
  <2> QED BY <2>2, <2>3, OneSession
<1>9. CASE DropObject(p)
  <2>1. PICK d \in my[p].drop : my' = [my EXCEPT ![p].drop = @ \ {d}]
    BY <1>9 DEF DropObject
  <2> DEFINE m == [my[p] EXCEPT !.drop = @ \ {d}]
  <2>2. m \in Registers /\ Fits(pc[p], m) /\ pc[p] \in Steps
    BY <1>0, <1>9 DEF Registers, DropObject
  <2>3. pc' = [pc EXCEPT ![p] = pc[p]] /\ my' = [my EXCEPT ![p] = m]
    BY <1>9, <2>1 DEF DropObject, SessionsOK
  <2> HIDE DEF m
  <2> QED BY <2>2, <2>3, OneSession
<1>10. CASE CleanDone(p)
  BY <1>10, Returning DEF CleanDone
<1> QED
  BY <1>1, <1>2, <1>3, <1>4, <1>5, <1>6, <1>7, <1>8, <1>9, <1>10 DEF OtherStep

\* Failures, and the replacement of a process.
LEMMA FailureSessions ==
  ASSUME SessionsOK, EnvironmentOK, NEW p \in Sessions, Failure(p) \/ Load(p)
  PROVE  SessionsOK'
<1> USE DEF Steps, LockedSteps, Fits, MigrateOnly, OthersOnly, Applying, Inserting
<1>0. my[p] \in Registers /\ Fits(pc[p], my[p]) /\ pc[p] \in Steps
  BY DEF SessionsOK
<1>1. ASSUME my' = [my EXCEPT ![p].ok = FALSE], Goto(p, "release"),
             my[p].cmd = "migrate"
      PROVE  SessionsOK'
  <2> DEFINE m == [my[p] EXCEPT !.ok = FALSE]
  <2>1. m \in Registers /\ Fits("release", m)
    BY <1>0, <1>1 DEF Registers
  <2>2. pc' = [pc EXCEPT ![p] = "release"] /\ my' = [my EXCEPT ![p] = m]
    BY <1>1 DEF Goto
  <2> HIDE DEF m
  <2> QED BY <2>1, <2>2, OneSession
<1>2. CASE OperationFails(p)
  BY <1>1, <1>2, Returning DEF OperationFails
<1>3. CASE RunStatementsFails(p)
  <2> DEFINE m == [my[p] EXCEPT !.failed = TRUE, !.ok = FALSE]
  <2>1. m \in Registers /\ Fits("runRank", m)
    BY <1>0, <1>3 DEF Registers, RunStatementsFails
  <2>2. pc' = [pc EXCEPT ![p] = "runRank"] /\ my' = [my EXCEPT ![p] = m]
    BY <1>3 DEF RunStatementsFails, Goto, SessionsOK
  <2> HIDE DEF m
  <2> QED BY <2>1, <2>2, OneSession
<1>4. CASE CommitAnswerLost(p)
  BY <1>0, <1>1, <1>4 DEF CommitAnswerLost
<1>5. ASSUME my' = [my EXCEPT ![p] = Loaded(disk)], pc' = [pc EXCEPT ![p] = "idle"]
      PROVE  SessionsOK'
  BY <1>5, LoadedFits, OneSession DEF EnvironmentOK
<1>6. CASE Crash(p)
  BY <1>5, <1>6 DEF Crash, Goto
<1>7. CASE LoseLock(p)
  BY <1>7 DEF LoseLock, SessionsOK
<1>8. CASE Load(p)
  BY <1>5, <1>8 DEF Load, SessionsOK
<1> QED BY <1>2, <1>3, <1>4, <1>6, <1>7, <1>8 DEF Failure

-----------------------------------------------------------------------------
(* What a session does to the database.                                    *)

\* The rows the program writes are rows.
LEMMA RowTypes ==
  ASSUME NEW n \in Ranks
  PROVE  /\ \A k \in Keys, e \in Editions, ok \in BOOLEAN : SqlRow(n, k, e, ok) \in Row
         /\ BaselineRow(n, BaselineVersion) \in Row
         /\ SchemaRow(n) \in Row
<1>1. ASSUME NEW k \in Keys, NEW e \in Editions, NEW ok \in BOOLEAN
      PROVE  SqlRow(n, k, e, ok) \in Row
  <2>1. TitleOf[e] \in Nat /\ Checksum(k, e) \in Checksums
    BY EditionsAssumption DEF Checksum, Checksums
  <2> QED BY <2>1 DEF SqlRow, Row
<1>2. NoChecksum \in Checksums /\ BaselineVersion \in Keys
  BY ConfigurationAssumption DEF Checksums, Keys
<1>3. BaselineRow(n, BaselineVersion) \in Row
  BY <1>2 DEF BaselineRow, Row
<1>4. SchemaRow(n) \in Row
  BY <1>2 DEF SchemaRow, Row
<1> QED BY <1>1, <1>3, <1>4

\* One more row of the right kind.
LEMMA RowAdded ==
  ASSUME DatabaseOK, NEW x \in Row, rows' = rows \cup {x},
         x.type = "SQL" => x.key \in Keys,
         UNCHANGED <<schemaExists, tableExists>>, effects' \in [Keys -> Seq(Editions)]
  PROVE  DatabaseOK'
BY DEF DatabaseOK

\* What a session that applies a script has in its registers.
LEMMA Registered ==
  ASSUME SessionsOK, NEW p \in Sessions, pc[p] \in Applying
  PROVE  /\ my[p].cur \in Keys
         /\ my[p].text \in Editions
         /\ my[p].res[my[p].cur] \in Editions
<1>1. my[p] \in Registers /\ Fits(pc[p], my[p])
  BY DEF SessionsOK
<1>2. my[p].cur \in Keys /\ my[p].text \in Editions /\ my[p].res[my[p].cur] # Nil
  BY <1>1 DEF Fits, Registers
<1> QED BY <1>1, <1>2 DEF Registers, Scripts

\* One more effect.
LEMMA EffectType ==
  ASSUME DatabaseOK, NEW k \in Keys, NEW e \in Editions
  PROVE  [effects EXCEPT ![k] = Append(@, e)] \in [Keys -> Seq(Editions)]
BY DEF DatabaseOK

\* A commit adds a row and an effect.
LEMMA CommittedType ==
  ASSUME SessionsOK, DatabaseOK, NEW p \in Sessions, pc[p] = "txCommit", Committed(p),
         UNCHANGED <<schemaExists, tableExists>>
  PROVE  DatabaseOK'
<1>1. /\ my[p].cur \in Keys /\ my[p].text \in Editions
      /\ my[p].res[my[p].cur] \in Editions
  BY Registered DEF Applying
<1>2. my[p].rank \in Ranks
  BY DEF SessionsOK, Fits, Inserting
<1> DEFINE x == SqlRow(my[p].rank, my[p].cur, my[p].res[my[p].cur], TRUE)
<1>3. x \in Row /\ x.key \in Keys
  BY <1>1, <1>2, RowTypes DEF SqlRow
<1>4. rows' = rows \cup {x} /\ effects' \in [Keys -> Seq(Editions)]
  BY <1>1, EffectType DEF Committed
<1> HIDE DEF x
<1> QED BY <1>3, <1>4, RowAdded

\* Every step of a session leaves the database well typed.
LEMMA DatabaseStep ==
  ASSUME SessionsOK, DatabaseOK, NEW p \in Sessions, Step(p) \/ Failure(p)
  PROVE  DatabaseOK'
<1>0. ASSUME UNCHANGED database PROVE DatabaseOK'
  BY <1>0 DEF database, DatabaseOK
<1>1. my[p] \in Registers /\ Fits(pc[p], my[p])
  BY DEF SessionsOK
<1>2. CASE SharedStep(p)
  <2>1. CASE CreateSchema(p) \/ CreateHistory(p)
    BY <2>1 DEF CreateSchema, CreateHistory, DatabaseOK
  <2>2. CASE InsertSchemaMarker(p)
    <3>1. my[p].rank \in Ranks
      BY <1>1, <2>2 DEF InsertSchemaMarker, Fits, Inserting
    <3>2. SchemaRow(my[p].rank) \in Row /\ SchemaRow(my[p].rank).type # "SQL"
      BY <3>1, RowTypes DEF SchemaRow
    <3> QED BY <2>2, <3>2, RowAdded DEF InsertSchemaMarker, DatabaseOK
  <2>3. CASE InsertBaseline(p)
    <3>1. my[p].rank \in Ranks
      BY <1>1, <2>3 DEF InsertBaseline, Fits, Inserting
    <3> DEFINE x == BaselineRow(my[p].rank, BaselineVersion)
    <3>2. x \in Row /\ x.type # "SQL"
      BY <3>1, RowTypes DEF BaselineRow
    <3> HIDE DEF x
    <3>3. rows' = rows \cup {x} /\ UNCHANGED <<schemaExists, tableExists, effects>>
      BY <2>3 DEF InsertBaseline, x
    <3> QED BY <3>2, <3>3, RowAdded DEF DatabaseOK
  <2>4. CASE EnsureSchemas(p) \/ HistoryExists(p) \/ NextInstalledRank(p)
    BY <1>0, <2>4 DEF EnsureSchemas, HistoryExists, NextInstalledRank
  <2> QED BY <1>2, <2>1, <2>2, <2>3, <2>4 DEF SharedStep
<1>3. CASE MigrateStep(p)
  <2>1. CASE Commit(p)
    BY <2>1, CommittedType DEF Commit
  <2>2. CASE RunStatements(p)
    <3>1. my[p].cur \in Keys /\ my[p].text \in Editions
      BY <2>2, Registered DEF RunStatements, Applying
    <3> QED BY <2>2, <3>1, EffectType DEF RunStatements, DatabaseOK
  <2>3. CASE InsertAfterRun(p)
    <3>1. my[p].cur \in Keys /\ my[p].res[my[p].cur] \in Editions
      BY <2>3, Registered DEF InsertAfterRun, Applying
    <3>2. my[p].rank \in Ranks /\ my[p].failed \in BOOLEAN
      BY <1>1, <2>3 DEF InsertAfterRun, Fits, Inserting, Registers
    <3> DEFINE x == SqlRow(my[p].rank, my[p].cur, my[p].res[my[p].cur], ~my[p].failed)
    <3>3. x \in Row /\ x.key \in Keys
      BY <3>1, <3>2, RowTypes DEF SqlRow
    <3> HIDE DEF x
    <3>4. rows' = rows \cup {x} /\ UNCHANGED <<schemaExists, tableExists, effects>>
      BY <2>3 DEF InsertAfterRun, x
    <3> QED BY <3>3, <3>4, RowAdded DEF DatabaseOK
  <2>4. CASE \/ AcquireLock(p) \/ ReadForMigrate(p) \/ BeforeMigrate(p)
             \/ BeginMigration(p) \/ AllApplied(p) \/ RunInTransaction(p)
             \/ InsertInTransaction(p) \/ AfterMigrate(p) \/ Release(p)
    BY <1>0, <2>4 DEF AcquireLock, ReadForMigrate, BeforeMigrate, BeginMigration,
      AllApplied, RunInTransaction, InsertInTransaction, AfterMigrate, Release
  <2> QED BY <1>3, <2>1, <2>2, <2>3, <2>4 DEF MigrateStep
<1>4. CASE OtherStep(p)
  <2>1. CASE DeleteFailedRows(p)
    BY <2>1 DEF DeleteFailedRows, DeleteFailed, DatabaseOK
  <2>2. CASE UpdateOneChecksum(p)
    <3>1. PICK f \in my[p].fixes : rows' = UpdateChecksum(rows, f.rank, f.checksum)
      BY <2>2 DEF UpdateOneChecksum
    <3>2. f.checksum \in Checksums
      BY <1>1 DEF Registers
    <3>3. ASSUME NEW x \in rows
          PROVE  LET y == IF x.rank = f.rank THEN [x EXCEPT !.checksum = f.checksum]
                                             ELSE x
                 IN  y \in Row /\ (y.type = "SQL" => y.key \in Keys)
      BY <3>2 DEF DatabaseOK, Row
    <3> QED BY <2>2, <3>1, <3>3 DEF UpdateOneChecksum, UpdateChecksum, DatabaseOK
  <2>3. NoEffects \in [Keys -> Seq(Editions)]
    BY DEF NoEffects
  <2>4. CASE DropSchema(p)
    BY <2>3, <2>4 DEF DropSchema, DatabaseOK
  <2>5. CASE RecreateSchema(p)
    BY <2>5 DEF RecreateSchema, DatabaseOK
  <2>6. CASE DropObject(p)
    BY <2>3, <2>6 DEF DropObject, DatabaseOK
  <2>7. CASE \/ ReadForBaseline(p) \/ ReadForRepair(p) \/ RepairDone(p)
             \/ ListObjects(p) \/ CleanDone(p)
    BY <1>0, <2>7
    DEF ReadForBaseline, ReadForRepair, RepairDone, ListObjects, CleanDone
  <2> QED BY <1>4, <2>1, <2>2, <2>4, <2>5, <2>6, <2>7 DEF OtherStep
<1>5. CASE Failure(p)
  <2>1. CASE CommitAnswerLost(p)
    BY <2>1, CommittedType DEF CommitAnswerLost
  <2>2. CASE OperationFails(p) \/ RunStatementsFails(p) \/ Crash(p) \/ LoseLock(p)
    BY <1>0, <2>2 DEF OperationFails, RunStatementsFails, Crash, LoseLock
  <2> QED BY <1>5, <2>1, <2>2 DEF Failure
<1> QED BY <1>2, <1>3, <1>4, <1>5 DEF Step

-----------------------------------------------------------------------------
(* Type correctness.                                                       *)

\* Only the lock and the scripts are left.
LEMMA EnvironmentStep ==
  ASSUME EnvironmentOK, NEW p \in Sessions, Step(p) \/ Failure(p) \/ Load(p)
  PROVE  EnvironmentOK'
<1>0. ASSUME UNCHANGED environment, holders' \subseteq Sessions PROVE EnvironmentOK'
  BY <1>0 DEF environment, EnvironmentOK
<1>1. holders \subseteq Sessions
  BY DEF EnvironmentOK
<1>2. CASE SharedStep(p)
  BY <1>0, <1>1, <1>2 DEF SharedStep, EnsureSchemas, CreateSchema, HistoryExists,
    CreateHistory, NextInstalledRank, InsertSchemaMarker, InsertBaseline
<1>3. CASE MigrateStep(p)
  BY <1>0, <1>1, <1>3 DEF MigrateStep, AcquireLock, ReadForMigrate, BeforeMigrate,
    BeginMigration, AllApplied, RunInTransaction, InsertInTransaction, Commit,
    RunStatements, InsertAfterRun, AfterMigrate, Release
<1>4. CASE OtherStep(p)
  BY <1>0, <1>1, <1>4 DEF OtherStep, ReadForBaseline, DeleteFailedRows, ReadForRepair,
    UpdateOneChecksum, RepairDone, DropSchema, RecreateSchema, ListObjects,
    DropObject, CleanDone
<1>5. CASE Failure(p)
  BY <1>0, <1>1, <1>5 DEF Failure, OperationFails, RunStatementsFails,
    CommitAnswerLost, Crash, LoseLock
<1>6. CASE Load(p)
  BY <1>0, <1>1, <1>6 DEF Load
<1> QED BY <1>2, <1>3, <1>4, <1>5, <1>6 DEF Step

LEMMA TypeInit == Init => TypeInv
<1> SUFFICES ASSUME Init PROVE TypeInv
  OBVIOUS
<1>1. SessionsOK
  <2>1. InitialDisk \in Scripts /\ "idle" \in Steps
    BY ConfigurationAssumption DEF Steps
  <2> QED BY <2>1, LoadedFits DEF Init, SessionsOK
<1>2. DatabaseOK
  <2>1. schemaExists \in BOOLEAN
    BY Zenon DEF Init
  <2>2. effects \in [Keys -> Seq(Editions)]
    BY DEF Init, NoEffects
  <2> QED BY <2>1, <2>2 DEF Init, DatabaseOK
<1>3. EnvironmentOK
  BY ConfigurationAssumption DEF Init, EnvironmentOK
<1> QED BY <1>1, <1>2, <1>3 DEF TypeInv

LEMMA TypeNext == TypeInv /\ [Next]_vars => TypeInv'
<1> SUFFICES ASSUME TypeInv, [Next]_vars PROVE TypeInv'
  OBVIOUS
<1>0. SessionsOK /\ DatabaseOK /\ EnvironmentOK
  BY DEF TypeInv
<1>1. ASSUME NEW p \in Sessions, NEW c \in Commands, Start(p, c) PROVE TypeInv'
  <2>1. SessionsOK'
    BY <1>0, <1>1, StartSessions
  <2>2. DatabaseOK' /\ EnvironmentOK'
    BY <1>0, <1>1 DEF Start, database, DatabaseOK, EnvironmentOK
  <2> QED BY <2>1, <2>2 DEF TypeInv
<1>2. ASSUME NEW p \in Sessions, Step(p) \/ Failure(p) \/ Load(p) PROVE TypeInv'
  <2>1. SessionsOK'
    BY <1>0, <1>2, SharedSessions, MigrateSessions, OtherSessions, FailureSessions
    DEF Step
  <2>2. DatabaseOK'
    <3>1. CASE Step(p) \/ Failure(p)
      BY <1>0, <3>1, DatabaseStep
    <3>2. CASE Load(p)
      BY <1>0, <3>2 DEF Load, database, DatabaseOK
    <3> QED BY <1>2, <3>1, <3>2
  <2>3. EnvironmentOK'
    BY <1>0, <1>2, EnvironmentStep
  <2> QED BY <2>1, <2>2, <2>3 DEF TypeInv
<1>3. ASSUME NEW k \in Keys, NEW e \in Editions \cup {Nil}, EditScript(k, e)
      PROVE  TypeInv'
  <2>1. SessionsOK'
    BY <1>0, <1>3 DEF EditScript, SessionsOK
  <2>2. DatabaseOK'
    BY <1>0, <1>3 DEF EditScript, database, DatabaseOK
  <2>3. EnvironmentOK'
    BY <1>0, <1>3 DEF EditScript, EnvironmentOK, Scripts
  <2> QED BY <2>1, <2>2, <2>3 DEF TypeInv
<1>4. CASE UNCHANGED vars
  <2>1. SessionsOK'
    BY <1>0, <1>4 DEF vars, SessionsOK
  <2>2. DatabaseOK'
    BY <1>0, <1>4 DEF vars, database, DatabaseOK
  <2>3. EnvironmentOK'
    BY <1>0, <1>4 DEF vars, environment, EnvironmentOK
  <2> QED BY <2>1, <2>2, <2>3 DEF TypeInv
<1> QED BY <1>1, <1>2, <1>3, <1>4 DEF Next, Quiet

\* Every variable always holds a value of the kind the code gives it.  TypeOK is
\* not inductive: that a recorded row is well typed rests on what Fits says of
\* the registers at the insert, and on pending() naming resolved scripts only.
THEOREM TypeCorrect == Spec => []TypeOK
<1>1. TypeInv => TypeOK
  BY DEF TypeInv, SessionsOK, DatabaseOK, EnvironmentOK, TypeOK
<1> QED BY <1>1, TypeInit, TypeNext, PTL DEF Spec

-----------------------------------------------------------------------------
(* Mutual exclusion.                                                       *)

\* A session inside Migrate holds the lock, and no two sessions hold it.
LockInv ==
  /\ \A p \in Sessions : InMigrate(p) => p \in holders
  /\ \A p, q \in holders : p = q

\* A session's step leaves the program counters and registers of others alone.
LEMMA OthersUnchanged ==
  ASSUME SessionsOK, NEW p \in Sessions,
         (\E c \in Commands : Start(p, c)) \/ Step(p) \/ Failure(p) \/ Load(p),
         NEW q \in Sessions, q # p
  PROVE  pc'[q] = pc[q] /\ my'[q] = my[q]
<1> USE DEF SessionsOK, Goto, Return
<1>1. CASE (\E c \in Commands : Start(p, c)) \/ Load(p)
  BY <1>1 DEF Start, Load
<1>2. CASE SharedStep(p)
  BY <1>2 DEF SharedStep, EnsureSchemas, CreateSchema, HistoryExists,
    CreateHistory, NextInstalledRank, InsertSchemaMarker, InsertBaseline
<1>3. CASE MigrateStep(p)
  BY <1>3 DEF MigrateStep, AcquireLock, ReadForMigrate, BeforeMigrate, EntryDone,
    BeginMigration, AllApplied, RunInTransaction, InsertInTransaction, Commit,
    RunStatements, InsertAfterRun, AfterMigrate, Release
<1>4. CASE OtherStep(p)
  BY <1>4 DEF OtherStep, ReadForBaseline, DeleteFailedRows, ReadForRepair,
    UpdateOneChecksum, RepairDone, DropSchema, RecreateSchema, ListObjects,
    DropObject, CleanDone
<1>5. CASE Failure(p)
  BY <1>5 DEF Failure, OperationFails, RunStatementsFails,
    CommitAnswerLost, Crash, LoseLock
<1> QED BY <1>1, <1>2, <1>3, <1>4, <1>5 DEF Step

\* What keeps LockInv: p alone acts, and is not in Migrate unless it was; or the
\* lock was free and p took it; or p gave it up and left Migrate.
LEMMA LockKept ==
  ASSUME LockInv, NEW p \in Sessions,
         \A q \in Sessions : q # p => (InMigrate(q)' <=> InMigrate(q)),
         \/ holders' = holders /\ (InMigrate(p)' => InMigrate(p))
         \/ holders = {} /\ holders' = {p}
         \/ holders' = holders \ {p} /\ ~InMigrate(p)'
  PROVE  LockInv'
BY DEF LockInv

LEMMA LockStep ==
  ASSUME Postgres, ~LockLoss, TypeInv, LockInv, NEW p \in Sessions,
         (\E c \in Commands : Start(p, c)) \/ Step(p) \/ Failure(p) \/ Load(p)
  PROVE  LockInv'
<1> USE DEF LockedSteps, Goto
<1>0. SessionsOK /\ EnvironmentOK
  BY DEF TypeInv
<1>1. \A q \in Sessions : q # p => (InMigrate(q)' <=> InMigrate(q))
  BY <1>0, OthersUnchanged DEF InMigrate
<1>2. ASSUME holders' = holders, InMigrate(p)' => InMigrate(p) PROVE LockInv'
  BY <1>1, <1>2, LockKept
<1>3. /\ pc \in [Sessions -> Steps] /\ my \in [Sessions -> Registers]
      /\ Fits(pc[p], my[p])
  BY <1>0 DEF SessionsOK
<1>4. ASSUME Return(p) PROVE ~InMigrate(p)'
  BY <1>3, <1>4 DEF Return, InMigrate
<1>5. CASE \E c \in Commands : Start(p, c)
  <2>1. PICK c \in Commands : Start(p, c)
    BY <1>5
  <2>2. c \in {"migrate", "baseline", "repair", "clean"}
    BY ConfigurationAssumption
  <2>3. ~InMigrate(p)'
    BY <1>3, <2>1, <2>2 DEF Start, InMigrate
  <2> QED BY <1>2, <2>1, <2>3 DEF Start
<1>6. CASE Load(p)
  BY <1>2, <1>3, <1>6 DEF Load, InMigrate, Loaded
<1>7. CASE SharedStep(p)
  <2>1. holders' = holders
    BY <1>7 DEF SharedStep, EnsureSchemas, CreateSchema, HistoryExists,
      CreateHistory, NextInstalledRank, InsertSchemaMarker, InsertBaseline
  <2>2. pc[p] \in LockedSteps
    BY <1>7 DEF SharedStep, EnsureSchemas, CreateSchema, HistoryExists,
      CreateHistory, NextInstalledRank, InsertSchemaMarker, InsertBaseline
  <2>3. my'[p].cmd = my[p].cmd \/ Return(p)
    BY <1>3, <1>7 DEF SharedStep, EnsureSchemas, CreateSchema, HistoryExists,
      CreateHistory, NextInstalledRank, InsertSchemaMarker, InsertBaseline, Registers
  <2> QED BY <1>2, <1>4, <2>1, <2>2, <2>3 DEF InMigrate
<1>8. CASE MigrateStep(p)
  <2>1. CASE AcquireLock(p)
    BY <1>1, <2>1, LockKept DEF AcquireLock
  <2>2. CASE Release(p)
    BY <1>1, <1>4, <2>2, LockKept DEF Release
  <2>3. CASE \/ ReadForMigrate(p) \/ BeforeMigrate(p) \/ BeginMigration(p)
             \/ AllApplied(p) \/ RunInTransaction(p) \/ InsertInTransaction(p)
             \/ Commit(p) \/ RunStatements(p) \/ InsertAfterRun(p) \/ AfterMigrate(p)
    <3>1. holders' = holders /\ pc[p] \in LockedSteps
      BY <2>3 DEF ReadForMigrate, BeforeMigrate, BeginMigration, AllApplied,
        RunInTransaction, InsertInTransaction, Commit, RunStatements, InsertAfterRun,
        AfterMigrate
    <3>2. my'[p].cmd = my[p].cmd
      <4>1. CASE ReadForMigrate(p)
        <5>1. \/ my' = [my EXCEPT ![p].ok = FALSE]
              \/ my' = [my EXCEPT ![p].todo = Pending(my[p].res, rows)]
          BY <4>1 DEF ReadForMigrate
        <5> QED BY <1>3, <5>1 DEF Registers
      <4>2. CASE BeginMigration(p)
        BY <1>3, <4>2 DEF BeginMigration, Registers
      <4>3. CASE EntryDone(p)
        BY <1>3, <4>3 DEF EntryDone, Registers
      <4>4. CASE UNCHANGED my
        BY <4>4
      <4> QED BY <2>3, <4>1, <4>2, <4>3, <4>4
        DEF BeforeMigrate, AllApplied, RunInTransaction, InsertInTransaction,
          Commit, RunStatements, InsertAfterRun, AfterMigrate
    <3> QED BY <1>2, <3>1, <3>2 DEF InMigrate
  <2> QED BY <1>8, <2>1, <2>2, <2>3 DEF MigrateStep
<1>9. CASE OtherStep(p)
  <2>1. holders' = holders
    BY <1>9 DEF OtherStep, ReadForBaseline, DeleteFailedRows, ReadForRepair,
      UpdateOneChecksum, RepairDone, DropSchema, RecreateSchema, ListObjects,
      DropObject, CleanDone
  <2>2. pc[p] \in OthersOnly => my[p].cmd # "migrate"
    BY <1>3 DEF Fits
  <2>3. Return(p) \/ pc'[p] \notin LockedSteps \cup {"release"} \/
        my'[p].cmd # "migrate"
    BY <1>3, <1>9, <2>2 DEF OthersOnly, OtherStep, ReadForBaseline, DeleteFailedRows, ReadForRepair,
      UpdateOneChecksum, RepairDone, DropSchema, RecreateSchema, ListObjects,
      DropObject, CleanDone, Registers
  <2> QED BY <1>2, <1>4, <2>1, <2>3 DEF InMigrate
<1>10. CASE Failure(p)
  <2>1. CASE OperationFails(p)
    <3>1. CASE my[p].cmd = "migrate" /\ pc[p] # "lock"
      <4>1. pc[p] \in LockedSteps \cup OthersOnly
        BY <2>1, <3>1 DEF OperationFails, Steps, OthersOnly
      <4>2. InMigrate(p)
        BY <1>3, <3>1, <4>1 DEF Fits, InMigrate
      <4> QED BY <1>2, <2>1, <4>2 DEF OperationFails
    <3>2. CASE ~(my[p].cmd = "migrate" /\ pc[p] # "lock")
      BY <1>2, <1>4, <2>1, <3>2 DEF OperationFails
    <3> QED BY <3>1, <3>2
  <2>2. CASE RunStatementsFails(p)
    BY <1>2, <1>3, <2>2 DEF RunStatementsFails, InMigrate, Registers
  <2>3. CASE CommitAnswerLost(p)
    BY <1>2, <1>3, <2>3 DEF CommitAnswerLost, InMigrate, Registers
  <2>4. CASE Crash(p)
    BY <1>1, <1>3, <2>4, LockKept DEF Crash, InMigrate
  <2>5. CASE LoseLock(p)
    BY <2>5 DEF LoseLock
  <2> QED BY <1>10, <2>1, <2>2, <2>3, <2>4, <2>5 DEF Failure
<1> QED BY <1>5, <1>6, <1>7, <1>8, <1>9, <1>10 DEF Step

LEMMA LockNext ==
  ASSUME Postgres, ~LockLoss
  PROVE  TypeInv /\ LockInv /\ [Next]_vars => LockInv'
<1> SUFFICES ASSUME TypeInv, LockInv, [Next]_vars PROVE LockInv'
  OBVIOUS
<1>1. ASSUME UNCHANGED <<pc, my, holders>> PROVE LockInv'
  BY <1>1 DEF LockInv, InMigrate
<1>2. ASSUME NEW k \in Keys, NEW e \in Editions \cup {Nil}, EditScript(k, e)
      PROVE  LockInv'
  BY <1>1, <1>2 DEF EditScript
<1>3. CASE UNCHANGED vars
  BY <1>1, <1>3 DEF vars
<1> QED BY <1>2, <1>3, LockStep DEF Next, Quiet

\* On PostgreSQL, if the server keeps the connection of the lock, two sessions
\* are never inside Migrate at once, however commands fail, crash or overlap with
\* the commands that take no lock.
THEOREM MutuallyExclusive ==
  ASSUME Postgres, ~LockLoss
  PROVE  Spec => []MutualExclusion
<1>1. Init => LockInv
  BY DEF Init, LockInv, InMigrate, LockedSteps
<1>2. LockInv => MutualExclusion
  BY DEF LockInv, MutualExclusion
<1> QED BY <1>1, <1>2, TypeInit, TypeNext, LockNext, PTL DEF Spec

-----------------------------------------------------------------------------
(* At most once.                                                           *)

Once == Versions \ NoTransaction

\* Script k has a successful record among the rows rs.
Recorded(rs, k) == \E x \in rs : x.type = "SQL" /\ x.key = k /\ x.success

\* A pending version has not taken effect: the list was computed from a history
\* that records every effect, and only the holder of the lock adds one.
EffectInv ==
  /\ \A p \in Sessions : pc[p] \in LockedSteps =>
       \A k \in my[p].todo \cap Once : effects[k] = <<>>
  /\ \A k \in Once : effects[k] # <<>> => Recorded(rows, k)
  /\ AtMostOnce

\* A pending version has no record at all.
LEMMA PendingIsUnrecorded ==
  ASSUME NEW res, NEW rs, NEW k \in Versions, k \in Pending(res, rs)
  PROVE  SqlRows(rs, k) = {}
<1>1. VersionedState(res, rs, k) = "Pending" /\ res[k] # Nil
  BY DEF Pending, StateOf
<1>2. CASE IsApplied(rs, k)
  <2>1. VersionedState(res, rs, k) \in {"Success", "Failed"}
    BY <1>1, <1>2 DEF VersionedState
  <2> QED BY <1>1, <2>1
<1> QED BY <1>2 DEF IsApplied

\* Outside ReadForMigrate a list of pending scripts only shrinks.
LEMMA OwnTodo ==
  ASSUME TypeInv, NEW p \in Sessions, ~ReadForMigrate(p),
         (\E c \in Commands : Start(p, c)) \/ Step(p) \/ Failure(p) \/ Load(p)
  PROVE  \/ pc'[p] \notin LockedSteps
         \/ my'[p].todo = {}
         \/ pc[p] \in LockedSteps /\ my'[p].todo \subseteq my[p].todo
<1> USE DEF Goto
<1>1. /\ pc \in [Sessions -> Steps] /\ my \in [Sessions -> Registers]
      /\ Fits(pc[p], my[p])
  BY DEF TypeInv, SessionsOK
<1>2. ASSUME Return(p) PROVE pc'[p] \notin LockedSteps
  BY <1>1, <1>2 DEF Return, LockedSteps
<1>3. CASE \E c \in Commands : Start(p, c)
  <2>1. my[p].todo = {}
    BY <1>1, <1>3 DEF Start, Fits
  <2> QED BY <1>1, <1>3, <2>1 DEF Start, Registers
<1>4. CASE Load(p)
  BY <1>1, <1>4 DEF Load, Loaded
<1>5. CASE SharedStep(p)
  <2>1. pc[p] \in LockedSteps
    BY <1>5 DEF SharedStep, EnsureSchemas, CreateSchema, HistoryExists, LockedSteps,
      CreateHistory, NextInstalledRank, InsertSchemaMarker, InsertBaseline
  <2>2. my'[p].todo = my[p].todo \/ Return(p)
    BY <1>1, <1>5 DEF SharedStep, EnsureSchemas, CreateSchema, HistoryExists,
      CreateHistory, NextInstalledRank, InsertSchemaMarker, InsertBaseline, Registers
  <2> QED BY <1>2, <2>1, <2>2
<1>6. CASE MigrateStep(p)
  <2>1. CASE AcquireLock(p)
    BY <1>1, <2>1 DEF AcquireLock, Fits
  <2>2. CASE BeginMigration(p)
    BY <1>1, <2>2 DEF BeginMigration, Registers, LockedSteps
  <2>3. ASSUME EntryDone(p) PROVE my'[p].todo \subseteq my[p].todo
    BY <1>1, <2>3 DEF EntryDone, Registers
  <2>4. CASE Commit(p) \/ InsertAfterRun(p)
    BY <2>3, <2>4 DEF Commit, InsertAfterRun, LockedSteps
  <2>5. CASE \/ BeforeMigrate(p) \/ AllApplied(p) \/ RunInTransaction(p)
             \/ InsertInTransaction(p) \/ RunStatements(p) \/ AfterMigrate(p)
    BY <2>5 DEF BeforeMigrate, AllApplied, RunInTransaction, InsertInTransaction,
      RunStatements, AfterMigrate, LockedSteps
  <2>6. CASE Release(p)
    BY <1>2, <2>6 DEF Release
  <2> QED BY <1>6, <2>1, <2>2, <2>4, <2>5, <2>6 DEF MigrateStep
<1>7. CASE OtherStep(p)
  <2>1. CASE DeleteFailedRows(p)
    BY <1>1, <2>1 DEF DeleteFailedRows, Fits, OthersOnly
  <2>2. CASE ReadForBaseline(p)
    BY <1>1, <1>2, <2>2 DEF ReadForBaseline, Fits
  <2>3. CASE \/ ReadForRepair(p) \/ UpdateOneChecksum(p) \/ DropSchema(p)
             \/ ListObjects(p) \/ DropObject(p)
    BY <1>1, <2>3 DEF ReadForRepair, UpdateOneChecksum, DropSchema, ListObjects,
      DropObject, LockedSteps
  <2>4. CASE RepairDone(p) \/ RecreateSchema(p) \/ CleanDone(p)
    BY <1>2, <2>4 DEF RepairDone, RecreateSchema, CleanDone
  <2> QED BY <1>7, <2>1, <2>2, <2>3, <2>4 DEF OtherStep
<1>8. CASE Failure(p)
  <2>1. CASE RunStatementsFails(p)
    BY <1>1, <2>1 DEF RunStatementsFails, Registers, LockedSteps
  <2>2. CASE OperationFails(p)
    BY <1>1, <1>2, <2>2 DEF OperationFails, LockedSteps
  <2>3. CASE CommitAnswerLost(p) \/ Crash(p)
    BY <1>1, <2>3 DEF CommitAnswerLost, Crash, LockedSteps
  <2>4. CASE LoseLock(p)
    BY <2>4 DEF LoseLock
  <2> QED BY <1>8, <2>1, <2>2, <2>3, <2>4 DEF Failure
<1> QED BY <1>3, <1>4, <1>5, <1>6, <1>7, <1>8 DEF Step

\* No step but DROP SCHEMA loses a successful record.
LEMMA RecordsKept ==
  ASSUME Postgres, TypeInv, NEW p \in Sessions, ~DropSchema(p), NEW k \in Keys,
         (\E c \in Commands : Start(p, c)) \/ Step(p) \/ Failure(p) \/ Load(p),
         Recorded(rows, k)
  PROVE  Recorded(rows', k)
<1>1. ASSUME rows \subseteq rows' PROVE Recorded(rows', k)
  BY <1>1 DEF Recorded
<1>2. CASE (\E c \in Commands : Start(p, c)) \/ Load(p)
  BY <1>1, <1>2 DEF Start, Load, database
<1>3. CASE SharedStep(p)
  BY <1>1, <1>3 DEF SharedStep, EnsureSchemas, CreateSchema, HistoryExists, database,
    CreateHistory, NextInstalledRank, InsertSchemaMarker, InsertBaseline
<1>4. CASE MigrateStep(p)
  BY <1>1, <1>4 DEF MigrateStep, AcquireLock, ReadForMigrate, BeforeMigrate, database,
    BeginMigration, AllApplied, RunInTransaction, InsertInTransaction, Commit, Committed,
    RunStatements, InsertAfterRun, AfterMigrate, Release
<1>5. CASE OtherStep(p)
  <2>1. CASE DeleteFailedRows(p)
    BY <2>1 DEF DeleteFailedRows, DeleteFailed, Recorded
  <2>2. CASE UpdateOneChecksum(p)
    <3>1. PICK f \in my[p].fixes : rows' = UpdateChecksum(rows, f.rank, f.checksum)
      BY <2>2 DEF UpdateOneChecksum
    <3>2. PICK x \in rows : x.type = "SQL" /\ x.key = k /\ x.success
      BY DEF Recorded
    <3> DEFINE y == IF x.rank = f.rank THEN [x EXCEPT !.checksum = f.checksum] ELSE x
    <3>3. x \in Row
      BY DEF TypeInv, DatabaseOK
    <3>4. y.type = "SQL" /\ y.key = k /\ y.success
      BY <3>2, <3>3 DEF Row
    <3>5. y \in rows'
      BY <3>1 DEF UpdateChecksum
    <3> QED BY <3>4, <3>5 DEF Recorded
  <2>3. CASE DropObject(p)
    BY <2>3 DEF DropObject
  <2>4. CASE \/ ReadForBaseline(p) \/ ReadForRepair(p) \/ RepairDone(p)
             \/ RecreateSchema(p) \/ ListObjects(p) \/ CleanDone(p)
    BY <1>1, <2>4 DEF ReadForBaseline, ReadForRepair, RepairDone, RecreateSchema,
      ListObjects, CleanDone, database
  <2> QED BY <1>5, <2>1, <2>2, <2>3, <2>4 DEF OtherStep
<1>6. CASE Failure(p)
  BY <1>1, <1>6 DEF Failure, OperationFails, RunStatementsFails, CommitAnswerLost,
    Committed, Crash, LoseLock, database
<1> QED BY <1>2, <1>3, <1>4, <1>5, <1>6 DEF Step

\* Only a commit adds an effect of a transactional script, and only DROP SCHEMA
\* removes effects.
LEMMA EffectsKept ==
  ASSUME Postgres, TypeInv, NEW p \in Sessions,
         ~DropSchema(p), ~Commit(p), ~CommitAnswerLost(p), NEW k \in Once,
         (\E c \in Commands : Start(p, c)) \/ Step(p) \/ Failure(p) \/ Load(p)
  PROVE  effects'[k] = effects[k]
<1>2. CASE (\E c \in Commands : Start(p, c)) \/ Load(p)
  BY <1>2 DEF Start, Load, database
<1>3. CASE SharedStep(p)
  BY <1>3 DEF SharedStep, EnsureSchemas, CreateSchema, HistoryExists, database,
    CreateHistory, NextInstalledRank, InsertSchemaMarker, InsertBaseline
<1>4. CASE MigrateStep(p)
  <2>1. CASE RunStatements(p)
    <3>1. Fits("run", my[p])
      BY <2>1 DEF TypeInv, SessionsOK, RunStatements
    <3>2. k # my[p].cur
      BY <3>1 DEF Fits, Once
    <3> QED BY <2>1, <3>2 DEF RunStatements, TypeInv, DatabaseOK, Once, Keys
  <2>2. CASE ~RunStatements(p)
    BY <1>4, <2>2 DEF MigrateStep, AcquireLock, ReadForMigrate, BeforeMigrate, database,
      BeginMigration, AllApplied, RunInTransaction, InsertInTransaction,
      InsertAfterRun, AfterMigrate, Release
  <2> QED BY <2>1, <2>2
<1>5. CASE OtherStep(p)
  BY <1>5 DEF OtherStep, ReadForBaseline, DeleteFailedRows, ReadForRepair,
    UpdateOneChecksum, RepairDone, RecreateSchema, ListObjects, DropObject, CleanDone,
    database
<1>6. CASE Failure(p)
  BY <1>6 DEF Failure, OperationFails, RunStatementsFails, Crash, LoseLock, database
<1> QED BY <1>2, <1>3, <1>4, <1>5, <1>6 DEF Step

\* While p is inside Migrate, every other session's list is empty before release.
LEMMA OthersHaveNothingToDo ==
  ASSUME TypeInv, LockInv, NEW p \in Sessions, InMigrate(p),
         NEW q \in Sessions, q # p, pc[q] \in LockedSteps
  PROVE  my[q].todo = {}
<1>1. my[q].cmd # "migrate"
  BY DEF LockInv, InMigrate
<1> QED BY <1>1 DEF TypeInv, SessionsOK, Fits

\* A commit: its script was pending, so this is its first effect.
LEMMA EffectCommitted ==
  ASSUME Postgres, TypeInv, LockInv, EffectInv, NEW p \in Sessions,
         Commit(p) \/ CommitAnswerLost(p)
  PROVE  EffectInv'
<1> DEFINE c == my[p].cur
<1>1. pc[p] = "txCommit" /\ Committed(p)
  BY DEF Commit, CommitAnswerLost
<1>2. c \in Keys /\ c \in my[p].todo /\ my[p].cmd = "migrate" /\ my[p].text \in Editions
  BY <1>1, Registered DEF TypeInv, SessionsOK, Fits, Applying, MigrateOnly
<1>3. InMigrate(p) /\ pc[p] \in LockedSteps
  BY <1>1, <1>2 DEF InMigrate, LockedSteps
<1>4. effects \in [Keys -> Seq(Editions)]
  BY DEF TypeInv, DatabaseOK
<1>5. effects' = [effects EXCEPT ![c] = Append(effects[c], my[p].text)]
  BY <1>1 DEF Committed
<1>6. \A k \in Keys : k # c => effects'[k] = effects[k]
  BY <1>2, <1>4, <1>5
<1>7. ASSUME NEW q \in Sessions, pc'[q] \in LockedSteps, NEW k \in my'[q].todo \cap Once
      PROVE  effects'[k] = <<>>
  <2>1. CASE q = p
    <3>1. Commit(p)
      BY <1>7, <2>1 DEF CommitAnswerLost, Goto, LockedSteps, TypeInv, SessionsOK
    <3>2. my'[p].todo = my[p].todo \ {c}
      BY <3>1 DEF Commit, EntryDone, TypeInv, SessionsOK, Registers
    <3>3. k \in my[p].todo /\ k # c /\ effects[k] = <<>>
      BY <1>3, <1>7, <2>1, <3>2 DEF EffectInv
    <3> QED BY <1>6, <3>3, <1>7 DEF Once, Keys
  <2>2. CASE q # p
    <3>1. pc'[q] = pc[q] /\ my'[q] = my[q]
      BY <2>2, OthersUnchanged DEF TypeInv, Step, MigrateStep, Failure
    <3>2. my[q].todo = {}
      BY <1>3, <1>7, <2>2, <3>1, OthersHaveNothingToDo
    <3> QED BY <1>7, <3>1, <3>2
  <2> QED BY <2>1, <2>2
<1>8. ASSUME NEW k \in Once, effects'[k] # <<>> PROVE Recorded(rows', k)
  <2>1. CASE k = c
    <3> DEFINE x == SqlRow(my[p].rank, c, my[p].res[c], TRUE)
    <3>1. x.type = "SQL" /\ x.key = c /\ x.success
      BY DEF SqlRow
    <3>2. x \in rows'
      BY <1>1 DEF Committed
    <3> QED BY <2>1, <3>1, <3>2 DEF Recorded
  <2>2. CASE k # c
    BY <1>1, <1>6, <1>8, <2>2 DEF Once, Keys, EffectInv, Committed, Recorded
  <2> QED BY <2>1, <2>2
<1>9. ASSUME NEW k \in Once PROVE Len(effects'[k]) <= 1
  <2>1. CASE k = c
    <3>1. effects[c] = <<>>
      BY <1>2, <1>3, <2>1 DEF EffectInv
    <3>2. effects'[c] = Append(<<>>, my[p].text)
      BY <1>2, <1>4, <1>5, <3>1
    <3> QED BY <1>2, <2>1, <3>2
  <2>2. CASE k # c
    BY <1>6, <2>2 DEF Once, Keys, EffectInv, AtMostOnce
  <2> QED BY <2>1, <2>2
<1> QED BY <1>7, <1>8, <1>9 DEF EffectInv, AtMostOnce, Once

\* Every other step of a session.
LEMMA EffectStep ==
  ASSUME Postgres, TypeInv, LockInv, EffectInv, NEW p \in Sessions,
         (\E c \in Commands : Start(p, c)) \/ Step(p) \/ Failure(p) \/ Load(p),
         ~Commit(p), ~CommitAnswerLost(p), ~DropSchema(p)
  PROVE  EffectInv'
<1>1. \A k \in Once : effects'[k] = effects[k]
  BY EffectsKept
<1>2. \A k \in Once : Recorded(rows, k) => Recorded(rows', k)
  BY RecordsKept DEF Once, Keys
<1>3. ASSUME NEW q \in Sessions, pc'[q] \in LockedSteps, NEW k \in my'[q].todo \cap Once
      PROVE  effects[k] = <<>>
  <2>1. CASE q # p
    <3>1. pc'[q] = pc[q] /\ my'[q] = my[q]
      BY <2>1, OthersUnchanged DEF TypeInv
    <3> QED BY <1>3, <3>1 DEF EffectInv
  <2>2. CASE q = p /\ ~ReadForMigrate(p)
    <3>1. \/ my'[p].todo = {}
          \/ pc[p] \in LockedSteps /\ my'[p].todo \subseteq my[p].todo
      BY <1>3, <2>2, OwnTodo
    <3> QED BY <1>3, <2>2, <3>1 DEF EffectInv
  <2>3. CASE q = p /\ ReadForMigrate(p)
    <3>1. pc'[p] = "before" /\ my' = [my EXCEPT ![p].todo = Pending(my[p].res, rows)]
      BY <1>3, <2>3 DEF ReadForMigrate, Goto, LockedSteps, TypeInv, SessionsOK
    <3>2. my'[p].todo = Pending(my[p].res, rows)
      BY <3>1 DEF TypeInv, SessionsOK, Registers
    <3>3. SqlRows(rows, k) = {}
      BY <1>3, <2>3, <3>2, PendingIsUnrecorded DEF Once
    <3>4. ~Recorded(rows, k)
      BY <3>3 DEF SqlRows, Recorded
    <3> QED BY <1>3, <3>4 DEF EffectInv
  <2> QED BY <2>1, <2>2, <2>3
<1> QED BY <1>1, <1>2, <1>3 DEF EffectInv, AtMostOnce, Once

LEMMA EffectNext ==
  ASSUME Postgres
  PROVE  TypeInv /\ LockInv /\ EffectInv /\ [Next]_vars => EffectInv'
<1> SUFFICES ASSUME TypeInv, LockInv, EffectInv, [Next]_vars PROVE EffectInv'
  OBVIOUS
<1>1. ASSUME NEW p \in Sessions, DropSchema(p) PROVE EffectInv'
  <2>1. \A k \in Once : effects'[k] = <<>>
    BY <1>1 DEF DropSchema, NoEffects, Once, Keys
  <2> QED BY <2>1 DEF EffectInv, AtMostOnce, Once
<1>2. ASSUME UNCHANGED <<pc, my, database>> PROVE EffectInv'
  BY <1>2 DEF EffectInv, AtMostOnce, Recorded, database
<1>3. ASSUME NEW k \in Keys, NEW e \in Editions \cup {Nil}, EditScript(k, e)
      PROVE  EffectInv'
  BY <1>2, <1>3 DEF EditScript
<1>4. CASE UNCHANGED vars
  BY <1>2, <1>4 DEF vars
<1> QED BY <1>1, <1>3, <1>4, EffectCommitted, EffectStep DEF Next, Quiet

\* On PostgreSQL, if the server keeps the connection of the lock, a transactional
\* versioned migration takes effect at most once between two cleans.  The lock
\* alone does not give it: it takes that the history, read under the lock, records
\* every effect, which statement and record committing together provide, and that
\* Repair deletes no successful record.
THEOREM AppliedAtMostOnce ==
  ASSUME Postgres, ~LockLoss
  PROVE  Spec => []AtMostOnce
<1>1. Init => LockInv
  BY DEF Init, LockInv, InMigrate, LockedSteps
<1>2. Init => EffectInv
  BY DEF Init, EffectInv, AtMostOnce, NoEffects, Once, Keys, LockedSteps
<1>3. EffectInv => AtMostOnce
  BY DEF EffectInv
<1> QED
  BY <1>1, <1>2, <1>3, TypeInit, TypeNext, LockNext, EffectNext, PTL DEF Spec

=============================================================================
