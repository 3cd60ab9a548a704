---------------------------- MODULE MigrateProofs ----------------------------
(***************************************************************************)
(* Theorems about what Migrate decides when it is alone: the pending list  *)
(* is computed from a history that only its session adds scripts to, so    *)
(* what was true of it when it was read is still true when a script is     *)
(* recorded.  It is alone under PostgreSQL's lock, or on either dialect if *)
(* commands are issued one at a time.                                      *)
(***************************************************************************)
EXTENDS RecordProofs

-----------------------------------------------------------------------------
(* The invariants.                                                         *)

\* Nothing but Migrate's own session records scripts while it runs.
Exclusive == OneAtATime \/ (Postgres /\ ~LockLoss)
Guarded == OneAtATime \/ LockInv

\* Migrate has read the history and may still apply scripts.
Past == {"before", "next", "after"} \cup Applying

\* The record p is about to insert goes above every script's record, and its
\* script is the first that is left.
TopInv ==
  /\ \A p \in Sessions : pc[p] \in {"txInsert", "txCommit", "runInsert"} =>
       \A x \in rows : x.type = "SQL" => x.rank < my[p].rank
  /\ \A p \in Sessions : pc[p] \in Applying => LeastOf(p, my[p].cur)

\* No version has failed while a session may still apply scripts.
BlockInv ==
  /\ FailureBlocks
  /\ \A p \in Sessions : pc[p] \in Past => \A x \in rows : ~IsFailure(x)

\* What a session has left to apply is above every version that was applied.
OrderInv ==
  /\ OrderedHistory
  /\ \A p \in Sessions : pc[p] \in Past =>
       \A k \in my[p].todo \cap Versions, x \in rows :
         IsRun(x) /\ x.key \in Versions => x.key < k

\* Every script but those that are left to apply is settled.
SettledInv ==
  /\ SuccessMeansUpToDate
  /\ \A x \in rows : x.type = "SQL" /\ ~x.success => x.key \in NoTransaction
  /\ \A x \in rows : x.type = "BASELINE" => x.key = BaselineVersion
  /\ \A p \in Sessions :
       /\ pc[p] \in {"run", "runRank", "runInsert"} /\ my[p].failed => ~my[p].ok
       /\ pc[p] = "after" => my[p].todo = {}
       /\ pc[p] \in Past =>
            \A k \in Keys \ my[p].todo :
              my[p].res[k] # Nil => IsSettled(my[p].res, rows, k)

\* What a session has left to apply is still pending.
PendingInv ==
  /\ FailureIsNotLost
  /\ \A p \in Sessions :
       /\ my[p].failed => pc[p] \in {"runRank", "runInsert", "release"}
       /\ pc[p] \in Past => my[p].todo \cap Versions \subseteq Pending(my[p].res, rows)

\* Nobody has the lock, or is inside Migrate, at the start.
LEMMA GuardedInit == Init => Guarded
BY DEF Init, Guarded, LockInv, InMigrate, LockedSteps

\* Whoever is inside Migrate stays alone there.
LEMMA GuardedNext ==
  ASSUME Exclusive
  PROVE  TypeInv /\ Guarded /\ [Next]_vars => Guarded'
<1>1. CASE OneAtATime
  BY <1>1 DEF Guarded
<1>2. CASE Postgres /\ ~LockLoss /\ ~OneAtATime
  BY <1>2, LockNext DEF Guarded
<1> QED BY <1>1, <1>2 DEF Exclusive

-----------------------------------------------------------------------------
(* What a step of a session does to the records of scripts.                *)

\* Session p records the script it applies.
Adds(p) == Commits(p) \/ InsertAfterRun(p)
NewRow(p, ok) == SqlRow(my[p].rank, my[p].cur, my[p].res[my[p].cur], ok)

\* y is the record x, though its checksum may have been realigned.
Shadows(y, x) ==
  y.rank = x.rank /\ y.type = x.type /\ y.key = x.key /\ y.success = x.success

\* Repair's update does no more than that.
LEMMA UpdateShadows ==
  ASSUME NEW rs, rs \subseteq Row, NEW n, NEW c, NEW y \in UpdateChecksum(rs, n, c)
  PROVE  \E x \in rs : Shadows(y, x)
<1>1. PICK x \in rs : y.rank = x.rank /\ y.type = x.type /\ y.key = x.key
                      /\ y.success = x.success
  BY UpdateKeeps
<1> QED BY <1>1 DEF Shadows

\* The record that is added, and who adds it.
LEMMA RecordAdded ==
  ASSUME TypeInv, NEW p \in Sessions, Adds(p)
  PROVE  /\ pc[p] \in Applying /\ pc[p] \in {"txCommit", "runInsert"} /\ InMigrate(p)
         /\ my[p].cur \in Keys /\ my[p].cur \in my[p].todo
         /\ \E ok \in BOOLEAN :
              /\ rows' = rows \cup {NewRow(p, ok)}
              /\ NewRow(p, ok).rank = my[p].rank /\ NewRow(p, ok).type = "SQL"
              /\ NewRow(p, ok).key = my[p].cur /\ NewRow(p, ok).success = ok
              /\ NewRow(p, ok).checksum = Checksum(my[p].cur, my[p].res[my[p].cur])
              /\ NewRow(p, ok).title = TitleOf[my[p].res[my[p].cur]]
              /\ Commits(p) => ok
              /\ InsertAfterRun(p) => ok = ~my[p].failed /\ my[p].cur \in NoTransaction
<1>1. pc[p] \in Applying /\ pc[p] \in {"txCommit", "runInsert"}
  BY DEF Adds, Commits, Commit, CommitAnswerLost, InsertAfterRun, Applying
<1>2. Fits(pc[p], my[p]) /\ my[p].cur \in Keys /\ my[p] \in Registers
  BY <1>1, Registered DEF TypeInv, SessionsOK
<1>3. /\ my[p].cur \in my[p].todo /\ my[p].cmd = "migrate"
      /\ pc[p] = "runInsert" => my[p].cur \in NoTransaction
  BY <1>1, <1>2 DEF Fits, MigrateOnly
<1>4. InMigrate(p)
  BY <1>1, <1>3 DEF InMigrate, LockedSteps
<1>5. \A ok : /\ NewRow(p, ok).rank = my[p].rank /\ NewRow(p, ok).type = "SQL"
              /\ NewRow(p, ok).key = my[p].cur /\ NewRow(p, ok).success = ok
              /\ NewRow(p, ok).checksum = Checksum(my[p].cur, my[p].res[my[p].cur])
              /\ NewRow(p, ok).title = TitleOf[my[p].res[my[p].cur]]
  BY DEF NewRow, SqlRow
<1>6. CASE Commits(p)
  <2>1. rows' = rows \cup {NewRow(p, TRUE)} /\ ~InsertAfterRun(p)
    BY <1>6 DEF Commits, Commit, CommitAnswerLost, Committed, NewRow, InsertAfterRun
  <2> QED BY <1>1, <1>2, <1>3, <1>4, <1>5, <2>1
<1>7. CASE InsertAfterRun(p)
  <2>1. /\ rows' = rows \cup {NewRow(p, ~my[p].failed)} /\ ~Commits(p)
        /\ pc[p] = "runInsert"
    BY <1>7 DEF Commits, Commit, CommitAnswerLost, NewRow, InsertAfterRun
  <2>2. (~my[p].failed) \in BOOLEAN
    OBVIOUS
  <2> QED BY <1>1, <1>2, <1>3, <1>4, <1>5, <2>1, <2>2
<1> QED BY <1>6, <1>7 DEF Adds

\* No other step adds a script's record, whoever takes it.
LEMMA NoRecordAdded ==
  ASSUME TypeInv, NEW p \in Sessions, Acts(p), ~Adds(p), NEW y \in rows', y.type = "SQL"
  PROVE  \E x \in rows : Shadows(y, x)
<1>0. rows \subseteq Row
  BY DEF TypeInv, DatabaseOK
<1>1. CASE y \in rows
  BY <1>1 DEF Shadows
<1>2. CASE UpdateOneChecksum(p)
  <2>1. PICK f \in my[p].fixes : rows' = UpdateChecksum(rows, f.rank, f.checksum)
    BY <1>2 DEF UpdateOneChecksum
  <2>2. y \in UpdateChecksum(rows, f.rank, f.checksum)
    BY <2>1
  <2> QED BY <1>0, <2>2, UpdateShadows
<1>3. CASE y \notin rows /\ ~UpdateOneChecksum(p)
  <2>1. CASE InsertSchemaMarker(p) \/ InsertBaseline(p)
    BY <1>3, <2>1 DEF InsertSchemaMarker, InsertBaseline, SchemaRow, BaselineRow
  <2>2. CASE DeleteFailedRows(p) \/ Drops(p)
    BY <1>3, <2>2, DeleteKeeps DEF DeleteFailedRows, Drops, DropSchema, DropObject
  <2> QED BY <1>3, <2>1, <2>2, RowChanges DEF Adds
<1> QED BY <1>1, <1>2, <1>3

\* While p is inside Migrate nobody else records a script.
LEMMA OthersAddNothing ==
  ASSUME TypeInv, Guarded, NEW p \in Sessions, InMigrate(p), NEW q \in Sessions, q # p
  PROVE  ~Adds(q)
BY RecordAdded DEF Guarded, LockInv, OneAtATime

\* Past the read a session is inside Migrate.
LEMMA PastIsInMigrate ==
  ASSUME TypeInv, NEW p \in Sessions, pc[p] \in Past \/ pc[p] = "release"
  PROVE  InMigrate(p) /\ my[p].cmd = "migrate"
<1>1. Fits(pc[p], my[p]) /\ pc[p] \in MigrateOnly
  BY DEF TypeInv, SessionsOK, Past, MigrateOnly
<1> QED BY <1>1 DEF Fits, InMigrate, Past, Applying, LockedSteps

-----------------------------------------------------------------------------
(* What a step does to its own session past the read.                      *)

\* A session comes past the read with the list it just computed ...
LEMMA ReadStep ==
  ASSUME TypeInv, NEW p \in Sessions, ReadForMigrate(p), pc'[p] \in Past
  PROVE  /\ pc'[p] = "before" /\ rows' = rows
         /\ my' = [my EXCEPT ![p].todo = Pending(my[p].res, rows)]
         /\ my'[p].res = my[p].res /\ my'[p].todo = Pending(my[p].res, rows)
         /\ my'[p].failed = my[p].failed
         /\ ValidateOnMigrate => FailedKeys(my[p].res, rows) = {}
<1>1. my \in [Sessions -> Registers] /\ pc \in [Sessions -> Steps]
  BY DEF TypeInv, SessionsOK
<1>2. ~(ValidateOnMigrate /\ Problems(my[p].res, rows, TRUE) # {})
  BY <1>1 DEF ReadForMigrate, Goto, Past, Applying
<1>3. /\ pc'[p] = "before" /\ my' = [my EXCEPT ![p].todo = Pending(my[p].res, rows)]
      /\ rows' = rows
  BY <1>1, <1>2 DEF ReadForMigrate, Goto, database
<1>4. /\ my'[p].res = my[p].res /\ my'[p].todo = Pending(my[p].res, rows)
      /\ my'[p].failed = my[p].failed
  BY <1>1, <1>3 DEF Registers
<1> QED BY <1>2, <1>3, <1>4, ReportedProblems

\* ... and goes on with what is left of it: a script that is recorded is struck off.
LEMMA PastStep ==
  ASSUME TypeInv, NEW p \in Sessions, Acts(p), pc'[p] \in Past, ~ReadForMigrate(p)
  PROVE  /\ pc[p] \in Past /\ my'[p].res = my[p].res
         /\ \/ my'[p].todo = my[p].todo /\ ~Adds(p) /\ rows' = rows
            \/ /\ Adds(p) /\ (InsertAfterRun(p) => ~my[p].failed)
               /\ my'[p].todo = my[p].todo \ {my[p].cur}
               /\ pc'[p] = "next" /\ ~my'[p].failed = ~my[p].failed
<1> USE DEF Goto, Return, Past, Applying
<1>0. /\ pc \in [Sessions -> Steps] /\ my \in [Sessions -> Registers]
      /\ my[p] \in Registers /\ Fits(pc[p], my[p])
  BY DEF TypeInv, SessionsOK
<1>1. ASSUME NEW c \in Commands, Start(p, c) PROVE FALSE
  BY <1>0, <1>1, ConfigurationAssumption DEF Start
<1>2. CASE Load(p)
  BY <1>0, <1>2 DEF Load
<1>3. CASE SharedStep(p)
  <2>1. CASE NextInstalledRank(p)
    <3>1. PICK n \in Ranks : my' = [my EXCEPT ![p].rank = n]
      BY <2>1 DEF NextInstalledRank
    <3>2. pc[p] \in {"txRank", "runRank"} /\ rows' = rows
      BY <1>0, <2>1 DEF NextInstalledRank, database
    <3>3. ~Adds(p)
      BY <3>2 DEF Adds, Commits, Commit, CommitAnswerLost, InsertAfterRun
    <3> QED BY <1>0, <3>1, <3>2, <3>3 DEF Registers
  <2>2. CASE ~NextInstalledRank(p)
    BY <1>0, <1>3, <2>2 DEF SharedStep, EnsureSchemas, CreateSchema, HistoryExists,
      CreateHistory, InsertSchemaMarker, InsertBaseline, AfterCreate, AfterMark
  <2> QED BY <2>1, <2>2
<1>4. CASE MigrateStep(p)
  <2>1. CASE BeginMigration(p)
    <3>1. PICK k \in Keys : my' = [my EXCEPT ![p].cur = k, ![p].text = TextOf(p, k),
                                            ![p].failed = FALSE]
      BY <2>1 DEF BeginMigration
    <3>2. pc[p] = "next" /\ rows' = rows
      BY <2>1 DEF BeginMigration, database
    <3>3. ~Adds(p)
      BY <3>2 DEF Adds, Commits, Commit, CommitAnswerLost, InsertAfterRun
    <3> QED BY <1>0, <3>1, <3>2, <3>3 DEF Registers
  <2>2. CASE Commit(p) \/ InsertAfterRun(p)
    <3>1. EntryDone(p) /\ pc'[p] = "next" /\ (InsertAfterRun(p) => ~my[p].failed)
            /\ pc[p] \in Past
      BY <1>0, <2>2 DEF Commit, InsertAfterRun
    <3>2. /\ my'[p].todo = my[p].todo \ {my[p].cur} /\ my'[p].res = my[p].res
          /\ my'[p].failed = my[p].failed
      BY <1>0, <3>1 DEF EntryDone, Registers
    <3> QED BY <2>2, <3>1, <3>2 DEF Adds, Commits
  <2>3. CASE \/ BeforeMigrate(p) \/ AllApplied(p) \/ RunInTransaction(p)
             \/ InsertInTransaction(p) \/ RunStatements(p)
    <3>1. pc[p] \in Past /\ my' = my /\ rows' = rows /\ pc[p] \notin {"txCommit", "runInsert"}
      BY <2>3 DEF BeforeMigrate, AllApplied, RunInTransaction, InsertInTransaction,
        RunStatements, database
    <3> QED BY <3>1 DEF Adds, Commits, Commit, CommitAnswerLost, InsertAfterRun
  <2>4. CASE AcquireLock(p) \/ AfterMigrate(p) \/ Release(p)
    BY <1>0, <2>4 DEF AcquireLock, AfterMigrate, Release
  <2> QED BY <1>4, <2>1, <2>2, <2>3, <2>4 DEF MigrateStep
<1>5. CASE OtherStep(p)
  BY <1>0, <1>5 DEF OtherStep, ReadForBaseline, DeleteFailedRows, ReadForRepair,
    UpdateOneChecksum, RepairDone, DropSchema, RecreateSchema, ListObjects,
    DropObject, CleanDone
<1>6. CASE Failure(p)
  <2>1. CASE RunStatementsFails(p)
    <3>1. /\ pc[p] = "run" /\ rows' = rows
          /\ my' = [my EXCEPT ![p].failed = TRUE, ![p].ok = FALSE]
      BY <2>1 DEF RunStatementsFails, database
    <3>2. ~Adds(p)
      BY <3>1 DEF Adds, Commits, Commit, CommitAnswerLost, InsertAfterRun
    <3> QED BY <1>0, <3>1, <3>2 DEF Registers
  <2>2. CASE LoseLock(p)
    <3>1. pc' = pc /\ my' = my /\ rows' = rows /\ holders' # holders
      BY <2>2 DEF LoseLock, database
    <3> QED BY <3>1 DEF Adds, Commits, Commit, CommitAnswerLost, InsertAfterRun
  <2>3. CASE OperationFails(p) \/ CommitAnswerLost(p) \/ Crash(p)
    BY <1>0, <2>3 DEF OperationFails, CommitAnswerLost, Crash
  <2> QED BY <1>6, <2>1, <2>2, <2>3 DEF Failure
<1> QED BY <1>1, <1>2, <1>3, <1>4, <1>5, <1>6 DEF Acts, Step

-----------------------------------------------------------------------------
(* The record that is added is the last one.                               *)

\* A session's own step to an insert or towards one.
LEMMA ToInsert ==
  ASSUME TypeInv, NEW p \in Sessions, Acts(p),
         pc'[p] \in {"txInsert", "txCommit", "runInsert"}
  PROVE  \/ NextInstalledRank(p)
         \/ /\ pc[p] \in {"txInsert", "txCommit", "runInsert"}
            /\ my'[p].rank = my[p].rank /\ rows' = rows
<1> USE DEF Goto, Return
<1>0. /\ pc \in [Sessions -> Steps] /\ my \in [Sessions -> Registers]
      /\ my[p] \in Registers
  BY DEF TypeInv, SessionsOK
<1>1. ASSUME NEW c \in Commands, Start(p, c) PROVE FALSE
  BY <1>0, <1>1, ConfigurationAssumption DEF Start
<1>2. CASE Load(p)
  BY <1>0, <1>2 DEF Load
<1>3. CASE SharedStep(p)
  BY <1>0, <1>3 DEF SharedStep, EnsureSchemas, CreateSchema, HistoryExists, CreateHistory,
    InsertSchemaMarker, InsertBaseline, AfterCreate, AfterMark
<1>4. CASE MigrateStep(p)
  BY <1>0, <1>4 DEF MigrateStep, AcquireLock, ReadForMigrate, BeforeMigrate, BeginMigration,
    AllApplied, RunInTransaction, InsertInTransaction, Commit, RunStatements,
    InsertAfterRun, AfterMigrate, Release, database
<1>5. CASE OtherStep(p)
  BY <1>0, <1>5 DEF OtherStep, ReadForBaseline, DeleteFailedRows, ReadForRepair,
    UpdateOneChecksum, RepairDone, DropSchema, RecreateSchema, ListObjects,
    DropObject, CleanDone
<1>6. CASE Failure(p)
  BY <1>0, <1>6 DEF Failure, OperationFails, RunStatementsFails, CommitAnswerLost, Crash,
    LoseLock, database
<1> QED BY <1>1, <1>2, <1>3, <1>4, <1>5, <1>6 DEF Acts, Step

\* Every step keeps the rank to insert above all records, and the script in hand the
\* least of those left.
LEMMA TopStep ==
  ASSUME TypeInv, Guarded, TopInv, NEW p \in Sessions, Acts(p)
  PROVE  TopInv'
<1>0. /\ SessionsOK /\ pc \in [Sessions -> Steps] /\ my \in [Sessions -> Registers]
      /\ rows \subseteq Row
  BY DEF TypeInv, SessionsOK, DatabaseOK
<1> DEFINE Insert == {"txInsert", "txCommit", "runInsert"}
<1>1. ASSUME NEW q \in Sessions, pc'[q] \in Insert, NEW y \in rows', y.type = "SQL"
      PROVE  y.rank < my'[q].rank
  <2>1. CASE q # p
    <3>1. pc'[q] = pc[q] /\ my'[q] = my[q]
      BY <1>0, <2>1, OthersUnchanged DEF Acts
    <3>2. InMigrate(q)
      BY <1>1, <3>1, PastIsInMigrate DEF Past, Applying
    <3>3. PICK x \in rows : Shadows(y, x)
      BY <1>1, <2>1, <3>2, OthersAddNothing, NoRecordAdded
    <3> QED BY <1>1, <3>1, <3>3 DEF TopInv, Shadows
  <2>2. CASE q = p /\ NextInstalledRank(p)
    <3>1. PICK n \in Ranks : IsNextRank(rows, n) /\ my' = [my EXCEPT ![p].rank = n]
      BY <2>2 DEF NextInstalledRank
    <3>2. rows' = rows
      BY <2>2 DEF NextInstalledRank, database
    <3>3. my'[p].rank = n
      BY <1>0, <3>1 DEF Registers
    <3> QED BY <1>1, <2>2, <3>1, <3>2, <3>3 DEF IsNextRank
  <2>3. CASE q = p /\ ~NextInstalledRank(p)
    BY <1>1, <2>3, ToInsert DEF TopInv
  <2> QED BY <2>1, <2>2, <2>3
<1>2. ASSUME NEW q \in Sessions, pc'[q] \in Applying PROVE LeastOf(q, my[q].cur)'
  <2>1. CASE q # p
    <3>1. pc'[q] = pc[q] /\ my'[q] = my[q]
      BY <1>0, <2>1, OthersUnchanged DEF Acts
    <3> QED BY <1>2, <3>1 DEF TopInv, LeastOf
  <2>2. CASE q = p /\ BeginMigration(p)
    <3>1. PICK k \in Keys : /\ LeastOf(p, k)
                            /\ my' = [my EXCEPT ![p].cur = k, ![p].text = TextOf(p, k),
                                                ![p].failed = FALSE]
      BY <2>2 DEF BeginMigration
    <3>2. my'[p].cur = k /\ my'[p].todo = my[p].todo
      BY <1>0, <3>1 DEF Registers
    <3> QED BY <2>2, <3>1, <3>2 DEF LeastOf
  <2>3. CASE q = p /\ ~BeginMigration(p)
    BY <1>0, <1>2, <2>3, ToApplying DEF TopInv, LeastOf
  <2> QED BY <2>1, <2>2, <2>3
<1> QED BY <1>1, <1>2 DEF TopInv

\* Every step there is does.
LEMMA TopNext == TypeInv /\ Guarded /\ TopInv /\ [Next]_vars => TopInv'
<1> SUFFICES ASSUME TypeInv, Guarded, TopInv, [Next]_vars PROVE TopInv'
  OBVIOUS
<1>1. CASE UNCHANGED <<pc, my, holders, database>>
  BY <1>1 DEF TopInv, LeastOf, database
<1> QED BY <1>1, NextActs, TopStep

\* No script is in hand at first.
LEMMA TopInit == Init => TopInv
BY DEF Init, TopInv, Applying

-----------------------------------------------------------------------------
(* A failure blocks.                                                       *)

\* A version's failed record is the last word on it, so validation reports it.
LEMMA FailureIsReported ==
  ASSUME TypeInv, RankInv, FailureBlocks, NEW x \in rows, IsFailure(x), NEW res
  PROVE  FailedKeys(res, rows) # {}
<1>1. rows \subseteq Row /\ Unique(rows) /\ x.key \in Keys
  BY DEF TypeInv, DatabaseOK, RankInv, IsFailure
<1>2. IsLatest(x, SqlRows(rows, x.key))
  BY DEF IsLatest, SqlRows, IsFailure, FailureBlocks
<1>3. IsApplied(rows, x.key) /\ AppliedRow(rows, x.key) = x
  BY <1>1, <1>2, LatestIsApplied
<1>4. x.key \in FailedKeys(res, rows)
  BY <1>1, <1>3, ReportedFailures DEF IsFailure
<1> QED BY <1>4

\* Every step keeps a failure the last record, and Migrate from going on after one.
LEMMA BlockStep ==
  ASSUME ValidateOnMigrate, TypeInv, Guarded, RankInv, TopInv, BlockInv,
         NEW p \in Sessions, Acts(p)
  PROVE  BlockInv'
<1>0. /\ SessionsOK /\ pc \in [Sessions -> Steps] /\ my \in [Sessions -> Registers]
      /\ rows \subseteq Row
  BY DEF TypeInv, SessionsOK, DatabaseOK
<1>1. ASSUME NEW q \in Sessions, pc'[q] \in Past, NEW y \in rows', IsFailure(y)
      PROVE  FALSE
  <2>1. CASE q # p
    <3>1. pc'[q] = pc[q]
      BY <1>0, <2>1, OthersUnchanged DEF Acts
    <3>2. PICK x \in rows : Shadows(y, x)
      BY <1>1, <2>1, <3>1, PastIsInMigrate, OthersAddNothing, NoRecordAdded DEF IsFailure
    <3> QED BY <1>1, <3>1, <3>2 DEF BlockInv, Shadows, IsFailure
  <2>2. CASE q = p /\ ReadForMigrate(p)
    BY <1>1, <2>2, ReadStep, FailureIsReported DEF BlockInv
  <2>3. CASE q = p /\ ~ReadForMigrate(p)
    <3>1. pc[p] \in Past /\ (Adds(p) => (InsertAfterRun(p) => ~my[p].failed))
            /\ (~Adds(p) => rows' = rows)
      BY <1>1, <2>3, PastStep
    <3>2. CASE Adds(p)
      BY <1>1, <3>1, <3>2, RecordAdded DEF BlockInv, IsFailure, Adds
    <3> QED BY <1>1, <3>1, <3>2 DEF BlockInv
  <2> QED BY <2>1, <2>2, <2>3
<1>2. FailureBlocks'
  <2> SUFFICES ASSUME NEW x \in rows', NEW y \in rows', IsFailure(x), y.type = "SQL"
               PROVE  y.rank <= x.rank
    BY DEF FailureBlocks, IsFailure
  <2>1. CASE ~Adds(p)
    <3>1. PICK a \in rows : Shadows(x, a)
      BY <2>1, NoRecordAdded DEF IsFailure
    <3>2. PICK b \in rows : Shadows(y, b)
      BY <2>1, NoRecordAdded
    <3> QED BY <3>1, <3>2 DEF Shadows, BlockInv, FailureBlocks, IsFailure
  <2>2. CASE Adds(p)
    <3>1. PICK ok \in BOOLEAN : /\ rows' = rows \cup {NewRow(p, ok)}
                                /\ NewRow(p, ok).rank = my[p].rank
      BY <2>2, RecordAdded
    <3>2. \A z \in rows : z.type = "SQL" => z.rank < my[p].rank
      BY <2>2, RecordAdded DEF TopInv
    <3>3. x = NewRow(p, ok)
      BY <2>2, <3>1, RecordAdded DEF BlockInv, Past
    <3>4. my[p].rank \in Int /\ \A z \in rows : z.rank \in Int
      BY <1>0, MaxRankAssumption DEF Registers, Row, Ranks
    <3> QED BY <3>1, <3>2, <3>3, <3>4
  <2> QED BY <2>1, <2>2
<1> QED BY <1>1, <1>2 DEF BlockInv

\* There is no failure at first.
LEMMA BlockInit == Init => BlockInv
BY DEF Init, BlockInv, FailureBlocks, Past, Applying

\* Every step there is keeps it so.
LEMMA BlockNext ==
  ASSUME ValidateOnMigrate
  PROVE  TypeInv /\ Guarded /\ RankInv /\ TopInv /\ BlockInv /\ [Next]_vars => BlockInv'
<1> SUFFICES ASSUME TypeInv, Guarded, RankInv, TopInv, BlockInv, [Next]_vars
             PROVE  BlockInv'
  OBVIOUS
<1>1. CASE UNCHANGED <<pc, my, holders, database>>
  BY <1>1 DEF BlockInv, FailureBlocks, database
<1> QED BY <1>1, NextActs, BlockStep

\* If Migrate is alone and validateOnMigrate is set, no script is recorded after a
\* version that failed until Repair has removed the failure, whatever the commands
\* that take no lock do at the same time.
THEOREM NothingAfterFailure ==
  ASSUME Exclusive, ValidateOnMigrate
  PROVE  Spec => []FailureBlocks
<1>1. BlockInv => FailureBlocks
  BY DEF BlockInv
<1> QED
  BY <1>1, TypeInit, TypeNext, GuardedInit, GuardedNext, RankInit, RankNext, TopInit, TopNext,
     BlockInit, BlockNext, PTL DEF Spec

-----------------------------------------------------------------------------
(* The order of versions.                                                  *)

\* What pending lists without outOfOrder is above every version that was applied.
LEMMA PendingIsAbove ==
  ASSUME ~OutOfOrder, TypeInv, NEW res, NEW k \in Versions, k \in Pending(res, rows),
         NEW x \in rows, IsRun(x), x.key \in Versions
  PROVE  x.key < k
<1>1. SqlRows(rows, k) = {} /\ ~BelowCurrent(rows, k)
  BY PendingVersion
<1>2. x.key # k
  BY <1>1 DEF SqlRows, IsRun
<1>3. x.key \in NotedVersions(rows)
  BY DEF NotedVersions, IsRun
<1>4. ~(k < x.key)
  BY <1>1, <1>3 DEF BelowCurrent
<1>5. k \in Int /\ x.key \in Int
  BY KeysAreNumbers DEF Keys
<1> QED BY <1>2, <1>4, <1>5

\* Every step keeps the records in the order of the versions.
LEMMA OrderStep ==
  ASSUME ~OutOfOrder, TypeInv, Guarded, TopInv, OrderInv, NEW p \in Sessions, Acts(p)
  PROVE  OrderInv'
<1>0. /\ SessionsOK /\ pc \in [Sessions -> Steps] /\ my \in [Sessions -> Registers]
      /\ rows \subseteq Row
  BY DEF TypeInv, SessionsOK, DatabaseOK
<1>1. ASSUME NEW q \in Sessions, pc'[q] \in Past, NEW k \in my'[q].todo \cap Versions,
             NEW y \in rows', IsRun(y), y.key \in Versions
      PROVE  y.key < k
  <2>1. CASE q # p
    <3>1. pc'[q] = pc[q] /\ my'[q] = my[q]
      BY <1>0, <2>1, OthersUnchanged DEF Acts
    <3>2. PICK x \in rows : Shadows(y, x)
      BY <1>1, <2>1, <3>1, PastIsInMigrate, OthersAddNothing, NoRecordAdded DEF IsRun
    <3> QED BY <1>1, <3>1, <3>2 DEF OrderInv, Shadows, IsRun
  <2>2. CASE q = p /\ ReadForMigrate(p)
    BY <1>1, <2>2, ReadStep, PendingIsAbove
  <2>3. CASE q = p /\ ~ReadForMigrate(p)
    <3>1. /\ pc[p] \in Past
          /\ \/ my'[p].todo = my[p].todo /\ ~Adds(p) /\ rows' = rows
             \/ Adds(p) /\ my'[p].todo = my[p].todo \ {my[p].cur}
      BY <1>1, <2>3, PastStep
    <3>2. CASE Adds(p) /\ my'[p].todo = my[p].todo \ {my[p].cur} /\ y \notin rows
      <4>1. y.key = my[p].cur /\ pc[p] \in Applying /\ my[p].cur \in Keys
        BY <3>2, RecordAdded
      <4>2. LeastOf(p, my[p].cur)
        BY <4>1 DEF TopInv
      <4>3. k # my[p].cur /\ my[p].cur <= k
        BY <1>1, <2>3, <3>2, <4>2 DEF LeastOf
      <4>4. k \in Int /\ my[p].cur \in Int
        BY <1>1, <4>1, KeysAreNumbers DEF Keys
      <4> QED BY <4>1, <4>3, <4>4
    <3> QED BY <1>1, <2>3, <3>1, <3>2 DEF OrderInv
  <2> QED BY <2>1, <2>2, <2>3
<1>2. OrderedHistory'
  <2> SUFFICES ASSUME NEW x \in rows', NEW y \in rows', IsRun(x), IsRun(y),
                      x.key \in Versions, y.key \in Versions
               PROVE  x.rank < y.rank <=> x.key < y.key
    BY DEF OrderedHistory, IsRun
  <2>1. ASSUME NEW a \in rows, NEW b \in rows, Shadows(x, a), Shadows(y, b)
        PROVE  x.rank < y.rank <=> x.key < y.key
    BY <2>1 DEF Shadows, OrderInv, OrderedHistory, IsRun
  <2>2. CASE ~Adds(p)
    BY <2>1, <2>2, NoRecordAdded DEF IsRun
  <2>3. CASE Adds(p)
    <3> DEFINE c == my[p].cur
    <3>1. PICK ok \in BOOLEAN : /\ rows' = rows \cup {NewRow(p, ok)}
                                /\ NewRow(p, ok).rank = my[p].rank
                                /\ NewRow(p, ok).key = c
      BY <2>3, RecordAdded
    <3>2. /\ pc[p] \in Past /\ pc[p] \in {"txCommit", "runInsert"}
          /\ c \in Keys /\ c \in my[p].todo
      BY <2>3, RecordAdded DEF Past
    <3>3. \A z \in rows : z.type = "SQL" => z.rank < my[p].rank
      BY <3>2 DEF TopInv
    <3>4. \A z \in rows : IsRun(z) /\ z.key \in Versions /\ c \in Versions => z.key < c
      BY <3>2 DEF OrderInv
    <3>5. /\ my[p].rank \in Int /\ x.rank \in Int /\ y.rank \in Int
          /\ x.key \in Int /\ y.key \in Int /\ (c \in Versions => c \in Int)
      <4>2. my[p].rank \in Int /\ \A z \in rows : z.rank \in Int
        BY <1>0, MaxRankAssumption DEF Registers, Row, Ranks
      <4>3. \A v \in Versions : v \in Int
        BY KeysAreNumbers DEF Keys
      <4> QED BY <3>1, <4>2, <4>3
    <3>6. \A z \in rows : Shadows(z, z)
      BY DEF Shadows
    <3> HIDE DEF c
    <3>7. CASE x \in rows /\ y \in rows
      BY <2>1, <3>6, <3>7
    <3>8. CASE x \in rows /\ y \notin rows
      <4>1. y.rank = my[p].rank /\ y.key = c
        BY <3>1, <3>8
      <4> QED BY <3>3, <3>4, <3>8, <4>1 DEF IsRun
    <3>9. CASE x \notin rows /\ y \in rows
      <4>1. x.rank = my[p].rank /\ x.key = c
        BY <3>1, <3>9
      <4>2. y.rank < x.rank /\ y.key < x.key
        BY <3>3, <3>4, <3>9, <4>1 DEF IsRun
      <4> QED BY <3>5, <4>2
    <3>10. CASE x \notin rows /\ y \notin rows
      <4>1. x = y
        BY <3>1, <3>10
      <4> QED BY <3>5, <4>1
    <3> QED BY <3>7, <3>8, <3>9, <3>10
  <2> QED BY <2>2, <2>3
<1> QED BY <1>1, <1>2 DEF OrderInv

\* There is no record at first.
LEMMA OrderInit == Init => OrderInv
BY DEF Init, OrderInv, OrderedHistory, Past, Applying

\* Every step there is keeps them so.
LEMMA OrderNext ==
  ASSUME ~OutOfOrder
  PROVE  TypeInv /\ Guarded /\ TopInv /\ OrderInv /\ [Next]_vars => OrderInv'
<1> SUFFICES ASSUME TypeInv, Guarded, TopInv, OrderInv, [Next]_vars PROVE OrderInv'
  OBVIOUS
<1>1. CASE UNCHANGED <<pc, my, holders, database>>
  BY <1>1 DEF OrderInv, OrderedHistory, database
<1> QED BY <1>1, NextActs, OrderStep

\* If Migrate is alone and outOfOrder is not set, versions took effect in ascending
\* order: the scripts of a list are recorded from the least up, and the list of the
\* next session only has versions above those.
THEOREM VersionsInOrder ==
  ASSUME Exclusive, ~OutOfOrder
  PROVE  Spec => []OrderedHistory
<1>1. OrderInv => OrderedHistory
  BY DEF OrderInv
<1> QED
  BY <1>1, TypeInit, TypeNext, GuardedInit, GuardedNext, TopInit, TopNext, OrderInit, OrderNext,
     PTL DEF Spec

-----------------------------------------------------------------------------
(* Success means up to date.                                               *)

\* Repair or Clean takes records away or changes them.
Mends(p) == DeleteFailedRows(p) \/ UpdateOneChecksum(p) \/ Drops(p)

\* Migrate and Baseline do not.
LEMMA NothingMended ==
  ASSUME CommandInv, Commands \subseteq {"migrate", "baseline"}, NEW p \in Sessions
  PROVE  ~Mends(p)
BY NoDrops DEF Mends, CommandInv, DeleteFailedRows, UpdateOneChecksum

\* Other than by these no record goes or changes, and those that come are of a script
\* that was applied, or markers.
LEMMA OnlyInserts ==
  ASSUME TypeInv, NEW p \in Sessions, Acts(p), ~Mends(p)
  PROVE  /\ rows \subseteq rows'
         /\ ~Adds(p) => \A y \in rows' \ rows :
              \/ y.type = "SCHEMA"
              \/ y.type = "BASELINE" /\ y.key = BaselineVersion
<1>1. ~Drops(p) /\ ~DeleteFailedRows(p) /\ ~UpdateOneChecksum(p)
  BY DEF Mends
<1>2. CASE Adds(p)
  BY <1>2, RecordAdded
<1>3. CASE InsertSchemaMarker(p) \/ InsertBaseline(p)
  BY <1>3 DEF InsertSchemaMarker, InsertBaseline, SchemaRow, BaselineRow
<1> QED BY <1>1, <1>2, <1>3, RowChanges DEF Adds

\* A script stays settled when rows are added that are not of its own.
LEMMA SettledKept ==
  ASSUME NEW rs, NEW rt, rt \subseteq Row, rs \subseteq rt,
         \A x \in rt : x.type = "BASELINE" => x.key = BaselineVersion,
         NEW res, NEW k \in Keys, IsSettled(res, rs, k),
         k \in Versions \/ SqlRows(rt, k) = SqlRows(rs, k)
  PROVE  IsSettled(res, rt, k)
<1>1. CASE k \notin Versions
  BY <1>1 DEF IsSettled
<1>2. CASE k \in Versions
  <2>1. ASSUME CoveredByBaseline(rs, k) PROVE CoveredByBaseline(rt, k)
    <3>1. PICK x \in Baselines(rs) : k <= x.key
      BY <2>1 DEF CoveredByBaseline
    <3>2. x \in Baselines(rt) /\ \A y \in Baselines(rt) : y.key = BaselineVersion
      BY <3>1 DEF Baselines
    <3>3. \A y \in Baselines(rt) : y.rank \in Ranks
      BY DEF Baselines, Row
    <3>4. PICK y \in Baselines(rt) : IsLatest(y, Baselines(rt))
      BY <3>2, <3>3, LatestExists DEF IsLatest
    <3> QED BY <3>1, <3>2, <3>4 DEF CoveredByBaseline
  <2>2. BelowCurrent(rs, k) => BelowCurrent(rt, k)
    BY DEF BelowCurrent, NotedVersions
  <2>3. (\E x \in SqlRows(rs, k) : x.success) => \E x \in SqlRows(rt, k) : x.success
    BY DEF SqlRows
  <2> QED BY <1>2, <2>1, <2>2, <2>3 DEF IsSettled
<1> QED BY <1>1, <1>2

\* What validation let through and pending leaves out is settled.
LEMMA SettledAtRead ==
  ASSUME TypeInv, NEW res, FailedKeys(res, rows) = {},
         \A x \in rows : x.type = "SQL" /\ ~x.success => x.key \in NoTransaction,
         NEW k \in Keys, res[k] # Nil, k \notin Pending(res, rows)
  PROVE  IsSettled(res, rows, k)
<1>0. rows \subseteq Row
  BY DEF TypeInv, DatabaseOK
<1>1. ASSUME IsApplied(rows, k)
      PROVE  /\ AppliedRow(rows, k) \in SqlRows(rows, k)
             /\ IsLatest(AppliedRow(rows, k), SqlRows(rows, k))
  BY <1>0, <1>1, AppliedIsLatest
<1>2. CASE k \in Versions
  <2>1. CASE SqlRows(rows, k) # {}
    <3>1. IsApplied(rows, k)
      BY <2>1 DEF IsApplied
    <3>2. AppliedRow(rows, k).success
      BY <1>2, <3>1, ReportedFailures
    <3> QED BY <1>1, <1>2, <3>1, <3>2 DEF IsSettled
  <2>2. CASE SqlRows(rows, k) = {}
    BY <1>2, <2>2, PendingVersion DEF IsSettled, AboveTarget
  <2> QED BY <2>1, <2>2
<1>3. CASE k \notin Versions
  <2>1. k \in Repeatables
    BY <1>3 DEF Keys
  <2>2. IsApplied(rows, k) /\ AppliedRow(rows, k).checksum = Checksum(k, res[k])
    BY <2>1, PendingRepeatable
  <2>3. AppliedRow(rows, k).success \/ k \in NoTransaction
    BY <1>1, <2>2 DEF SqlRows
  <2> QED BY <1>1, <1>3, <2>2, <2>3 DEF IsSettled
<1> QED BY <1>2, <1>3

\* A script that was applied is settled by its record.
LEMMA SettledByRecord ==
  ASSUME TypeInv, TopInv, NEW p \in Sessions, Adds(p), InsertAfterRun(p) => ~my[p].failed
  PROVE  IsSettled(my[p].res, rows', my[p].cur)
<1> DEFINE c == my[p].cur
<1>1. PICK ok \in BOOLEAN :
        /\ rows' = rows \cup {NewRow(p, ok)}
        /\ NewRow(p, ok).rank = my[p].rank /\ NewRow(p, ok).type = "SQL"
        /\ NewRow(p, ok).key = c /\ NewRow(p, ok).success = ok
        /\ NewRow(p, ok).checksum = Checksum(c, my[p].res[c])
        /\ Commits(p) => ok
        /\ InsertAfterRun(p) => ok = ~my[p].failed /\ c \in NoTransaction
  BY RecordAdded
<1>2. ok
  BY <1>1 DEF Adds
<1>3. pc[p] \in {"txCommit", "runInsert"}
  BY RecordAdded
<1>4. \A x \in rows : x.type = "SQL" => x.rank < my[p].rank
  BY <1>3 DEF TopInv
<1>5. my[p].rank \in Int /\ \A x \in rows : x.rank \in Int
  BY MaxRankAssumption DEF TypeInv, SessionsOK, Registers, DatabaseOK, Row, Ranks
<1> DEFINE x == NewRow(p, ok)
<1>6. x \in SqlRows(rows', c) /\ x.success /\ x.checksum = Checksum(c, my[p].res[c])
  BY <1>1, <1>2 DEF SqlRows
<1>7. ASSUME NEW y \in SqlRows(rows', c) PROVE y.rank <= x.rank
  <2> HIDE DEF x
  <2>1. y \in rows \/ y = x
    BY <1>1 DEF SqlRows, x
  <2>2. y.type = "SQL" /\ x.rank = my[p].rank
    BY <1>1 DEF SqlRows, x
  <2> QED BY <1>4, <1>5, <2>1, <2>2
<1> HIDE DEF x, c
<1>8. IsLatest(x, SqlRows(rows', c))
  BY <1>6, <1>7 DEF IsLatest
<1> QED BY <1>6, <1>8 DEF IsSettled, c

\* Where a session without an error comes to its release from.
LEMMA ToRelease ==
  ASSUME TypeInv, NEW p \in Sessions, Acts(p), pc'[p] = "release", my'[p].ok
  PROVE  /\ my'[p] = my[p]
         /\ \/ pc[p] \in {"release", "after"} /\ rows' = rows
            \/ InsertAfterRun(p) /\ my[p].failed /\ pc[p] = "runInsert"
<1> USE DEF Goto, Return
<1>0. /\ pc \in [Sessions -> Steps] /\ my \in [Sessions -> Registers]
      /\ my[p] \in Registers
  BY DEF TypeInv, SessionsOK
<1>1. ASSUME NEW c \in Commands, Start(p, c) PROVE FALSE
  BY <1>0, <1>1, ConfigurationAssumption DEF Start
<1>2. CASE Load(p)
  BY <1>0, <1>2 DEF Load
<1>3. CASE SharedStep(p)
  BY <1>0, <1>3 DEF SharedStep, EnsureSchemas, CreateSchema, HistoryExists, CreateHistory,
    NextInstalledRank, InsertSchemaMarker, InsertBaseline, AfterCreate, AfterMark
<1>4. CASE MigrateStep(p)
  <2>1. CASE ReadForMigrate(p)
    <3>1. my' = [my EXCEPT ![p].ok = FALSE]
      BY <1>0, <2>1 DEF ReadForMigrate
    <3> QED BY <1>0, <3>1 DEF Registers
  <2>2. CASE InsertAfterRun(p)
    BY <1>0, <2>2 DEF InsertAfterRun
  <2>3. CASE ~ReadForMigrate(p) /\ ~InsertAfterRun(p)
    BY <1>0, <1>4, <2>3 DEF MigrateStep, AcquireLock, BeforeMigrate, BeginMigration,
      AllApplied, RunInTransaction, InsertInTransaction, Commit, RunStatements,
      AfterMigrate, Release, database
  <2> QED BY <2>1, <2>2, <2>3
<1>5. CASE OtherStep(p)
  BY <1>0, <1>5 DEF OtherStep, ReadForBaseline, DeleteFailedRows, ReadForRepair,
    UpdateOneChecksum, RepairDone, DropSchema, RecreateSchema, ListObjects,
    DropObject, CleanDone
<1>6. CASE Failure(p)
  <2>1. ASSUME my' = [my EXCEPT ![p].ok = FALSE] PROVE FALSE
    BY <1>0, <2>1 DEF Registers
  <2>2. CASE OperationFails(p) \/ CommitAnswerLost(p)
    BY <1>0, <2>1, <2>2 DEF OperationFails, CommitAnswerLost
  <2>3. CASE RunStatementsFails(p) \/ Crash(p) \/ LoseLock(p)
    BY <1>0, <2>3 DEF RunStatementsFails, Crash, LoseLock, database
  <2> QED BY <1>6, <2>2, <2>3 DEF Failure
<1> QED BY <1>1, <1>2, <1>3, <1>4, <1>5, <1>6 DEF Acts, Step

\* How a session comes to run a script outside a transaction, or to the loop's end.
LEMMA ToRun ==
  ASSUME TypeInv, NEW p \in Sessions, Acts(p)
  PROVE  /\ pc'[p] = "after" =>
              (AllApplied(p) \/ pc[p] = "after") /\ my'[p] = my[p]
         /\ pc'[p] \in {"run", "runRank", "runInsert"} =>
              \/ ~my'[p].failed
              \/ ~my'[p].ok
              \/ /\ pc[p] \in {"run", "runRank", "runInsert"}
                 /\ my'[p].failed = my[p].failed /\ my'[p].ok = my[p].ok
<1> USE DEF Goto, Return
<1>0. /\ pc \in [Sessions -> Steps] /\ my \in [Sessions -> Registers]
      /\ my[p] \in Registers
  BY DEF TypeInv, SessionsOK
<1>1. ASSUME NEW c \in Commands, Start(p, c)
      PROVE  pc'[p] \notin {"after", "run", "runRank", "runInsert"}
  BY <1>0, <1>1, ConfigurationAssumption DEF Start
<1>2. CASE Load(p)
  BY <1>0, <1>2 DEF Load
<1>3. CASE SharedStep(p)
  <2>1. CASE NextInstalledRank(p)
    <3>1. PICK n \in Ranks : my' = [my EXCEPT ![p].rank = n]
      BY <2>1 DEF NextInstalledRank
    <3>2. pc'[p] = "runInsert" => pc[p] = "runRank"
      BY <1>0, <2>1 DEF NextInstalledRank
    <3>3. pc'[p] \notin {"after", "run", "runRank"}
      BY <1>0, <2>1 DEF NextInstalledRank
    <3> QED BY <1>0, <3>1, <3>2, <3>3 DEF Registers
  <2>2. CASE ~NextInstalledRank(p)
    BY <1>0, <1>3, <2>2 DEF SharedStep, EnsureSchemas, CreateSchema, HistoryExists,
      CreateHistory, InsertSchemaMarker, InsertBaseline, AfterCreate, AfterMark
  <2> QED BY <2>1, <2>2
<1>4. CASE MigrateStep(p)
  <2>1. CASE BeginMigration(p)
    <3>1. PICK k \in Keys : my' = [my EXCEPT ![p].cur = k, ![p].text = TextOf(p, k),
                                            ![p].failed = FALSE]
      BY <2>1 DEF BeginMigration
    <3>2. pc'[p] # "after"
      BY <1>0, <2>1 DEF BeginMigration
    <3> QED BY <1>0, <3>1, <3>2 DEF Registers
  <2>2. CASE ~BeginMigration(p)
    BY <1>0, <1>4, <2>2 DEF MigrateStep, AcquireLock, ReadForMigrate, BeforeMigrate,
      AllApplied, RunInTransaction, InsertInTransaction, Commit, RunStatements,
      InsertAfterRun, AfterMigrate, Release
  <2> QED BY <2>1, <2>2
<1>5. CASE OtherStep(p)
  BY <1>0, <1>5 DEF OtherStep, ReadForBaseline, DeleteFailedRows, ReadForRepair,
    UpdateOneChecksum, RepairDone, DropSchema, RecreateSchema, ListObjects,
    DropObject, CleanDone
<1>6. CASE Failure(p)
  BY <1>0, <1>6 DEF Failure, OperationFails, RunStatementsFails, CommitAnswerLost, Crash,
    LoseLock, Registers
<1> QED BY <1>1, <1>2, <1>3, <1>4, <1>5, <1>6 DEF Acts, Step

\* Of the scripts only those that are left to apply are not settled.
SettledFor(p) ==
  \A k \in Keys \ my[p].todo : my[p].res[k] # Nil => IsSettled(my[p].res, rows, k)

\* Every step keeps a script settled that Migrate does not have left to apply.
LEMMA SettledStep ==
  ASSUME ValidateOnMigrate, TypeInv, TypeInv', Guarded, TopInv, SettledInv,
         NEW p \in Sessions, Acts(p), ~Mends(p)
  PROVE  SettledInv'
<1>0. /\ SessionsOK /\ pc \in [Sessions -> Steps] /\ my \in [Sessions -> Registers]
      /\ rows' \subseteq Row /\ rows \subseteq rows'
  BY OnlyInserts DEF TypeInv, SessionsOK, DatabaseOK
<1>1. ASSUME NEW x \in rows'
      PROVE  /\ x.type = "SQL" /\ ~x.success => x.key \in NoTransaction
             /\ x.type = "BASELINE" => x.key = BaselineVersion
  <2>1. CASE x \in rows
    BY <2>1 DEF SettledInv
  <2>2. CASE x \notin rows /\ ~Adds(p)
    BY <2>2, OnlyInserts
  <2>3. CASE x \notin rows /\ Adds(p)
    BY <2>3, RecordAdded DEF Adds
  <2> QED BY <2>1, <2>2, <2>3
<1>2. ASSUME NEW res, NEW k \in Keys, IsSettled(res, rows, k), Adds(p) => my[p].cur # k
      PROVE  IsSettled(res, rows', k)
  <2>1. SqlRows(rows', k) = SqlRows(rows, k)
    <3>1. ASSUME NEW y \in rows', y.type = "SQL", y.key = k PROVE y \in rows
      <4>1. CASE Adds(p)
        BY <1>2, <3>1, <4>1, RecordAdded
      <4>2. CASE ~Adds(p)
        BY <3>1, <4>2, OnlyInserts
      <4> QED BY <4>1, <4>2
    <3> QED BY <1>0, <3>1 DEF SqlRows
  <2>2. \A x \in rows' : x.type = "BASELINE" => x.key = BaselineVersion
    BY <1>1
  <2> QED BY <1>0, <1>2, <2>1, <2>2, SettledKept
<1>3. ASSUME NEW q \in Sessions, q # p, pc'[q] \in Past \/ pc'[q] = "release",
             NEW k \in Keys, IsSettled(my'[q].res, rows, k)
      PROVE  IsSettled(my'[q].res, rows', k)
  <2>1. pc'[q] = pc[q]
    BY <1>0, <1>3, OthersUnchanged DEF Acts
  <2>2. ~Adds(p)
    BY <1>3, <2>1, PastIsInMigrate, OthersAddNothing
  <2> QED BY <1>2, <1>3, <2>2
<1>4. ASSUME NEW q \in Sessions, pc'[q] \in Past PROVE SettledFor(q)'
  <2> SUFFICES ASSUME NEW k \in Keys, k \notin my'[q].todo, my'[q].res[k] # Nil
               PROVE  IsSettled(my'[q].res, rows', k)
    BY DEF SettledFor
  <2>1. CASE q # p
    <3>1. pc'[q] = pc[q] /\ my'[q] = my[q]
      BY <1>0, <2>1, OthersUnchanged DEF Acts
    <3>2. IsSettled(my[q].res, rows, k)
      BY <1>4, <3>1 DEF SettledInv
    <3> QED BY <1>3, <1>4, <2>1, <3>1, <3>2
  <2>2. CASE q = p /\ ReadForMigrate(p)
    BY <1>4, <2>2, ReadStep, SettledAtRead DEF SettledInv
  <2>3. CASE q = p /\ ~ReadForMigrate(p)
    <3>1. /\ pc[p] \in Past /\ my'[p].res = my[p].res
          /\ \/ my'[p].todo = my[p].todo /\ ~Adds(p) /\ rows' = rows
             \/ /\ Adds(p) /\ (InsertAfterRun(p) => ~my[p].failed)
                /\ my'[p].todo = my[p].todo \ {my[p].cur}
      BY <1>4, <2>3, PastStep
    <3>2. CASE k = my[p].cur /\ Adds(p)
      BY <2>3, <3>1, <3>2, SettledByRecord
    <3>3. CASE ~(k = my[p].cur /\ Adds(p))
      <4>1. k \notin my[p].todo
        BY <2>3, <3>1, <3>3
      <4>2. IsSettled(my[p].res, rows, k)
        BY <2>3, <3>1, <4>1 DEF SettledInv
      <4> QED BY <1>2, <2>3, <3>1, <3>3, <4>2
    <3> QED BY <3>2, <3>3
  <2> QED BY <2>1, <2>2, <2>3
<1>5. ASSUME NEW q \in Sessions, pc'[q] = "release", my'[q].ok,
             NEW k \in Keys, my'[q].res[k] # Nil
      PROVE  IsSettled(my'[q].res, rows', k)
  <2>1. CASE q # p
    <3>1. pc'[q] = pc[q] /\ my'[q] = my[q]
      BY <1>0, <2>1, OthersUnchanged DEF Acts
    <3>2. IsSettled(my[q].res, rows, k)
      BY <1>5, <3>1 DEF SettledInv, SuccessMeansUpToDate
    <3> QED BY <1>3, <1>5, <2>1, <3>1, <3>2
  <2>2. CASE q = p
    <3>1. /\ my'[p] = my[p]
          /\ \/ pc[p] \in {"release", "after"} /\ rows' = rows
             \/ InsertAfterRun(p) /\ my[p].failed /\ pc[p] = "runInsert"
      BY <1>5, <2>2, ToRelease
    <3>2. ~(my[p].failed /\ pc[p] = "runInsert")
      BY <1>5, <2>2, <3>1 DEF SettledInv
    <3>3. pc[p] = "after" => my[p].todo = {}
      BY DEF SettledInv
    <3> QED BY <1>5, <2>2, <3>1, <3>2, <3>3 DEF SettledInv, SuccessMeansUpToDate, Past
  <2> QED BY <2>1, <2>2
<1>6. ASSUME NEW q \in Sessions
      PROVE  /\ pc'[q] \in {"run", "runRank", "runInsert"} /\ my'[q].failed => ~my'[q].ok
             /\ pc'[q] = "after" => my'[q].todo = {}
  <2>1. CASE q # p
    BY <1>0, <2>1, OthersUnchanged DEF Acts, SettledInv
  <2>2. CASE q = p
    BY <2>2, ToRun DEF SettledInv, AllApplied
  <2> QED BY <2>1, <2>2
<1> QED BY <1>1, <1>4, <1>5, <1>6 DEF SettledInv, SuccessMeansUpToDate, SettledFor

\* Alone in the database, Repair and Clean unsettle no script a Migrate is about to
\* report, as no Migrate is about to.
LEMMA MendedStep ==
  ASSUME OneAtATime, TypeInv, SettledInv, NEW p \in Sessions, Acts(p), Mends(p)
  PROVE  SettledInv'
<1>0. rows \subseteq Row
  BY DEF TypeInv, DatabaseOK
<1>1. pc[p] \in {"delete", "update", "drop"} /\ ~ReadForMigrate(p) /\ ~InsertAfterRun(p)
  BY DEF Mends, DeleteFailedRows, UpdateOneChecksum, Drops, DropSchema, DropObject,
    ReadForMigrate, InsertAfterRun
<1>2. pc'[p] \notin Past
  BY <1>1, PastStep DEF Past, Applying
<1>3. ~(pc'[p] = "release" /\ my'[p].ok)
  BY <1>1, ToRelease
<1>4. \A q \in Sessions : q = p
  BY DEF OneAtATime
<1>5. ASSUME NEW y \in rows' PROVE \E x \in rows : Shadows(y, x)
  <2>1. CASE UpdateOneChecksum(p)
    <3>1. PICK f \in my[p].fixes : rows' = UpdateChecksum(rows, f.rank, f.checksum)
      BY <2>1 DEF UpdateOneChecksum
    <3>2. y \in UpdateChecksum(rows, f.rank, f.checksum)
      BY <1>5, <3>1
    <3> QED BY <1>0, <3>2, UpdateShadows
  <2>2. CASE DeleteFailedRows(p) \/ Drops(p)
    <3>1. rows' \subseteq rows
      BY <2>2, DeleteKeeps DEF DeleteFailedRows, Drops, DropSchema, DropObject
    <3> QED BY <1>5, <3>1 DEF Shadows
  <2> QED BY <2>1, <2>2 DEF Mends
<1>6. \A y \in rows' : /\ y.type = "SQL" /\ ~y.success => y.key \in NoTransaction
                       /\ y.type = "BASELINE" => y.key = BaselineVersion
  BY <1>5 DEF SettledInv, Shadows
<1> QED BY <1>2, <1>3, <1>4, <1>6 DEF SettledInv, SuccessMeansUpToDate, Past, Applying

\* Nothing is to be settled at first.
LEMMA SettledInit == Init => SettledInv
BY DEF Init, SettledInv, SuccessMeansUpToDate, Past, Applying

\* Every step there is does.
LEMMA SettledNext ==
  ASSUME ValidateOnMigrate, OneAtATime \/ Commands \subseteq {"migrate", "baseline"}
  PROVE  TypeInv /\ Guarded /\ TopInv /\ CommandInv /\ SettledInv /\ [Next]_vars
           => SettledInv'
<1> SUFFICES ASSUME TypeInv, Guarded, TopInv, CommandInv, SettledInv, [Next]_vars
             PROVE  SettledInv'
  OBVIOUS
<1>1. CASE UNCHANGED <<pc, my, holders, database>>
  BY <1>1 DEF SettledInv, SuccessMeansUpToDate, database
<1>2. TypeInv'
  BY TypeNext
<1>3. ASSUME NEW p \in Sessions, Acts(p), Mends(p) PROVE OneAtATime
  BY <1>3, NothingMended
<1> QED BY <1>1, <1>2, <1>3, NextActs, SettledStep, MendedStep

\* If Migrate is alone and validateOnMigrate is set, a Migrate that ends without an
\* error leaves nothing behind: what it did not apply itself was settled when it read
\* the history, and nothing another Migrate or Baseline does before it releases the
\* lock unsettles a script.  A Repair or a Clean may come before or after.
THEOREM SuccessIsUpToDate ==
  ASSUME Exclusive, ValidateOnMigrate,
         OneAtATime \/ Commands \subseteq {"migrate", "baseline"}
  PROVE  Spec => []SuccessMeansUpToDate
<1>1. SettledInv => SuccessMeansUpToDate
  BY DEF SettledInv
<1> QED
  BY <1>1, TypeInit, TypeNext, GuardedInit, GuardedNext, TopInit, TopNext, CommandInit,
     CommandNext, SettledInit, SettledNext, PTL DEF Spec

-----------------------------------------------------------------------------
(* A failure is not lost.                                                  *)

\* While p is inside Migrate, other Migrates wait and nothing is recorded.
LEMMA OthersWait ==
  ASSUME TypeInv, Guarded, CommandInv, OneAtATime \/ Commands \subseteq {"migrate"},
         NEW p \in Sessions, InMigrate(p), NEW q \in Sessions, q # p, Acts(q)
  PROVE  rows' = rows
<1>0. LockInv /\ Commands \subseteq {"migrate"}
  BY DEF Guarded, OneAtATime
<1>1. ~Adds(q)
  BY OthersAddNothing
<1>2. my[q].cmd \in {"migrate", "none"} /\ (pc[q] # "idle" => my[q].cmd = "migrate")
  BY <1>0 DEF CommandInv
<1>3. pc[q] \notin LockedSteps
  <2>1. ~InMigrate(q)
    BY <1>0 DEF LockInv
  <2>2. "idle" \notin LockedSteps
    BY DEF LockedSteps
  <2> QED BY <1>2, <2>1, <2>2 DEF InMigrate
<1>4. ~InsertSchemaMarker(q) /\ ~InsertBaseline(q)
  BY <1>3 DEF InsertSchemaMarker, InsertBaseline, LockedSteps
<1>5. ~DeleteFailedRows(q) /\ ~UpdateOneChecksum(q) /\ ~Drops(q)
  BY <1>0, <1>2, NoDrops DEF CommandInv, DeleteFailedRows, UpdateOneChecksum
<1> QED BY <1>1, <1>4, <1>5, RowChanges DEF Adds

\* A session keeps what it knows of its failure until it has released the lock.
LEMMA OwnFailure ==
  ASSUME TypeInv, NEW p \in Sessions, Acts(p), my'[p].failed,
         my[p].failed => pc[p] \in {"runRank", "runInsert", "release"}
  PROVE  /\ pc'[p] \in {"runRank", "runInsert", "release"}
         /\ my'[p].cur = my[p].cur /\ my'[p].res = my[p].res
         /\ pc'[p] = "release" =>
              /\ my[p].failed
              /\ rows' = rows \/ (InsertAfterRun(p) /\ pc[p] = "runInsert")
<1> USE DEF Goto, Return
<1>0. /\ pc \in [Sessions -> Steps] /\ my \in [Sessions -> Registers]
      /\ my[p] \in Registers /\ Fits(pc[p], my[p])
  BY DEF TypeInv, SessionsOK
<1>1. ASSUME NEW c \in Commands, Start(p, c) PROVE FALSE
  BY <1>0, <1>1 DEF Start, Registers
<1>2. ASSUME my'[p] = Loaded(my[p].res) \/ my'[p] = Loaded(disk) PROVE FALSE
  BY <1>2 DEF Loaded
<1>3. ASSUME Return(p) PROVE FALSE
  BY <1>0, <1>2, <1>3
<1>4. CASE Load(p) \/ Crash(p) \/ Release(p)
  BY <1>0, <1>2, <1>3, <1>4 DEF Load, Crash, Release
<1>5. CASE SharedStep(p)
  <2>1. CASE NextInstalledRank(p)
    <3>1. PICK n \in Ranks : my' = [my EXCEPT ![p].rank = n]
      BY <2>1 DEF NextInstalledRank
    <3>2. my'[p].failed = my[p].failed /\ my'[p].cur = my[p].cur /\ my'[p].res = my[p].res
      BY <1>0, <3>1 DEF Registers
    <3>3. pc[p] = "runRank" /\ pc'[p] = "runInsert"
      BY <1>0, <2>1, <3>2 DEF NextInstalledRank
    <3> QED BY <3>2, <3>3
  <2>2. CASE ~NextInstalledRank(p)
    <3>1. my'[p].failed = my[p].failed
      BY <1>0, <1>3, <1>5, <2>2 DEF SharedStep, EnsureSchemas, CreateSchema, HistoryExists,
        CreateHistory, InsertSchemaMarker, InsertBaseline, Registers
    <3> QED BY <1>5, <2>2, <3>1 DEF SharedStep, EnsureSchemas, CreateSchema, HistoryExists,
        CreateHistory, InsertSchemaMarker, InsertBaseline
  <2> QED BY <2>1, <2>2
<1>6. CASE MigrateStep(p) /\ ~Release(p)
  <2>1. CASE BeginMigration(p)
    <3>1. PICK k \in Keys : my' = [my EXCEPT ![p].cur = k, ![p].text = TextOf(p, k),
                                            ![p].failed = FALSE]
      BY <2>1 DEF BeginMigration
    <3> QED BY <1>0, <3>1 DEF Registers
  <2>2. CASE ReadForMigrate(p)
    <3>1. \/ my' = [my EXCEPT ![p].ok = FALSE]
          \/ my' = [my EXCEPT ![p].todo = Pending(my[p].res, rows)]
      BY <2>2 DEF ReadForMigrate
    <3>2. my[p].failed
      BY <1>0, <3>1 DEF Registers
    <3> QED BY <2>2, <3>2 DEF ReadForMigrate
  <2>3. CASE InsertAfterRun(p)
    <3>1. CASE my[p].failed
      BY <1>0, <2>3, <3>1 DEF InsertAfterRun
    <3>2. CASE ~my[p].failed
      BY <1>0, <2>3, <3>2 DEF InsertAfterRun, EntryDone, Registers
    <3> QED BY <3>1, <3>2
  <2>4. CASE Commit(p)
    <3>1. my'[p].failed = my[p].failed
      BY <1>0, <2>4 DEF Commit, EntryDone, Registers
    <3> QED BY <2>4, <3>1 DEF Commit
  <2>5. CASE ~BeginMigration(p) /\ ~ReadForMigrate(p) /\ ~InsertAfterRun(p) /\ ~Commit(p)
    <3>1. my' = my
      BY <1>6, <2>5 DEF MigrateStep, AcquireLock, BeforeMigrate, AllApplied,
        RunInTransaction, InsertInTransaction, RunStatements, AfterMigrate
    <3> QED BY <1>6, <2>5, <3>1 DEF MigrateStep, AcquireLock, BeforeMigrate, AllApplied,
        RunInTransaction, InsertInTransaction, RunStatements, AfterMigrate
  <2> QED BY <1>6, <2>1, <2>2, <2>3, <2>4, <2>5 DEF MigrateStep
<1>7. CASE OtherStep(p)
  <2>1. my'[p].failed = my[p].failed
    BY <1>0, <1>3, <1>7 DEF OtherStep, ReadForBaseline, DeleteFailedRows, ReadForRepair,
      UpdateOneChecksum, RepairDone, DropSchema, RecreateSchema, ListObjects,
      DropObject, CleanDone, Registers
  <2> QED BY <1>7, <2>1 DEF OtherStep, ReadForBaseline, DeleteFailedRows, ReadForRepair,
      UpdateOneChecksum, RepairDone, DropSchema, RecreateSchema, ListObjects,
      DropObject, CleanDone
<1>8. CASE Failure(p) /\ ~Crash(p)
  <2>1. CASE OperationFails(p)
    <3>1. my' = [my EXCEPT ![p].ok = FALSE] /\ pc'[p] = "release" /\ rows' = rows
      BY <1>0, <1>3, <2>1 DEF OperationFails, database
    <3> QED BY <1>0, <3>1 DEF Registers
  <2>2. CASE RunStatementsFails(p)
    BY <1>0, <2>2 DEF RunStatementsFails, Registers
  <2>3. CASE CommitAnswerLost(p)
    <3>1. my'[p].failed = my[p].failed
      BY <1>0, <2>3 DEF CommitAnswerLost, Registers
    <3> QED BY <2>3, <3>1 DEF CommitAnswerLost
  <2>4. CASE LoseLock(p)
    BY <2>4 DEF LoseLock, database
  <2> QED BY <1>8, <2>1, <2>2, <2>3, <2>4 DEF Failure
<1> QED BY <1>1, <1>4, <1>5, <1>6, <1>7, <1>8 DEF Acts, Step, Failure

\* The record of another version does not change that a later one is pending.
LEMMA PendingKept ==
  ASSUME TypeInv, TopInv, NEW p \in Sessions, Adds(p),
         NEW k \in Versions, k \in my[p].todo, k # my[p].cur, k \in Pending(my[p].res, rows)
  PROVE  k \in Pending(my[p].res, rows')
<1> DEFINE c == my[p].cur
<1>1. PICK ok \in BOOLEAN :
        /\ rows' = rows \cup {NewRow(p, ok)}
        /\ NewRow(p, ok).type = "SQL" /\ NewRow(p, ok).key = c
  BY RecordAdded
<1>2. pc[p] \in Applying /\ c \in Keys
  BY RecordAdded
<1>3. c < k
  <2>1. c <= k
    BY <1>2 DEF TopInv, LeastOf
  <2>2. c \in Int /\ k \in Int
    BY <1>2, KeysAreNumbers DEF Keys
  <2> QED BY <2>1, <2>2
<1>4. /\ my[p].res[k] # Nil /\ SqlRows(rows, k) = {}
      /\ ~AboveTarget(k) /\ ~CoveredByBaseline(rows, k)
      /\ OutOfOrder \/ ~BelowCurrent(rows, k)
  BY PendingVersion
<1>5. SqlRows(rows', k) = {}
  BY <1>1, <1>4 DEF SqlRows
<1>6. Baselines(rows') = Baselines(rows)
  BY <1>1 DEF Baselines
<1>7. NotedVersions(rows') \subseteq NotedVersions(rows) \cup {c}
  BY <1>1 DEF NotedVersions
<1>8. BelowCurrent(rows', k) => BelowCurrent(rows, k)
  <2>1. ~(k < c)
    <3>1. c \in Int /\ k \in Int
      BY <1>2, KeysAreNumbers DEF Keys
    <3> QED BY <1>3, <3>1
  <2> QED BY <1>7, <2>1 DEF BelowCurrent
<1>9. CoveredByBaseline(rows', k) => CoveredByBaseline(rows, k)
  BY <1>6 DEF CoveredByBaseline
<1> QED BY <1>4, <1>5, <1>8, <1>9, PendingVersion

\* Every step keeps a version pending that Migrate has left to apply, and a failure known.
LEMMA PendingStep ==
  ASSUME OneAtATime \/ Commands \subseteq {"migrate"}, NoTransaction \subseteq Versions,
         TypeInv, TypeInv', Guarded, TopInv, CommandInv, PendingInv,
         NEW p \in Sessions, Acts(p)
  PROVE  PendingInv'
<1>0. /\ SessionsOK /\ pc \in [Sessions -> Steps] /\ my \in [Sessions -> Registers]
      /\ rows' \subseteq Row
  BY DEF TypeInv, SessionsOK, DatabaseOK
<1>1. ASSUME NEW q \in Sessions, q # p
      PROVE  /\ pc'[q] = pc[q] /\ my'[q] = my[q]
             /\ pc[q] \in Past \/ pc[q] = "release" => rows' = rows
  BY <1>0, <1>1, OthersUnchanged, PastIsInMigrate, OthersWait DEF Acts
<1>2. ASSUME NEW q \in Sessions, my'[q].failed
      PROVE  pc'[q] \in {"runRank", "runInsert", "release"}
  BY <1>1, <1>2, OwnFailure DEF PendingInv
<1>3. ASSUME NEW q \in Sessions, pc'[q] \in Past, NEW k \in my'[q].todo \cap Versions
      PROVE  k \in Pending(my'[q].res, rows')
  <2>1. CASE q # p
    BY <1>1, <1>3, <2>1 DEF PendingInv
  <2>2. CASE q = p /\ ReadForMigrate(p)
    BY <1>3, <2>2, ReadStep
  <2>3. CASE q = p /\ ~ReadForMigrate(p)
    <3>1. /\ pc[p] \in Past /\ my'[p].res = my[p].res
          /\ \/ my'[p].todo = my[p].todo /\ ~Adds(p) /\ rows' = rows
             \/ Adds(p) /\ my'[p].todo = my[p].todo \ {my[p].cur}
      BY <1>3, <2>3, PastStep
    <3>2. k \in my[p].todo /\ k \in Pending(my[p].res, rows)
      BY <1>3, <2>3, <3>1 DEF PendingInv
    <3> QED BY <1>3, <2>3, <3>1, <3>2, PendingKept
  <2> QED BY <2>1, <2>2, <2>3
<1>4. ASSUME NEW q \in Sessions, pc'[q] = "release", my'[q].failed
      PROVE  my'[q].cur \in FailedKeys(my'[q].res, rows') \cup Pending(my'[q].res, rows')
  <2>1. CASE q # p
    BY <1>1, <1>4, <2>1 DEF PendingInv, FailureIsNotLost
  <2>2. CASE q = p
    <3> DEFINE c == my[p].cur
    <3>1. /\ my'[p].cur = c /\ my'[p].res = my[p].res /\ my[p].failed
          /\ rows' = rows \/ (InsertAfterRun(p) /\ pc[p] = "runInsert")
          /\ pc[p] \in {"runRank", "runInsert", "release"}
      BY <1>4, <2>2, OwnFailure DEF PendingInv
    <3>2. CASE pc[p] = "release"
      BY <1>4, <2>2, <3>1, <3>2 DEF PendingInv, FailureIsNotLost
    <3>3. CASE pc[p] \in {"runRank", "runInsert"}
      <4>1. c \in my[p].todo /\ c \in NoTransaction /\ c \in Keys
        BY <3>3, Registered DEF TypeInv, SessionsOK, Fits, Applying
      <4>2. c \in Versions /\ c \in Pending(my[p].res, rows)
        BY <3>3, <4>1 DEF PendingInv, Past, Applying
      <4>3. CASE rows' = rows
        BY <2>2, <3>1, <4>2, <4>3
      <4>4. CASE InsertAfterRun(p)
        <5>1. PICK ok \in BOOLEAN :
                /\ rows' = rows \cup {NewRow(p, ok)}
                /\ NewRow(p, ok).type = "SQL" /\ NewRow(p, ok).key = c
                /\ NewRow(p, ok).success = ok /\ ok = ~my[p].failed
          BY <4>4, RecordAdded DEF Adds
        <5>2. SqlRows(rows, c) = {}
          BY <4>2, PendingIsUnrecorded
        <5> DEFINE x == NewRow(p, ok)
        <5>3. SqlRows(rows', c) = {x} /\ ~x.success
          BY <3>1, <5>1, <5>2 DEF SqlRows
        <5> HIDE DEF x
        <5>4. IsApplied(rows', c) /\ AppliedRow(rows', c) = x
          BY <1>0, <5>3, AppliedIsLatest DEF IsApplied
        <5>5. c \in FailedKeys(my[p].res, rows')
          BY <4>1, <4>2, <5>3, <5>4, ReportedFailures
        <5> QED BY <2>2, <3>1, <5>5
      <4> QED BY <3>1, <4>3, <4>4
    <3> QED BY <3>1, <3>2, <3>3
  <2> QED BY <2>1, <2>2
<1> QED BY <1>2, <1>3, <1>4 DEF PendingInv, FailureIsNotLost

\* If Migrate is alone and no other command runs beside it, a version that failed
\* outside a transaction is reported by the next validation, or applied again if
\* the record of its failure could not be written.
THEOREM FailureNotLost ==
  ASSUME Exclusive, OneAtATime \/ Commands \subseteq {"migrate"}, NoTransaction \subseteq Versions
  PROVE  Spec => []FailureIsNotLost
<1>1. Init => PendingInv
  BY DEF Init, PendingInv, FailureIsNotLost, Past, Applying, Loaded
<1>2. TypeInv /\ Guarded /\ TopInv /\ CommandInv /\ PendingInv /\ [Next]_vars => PendingInv'
  <2> SUFFICES ASSUME TypeInv, Guarded, TopInv, CommandInv, PendingInv, [Next]_vars
               PROVE  PendingInv'
    OBVIOUS
  <2>1. CASE UNCHANGED <<pc, my, holders, database>>
    BY <2>1 DEF PendingInv, FailureIsNotLost, database
  <2>2. TypeInv'
    BY TypeNext
  <2> QED BY <2>1, <2>2, NextActs, PendingStep
<1>3. PendingInv => FailureIsNotLost
  BY DEF PendingInv
<1> QED
  BY <1>1, <1>2, <1>3, TypeInit, TypeNext, GuardedInit, GuardedNext, TopInit, TopNext,
     CommandInit, CommandNext, PTL DEF Spec

=============================================================================
