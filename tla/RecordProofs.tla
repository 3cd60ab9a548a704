---------------------------- MODULE RecordProofs ----------------------------
(***************************************************************************)
(* Theorems about the history table and the effects it records, for every  *)
(* number of sessions and every set of scripts, whatever the bounds, also  *)
(* when the lock fails to exclude: they rest on the primary key and on the *)
(* transactions, not on the advisory lock.  First, what the comparison of  *)
(* scripts and history (MigrationStates) computes, for every table; last,  *)
(* what Repair and Clean leave behind when nobody else uses the database.  *)
(***************************************************************************)
EXTENDS MigratorProofs, FiniteSetTheorems, WellFoundedInduction

\* The primary key: no two rows have the same rank.
Unique(rs) == \A x, y \in rs : x.rank = y.rank => x = y

\* x is the record of a script that took effect.
IsRun(x) == x.type = "SQL" /\ x.success

\* x is the record of a version that failed.
IsFailure(x) == x.type = "SQL" /\ ~x.success /\ x.key \in Versions

-----------------------------------------------------------------------------
(* The latest record.                                                      *)

\* Among some rows one is the latest, as the maps of computeInfos assume that
\* they fill in rank order.
LEMMA LatestExists ==
  ASSUME NEW S, S # {}, \A x \in S : x.rank \in Ranks
  PROVE  \E x \in S : IsLatest(x, S)
<1> DEFINE Above(x) == x.rank..MaxRank
           T == {Above(x) : x \in S}
<1>0. MaxRank \in Nat /\ \A x \in S : x.rank \in Nat /\ x.rank <= MaxRank
  BY MaxRankAssumption DEF Ranks
<1>1. T \subseteq FiniteSubsetsOf(Nat) /\ T # {}
  <2>1. ASSUME NEW x \in S PROVE IsFiniteSet(Above(x)) /\ Above(x) \in SUBSET Nat
    <3>1. x.rank \in Int /\ MaxRank \in Int /\ x.rank \in Nat
      BY <1>0
    <3>2. IsFiniteSet(x.rank..MaxRank)
      BY <3>1, FS_Interval
    <3>3. x.rank..MaxRank \in SUBSET Nat
      BY <3>1
    <3> QED BY <3>2, <3>3
  <2>2. \A t \in T : IsFiniteSet(t) /\ t \in SUBSET Nat
    <3> HIDE DEF Above
    <3> QED BY <2>1, Zenon
  <2>3. T # {}
    OBVIOUS
  <2> QED BY <2>2, <2>3, Zenon DEF FiniteSubsetsOf
<1>2. PICK t \in T : \A u \in T : ~(<<u, t>> \in StrictSubsetOrdering(Nat))
  <2> HIDE DEF T
  <2> QED BY <1>1, WFMin, FS_StrictSubsetOrderingWellFounded
<1>3. PICK m \in S : t = Above(m)
  BY <1>2
<1>4. ASSUME NEW x \in S, ~(x.rank <= m.rank) PROVE FALSE
  <2>1. m.rank \in Above(m) /\ m.rank \notin Above(x)
    BY <1>0, <1>4
  <2>2. Above(x) \subseteq Above(m)
    BY <1>0, <1>4
  <2>3. Above(x) \in SUBSET Nat /\ Above(m) \in SUBSET Nat
    BY <1>0
  <2>4. Above(x) \in T /\ ~(<<Above(x), Above(m)>> \in StrictSubsetOrdering(Nat))
    BY <1>2, <1>3, Zenon
  <2> HIDE DEF Above
  <2>5. Above(x) # Above(m)
    BY <2>1
  <2>6. <<Above(x), Above(m)>> \in StrictSubsetOrdering(Nat)
    BY <2>2, <2>3, <2>5 DEF StrictSubsetOrdering
  <2> QED BY <2>4, <2>6
<1> QED BY <1>4 DEF IsLatest

\* appliedVersioned[k] of computeInfos is a record of k, and the latest.
LEMMA AppliedIsLatest ==
  ASSUME NEW rs, rs \subseteq Row, NEW k, IsApplied(rs, k)
  PROVE  /\ AppliedRow(rs, k) \in SqlRows(rs, k)
         /\ IsLatest(AppliedRow(rs, k), SqlRows(rs, k))
<1> DEFINE S == SqlRows(rs, k)
<1>1. S # {} /\ \A x \in S : x.rank \in Ranks
  BY DEF IsApplied, SqlRows, Row
<1>2. \E x \in S : IsLatest(x, S)
  <2> HIDE DEF S
  <2> QED BY <1>1, LatestExists
<1> QED BY <1>2 DEF AppliedRow

\* A record of k that no other record of k is above is the one computeInfos takes.
LEMMA LatestIsApplied ==
  ASSUME NEW rs, rs \subseteq Row, Unique(rs), NEW k, NEW x, IsLatest(x, SqlRows(rs, k))
  PROVE  IsApplied(rs, k) /\ AppliedRow(rs, k) = x
<1>1. x \in SqlRows(rs, k) /\ IsApplied(rs, k)
  BY DEF IsLatest, IsApplied
<1> DEFINE y == AppliedRow(rs, k)
<1>2. y \in SqlRows(rs, k) /\ IsLatest(y, SqlRows(rs, k))
  BY <1>1, AppliedIsLatest
<1> HIDE DEF y
<1>3. x \in rs /\ y \in rs /\ x.rank \in Int /\ y.rank \in Int
  BY <1>1, <1>2, MaxRankAssumption DEF SqlRows, Row, Ranks
<1>4. x.rank = y.rank
  BY <1>1, <1>2, <1>3 DEF IsLatest
<1> QED BY <1>1, <1>3, <1>4 DEF Unique, y

-----------------------------------------------------------------------------
(* What is pending, and what validation reports.                           *)

\* No key is both a version and a repeatable.
LEMMA KeysApart == \A r \in Repeatables : r \notin Versions
BY KeysAssumption

\* Keys are compared as numbers, and Nil is none.
LEMMA KeysAreNumbers == \A k \in Keys : k \in Int /\ k # Nil
<1>1. \A k \in Versions : k \in Int /\ k # Nil
  BY KeysAssumption
<1>2. \A k \in Repeatables : k \in Int /\ k # Nil
  BY KeysAssumption
<1> QED BY <1>1, <1>2 DEF Keys

\* pending lists a version exactly if nothing records it and policy allows it.
LEMMA PendingVersion ==
  ASSUME NEW res, NEW rs, NEW v \in Versions
  PROVE  v \in Pending(res, rs) <=>
           /\ res[v] # Nil /\ SqlRows(rs, v) = {}
           /\ ~AboveTarget(v) /\ ~CoveredByBaseline(rs, v)
           /\ OutOfOrder \/ ~BelowCurrent(rs, v)
<1>1. v \in Keys
  BY DEF Keys
<1>2. v \in Pending(res, rs) <=> res[v] # Nil /\ VersionedState(res, rs, v) = "Pending"
  BY <1>1 DEF Pending, StateOf
<1>3. CASE IsApplied(rs, v) /\ res[v] # Nil
  <2>1. VersionedState(res, rs, v) \in {"Success", "Failed"}
    BY <1>3 DEF VersionedState
  <2> QED BY <1>2, <1>3, <2>1 DEF IsApplied
<1>4. CASE ~IsApplied(rs, v) /\ res[v] # Nil
  <2>1. VersionedState(res, rs, v) =
          IF AboveTarget(v) THEN "Above Target"
          ELSE IF CoveredByBaseline(rs, v) THEN "Ignored"
          ELSE IF BelowCurrent(rs, v) /\ ~OutOfOrder THEN "Ignored"
          ELSE "Pending"
    BY <1>4 DEF VersionedState
  <2> QED BY <1>2, <1>4, <2>1 DEF IsApplied
<1> QED BY <1>2, <1>3, <1>4

\* pending lists a repeatable exactly if its last run, if any, was of another text.
LEMMA PendingRepeatable ==
  ASSUME NEW res, NEW rs, NEW r \in Repeatables
  PROVE  r \in Pending(res, rs) <=>
           /\ res[r] # Nil
           /\ IsApplied(rs, r) => AppliedRow(rs, r).checksum # Checksum(r, res[r])
<1>1. r \in Keys /\ r \notin Versions
  BY KeysApart DEF Keys
<1>2. r \in Pending(res, rs) <=>
        res[r] # Nil /\ RepeatableState(res, rs, r) \in {"Pending", "Outdated"}
  BY <1>1 DEF Pending, StateOf
<1>3. CASE res[r] # Nil
  BY <1>2, <1>3 DEF RepeatableState
<1> QED BY <1>2, <1>3

\* validate reports the versions whose record is a failure, whether there still is
\* a script or not; repeatables it never reports as failed.
LEMMA ReportedFailures ==
  ASSUME NEW res, NEW rs, NEW k \in Keys
  PROVE  k \in FailedKeys(res, rs) <=>
           k \in Versions /\ IsApplied(rs, k) /\ ~AppliedRow(rs, k).success
<1> DEFINE failures == {"Failed", "Failed (Future)", "Failed (Missing)"}
<1>1. k \in FailedKeys(res, rs) <=> StateOf(res, rs, k) \in failures
  BY DEF FailedKeys
<1>2. CASE k \in Versions
  <2>1. StateOf(res, rs, k) = VersionedState(res, rs, k)
    BY <1>2 DEF StateOf
  <2>2. CASE IsApplied(rs, k)
    <3>1. CASE res[k] # Nil
      BY <1>1, <1>2, <2>1, <2>2, <3>1 DEF VersionedState
    <3>2. CASE res[k] = Nil /\ AboveResolved(res, k)
      BY <1>1, <1>2, <2>1, <2>2, <3>2 DEF VersionedState
    <3>3. CASE res[k] = Nil /\ ~AboveResolved(res, k)
      BY <1>1, <1>2, <2>1, <2>2, <3>3 DEF VersionedState
    <3> QED BY <3>1, <3>2, <3>3
  <2>3. CASE ~IsApplied(rs, k)
    <3>1. VersionedState(res, rs, k) \in {"Above Target", "Ignored", "Pending", "Unknown"}
      BY <2>3 DEF VersionedState
    <3> QED BY <1>1, <2>1, <2>3, <3>1
  <2> QED BY <2>2, <2>3
<1>3. CASE k \notin Versions
  <2>1. RepeatableState(res, rs, k) \in
          {"Success", "Outdated", "Missing", "Pending", "Unknown"}
    BY DEF RepeatableState
  <2> QED BY <1>1, <1>3, <2>1 DEF StateOf
<1> QED BY <1>2, <1>3

\* What passed validation has no failure that is the last word on its version.
LEMMA ReportedProblems ==
  ASSUME NEW res, NEW rs
  PROVE  FailedKeys(res, rs) \subseteq Problems(res, rs, TRUE)
BY DEF Problems

-----------------------------------------------------------------------------
(* What the statements do to the records.                                  *)

\* UPDATE ... SET checksum leaves every other column alone ...
LEMMA UpdateKeeps ==
  ASSUME NEW rs, rs \subseteq Row, NEW n, NEW c
  PROVE  /\ \A x \in rs : \E y \in UpdateChecksum(rs, n, c) :
              /\ y = [x EXCEPT !.checksum = y.checksum]
              /\ y.rank = x.rank /\ y.type = x.type /\ y.key = x.key
              /\ y.title = x.title /\ y.success = x.success
              /\ y.checksum = IF x.rank = n THEN c ELSE x.checksum
         /\ \A y \in UpdateChecksum(rs, n, c) : \E x \in rs :
              /\ y = [x EXCEPT !.checksum = y.checksum]
              /\ y.rank = x.rank /\ y.type = x.type /\ y.key = x.key
              /\ y.title = x.title /\ y.success = x.success
              /\ y.checksum = IF x.rank = n THEN c ELSE x.checksum
<1> DEFINE U(x) == IF x.rank = n THEN [x EXCEPT !.checksum = c] ELSE x
<1>1. ASSUME NEW x \in rs
      PROVE  /\ U(x) = [x EXCEPT !.checksum = U(x).checksum]
             /\ U(x).rank = x.rank /\ U(x).type = x.type /\ U(x).key = x.key
             /\ U(x).title = x.title /\ U(x).success = x.success
             /\ U(x).checksum = IF x.rank = n THEN c ELSE x.checksum
  BY DEF Row
<1>2. UpdateChecksum(rs, n, c) = {U(x) : x \in rs}
  BY DEF UpdateChecksum
<1> HIDE DEF U
<1> QED BY <1>1, <1>2

\* ... and the ranks stay the primary key.
LEMMA UpdateIsUnique ==
  ASSUME NEW rs, rs \subseteq Row, Unique(rs), NEW n, NEW c
  PROVE  Unique(UpdateChecksum(rs, n, c))
<1> SUFFICES ASSUME NEW x \in UpdateChecksum(rs, n, c),
                    NEW y \in UpdateChecksum(rs, n, c), x.rank = y.rank
             PROVE  x = y
  BY DEF Unique
<1>1. PICK a \in rs : /\ x = [a EXCEPT !.checksum = x.checksum] /\ x.rank = a.rank
                      /\ x.checksum = IF a.rank = n THEN c ELSE a.checksum
  BY UpdateKeeps
<1>2. PICK b \in rs : /\ y = [b EXCEPT !.checksum = y.checksum] /\ y.rank = b.rank
                      /\ y.checksum = IF b.rank = n THEN c ELSE b.checksum
  BY UpdateKeeps
<1>3. a = b
  BY <1>1, <1>2 DEF Unique
<1> QED BY <1>1, <1>2, <1>3

\* A row of a rank that is free keeps it the primary key.
LEMMA InsertIsUnique ==
  ASSUME NEW rs, Unique(rs), NEW x, ~RankTaken(rs, x.rank)
  PROVE  Unique(rs \cup {x})
BY DEF Unique, RankTaken

\* DELETE ... WHERE success = false only removes failures.
LEMMA DeleteKeeps ==
  ASSUME NEW rs
  PROVE  /\ DeleteFailed(rs) \subseteq rs
         /\ \A x \in rs : x.success => x \in DeleteFailed(rs)
         /\ \A x \in DeleteFailed(rs) : x.success
BY DEF DeleteFailed

-----------------------------------------------------------------------------
(* How often a script is recorded as having taken effect.                  *)

Runs(rs, k) == {x \in rs : IsRun(x) /\ x.key = k}
RunRanks(rs, k) == {x.rank : x \in Runs(rs, k)}

\* The ranks count the records, and unlike the records they survive Repair.
LEMMA RunRanksCount ==
  ASSUME NEW rs, rs \subseteq Row, NEW k
  PROVE  /\ IsFiniteSet(RunRanks(rs, k)) /\ Cardinality(RunRanks(rs, k)) \in Nat
         /\ Unique(rs) => Cardinality(Runs(rs, k)) = Cardinality(RunRanks(rs, k))
<1> DEFINE S == Runs(rs, k)
           T == RunRanks(rs, k)
           f == [x \in S |-> x.rank]
<1>1. IsFiniteSet(T) /\ Cardinality(T) \in Nat
  <2>1. T \in SUBSET Ranks
    BY DEF RunRanks, Runs, Row
  <2>2. IsFiniteSet(Ranks)
    BY MaxRankAssumption, FS_Interval DEF Ranks
  <2> HIDE DEF T
  <2> QED BY <2>1, <2>2, FS_Subset, FS_CardinalityType
<1>2. ASSUME Unique(rs) PROVE Cardinality(S) = Cardinality(T)
  <2>1. f \in [S -> T]
    BY DEF RunRanks
  <2>2. \A x, y \in S : f[x] = f[y] => x = y
    BY <1>2 DEF Runs, Unique
  <2>3. \A t \in T : \E x \in S : f[x] = t
    BY DEF RunRanks
  <2> HIDE DEF f, S, T
  <2>4. f \in Injection(S, T) /\ f \in Surjection(S, T)
    BY <2>1, <2>2, <2>3 DEF Injection, Surjection, IsInjective
  <2> QED BY <1>1, <2>4, FS_Injection
<1> QED BY <1>1, <1>2

\* An update of a checksum leaves the ranks of the runs of a script ...
LEMMA RunRanksUpdate ==
  ASSUME NEW rs, rs \subseteq Row, NEW n, NEW c, NEW k
  PROVE  RunRanks(UpdateChecksum(rs, n, c), k) = RunRanks(rs, k)
<1> DEFINE us == UpdateChecksum(rs, n, c)
<1>1. ASSUME NEW x \in Runs(rs, k) PROVE x.rank \in RunRanks(us, k)
  <2>1. PICK y \in us : y.rank = x.rank /\ y.type = x.type /\ y.key = x.key /\ y.success = x.success
    BY UpdateKeeps DEF Runs
  <2> HIDE DEF us
  <2>2. y \in Runs(us, k)
    BY <2>1 DEF Runs, IsRun
  <2> QED BY <2>1, <2>2 DEF RunRanks
<1>2. ASSUME NEW y \in Runs(us, k) PROVE y.rank \in RunRanks(rs, k)
  <2>1. PICK x \in rs : y.rank = x.rank /\ y.type = x.type /\ y.key = x.key /\ y.success = x.success
    BY UpdateKeeps DEF Runs
  <2>2. x \in Runs(rs, k)
    BY <2>1 DEF Runs, IsRun
  <2> QED BY <2>1, <2>2 DEF RunRanks
<1> HIDE DEF us
<1> QED BY <1>1, <1>2 DEF RunRanks, us

\* ... and so does deleting failures ...
LEMMA RunRanksDelete ==
  ASSUME NEW rs, NEW k
  PROVE  RunRanks(DeleteFailed(rs), k) = RunRanks(rs, k)
<1>1. Runs(DeleteFailed(rs), k) = Runs(rs, k)
  BY DEF Runs, IsRun, DeleteFailed
<1> QED BY <1>1 DEF RunRanks

\* ... while an insert adds the rank of a run, and no other.
LEMMA RunRanksInsert ==
  ASSUME NEW rs, NEW x, NEW k, NEW after, after = rs \cup {x}
  PROVE  /\ IsRun(x) /\ x.key = k => RunRanks(after, k) = RunRanks(rs, k) \cup {x.rank}
         /\ ~(IsRun(x) /\ x.key = k) => RunRanks(after, k) = RunRanks(rs, k)
<1>1. ASSUME IsRun(x) /\ x.key = k
      PROVE  RunRanks(after, k) = RunRanks(rs, k) \cup {x.rank}
  <2>1. Runs(after, k) = Runs(rs, k) \cup {x}
    BY <1>1 DEF Runs
  <2> QED BY <2>1 DEF RunRanks
<1>2. ASSUME ~(IsRun(x) /\ x.key = k)
      PROVE  RunRanks(after, k) = RunRanks(rs, k)
  <2>1. Runs(after, k) = Runs(rs, k)
    BY <1>2 DEF Runs
  <2> QED BY <2>1 DEF RunRanks
<1> QED BY <1>1, <1>2

-----------------------------------------------------------------------------
(* The steps, and those that write the table.                              *)

\* Commands are issued one after the other.
OneAtATime == \A p, q \in Sessions : p = q

\* Session p takes a step, whichever.
Acts(p) == (\E c \in Commands : Start(p, c)) \/ Step(p) \/ Failure(p) \/ Load(p)

\* COMMIT reaches the server, whether its answer reaches the session or not.
Commits(p) == Commit(p) \/ CommitAnswerLost(p)

\* Clean removes the history table.
Drops(p) == DropSchema(p) \/ DropObject(p)

\* A step is one session's, or changes the directory of the scripts at most.
LEMMA NextActs ==
  ASSUME [Next]_vars
  PROVE  (\E p \in Sessions : Acts(p)) \/ UNCHANGED <<pc, my, holders, database>>
<1>1. CASE \E k \in Keys, e \in Editions \cup {Nil} : EditScript(k, e)
  BY <1>1 DEF EditScript
<1>2. CASE UNCHANGED vars
  BY <1>2 DEF vars
<1> QED BY <1>1, <1>2 DEF Next, Quiet, Acts

\* The steps that write the history table ...
LEMMA RowChanges ==
  ASSUME NEW p \in Sessions, Acts(p)
  PROVE  \/ rows' = rows /\ (tableExists => tableExists')
         \/ InsertSchemaMarker(p) \/ InsertBaseline(p)
         \/ Commits(p) \/ InsertAfterRun(p)
         \/ DeleteFailedRows(p) \/ UpdateOneChecksum(p)
         \/ Drops(p)
<1>1. CASE (\E c \in Commands : Start(p, c)) \/ Load(p)
  BY <1>1 DEF Start, Load, database
<1>2. CASE SharedStep(p)
  BY <1>2 DEF SharedStep, EnsureSchemas, CreateSchema, HistoryExists, CreateHistory,
    NextInstalledRank, database
<1>3. CASE MigrateStep(p)
  BY <1>3 DEF MigrateStep, AcquireLock, ReadForMigrate, BeforeMigrate, BeginMigration,
    AllApplied, RunInTransaction, InsertInTransaction, RunStatements, AfterMigrate,
    Release, Commits, database
<1>4. CASE OtherStep(p)
  BY <1>4 DEF OtherStep, ReadForBaseline, ReadForRepair, RepairDone, RecreateSchema,
    ListObjects, CleanDone, Drops, database
<1>5. CASE Failure(p)
  BY <1>5 DEF Failure, OperationFails, RunStatementsFails, Crash, LoseLock, Commits,
    database
<1> QED BY <1>1, <1>2, <1>3, <1>4, <1>5 DEF Acts, Step

\* ... and those that change what took effect.
LEMMA EffectChanges ==
  ASSUME NEW p \in Sessions, Acts(p)
  PROVE  effects' = effects \/ RunStatements(p) \/ Commits(p) \/ Drops(p)
<1>1. CASE (\E c \in Commands : Start(p, c)) \/ Load(p)
  BY <1>1 DEF Start, Load, database
<1>2. CASE SharedStep(p)
  BY <1>2 DEF SharedStep, EnsureSchemas, CreateSchema, HistoryExists, CreateHistory,
    NextInstalledRank, InsertSchemaMarker, InsertBaseline, database
<1>3. CASE MigrateStep(p)
  BY <1>3 DEF MigrateStep, AcquireLock, ReadForMigrate, BeforeMigrate, BeginMigration,
    AllApplied, RunInTransaction, InsertInTransaction, InsertAfterRun, AfterMigrate,
    Release, Commits, database
<1>4. CASE OtherStep(p)
  BY <1>4 DEF OtherStep, ReadForBaseline, ReadForRepair, RepairDone, RecreateSchema,
    DeleteFailedRows, UpdateOneChecksum, ListObjects, CleanDone, Drops, database
<1>5. CASE Failure(p)
  BY <1>5 DEF Failure, OperationFails, RunStatementsFails, Crash, LoseLock, Commits,
    database
<1> QED BY <1>1, <1>2, <1>3, <1>4, <1>5 DEF Acts, Step

\* Only an insert inside the transaction leads to COMMIT.
LEMMA ToCommit ==
  ASSUME SessionsOK, NEW p \in Sessions, Acts(p), pc'[p] = "txCommit"
  PROVE  InsertInTransaction(p) \/ LoseLock(p)
<1> USE DEF Goto, Return
<1>0. pc \in [Sessions -> Steps]
  BY DEF SessionsOK
<1>1. ASSUME NEW c \in Commands, Start(p, c) PROVE FALSE
  BY <1>0, <1>1, ConfigurationAssumption DEF Start
<1>2. CASE Load(p)
  BY <1>0, <1>2 DEF Load
<1>3. CASE SharedStep(p)
  BY <1>0, <1>3 DEF SharedStep, EnsureSchemas, CreateSchema, HistoryExists, CreateHistory,
    NextInstalledRank, InsertSchemaMarker, InsertBaseline, AfterCreate, AfterMark
<1>4. CASE MigrateStep(p)
  BY <1>0, <1>4 DEF MigrateStep, AcquireLock, ReadForMigrate, BeforeMigrate,
    BeginMigration, AllApplied, RunInTransaction, Commit, RunStatements,
    InsertAfterRun, AfterMigrate, Release
<1>5. CASE OtherStep(p)
  BY <1>0, <1>5 DEF OtherStep, ReadForBaseline, DeleteFailedRows, ReadForRepair,
    UpdateOneChecksum, RepairDone, DropSchema, RecreateSchema, ListObjects,
    DropObject, CleanDone
<1>6. CASE Failure(p)
  BY <1>0, <1>6 DEF Failure, OperationFails, RunStatementsFails, CommitAnswerLost, Crash
<1> QED BY <1>1, <1>2, <1>3, <1>4, <1>5, <1>6 DEF Acts, Step

\* A session at its COMMIT keeps other commands from dropping the table.
LEMMA CommitKeepsTable ==
  ASSUME NEW p \in Sessions, Drops(p), NEW q \in Sessions, pc[q] = "txCommit"
  PROVE  FALSE
<1>1. CASE DropSchema(p)
  BY <1>1 DEF DropSchema, TableInUse
<1>2. CASE DropObject(p)
  <2>1. q # p
    BY <1>2 DEF DropObject
  <2> QED BY <1>2, <2>1 DEF DropObject, Busy, Writing
<1> QED BY <1>1, <1>2 DEF Drops

-----------------------------------------------------------------------------
(* The primary key.                                                        *)

\* Ranks are unique, also once the transactions that are about to commit have.
RankInv ==
  /\ Unique(rows)
  /\ \A p \in Sessions : pc[p] = "txCommit" => tableExists /\ ~RankTaken(rows, my[p].rank)
  /\ \A p, q \in Sessions :
       pc[p] = "txCommit" /\ pc[q] = "txCommit" /\ my[p].rank = my[q].rank => p = q

\* A session that is not at COMMIT inserts a row under its rank.
LEMMA InsertKeepsRanks ==
  ASSUME SessionsOK, RankInv, NEW p \in Sessions, Acts(p), CanInsert(p),
         pc[p] # "txCommit", pc'[p] # "txCommit", tableExists' = tableExists,
         NEW x, x.rank = my[p].rank, rows' = rows \cup {x}
  PROVE  RankInv'
<1>1. Unique(rows')
  BY InsertIsUnique DEF CanInsert, RankInv
<1>2. \A q \in Sessions : pc'[q] = "txCommit" =>
        q # p /\ pc[q] = "txCommit" /\ my'[q] = my[q]
  BY OthersUnchanged DEF Acts
<1>3. ASSUME NEW q \in Sessions, pc'[q] = "txCommit"
      PROVE  tableExists' /\ ~RankTaken(rows', my'[q].rank)
  <2>1. my[q].rank # my[p].rank /\ ~RankTaken(rows, my[q].rank) /\ tableExists
    BY <1>2, <1>3 DEF CanInsert, RankAwaited, RankInv
  <2> QED BY <1>2, <1>3, <2>1 DEF RankTaken
<1>4. \A q, r \in Sessions :
        pc'[q] = "txCommit" /\ pc'[r] = "txCommit" /\ my'[q].rank = my'[r].rank => q = r
  BY <1>2 DEF RankInv
<1> QED BY <1>1, <1>3, <1>4 DEF RankInv

\* COMMIT makes a row visible whose rank nobody else can have taken.
LEMMA CommitKeepsRanks ==
  ASSUME SessionsOK, RankInv, NEW p \in Sessions, Commits(p)
  PROVE  RankInv'
<1> DEFINE x == SqlRow(my[p].rank, my[p].cur, my[p].res[my[p].cur], TRUE)
<1>1. pc[p] = "txCommit" /\ rows' = rows \cup {x} /\ tableExists' = tableExists
  BY DEF Commits, Commit, CommitAnswerLost, Committed
<1>2. x.rank = my[p].rank
  BY DEF SqlRow
<1> HIDE DEF x
<1>3. Unique(rows')
  BY <1>1, <1>2, InsertIsUnique DEF RankInv
<1>4. pc'[p] # "txCommit"
  BY DEF Commits, Commit, CommitAnswerLost, Goto, SessionsOK
<1>5. Acts(p)
  BY DEF Commits, Acts, Step, MigrateStep, Failure
<1>6. \A q \in Sessions : pc'[q] = "txCommit" =>
        q # p /\ pc[q] = "txCommit" /\ my'[q] = my[q]
  BY <1>4, <1>5, OthersUnchanged DEF Acts
<1>7. ASSUME NEW q \in Sessions, pc'[q] = "txCommit"
      PROVE  tableExists' /\ ~RankTaken(rows', my'[q].rank)
  <2>1. my[q].rank # my[p].rank /\ ~RankTaken(rows, my[q].rank) /\ tableExists
    BY <1>1, <1>6, <1>7 DEF RankInv
  <2> QED BY <1>1, <1>2, <1>6, <1>7, <2>1 DEF RankTaken
<1>8. \A q, r \in Sessions :
        pc'[q] = "txCommit" /\ pc'[r] = "txCommit" /\ my'[q].rank = my'[r].rank => q = r
  BY <1>6 DEF RankInv
<1> QED BY <1>3, <1>7, <1>8 DEF RankInv

\* Rows are removed, or change in another column than the rank.
LEMMA FewerRanks ==
  ASSUME SessionsOK, RankInv, NEW p \in Sessions, Acts(p), Unique(rows'),
         pc'[p] # "txCommit" \/ LoseLock(p),
         \A x \in rows' : \E y \in rows : x.rank = y.rank,
         \A q \in Sessions : pc[q] = "txCommit" /\ tableExists => tableExists'
  PROVE  RankInv'
<1>1. \A q \in Sessions : pc'[q] = "txCommit" => pc[q] = "txCommit" /\ my'[q] = my[q]
  BY OthersUnchanged DEF Acts, LoseLock
<1>2. \A n : RankTaken(rows', n) => RankTaken(rows, n)
  BY DEF RankTaken
<1>3. \A q \in Sessions : pc'[q] = "txCommit" => tableExists' /\ ~RankTaken(rows', my'[q].rank)
  BY <1>1, <1>2 DEF RankInv
<1>4. \A q, r \in Sessions :
        pc'[q] = "txCommit" /\ pc'[r] = "txCommit" /\ my'[q].rank = my'[r].rank => q = r
  BY <1>1 DEF RankInv
<1> QED BY <1>3, <1>4 DEF RankInv

\* Every step of every session keeps the ranks unique ...
LEMMA RankStep ==
  ASSUME TypeInv, RankInv, NEW p \in Sessions, Acts(p)
  PROVE  RankInv'
<1>0. SessionsOK /\ rows \subseteq Row /\ pc \in [Sessions -> Steps]
  BY DEF TypeInv, DatabaseOK, SessionsOK
<1>1. CASE rows' = rows /\ (tableExists => tableExists') /\ pc'[p] # "txCommit"
  BY <1>0, <1>1, FewerRanks DEF RankInv
<1>2. CASE rows' = rows /\ (tableExists => tableExists') /\ pc'[p] = "txCommit"
  <2>1. CASE LoseLock(p)
    BY <1>0, <1>2, <2>1, FewerRanks DEF RankInv
  <2>2. CASE InsertInTransaction(p)
    <3>1. my' = my /\ tableExists' /\ ~RankTaken(rows, my[p].rank)
      BY <1>2, <2>2 DEF InsertInTransaction, CanInsert
    <3>2. \A q \in Sessions : q # p => pc'[q] = pc[q]
      BY <1>0, OthersUnchanged DEF Acts
    <3>3. \A q \in Sessions : q # p /\ pc[q] = "txCommit" => my[q].rank # my[p].rank
      BY <2>2 DEF InsertInTransaction, CanInsert, RankAwaited
    <3> QED BY <1>2, <3>1, <3>2, <3>3 DEF RankInv
  <2> QED BY <1>0, <1>2, <2>1, <2>2, ToCommit
<1>3. CASE InsertSchemaMarker(p)
  <2>1. pc'[p] # "txCommit"
    BY <1>0, <1>3 DEF InsertSchemaMarker, Goto, AfterMark
  <2>2. SchemaRow(my[p].rank).rank = my[p].rank
    BY DEF SchemaRow
  <2> QED BY <1>0, <1>3, <2>1, <2>2, InsertKeepsRanks DEF InsertSchemaMarker
<1>4. CASE InsertBaseline(p)
  <2>1. pc'[p] # "txCommit"
    BY <1>0, <1>4 DEF InsertBaseline, Goto, Return
  <2>2. BaselineRow(my[p].rank, BaselineVersion).rank = my[p].rank
    BY DEF BaselineRow
  <2> QED BY <1>0, <1>4, <2>1, <2>2, InsertKeepsRanks DEF InsertBaseline
<1>5. CASE InsertAfterRun(p)
  <2> DEFINE x == SqlRow(my[p].rank, my[p].cur, my[p].res[my[p].cur], ~my[p].failed)
  <2>1. pc'[p] # "txCommit"
    BY <1>0, <1>5 DEF InsertAfterRun, Goto
  <2>2. x.rank = my[p].rank
    BY DEF SqlRow
  <2>3. rows' = rows \cup {x} /\ CanInsert(p) /\ tableExists' = tableExists /\ pc[p] # "txCommit"
    BY <1>5 DEF InsertAfterRun
  <2> HIDE DEF x
  <2> QED BY <1>0, <2>1, <2>2, <2>3, InsertKeepsRanks
<1>6. CASE Commits(p)
  BY <1>0, <1>6, CommitKeepsRanks
<1>7. CASE DeleteFailedRows(p)
  <2>1. pc'[p] # "txCommit" /\ tableExists' = tableExists /\ rows' = DeleteFailed(rows)
    BY <1>0, <1>7 DEF DeleteFailedRows, Goto
  <2>2. Unique(rows') /\ rows' \subseteq rows
    BY <2>1, DeleteKeeps DEF RankInv, Unique
  <2> QED BY <1>0, <2>1, <2>2, FewerRanks
<1>8. CASE UpdateOneChecksum(p)
  <2>1. pc'[p] # "txCommit" /\ tableExists' = tableExists
    BY <1>0, <1>8 DEF UpdateOneChecksum
  <2>2. PICK f \in my[p].fixes : rows' = UpdateChecksum(rows, f.rank, f.checksum)
    BY <1>8 DEF UpdateOneChecksum
  <2>3. Unique(rows')
    BY <1>0, <2>2, UpdateIsUnique DEF RankInv
  <2>4. \A x \in rows' : \E y \in rows : x.rank = y.rank
    BY <1>0, <2>2, UpdateKeeps
  <2> QED BY <1>0, <2>1, <2>3, <2>4, FewerRanks
<1>9. CASE Drops(p)
  <2>1. rows' = {} \/ rows' = rows
    BY <1>9 DEF Drops, DropSchema, DropObject
  <2>2. pc'[p] # "txCommit"
    BY <1>0, <1>9 DEF Drops, DropSchema, DropObject, Goto
  <2>3. Unique(rows') /\ rows' \subseteq rows
    BY <2>1 DEF RankInv, Unique
  <2> QED BY <1>0, <1>9, <2>2, <2>3, CommitKeepsTable, FewerRanks
<1> QED BY <1>1, <1>2, <1>3, <1>4, <1>5, <1>6, <1>7, <1>8, <1>9, RowChanges

\* ... and the other steps do not touch them.
LEMMA RankNext == TypeInv /\ RankInv /\ [Next]_vars => RankInv'
<1> SUFFICES ASSUME TypeInv, RankInv, [Next]_vars PROVE RankInv'
  OBVIOUS
<1>1. CASE UNCHANGED <<pc, my, holders, database>>
  BY <1>1 DEF RankInv, database
<1> QED BY <1>1, NextActs, RankStep

\* An empty table has no rank twice.
LEMMA RankInit == Init => RankInv
BY DEF Init, RankInv, Unique

-----------------------------------------------------------------------------
(* The history is kept.                                                    *)

\* What RowChanges lists, but Clean, keeps what was recorded except failures.
LEMMA RecordsSurvive ==
  ASSUME TypeInv, NEW p \in Sessions, Acts(p), ~Drops(p), NEW x \in rows, x.success
  PROVE  \E y \in rows' : SameRecord(x, y)
<1>0. rows \subseteq Row
  BY DEF TypeInv, DatabaseOK
<1>1. SameRecord(x, x)
  BY <1>0 DEF SameRecord, Row
<1>2. CASE rows \subseteq rows'
  BY <1>1, <1>2
<1>3. CASE DeleteFailedRows(p)
  BY <1>1, <1>3, DeleteKeeps DEF DeleteFailedRows
<1>4. CASE UpdateOneChecksum(p)
  <2>1. PICK f \in my[p].fixes : rows' = UpdateChecksum(rows, f.rank, f.checksum)
    BY <1>4 DEF UpdateOneChecksum
  <2>2. PICK y \in rows' : y = [x EXCEPT !.checksum = y.checksum]
    BY <1>0, <2>1, UpdateKeeps
  <2> QED BY <2>2 DEF SameRecord
<1>5. InsertSchemaMarker(p) \/ InsertBaseline(p) \/ Commits(p) \/ InsertAfterRun(p)
        => rows \subseteq rows'
  BY DEF InsertSchemaMarker, InsertBaseline, Commits, Commit, CommitAnswerLost,
    Committed, InsertAfterRun
<1> QED BY <1>2, <1>3, <1>4, <1>5, RowChanges

\* Whatever sessions do at the same time, a record goes only with the table or when
\* it is one of a failure, and only its checksum changes: no insert overwrites a
\* row, and Repair, which names rows by their rank, leaves every other column alone.
THEOREM HistoryKept == Spec => HistoryIsKept
<1> DEFINE Kept == \A x \in rows : \/ \E y \in rows' : SameRecord(x, y)
                                   \/ ~x.success
                                   \/ ~tableExists'
<1>1. TypeInv /\ [Next]_vars => [Kept]_vars
  <2> SUFFICES ASSUME TypeInv, [Next]_vars, NEW x \in rows, x.success, tableExists',
                      ~ UNCHANGED vars
               PROVE  \E y \in rows' : SameRecord(x, y)
    OBVIOUS
  <2>1. rows \subseteq Row
    BY DEF TypeInv, DatabaseOK
  <2>2. CASE UNCHANGED rows
    BY <2>1, <2>2 DEF SameRecord, Row
  <2>3. ASSUME NEW p \in Sessions, Acts(p) PROVE \E y \in rows' : SameRecord(x, y)
    <3>1. CASE Drops(p)
      <4>1. rows' = rows
        BY <3>1 DEF Drops, DropSchema, DropObject
      <4> QED BY <2>2, <4>1
    <3>2. CASE ~Drops(p)
      BY <2>3, <3>2, RecordsSurvive
    <3> QED BY <3>1, <3>2
  <2> QED BY <2>2, <2>3, NextActs DEF database
<1> QED BY <1>1, TypeInit, TypeNext, PTL DEF Spec, HistoryIsKept

-----------------------------------------------------------------------------
(* Effects and their records.                                              *)

\* Which steps add to the records of script k that took effect.
LEMMA RunsKept ==
  ASSUME TypeInv, NEW p \in Sessions, Acts(p), ~Drops(p), NEW k,
         Commits(p) => my[p].cur # k,
         InsertAfterRun(p) => my[p].failed \/ my[p].cur # k
  PROVE  RunRanks(rows', k) = RunRanks(rows, k)
<1>0. rows \subseteq Row
  BY DEF TypeInv, DatabaseOK
<1>1. ASSUME NEW x, rows' = rows \cup {x}, ~(IsRun(x) /\ x.key = k)
      PROVE  RunRanks(rows', k) = RunRanks(rows, k)
  BY <1>1, RunRanksInsert
<1>2. CASE InsertSchemaMarker(p)
  BY <1>1, <1>2 DEF InsertSchemaMarker, SchemaRow, IsRun
<1>3. CASE InsertBaseline(p)
  <2> DEFINE x == BaselineRow(my[p].rank, BaselineVersion)
  <2>1. rows' = rows \cup {x} /\ ~IsRun(x)
    BY <1>3 DEF InsertBaseline, BaselineRow, IsRun
  <2> HIDE DEF x
  <2> QED BY <1>1, <2>1
<1>4. CASE InsertAfterRun(p)
  <2> DEFINE x == SqlRow(my[p].rank, my[p].cur, my[p].res[my[p].cur], ~my[p].failed)
  <2>1. rows' = rows \cup {x}
    BY <1>4 DEF InsertAfterRun
  <2>2. ~(IsRun(x) /\ x.key = k)
    BY <1>4 DEF SqlRow, IsRun
  <2> HIDE DEF x
  <2> QED BY <1>1, <2>1, <2>2
<1>5. CASE Commits(p)
  <2> DEFINE x == SqlRow(my[p].rank, my[p].cur, my[p].res[my[p].cur], TRUE)
  <2>1. rows' = rows \cup {x}
    BY <1>5 DEF Commits, Commit, CommitAnswerLost, Committed
  <2>2. x.key # k
    BY <1>5 DEF SqlRow
  <2> HIDE DEF x
  <2> QED BY <1>1, <2>1, <2>2
<1>6. CASE DeleteFailedRows(p)
  BY <1>6, RunRanksDelete DEF DeleteFailedRows
<1>7. CASE UpdateOneChecksum(p)
  <2>1. PICK f \in my[p].fixes : rows' = UpdateChecksum(rows, f.rank, f.checksum)
    BY <1>7 DEF UpdateOneChecksum
  <2> QED BY <1>0, <2>1, RunRanksUpdate
<1> QED BY <1>2, <1>3, <1>4, <1>5, <1>6, <1>7, RowChanges

\* A commit, or the insert after a run that went well, adds one record ...
LEMMA RunAdded ==
  ASSUME TypeInv, RankInv, NEW p \in Sessions,
         Commits(p) \/ (InsertAfterRun(p) /\ ~my[p].failed)
  PROVE  Cardinality(RunRanks(rows', my[p].cur)) = Cardinality(RunRanks(rows, my[p].cur)) + 1
<1> DEFINE k == my[p].cur
           x == SqlRow(my[p].rank, k, my[p].res[k], TRUE)
<1>1. rows' = rows \cup {x} /\ ~RankTaken(rows, my[p].rank)
  <2>1. CASE Commits(p)
    BY <2>1 DEF Commits, Commit, CommitAnswerLost, Committed, RankInv
  <2>2. CASE InsertAfterRun(p) /\ ~my[p].failed
    <3>1. (~my[p].failed) = TRUE
      BY <2>2
    <3> QED BY <2>2, <3>1 DEF InsertAfterRun, CanInsert
  <2> QED BY <2>1, <2>2
<1>2. IsRun(x) /\ x.key = k /\ x.rank = my[p].rank
  BY DEF SqlRow, IsRun
<1> HIDE DEF x, k
<1>3. RunRanks(rows', k) = RunRanks(rows, k) \cup {my[p].rank}
  BY <1>1, <1>2, RunRanksInsert
<1>4. my[p].rank \notin RunRanks(rows, k)
  BY <1>1 DEF RankTaken, RunRanks, Runs
<1>5. IsFiniteSet(RunRanks(rows, k))
  BY RunRanksCount DEF TypeInv, DatabaseOK
<1> QED BY <1>3, <1>4, <1>5, FS_AddElement DEF k

\* ... and a commit, or a run, one effect.
LEMMA EffectAdded ==
  ASSUME TypeInv, NEW p \in Sessions, Commits(p) \/ RunStatements(p)
  PROVE  /\ my[p].cur \in Keys /\ my[p].text \in Editions
         /\ effects[my[p].cur] \in Seq(Editions)
         /\ effects'[my[p].cur] = Append(effects[my[p].cur], my[p].text)
         /\ Len(effects'[my[p].cur]) = Len(effects[my[p].cur]) + 1
         /\ \A k \in Keys : k # my[p].cur => effects'[k] = effects[k]
<1>1. pc[p] \in Applying
  BY DEF Commits, Commit, CommitAnswerLost, RunStatements, Applying
<1>2. my[p].cur \in Keys /\ my[p].text \in Editions
  BY <1>1, Registered DEF TypeInv
<1>3. effects \in [Keys -> Seq(Editions)]
  BY DEF TypeInv, DatabaseOK
<1>4. effects' = [effects EXCEPT ![my[p].cur] = Append(effects[my[p].cur], my[p].text)]
  BY DEF Commits, Commit, CommitAnswerLost, Committed, RunStatements
<1>5. /\ effects'[my[p].cur] = Append(effects[my[p].cur], my[p].text)
      /\ \A k \in Keys : k # my[p].cur => effects'[k] = effects[k]
  BY <1>2, <1>3, <1>4
<1>6. effects[my[p].cur] \in Seq(Editions)
  BY <1>2, <1>3
<1> QED BY <1>2, <1>5, <1>6

-----------------------------------------------------------------------------
(* Transactional scripts.                                                  *)

ExactInv == \A k \in Keys \ NoTransaction : Cardinality(RunRanks(rows, k)) = Len(effects[k])

\* Every step keeps the count of a transactional script's records and effects equal.
LEMMA ExactStep ==
  ASSUME Postgres, TypeInv, RankInv, ExactInv, NEW p \in Sessions, Acts(p),
         NEW k \in Keys \ NoTransaction
  PROVE  Cardinality(RunRanks(rows', k)) = Len(effects'[k])
<1>1. CASE Drops(p)
  <2>1. rows' = {} /\ effects' = NoEffects
    BY <1>1 DEF Drops, DropSchema, DropObject
  <2>2. RunRanks({}, k) = {}
    BY DEF RunRanks, Runs
  <2>3. effects'[k] = <<>>
    BY <2>1 DEF NoEffects
  <2> QED BY <2>1, <2>2, <2>3, FS_EmptySet
<1>2. CASE Commits(p) /\ my[p].cur = k
  <2>1. Cardinality(RunRanks(rows', k)) = Cardinality(RunRanks(rows, k)) + 1
    BY <1>2, RunAdded
  <2>2. Len(effects'[k]) = Len(effects[k]) + 1
    BY <1>2, EffectAdded
  <2> QED BY <2>1, <2>2 DEF ExactInv
<1>3. CASE ~Drops(p) /\ ~(Commits(p) /\ my[p].cur = k)
  <2>1. InsertAfterRun(p) \/ RunStatements(p) => my[p].cur # k
    BY DEF InsertAfterRun, RunStatements, TypeInv, SessionsOK, Fits
  <2>2. RunRanks(rows', k) = RunRanks(rows, k)
    BY <1>3, <2>1, RunsKept
  <2>3. effects'[k] = effects[k]
    BY <1>3, <2>1, EffectChanges, EffectAdded
  <2> QED BY <2>2, <2>3 DEF ExactInv
<1> QED BY <1>1, <1>2, <1>3

\* On PostgreSQL a transactional script has as many successful rows as effects, even
\* if the lock is lost: statements and row commit together, the rank that was read
\* before may be taken but is then refused, Repair removes no success and may
\* change a row but not how many there are, and Clean takes all or nothing.
THEOREM RecordedExactly ==
  ASSUME Postgres
  PROVE  Spec => []TransactionalIsExact
<1>1. Init => ExactInv
  <2> SUFFICES ASSUME Init, NEW k \in Keys
               PROVE  Cardinality(RunRanks(rows, k)) = Len(effects[k])
    BY DEF ExactInv
  <2>1. RunRanks({}, k) = {}
    BY DEF RunRanks, Runs
  <2>2. rows = {} /\ effects[k] = <<>>
    BY DEF Init, NoEffects
  <2> QED BY <2>1, <2>2, FS_EmptySet
<1>2. TypeInv /\ RankInv /\ ExactInv /\ [Next]_vars => ExactInv'
  <2> SUFFICES ASSUME TypeInv, RankInv, ExactInv, [Next]_vars PROVE ExactInv'
    OBVIOUS
  <2>1. CASE UNCHANGED <<pc, my, holders, database>>
    BY <2>1 DEF ExactInv, database
  <2>2. CASE \E p \in Sessions : Acts(p)
    BY <2>2, ExactStep DEF ExactInv
  <2> QED BY <2>1, <2>2, NextActs
<1>3. TypeInv /\ RankInv /\ ExactInv => TransactionalIsExact
  <2> SUFFICES ASSUME TypeInv, RankInv, ExactInv, NEW k \in Keys \ NoTransaction
               PROVE  Cardinality(RunsOf(k)) = Len(effects[k])
    BY DEF TransactionalIsExact
  <2>1. RunsOf(k) = Runs(rows, k)
    BY DEF RunsOf, SqlRows, Runs, IsRun
  <2> QED BY <2>1, RunRanksCount DEF ExactInv, RankInv, TypeInv, DatabaseOK
<1> QED
  BY <1>1, <1>2, <1>3, TypeInit, TypeNext, RankInit, RankNext, PTL DEF Spec

-----------------------------------------------------------------------------
(* Which command a step belongs to, and what a session that applies a      *)
(* script keeps in its registers.                                          *)

\* A session is inside a command that was issued, at a step of that command.
CommandInv ==
  \A p \in Sessions :
    /\ my[p].cmd \in Commands \cup {"none"}
    /\ pc[p] # "idle" => my[p].cmd # "none"
    /\ pc[p] \in {"list", "drop", "recreate"} => my[p].cmd = "clean"
    /\ pc[p] \in {"delete", "update"} => my[p].cmd = "repair"

\* What a session's step does to its own command.
LEMMA OwnCommand ==
  ASSUME SessionsOK, NEW p \in Sessions, Acts(p)
  PROVE  \/ pc'[p] = "idle" /\ my'[p].cmd = "none"
         \/ my'[p].cmd = my[p].cmd /\ (pc'[p] # pc[p] => pc[p] # "idle")
         \/ pc[p] = "idle" /\ \E c \in Commands : Start(p, c)
<1> USE DEF Goto, Return, Loaded
<1>0. /\ pc \in [Sessions -> Steps] /\ my \in [Sessions -> Registers]
      /\ my[p] \in Registers /\ Fits(pc[p], my[p])
  BY DEF SessionsOK
<1>1. CASE \E c \in Commands : Start(p, c)
  BY <1>1 DEF Start
<1>2. CASE Load(p)
  BY <1>0, <1>2 DEF Load
<1>3. CASE SharedStep(p)
  BY <1>0, <1>3 DEF SharedStep, EnsureSchemas, CreateSchema, HistoryExists, CreateHistory,
    NextInstalledRank, InsertSchemaMarker, InsertBaseline, Registers
<1>4. CASE MigrateStep(p)
  <2>1. CASE ReadForMigrate(p)
    <3>1. \/ my' = [my EXCEPT ![p].ok = FALSE]
          \/ my' = [my EXCEPT ![p].todo = Pending(my[p].res, rows)]
      BY <2>1 DEF ReadForMigrate
    <3> QED BY <1>0, <2>1, <3>1 DEF Registers, ReadForMigrate
  <2>2. CASE BeginMigration(p)
    BY <1>0, <2>2 DEF BeginMigration, Registers
  <2>3. CASE ~ReadForMigrate(p) /\ ~BeginMigration(p)
    BY <1>0, <1>4, <2>3 DEF MigrateStep, AcquireLock, BeforeMigrate,
      AllApplied, RunInTransaction, InsertInTransaction, Commit, EntryDone, RunStatements,
      InsertAfterRun, AfterMigrate, Release, Registers
  <2> QED BY <2>1, <2>2, <2>3
<1>5. CASE OtherStep(p)
  BY <1>0, <1>5 DEF OtherStep, ReadForBaseline, DeleteFailedRows, ReadForRepair,
    UpdateOneChecksum, RepairDone, DropSchema, RecreateSchema, ListObjects,
    DropObject, CleanDone, Registers
<1>6. CASE Failure(p)
  BY <1>0, <1>6 DEF Failure, OperationFails, RunStatementsFails, CommitAnswerLost, Crash,
    LoseLock, Registers
<1> QED BY <1>1, <1>2, <1>3, <1>4, <1>5, <1>6 DEF Acts, Step

\* The steps of Clean and Repair that follow others.
LEMMA ToClean ==
  ASSUME SessionsOK, NEW p \in Sessions, Acts(p),
         pc'[p] \in {"list", "drop", "recreate", "delete", "update"}
  PROVE  \/ \E c \in Commands : Start(p, c)
         \/ /\ pc'[p] \in {"list", "drop", "recreate"}
            /\ pc[p] \in {"list", "drop", "recreate"}
         \/ pc'[p] \in {"delete", "update"} /\ my[p].cmd = "repair"
         \/ pc'[p] = "update" /\ pc[p] = "update"
         \/ pc'[p] = pc[p]
<1> USE DEF Goto, Return
<1>0. pc \in [Sessions -> Steps]
  BY DEF SessionsOK
<1>2. CASE Load(p)
  BY <1>0, <1>2 DEF Load
<1>3. CASE SharedStep(p)
  BY <1>0, <1>3 DEF SharedStep, EnsureSchemas, CreateSchema, HistoryExists, CreateHistory,
    NextInstalledRank, InsertSchemaMarker, InsertBaseline, AfterCreate, AfterMark
<1>4. CASE MigrateStep(p)
  BY <1>0, <1>4 DEF MigrateStep, AcquireLock, ReadForMigrate, BeforeMigrate,
    BeginMigration, AllApplied, RunInTransaction, InsertInTransaction, Commit,
    RunStatements, InsertAfterRun, AfterMigrate, Release
<1>5. CASE OtherStep(p)
  BY <1>0, <1>5 DEF OtherStep, ReadForBaseline, DeleteFailedRows, ReadForRepair,
    UpdateOneChecksum, RepairDone, DropSchema, RecreateSchema, ListObjects,
    DropObject, CleanDone
<1>6. CASE Failure(p)
  BY <1>0, <1>6 DEF Failure, OperationFails, RunStatementsFails, CommitAnswerLost, Crash,
    LoseLock
<1> QED BY <1>2, <1>3, <1>4, <1>5, <1>6 DEF Acts, Step

\* No session runs a command at first.
LEMMA CommandInit == Init => CommandInv
BY DEF Init, CommandInv, Loaded

\* Every step leaves a session inside the command it is a step of.
LEMMA CommandNext == TypeInv /\ CommandInv /\ [Next]_vars => CommandInv'
<1> SUFFICES ASSUME TypeInv, CommandInv, [Next]_vars PROVE CommandInv'
  OBVIOUS
<1>1. CASE UNCHANGED <<pc, my, holders, database>>
  BY <1>1 DEF CommandInv
<1>2. ASSUME NEW p \in Sessions, Acts(p) PROVE CommandInv'
  <2>0. SessionsOK
    BY DEF TypeInv
  <2> DEFINE OK(step, cmd) ==
        /\ cmd \in Commands \cup {"none"}
        /\ step # "idle" => cmd # "none"
        /\ step \in {"list", "drop", "recreate"} => cmd = "clean"
        /\ step \in {"delete", "update"} => cmd = "repair"
  <2>1. ASSUME NEW q \in Sessions PROVE OK(pc'[q], my'[q].cmd)
    <3>1. CASE q # p
      BY <1>2, <2>0, <3>1, OthersUnchanged DEF Acts, CommandInv
    <3>2. CASE q = p /\ \E c \in Commands : Start(p, c)
      BY <2>0, <3>2, ConfigurationAssumption DEF Start, Goto, SessionsOK, Registers
    <3>3. CASE q = p /\ ~(\E c \in Commands : Start(p, c))
      <4>1. \/ pc'[p] = "idle" /\ my'[p].cmd = "none"
            \/ my'[p].cmd = my[p].cmd /\ (pc'[p] # pc[p] => pc[p] # "idle")
        BY <1>2, <2>0, <3>3, OwnCommand
      <4>2. OK(pc[p], my[p].cmd)
        BY DEF CommandInv
      <4> QED BY <1>2, <2>0, <3>3, <4>1, <4>2, ToClean
    <3> QED BY <3>1, <3>2, <3>3
  <2> QED BY <2>1 DEF CommandInv
<1> QED BY <1>1, <1>2, NextActs

\* A session that applies a script has just begun it, or goes on with the same.
LEMMA ToApplying ==
  ASSUME SessionsOK, NEW p \in Sessions, Acts(p), pc'[p] \in Applying
  PROVE  \/ BeginMigration(p)
         \/ /\ pc[p] \in Applying
            /\ my'[p].cur = my[p].cur /\ my'[p].text = my[p].text
            /\ my'[p].res = my[p].res /\ my'[p].todo = my[p].todo
            /\ my'[p].cmd = my[p].cmd
<1> USE DEF Goto, Return, Applying
<1>0. /\ pc \in [Sessions -> Steps] /\ my \in [Sessions -> Registers]
      /\ my[p] \in Registers
  BY DEF SessionsOK
<1>1. ASSUME NEW c \in Commands, Start(p, c) PROVE FALSE
  BY <1>0, <1>1, ConfigurationAssumption DEF Start
<1>2. CASE Load(p)
  BY <1>0, <1>2 DEF Load
<1>3. CASE SharedStep(p)
  BY <1>0, <1>3 DEF SharedStep, EnsureSchemas, CreateSchema, HistoryExists, CreateHistory,
    NextInstalledRank, InsertSchemaMarker, InsertBaseline, AfterCreate, AfterMark, Registers
<1>4. CASE MigrateStep(p)
  BY <1>0, <1>4 DEF MigrateStep, AcquireLock, ReadForMigrate, BeforeMigrate,
    AllApplied, RunInTransaction, InsertInTransaction, Commit, RunStatements,
    InsertAfterRun, AfterMigrate, Release
<1>5. CASE OtherStep(p)
  BY <1>0, <1>5 DEF OtherStep, ReadForBaseline, DeleteFailedRows, ReadForRepair,
    UpdateOneChecksum, RepairDone, DropSchema, RecreateSchema, ListObjects,
    DropObject, CleanDone
<1>6. CASE Failure(p)
  BY <1>0, <1>6 DEF Failure, OperationFails, RunStatementsFails, CommitAnswerLost, Crash,
    LoseLock, Registers
<1> QED BY <1>1, <1>2, <1>3, <1>4, <1>5, <1>6 DEF Acts, Step

\* A script that ran outside a transaction and is not recorded yet.
Unrecorded(p) == pc[p] \in {"runRank", "runInsert"} /\ ~my[p].failed

\* A script comes to be unrecorded by running.
LEMMA ToUnrecorded ==
  ASSUME SessionsOK, NEW p \in Sessions, Acts(p), Unrecorded(p)'
  PROVE  /\ RunStatements(p) \/ (Unrecorded(p) /\ ~InsertAfterRun(p))
         /\ my'[p].cur = my[p].cur /\ my'[p].text = my[p].text
<1> USE DEF Goto, Return, Unrecorded
<1>0. /\ pc \in [Sessions -> Steps] /\ my \in [Sessions -> Registers]
      /\ my[p] \in Registers
  BY DEF SessionsOK
<1>1. ASSUME NEW c \in Commands, Start(p, c) PROVE FALSE
  BY <1>0, <1>1, ConfigurationAssumption DEF Start
<1>2. CASE Load(p)
  BY <1>0, <1>2 DEF Load
<1>3. CASE SharedStep(p)
  <2>1. CASE NextInstalledRank(p)
    <3>1. PICK n \in Ranks : my' = [my EXCEPT ![p].rank = n]
      BY <2>1 DEF NextInstalledRank
    <3>2. pc[p] = "runRank" /\ pc'[p] = "runInsert"
      BY <1>0, <2>1 DEF NextInstalledRank
    <3> QED BY <1>0, <3>1, <3>2 DEF Registers, InsertAfterRun
  <2>2. CASE ~NextInstalledRank(p)
    BY <1>0, <1>3, <2>2 DEF SharedStep, EnsureSchemas, CreateSchema, HistoryExists,
      CreateHistory, InsertSchemaMarker, InsertBaseline, AfterCreate, AfterMark
  <2> QED BY <2>1, <2>2
<1>4. CASE MigrateStep(p)
  BY <1>0, <1>4 DEF MigrateStep, AcquireLock, ReadForMigrate, BeforeMigrate, BeginMigration,
    AllApplied, RunInTransaction, InsertInTransaction, Commit, RunStatements,
    InsertAfterRun, AfterMigrate, Release
<1>5. CASE OtherStep(p)
  BY <1>0, <1>5 DEF OtherStep, ReadForBaseline, DeleteFailedRows, ReadForRepair,
    UpdateOneChecksum, RepairDone, DropSchema, RecreateSchema, ListObjects,
    DropObject, CleanDone
<1>6. CASE Failure(p)
  BY <1>0, <1>6 DEF Failure, OperationFails, RunStatementsFails, CommitAnswerLost, Crash,
    LoseLock, Registers, InsertAfterRun
<1> QED BY <1>1, <1>2, <1>3, <1>4, <1>5, <1>6 DEF Acts, Step

\* Clean is not among the commands, so nothing is dropped.
LEMMA NoDrops ==
  ASSUME CommandInv, "clean" \notin Commands, NEW p \in Sessions
  PROVE  ~Drops(p)
BY DEF CommandInv, Drops, DropSchema, DropObject

-----------------------------------------------------------------------------
(* Scripts that opted out of the transaction.                              *)

\* The sessions that ran script k and have yet to record it.
InFlight(k) == {p \in Sessions : Unrecorded(p) /\ my[p].cur = k}

\* Every record, present or still owed, has an effect of its own.
WasRunInv ==
  \A k \in NoTransaction :
    /\ IsFiniteSet(InFlight(k))
    /\ Cardinality(RunRanks(rows, k)) + Cardinality(InFlight(k)) <= Len(effects[k])

\* A session owes the record of k from running k to inserting it, or to giving up.
LEMMA InFlightKept ==
  ASSUME SessionsOK, NEW p \in Sessions, Acts(p), NEW k
  PROVE  /\ InFlight(k)' \subseteq InFlight(k) \cup {p}
         /\ ~(RunStatements(p) /\ my[p].cur = k) => InFlight(k)' \subseteq InFlight(k)
         /\ InsertAfterRun(p) => p \notin InFlight(k)'
<1>1. ASSUME NEW q \in InFlight(k)', q # p PROVE q \in InFlight(k)
  <2>1. q \in Sessions /\ pc'[q] = pc[q] /\ my'[q] = my[q]
    BY <1>1, OthersUnchanged DEF InFlight, Acts
  <2> QED BY <1>1, <2>1 DEF InFlight, Unrecorded
<1>2. ASSUME p \in InFlight(k)', ~(RunStatements(p) /\ my[p].cur = k)
      PROVE  p \in InFlight(k) /\ ~InsertAfterRun(p)
  <2>1. Unrecorded(p)' /\ my'[p].cur = k
    BY <1>2 DEF InFlight
  <2>2. /\ RunStatements(p) \/ (Unrecorded(p) /\ ~InsertAfterRun(p))
        /\ my'[p].cur = my[p].cur
    BY <2>1, ToUnrecorded
  <2> QED BY <1>2, <2>1, <2>2 DEF InFlight
<1>3. ~(RunStatements(p) /\ InsertAfterRun(p))
  BY DEF RunStatements, InsertAfterRun
<1> QED BY <1>1, <1>2, <1>3

\* Every step keeps the count of what ran at or above the count of what was recorded ...
LEMMA WasRunStep ==
  ASSUME TypeInv, RankInv, WasRunInv, NEW p \in Sessions, Acts(p), ~Drops(p),
         NEW k \in NoTransaction
  PROVE  /\ IsFiniteSet(InFlight(k)')
         /\ Cardinality(RunRanks(rows', k)) + Cardinality(InFlight(k)') <= Len(effects'[k])
<1> DEFINE A == InFlight(k)
           B == InFlight(k)'
           n == Cardinality(RunRanks(rows, k))
           m == Cardinality(RunRanks(rows', k))
<1>0. SessionsOK /\ k \in Keys /\ rows \subseteq Row /\ effects \in [Keys -> Seq(Editions)]
  BY ConfigurationAssumption DEF TypeInv, DatabaseOK
<1>1. /\ B \subseteq A \cup {p}
      /\ ~(RunStatements(p) /\ my[p].cur = k) => B \subseteq A
      /\ InsertAfterRun(p) => p \notin B
  BY <1>0, InFlightKept
<1>2. IsFiniteSet(A) /\ n + Cardinality(A) <= Len(effects[k])
  BY DEF WasRunInv
<1>3. n \in Nat /\ Len(effects[k]) \in Nat
  <2>1. effects[k] \in Seq(Editions)
    BY <1>0
  <2> QED BY <1>0, <2>1, RunRanksCount
<1>4. ~(RunStatements(p) /\ Commits(p)) /\ ~(RunStatements(p) /\ InsertAfterRun(p))
        /\ ~(Commits(p) /\ InsertAfterRun(p))
  BY DEF RunStatements, Commits, Commit, CommitAnswerLost, InsertAfterRun
<1>5. InsertAfterRun(p) /\ ~my[p].failed /\ my[p].cur = k => p \in A
  BY DEF InsertAfterRun, InFlight, Unrecorded
<1> HIDE DEF A, B, n, m
<1>6. Cardinality(A) \in Nat
  BY <1>2, FS_CardinalityType
<1>7. ASSUME B \subseteq A
      PROVE  IsFiniteSet(B) /\ Cardinality(B) \in Nat /\ Cardinality(B) <= Cardinality(A)
  BY <1>2, <1>7, FS_Subset, FS_CardinalityType
<1>8. CASE RunStatements(p) /\ my[p].cur = k
  <2>1. m = n
    BY <1>4, <1>8, RunsKept DEF m, n
  <2>2. Len(effects'[k]) = Len(effects[k]) + 1
    BY <1>8, EffectAdded
  <2>3. IsFiniteSet(A \cup {p}) /\ Cardinality(A \cup {p}) <= Cardinality(A) + 1
          /\ Cardinality(A \cup {p}) \in Nat
    <3>1. CASE p \in A
      <4>1. A \cup {p} = A
        BY <3>1
      <4>2. Cardinality(A) <= Cardinality(A) + 1
        BY <1>6
      <4> QED BY <1>2, <1>6, <4>1, <4>2, Zenon
    <3>2. CASE p \notin A
      <4>1. IsFiniteSet(A \cup {p}) /\ Cardinality(A \cup {p}) = Cardinality(A) + 1
        BY <1>2, <3>2, FS_AddElement
      <4> QED BY <1>6, <4>1
    <3> QED BY <3>1, <3>2
  <2>4. IsFiniteSet(B) /\ Cardinality(B) <= Cardinality(A \cup {p}) /\ Cardinality(B) \in Nat
    BY <1>1, <2>3, FS_Subset, FS_CardinalityType
  <2> QED BY <1>2, <1>3, <1>6, <2>1, <2>2, <2>3, <2>4 DEF B, m
<1>9. CASE InsertAfterRun(p) /\ ~my[p].failed /\ my[p].cur = k
  <2>1. m = n + 1
    BY <1>9, RunAdded DEF m, n
  <2>2. effects' = effects
    BY <1>9 DEF InsertAfterRun
  <2>3. B \subseteq A \ {p}
    BY <1>1, <1>4, <1>9
  <2>4. IsFiniteSet(A \ {p}) /\ Cardinality(A \ {p}) = Cardinality(A) - 1
    BY <1>2, <1>5, <1>9, FS_RemoveElement
  <2>5. IsFiniteSet(B) /\ Cardinality(B) <= Cardinality(A \ {p}) /\ Cardinality(B) \in Nat
    BY <2>3, <2>4, FS_Subset, FS_CardinalityType
  <2> QED BY <1>2, <1>3, <1>6, <2>1, <2>2, <2>4, <2>5 DEF B, m
<1>10. CASE Commits(p) /\ my[p].cur = k
  <2>1. m = n + 1
    BY <1>10, RunAdded DEF m, n
  <2>2. Len(effects'[k]) = Len(effects[k]) + 1
    BY <1>10, EffectAdded
  <2> QED BY <1>1, <1>2, <1>3, <1>4, <1>6, <1>7, <1>10, <2>1, <2>2 DEF B, m
<1>11. CASE my[p].cur # k \/ ~(RunStatements(p) \/ Commits(p)
                               \/ (InsertAfterRun(p) /\ ~my[p].failed))
  <2>1. m = n
    BY <1>11, RunsKept DEF m, n
  <2>2. effects'[k] = effects[k]
    BY <1>0, <1>11, EffectChanges, EffectAdded
  <2> QED BY <1>1, <1>2, <1>3, <1>6, <1>7, <1>11, <2>1, <2>2 DEF B, m
<1> QED BY <1>8, <1>9, <1>10, <1>11

\* Nothing is recorded, owed or in effect at the start.
LEMMA WasRunInit == Init => WasRunInv
<1> SUFFICES ASSUME Init, NEW k \in NoTransaction
             PROVE  /\ IsFiniteSet(InFlight(k))
                    /\ Cardinality(RunRanks(rows, k)) + Cardinality(InFlight(k))
                         <= Len(effects[k])
  BY DEF WasRunInv
<1>1. RunRanks({}, k) = {}
  BY DEF RunRanks, Runs
<1>2. k \in Keys
  BY ConfigurationAssumption
<1>3. rows = {} /\ effects[k] = <<>>
  BY <1>2 DEF Init, NoEffects
<1>4. InFlight(k) = {}
  BY DEF Init, InFlight, Unrecorded
<1>5. /\ Cardinality(RunRanks(rows, k)) = 0 /\ Len(effects[k]) = 0
      /\ Cardinality(InFlight(k)) = 0 /\ IsFiniteSet(InFlight(k))
  BY <1>1, <1>3, <1>4, FS_EmptySet
<1> QED BY <1>5

\* ... where no session cleans.
LEMMA WasRunNext ==
  ASSUME "clean" \notin Commands
  PROVE  TypeInv /\ RankInv /\ CommandInv /\ WasRunInv /\ [Next]_vars => WasRunInv'
<1> SUFFICES ASSUME TypeInv, RankInv, CommandInv, WasRunInv, [Next]_vars PROVE WasRunInv'
  OBVIOUS
<1>1. CASE UNCHANGED <<pc, my, holders, database>>
  BY <1>1 DEF WasRunInv, InFlight, Unrecorded, database
<1>2. CASE \E p \in Sessions : Acts(p)
  <2>1. PICK p \in Sessions : Acts(p)
    BY <1>2
  <2>2. ~Drops(p)
    BY NoDrops
  <2>3. \A k \in NoTransaction :
          /\ IsFiniteSet(InFlight(k)')
          /\ Cardinality(RunRanks(rows', k)) + Cardinality(InFlight(k)') <= Len(effects'[k])
    BY <2>1, <2>2, WasRunStep
  <2> QED BY <2>3 DEF WasRunInv
<1> QED BY <1>1, <1>2, NextActs

\* Without Clean, on either dialect, no script outside a transaction has more
\* successful records than effects, also when sessions race or the lock is lost: a
\* record is inserted at most once for each run, and by the session that ran it.
THEOREM RunBeforeRecorded ==
  ASSUME "clean" \notin Commands
  PROVE  Spec => []RecordedWasRun
<1>1. TypeInv /\ RankInv /\ WasRunInv => RecordedWasRun
  <2> SUFFICES ASSUME TypeInv, RankInv, WasRunInv, NEW k \in NoTransaction
               PROVE  Cardinality(RunsOf(k)) <= Len(effects[k])
    BY DEF RecordedWasRun
  <2>1. RunsOf(k) = Runs(rows, k)
    BY DEF RunsOf, SqlRows, Runs, IsRun
  <2>2. k \in Keys /\ rows \subseteq Row /\ effects \in [Keys -> Seq(Editions)]
    BY ConfigurationAssumption DEF TypeInv, DatabaseOK
  <2>3. Cardinality(RunsOf(k)) = Cardinality(RunRanks(rows, k))
          /\ Cardinality(RunRanks(rows, k)) \in Nat
    BY <2>1, <2>2, RunRanksCount DEF RankInv
  <2>4. Cardinality(InFlight(k)) \in Nat /\ Len(effects[k]) \in Nat
    BY <2>2, FS_CardinalityType DEF WasRunInv
  <2> QED BY <2>3, <2>4 DEF WasRunInv
<1> QED
  BY <1>1, TypeInit, TypeNext, RankInit, RankNext, CommandInit, CommandNext, WasRunInit,
     WasRunNext, PTL DEF Spec

-----------------------------------------------------------------------------
(* The checksums that are recorded.                                        *)

\* Among the effects es of script k is one whose text has checksum c.
Took(es, k, c) == \E i \in 1..Len(es[k]) : c = Checksum(k, es[k][i])

\* Every checksum that is recorded, or will be, is that of an effect.
WhatRanInv ==
  /\ \A x \in rows : IsRun(x) => Took(effects, x.key, x.checksum)
  /\ \A p \in Sessions : pc[p] \in Applying => my[p].text = my[p].res[my[p].cur]
  /\ \A p \in Sessions :
       Unrecorded(p) => Took(effects, my[p].cur, Checksum(my[p].cur, my[p].text))

\* A run or a commit adds the text that was read as an effect, and without Clean
\* no effect goes.
LEMMA EffectsGrow ==
  ASSUME TypeInv, NEW p \in Sessions, Acts(p), ~Drops(p)
  PROVE  /\ \A k \in Keys : \A c : Took(effects, k, c) => Took(effects', k, c)
         /\ Commits(p) \/ RunStatements(p) =>
              Took(effects', my[p].cur, Checksum(my[p].cur, my[p].text))
<1>1. CASE effects' = effects /\ ~(Commits(p) \/ RunStatements(p))
  BY <1>1 DEF Took
<1>2. CASE Commits(p) \/ RunStatements(p)
  <2> DEFINE c == my[p].cur
             s == effects[c]
  <2>1. /\ c \in Keys /\ my[p].text \in Editions /\ s \in Seq(Editions)
        /\ effects'[c] = Append(s, my[p].text)
        /\ \A k \in Keys : k # c => effects'[k] = effects[k]
    BY <1>2, EffectAdded
  <2> HIDE DEF c, s
  <2>2. /\ Len(effects'[c]) = Len(s) + 1 /\ Len(s) \in Nat
        /\ effects'[c][Len(s) + 1] = my[p].text
        /\ \A i \in 1..Len(s) : effects'[c][i] = s[i]
    BY <2>1
  <2>3. Took(effects', c, Checksum(c, my[p].text))
    <3>1. Len(s) + 1 \in 1..Len(effects'[c])
      BY <2>2
    <3> QED BY <2>2, <3>1, Zenon DEF Took
  <2>4. ASSUME NEW k \in Keys, NEW d, Took(effects, k, d) PROVE Took(effects', k, d)
    <3>1. CASE k = c
      <4>1. PICK i \in 1..Len(s) : d = Checksum(c, s[i])
        BY <2>4, <3>1 DEF Took, s
      <4>2. i \in 1..Len(effects'[c]) /\ effects'[c][i] = s[i]
        BY <2>2
      <4> QED BY <3>1, <4>1, <4>2, Zenon DEF Took
    <3>2. CASE k # c
      BY <2>1, <2>4, <3>2 DEF Took
    <3> QED BY <3>1, <3>2
  <2> QED BY <2>3, <2>4 DEF c
<1> QED BY <1>1, <1>2, EffectChanges

\* A session that has read a script of its own process has the text Load resolved.
LEMMA OwnText ==
  ASSUME Embedded, SessionsOK, WhatRanInv, NEW p \in Sessions, Acts(p),
         pc'[p] \in Applying
  PROVE  my'[p].text = my'[p].res[my'[p].cur]
<1>1. CASE BeginMigration(p)
  <2>1. PICK k \in Keys : my' = [my EXCEPT ![p].cur = k, ![p].text = TextOf(p, k),
                                          ![p].failed = FALSE]
    BY <1>1 DEF BeginMigration
  <2>2. TextOf(p, k) = my[p].res[k]
    BY DEF TextOf
  <2>3. my'[p].cur = k /\ my'[p].text = TextOf(p, k) /\ my'[p].res = my[p].res
    BY <2>1 DEF SessionsOK, Registers
  <2> QED BY <2>2, <2>3
<1>2. CASE ~BeginMigration(p)
  BY <1>2, ToApplying DEF WhatRanInv
<1> QED BY <1>1, <1>2

\* Every step keeps the checksums those of editions that ran.
LEMMA WhatRanStep ==
  ASSUME Embedded, TypeInv, WhatRanInv, NEW p \in Sessions, Acts(p),
         ~Drops(p), ~UpdateOneChecksum(p)
  PROVE  WhatRanInv'
<1>0. SessionsOK /\ DatabaseOK
  BY DEF TypeInv
<1>1. /\ \A k \in Keys : \A c : Took(effects, k, c) => Took(effects', k, c)
      /\ Commits(p) \/ RunStatements(p) =>
           Took(effects', my[p].cur, Checksum(my[p].cur, my[p].text))
  BY EffectsGrow
<1>2. ASSUME NEW x \in rows', IsRun(x) PROVE Took(effects', x.key, x.checksum)
  <2>1. CASE x \in rows
    <3>1. x.key \in Keys
      BY <1>0, <1>2, <2>1 DEF DatabaseOK, IsRun
    <3> QED BY <1>1, <1>2, <2>1, <3>1 DEF WhatRanInv
  <2>2. CASE x \notin rows
    <3>1. Commits(p) \/ InsertAfterRun(p)
      BY <1>2, <2>2, RowChanges, DeleteKeeps DEF InsertSchemaMarker, InsertBaseline,
        SchemaRow, BaselineRow, IsRun, DeleteFailedRows
    <3>2. pc[p] \in Applying /\ my[p].cur \in Keys
      BY <1>0, <3>1, Registered DEF Commits, Commit, CommitAnswerLost, InsertAfterRun, Applying
    <3>3. my[p].text = my[p].res[my[p].cur]
      BY <3>2 DEF WhatRanInv
    <3> DEFINE row(ok) == SqlRow(my[p].rank, my[p].cur, my[p].res[my[p].cur], ok)
    <3>4. /\ x.key = my[p].cur /\ x.checksum = Checksum(my[p].cur, my[p].text)
          /\ InsertAfterRun(p) => ~my[p].failed
      <4>1. (Commits(p) => x = row(TRUE)) /\ (InsertAfterRun(p) => x = row(~my[p].failed))
        BY <2>2 DEF Commits, Commit, CommitAnswerLost, Committed, InsertAfterRun
      <4>2. \A ok : row(ok).key = my[p].cur /\ row(ok).success = ok
                     /\ row(ok).checksum = Checksum(my[p].cur, my[p].text)
        BY <3>3 DEF SqlRow
      <4> HIDE DEF row
      <4> QED BY <1>2, <3>1, <4>1, <4>2 DEF IsRun
    <3>5. InsertAfterRun(p) => Unrecorded(p)
      BY <3>4 DEF InsertAfterRun, Unrecorded
    <3> QED BY <1>1, <3>1, <3>2, <3>4, <3>5 DEF WhatRanInv
  <2> QED BY <2>1, <2>2
<1>3. ASSUME NEW q \in Sessions, pc'[q] \in Applying
      PROVE  my'[q].text = my'[q].res[my'[q].cur]
  <2>1. CASE q # p
    BY <1>0, <1>3, <2>1, OthersUnchanged DEF Acts, WhatRanInv
  <2> QED BY <1>0, <1>3, <2>1, OwnText
<1>4. ASSUME NEW q \in Sessions, Unrecorded(q)'
      PROVE  Took(effects', my'[q].cur, Checksum(my'[q].cur, my'[q].text))
  <2>1. CASE q # p
    <3>1. pc'[q] = pc[q] /\ my'[q] = my[q]
      BY <1>0, <2>1, OthersUnchanged DEF Acts
    <3>2. Unrecorded(q) /\ pc[q] \in Applying
      BY <1>4, <3>1 DEF Unrecorded, Applying
    <3> QED BY <1>0, <1>1, <3>1, <3>2, Registered DEF WhatRanInv
  <2>2. CASE q = p
    <3>1. /\ RunStatements(p) \/ (Unrecorded(p) /\ ~InsertAfterRun(p))
          /\ my'[p].cur = my[p].cur /\ my'[p].text = my[p].text
      BY <1>0, <1>4, <2>2, ToUnrecorded
    <3>2. Unrecorded(p) => pc[p] \in Applying
      BY DEF Unrecorded, Applying
    <3> QED BY <1>0, <1>1, <2>2, <3>1, <3>2, Registered DEF WhatRanInv
  <2> QED BY <2>1, <2>2
<1> QED BY <1>2, <1>3, <1>4 DEF WhatRanInv

\* With the scripts compiled into the process and without Repair, a successful row
\* has the checksum of a text that took effect, however the sessions race: the text
\* that runs is the one the checksum was computed from.
THEOREM RecordedWhatRan ==
  ASSUME Embedded, Commands \subseteq {"migrate", "baseline"}
  PROVE  Spec => []RecordedIsWhatRan
<1>1. Init => WhatRanInv
  BY DEF Init, WhatRanInv, Unrecorded, Applying
<1>2. TypeInv /\ CommandInv /\ WhatRanInv /\ [Next]_vars => WhatRanInv'
  <2> SUFFICES ASSUME TypeInv, CommandInv, WhatRanInv, [Next]_vars PROVE WhatRanInv'
    OBVIOUS
  <2>1. CASE UNCHANGED <<pc, my, holders, database>>
    BY <2>1 DEF WhatRanInv, Unrecorded, database
  <2>2. ASSUME NEW p \in Sessions, Acts(p) PROVE WhatRanInv'
    <3>1. ~Drops(p)
      BY NoDrops
    <3>2. ~UpdateOneChecksum(p)
      BY DEF CommandInv, UpdateOneChecksum
    <3> QED BY <2>2, <3>1, <3>2, WhatRanStep
  <2> QED BY <2>1, <2>2, NextActs
<1>3. WhatRanInv => RecordedIsWhatRan
  BY DEF WhatRanInv, RecordedIsWhatRan, Took, IsRun
<1> QED BY <1>1, <1>2, <1>3, TypeInit, TypeNext, CommandInit, CommandNext, PTL DEF Spec

-----------------------------------------------------------------------------
(* Repair and Clean, which take no lock: theorems about what they leave    *)
(* behind when nobody else uses the database, on either dialect, for every *)
(* set of scripts and commands and wherever a command failed before them.  *)

\* No record of a failure is left.
NoneFailed(rs) == \A x \in rs : x.success

-----------------------------------------------------------------------------
(* How the steps of Repair and Clean are reached.                          *)

\* The updates Repair has left are decided by what it read ...
LEMMA ToUpdate ==
  ASSUME SessionsOK, NEW p \in Sessions, Acts(p), pc'[p] = "update"
  PROVE  ReadForRepair(p) \/ UpdateOneChecksum(p) \/ LoseLock(p)
<1> USE DEF Goto, Return
<1>0. pc \in [Sessions -> Steps]
  BY DEF SessionsOK
<1>1. ASSUME NEW c \in Commands, Start(p, c) PROVE FALSE
  BY <1>0, <1>1, ConfigurationAssumption DEF Start
<1>2. CASE Load(p)
  BY <1>0, <1>2 DEF Load
<1>3. CASE SharedStep(p)
  BY <1>0, <1>3 DEF SharedStep, EnsureSchemas, CreateSchema, HistoryExists, CreateHistory,
    NextInstalledRank, InsertSchemaMarker, InsertBaseline, AfterCreate, AfterMark
<1>4. CASE MigrateStep(p)
  BY <1>0, <1>4 DEF MigrateStep, AcquireLock, ReadForMigrate, BeforeMigrate,
    BeginMigration, AllApplied, RunInTransaction, InsertInTransaction, Commit,
    RunStatements, InsertAfterRun, AfterMigrate, Release
<1>5. CASE OtherStep(p)
  BY <1>0, <1>5 DEF OtherStep, ReadForBaseline, DeleteFailedRows, RepairDone, DropSchema,
    RecreateSchema, ListObjects, DropObject, CleanDone
<1>6. CASE Failure(p)
  BY <1>0, <1>6 DEF Failure, OperationFails, RunStatementsFails, CommitAnswerLost, Crash
<1> QED BY <1>1, <1>2, <1>3, <1>4, <1>5, <1>6 DEF Acts, Step

\* ... which is the history from which it has deleted the failures ...
LEMMA ToRead ==
  ASSUME SessionsOK, NEW p \in Sessions, Acts(p), pc'[p] = "read", my'[p].cmd = "repair"
  PROVE  \/ DeleteFailedRows(p) \/ LoseLock(p)
         \/ CreateHistory(p) /\ my[p].cmd = "repair"
<1> USE DEF Goto, Return
<1>0. /\ pc \in [Sessions -> Steps] /\ my \in [Sessions -> Registers]
      /\ pc[p] \in {"markInsert"} => my[p].cmd = "migrate"
  BY DEF SessionsOK, Fits, MigrateOnly
<1>1. ASSUME NEW c \in Commands, Start(p, c) PROVE FALSE
  BY <1>0, <1>1, ConfigurationAssumption DEF Start
<1>2. CASE Load(p)
  BY <1>0, <1>2 DEF Load
<1>3. CASE SharedStep(p)
  <2>1. CASE CreateHistory(p)
    BY <1>0, <2>1 DEF CreateHistory
  <2>2. CASE HistoryExists(p)
    BY <1>0, <2>2 DEF HistoryExists
  <2>3. CASE InsertSchemaMarker(p)
    BY <1>0, <2>3 DEF InsertSchemaMarker
  <2>4. CASE InsertBaseline(p)
    BY <1>0, <2>4 DEF InsertBaseline
  <2>5. CASE EnsureSchemas(p) \/ CreateSchema(p) \/ NextInstalledRank(p)
    BY <1>0, <2>5 DEF EnsureSchemas, CreateSchema, NextInstalledRank
  <2> QED BY <1>3, <2>1, <2>2, <2>3, <2>4, <2>5 DEF SharedStep
<1>4. CASE MigrateStep(p)
  BY <1>0, <1>4 DEF MigrateStep, AcquireLock, ReadForMigrate, BeforeMigrate,
    BeginMigration, AllApplied, RunInTransaction, InsertInTransaction, Commit,
    RunStatements, InsertAfterRun, AfterMigrate, Release
<1>5. CASE OtherStep(p)
  BY <1>0, <1>5 DEF OtherStep, ReadForBaseline, ReadForRepair, UpdateOneChecksum,
    RepairDone, DropSchema, RecreateSchema, ListObjects, DropObject, CleanDone
<1>6. CASE Failure(p)
  BY <1>0, <1>6 DEF Failure, OperationFails, RunStatementsFails, CommitAnswerLost, Crash
<1> QED BY <1>1, <1>2, <1>3, <1>4, <1>5, <1>6 DEF Acts, Step

\* ... and never one it created: without a table Repair returns.
LEMMA ToCreate ==
  ASSUME SessionsOK, NEW p \in Sessions, Acts(p), pc'[p] = "create"
  PROVE  my'[p].cmd # "repair" \/ LoseLock(p)
<1> USE DEF Goto, Return
<1>0. pc \in [Sessions -> Steps] /\ my \in [Sessions -> Registers]
  BY DEF SessionsOK
<1>1. ASSUME NEW c \in Commands, Start(p, c) PROVE FALSE
  BY <1>0, <1>1, ConfigurationAssumption DEF Start
<1>2. CASE Load(p)
  BY <1>0, <1>2 DEF Load
<1>3. CASE SharedStep(p)
  <2>1. CASE HistoryExists(p)
    BY <1>0, <2>1 DEF HistoryExists
  <2>2. CASE ~HistoryExists(p)
    BY <1>0, <1>3, <2>2 DEF SharedStep, EnsureSchemas, CreateSchema, CreateHistory,
      NextInstalledRank, InsertSchemaMarker, InsertBaseline, AfterCreate, AfterMark
  <2> QED BY <2>1, <2>2
<1>4. CASE MigrateStep(p)
  BY <1>0, <1>4 DEF MigrateStep, AcquireLock, ReadForMigrate, BeforeMigrate,
    BeginMigration, AllApplied, RunInTransaction, InsertInTransaction, Commit,
    RunStatements, InsertAfterRun, AfterMigrate, Release
<1>5. CASE OtherStep(p)
  BY <1>0, <1>5 DEF OtherStep, ReadForBaseline, DeleteFailedRows, ReadForRepair,
    UpdateOneChecksum, RepairDone, DropSchema, RecreateSchema, ListObjects,
    DropObject, CleanDone
<1>6. CASE Failure(p)
  BY <1>0, <1>6 DEF Failure, OperationFails, RunStatementsFails, CommitAnswerLost, Crash
<1> QED BY <1>1, <1>2, <1>3, <1>4, <1>5, <1>6 DEF Acts, Step

\* On SQLite Clean drops what it has listed.
LEMMA ToDrop ==
  ASSUME SessionsOK, NEW p \in Sessions, Acts(p), pc'[p] = "drop", ~Postgres
  PROVE  ListObjects(p) \/ DropObject(p) \/ LoseLock(p)
<1> USE DEF Goto, Return
<1>0. pc \in [Sessions -> Steps]
  BY DEF SessionsOK
<1>1. ASSUME NEW c \in Commands, Start(p, c) PROVE FALSE
  BY <1>0, <1>1, ConfigurationAssumption DEF Start
<1>2. CASE Load(p)
  BY <1>0, <1>2 DEF Load
<1>3. CASE SharedStep(p)
  BY <1>0, <1>3 DEF SharedStep, EnsureSchemas, CreateSchema, HistoryExists, CreateHistory,
    NextInstalledRank, InsertSchemaMarker, InsertBaseline, AfterCreate, AfterMark
<1>4. CASE MigrateStep(p)
  BY <1>0, <1>4 DEF MigrateStep, AcquireLock, ReadForMigrate, BeforeMigrate,
    BeginMigration, AllApplied, RunInTransaction, InsertInTransaction, Commit,
    RunStatements, InsertAfterRun, AfterMigrate, Release
<1>5. CASE OtherStep(p)
  BY <1>0, <1>5 DEF OtherStep, ReadForBaseline, DeleteFailedRows, ReadForRepair,
    UpdateOneChecksum, RepairDone, DropSchema, RecreateSchema, CleanDone
<1>6. CASE Failure(p)
  BY <1>0, <1>6 DEF Failure, OperationFails, RunStatementsFails, CommitAnswerLost, Crash
<1> QED BY <1>1, <1>2, <1>3, <1>4, <1>5, <1>6 DEF Acts, Step

\* On PostgreSQL Clean creates the schema again once it has dropped it.
LEMMA ToRecreate ==
  ASSUME SessionsOK, NEW p \in Sessions, Acts(p), pc'[p] = "recreate"
  PROVE  DropSchema(p) \/ LoseLock(p)
<1> USE DEF Goto, Return
<1>0. pc \in [Sessions -> Steps]
  BY DEF SessionsOK
<1>1. ASSUME NEW c \in Commands, Start(p, c) PROVE FALSE
  BY <1>0, <1>1, ConfigurationAssumption DEF Start
<1>2. CASE Load(p)
  BY <1>0, <1>2 DEF Load
<1>3. CASE SharedStep(p)
  BY <1>0, <1>3 DEF SharedStep, EnsureSchemas, CreateSchema, HistoryExists, CreateHistory,
    NextInstalledRank, InsertSchemaMarker, InsertBaseline, AfterCreate, AfterMark
<1>4. CASE MigrateStep(p)
  BY <1>0, <1>4 DEF MigrateStep, AcquireLock, ReadForMigrate, BeforeMigrate,
    BeginMigration, AllApplied, RunInTransaction, InsertInTransaction, Commit,
    RunStatements, InsertAfterRun, AfterMigrate, Release
<1>5. CASE OtherStep(p)
  BY <1>0, <1>5 DEF OtherStep, ReadForBaseline, DeleteFailedRows, ReadForRepair,
    UpdateOneChecksum, RepairDone, RecreateSchema, ListObjects, DropObject, CleanDone
<1>6. CASE Failure(p)
  BY <1>0, <1>6 DEF Failure, OperationFails, RunStatementsFails, CommitAnswerLost, Crash
<1> QED BY <1>1, <1>2, <1>3, <1>4, <1>5, <1>6 DEF Acts, Step

-----------------------------------------------------------------------------
(* The updates Repair decides on.                                          *)

\* x is the record of a script that is resolved, with another checksum.
Differs(res, x) ==
  ~IsSynthetic(x) /\ res[x.key] # Nil /\ x.checksum # Checksum(x.key, res[x.key])

Fix(res, x) == [rank |-> x.rank, checksum |-> Checksum(x.key, res[x.key])]

\* An update is that of the one row it names.
LEMMA FixesAre ==
  ASSUME NEW res, NEW rs
  PROVE  /\ \A x \in rs : Differs(res, x) => Fix(res, x) \in RepairFixes(res, rs)
         /\ \A f \in RepairFixes(res, rs) : \E x \in rs : Differs(res, x) /\ f = Fix(res, x)
BY DEF RepairFixes, Differs, Fix

\* After one update, those that are left are the others.
LEMMA OneFixLess ==
  ASSUME NEW res, NEW rs, rs \subseteq Row, Unique(rs), NEW f \in RepairFixes(res, rs)
  PROVE  RepairFixes(res, UpdateChecksum(rs, f.rank, f.checksum)) = RepairFixes(res, rs) \ {f}
<1> DEFINE U(x) == IF x.rank = f.rank THEN [x EXCEPT !.checksum = f.checksum] ELSE x
           us == UpdateChecksum(rs, f.rank, f.checksum)
<1>1. PICK z \in rs : Differs(res, z) /\ f = Fix(res, z)
  BY FixesAre
<1>2. f.rank = z.rank /\ f.checksum = Checksum(z.key, res[z.key])
  BY <1>1 DEF Fix
<1>3. us = {U(x) : x \in rs}
  BY DEF UpdateChecksum
<1>4. ASSUME NEW x \in rs, x # z
      PROVE  U(x) = x /\ Fix(res, x) # f
  <2>1. x.rank # f.rank
    BY <1>2, <1>4 DEF Unique
  <2>2. Fix(res, x).rank = x.rank
    BY DEF Fix
  <2> QED BY <2>1, <2>2
<1>5. ~Differs(res, U(z))
  <2>1. U(z).key = z.key /\ U(z).checksum = f.checksum
    BY <1>2 DEF Row
  <2> HIDE DEF U
  <2> QED BY <1>2, <2>1 DEF Differs
<1> HIDE DEF U
<1>6. ASSUME NEW g \in RepairFixes(res, us) PROVE g \in RepairFixes(res, rs) \ {f}
  <2>1. PICK y \in us : Differs(res, y) /\ g = Fix(res, y)
    BY FixesAre
  <2>2. PICK x \in rs : y = U(x)
    BY <1>3
  <2>3. x # z /\ y = x
    BY <1>4, <1>5, <2>1, <2>2
  <2> QED BY <1>4, <2>1, <2>3, FixesAre
<1>7. ASSUME NEW g \in RepairFixes(res, rs), g # f PROVE g \in RepairFixes(res, us)
  <2>1. PICK x \in rs : Differs(res, x) /\ g = Fix(res, x)
    BY FixesAre
  <2>2. x # z
    BY <1>1, <1>7, <2>1
  <2>3. x \in us
    BY <1>3, <1>4, <2>2
  <2> QED BY <2>1, <2>3, FixesAre
<1> QED BY <1>6, <1>7

\* An update leaves a row with the result it had.
LEMMA UpdateKeepsResults ==
  ASSUME NEW rs, rs \subseteq Row, NoneFailed(rs), NEW n, NEW c
  PROVE  NoneFailed(UpdateChecksum(rs, n, c))
<1> SUFFICES ASSUME NEW x \in rs
             PROVE  (IF x.rank = n THEN [x EXCEPT !.checksum = c] ELSE x).success
  BY DEF NoneFailed, UpdateChecksum
<1>1. x \in Row /\ x.success
  BY DEF NoneFailed
<1> QED BY <1>1 DEF Row

\* Without failures and without updates to make, validation can only miss scripts or
\* find them renamed.
LEMMA RepairedIsValid ==
  ASSUME NEW res, NEW rs, rs \subseteq Row, NoneFailed(rs), RepairFixes(res, rs) = {}
  PROVE  Problems(res, rs, TRUE) \subseteq
           LostKeys(res, rs) \cup {k \in Keys : DescriptionMismatch(res, rs, k)}
<1>1. ASSUME NEW k \in FailedKeys(res, rs) PROVE FALSE
  <2>1. k \in Versions /\ IsApplied(rs, k) /\ ~AppliedRow(rs, k).success
    BY <1>1, ReportedFailures DEF FailedKeys
  <2>2. AppliedRow(rs, k) \in rs
    BY <2>1, AppliedIsLatest DEF SqlRows
  <2> QED BY <2>1, <2>2 DEF NoneFailed
<1>2. ASSUME NEW k \in Keys, ChecksumMismatch(res, rs, k) PROVE FALSE
  <2>1. IsApplied(rs, k) /\ res[k] # Nil
    BY <1>2 DEF ChecksumMismatch, StateOf, VersionedState
  <2>2. PICK x \in rs : x = AppliedRow(rs, k) /\ x.type = "SQL" /\ x.key = k
    BY <2>1, AppliedIsLatest DEF SqlRows
  <2>3. Differs(res, x)
    BY <1>2, <2>1, <2>2 DEF Differs, ChecksumMismatch, IsSynthetic
  <2> QED BY <2>3, FixesAre
<1>3. Problems(res, rs, TRUE) =
        FailedKeys(res, rs) \cup LostKeys(res, rs) \cup MismatchedKeys(res, rs)
  BY DEF Problems
<1> QED BY <1>1, <1>2, <1>3 DEF MismatchedKeys

-----------------------------------------------------------------------------
(* Repair.                                                                 *)

\* When Repair reads the history no failure is left in it; and what it has yet to
\* update is all there is to update.
RepairInv ==
  \A p \in Sessions :
    /\ pc[p] = "create" => my[p].cmd # "repair"
    /\ pc[p] = "read" /\ my[p].cmd = "repair" => NoneFailed(rows)
    /\ pc[p] = "update" =>
         NoneFailed(rows) /\ my[p].fixes = RepairFixes(my[p].res, rows)

\* Nothing is repaired at first.
LEMMA RepairInit == Init => RepairInv
BY DEF Init, RepairInv

\* The only session's steps keep what Repair relies on.
LEMMA RepairStep ==
  ASSUME OneAtATime, TypeInv, RankInv, RepairInv, NEW p \in Sessions, Acts(p)
  PROVE  RepairInv'
<1>0. /\ SessionsOK /\ rows \subseteq Row /\ my \in [Sessions -> Registers]
      /\ \A q \in Sessions : q = p
  BY DEF TypeInv, DatabaseOK, SessionsOK, OneAtATime
<1>1. CASE LoseLock(p)
  BY <1>1 DEF LoseLock, RepairInv, database
<1>2. CASE ~LoseLock(p)
  <2>1. pc'[p] = "create" => my'[p].cmd # "repair"
    BY <1>0, <1>2, ToCreate
  <2>2. ASSUME pc'[p] = "read", my'[p].cmd = "repair" PROVE NoneFailed(rows')
    <3>1. CASE DeleteFailedRows(p)
      BY <3>1 DEF DeleteFailedRows, DeleteFailed, NoneFailed
    <3>2. ~(CreateHistory(p) /\ my[p].cmd = "repair")
      BY DEF CreateHistory, RepairInv
    <3> QED BY <1>0, <1>2, <2>2, <3>1, <3>2, ToRead
  <2>3. ASSUME pc'[p] = "update"
        PROVE  NoneFailed(rows') /\ my'[p].fixes = RepairFixes(my'[p].res, rows')
    <3>1. CASE ReadForRepair(p)
      <4>1. /\ rows' = rows /\ NoneFailed(rows)
            /\ my' = [my EXCEPT ![p].fixes = RepairFixes(my[p].res, rows)]
        BY <3>1 DEF ReadForRepair, RepairInv, database
      <4>2. my'[p].fixes = RepairFixes(my[p].res, rows) /\ my'[p].res = my[p].res
        BY <1>0, <4>1 DEF Registers
      <4> QED BY <4>1, <4>2
    <3>2. CASE UpdateOneChecksum(p)
      <4>1. PICK f \in my[p].fixes :
              /\ rows' = UpdateChecksum(rows, f.rank, f.checksum)
              /\ my' = [my EXCEPT ![p].fixes = @ \ {f}]
        BY <3>2 DEF UpdateOneChecksum
      <4>2. my'[p].fixes = my[p].fixes \ {f} /\ my'[p].res = my[p].res
        BY <1>0, <4>1 DEF Registers
      <4>3. NoneFailed(rows) /\ my[p].fixes = RepairFixes(my[p].res, rows)
        BY <3>2 DEF UpdateOneChecksum, RepairInv
      <4>4. NoneFailed(rows')
        BY <1>0, <4>1, <4>3, UpdateKeepsResults
      <4>5. RepairFixes(my[p].res, rows') = RepairFixes(my[p].res, rows) \ {f}
        BY <1>0, <4>1, <4>3, OneFixLess DEF RankInv
      <4> QED BY <4>2, <4>3, <4>4, <4>5
    <3> QED BY <1>0, <1>2, <2>3, <3>1, <3>2, ToUpdate
  <2> QED BY <1>0, <2>1, <2>2, <2>3 DEF RepairInv
<1> QED BY <1>1, <1>2

\* So does every step there is.
LEMMA RepairNext ==
  ASSUME OneAtATime
  PROVE  TypeInv /\ RankInv /\ RepairInv /\ [Next]_vars => RepairInv'
<1> SUFFICES ASSUME TypeInv, RankInv, RepairInv, [Next]_vars PROVE RepairInv'
  OBVIOUS
<1>1. CASE UNCHANGED <<pc, my, holders, database>>
  BY <1>1 DEF RepairInv, database
<1> QED BY <1>1, NextActs, RepairStep

\* When Repair is done, validation finds nothing but scripts that are gone or renamed,
\* whichever commands failed or died half way before it, on either dialect.
THEOREM RepairedUnblocks ==
  ASSUME OneAtATime
  PROVE  Spec => RepairUnblocks
<1> DEFINE Unblocks ==
      \A p \in Sessions : RepairDone(p) =>
        Problems(my[p].res, rows, TRUE) \subseteq
          LostKeys(my[p].res, rows)
            \cup {k \in Keys : DescriptionMismatch(my[p].res, rows, k)}
<1>1. TypeInv /\ RepairInv => Unblocks
  <2> SUFFICES ASSUME TypeInv, RepairInv, NEW p \in Sessions, RepairDone(p)
               PROVE  Problems(my[p].res, rows, TRUE) \subseteq
                        LostKeys(my[p].res, rows)
                          \cup {k \in Keys : DescriptionMismatch(my[p].res, rows, k)}
    OBVIOUS
  <2>1. NoneFailed(rows) /\ RepairFixes(my[p].res, rows) = {} /\ rows \subseteq Row
    BY DEF RepairDone, RepairInv, TypeInv, DatabaseOK
  <2> QED BY <2>1, RepairedIsValid
<1>2. TypeInv /\ RepairInv => [Unblocks]_vars
  BY <1>1
<1>3. TypeInv /\ RankInv /\ RepairInv /\ [Next]_vars => RepairInv'
  BY RepairNext
<1> QED BY <1>2, <1>3, TypeInit, TypeNext, RankInit, RankNext, RepairInit, PTL
  DEF Spec, RepairUnblocks

-----------------------------------------------------------------------------
(* Clean.                                                                  *)

\* On SQLite what is still there is still to be dropped, and on PostgreSQL it all went
\* with the schema.
CleanInv ==
  \A p \in Sessions :
    /\ pc[p] = "drop" /\ ~Postgres =>
         /\ tableExists => "history" \in my[p].drop
         /\ effects # NoEffects => "objects" \in my[p].drop
    /\ pc[p] = "recreate" => ~tableExists /\ effects = NoEffects

\* Nothing is cleaned at first.
LEMMA CleanInit == Init => CleanInv
BY DEF Init, CleanInv

\* The only session's steps keep what Clean relies on.
LEMMA CleanStep ==
  ASSUME OneAtATime, TypeInv, CleanInv, NEW p \in Sessions, Acts(p)
  PROVE  CleanInv'
<1>0. /\ SessionsOK /\ my \in [Sessions -> Registers] /\ \A q \in Sessions : q = p
  BY DEF TypeInv, SessionsOK, OneAtATime
<1>1. CASE LoseLock(p)
  BY <1>1 DEF LoseLock, CleanInv, database, Postgres
<1>2. ASSUME ~LoseLock(p), pc'[p] = "drop", ~Postgres
      PROVE  /\ tableExists' => "history" \in my'[p].drop
             /\ effects' # NoEffects => "objects" \in my'[p].drop
  <2>1. CASE ListObjects(p)
    <3>1. my'[p].drop = (IF tableExists THEN {"history"} ELSE {})
                          \cup (IF effects # NoEffects THEN {"objects"} ELSE {})
      BY <1>0, <2>1 DEF ListObjects, Registers
    <3> QED BY <2>1, <3>1 DEF ListObjects, database
  <2>2. CASE DropObject(p)
    <3>1. PICK d \in my[p].drop :
            /\ my' = [my EXCEPT ![p].drop = @ \ {d}]
            /\ IF d = "history"
               THEN tableExists' = FALSE /\ rows' = {} /\ UNCHANGED effects
               ELSE effects' = NoEffects /\ UNCHANGED <<tableExists, rows>>
      BY <2>2 DEF DropObject
    <3>2. my'[p].drop = my[p].drop \ {d} /\ d \in {"history", "objects"}
      BY <1>0, <3>1 DEF Registers
    <3>3. /\ tableExists => "history" \in my[p].drop
          /\ effects # NoEffects => "objects" \in my[p].drop
      BY <1>2, <2>2 DEF DropObject, CleanInv
    <3> QED BY <3>1, <3>2, <3>3
  <2> QED BY <1>0, <1>2, <2>1, <2>2, ToDrop
<1>3. ASSUME ~LoseLock(p), pc'[p] = "recreate"
      PROVE  ~tableExists' /\ effects' = NoEffects
  BY <1>0, <1>3, ToRecreate DEF DropSchema
<1> QED BY <1>0, <1>1, <1>2, <1>3 DEF CleanInv, Postgres

\* So does every step there is.
LEMMA CleanNext ==
  ASSUME OneAtATime
  PROVE  TypeInv /\ CleanInv /\ [Next]_vars => CleanInv'
<1> SUFFICES ASSUME TypeInv, CleanInv, [Next]_vars PROVE CleanInv'
  OBVIOUS
<1>1. CASE UNCHANGED <<pc, my, holders, database>>
  BY <1>1 DEF CleanInv, database, Postgres
<1> QED BY <1>1, NextActs, CleanStep

\* When Clean ends without an error, on either dialect, nothing is left in the database,
\* also when it takes up what a Clean that failed half way or a Migrate that died left
\* behind.
THEOREM CleanedLeavesNothing ==
  ASSUME OneAtATime
  PROVE  Spec => CleanLeavesNothing
<1> DEFINE Empty == \A p \in Sessions :
                      CleanDone(p) \/ RecreateSchema(p) => ~tableExists /\ effects = NoEffects
<1>1. CleanInv => [Empty]_vars
  BY DEF CleanInv, CleanDone, RecreateSchema
<1>2. TypeInv /\ CleanInv /\ [Next]_vars => CleanInv'
  BY CleanNext
<1> QED BY <1>1, <1>2, TypeInit, TypeNext, CleanInit, PTL DEF Spec, CleanLeavesNothing

=============================================================================
