------------------------------ MODULE LogProofs ------------------------------
(***************************************************************************)
(* Migrator implements MigrationLog: however many sessions migrate, and    *)
(* wherever they fail or die, outside they are one migrator with a log.    *)
(***************************************************************************)
EXTENDS MigrateProofs

-----------------------------------------------------------------------------
(* What a session has left to apply is due.                                *)

InTransaction == {"txBody", "txRank", "txInsert", "txCommit"}

\* By the records of script k it is due: a version that has none, or a repeatable
\* whose last one is of another text.
IsDue(res, rs, k) ==
  IF k \in Versions
  THEN SqlRows(rs, k) = {}
  ELSE \A x \in SqlRows(rs, k) :
         IsLatest(x, SqlRows(rs, k)) => x.checksum # Checksum(k, res[k])

\* The transaction is for scripts that did not opt out of it, and what is left to
\* apply is still due.
DueInv ==
  /\ \A p \in Sessions : pc[p] \in InTransaction => my[p].cur \notin NoTransaction
  /\ \A p \in Sessions : pc[p] \in Past =>
       \A k \in my[p].todo : IsDue(my[p].res, rows, k)

\* A session comes to a transaction by beginning a script, or stays in it.
LEMMA ToTransaction ==
  ASSUME SessionsOK, NEW p \in Sessions, Acts(p), pc'[p] \in InTransaction
  PROVE  \/ BeginMigration(p)
         \/ pc[p] \in InTransaction /\ my'[p].cur = my[p].cur
<1> USE DEF Goto, Return, InTransaction
<1>0. /\ pc \in [Sessions -> Steps] /\ my \in [Sessions -> Registers]
      /\ my[p] \in Registers
  BY DEF SessionsOK
<1>1. ASSUME NEW c \in Commands, Start(p, c) PROVE FALSE
  BY <1>0, <1>1, ConfigurationAssumption DEF Start
<1>2. CASE Load(p)
  BY <1>0, <1>2 DEF Load
<1>3. CASE SharedStep(p)
  BY <1>0, <1>3 DEF SharedStep, EnsureSchemas, CreateSchema, HistoryExists, CreateHistory,
    NextInstalledRank, InsertSchemaMarker, InsertBaseline, AfterCreate, AfterMark, Registers
<1>4. CASE MigrateStep(p)
  BY <1>0, <1>4 DEF MigrateStep, AcquireLock, ReadForMigrate, BeforeMigrate,
    AllApplied, RunInTransaction, InsertInTransaction, Commit, RunStatements,
    InsertAfterRun, AfterMigrate, Release
<1>5. CASE OtherStep(p)
  BY <1>0, <1>5 DEF OtherStep, ReadForBaseline, DeleteFailedRows, ReadForRepair,
    UpdateOneChecksum, RepairDone, DropSchema, RecreateSchema, ListObjects,
    DropObject, CleanDone
<1>6. CASE Failure(p)
  BY <1>0, <1>6 DEF Failure, OperationFails, RunStatementsFails, CommitAnswerLost, Crash,
    LoseLock
<1> QED BY <1>1, <1>2, <1>3, <1>4, <1>5, <1>6 DEF Acts, Step

\* While only Migrate and Baseline run, the records of a script change only when it
\* is recorded once more.
LEMMA OwnRecords ==
  ASSUME TypeInv, CommandInv, Commands \subseteq {"migrate", "baseline"},
         NEW p \in Sessions, Acts(p), NEW k, Adds(p) => my[p].cur # k
  PROVE  SqlRows(rows', k) = SqlRows(rows, k)
<1>1. ASSUME NEW y \in rows', y.type = "SQL", y.key = k PROVE y \in rows
  <2>1. CASE Adds(p)
    BY <1>1, <2>1, RecordAdded
  <2>2. CASE ~Adds(p)
    BY <1>1, <2>2, NothingMended, OnlyInserts
  <2> QED BY <2>1, <2>2
<1>2. rows \subseteq rows'
  BY NothingMended, OnlyInserts
<1> QED BY <1>1, <1>2 DEF SqlRows

\* What the pending list names is due by the history it was computed from.
LEMMA PendingIsDue ==
  ASSUME TypeInv, RankInv, NEW res, NEW k \in Pending(res, rows)
  PROVE  IsDue(res, rows, k)
<1>1. rows \subseteq Row /\ Unique(rows)
  BY DEF TypeInv, DatabaseOK, RankInv
<1>2. CASE k \in Versions
  BY <1>2, PendingIsUnrecorded DEF IsDue
<1>3. CASE k \notin Versions
  <2>1. k \in Repeatables
    BY <1>3 DEF Pending, Keys
  <2>2. IsApplied(rows, k) => AppliedRow(rows, k).checksum # Checksum(k, res[k])
    BY <2>1, PendingRepeatable
  <2>3. ASSUME NEW x \in SqlRows(rows, k), IsLatest(x, SqlRows(rows, k))
        PROVE  x.checksum # Checksum(k, res[k])
    <3>1. IsApplied(rows, k) /\ AppliedRow(rows, k) = x
      BY <1>1, <2>3, LatestIsApplied
    <3> QED BY <2>2, <3>1
  <2> QED BY <1>3, <2>3 DEF IsDue
<1> QED BY <1>2, <1>3

\* A step, of whatever session, leaves due what a session has left to apply.
LEMMA DueStep ==
  ASSUME Commands \subseteq {"migrate", "baseline"},
         TypeInv, Guarded, RankInv, CommandInv, DueInv, NEW p \in Sessions, Acts(p)
  PROVE  DueInv'
<1>0. /\ SessionsOK /\ pc \in [Sessions -> Steps] /\ my \in [Sessions -> Registers]
  BY DEF TypeInv, SessionsOK
<1>1. ASSUME NEW q \in Sessions, q # p PROVE pc'[q] = pc[q] /\ my'[q] = my[q]
  BY <1>0, <1>1, OthersUnchanged DEF Acts
<1>2. ASSUME NEW q \in Sessions, pc'[q] \in InTransaction
      PROVE  my'[q].cur \notin NoTransaction
  <2>1. CASE q # p
    BY <1>1, <1>2, <2>1 DEF DueInv
  <2>2. CASE q = p /\ BeginMigration(p)
    <3>1. PICK k \in Keys :
            /\ my' = [my EXCEPT ![p].cur = k, ![p].text = TextOf(p, k), ![p].failed = FALSE]
            /\ pc' = [pc EXCEPT ![p] = IF k \in NoTransaction THEN "run" ELSE "txBody"]
      BY <2>2 DEF BeginMigration, Goto
    <3>2. my'[p].cur = k
      BY <1>0, <3>1 DEF Registers
    <3>3. k \notin NoTransaction
      BY <1>0, <1>2, <2>2, <3>1 DEF InTransaction
    <3> QED BY <2>2, <3>2, <3>3
  <2>3. CASE q = p /\ ~BeginMigration(p)
    BY <1>0, <1>2, <2>3, ToTransaction DEF DueInv
  <2> QED BY <2>1, <2>2, <2>3
<1>3. ASSUME NEW q \in Sessions, pc'[q] \in Past, NEW k \in my'[q].todo
      PROVE  IsDue(my'[q].res, rows', k)
  <2>1. ASSUME NEW res, IsDue(res, rows, k), Adds(p) => my[p].cur # k
        PROVE  IsDue(res, rows', k)
    <3>1. SqlRows(rows', k) = SqlRows(rows, k)
      BY <2>1, OwnRecords
    <3> QED BY <2>1, <3>1 DEF IsDue
  <2>2. CASE q # p
    <3>1. ~Adds(p)
      BY <1>1, <1>3, <2>2, PastIsInMigrate, OthersAddNothing
    <3>2. IsDue(my[q].res, rows, k)
      BY <1>1, <1>3, <2>2 DEF DueInv
    <3> QED BY <1>1, <2>1, <2>2, <3>1, <3>2
  <2>3. CASE q = p /\ ReadForMigrate(p)
    BY <1>3, <2>3, ReadStep, PendingIsDue
  <2>4. CASE q = p /\ ~ReadForMigrate(p)
    <3>1. /\ pc[p] \in Past /\ my'[p].res = my[p].res
          /\ \/ my'[p].todo = my[p].todo /\ ~Adds(p)
             \/ Adds(p) /\ my'[p].todo = my[p].todo \ {my[p].cur}
      BY <1>3, <2>4, PastStep
    <3>2. k \in my[p].todo /\ (Adds(p) => my[p].cur # k)
      BY <1>3, <2>4, <3>1
    <3>3. IsDue(my[p].res, rows, k)
      BY <3>1, <3>2 DEF DueInv
    <3> QED BY <2>1, <2>4, <3>1, <3>2, <3>3
  <2> QED BY <2>2, <2>3, <2>4
<1> QED BY <1>2, <1>3 DEF DueInv

\* Nobody has anything left to apply at the start.
LEMMA DueInit == Init => DueInv
BY DEF Init, DueInv, InTransaction, Past, Applying

\* What is left to apply stays due, whatever the system does.
LEMMA DueNext ==
  ASSUME Commands \subseteq {"migrate", "baseline"}
  PROVE  TypeInv /\ Guarded /\ RankInv /\ CommandInv /\ DueInv /\ [Next]_vars => DueInv'
<1> SUFFICES ASSUME TypeInv, Guarded, RankInv, CommandInv, DueInv, [Next]_vars
             PROVE  DueInv'
  OBVIOUS
<1>1. CASE UNCHANGED <<pc, my, holders, database>>
  BY <1>1 DEF DueInv, IsDue, database
<1> QED BY <1>1, NextActs, DueStep

-----------------------------------------------------------------------------
(* The state of the log, as MigratorProperties maps it.                    *)

LogEntry(x) == [at |-> x.rank, key |-> x.key, checksum |-> x.checksum]
LogOf(rs) == {LogEntry(x) : x \in {y \in rs : y.type = "SQL" /\ y.success}}
RanOf(ef) == [k \in Keys |-> Len(ef[k])]
StoppedBy(rs) == \E x \in rs : x.type = "SQL" /\ ~x.success /\ x.key \in Versions

\* The session's step is one of the log on the script it applies.
CurSum(p) == Checksum(my[p].cur, my[p].res[my[p].cur])

\* An entry is one of a successful record.
LEMMA InLog ==
  ASSUME NEW rs
  PROVE  /\ \A x \in rs : IsRun(x) => LogEntry(x) \in LogOf(rs)
         /\ \A e \in LogOf(rs) : \E x \in rs :
              IsRun(x) /\ e = LogEntry(x) /\ e.at = x.rank /\ e.key = x.key
                /\ e.checksum = x.checksum
<1>1. \A x : /\ LogEntry(x).at = x.rank /\ LogEntry(x).key = x.key
             /\ LogEntry(x).checksum = x.checksum
  BY DEF LogEntry
<1>2. \A x \in rs : IsRun(x) => LogEntry(x) \in LogOf(rs)
  BY DEF IsRun, LogOf
<1>3. \A e \in LogOf(rs) : \E x \in rs : IsRun(x) /\ e = LogEntry(x)
  BY DEF IsRun, LogOf
<1> QED BY <1>1, <1>2, <1>3

\* The entries of script k.
LEMMA LogEntries == ASSUME NEW k PROVE Log!Of(k) = {e \in LogOf(rows) : e.key = k}
BY DEF Log!Of, LogOf, LogEntry

\* The log and its stop do not show markers.
LEMMA MarkersUnseen ==
  ASSUME NEW rs, NEW rt, rs \subseteq rt, \A y \in rt \ rs : y.type # "SQL"
  PROVE  LogOf(rt) = LogOf(rs) /\ StoppedBy(rt) = StoppedBy(rs)
<1>1. {y \in rt : y.type = "SQL" /\ y.success} = {y \in rs : y.type = "SQL" /\ y.success}
  OBVIOUS
<1>2. StoppedBy(rt) = StoppedBy(rs)
  BY DEF StoppedBy
<1> QED BY <1>1, <1>2 DEF LogOf

\* A record that is inserted is one entry, or none if it is of a failure.
LEMMA LogGrows ==
  ASSUME NEW rs, NEW x, NEW rt, rt = rs \cup {x}, x.type = "SQL"
  PROVE  /\ x.success => LogOf(rt) = LogOf(rs) \cup {LogEntry(x)}
                          /\ StoppedBy(rt) = StoppedBy(rs)
         /\ ~x.success => LogOf(rt) = LogOf(rs)
         /\ ~x.success /\ x.key \in Versions => StoppedBy(rt)
<1>1. ASSUME x.success PROVE LogOf(rt) = LogOf(rs) \cup {LogEntry(x)}
  <2>1. {y \in rt : y.type = "SQL" /\ y.success}
          = {y \in rs : y.type = "SQL" /\ y.success} \cup {x}
    BY <1>1
  <2> QED BY <2>1 DEF LogOf
<1>2. ASSUME ~x.success PROVE LogOf(rt) = LogOf(rs)
  <2>1. {y \in rt : y.type = "SQL" /\ y.success}
          = {y \in rs : y.type = "SQL" /\ y.success}
    BY <1>2
  <2> QED BY <2>1 DEF LogOf
<1>3. x.success => StoppedBy(rt) = StoppedBy(rs)
  BY DEF StoppedBy
<1>4. ~x.success /\ x.key \in Versions => StoppedBy(rt)
  BY DEF StoppedBy
<1> QED BY <1>1, <1>2, <1>3, <1>4

\* MigrationLog counts as this module does.
LEMMA SameCount == \A S : Log!Cardinality(S) = Cardinality(S)
BY DEF Log!Cardinality, Cardinality, Log!IsFiniteSet, IsFiniteSet

\* The sums a record may have.
Sums == {Checksum(k, e) : k \in Keys, e \in Editions}

\* What makes a step one of the log.
LEMMA LogNext ==
  ASSUME NEW k \in Keys, NEW c \in Sums,
         Log!Apply(k, c) \/ Log!Run(k, c) \/ Log!Record(k, c) \/ Log!Fail(k)
  PROVE  Log!Next
<1> HIDE DEF Keys
<1>1. Log!Scripts = Keys
  BY DEF Log!Scripts, Keys
<1> QED BY <1>1 DEF Log!Next, Sums

-----------------------------------------------------------------------------
(* Every step is a step of the log, or none of it.                         *)

\* What the sessions' invariants say together.
LogInv ==
  /\ TypeInv /\ Guarded /\ RankInv /\ TopInv /\ CommandInv
  /\ BlockInv /\ SettledInv /\ WasRunInv /\ DueInv
  /\ OutOfOrder \/ OrderInv

\* The script a session applies is due in the log too.
LEMMA DueInLog ==
  ASSUME NoTransaction \subseteq Versions, LogInv, NEW p \in Sessions, pc[p] \in Applying,
         NEW k, k = my[p].cur, NEW c, c = CurSum(p)
  PROVE  /\ k \in Keys /\ c \in Sums
         /\ ~StoppedBy(rows) /\ Log!Due(k, c)
         /\ k \in Versions => Log!Of(k) = {}
<1>1. /\ SessionsOK /\ rows \subseteq Row /\ pc[p] \in Past
  BY DEF LogInv, TypeInv, DatabaseOK, Past
<1>2. k \in Keys /\ my[p].res[k] \in Editions /\ k \in my[p].todo
  BY <1>1, Registered DEF SessionsOK, Fits
<1>3. c \in Sums
  BY <1>2 DEF CurSum, Sums
<1>4. ~StoppedBy(rows)
  BY <1>1 DEF LogInv, BlockInv, IsFailure, StoppedBy
<1>5. IsDue(my[p].res, rows, k)
  BY <1>1, <1>2 DEF LogInv, DueInv
<1>6. Log!Of(k) = {e \in LogOf(rows) : e.key = k}
  BY LogEntries
<1>7. CASE k \in Versions
  <2>1. SqlRows(rows, k) = {}
    BY <1>5, <1>7 DEF IsDue
  <2>2. Log!Of(k) = {}
    BY <1>6, <2>1, InLog DEF SqlRows, IsRun
  <2>3. OutOfOrder \/ \A e \in LogOf(rows) : e.key \in Versions => e.key < k
    BY <1>1, <1>2, <1>7, InLog DEF LogInv, OrderInv
  <2>4. Log!Due(k, c)
    BY <1>4, <1>7, <2>2, <2>3 DEF Log!Due, LogOf, LogEntry, StoppedBy
  <2> QED BY <1>2, <1>3, <1>4, <2>2, <2>4
<1>8. CASE k \notin Versions
  <2>1. \A x \in SqlRows(rows, k) : IsRun(x)
    BY <1>8 DEF LogInv, SettledInv, SqlRows, IsRun
  <2>2. ASSUME NEW e \in Log!Of(k), \A f \in Log!Of(k) : f.at <= e.at
        PROVE  e.checksum # c
    <3>1. PICK x \in rows : IsRun(x) /\ e.at = x.rank /\ e.key = x.key
                              /\ e.checksum = x.checksum
      BY <1>6, <2>2, InLog
    <3>2. x \in SqlRows(rows, k)
      BY <1>6, <2>2, <3>1 DEF SqlRows, IsRun
    <3>3. ASSUME NEW y \in SqlRows(rows, k) PROVE y.rank <= x.rank
      <4>1. LogEntry(y) \in Log!Of(k) /\ LogEntry(y).at = y.rank
        BY <1>6, <2>1, <3>3, InLog DEF SqlRows, LogEntry
      <4> QED BY <2>2, <3>1, <4>1
    <3>4. IsLatest(x, SqlRows(rows, k))
      BY <3>2, <3>3 DEF IsLatest
    <3> QED BY <1>5, <1>8, <3>1, <3>2, <3>4 DEF IsDue, CurSum
  <2>3. Log!Due(k, c)
    BY <1>4, <1>8, <2>2 DEF Log!Due, StoppedBy
  <2> QED BY <1>2, <1>3, <1>4, <1>8, <2>3
<1> QED BY <1>7, <1>8

\* The record that is inserted is an entry at the end of the log.
LEMMA EntersLog ==
  ASSUME LogInv, NEW p \in Sessions, Commits(p) \/ (InsertAfterRun(p) /\ ~my[p].failed),
         NEW k, k = my[p].cur, NEW c, c = CurSum(p)
  PROVE  /\ Log!Enter(k, c)
         /\ StoppedBy(rows') = StoppedBy(rows)
<1>1. Adds(p) /\ TypeInv
  BY DEF Adds, LogInv
<1>2. PICK ok \in BOOLEAN :
        /\ rows' = rows \cup {NewRow(p, ok)}
        /\ NewRow(p, ok).rank = my[p].rank /\ NewRow(p, ok).type = "SQL"
        /\ NewRow(p, ok).key = k /\ NewRow(p, ok).success = ok
        /\ NewRow(p, ok).checksum = c
        /\ Commits(p) => ok
        /\ InsertAfterRun(p) => ok = ~my[p].failed
  BY <1>1, RecordAdded DEF CurSum
<1>3. ok
  BY <1>2
<1> DEFINE x == NewRow(p, ok)
<1>4. LogEntry(x) = [at |-> my[p].rank, key |-> k, checksum |-> c]
  BY <1>2 DEF LogEntry
<1>5. x.type = "SQL" /\ x.success /\ rows' = rows \cup {x}
  BY <1>2, <1>3
<1> HIDE DEF x
<1>6. LogOf(rows') = LogOf(rows) \cup {LogEntry(x)} /\ StoppedBy(rows') = StoppedBy(rows)
  BY <1>5, LogGrows
<1>7. pc[p] \in {"txCommit", "runInsert"}
  BY <1>1, RecordAdded
<1>8. my[p].rank \in Ranks
  BY <1>1, <1>7 DEF TypeInv, SessionsOK, Fits, Inserting
<1>9. \A e \in LogOf(rows) : e.at < my[p].rank
  BY <1>7, InLog DEF LogInv, TopInv, IsRun
<1>10. Log!Enter(k, c)
  BY <1>4, <1>6, <1>8, <1>9 DEF Log!Enter, LogOf, LogEntry
<1> QED BY <1>6, <1>10

\* One more effect is one more in the log's count.
LEMMA CountsInLog ==
  ASSUME TypeInv, NEW p \in Sessions, Commits(p) \/ RunStatements(p),
         NEW k, k = my[p].cur
  PROVE  Log!Count(k)
<1>1. /\ k \in Keys
      /\ Len(effects'[k]) = Len(effects[k]) + 1
      /\ \A j \in Keys : j # k => effects'[j] = effects[j]
  BY EffectAdded
<1>2. RanOf(effects') = [RanOf(effects) EXCEPT ![k] = @ + 1]
  BY <1>1 DEF RanOf
<1> QED BY <1>2 DEF Log!Count, RanOf

\* A session's step is one of the log: a commit applies a script, the statements of
\* one that opted out of the transaction run it, and its record records it or stops
\* the log; every other step leaves the log alone.
LEMMA LogStep ==
  ASSUME NoTransaction \subseteq Versions, Commands \subseteq {"migrate", "baseline"},
         LogInv, NEW p \in Sessions, Acts(p)
  PROVE  Log!Next \/ UNCHANGED Log!state
<1>0. PICK k, c : k = my[p].cur /\ c = CurSum(p)
  OBVIOUS
<1>1. TypeInv /\ CommandInv /\ RankInv /\ "clean" \notin Commands
  BY DEF LogInv
<1>2. ASSUME pc[p] \in Applying
      PROVE  /\ k \in Keys /\ c \in Sums
             /\ Log!Due(k, c) /\ ~StoppedBy(rows)
             /\ k \in Versions => Log!Of(k) = {}
  BY <1>2, <1>0, DueInLog
<1>3. CASE Commits(p)
  <2>1. pc[p] = "txCommit"
    BY <1>3 DEF Commits, Commit, CommitAnswerLost
  <2>2. k \notin NoTransaction
    BY <1>0, <2>1 DEF LogInv, DueInv, InTransaction
  <2>3. Log!Count(k) /\ Log!Enter(k, c) /\ StoppedBy(rows') = StoppedBy(rows)
    BY <1>1, <1>0, <1>3, CountsInLog, EntersLog
  <2>4. pc[p] \in Applying
    BY <2>1 DEF Applying
  <2>5. Log!Apply(k, c)
    BY <1>2, <2>2, <2>3, <2>4 DEF Log!Apply, StoppedBy
  <2> QED BY <1>2, <2>4, <2>5, LogNext
<1>4. CASE RunStatements(p)
  <2>1. pc[p] = "run" /\ rows' = rows
    BY <1>4 DEF RunStatements
  <2>2. k \in NoTransaction
    BY <1>0, <1>1, <2>1 DEF TypeInv, SessionsOK, Fits
  <2>3. Log!Count(k)
    BY <1>1, <1>0, <1>4, CountsInLog
  <2>4. pc[p] \in Applying
    BY <2>1 DEF Applying
  <2>5. Log!Run(k, c)
    BY <1>2, <2>1, <2>2, <2>3, <2>4 DEF Log!Run
  <2> QED BY <1>2, <2>4, <2>5, LogNext
<1>5. CASE InsertAfterRun(p)
  <2>1. pc[p] = "runInsert" /\ effects' = effects
    BY <1>5 DEF InsertAfterRun
  <2>2. k \in NoTransaction /\ k \in Versions
    BY <1>0, <1>1, <2>1 DEF TypeInv, SessionsOK, Fits
  <2>3. pc[p] \in Applying
    BY <2>1 DEF Applying
  <2>4. Log!Of(k) = {}
    BY <1>2, <2>2, <2>3
  <2>5. CASE my[p].failed
    <3>1. PICK ok \in BOOLEAN :
            /\ rows' = rows \cup {NewRow(p, ok)}
            /\ NewRow(p, ok).type = "SQL" /\ NewRow(p, ok).key = k
            /\ NewRow(p, ok).success = ok /\ ok = ~my[p].failed
      BY <1>1, <1>0, <1>5, RecordAdded DEF Adds
    <3> DEFINE x == NewRow(p, ok)
    <3>0. x.type = "SQL" /\ ~x.success /\ x.key \in Versions /\ rows' = rows \cup {x}
      BY <2>2, <2>5, <3>1
    <3> HIDE DEF x
    <3>2. LogOf(rows') = LogOf(rows) /\ StoppedBy(rows') /\ ~StoppedBy(rows)
      BY <1>2, <2>3, <3>0, LogGrows
    <3>3. Log!Fail(k)
      BY <2>1, <2>2, <2>4, <3>2 DEF Log!Fail, LogOf, LogEntry, StoppedBy
    <3> QED BY <1>2, <2>3, <3>3, LogNext
  <2>6. CASE ~my[p].failed
    <3>1. Log!Enter(k, c) /\ StoppedBy(rows') = StoppedBy(rows)
      BY <1>0, <1>5, <2>6, EntersLog
    <3>2. p \in InFlight(k)
      BY <1>0, <2>1, <2>6 DEF InFlight, Unrecorded
    <3>3. /\ IsFiniteSet(InFlight(k))
          /\ Cardinality(RunRanks(rows, k)) + Cardinality(InFlight(k)) <= Len(effects[k])
      BY <2>2 DEF LogInv, WasRunInv
    <3>4. Cardinality(RunRanks(rows, k)) \in Nat
      BY <1>1, RunRanksCount DEF TypeInv, DatabaseOK
    <3>5. Cardinality(InFlight(k)) \in Nat /\ Cardinality(InFlight(k)) # 0
      BY <3>2, <3>3, FS_EmptySet, FS_CardinalityType
    <3>6. Len(effects[k]) \in Nat
      <4>1. effects[k] \in Seq(Editions)
        BY <1>1, <2>2 DEF TypeInv, DatabaseOK, Keys
      <4> QED BY <4>1
    <3>7. Cardinality(Log!Of(k)) = 0
      BY <2>4, FS_EmptySet
    <3>8. RanOf(effects)[k] = Len(effects[k])
      BY <2>2 DEF RanOf, Keys
    <3>9. Log!Cardinality(Log!Of(k)) < RanOf(effects)[k]
      BY <3>3, <3>4, <3>5, <3>6, <3>7, <3>8, SameCount
    <3>10. Log!Record(k, c)
      BY <1>2, <2>1, <2>2, <2>3, <3>1, <3>9 DEF Log!Record, StoppedBy, RanOf
    <3> QED BY <1>2, <2>3, <3>10, LogNext
  <2> QED BY <2>5, <2>6
<1>6. CASE ~Commits(p) /\ ~RunStatements(p) /\ ~InsertAfterRun(p)
  <2>1. effects' = effects
    BY <1>1, <1>6, EffectChanges, NoDrops
  <2>2. rows \subseteq rows' /\ \A y \in rows' \ rows : y.type # "SQL"
    BY <1>1, <1>6, NothingMended, OnlyInserts DEF Adds
  <2>3. LogOf(rows') = LogOf(rows) /\ StoppedBy(rows') = StoppedBy(rows)
    BY <2>2, MarkersUnseen
  <2> QED BY <2>1, <2>3 DEF Log!state, LogOf, LogEntry, StoppedBy
<1> QED BY <1>3, <1>4, <1>5, <1>6

\* If Migrate is alone, validateOnMigrate is set, no repeatable opted out of the
\* transaction and only Migrate and Baseline run, the sessions keep the log
\* MigrationLog promises: every script enters it at its end, when it is due and with
\* the effect it had, and none after a failure.
THEOREM LogIsKept ==
  ASSUME Exclusive, ValidateOnMigrate, NoTransaction \subseteq Versions,
         Commands \subseteq {"migrate", "baseline"}
  PROVE  Spec => KeepsTheLog
<1>1. Init => Log!Init
  <2> SUFFICES ASSUME Init PROVE Log!Init
    OBVIOUS
  <2>1. rows = {} /\ effects = NoEffects
    BY DEF Init
  <2>2. LogOf(rows) = {} /\ StoppedBy(rows) = FALSE
    BY <2>1 DEF LogOf, StoppedBy
  <2>3. RanOf(effects) = [k \in Keys |-> 0]
    BY <2>1 DEF RanOf, NoEffects
  <2> QED BY <2>2, <2>3 DEF Log!Init, Log!Scripts, LogOf, LogEntry, RanOf, StoppedBy, Keys
<1>2. LogInv /\ [Next]_vars => [Log!Next]_(Log!state)
  <2> SUFFICES ASSUME LogInv, [Next]_vars PROVE Log!Next \/ UNCHANGED Log!state
    OBVIOUS
  <2>1. CASE UNCHANGED <<pc, my, holders, database>>
    BY <2>1 DEF database, Log!state
  <2> QED BY <2>1, NextActs, LogStep
<1>3. "clean" \notin Commands
  OBVIOUS
<1>4. Init => (OutOfOrder \/ OrderInv)
  BY OrderInit
<1>5. LogInv /\ [Next]_vars => (OutOfOrder \/ OrderInv)'
  BY OrderNext DEF LogInv
<1>6. LogInv /\ [Next]_vars => WasRunInv'
  BY <1>3, WasRunNext DEF LogInv
<1>7. Init => LogInv
  BY <1>4, TypeInit, GuardedInit, RankInit, TopInit, CommandInit, BlockInit, SettledInit,
     WasRunInit, DueInit DEF LogInv
<1>8. LogInv /\ [Next]_vars => LogInv'
  <2> SUFFICES ASSUME LogInv, [Next]_vars PROVE LogInv'
    OBVIOUS
  <2>1. /\ TypeInv /\ Guarded /\ RankInv /\ TopInv /\ CommandInv
        /\ BlockInv /\ SettledInv /\ WasRunInv /\ DueInv
    BY DEF LogInv
  <2>2. TypeInv' /\ RankInv' /\ TopInv' /\ CommandInv'
    BY <2>1, TypeNext, RankNext, TopNext, CommandNext
  <2>3. Guarded'
    BY <2>1, GuardedNext
  <2>4. BlockInv' /\ SettledInv' /\ DueInv'
    BY <2>1, BlockNext, SettledNext, DueNext
  <2> QED BY <1>5, <1>6, <2>2, <2>3, <2>4 DEF LogInv
<1> QED BY <1>1, <1>2, <1>7, <1>8, PTL DEF Spec, KeepsTheLog, Log!Spec

=============================================================================
