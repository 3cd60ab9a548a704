-------------------------- MODULE MigrationStates --------------------------
(***************************************************************************)
(* The comparison at the heart of every command: computeInfos and the      *)
(* queries of migrationInfoService in info.go.  It relates the scripts a   *)
(* process resolved when it was loaded (res, a function from keys to       *)
(* editions, Nil where there is no script) to the rows of the history      *)
(* table (rs).                                                             *)
(***************************************************************************)
EXTENDS SchemaHistory

CONSTANTS
  Target,       \* The version above which nothing is applied, or Nil
  OutOfOrder    \* Whether versions below the current one may be applied

ASSUME PolicyAssumption ==
  /\ Target \in Versions \cup {Nil}
  /\ OutOfOrder \in BOOLEAN

Scripts == [Keys -> Editions \cup {Nil}]

-----------------------------------------------------------------------------
(* What the history says.                                                  *)

\* The record a map filled in rank order keeps: the last one.
IsLatest(x, S) == x \in S /\ \A y \in S : y.rank <= x.rank

SqlRows(rs, k) == {x \in rs : x.type = "SQL" /\ x.key = k}
Baselines(rs) == {x \in rs : x.type = "BASELINE"}

\* The row that stands for key k: appliedVersioned[k], or for a repeatable the
\* run of the highest rank; every older run is superseded.
IsApplied(rs, k) == SqlRows(rs, k) # {}
AppliedRow(rs, k) == CHOOSE x \in SqlRows(rs, k) : IsLatest(x, SqlRows(rs, k))

\* Planted bug: noteCurrent is called for baselines only.
NotedVersions_BaselinesOnly(rs) == {x.key : x \in Baselines(rs)}

\* Versions that successful rows record, which noteCurrent takes the maximum of.
NotedVersions(rs) ==
  {x.key : x \in {y \in rs : y.success /\ y.type # "SCHEMA" /\ y.key \in Versions}}

\* v is at or below the version of the last baseline marker.
CoveredByBaseline(rs, v) ==
  \E x \in Baselines(rs) : IsLatest(x, Baselines(rs)) /\ v <= x.key

\* v is below the current version.
BelowCurrent(rs, v) == \E w \in NotedVersions(rs) : v < w

\* v is above every version there is a script for, of which there is one.
AboveResolved(res, v) ==
  LET resolved == {w \in Versions : res[w] # Nil}
  IN  resolved # {} /\ \A w \in resolved : w < v

\* Planted bug: the target itself counts as above it.
AboveTarget_Inclusive(v) == Target # Nil /\ v >= Target

\* v is above the configured target.
AboveTarget(v) == Target # Nil /\ v > Target

-----------------------------------------------------------------------------
(* populateVersionedEntry.                                                 *)

VersionedState(res, rs, v) ==
  LET applied  == IsApplied(rs, v)
      ok       == AppliedRow(rs, v).success
      resolved == res[v] # Nil
  IN  CASE applied /\ resolved -> IF ok THEN "Success" ELSE "Failed"
        [] applied /\ ~resolved /\ AboveResolved(res, v) ->
             IF ok THEN "Future" ELSE "Failed (Future)"
        [] applied /\ ~resolved /\ ~AboveResolved(res, v) ->
             IF ok THEN "Missing" ELSE "Failed (Missing)"
        [] ~applied /\ resolved ->
             IF AboveTarget(v) THEN "Above Target"
             ELSE IF CoveredByBaseline(rs, v) THEN "Ignored"
             ELSE IF BelowCurrent(rs, v) /\ ~OutOfOrder THEN "Ignored"
             ELSE "Pending"
        [] ~applied /\ ~resolved -> "Unknown"

\* entry.outOfOrder: skipped or taken although later versions are applied.
IsOutOfOrder(res, rs, v) ==
  /\ ~IsApplied(rs, v) /\ res[v] # Nil
  /\ ~AboveTarget(v)
  /\ ~CoveredByBaseline(rs, v)
  /\ BelowCurrent(rs, v)

\* populateRepeatableEntry, for the latest run.  It does not look at success.
RepeatableState(res, rs, r) ==
  LET applied  == IsApplied(rs, r)
      resolved == res[r] # Nil
  IN  CASE applied /\ resolved ->
             IF AppliedRow(rs, r).checksum = Checksum(r, res[r])
             THEN "Success" ELSE "Outdated"
        [] applied /\ ~resolved  -> "Missing"
        [] ~applied /\ resolved  -> "Pending"
        [] ~applied /\ ~resolved -> "Unknown"

StateOf(res, rs, k) ==
  IF k \in Versions THEN VersionedState(res, rs, k) ELSE RepeatableState(res, rs, k)

-----------------------------------------------------------------------------
(* The queries.                                                            *)

\* Planted bug: outdated repeatables are forgotten.
Pending_NotOutdated(res, rs) ==
  {k \in Keys : res[k] # Nil /\ StateOf(res, rs, k) = "Pending"}

\* pending: the scripts to apply.  They are applied in the order of the keys.
Pending(res, rs) ==
  {k \in Keys : /\ res[k] # Nil
                /\ StateOf(res, rs, k) \in
                     IF k \in Versions THEN {"Pending"} ELSE {"Pending", "Outdated"}}

\* A Success entry of a versioned migration whose recorded text or description
\* is no longer the script's.
ChecksumMismatch(res, rs, k) ==
  /\ k \in Versions /\ StateOf(res, rs, k) = "Success"
  /\ AppliedRow(rs, k).checksum # Checksum(k, res[k])
DescriptionMismatch(res, rs, k) ==
  /\ k \in Versions /\ StateOf(res, rs, k) = "Success"
  /\ AppliedRow(rs, k).title # TitleOf[res[k]]

\* Planted bug: of the failed states only the plain one is reported.
FailedKeys_PlainOnly(res, rs) == {k \in Keys : StateOf(res, rs, k) = "Failed"}

\* validate, by kind of message: the keys each message is added for.
FailedKeys(res, rs) ==
  {k \in Keys : StateOf(res, rs, k) \in {"Failed", "Failed (Future)", "Failed (Missing)"}}
LostKeys(res, rs) == {k \in Keys : StateOf(res, rs, k) \in {"Missing", "Future"}}
MismatchedKeys(res, rs) ==
  {k \in Keys : ChecksumMismatch(res, rs, k) \/ DescriptionMismatch(res, rs, k)}
UnappliedKeys(res, rs) ==
  {k \in Keys : StateOf(res, rs, k) \in {"Pending", "Outdated"}}
    \cup {k \in Versions : /\ StateOf(res, rs, k) = "Ignored"
                           /\ IsOutOfOrder(res, rs, k)}

Problems(res, rs, ignorePending) ==
  FailedKeys(res, rs) \cup LostKeys(res, rs) \cup MismatchedKeys(res, rs)
    \cup (IF ignorePending THEN {} ELSE UnappliedKeys(res, rs))

\* Planted bug: only a missing checksum is filled in.
RepairFixes_MissingOnly(res, rs) ==
  {[rank |-> x.rank, checksum |-> Checksum(x.key, res[x.key])] :
     x \in {y \in rs : /\ ~IsSynthetic(y)
                       /\ res[y.key] # Nil
                       /\ y.checksum = NoChecksum}}

\* The updates Repair decides on: every record of a resolved script, older runs
\* of a repeatable included, whose checksum is not the script's.
RepairFixes(res, rs) ==
  {[rank |-> x.rank, checksum |-> Checksum(x.key, res[x.key])] :
     x \in {y \in rs : /\ ~IsSynthetic(y)
                       /\ res[y.key] # Nil
                       /\ y.checksum # Checksum(y.key, res[y.key])}}

=============================================================================
