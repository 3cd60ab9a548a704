--------------------------- MODULE SchemaHistory ---------------------------
(***************************************************************************)
(* The schema history table of history.go: the rows it holds and what each *)
(* statement the program sends does to them.  A table is a set of rows;    *)
(* the primary key on "installed_rank" (both dialects) makes it a function *)
(* of the rank, so the order all() reads it in is the order of the ranks.  *)
(*                                                                         *)
(* Columns nothing here tells apart are left out: installed_by,            *)
(* installed_on, execution_time and the script's file name.                *)
(***************************************************************************)
EXTENDS Integers, FiniteSets

CONSTANTS
  Versions,      \* Versions of migrations, each named by its place in the
                 \* order of Version.Compare
  Repeatables,   \* Repeatable migrations, placed after every version and
                 \* among themselves by description
  Editions,      \* The texts a script may have in the course of a behaviour
  SumOf,         \* The checksum of an edition's text
  TitleOf,       \* The description in an edition's file name
  MaxRank        \* Bound on installed_rank

\* The absence of a version, of a script, of a target: Go's nil.
Nil == 0

\* What a history row and a script have in common: a version, or the
\* description that identifies a repeatable migration.
Keys == Versions \cup Repeatables

ASSUME KeysAssumption ==
  /\ Versions \subseteq Nat \ {Nil}
  /\ Repeatables \subseteq Nat \ {Nil}
  /\ \A v \in Versions, r \in Repeatables : v < r

ASSUME EditionsAssumption ==
  /\ Editions \subseteq Nat \ {Nil}
  /\ SumOf \in [Editions -> Nat]
  /\ TitleOf \in [Editions -> Nat]

ASSUME MaxRankAssumption == MaxRank \in Nat

Ranks == 1..MaxRank

\* No two scripts have the same text, so a checksum is the script it belongs
\* to and the sum of the edition; a synthetic row has none.
Checksum(k, e) == <<k, SumOf[e]>>
NoChecksum == <<Nil, 0>>
Checksums == (Keys \X Nat) \cup {NoChecksum}

Row == [rank     : Ranks,
        type     : {"SQL", "BASELINE", "SCHEMA"},
        key      : Keys \cup {Nil},
        title    : Nat,
        checksum : Checksums,
        success  : BOOLEAN]

-----------------------------------------------------------------------------
(* The rows the program writes.                                            *)

\* buildRecord: the row of script k, of which edition e was loaded.
SqlRow(n, k, e, ok) ==
  [rank |-> n, type |-> "SQL", key |-> k, title |-> TitleOf[e],
   checksum |-> Checksum(k, e), success |-> ok]

\* insertBaseline: the marker of baseline version v.
BaselineRow(n, v) ==
  [rank |-> n, type |-> "BASELINE", key |-> v, title |-> 0,
   checksum |-> NoChecksum, success |-> TRUE]

\* recordSchemaCreation: the marker of the schemas this run created.
SchemaRow(n) ==
  [rank |-> n, type |-> "SCHEMA", key |-> Nil, title |-> 0,
   checksum |-> NoChecksum, success |-> TRUE]

-----------------------------------------------------------------------------
(* The statements.                                                         *)

\* nextInstalledRank: n is COALESCE(MAX(installed_rank), 0) + 1.
IsNextRank(rs, n) ==
  /\ \A x \in rs : x.rank < n
  /\ n = 1 \/ \E x \in rs : x.rank = n - 1

\* The primary key refuses a second row of the same rank.
RankTaken(rs, n) == \E x \in rs : x.rank = n

\* Planted bug: the condition is the wrong way round.
DeleteFailed_Inverted(rs) == {x \in rs : ~x.success}

\* deleteFailed: DELETE ... WHERE success = false.
DeleteFailed(rs) == {x \in rs : x.success}

\* updateChecksum: UPDATE ... SET checksum = c WHERE installed_rank = n.  It
\* touches whatever row has that rank now, and none if there is none.
UpdateChecksum(rs, n, c) ==
  {IF x.rank = n THEN [x EXCEPT !.checksum = c] ELSE x : x \in rs}

\* isSynthetic: a marker rather than the record of a script.
IsSynthetic(x) == x.type \in {"BASELINE", "SCHEMA"}

=============================================================================
