----------------------------- MODULE MCMigrator -----------------------------
(* Values for the constants of Migrator in the runs of TLC. *)
EXTENDS MigratorProperties, TLC

\* Editions of a script: its first text, a changed one, and the first one under
\* another description.
MCEditions == 1..3
MCSumOf == <<1, 2, 1>>
MCTitleOf == <<1, 1, 2>>

\* For runs about the flow of control: a script is there or not.
OneEdition == {1}
OneSum == <<1>>
OneTitle == <<1>>

\* All scripts are there at the start, or only some of them.
AllScripts == [k \in Keys |-> 1]
AllButFirst == [k \in Keys |-> IF k = 1 THEN Nil ELSE 1]

Symmetry == Permutations(Sessions)

=============================================================================
