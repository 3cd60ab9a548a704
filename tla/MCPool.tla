------------------------------- MODULE MCPool -------------------------------
(* Values for the constants of ConnectionPool in the runs of TLC. *)
EXTENDS ConnectionPool, TLC

\* All callers are goroutines of one process, and share its pool.
OneProcess == [x \in Sessions \cup Connections |-> 1]

\* One Migrator has its own schema, the others take what a connection gives.
OneConfigured == [p \in Sessions |-> IF p = "s1" THEN "app" ELSE Nobody]

\* One connection more than callers; a single one suffices on SQLite.
MCMaxOpen == "postgresql" :> Connections @@ "sqlite" :> {"c1"}
OnlyPostgres == "postgresql" :> Connections

=============================================================================
