--------------------------- MODULE ConnectionPool ---------------------------
(***************************************************************************)
(* The connections a command uses, on either dialect.  The sessions of one *)
(* process share one *sql.DB, which opens at most as many connections as   *)
(* MaxOpenConns allows and makes everybody else wait for one to come back. *)
(* A connection keeps its search_path and its advisory lock when it goes   *)
(* back to the pool.                                                       *)
(*                                                                         *)
(* A statement sent to the pool borrows a connection for that statement    *)
(* only; consecutive ones are one step.  What the statements do to the     *)
(* history is in Migrator.                                                 *)
(***************************************************************************)
EXTENDS Integers

CONSTANTS
  MaxOpen,        \* The connections that may be open at a time, per dialect
  Sessions,       \* Callers of a Migrator, one command at a time each
  Connections,    \* The connections that may be open, of all processes
  Process,        \* The process of each session and of each connection
  SchemaOf,       \* The schema each session's Configuration names, or Nobody
  LoginPath,      \* The search_path of a new connection
  Scripts,        \* The pending scripts
  NoTransaction,  \* Those that opted out of the transaction ...
  BuildsIndex,    \* ... and of these, those with a CREATE INDEX CONCURRENTLY
  Nobody,         \* No session, no connection, no schema
  MaxCommands     \* Bound: commands issued

ASSUME PoolAssumption ==
  /\ DOMAIN MaxOpen \subseteq {"postgresql", "sqlite"}
  /\ \A d \in DOMAIN MaxOpen : MaxOpen[d] \subseteq Connections
  /\ DOMAIN Process = Sessions \cup Connections
  /\ DOMAIN SchemaOf = Sessions
  /\ BuildsIndex \subseteq NoTransaction /\ NoTransaction \subseteq Scripts
  /\ Nobody \notin Sessions \cup Connections \cup Scripts \cup {LoginPath}
  /\ MaxCommands \in Nat

VARIABLES
  dialect,  \* What the database is
  pc,       \* What each session does next
  my,       \* What each session keeps in memory
  user,     \* The session a connection is lent to, or Nobody
  alive,    \* Whether the server still knows a connection that is lent
  path,     \* search_path of each connection, as SET left it ...
  local,    \* ... and as SET LOCAL overrides it until the transaction ends
  holder,   \* The connection that has the advisory lock, or Nobody
  started   \* Number of commands issued

connections == <<user, alive, path, local>>
vars == <<dialect, pc, my, connections, holder, started>>

\* Between pg_advisory_lock and pg_advisory_unlock.
Locked == {"prepare", "next", "setPath", "script", "record", "after", "failed", "unlock"}
Steps == Locked \cup {"idle", "resolve", "lockConn", "lock", "query", "cleanConn", "drop"}

Schemas == ({LoginPath} \cup {SchemaOf[p] : p \in Sessions}) \ {Nobody}

Fresh == [cmd |-> "none", schema |-> Nobody, lock |-> Nobody, conn |-> Nobody,
          script |-> Nobody, todo |-> {}]

Init ==
  /\ dialect \in DOMAIN MaxOpen
  /\ pc = [p \in Sessions |-> "idle"]
  /\ my = [p \in Sessions |-> Fresh]
  /\ user = [c \in Connections |-> Nobody]
  /\ alive = [c \in Connections |-> TRUE]
  /\ path = [c \in Connections |-> LoginPath]
  /\ local = [c \in Connections |-> Nobody]
  /\ holder = Nobody
  /\ started = 0

-----------------------------------------------------------------------------
(* The pool.                                                               *)

Goto(p, step) == pc' = [pc EXCEPT ![p] = step]

\* The pool can lend c to p: it is idle, or not open yet.
Free(p, c) == user[c] = Nobody /\ Process[c] = Process[p] /\ c \in MaxOpen[dialect]

Lend(c, p) == user' = [user EXCEPT ![c] = p]

\* Close of a dedicated connection, Commit and Rollback: the connection goes back as
\* it is.  One that broke is discarded; its place is taken by a new one.
GiveBack(c) ==
  /\ user' = [user EXCEPT ![c] = Nobody]
  /\ local' = [local EXCEPT ![c] = Nobody]
  /\ alive' = [alive EXCEPT ![c] = TRUE]
  /\ path' = IF alive[c] THEN path ELSE [path EXCEPT ![c] = LoginPath]

\* The search_path that unqualified names on c are resolved with.
SearchPath(c) == IF local[c] # Nobody THEN local[c] ELSE path[c]

\* Idle connections may be closed at any time; a new one has what the login gives.
CloseIdle(c) ==
  /\ user[c] = Nobody
  /\ path[c] # LoginPath \/ holder = c
  /\ path' = [path EXCEPT ![c] = LoginPath]
  /\ holder' = IF holder = c THEN Nobody ELSE holder
  /\ UNCHANGED <<pc, my, user, alive, local, started, dialect>>

\* The server or the network ends a connection in use, and with it its lock.  SQLite
\* has neither.
Break(c) ==
  /\ dialect = "postgresql" /\ user[c] # Nobody /\ alive[c]
  /\ alive' = [alive EXCEPT ![c] = FALSE]
  /\ holder' = IF holder = c THEN Nobody ELSE holder
  /\ UNCHANGED <<pc, my, user, path, local, started, dialect>>

-----------------------------------------------------------------------------
(* The commands: Migrate, Clean, and the others ("query"), which only send *)
(* statements to the pool.                                                 *)

Return(p) == Goto(p, "idle") /\ my' = [my EXCEPT ![p] = Fresh]

Start(p, c) ==
  /\ pc[p] = "idle" /\ started < MaxCommands
  /\ started' = started + 1
  /\ Goto(p, "resolve")
  /\ my' = [my EXCEPT ![p].cmd = c]
  /\ UNCHANGED <<connections, holder, dialect>>

\* Where a command goes once its schema is known; acquireLock does nothing on SQLite.
Dispatch(p) ==
  Goto(p, CASE my[p].cmd = "migrate" -> IF dialect = "postgresql" THEN "lockConn" ELSE "prepare"
            [] my[p].cmd = "clean"   -> "cleanConn"
            [] my[p].cmd = "query"   -> "query")

\* Planted bug: without a configured schema there is none.
ResolveSchema_ConfiguredOnly(p) ==
  /\ pc[p] = "resolve"
  /\ my' = [my EXCEPT ![p].schema = SchemaOf[p]]
  /\ Dispatch(p)
  /\ UNCHANGED <<connections, holder, started, dialect>>

\* resolveDefaultSchema: the configured schema, or the one that some connection of
\* the pool resolves names in, which on SQLite is not asked.
ResolveSchema(p) ==
  /\ pc[p] = "resolve"
  /\ \E s \in Schemas \cup {Nobody} :
       /\ IF SchemaOf[p] # Nobody \/ dialect = "sqlite"
          THEN s = SchemaOf[p]
          ELSE \E c \in Connections : Free(p, c) /\ s = SearchPath(c)
       /\ my' = [my EXCEPT ![p].schema = s]
  /\ Dispatch(p)
  /\ UNCHANGED <<connections, holder, started, dialect>>

\* acquireLock: a connection for the lock alone.
TakeLockConnection(p) ==
  /\ pc[p] = "lockConn"
  /\ \E c \in Connections :
       Free(p, c) /\ Lend(c, p) /\ my' = [my EXCEPT ![p].lock = c]
  /\ Goto(p, "lock")
  /\ UNCHANGED <<alive, path, local, holder, started, dialect>>

\* Planted bug: the lock is tried, and the answer is not looked at.
AcquireLock_Try(p) ==
  /\ pc[p] = "lock" /\ alive[my[p].lock]
  /\ holder' = IF holder = Nobody THEN my[p].lock ELSE holder
  /\ Goto(p, "prepare")
  /\ UNCHANGED <<my, connections, started, dialect>>

\* acquireLock: pg_advisory_lock waits for every other connection, but not for the
\* one it is sent over.
AcquireLock(p) ==
  /\ pc[p] = "lock" /\ alive[my[p].lock]
  /\ holder \in {Nobody, my[p].lock}
  /\ holder' = my[p].lock
  /\ Goto(p, "prepare")
  /\ UNCHANGED <<my, connections, started, dialect>>

\* Everything Migrate sends to the pool before its first script.
Prepare(p) ==
  /\ pc[p] = "prepare" /\ \E c \in Connections : Free(p, c)
  /\ my' = [my EXCEPT ![p].todo = Scripts]
  /\ Goto(p, "next")
  /\ UNCHANGED <<connections, holder, started, dialect>>

\* BeginTx or Conn: a connection for the next script.  SQLite has no search_path.
BeginScript(p) ==
  /\ pc[p] = "next"
  /\ \E s \in my[p].todo, c \in Connections :
       /\ Free(p, c) /\ Lend(c, p)
       /\ my' = [my EXCEPT ![p].script = s, ![p].conn = c, ![p].todo = @ \ {s}]
  /\ Goto(p, IF dialect = "postgresql" THEN "setPath" ELSE "script")
  /\ UNCHANGED <<alive, path, local, holder, started, dialect>>

\* Planted bug: only transactions set the search_path.
SetSearchPath_OnlyLocal(p) ==
  /\ pc[p] = "setPath" /\ alive[my[p].conn]
  /\ local' = IF my[p].script \in NoTransaction THEN local
              ELSE [local EXCEPT ![my[p].conn] = my[p].schema]
  /\ Goto(p, "script")
  /\ UNCHANGED <<my, user, alive, path, holder, started, dialect>>

\* setSearchPathSQL for the transaction, sessionSearchPathSQL for good.
SetSearchPath(p) ==
  /\ pc[p] = "setPath" /\ alive[my[p].conn]
  /\ IF my[p].script \in NoTransaction
     THEN path' = [path EXCEPT ![my[p].conn] = my[p].schema] /\ UNCHANGED local
     ELSE local' = [local EXCEPT ![my[p].conn] = my[p].schema] /\ UNCHANGED path
  /\ Goto(p, "script")
  /\ UNCHANGED <<my, user, alive, holder, started, dialect>>

\* The statements of the script.  CREATE INDEX CONCURRENTLY waits for every session
\* that has a statement in progress, also for those blocked in pg_advisory_lock.
RunScript(p) ==
  /\ pc[p] = "script" /\ alive[my[p].conn]
  /\ my[p].script \in BuildsIndex =>
       \A q \in Sessions \ {p} : pc[q] = "lock" => ~alive[my[q].lock]
  /\ Goto(p, "record")
  /\ UNCHANGED <<my, connections, holder, started, dialect>>

\* Planted bug: the row is inserted over the pool while the connection is kept.
RecordScript_Pool(p) ==
  /\ pc[p] = "record"
  /\ \E c \in Connections : Free(p, c)
  /\ GiveBack(my[p].conn)
  /\ my' = [my EXCEPT ![p].conn = Nobody, ![p].script = Nobody]
  /\ Goto(p, "next")
  /\ UNCHANGED <<holder, started, dialect>>

\* The row is inserted over the script's own connection, which then goes back.
RecordScript(p) ==
  /\ pc[p] = "record" /\ alive[my[p].conn]
  /\ GiveBack(my[p].conn)
  /\ my' = [my EXCEPT ![p].conn = Nobody, ![p].script = Nobody]
  /\ Goto(p, "next")
  /\ UNCHANGED <<holder, started, dialect>>

\* The loop ends.
AllApplied(p) ==
  /\ pc[p] = "next" /\ my[p].todo = {}
  /\ Goto(p, "after")
  /\ UNCHANGED <<my, connections, holder, started, dialect>>

\* currentVersionString, and afterMigrate where all went well, over the pool.
Conclude(p) ==
  /\ pc[p] \in {"after", "failed"} /\ \E c \in Connections : Free(p, c)
  /\ Goto(p, "unlock")
  /\ UNCHANGED <<my, connections, holder, started, dialect>>

\* Planted bug: the connection is closed without unlocking.
Unlock_CloseOnly(p) ==
  /\ pc[p] = "unlock"
  /\ IF my[p].lock = Nobody THEN UNCHANGED connections ELSE GiveBack(my[p].lock)
  /\ Return(p)
  /\ UNCHANGED <<holder, started, dialect>>

\* The deferred release: pg_advisory_unlock, then Close; on SQLite nothing.
Unlock(p) ==
  /\ pc[p] = "unlock"
  /\ holder' = IF holder = my[p].lock THEN Nobody ELSE holder
  /\ IF my[p].lock = Nobody THEN UNCHANGED connections ELSE GiveBack(my[p].lock)
  /\ Return(p)
  /\ UNCHANGED <<started, dialect>>

\* Baseline, Repair, Info and Validate.
Query(p) ==
  /\ pc[p] = "query" /\ \E c \in Connections : Free(p, c)
  /\ Return(p)
  /\ UNCHANGED <<connections, holder, started, dialect>>

\* Clean: a connection of its own ...
TakeCleanConnection(p) ==
  /\ pc[p] = "cleanConn"
  /\ \E c \in Connections :
       Free(p, c) /\ Lend(c, p) /\ my' = [my EXCEPT ![p].conn = c]
  /\ Goto(p, "drop")
  /\ UNCHANGED <<alive, path, local, holder, started, dialect>>

\* ... for the statements it sends, closed when they end or fail.
CleanDone(p) ==
  /\ pc[p] = "drop"
  /\ GiveBack(my[p].conn)
  /\ Return(p)
  /\ UNCHANGED <<holder, started, dialect>>

-----------------------------------------------------------------------------
(* Failures: an error of the next statement, of a callback or of reading a *)
(* script, or the caller's context ends.                                   *)

\* Without a connection in hand: the command returns, Migrate by its release.
StatementFails(p) ==
  /\ pc[p] \in {"resolve", "lockConn", "query", "cleanConn", "prepare", "next", "after"}
  /\ pc[p] = "next" => my[p].todo # {}
  /\ CASE pc[p] = "prepare"           -> Goto(p, "unlock") /\ UNCHANGED my
       [] pc[p] \in {"next", "after"} -> Goto(p, "failed") /\ UNCHANGED my
       [] OTHER                       -> Return(p)
  /\ UNCHANGED <<connections, holder, started, dialect>>

\* acquireLock: the lock is not granted; the connection is closed.
LockFails(p) ==
  /\ pc[p] = "lock"
  /\ GiveBack(my[p].lock)
  /\ Return(p)
  /\ UNCHANGED <<holder, started, dialect>>

\* With a script's connection in hand: Rollback or Close, and the run is over.
ScriptFails(p) ==
  /\ pc[p] \in {"setPath", "script", "record"}
  /\ GiveBack(my[p].conn)
  /\ my' = [my EXCEPT ![p].conn = Nobody, ![p].script = Nobody]
  /\ Goto(p, "failed")
  /\ UNCHANGED <<holder, started, dialect>>

\* A statement over a connection that broke can only fail.
Refused(p) ==
  \/ pc[p] = "lock" /\ ~alive[my[p].lock] /\ LockFails(p)
  \/ pc[p] \in {"setPath", "script", "record"} /\ ~alive[my[p].conn] /\ ScriptFails(p)

-----------------------------------------------------------------------------
(* The specification.                                                      *)

Step(p) ==
  \/ ResolveSchema(p) \/ TakeLockConnection(p) \/ AcquireLock(p) \/ Prepare(p)
  \/ BeginScript(p) \/ SetSearchPath(p) \/ RunScript(p) \/ RecordScript(p)
  \/ AllApplied(p) \/ Conclude(p) \/ Unlock(p)
  \/ Query(p) \/ TakeCleanConnection(p) \/ CleanDone(p)

\* No command is in progress and none is left: the bounded system may stop.
Quiet ==
  /\ started = MaxCommands /\ \A p \in Sessions : pc[p] = "idle"
  /\ UNCHANGED vars

Next ==
  \/ \E p \in Sessions :
       \/ \E c \in {"migrate", "clean", "query"} : Start(p, c)
       \/ Step(p)
       \/ StatementFails(p) \/ LockFails(p) \/ ScriptFails(p)
  \/ \E c \in Connections : CloseIdle(c) \/ Break(c)
  \/ Quiet

\* A statement is answered, and a connection that is free is lent in the end.
Fairness == \A p \in Sessions : WF_vars(Step(p) \/ Refused(p))

Spec == Init /\ [][Next]_vars /\ Fairness

-----------------------------------------------------------------------------
(* Properties.                                                             *)

\* Every variable holds values of the kind the code gives it.
TypeOK ==
  /\ dialect \in DOMAIN MaxOpen
  /\ pc \in [Sessions -> Steps]
  /\ my \in [Sessions ->
       [cmd    : {"none", "migrate", "clean", "query"},
        schema : Schemas \cup {Nobody},
        lock   : Connections \cup {Nobody},
        conn   : Connections \cup {Nobody},
        script : Scripts \cup {Nobody},
        todo   : SUBSET Scripts]]
  /\ user \in [Connections -> Sessions \cup {Nobody}]
  /\ alive \in [Connections -> BOOLEAN]
  /\ path \in [Connections -> Schemas]
  /\ local \in [Connections -> Schemas \cup {Nobody}]
  /\ holder \in Connections \cup {Nobody}
  /\ started \in 0..MaxCommands

\* On PostgreSQL two sessions are past acquireLock only if the connection of one of them broke:
\* the lock, which belongs to a connection and not to a session, never stays behind
\* on a connection that another session is lent (acquireLock and its release).
ExclusiveUnlessBroken ==
  \A p, q \in Sessions :
    dialect = "postgresql" /\ p # q /\ pc[p] \in Locked /\ pc[q] \in Locked =>
      \E r \in {p, q} : ~alive[my[r].lock]

\* Whatever path a command ends by, its connections are back in the pool, no idle one
\* holds the lock, and a script's connection is never the lock's (every Close,
\* Commit, Rollback and the deferred release).
NothingLeaks ==
  /\ holder # Nobody => user[holder] # Nobody
  /\ \A c \in Connections :
       user[c] # Nobody => (c = my[user[c]].lock <=> c # my[user[c]].conn)

\* On PostgreSQL a script runs in the schema that the history of its command is in, whatever
\* search_path earlier scripts left behind on its connection, also when no schema is
\* configured (setSearchPathSQL, sessionSearchPathSQL, resolveDefaultSchema).
ScriptRunsInSchema ==
  \A p \in Sessions :
    dialect = "postgresql" /\ pc[p] = "script" /\ alive[my[p].conn] =>
      SearchPath(my[p].conn) = my[p].schema

\* Every command ends: with one connection more than callers, or on SQLite with one
\* for all of them, nobody waits for a
\* connection that only he himself could give back (acquireLock, applyMigration).
CommandsEnd == \A p \in Sessions : pc[p] # "idle" ~> pc[p] = "idle"

\* guides/dialects.md:125 "this allows statements like `CREATE INDEX CONCURRENTLY`":
\* a Migrate whose script builds an index that way ends too.
IndexBuildsEnd == \A p \in Sessions : pc[p] = "script" ~> pc[p] = "idle"

=============================================================================
