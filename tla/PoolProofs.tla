------------------------------ MODULE PoolProofs ------------------------------
(***************************************************************************)
(* Theorems about the connections, for every number of sessions, processes *)
(* and connections, on either dialect, and whatever search_path a session  *)
(* or a login has.                                                         *)
(***************************************************************************)
EXTENDS ConnectionPool, TLAPS

-----------------------------------------------------------------------------
(* The inductive invariant.                                                *)

\* What a session keeps while it has a connection in hand.
WithConn == {"setPath", "script", "record", "drop"}
WithLock == Locked \cup {"lock"}

Registers ==
  [cmd    : {"none", "migrate", "clean", "query"},
   schema : Schemas \cup {Nobody},
   lock   : Connections \cup {Nobody},
   conn   : Connections \cup {Nobody},
   script : Scripts \cup {Nobody},
   todo   : SUBSET Scripts]

Fits(step, m) ==
  /\ m.conn # Nobody <=> step \in WithConn
  /\ m.lock # Nobody <=> step \in WithLock /\ dialect = "postgresql"
  /\ step \in {"lockConn", "lock", "setPath"} => dialect = "postgresql"
  /\ step # "idle" => m.cmd # "none"
  /\ step \notin {"idle", "resolve"} /\ dialect = "postgresql" => m.schema \in Schemas

SessionsOK ==
  /\ TypeOK
  /\ \A p \in Sessions : Fits(pc[p], my[p])

\* A connection is lent to the session that has it in hand, for one purpose.
LentInv ==
  /\ \A p \in Sessions : my[p].lock # Nobody => user[my[p].lock] = p /\ my[p].lock # my[p].conn
  /\ \A p \in Sessions : my[p].conn # Nobody => user[my[p].conn] = p
  /\ \A c \in Connections : user[c] # Nobody => c \in {my[user[c]].lock, my[user[c]].conn}

\* The lock is on the connection its session took for it.
HolderInv ==
  /\ holder # Nobody =>
       /\ user[holder] # Nobody /\ my[user[holder]].lock = holder
       /\ pc[user[holder]] \in Locked
  /\ \A p \in Sessions :
       pc[p] \in Locked /\ dialect = "postgresql" /\ alive[my[p].lock] => holder = my[p].lock

\* SET LOCAL is in force only on the connection of a script that runs.
PathInv ==
  /\ \A c \in Connections : local[c] # Nobody =>
       user[c] # Nobody /\ my[user[c]].conn = c /\ pc[user[c]] \in {"script", "record"}
  /\ ScriptRunsInSchema

PoolInv == SessionsOK /\ LentInv /\ HolderInv /\ PathInv

-----------------------------------------------------------------------------
(* What the pool does.                                                     *)

PoolTypes ==
  /\ user \in [Connections -> Sessions \cup {Nobody}]
  /\ alive \in [Connections -> BOOLEAN]
  /\ path \in [Connections -> Schemas]
  /\ local \in [Connections -> Schemas \cup {Nobody}]
  /\ holder \in Connections \cup {Nobody}

\* Nobody is no session, no connection and no schema.
LEMMA NobodyIsNone ==
  /\ Nobody \notin Sessions /\ Nobody \notin Connections /\ Nobody \notin Scripts
  /\ Nobody \notin Schemas /\ LoginPath \in Schemas
  /\ \A p \in Sessions : SchemaOf[p] # Nobody => SchemaOf[p] \in Schemas
  /\ \A d \in DOMAIN MaxOpen : d \in {"postgresql", "sqlite"}
BY PoolAssumption DEF Schemas

\* A session's step leaves its registers right if its own are.
LEMMA OneSession ==
  ASSUME SessionsOK, NEW p \in Sessions, NEW step \in Steps, NEW m \in Registers,
         pc' = [pc EXCEPT ![p] = step], my' = [my EXCEPT ![p] = m], Fits(step, m),
         dialect' = dialect, started' \in 0..MaxCommands, PoolTypes'
  PROVE  /\ SessionsOK'
         /\ pc'[p] = step /\ my'[p] = m
         /\ \A q \in Sessions : q # p => pc'[q] = pc[q] /\ my'[q] = my[q]
<1>1. pc \in [Sessions -> Steps] /\ my \in [Sessions -> Registers]
  BY DEF SessionsOK, TypeOK, Registers
<1>2. /\ pc' \in [Sessions -> Steps] /\ my' \in [Sessions -> Registers]
      /\ pc'[p] = step /\ my'[p] = m
      /\ \A q \in Sessions : q # p => pc'[q] = pc[q] /\ my'[q] = my[q]
  BY <1>1
<1>3. TypeOK'
  BY <1>2 DEF SessionsOK, TypeOK, Registers, PoolTypes
<1>4. \A q \in Sessions : Fits(pc[q], my[q])'
  BY <1>2 DEF SessionsOK, Fits
<1> QED BY <1>2, <1>3, <1>4 DEF SessionsOK

\* A session goes on with the connections it has.
LEMMA GoesOn ==
  ASSUME PoolInv, NEW p \in Sessions, NEW step \in Steps, NEW m \in Registers,
         pc' = [pc EXCEPT ![p] = step], my' = [my EXCEPT ![p] = m], Fits(step, m),
         m.lock = my[p].lock, m.conn = my[p].conn,
         dialect = "postgresql" => (step \in Locked <=> pc[p] \in Locked),
         step \in {"script", "record"} <=> pc[p] \in {"script", "record"},
         step # "script", UNCHANGED <<connections, holder, dialect>>, started' \in 0..MaxCommands
  PROVE  PoolInv'
<1>0. /\ user' = user /\ alive' = alive /\ path' = path /\ local' = local
      /\ holder' = holder /\ dialect' = dialect
  BY DEF connections
<1>1. PoolTypes'
  BY <1>0 DEF PoolInv, SessionsOK, TypeOK, PoolTypes
<1>2. /\ SessionsOK' /\ pc'[p] = step /\ my'[p] = m
      /\ \A q \in Sessions : q # p => pc'[q] = pc[q] /\ my'[q] = my[q]
  BY <1>0, <1>1, OneSession DEF PoolInv
<1>3. /\ \A q \in Sessions : my'[q].lock = my[q].lock /\ my'[q].conn = my[q].conn
      /\ dialect = "postgresql" =>
           \A q \in Sessions : pc'[q] \in Locked <=> pc[q] \in Locked
      /\ \A q \in Sessions : pc'[q] \in {"script", "record"} <=> pc[q] \in {"script", "record"}
      /\ \A q \in Sessions : pc'[q] = "script" => pc[q] = "script" /\ my'[q] = my[q]
  BY <1>2
<1>4. \A c \in Connections : user[c] # Nobody => user[c] \in Sessions
  BY DEF PoolInv, SessionsOK, TypeOK
<1>5. holder # Nobody => holder \in Connections /\ dialect = "postgresql"
  BY <1>4 DEF PoolInv, SessionsOK, TypeOK, HolderInv, Fits
<1>6. LentInv'
  BY <1>0, <1>3, <1>4 DEF PoolInv, LentInv
<1>7. HolderInv'
  BY <1>0, <1>3, <1>4, <1>5 DEF PoolInv, HolderInv
<1>8. PathInv'
  BY <1>0, <1>3, <1>4 DEF PoolInv, PathInv, ScriptRunsInSchema, SearchPath
<1> QED BY <1>2, <1>6, <1>7, <1>8 DEF PoolInv

\* A session is lent a connection nobody has.
LEMMA Lent ==
  ASSUME PoolInv, NEW p \in Sessions, NEW step \in Steps, NEW m \in Registers, 
         pc' = [pc EXCEPT ![p] = step], my' = [my EXCEPT ![p] = m], Fits(step, m),
         NEW c \in Connections, user[c] = Nobody, user' = [user EXCEPT ![c] = p],
         \/ my[p].lock = Nobody /\ m.lock = c /\ m.conn = my[p].conn
         \/ my[p].conn = Nobody /\ m.conn = c /\ m.lock = my[p].lock,
         step \in Locked <=> pc[p] \in Locked,
         step = "script" => dialect # "postgresql", pc[p] \notin {"script", "record"},
         UNCHANGED <<alive, path, local, holder, started, dialect>>
  PROVE  PoolInv'
<1>1. PoolTypes' /\ started' \in 0..MaxCommands
  BY DEF PoolInv, SessionsOK, TypeOK, PoolTypes
<1>2. /\ SessionsOK' /\ pc'[p] = step /\ my'[p] = m
      /\ \A q \in Sessions : q # p => pc'[q] = pc[q] /\ my'[q] = my[q]
  BY <1>1, OneSession DEF PoolInv
<1>3. /\ user \in [Connections -> Sessions \cup {Nobody}]
      /\ \A d \in Connections : user[d] # Nobody => user[d] \in Sessions
      /\ \A q \in Sessions : my[q] \in Registers
      /\ Nobody \notin Connections /\ Nobody \notin Sessions
      /\ holder # Nobody => holder \in Connections
  BY NobodyIsNone DEF PoolInv, SessionsOK, TypeOK, Registers
<1>4. user'[c] = p /\ \A d \in Connections : d # c => user'[d] = user[d]
  BY <1>3
<1>5. \A q \in Sessions : my[q].lock # c /\ my[q].conn # c
  BY <1>3 DEF PoolInv, LentInv
<1>6. LentInv'
  <2>1. ASSUME NEW q \in Sessions, my'[q].lock # Nobody
        PROVE  user'[my'[q].lock] = q /\ my'[q].lock # my'[q].conn
    BY <1>2, <1>3, <1>4, <1>5, <2>1 DEF PoolInv, LentInv, Registers
  <2>2. ASSUME NEW q \in Sessions, my'[q].conn # Nobody PROVE user'[my'[q].conn] = q
    BY <1>2, <1>3, <1>4, <1>5, <2>2 DEF PoolInv, LentInv, Registers
  <2>3. ASSUME NEW d \in Connections, user'[d] # Nobody
        PROVE  d \in {my'[user'[d]].lock, my'[user'[d]].conn}
    BY <1>2, <1>3, <1>4, <2>3 DEF PoolInv, LentInv
  <2> QED BY <2>1, <2>2, <2>3 DEF LentInv
<1>7. HolderInv'
  <2>1. ASSUME holder # Nobody
        PROVE  /\ user'[holder] # Nobody /\ my'[user'[holder]].lock = holder
               /\ pc'[user'[holder]] \in Locked
    BY <1>2, <1>3, <1>4, <2>1 DEF PoolInv, HolderInv
  <2>2. ASSUME NEW q \in Sessions, pc'[q] \in Locked, dialect = "postgresql",
               alive[my'[q].lock]
        PROVE  holder = my'[q].lock
    <3>1. my'[q].lock = my[q].lock /\ pc[q] \in Locked
      <4>1. pc[p] \in Locked /\ dialect = "postgresql" => my[p].lock # Nobody
        BY DEF PoolInv, SessionsOK, Fits, WithLock
      <4> QED BY <1>2, <2>2, <4>1
    <3> QED BY <2>2, <3>1 DEF PoolInv, HolderInv
  <2> QED BY <2>1, <2>2 DEF HolderInv
<1>8. PathInv'
  <2>1. ASSUME NEW d \in Connections, local[d] # Nobody
        PROVE  /\ user'[d] # Nobody /\ my'[user'[d]].conn = d
               /\ pc'[user'[d]] \in {"script", "record"}
    <3>1. user[d] # Nobody /\ my[user[d]].conn = d /\ pc[user[d]] \in {"script", "record"}
      BY <2>1 DEF PoolInv, PathInv
    <3> QED BY <1>2, <1>3, <1>4, <3>1
  <2>2. ScriptRunsInSchema'
    BY <1>2 DEF PoolInv, PathInv, ScriptRunsInSchema, SearchPath
  <2> QED BY <2>1, <2>2 DEF PathInv
<1> QED BY <1>2, <1>6, <1>7, <1>8 DEF PoolInv

\* A session gives a connection back, the one of the lock with the lock released.
LEMMA GivenBack ==
  ASSUME PoolInv, NEW p \in Sessions, NEW step \in Steps, NEW m \in Registers,
         pc' = [pc EXCEPT ![p] = step], my' = [my EXCEPT ![p] = m], Fits(step, m),
         NEW c \in Connections, GiveBack(c),
         \/ /\ my[p].lock = c /\ m.lock = Nobody /\ m.conn = Nobody /\ my[p].conn = Nobody
            /\ holder' # c /\ step \notin Locked
         \/ /\ my[p].conn = c /\ m.conn = Nobody /\ m.lock = my[p].lock
            /\ holder' = holder /\ (step \in Locked <=> pc[p] \in Locked),
         step \notin {"script", "record"}, holder' = holder \/ (holder = c /\ holder' = Nobody),
         UNCHANGED <<started, dialect>>
  PROVE  PoolInv'
<1>1. PoolTypes' /\ started' \in 0..MaxCommands
  BY NobodyIsNone DEF PoolInv, SessionsOK, TypeOK, PoolTypes, GiveBack
<1>2. /\ SessionsOK' /\ pc'[p] = step /\ my'[p] = m
      /\ \A q \in Sessions : q # p => pc'[q] = pc[q] /\ my'[q] = my[q]
  BY <1>1, OneSession DEF PoolInv
<1>3. /\ \A d \in Connections : user[d] # Nobody => user[d] \in Sessions
      /\ \A q \in Sessions : my[q] \in Registers
      /\ Nobody \notin Connections /\ Nobody \notin Sessions
      /\ holder # Nobody => holder \in Connections
  BY NobodyIsNone DEF PoolInv, SessionsOK, TypeOK, Registers
<1>4. /\ user'[c] = Nobody /\ local'[c] = Nobody
      /\ \A d \in Connections : d # c =>
           user'[d] = user[d] /\ alive'[d] = alive[d] /\ path'[d] = path[d] /\ local'[d] = local[d]
  BY DEF PoolInv, SessionsOK, TypeOK, GiveBack
<1>5. user[c] = p /\ \A q \in Sessions : q # p => my[q].lock # c /\ my[q].conn # c
  BY <1>3 DEF PoolInv, LentInv
<1>6. \A q \in Sessions : my'[q].lock # c /\ my'[q].conn # c
  BY <1>2, <1>3, <1>5 DEF PoolInv, LentInv
<1>7. LentInv'
  <2>1. ASSUME NEW q \in Sessions, my'[q].lock # Nobody
        PROVE  user'[my'[q].lock] = q /\ my'[q].lock # my'[q].conn
    BY <1>2, <1>3, <1>4, <1>6, <2>1 DEF PoolInv, LentInv, Registers
  <2>2. ASSUME NEW q \in Sessions, my'[q].conn # Nobody PROVE user'[my'[q].conn] = q
    BY <1>2, <1>3, <1>4, <1>6, <2>2 DEF PoolInv, LentInv, Registers
  <2>3. ASSUME NEW d \in Connections, user'[d] # Nobody
        PROVE  d \in {my'[user'[d]].lock, my'[user'[d]].conn}
    BY <1>2, <1>3, <1>4, <2>3 DEF PoolInv, LentInv
  <2> QED BY <2>1, <2>2, <2>3 DEF LentInv
<1>8. HolderInv'
  <2>1. holder # Nobody => user[holder] # Nobody /\ my[user[holder]].lock = holder
                            /\ pc[user[holder]] \in Locked
    BY DEF PoolInv, HolderInv
  <2>2. ASSUME holder' # Nobody
        PROVE  /\ user'[holder'] # Nobody /\ my'[user'[holder']].lock = holder'
               /\ pc'[user'[holder']] \in Locked
    <3>1. holder' = holder /\ holder # c
      BY <1>3, <1>5, <2>1, <2>2 DEF PoolInv, LentInv
    <3> QED BY <1>2, <1>3, <1>4, <1>5, <2>1, <2>2, <3>1
  <2>3. ASSUME NEW q \in Sessions, pc'[q] \in Locked, dialect = "postgresql",
               alive'[my'[q].lock]
        PROVE  holder' = my'[q].lock
    <3>1. my'[q].lock = my[q].lock /\ pc[q] \in Locked
      BY <1>2, <2>3
    <3>2. my[q].lock \in Connections /\ my[q].lock # c
      BY <1>2, <1>3, <1>6, <2>3, <3>1 DEF PoolInv, SessionsOK, Fits, WithLock, Registers
    <3>3. holder = my[q].lock
      BY <1>4, <2>3, <3>1, <3>2 DEF PoolInv, HolderInv
    <3> QED BY <3>1, <3>2, <3>3
  <2> QED BY <2>2, <2>3 DEF HolderInv
<1>9. PathInv'
  <2>1. ASSUME NEW d \in Connections, local'[d] # Nobody
        PROVE  /\ user'[d] # Nobody /\ my'[user'[d]].conn = d
               /\ pc'[user'[d]] \in {"script", "record"}
    <3>1. d # c /\ local[d] = local'[d] /\ user'[d] = user[d]
      BY <1>4, <2>1
    <3>2. user[d] # Nobody /\ my[user[d]].conn = d /\ pc[user[d]] \in {"script", "record"}
      BY <2>1, <3>1 DEF PoolInv, PathInv
    <3>3. user[d] # p
      BY <1>3, <1>5, <3>1, <3>2 DEF PoolInv, SessionsOK, Fits, WithConn
    <3> QED BY <1>2, <1>3, <3>1, <3>2, <3>3
  <2>2. ASSUME NEW q \in Sessions, dialect = "postgresql", pc'[q] = "script",
               alive'[my'[q].conn]
        PROVE  (SearchPath(my[q].conn) = my[q].schema)'
    <3>1. q # p /\ pc[q] = "script" /\ my'[q] = my[q]
      BY <1>2, <2>2
    <3>2. my[q].conn \in Connections /\ my[q].conn # c
      BY <1>3, <1>5, <3>1 DEF PoolInv, SessionsOK, Fits, WithConn, Registers
    <3> QED BY <1>4, <2>2, <3>1, <3>2 DEF PoolInv, PathInv, ScriptRunsInSchema, SearchPath
  <2> QED BY <2>1, <2>2 DEF PathInv, ScriptRunsInSchema
<1> QED BY <1>2, <1>7, <1>8, <1>9 DEF PoolInv

-----------------------------------------------------------------------------
(* The steps.                                                              *)

\* What is known of a session before its step.
LEMMA Before ==
  ASSUME PoolInv, NEW p \in Sessions
  PROVE  /\ pc \in [Sessions -> Steps] /\ my \in [Sessions -> Registers]
         /\ my[p] \in Registers /\ Fits(pc[p], my[p]) /\ Fresh \in Registers
         /\ started \in 0..MaxCommands /\ dialect \in {"postgresql", "sqlite"}
BY NobodyIsNone DEF PoolInv, SessionsOK, TypeOK, Registers, Fresh

\* Statements that are sent to the pool, and those that need no connection.
LEMMA PoolStatements ==
  ASSUME PoolInv, NEW p \in Sessions,
         \/ \E c \in {"migrate", "clean", "query"} : Start(p, c)
         \/ ResolveSchema(p) \/ Prepare(p) \/ RunScript(p) \/ AllApplied(p) \/ Conclude(p)
         \/ Query(p) \/ StatementFails(p)
  PROVE  PoolInv'
<1> USE DEF Goto, Return
<1>0. /\ pc \in [Sessions -> Steps] /\ my \in [Sessions -> Registers]
      /\ my[p] \in Registers /\ Fits(pc[p], my[p]) /\ Fresh \in Registers
      /\ started \in 0..MaxCommands /\ dialect \in {"postgresql", "sqlite"}
  BY Before
<1>1. ASSUME NEW step \in Steps, NEW m \in Registers,
             pc' = [pc EXCEPT ![p] = step], my' = [my EXCEPT ![p] = m], Fits(step, m),
             m.lock = my[p].lock, m.conn = my[p].conn,
             dialect = "postgresql" => (step \in Locked <=> pc[p] \in Locked),
             step \in {"script", "record"} <=> pc[p] \in {"script", "record"},
             step # "script", UNCHANGED <<connections, holder, dialect>>,
             started' \in 0..MaxCommands
      PROVE  PoolInv'
  BY <1>1, GoesOn
<1>2. ASSUME NEW c \in {"migrate", "clean", "query"}, Start(p, c) PROVE PoolInv'
  <2> DEFINE m == [my[p] EXCEPT !.cmd = c]
  <2>1. /\ m \in Registers /\ m.lock = my[p].lock /\ m.conn = my[p].conn
        /\ m.cmd = c /\ m.schema = my[p].schema
    BY <1>0 DEF Registers
  <2>2. my' = [my EXCEPT ![p] = m] /\ pc' = [pc EXCEPT ![p] = "resolve"]
    BY <1>2 DEF Start
  <2>3. started' \in 0..MaxCommands
    BY <1>0, <1>2, PoolAssumption DEF Start
  <2>4. Fits("resolve", m)
    BY <1>0, <1>2, <2>1 DEF Start, Fits, WithConn, WithLock, Locked
  <2> HIDE DEF m
  <2> QED BY <1>1, <1>2, <2>1, <2>2, <2>3, <2>4 DEF Start, Locked, Steps
<1>3. CASE ResolveSchema(p)
  <2>1. PICK s \in Schemas \cup {Nobody} :
          /\ my' = [my EXCEPT ![p].schema = s]
          /\ dialect = "postgresql" => s \in Schemas
    <3>1. PICK s \in Schemas \cup {Nobody} :
            /\ IF SchemaOf[p] # Nobody \/ dialect = "sqlite"
               THEN s = SchemaOf[p]
               ELSE \E c \in Connections : Free(p, c) /\ s = SearchPath(c)
            /\ my' = [my EXCEPT ![p].schema = s]
      BY <1>3 DEF ResolveSchema
    <3>2. \A c \in Connections : SearchPath(c) # Nobody
      BY NobodyIsNone DEF PoolInv, SessionsOK, TypeOK, SearchPath
    <3> QED BY <3>1, <3>2
  <2> DEFINE m == [my[p] EXCEPT !.schema = s]
  <2>2. /\ m \in Registers /\ m.lock = my[p].lock /\ m.conn = my[p].conn
        /\ m.cmd = my[p].cmd /\ m.schema = s
    BY <1>0 DEF Registers
  <2>3. my' = [my EXCEPT ![p] = m]
    BY <2>1
  <2>4. PICK step \in {"lockConn", "prepare", "cleanConn", "query"} :
          /\ pc' = [pc EXCEPT ![p] = step]
          /\ step = "lockConn" => dialect = "postgresql"
          /\ step = "prepare" => dialect # "postgresql"
    <3>1. my[p].cmd \in {"migrate", "clean", "query"}
      BY <1>0, <1>3 DEF ResolveSchema, Fits, Registers
    <3> QED BY <1>0, <1>3, <3>1 DEF ResolveSchema, Dispatch
  <2>5. Fits(step, m)
    BY <1>0, <1>3, <2>1, <2>2, <2>4 DEF ResolveSchema, Fits, WithConn, WithLock, Locked
  <2> HIDE DEF m
  <2>6. started' \in 0..MaxCommands
    BY <1>0, <1>3 DEF ResolveSchema
  <2> QED BY <1>1, <1>3, <2>2, <2>3, <2>4, <2>5, <2>6 DEF ResolveSchema, Locked, Steps
<1>4. CASE Prepare(p)
  <2> DEFINE m == [my[p] EXCEPT !.todo = Scripts]
  <2>1. /\ m \in Registers /\ m.lock = my[p].lock /\ m.conn = my[p].conn
        /\ m.cmd = my[p].cmd /\ m.schema = my[p].schema
    BY <1>0 DEF Registers
  <2>2. my' = [my EXCEPT ![p] = m] /\ pc' = [pc EXCEPT ![p] = "next"]
    BY <1>4 DEF Prepare
  <2>3. Fits("next", m)
    BY <1>0, <1>4, <2>1 DEF Prepare, Fits, WithConn, WithLock, Locked
  <2> HIDE DEF m
  <2>4. started' \in 0..MaxCommands
    BY <1>0, <1>4 DEF Prepare
  <2> QED BY <1>1, <1>4, <2>1, <2>2, <2>3, <2>4 DEF Prepare, Locked, Steps
<1>5. CASE RunScript(p) \/ AllApplied(p) \/ Conclude(p)
  <2>1. my' = [my EXCEPT ![p] = my[p]]
    BY <1>0, <1>5 DEF RunScript, AllApplied, Conclude
  <2>2. PICK step \in {"record", "after", "unlock"} :
          /\ pc' = [pc EXCEPT ![p] = step]
          /\ step = "record" <=> pc[p] = "script"
          /\ pc[p] \in {"script", "next", "after", "failed"}
    BY <1>0, <1>5 DEF RunScript, AllApplied, Conclude
  <2>3. Fits(step, my[p])
    BY <1>0, <2>2 DEF Fits, WithConn, WithLock, Locked
  <2>4. UNCHANGED <<connections, holder, dialect>> /\ started' \in 0..MaxCommands
    BY <1>0, <1>5 DEF RunScript, AllApplied, Conclude
  <2> QED BY <1>0, <1>1, <2>1, <2>2, <2>3, <2>4 DEF Locked, Steps
<1>6. CASE Query(p) \/ (StatementFails(p) /\ pc[p] \notin {"prepare", "next", "after"})
  <2>1. my' = [my EXCEPT ![p] = Fresh] /\ pc' = [pc EXCEPT ![p] = "idle"]
    BY <1>6 DEF Query, StatementFails
  <2>2. pc[p] \in {"resolve", "lockConn", "query", "cleanConn"}
    BY <1>6 DEF Query, StatementFails
  <2>3. Fresh.lock = my[p].lock /\ Fresh.conn = my[p].conn /\ Fits("idle", Fresh)
    BY <1>0, <2>2 DEF Fits, Fresh, WithConn, WithLock, Locked
  <2>4. UNCHANGED <<connections, holder, dialect>> /\ started' \in 0..MaxCommands
    BY <1>0, <1>6 DEF Query, StatementFails
  <2> QED BY <1>0, <1>1, <2>1, <2>2, <2>3, <2>4 DEF Locked, Steps
<1>7. CASE StatementFails(p) /\ pc[p] \in {"prepare", "next", "after"}
  <2>1. my' = [my EXCEPT ![p] = my[p]]
    BY <1>0, <1>7 DEF StatementFails
  <2>2. PICK step \in {"unlock", "failed"} : pc' = [pc EXCEPT ![p] = step]
    BY <1>7 DEF StatementFails
  <2>3. Fits(step, my[p])
    BY <1>0, <1>7, <2>2 DEF Fits, WithConn, WithLock, Locked
  <2>4. UNCHANGED <<connections, holder, dialect>> /\ started' \in 0..MaxCommands
    BY <1>0, <1>7 DEF StatementFails
  <2> QED BY <1>0, <1>1, <1>7, <2>1, <2>2, <2>3, <2>4 DEF Locked, Steps
<1> QED BY <1>2, <1>3, <1>4, <1>5, <1>6, <1>7

\* A connection is taken for the lock, for a script or for Clean.
LEMMA ConnectionTaken ==
  ASSUME PoolInv, NEW p \in Sessions,
         TakeLockConnection(p) \/ BeginScript(p) \/ TakeCleanConnection(p)
  PROVE  PoolInv'
<1> USE DEF Goto, Lend, Free
<1>0. /\ pc \in [Sessions -> Steps] /\ my \in [Sessions -> Registers]
      /\ my[p] \in Registers /\ Fits(pc[p], my[p])
      /\ dialect \in {"postgresql", "sqlite"}
  BY Before
<1>1. ASSUME NEW step \in Steps, NEW m \in Registers, NEW c \in Connections,
             pc' = [pc EXCEPT ![p] = step], my' = [my EXCEPT ![p] = m], Fits(step, m),
             user[c] = Nobody, user' = [user EXCEPT ![c] = p],
             \/ my[p].lock = Nobody /\ m.lock = c /\ m.conn = my[p].conn
             \/ my[p].conn = Nobody /\ m.conn = c /\ m.lock = my[p].lock,
             step \in Locked <=> pc[p] \in Locked,
             step = "script" => dialect # "postgresql", pc[p] \notin {"script", "record"},
             UNCHANGED <<alive, path, local, holder, started, dialect>>
      PROVE  PoolInv'
  BY <1>1, Lent
<1>2. CASE TakeLockConnection(p)
  <2>1. PICK c \in Connections : /\ user[c] = Nobody /\ user' = [user EXCEPT ![c] = p]
                                 /\ my' = [my EXCEPT ![p].lock = c]
    BY <1>2 DEF TakeLockConnection
  <2> DEFINE m == [my[p] EXCEPT !.lock = c]
  <2>2. /\ m \in Registers /\ m.lock = c /\ m.conn = my[p].conn
        /\ m.cmd = my[p].cmd /\ m.schema = my[p].schema
    BY <1>0 DEF Registers
  <2>3. my' = [my EXCEPT ![p] = m] /\ pc' = [pc EXCEPT ![p] = "lock"] /\ pc[p] = "lockConn"
    BY <1>2, <2>1 DEF TakeLockConnection
  <2>4. Fits("lock", m) /\ my[p].lock = Nobody
    BY <1>0, <2>2, <2>3, NobodyIsNone DEF Fits, WithConn, WithLock, Locked
  <2> HIDE DEF m
  <2>5. UNCHANGED <<alive, path, local, holder, started, dialect>>
    BY <1>2 DEF TakeLockConnection
  <2>6. /\ "lock" \in Steps /\ ("lock" \in Locked <=> pc[p] \in Locked)
        /\ pc[p] \notin {"script", "record"}
    BY <2>3 DEF Steps, Locked
  <2> QED BY <1>1, <2>1, <2>2, <2>3, <2>4, <2>5, <2>6
<1>3. CASE BeginScript(p)
  <2>1. PICK s \in my[p].todo, c \in Connections :
          /\ user[c] = Nobody /\ user' = [user EXCEPT ![c] = p]
          /\ my' = [my EXCEPT ![p].script = s, ![p].conn = c, ![p].todo = @ \ {s}]
    BY <1>3 DEF BeginScript
  <2> DEFINE m == [my[p] EXCEPT !.script = s, !.conn = c, !.todo = @ \ {s}]
             step == IF dialect = "postgresql" THEN "setPath" ELSE "script"
  <2>2. /\ m \in Registers /\ m.lock = my[p].lock /\ m.conn = c
        /\ m.cmd = my[p].cmd /\ m.schema = my[p].schema
    BY <1>0 DEF Registers
  <2>3. my' = [my EXCEPT ![p] = m] /\ pc' = [pc EXCEPT ![p] = step] /\ pc[p] = "next"
    BY <1>3, <2>1 DEF BeginScript
  <2>4. /\ step \in {"setPath", "script"} /\ (step = "setPath" <=> dialect = "postgresql")
        /\ UNCHANGED <<alive, path, local, holder, started, dialect>>
    BY <1>3 DEF BeginScript
  <2> HIDE DEF m, step
  <2>5. Fits(step, m) /\ my[p].conn = Nobody
    BY <1>0, <2>2, <2>3, <2>4, NobodyIsNone DEF Fits, WithConn, WithLock, Locked
  <2>6. /\ step \in Steps /\ step \in Locked /\ pc[p] \in Locked
        /\ pc[p] \notin {"script", "record"}
    BY <2>3, <2>4 DEF Steps, Locked
  <2>7. step = "script" => dialect # "postgresql"
    BY <2>4
  <2> QED BY <1>1, <2>1, <2>2, <2>3, <2>4, <2>5, <2>6, <2>7
<1>4. CASE TakeCleanConnection(p)
  <2>1. PICK c \in Connections : /\ user[c] = Nobody /\ user' = [user EXCEPT ![c] = p]
                                 /\ my' = [my EXCEPT ![p].conn = c]
    BY <1>4 DEF TakeCleanConnection
  <2> DEFINE m == [my[p] EXCEPT !.conn = c]
  <2>2. /\ m \in Registers /\ m.conn = c /\ m.lock = my[p].lock
        /\ m.cmd = my[p].cmd /\ m.schema = my[p].schema
    BY <1>0 DEF Registers
  <2>3. my' = [my EXCEPT ![p] = m] /\ pc' = [pc EXCEPT ![p] = "drop"] /\ pc[p] = "cleanConn"
    BY <1>4, <2>1 DEF TakeCleanConnection
  <2>4. Fits("drop", m) /\ my[p].conn = Nobody
    BY <1>0, <2>2, <2>3, NobodyIsNone DEF Fits, WithConn, WithLock, Locked
  <2> HIDE DEF m
  <2>5. UNCHANGED <<alive, path, local, holder, started, dialect>>
    BY <1>4 DEF TakeCleanConnection
  <2>6. /\ "drop" \in Steps /\ ("drop" \in Locked <=> pc[p] \in Locked)
        /\ pc[p] \notin {"script", "record"}
    BY <2>3 DEF Steps, Locked
  <2> QED BY <1>1, <2>1, <2>2, <2>3, <2>4, <2>5, <2>6
<1> QED BY <1>2, <1>3, <1>4

\* A connection goes back to the pool, by whatever path its use ends.
LEMMA ConnectionReturned ==
  ASSUME PoolInv, NEW p \in Sessions,
         RecordScript(p) \/ ScriptFails(p) \/ CleanDone(p) \/ LockFails(p) \/ Unlock(p)
  PROVE  PoolInv'
<1> USE DEF Goto, Return
<1>0. /\ pc \in [Sessions -> Steps] /\ my \in [Sessions -> Registers]
      /\ my[p] \in Registers /\ Fits(pc[p], my[p]) /\ Fresh \in Registers
      /\ dialect \in {"postgresql", "sqlite"} /\ started \in 0..MaxCommands
  BY Before
<1>1. Fits("idle", Fresh) /\ Fresh.lock = Nobody /\ Fresh.conn = Nobody
  BY DEF Fits, Fresh, WithConn, WithLock, Locked
<1>2. ASSUME NEW step \in Steps, NEW m \in Registers, NEW c \in Connections,
             pc' = [pc EXCEPT ![p] = step], my' = [my EXCEPT ![p] = m], Fits(step, m),
             GiveBack(c),
             \/ /\ my[p].lock = c /\ m.lock = Nobody /\ m.conn = Nobody /\ my[p].conn = Nobody
                /\ holder' # c /\ step \notin Locked
             \/ /\ my[p].conn = c /\ m.conn = Nobody /\ m.lock = my[p].lock
                /\ holder' = holder /\ (step \in Locked <=> pc[p] \in Locked),
             step \notin {"script", "record"},
             holder' = holder \/ (holder = c /\ holder' = Nobody),
             UNCHANGED <<started, dialect>>
      PROVE  PoolInv'
  BY <1>2, GivenBack
<1>3. CASE RecordScript(p) \/ ScriptFails(p)
  <2> DEFINE m == [my[p] EXCEPT !.conn = Nobody, !.script = Nobody]
  <2>1. /\ m \in Registers /\ m.conn = Nobody /\ m.lock = my[p].lock
        /\ m.cmd = my[p].cmd /\ m.schema = my[p].schema
    BY <1>0 DEF Registers
  <2>2. PICK step \in {"next", "failed"} :
          /\ pc' = [pc EXCEPT ![p] = step] /\ my' = [my EXCEPT ![p] = m]
          /\ pc[p] \in {"setPath", "script", "record"}
          /\ GiveBack(my[p].conn) /\ UNCHANGED <<holder, started, dialect>>
    BY <1>3 DEF RecordScript, ScriptFails
  <2> HIDE DEF m
  <2>3. Fits(step, m)
    BY <1>0, <2>1, <2>2 DEF Fits, WithConn, WithLock, Locked
  <2>4. PICK c \in Connections : c = my[p].conn
    BY <1>0, <2>2 DEF Fits, WithConn, Registers
  <2>5. step \in Steps /\ step \in Locked /\ pc[p] \in Locked /\ GiveBack(c)
    BY <2>2, <2>4 DEF Steps, Locked, GiveBack
  <2> QED BY <2>1, <2>2, <2>3, <2>4, <2>5, <1>2
<1>4. CASE CleanDone(p)
  <2>1. pc[p] = "drop" /\ GiveBack(my[p].conn)
    BY <1>4 DEF CleanDone
  <2>2. PICK c \in Connections : c = my[p].conn
    BY <1>0, <2>1 DEF Fits, WithConn, Registers
  <2>3. my[p].lock = Nobody /\ GiveBack(c)
    BY <1>0, <2>1, <2>2 DEF Fits, WithLock, Locked, GiveBack
  <2>4. /\ "idle" \in Steps /\ "idle" \notin Locked /\ pc[p] \notin Locked
        /\ "idle" \notin {"script", "record"}
    BY <2>1 DEF Steps, Locked
  <2>5. /\ pc' = [pc EXCEPT ![p] = "idle"] /\ my' = [my EXCEPT ![p] = Fresh]
        /\ UNCHANGED <<holder, started, dialect>>
    BY <1>4 DEF CleanDone
  <2> QED BY <1>0, <1>1, <1>2, <2>2, <2>3, <2>4, <2>5
<1>5. ASSUME LockFails(p) \/ Unlock(p), my[p].lock # Nobody PROVE PoolInv'
  <2>1. /\ pc[p] \in {"lock", "unlock"} /\ GiveBack(my[p].lock)
        /\ pc' = [pc EXCEPT ![p] = "idle"] /\ my' = [my EXCEPT ![p] = Fresh]
        /\ UNCHANGED <<started, dialect>>
    BY <1>5 DEF LockFails, Unlock
  <2>2. PICK c \in Connections : c = my[p].lock
    BY <1>0, <1>5 DEF Registers
  <2>3. my[p].conn = Nobody /\ GiveBack(c)
    BY <1>0, <2>1, <2>2 DEF Fits, WithConn, GiveBack
  <2>4. holder' # c /\ (holder' = holder \/ (holder = c /\ holder' = Nobody))
    <3>1. CASE Unlock(p)
      BY <2>2, <3>1, NobodyIsNone DEF Unlock
    <3>2. CASE LockFails(p)
      <4>1. user[c] = p /\ c # Nobody /\ pc[p] \notin Locked
        BY <2>2, <3>2, NobodyIsNone DEF PoolInv, LentInv, LockFails, Locked
      <4> QED BY <3>2, <4>1 DEF PoolInv, HolderInv, LockFails
    <3> QED BY <1>5, <3>1, <3>2
  <2>5. /\ "idle" \in Steps /\ "idle" \notin Locked /\ "idle" \notin {"script", "record"}
    BY DEF Steps, Locked
  <2> QED BY <1>0, <1>1, <1>2, <2>1, <2>2, <2>3, <2>4, <2>5
<1>6. ASSUME LockFails(p) \/ Unlock(p), my[p].lock = Nobody PROVE PoolInv'
  <2>1. pc[p] = "unlock" /\ dialect # "postgresql" /\ Unlock(p)
    BY <1>0, <1>6 DEF LockFails, Unlock, Fits, WithLock, Locked
  <2>2. Fresh.lock = my[p].lock /\ Fresh.conn = my[p].conn
    BY <1>0, <1>1, <1>6, <2>1 DEF Fits, WithConn
  <2>3. UNCHANGED <<connections, holder, dialect>> /\ started' \in 0..MaxCommands
    BY <1>0, <1>6, <2>1 DEF Unlock
  <2> QED BY <1>0, <1>1, <2>1, <2>2, <2>3, GoesOn DEF Unlock, Steps
<1> QED BY <1>3, <1>4, <1>5, <1>6

\* The lock is granted over the session's connection for it.
LEMMA LockAcquired ==
  ASSUME PoolInv, NEW p \in Sessions, AcquireLock(p)
  PROVE  PoolInv'
<1>0. /\ pc \in [Sessions -> Steps] /\ my \in [Sessions -> Registers]
      /\ my[p] \in Registers /\ Fits(pc[p], my[p])
      /\ started \in 0..MaxCommands
  BY Before
<1>1. /\ pc[p] = "lock" /\ alive[my[p].lock] /\ holder \in {Nobody, my[p].lock}
      /\ holder' = my[p].lock /\ pc' = [pc EXCEPT ![p] = "prepare"]
      /\ my' = [my EXCEPT ![p] = my[p]] /\ my' = my
      /\ user' = user /\ alive' = alive /\ path' = path /\ local' = local
      /\ started' = started /\ dialect' = dialect
  BY <1>0 DEF AcquireLock, Goto, connections
<1>2. dialect = "postgresql" /\ my[p].lock \in Connections /\ my[p].lock # Nobody
  BY <1>0, <1>1 DEF Fits, WithLock, Registers
<1>3. PoolTypes' /\ started' \in 0..MaxCommands
  BY <1>0, <1>1, <1>2 DEF PoolInv, SessionsOK, TypeOK, PoolTypes
<1>4. Fits("prepare", my[p]) /\ "prepare" \in Steps
  BY <1>0, <1>1 DEF Fits, WithConn, WithLock, Locked, Steps
<1>5. /\ SessionsOK' /\ pc'[p] = "prepare"
      /\ \A q \in Sessions : q # p => pc'[q] = pc[q]
  BY <1>0, <1>1, <1>3, <1>4, OneSession DEF PoolInv
<1>6. LentInv'
  BY <1>1 DEF PoolInv, LentInv
<1>7. user[my[p].lock] = p /\ p # Nobody
  BY <1>2, NobodyIsNone DEF PoolInv, LentInv
<1>8. ASSUME NEW q \in Sessions, pc'[q] \in Locked, alive[my[q].lock] PROVE q = p
  <2>1. CASE q # p
    <3>1. holder = my[q].lock /\ pc[q] \in Locked
      BY <1>2, <1>5, <1>8, <2>1 DEF PoolInv, HolderInv
    <3>2. my[q].lock # Nobody
      BY <1>2, <3>1 DEF PoolInv, SessionsOK, Fits, WithLock
    <3> QED BY <1>1, <1>7, <2>1, <3>1, <3>2 DEF PoolInv, LentInv
  <2> QED BY <2>1
<1>9. HolderInv'
  BY <1>1, <1>2, <1>5, <1>7, <1>8 DEF HolderInv, Locked
<1>10. PathInv'
  <2>1. \A q \in Sessions : pc'[q] \in {"script", "record"} <=> pc[q] \in {"script", "record"}
    BY <1>1, <1>5
  <2>2. \A q \in Sessions : pc'[q] = "script" => pc[q] = "script"
    BY <1>1, <1>5
  <2>3. \A c \in Connections : user[c] # Nobody => user[c] \in Sessions
    BY DEF PoolInv, SessionsOK, TypeOK
  <2> QED BY <1>1, <2>1, <2>2, <2>3 DEF PoolInv, PathInv, ScriptRunsInSchema, SearchPath
<1> QED BY <1>5, <1>6, <1>9, <1>10 DEF PoolInv

\* The search_path of a script's connection is set, for the transaction or for good.
LEMMA PathSet ==
  ASSUME PoolInv, NEW p \in Sessions, SetSearchPath(p)
  PROVE  PoolInv'
<1>0. /\ pc \in [Sessions -> Steps] /\ my \in [Sessions -> Registers]
      /\ my[p] \in Registers /\ Fits(pc[p], my[p])
      /\ started \in 0..MaxCommands
  BY Before
<1>1. /\ pc[p] = "setPath" /\ pc' = [pc EXCEPT ![p] = "script"]
      /\ my' = [my EXCEPT ![p] = my[p]] /\ my' = my
      /\ user' = user /\ alive' = alive /\ holder' = holder
      /\ started' = started /\ dialect' = dialect
  BY <1>0 DEF SetSearchPath, Goto
<1>2. PICK c \in Connections : c = my[p].conn
  BY <1>0, <1>1 DEF Fits, WithConn, Registers
<1>3. PICK s \in Schemas : s = my[p].schema
  BY <1>0, <1>1 DEF Fits, Registers
<1>4. \/ path' = [path EXCEPT ![c] = s] /\ local' = local
      \/ local' = [local EXCEPT ![c] = s] /\ path' = path
  BY <1>2, <1>3 DEF SetSearchPath
<1>5. /\ path \in [Connections -> Schemas] /\ local \in [Connections -> Schemas \cup {Nobody}]
      /\ user \in [Connections -> Sessions \cup {Nobody}]
      /\ Nobody \notin Sessions /\ Nobody \notin Connections /\ Nobody \notin Schemas
  BY NobodyIsNone DEF PoolInv, SessionsOK, TypeOK
<1>6. PoolTypes' /\ started' \in 0..MaxCommands
  BY <1>0, <1>1, <1>4, <1>5 DEF PoolInv, SessionsOK, TypeOK, PoolTypes
<1>7. Fits("script", my[p]) /\ "script" \in Steps
  BY <1>0, <1>1 DEF Fits, WithConn, WithLock, Locked, Steps
<1>8. /\ SessionsOK' /\ pc'[p] = "script"
      /\ \A q \in Sessions : q # p => pc'[q] = pc[q]
  BY <1>0, <1>1, <1>6, <1>7, OneSession DEF PoolInv
<1>9. LentInv'
  BY <1>1 DEF PoolInv, LentInv
<1>10. user[c] = p /\ \A q \in Sessions : q # p => my[q].conn # c
  BY <1>2, <1>5 DEF PoolInv, LentInv
<1>11. HolderInv'
  <2>1. \A q \in Sessions : pc'[q] \in Locked <=> pc[q] \in Locked
    BY <1>1, <1>8 DEF Locked
  <2>2. holder # Nobody => user[holder] \in Sessions
    BY <1>5 DEF PoolInv, SessionsOK, TypeOK, HolderInv
  <2> QED BY <1>1, <2>1, <2>2 DEF PoolInv, HolderInv
<1>12. local[c] = Nobody
  <2>1. local[c] # Nobody => pc[p] \in {"script", "record"}
    BY <1>10 DEF PoolInv, PathInv
  <2> QED BY <1>1, <2>1
<1>13. PathInv'
  <2>1. ASSUME NEW d \in Connections, local'[d] # Nobody
        PROVE  /\ user[d] # Nobody /\ my[user[d]].conn = d
               /\ pc'[user[d]] \in {"script", "record"}
    <3>1. CASE d = c
      BY <1>2, <1>5, <1>8, <1>10, <3>1
    <3>2. CASE d # c
      <4>1. local[d] # Nobody
        BY <1>4, <1>5, <2>1, <3>2
      <4>2. user[d] # Nobody /\ my[user[d]].conn = d /\ pc[user[d]] \in {"script", "record"}
        BY <4>1 DEF PoolInv, PathInv
      <4> QED BY <1>5, <1>8, <4>2
    <3> QED BY <3>1, <3>2
  <2>2. ASSUME NEW q \in Sessions, dialect = "postgresql", pc'[q] = "script",
               alive[my[q].conn]
        PROVE  SearchPath(my[q].conn)' = my[q].schema
    <3>1. CASE q = p
      BY <1>1, <1>2, <1>3, <1>4, <1>5, <1>12, <3>1 DEF SearchPath
    <3>2. CASE q # p
      <4>1. pc[q] = "script" /\ my[q].conn # c /\ my[q].conn \in Connections
        BY <1>8, <1>10, <2>2, <3>2 DEF PoolInv, SessionsOK, TypeOK, Fits, WithConn
      <4>2. path'[my[q].conn] = path[my[q].conn] /\ local'[my[q].conn] = local[my[q].conn]
        BY <1>4, <1>5, <4>1
      <4>3. SearchPath(my[q].conn) = my[q].schema
        BY <2>2, <4>1 DEF PoolInv, PathInv, ScriptRunsInSchema
      <4> QED BY <1>1, <4>2, <4>3 DEF SearchPath
    <3> QED BY <3>1, <3>2
  <2>3. ScriptRunsInSchema'
    BY <1>1, <2>2 DEF ScriptRunsInSchema, SearchPath
  <2> QED BY <1>1, <2>1, <2>3 DEF PathInv
<1> QED BY <1>8, <1>9, <1>11, <1>13 DEF PoolInv

\* An idle connection is closed, or one in use breaks.
LEMMA ConnectionEnds ==
  ASSUME PoolInv, NEW c \in Connections, CloseIdle(c) \/ Break(c)
  PROVE  PoolInv'
<1>1. /\ pc' = pc /\ my' = my /\ user' = user /\ local' = local
      /\ started' = started /\ dialect' = dialect
      /\ holder' = IF holder = c THEN Nobody ELSE holder
  BY DEF CloseIdle, Break
<1>2. /\ user \in [Connections -> Sessions \cup {Nobody}] /\ alive \in [Connections -> BOOLEAN]
      /\ path \in [Connections -> Schemas] /\ holder \in Connections \cup {Nobody}
  BY DEF PoolInv, SessionsOK, TypeOK
<1>3. \/ user[c] = Nobody /\ alive' = alive /\ path' = [path EXCEPT ![c] = LoginPath]
      \/ user[c] # Nobody /\ alive' = [alive EXCEPT ![c] = FALSE] /\ path' = path
  BY DEF CloseIdle, Break
<1>4. TypeOK'
  <2>1. /\ alive' \in [Connections -> BOOLEAN] /\ path' \in [Connections -> Schemas]
        /\ holder' \in Connections \cup {Nobody}
    BY <1>1, <1>2, <1>3, NobodyIsNone
  <2> QED BY <1>1, <2>1 DEF PoolInv, SessionsOK, TypeOK
<1>5. SessionsOK'
  BY <1>1, <1>4 DEF PoolInv, SessionsOK, Fits
<1>6. LentInv'
  BY <1>1 DEF PoolInv, LentInv
<1>7. ASSUME NEW q \in Sessions, my[q].lock # Nobody
      PROVE  my[q].lock \in Connections /\ (alive'[my[q].lock] =>
               alive[my[q].lock] /\ my[q].lock # c)
  <2>1. my[q].lock \in Connections /\ user[my[q].lock] = q /\ q # Nobody
    BY <1>7, NobodyIsNone DEF PoolInv, SessionsOK, TypeOK, LentInv
  <2> QED BY <1>2, <1>3, <2>1
<1>8. HolderInv'
  <2>1. \A q \in Sessions : pc[q] \in Locked /\ dialect = "postgresql" => my[q].lock # Nobody
    BY DEF PoolInv, SessionsOK, Fits, WithLock
  <2>2. ASSUME NEW q \in Sessions, pc[q] \in Locked, dialect = "postgresql", alive'[my[q].lock]
        PROVE  holder' = my[q].lock
    BY <1>1, <1>7, <2>1, <2>2 DEF PoolInv, HolderInv
  <2> QED BY <1>1, <2>2 DEF PoolInv, HolderInv
<1>9. PathInv'
  <2>1. ASSUME NEW q \in Sessions, dialect = "postgresql", pc[q] = "script",
               alive'[my[q].conn]
        PROVE  SearchPath(my[q].conn)' = my[q].schema
    <3>1. my[q].conn \in Connections /\ user[my[q].conn] = q /\ q # Nobody
      BY <2>1, NobodyIsNone DEF PoolInv, SessionsOK, TypeOK, LentInv, Fits, WithConn
    <3>2. alive[my[q].conn] /\ path'[my[q].conn] = path[my[q].conn]
      BY <1>2, <1>3, <2>1, <3>1
    <3> QED BY <1>1, <2>1, <3>2 DEF PoolInv, PathInv, ScriptRunsInSchema, SearchPath
  <2>2. ScriptRunsInSchema'
    BY <1>1, <2>1 DEF ScriptRunsInSchema, SearchPath
  <2> QED BY <1>1, <2>2 DEF PoolInv, PathInv
<1> QED BY <1>5, <1>6, <1>8, <1>9 DEF PoolInv

-----------------------------------------------------------------------------
(* The invariant and what it implies.                                      *)

\* No connection is lent and no command runs at first.
LEMMA PoolInit == Init => PoolInv
<1> SUFFICES ASSUME Init PROVE PoolInv
  OBVIOUS
<1>1. Fresh \in Registers /\ Fits("idle", Fresh) /\ "idle" \in Steps /\ "idle" \notin Locked
  BY NobodyIsNone DEF Fresh, Registers, Fits, WithConn, WithLock, Locked, Steps
<1>2. TypeOK
  BY <1>1, NobodyIsNone, PoolAssumption DEF Init, TypeOK, Registers
<1>3. \A p \in Sessions : Fits(pc[p], my[p]) /\ pc[p] = "idle" /\ my[p] = Fresh
  BY <1>1 DEF Init
<1>4. LentInv /\ HolderInv /\ PathInv
  BY <1>1, <1>3 DEF Init, LentInv, HolderInv, PathInv, ScriptRunsInSchema, Fresh
<1> QED BY <1>2, <1>3, <1>4 DEF PoolInv, SessionsOK

\* Every step of every session, and of the database, keeps the invariant.
LEMMA PoolNext == PoolInv /\ [Next]_vars => PoolInv'
<1> SUFFICES ASSUME PoolInv, [Next]_vars PROVE PoolInv'
  OBVIOUS
<1>1. ASSUME NEW p \in Sessions,
             \/ \E c \in {"migrate", "clean", "query"} : Start(p, c)
             \/ Step(p) \/ StatementFails(p) \/ LockFails(p) \/ ScriptFails(p)
      PROVE  PoolInv'
  BY <1>1, PoolStatements, ConnectionTaken, ConnectionReturned, LockAcquired, PathSet DEF Step
<1>2. ASSUME NEW c \in Connections, CloseIdle(c) \/ Break(c) PROVE PoolInv'
  BY <1>2, ConnectionEnds
<1>3. CASE UNCHANGED vars
  BY <1>3 DEF vars, connections, PoolInv, SessionsOK, TypeOK, Fits, LentInv, HolderInv,
              PathInv, ScriptRunsInSchema, SearchPath
<1> QED BY <1>1, <1>2, <1>3 DEF Next, Quiet

\* Every reachable state has the inductive invariant.
LEMMA PoolInvariant == Spec => []PoolInv
BY PoolInit, PoolNext, PTL DEF Spec

\* Of two sessions past acquireLock, one has lost its connection.
LEMMA OneHolder == PoolInv => ExclusiveUnlessBroken
<1> SUFFICES ASSUME PoolInv, NEW p \in Sessions, NEW q \in Sessions, p # q,
                    dialect = "postgresql", pc[p] \in Locked, pc[q] \in Locked,
                    alive[my[p].lock], alive[my[q].lock]
             PROVE  FALSE
  BY DEF ExclusiveUnlessBroken
<1>1. holder = my[p].lock /\ holder = my[q].lock /\ my[p].lock # Nobody
  BY DEF PoolInv, HolderInv, SessionsOK, Fits, WithLock
<1>2. user[my[p].lock] = p /\ (my[q].lock # Nobody => user[my[q].lock] = q)
  BY <1>1 DEF PoolInv, LentInv
<1>3. my[p].lock = my[q].lock
  BY <1>1
<1> QED BY <1>1, <1>2, <1>3

\* The type invariant of the connections and of the commands that use them.
THEOREM PoolTypeCorrect == Spec => []TypeOK
<1>1. PoolInv => TypeOK
  BY DEF PoolInv, SessionsOK
<1> QED BY <1>1, PoolInvariant, PTL

\* Two sessions are past acquireLock only if the connection of one of them broke, for
\* any number of sessions and processes, and whichever connections the pools lend and close.
THEOREM ExclusiveOnConnections == Spec => []ExclusiveUnlessBroken
BY OneHolder, PoolInvariant, PTL

\* A connection is lent for one purpose to one session that still has it in hand, and
\* the lock is on none that is back in the pool.
THEOREM NoConnectionLeaks == Spec => []NothingLeaks
<1>1. PoolInv => NothingLeaks
  <2> SUFFICES ASSUME PoolInv PROVE NothingLeaks
    OBVIOUS
  <2>1. \A c \in Connections : user[c] # Nobody => user[c] \in Sessions /\ c # Nobody
    BY NobodyIsNone DEF PoolInv, SessionsOK, TypeOK
  <2> QED BY <2>1 DEF PoolInv, LentInv, HolderInv, NothingLeaks
<1> QED BY <1>1, PoolInvariant, PTL

\* A script runs in its command's schema, whatever the pool's connections have been used
\* for before and by whom.
THEOREM RunsInSchema == Spec => []ScriptRunsInSchema
<1>1. PoolInv => ScriptRunsInSchema
  BY DEF PoolInv, PathInv
<1> QED BY <1>1, PoolInvariant, PTL

=============================================================================
