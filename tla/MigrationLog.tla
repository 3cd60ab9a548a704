---------------------------- MODULE MigrationLog ----------------------------
(***************************************************************************)
(* What Migrate promises, whoever calls it, how often, and whatever fails: *)
(* a log of the scripts that were applied and a count of how often each    *)
(* took effect.  Sessions, locks, ranks read ahead and pending lists, which *)
(* migrate.go needs to keep the promise, do not appear.                    *)
(***************************************************************************)
EXTENDS Integers, FiniteSets

CONSTANTS
  Versions, Repeatables,  \* The scripts; versions are numbers in their order
  NoTransaction,          \* Scripts that opted out of the transaction
  OutOfOrder,             \* Configuration.outOfOrder
  Places,                 \* The places of the log
  Sums                    \* The checksums a script may have

VARIABLES
  log,      \* The successful records: their place, script and checksum
  ran,      \* How often each script's statements all took effect
  stopped   \* A version failed and left its mark

state == <<log, ran, stopped>>

Scripts == Versions \cup Repeatables
Entry == [at : Places, key : Scripts, checksum : Sums]
Of(k) == {e \in log : e.key = k}

Init ==
  /\ log = {}
  /\ ran = [k \in Scripts |-> 0]
  /\ stopped = FALSE

\* Script k with checksum c is due: a version that was never applied and that no
\* later one overtook, a repeatable whose last application was of another text.
Due(k, c) ==
  /\ ~stopped
  /\ IF k \in Versions
     THEN /\ Of(k) = {}
          /\ OutOfOrder \/ \A e \in log : e.key \in Versions => e.key < k
     ELSE \A e \in Of(k) : (\A f \in Of(k) : f.at <= e.at) => e.checksum # c

\* A record at the end of the log.
Enter(k, c) ==
  \E n \in Places :
    /\ \A e \in log : e.at < n
    /\ log' = log \cup {[at |-> n, key |-> k, checksum |-> c]}

Count(k) == ran' = [ran EXCEPT ![k] = @ + 1]

\* A transactional script takes effect and is recorded, both or neither.
Apply(k, c) ==
  /\ k \notin NoTransaction
  /\ Count(k)
  /\ Due(k, c)
  /\ Enter(k, c)
  /\ UNCHANGED stopped

\* Any other script takes effect first ...
Run(k, c) ==
  /\ k \in NoTransaction
  /\ Count(k)
  /\ Due(k, c)
  /\ UNCHANGED <<log, stopped>>

\* ... and is recorded afterwards, if the process lives to do it.
Record(k, c) ==
  /\ k \in NoTransaction
  /\ Cardinality(Of(k)) < ran[k]
  /\ Due(k, c)
  /\ Enter(k, c)
  /\ UNCHANGED <<ran, stopped>>

\* A version fails outside a transaction; nothing is applied any more.
Fail(k) ==
  /\ ~stopped /\ stopped' = TRUE
  /\ k \in NoTransaction \cap Versions /\ Of(k) = {}
  /\ UNCHANGED <<log, ran>>

Next ==
  \/ \E k \in Scripts, c \in Sums : Apply(k, c) \/ Run(k, c) \/ Record(k, c)
  \/ \E k \in Scripts : Fail(k)

Spec == Init /\ [][Next]_state

=============================================================================
