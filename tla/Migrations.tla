----------------------------- MODULE Migrations -----------------------------
(***************************************************************************)
(* Database migrations: servers that migrate when they start               *)
(* (bootstrap/initMigrations), in one transaction under an advisory lock,  *)
(* and an administrator's command (scripts/migrate.js over                 *)
(* database/migrations/runner.js), one transaction per file and no lock.   *)
(* Each keeps a table of its own: schema_migrations and _migrations.       *)
(*                                                                         *)
(* A migration is its number in the sorted directory.  The schema itself   *)
(* is left out, and with it what a file finds: an up that was written for  *)
(* the schema of the files before it is run over any other (001 beside the *)
(* column that 033 drops), and a down takes what others build on (001 with *)
(* CASCADE, the oldest first).  So the database may take or reject any up  *)
(* or down, and nothing here is said of what is in effect.  What a         *)
(* transaction did is seen by others when it commits; two that work on the *)
(* same file wait for each other, as their DDL does.                       *)
(***************************************************************************)
EXTENDS Integers, FiniteSets, SequencesExt

CONSTANTS
  Servers,
  NoServer,
  Release,      \* number of migration files in each server's build
  Files,        \* number of files in the administrator's build
  MaxAttempts,  \* MAX_MIGRATION_ATTEMPTS
  MaxCommands,  \* bound: commands of the administrator
  MaxFaults     \* bound: crashes, rejected queries, lost connections

ASSUME MigrationsAssumption ==
  /\ IsFiniteSet(Servers) /\ NoServer \notin Servers
  /\ Files \in Nat /\ Release \in [Servers -> 0..Files]
  /\ MaxAttempts \in Nat \ {0}
  /\ MaxCommands \in Nat /\ MaxFaults \in Nat

VARIABLES
  recorded,   \* schema_migrations
  table,      \* _migrations, by applied_at
  lock,       \* holder of pg_try_advisory_xact_lock
  pc,         \* each server: where it is
  seen,       \* ... appliedSet
  work,       \* ... migrations its open transaction has run and recorded
  attempt,    \* ... attempt, 0 outside of a retry
  mode,       \* the administrator's command
  todo,       \* ... the files it has left
  open,       \* ... the one its open transaction has run, 0 without
  commands, faults

dbVars == <<recorded, table, lock>>
serverVars == <<pc, seen, work, attempt>>
adminVars == <<mode, todo, open, commands>>
vars == <<recorded, table, lock, pc, seen, work, attempt,
          mode, todo, open, commands, faults>>

Numbers == 1..Files
FilesOf(s) == 1..Release[s]

TypeOK ==
  /\ recorded \subseteq Numbers
  /\ table \in Seq(Numbers)
  /\ lock \in Servers \cup {NoServer}
  /\ pc \in [Servers -> {"down", "locking", "reading", "running", "retrying", "ready"}]
  /\ seen \in [Servers -> SUBSET Numbers] /\ work \in [Servers -> SUBSET Numbers]
  /\ attempt \in [Servers -> 0..MaxAttempts]
  /\ mode \in {"idle", "migrate", "rollback"}
  /\ todo \in Seq(Numbers) /\ open \in 0..Files
  /\ commands \in 0..MaxCommands /\ faults \in 0..MaxFaults

Init ==
  /\ recorded = {} /\ table = <<>> /\ lock = NoServer
  /\ pc = [s \in Servers |-> "down"]
  /\ seen = [s \in Servers |-> {}]
  /\ work = [s \in Servers |-> {}]
  /\ attempt = [s \in Servers |-> 0]
  /\ mode = "idle" /\ todo = <<>> /\ open = 0
  /\ commands = 0 /\ faults = 0

Faulty == faults < MaxFaults /\ faults' = faults + 1

-----------------------------------------------------------------------------
(* A server: advisoryLock around the runner of initMigrations *)

Boot(s) ==
  /\ pc[s] = "down"
  /\ pc' = [pc EXCEPT ![s] = "locking"]
  /\ UNCHANGED <<dbVars, seen, work, attempt, adminVars, faults>>

AcquireLock(s) ==
  /\ pc[s] = "locking" /\ lock = NoServer
  /\ lock' = s
  /\ pc' = [pc EXCEPT ![s] = "reading"]
  /\ UNCHANGED <<recorded, table, seen, work, attempt, adminVars, faults>>

\* The process ends: its variables are gone, an open transaction is rolled back
\* and the lock with it.
End(s) ==
  /\ pc' = [pc EXCEPT ![s] = "down"]
  /\ seen' = [seen EXCEPT ![s] = {}]
  /\ work' = [work EXCEPT ![s] = {}]
  /\ attempt' = [attempt EXCEPT ![s] = 0]
  /\ lock' = IF lock = s THEN NoServer ELSE lock

\* The lock is taken for as long as the server waits: startup is aborted.
LockTimeout(s) ==
  /\ pc[s] = "locking" /\ lock # NoServer
  /\ End(s)
  /\ UNCHANGED <<recorded, table, adminVars, faults>>

ReadApplied(s) ==
  /\ pc[s] = "reading"
  /\ seen' = [seen EXCEPT ![s] = recorded]
  /\ pc' = [pc EXCEPT ![s] = "running"]
  /\ UNCHANGED <<dbVars, work, attempt, adminVars, faults>>

Left(s) == FilesOf(s) \ (seen[s] \cup work[s])

\* The next file: up and its row, once no other open transaction works on it; or
\* the schema is not the one it was written for, it is rejected, and startup aborted.
Apply(s) ==
  /\ pc[s] = "running"
  /\ \E f \in Left(s) :
       /\ \A g \in Left(s) : f <= g
       /\ f # open /\ \A t \in Servers \ {s} : f \notin work[t]
       /\ \/ /\ work' = [work EXCEPT ![s] = @ \cup {f}]
             /\ UNCHANGED <<lock, pc, seen, attempt>>
          \/ End(s)
  /\ UNCHANGED <<recorded, table, adminVars, faults>>

\* Mutant: a transaction per file.
CommitSome(s) ==
  /\ pc[s] = "running" /\ (work[s] # {} \/ Left(s) = {})
  /\ recorded' = recorded \cup work[s]
  /\ work' = [work EXCEPT ![s] = {}]
  /\ seen' = [seen EXCEPT ![s] = @ \cup work[s]]
  /\ IF Left(s) = {} THEN /\ pc' = [pc EXCEPT ![s] = "ready"]
                          /\ lock' = NoServer
                     ELSE UNCHANGED <<pc, lock>>
  /\ UNCHANGED <<table, attempt, adminVars, faults>>

\* COMMIT; the answer may be lost, and startup is aborted then.
Commit(s) ==
  /\ pc[s] = "running" /\ Left(s) = {}
  /\ recorded' = recorded \cup work[s]
  /\ \/ /\ pc' = [pc EXCEPT ![s] = "ready"]
        /\ seen' = [seen EXCEPT ![s] = {}]
        /\ work' = [work EXCEPT ![s] = {}]
        /\ lock' = NoServer
        /\ UNCHANGED <<attempt, faults>>
     \/ End(s) /\ Faulty
  /\ UNCHANGED <<table, adminVars>>

\* Another query is rejected, or a deadlock broken: ROLLBACK, startup is aborted.
\* The process dies: the same for the database.
Abort(s) ==
  /\ pc[s] # "down" /\ Faulty
  /\ End(s)
  /\ UNCHANGED <<recorded, table, adminVars>>

\* The connection is lost while a migration runs: the database rolls back and
\* frees the lock, the server tries up again.
LoseConnection(s) ==
  /\ pc[s] = "running" /\ Left(s) # {} /\ Faulty
  /\ pc' = [pc EXCEPT ![s] = "retrying"]
  /\ work' = [work EXCEPT ![s] = {}]
  /\ attempt' = [attempt EXCEPT ![s] = 1]
  /\ lock' = NoServer
  /\ UNCHANGED <<recorded, table, seen, adminVars>>

\* Mutant: the retry takes a new connection and goes on.
RetryReconnected(s) ==
  /\ pc[s] = "retrying"
  /\ pc' = [pc EXCEPT ![s] = "running"]
  /\ attempt' = [attempt EXCEPT ![s] = 0]
  /\ UNCHANGED <<dbVars, seen, work, adminVars, faults>>

\* It has the same client, which is closed: every attempt fails.
Retry(s) ==
  /\ pc[s] = "retrying"
  /\ IF attempt[s] < MaxAttempts
       THEN /\ attempt' = [attempt EXCEPT ![s] = @ + 1]
            /\ UNCHANGED <<pc, seen, work, lock>>
       ELSE End(s)
  /\ UNCHANGED <<recorded, table, adminVars, faults>>

-----------------------------------------------------------------------------
(* The administrator: runner.migrate and runner.rollback *)

\* The files S in the order of MIGRATION_FILES
InOrder(S) ==
  {q \in UNION {[1..n -> S] : n \in 0..Files} :
     ToSet(q) = S /\ \A i, j \in DOMAIN q : i < j => q[i] < q[j]}

StartMigrate ==
  /\ mode = "idle" /\ commands < MaxCommands
  /\ commands' = commands + 1
  /\ todo' \in InOrder(Numbers \ ToSet(table))
  /\ mode' = IF todo' = <<>> THEN "idle" ELSE "migrate"
  /\ UNCHANGED <<dbVars, serverVars, open, faults>>

\* ORDER BY applied_at DESC LIMIT step, reversed
StartRollback ==
  /\ mode = "idle" /\ commands < MaxCommands
  /\ commands' = commands + 1
  /\ \E step \in 1..Len(table) :
       todo' = SubSeq(table, Len(table) - step + 1, Len(table))
  /\ mode' = "rollback"
  /\ UNCHANGED <<dbVars, serverVars, open, faults>>

\* ROLLBACK of the open file, if any: what the command committed stays.
EndCommand == mode' = "idle" /\ todo' = <<>> /\ open' = 0

\* BEGIN, up or down of the next file, its row; or it is rejected.
RunFile ==
  /\ mode # "idle" /\ open = 0
  /\ \A s \in Servers : Head(todo) \notin work[s]
  /\ \/ open' = Head(todo) /\ UNCHANGED <<mode, todo>>
     \/ EndCommand
  /\ UNCHANGED <<dbVars, serverVars, commands, faults>>

\* The row is found by its name, the primary key.
CommitFile ==
  /\ open # 0
  /\ IF mode = "migrate"
       THEN table' = Append(table, open)
       ELSE \E i \in DOMAIN table : table[i] = open /\ table' = RemoveAt(table, i)
  /\ open' = 0 /\ todo' = Tail(todo)
  /\ mode' = IF todo' = <<>> THEN "idle" ELSE mode
  /\ UNCHANGED <<recorded, lock, serverVars, commands, faults>>

\* The command is killed.
AbortCommand ==
  /\ mode # "idle" /\ Faulty
  /\ EndCommand
  /\ UNCHANGED <<dbVars, serverVars, commands>>

-----------------------------------------------------------------------------

Next ==
  \/ \E s \in Servers :
       \/ Boot(s) \/ AcquireLock(s) \/ LockTimeout(s)
       \/ ReadApplied(s) \/ Apply(s) \/ Commit(s)
       \/ LoseConnection(s) \/ Retry(s) \/ Abort(s)
  \/ StartMigrate \/ StartRollback \/ RunFile \/ CommitFile \/ AbortCommand

Spec == Init /\ [][Next]_vars

-----------------------------------------------------------------------------
(* Properties *)

\* A server never runs the up of a migration that schema_migrations has: what
\* it read before its first migration is still the truth at its last
\* (initMigrations.js, appliedSet).
NoReapply == \A s \in Servers : work[s] \cap recorded = {}

\* schema_migrations is what some build expects, completely and in order: a
\* start that dies or is rejected half way leaves nothing of itself.
AllOrNothing == recorded = {} \/ \E s \in Servers : recorded = FilesOf(s)

=============================================================================
