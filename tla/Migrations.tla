----------------------------- MODULE Migrations -----------------------------
(***************************************************************************)
(* Database::apply_migration and run_script (src/storage/database.cpp):    *)
(* any number of runners bring one database to one version at the same     *)
(* time.  Each step is one statement sent to the server; PostgreSQL's part *)
(* is modelled from how the statements are used: a transaction's changes   *)
(* are its own until COMMIT, the advisory lock is held to the end of the   *)
(* transaction, a second INSERT of a key waits for the first and then      *)
(* fails, and after an error only ROLLBACK is accepted.                    *)
(***************************************************************************)
EXTENDS Integers, FiniteSets

CONSTANTS Runners,        \* processes that apply the migration
          MaxTrouble      \* bound: statements refused and connections lost

ASSUME MigrationAssumption == MaxTrouble \in Nat

VARIABLES applied,        \* times the script's changes were committed
          recorded,       \* the version has its row in schema_migrations
          advisoryLock,   \* runner whose transaction has the lock, or NoRunner
          runner,         \* runner -> [step, txn, ran, row, result]
          collided,       \* an INSERT met a row of the same version
          trouble

migrationVars == <<applied, recorded, advisoryLock, runner, collided, trouble>>

NoRunner == 0
ASSUME RunnersAssumption == NoRunner \notin Runners

(* txn: no transaction, an open or a failed one.  ran and row: what the    *)
(* transaction has done and nobody else sees.                              *)
AtEase(result) == [step |-> "idle", txn |-> "none", ran |-> FALSE, row |-> FALSE, result |-> result]

MigrationInit == /\ applied = 0 /\ recorded = FALSE
                 /\ advisoryLock = NoRunner
                 /\ runner = [r \in Runners |-> AtEase("none")]
                 /\ collided = FALSE /\ trouble = 0

Doing(r, step) == runner[r].step = step
Proceeds(r, step) == runner' = [runner EXCEPT ![r].step = step]
Freed(r) == IF advisoryLock = r THEN NoRunner ELSE advisoryLock

-----------------------------------------------------------------------------
BeginMigration(r) ==
    /\ Doing(r, "idle") /\ runner[r].txn = "none"
    /\ runner' = [runner EXCEPT ![r] = [AtEase("none") EXCEPT !.step = "lock", !.txn = "open"]]
    /\ UNCHANGED <<applied, recorded, advisoryLock, collided, trouble>>

(* pg_advisory_xact_lock waits for the transaction that has it. *)
TakeLock(r) ==
    /\ Doing(r, "lock") /\ advisoryLock = NoRunner
    /\ advisoryLock' = r
    /\ Proceeds(r, "look")
    /\ UNCHANGED <<applied, recorded, collided, trouble>>

(* CREATE TABLE IF NOT EXISTS, then the SELECT. *)
LookUp(r) ==
    /\ Doing(r, "look")
    /\ Proceeds(r, IF recorded THEN "commit" ELSE "script")
    /\ UNCHANGED <<applied, recorded, advisoryLock, collided, trouble>>

run_script(r) ==
    /\ Doing(r, "script")
    /\ runner' = [runner EXCEPT ![r].step = "record", ![r].ran = TRUE]
    /\ UNCHANGED <<applied, recorded, advisoryLock, collided, trouble>>

(* The primary key: a committed row is an error, another transaction's row *)
(* is waited for.                                                          *)
RecordMutant(r) ==
    /\ Doing(r, "record")
    /\ Proceeds(r, "commit")
    /\ UNCHANGED <<applied, recorded, advisoryLock, collided, trouble>>
Record(r) ==
    /\ Doing(r, "record")
    /\ \A q \in Runners \ {r} : ~runner[q].row
    /\ \/ /\ ~recorded
          /\ runner' = [runner EXCEPT ![r].step = "commit", ![r].row = TRUE]
          /\ UNCHANGED collided
       \/ /\ recorded
          /\ runner' = [runner EXCEPT ![r].step = "rollback", ![r].txn = "failed"]
          /\ collided' = TRUE
    /\ UNCHANGED <<applied, recorded, advisoryLock, trouble>>

Durable(r) == /\ applied' = applied + (IF runner[r].ran THEN 1 ELSE 0)
              /\ recorded' = (recorded \/ runner[r].row)
              /\ advisoryLock' = Freed(r)

CommitMigration(r) ==
    /\ Doing(r, "commit")
    /\ Durable(r)
    /\ runner' = [runner EXCEPT ![r] = AtEase(IF runner[r].ran THEN "applied" ELSE "present")]
    /\ UNCHANGED <<collided, trouble>>

(* Every failure ends in ROLLBACK, whose own answer is not looked at. *)
RollbackMigration(r) ==
    /\ Doing(r, "rollback")
    /\ runner' = [runner EXCEPT ![r] = AtEase("failed")]
    /\ advisoryLock' = Freed(r)
    /\ UNCHANGED <<applied, recorded, collided, trouble>>

-----------------------------------------------------------------------------
InTransaction == {"lock", "look", "script", "record", "commit"}

(* The server refuses a statement; the script may be one of them.  A       *)
(* COMMIT that is refused has been rolled back by the server.              *)
StatementRefused(r) ==
    /\ trouble < MaxTrouble /\ trouble' = trouble + 1
    /\ runner[r].step \in InTransaction
    /\ runner' = [runner EXCEPT ![r].step = "rollback", ![r].txn = "failed"]
    /\ UNCHANGED <<applied, recorded, advisoryLock, collided>>

(* The connection is lost, or the process dies: the server undoes the      *)
(* transaction.  A COMMIT can have arrived all the same, and the runner    *)
(* reports a failure.  It is started again later.                          *)
ConnectionLost(r) ==
    /\ trouble < MaxTrouble /\ trouble' = trouble + 1
    /\ runner[r].txn # "none"
    /\ \/ /\ Doing(r, "commit") /\ Durable(r)
       \/ advisoryLock' = Freed(r) /\ UNCHANGED <<applied, recorded>>
    /\ runner' = [runner EXCEPT ![r] = AtEase("failed")]
    /\ UNCHANGED collided

MigrationNext == \E r \in Runners :
    \/ BeginMigration(r) \/ TakeLock(r) \/ LookUp(r) \/ run_script(r) \/ Record(r)
    \/ CommitMigration(r) \/ RollbackMigration(r) \/ StatementRefused(r) \/ ConnectionLost(r)

MigrationSpec == MigrationInit /\ [][MigrationNext]_migrationVars

-----------------------------------------------------------------------------
(* The script takes effect once, and is recorded exactly when it has:      *)
(* through refusals, lost connections, a COMMIT whose answer is lost and   *)
(* any number of runners.                                                  *)
ScriptRecordedOnce == applied = (IF recorded THEN 1 ELSE 0)

(* The advisory lock comes before the look at the table, so no runner does *)
(* the work of another and fails on its row.                               *)
RunnersDoNotCollide == ~collided

(* A runner that has returned leaves its session without a transaction:    *)
(* whatever the caller does next is not part of a failed migration, and    *)
(* the lock is free for the others.                                        *)
SessionLeftClean == \A r \in Runners :
    Doing(r, "idle") => runner[r].txn = "none" /\ advisoryLock # r

(* Of any runners with any mishaps one applies the script and records it,  *)
(* none collides, and each leaves its session usable.                      *)
MigratesOnce == ScriptRecordedOnce /\ RunnersDoNotCollide /\ SessionLeftClean

=============================================================================
