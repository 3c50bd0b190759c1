------------------------- MODULE MigrationExecutor -------------------------
(***************************************************************************)
(* Control of migrations/executor.go: several processes (Migrators) call   *)
(* ApplyAll, ApplyMigration and Reverse for the same application on one    *)
(* database.  Nothing in the code wraps a call in a transaction, so every  *)
(* database statement is an action of its own that commits by itself, can  *)
(* be rejected, can take effect and then have its answer lost, and can be  *)
(* the last thing a process does before it crashes.                        *)
(*                                                                         *)
(* The registered migrations are 1 .. Last, in the order ApplyAll sorts    *)
(* them in (by name); migration m has NumOps[m] operations.  What an       *)
(* operation does to the schema is left open here (SchemaMigration says    *)
(* it): an operation is some number of statements, each accepted or        *)
(* refused by the database.                                                *)
(***************************************************************************)
EXTENDS Naturals, FiniteSets

CONSTANTS
    Migrators,     \* processes that run an Executor
    Last,          \* number of registered migrations
    NumOps,        \* number of operations of each migration
    Calls,         \* methods the processes call: a subset of AllCalls
    FaultyReads    \* TRUE if the query of the applied migrations may fail

AllCalls == {"ApplyAll", "ApplyMigration", "Reverse"}
Mig == 1 .. Last

ASSUME LastAssumption == Last \in Nat
ASSUME NumOpsAssumption == NumOps \in [Mig -> Nat]
ASSUME CallsAssumption == Calls \subseteq AllCalls
ASSUME FaultyReadsAssumption == FaultyReads \in BOOLEAN

VARIABLES
    table,     \* django_migrations: "absent", "bare" (no unique index) or "indexed"
    rows,      \* rows[m]: number of rows of m in django_migrations
    pc,        \* pc[p]: where process p is
    call,      \* call[p]: the method p is executing
    snap,      \* snap[p]: the map GetAppliedMigrations returned to p
    cur,       \* cur[p]: position of p's loop over the migrations, or its argument
    op,        \* op[p]: operations of cur[p] that are in force in p's run
    touched,   \* history: migrations of which some statement has been executed
    ran        \* history: migrations of which some process executed every operation

locals == <<pc, call, snap, cur, op>>
vars == <<table, rows, pc, call, snap, cur, op, touched, ran>>

Labels == {"idle", "ensure", "index", "read", "loop", "run", "record", "unrecord",
           "succeeded", "failed"}

Recorded == {m \in Mig : rows[m] > 0}

\* Whether the program sees the answer of a statement that took effect.
Replies == {"ok", "lost"}

\* The next label of p after a statement that took effect.
After(reply, label) == IF reply = "ok" THEN label ELSE "failed"

Goto(p, from, to) ==
    /\ pc[p] = from
    /\ pc' = [pc EXCEPT ![p] = to]

Init ==
    /\ table = "absent"
    /\ rows = [m \in Mig |-> 0]
    /\ pc = [p \in Migrators |-> "idle"]
    /\ call = [p \in Migrators |-> "ApplyAll"]
    /\ snap = [p \in Migrators |-> {}]
    /\ cur = [p \in Migrators |-> 1]
    /\ op = [p \in Migrators |-> 0]
    /\ touched = {}
    /\ ran = {}

\* A process enters a method; ApplyMigration and Reverse take a migration.
StartApplyAll(p) ==
    /\ "ApplyAll" \in Calls
    /\ Goto(p, "idle", "ensure")
    /\ call' = [call EXCEPT ![p] = "ApplyAll"]
    /\ UNCHANGED <<table, rows, snap, cur, op, touched, ran>>

StartOne(p, c, m) ==
    /\ c \in Calls \ {"ApplyAll"}
    /\ Goto(p, "idle", "ensure")
    /\ call' = [call EXCEPT ![p] = c]
    /\ cur' = [cur EXCEPT ![p] = m]
    /\ UNCHANGED <<table, rows, snap, op, touched, ran>>

\* EnsureMigrationTable, first statement: CREATE TABLE IF NOT EXISTS.
EnsureTable(p, reply) ==
    /\ Goto(p, "ensure", After(reply, "index"))
    /\ table' = IF table = "absent" THEN "bare" ELSE table
    /\ UNCHANGED <<rows, call, snap, cur, op, touched, ran>>

\* Mutant of EnsureIndex: the index is created without UNIQUE.
PlainIndex(p, reply) ==
    /\ Goto(p, "index", After(reply, IF call[p] = "ApplyAll" THEN "read" ELSE "run"))
    /\ op' = [op EXCEPT ![p] = IF reply = "ok" /\ call[p] = "Reverse" THEN NumOps[cur[p]] ELSE 0]
    /\ UNCHANGED <<table, rows, call, snap, cur, touched, ran>>

\* EnsureMigrationTable, second statement: CREATE UNIQUE INDEX IF NOT EXISTS,
\* refused over duplicate rows.  The method that asked for the table goes on.
EnsureIndex(p, reply) ==
    /\ \A m \in Mig : rows[m] < 2
    /\ Goto(p, "index", After(reply, IF call[p] = "ApplyAll" THEN "read" ELSE "run"))
    /\ table' = "indexed"
    /\ op' = [op EXCEPT ![p] = IF reply = "ok" /\ call[p] = "Reverse" THEN NumOps[cur[p]] ELSE 0]
    /\ UNCHANGED <<rows, call, snap, cur, touched, ran>>

\* GetAppliedMigrations: a query error is reported as an empty map and an
\* error in the middle of the rows as a shorter map, never as an error.
ReadApplied(p) ==
    /\ Goto(p, "read", "loop")
    /\ \E S \in SUBSET Recorded :
          /\ FaultyReads \/ S = Recorded
          /\ snap' = [snap EXCEPT ![p] = S]
    /\ cur' = [cur EXCEPT ![p] = 1]
    /\ UNCHANGED <<table, rows, call, op, touched, ran>>

\* ApplyAll's loop: a migration of the snapshot is skipped ...
SkipApplied(p) ==
    /\ pc[p] = "loop"
    /\ cur[p] \in snap[p]
    /\ cur' = [cur EXCEPT ![p] = @ + 1]
    /\ UNCHANGED <<table, rows, pc, call, snap, op, touched, ran>>

\* Mutant of BeginApply: the migrations are taken in the order of a Go map.
BeginAny(p) ==
    /\ Goto(p, "loop", "run")
    /\ cur[p] \in Mig
    /\ \E m \in Mig \ snap[p] : cur' = [cur EXCEPT ![p] = m]
    /\ op' = [op EXCEPT ![p] = 0]
    /\ UNCHANGED <<table, rows, call, snap, touched, ran>>

\* ... any other is handed to applyOne ...
BeginApply(p) ==
    /\ Goto(p, "loop", "run")
    /\ cur[p] \in Mig \ snap[p]
    /\ op' = [op EXCEPT ![p] = 0]
    /\ UNCHANGED <<table, rows, call, snap, cur, touched, ran>>

\* ... and after the last one ApplyAll sends PostMigrate and returns nil.
FinishApplyAll(p) ==
    /\ Goto(p, "loop", "succeeded")
    /\ cur[p] \notin Mig
    /\ UNCHANGED <<table, rows, call, snap, cur, op, touched, ran>>

\* There is an operation left for p to execute (or, in Reverse, to undo).
OpsLeft(p) == IF call[p] = "Reverse" THEN op[p] > 0 ELSE op[p] < NumOps[cur[p]]

\* op'[p] after an operation is complete.
NextOp(p) == IF call[p] = "Reverse" THEN op[p] - 1 ELSE op[p] + 1

\* A statement of the current operation takes effect; done says that it was
\* the operation's last one.
RunStatement(p, done, reply) ==
    /\ Goto(p, "run", After(reply, "run"))
    /\ OpsLeft(p)
    /\ touched' = touched \union {cur[p]}
    /\ op' = [op EXCEPT ![p] = IF done THEN NextOp(p) ELSE @]
    /\ UNCHANGED <<table, rows, call, snap, cur, ran>>

\* An operation without (further) statements: AlterModelOptions, an empty
\* RunSQL, or an operation whose last statement failed with the error ignored.
EndOp(p) ==
    /\ pc[p] = "run"
    /\ OpsLeft(p)
    /\ op' = [op EXCEPT ![p] = NextOp(p)]
    /\ UNCHANGED <<table, rows, pc, call, snap, cur, touched, ran>>

\* All operations are done.  ApplyAll records, Reverse deletes the record,
\* ApplyMigration returns without touching django_migrations.
OpsDone(p) ==
    /\ Goto(p, "run", CASE call[p] = "ApplyAll" -> "record"
                        [] call[p] = "Reverse" -> "unrecord"
                        [] call[p] = "ApplyMigration" -> "succeeded")
    /\ ~OpsLeft(p)
    /\ ran' = IF call[p] = "Reverse" THEN ran ELSE ran \union {cur[p]}
    /\ UNCHANGED <<table, rows, call, snap, cur, op, touched>>

\* recordApplied: INSERT, refused by the unique index if the row is there.
Record(p, reply) ==
    /\ Goto(p, "record", After(reply, "loop"))
    /\ table = "indexed" => rows[cur[p]] = 0
    /\ rows' = [rows EXCEPT ![cur[p]] = @ + 1]
    /\ cur' = [cur EXCEPT ![p] = IF reply = "ok" THEN @ + 1 ELSE @]
    /\ UNCHANGED <<table, call, snap, op, touched, ran>>

\* unrecordApplied: DELETE, which also succeeds if there is no row.
Unrecord(p, reply) ==
    /\ Goto(p, "unrecord", After(reply, "succeeded"))
    /\ rows' = [rows EXCEPT ![cur[p]] = 0]
    /\ UNCHANGED <<table, call, snap, cur, op, touched, ran>>

\* Mutants of Refused: an error of applyOne is logged and the migration is
\* recorded all the same; is logged and the loop goes on with the next
\* migration; an error of recordApplied is logged and the loop goes on.
RecordAnyway(p) ==
    /\ pc[p] \in {"ensure", "index", "run", "record", "unrecord"}
    /\ pc' = [pc EXCEPT ![p] = IF pc[p] = "run" THEN "record" ELSE "failed"]
    /\ UNCHANGED <<table, rows, call, snap, cur, op, touched, ran>>

Continue(p, label) ==
    /\ pc[p] \in {"ensure", "index", "run", "record", "unrecord"}
    /\ pc' = [pc EXCEPT ![p] = IF pc[p] = label THEN "loop" ELSE "failed"]
    /\ cur' = [cur EXCEPT ![p] = IF pc[p] = label THEN @ + 1 ELSE @]
    /\ UNCHANGED <<table, rows, call, snap, op, touched, ran>>

SkipBroken(p) == Continue(p, "run")
SkipUnrecorded(p) == Continue(p, "record")

\* A statement is refused, or StateForwards, StateBackwards or a schema method
\* returns an error: the method returns it, and nothing is undone.
Refused(p) ==
    /\ pc[p] \in {"ensure", "index", "run", "record", "unrecord"}
    /\ pc[p] = "run" => OpsLeft(p)
    /\ pc' = [pc EXCEPT ![p] = "failed"]
    /\ UNCHANGED <<table, rows, call, snap, cur, op, touched, ran>>

\* The process is left with no local state: after a return, or by a crash.
Forget(p) ==
    /\ pc' = [pc EXCEPT ![p] = "idle"]
    /\ call' = [call EXCEPT ![p] = "ApplyAll"]
    /\ snap' = [snap EXCEPT ![p] = {}]
    /\ cur' = [cur EXCEPT ![p] = 1]
    /\ op' = [op EXCEPT ![p] = 0]
    /\ UNCHANGED <<table, rows, touched, ran>>

Return(p) == pc[p] \in {"succeeded", "failed"} /\ Forget(p)

Crash(p) == pc[p] \notin {"idle", "succeeded", "failed"} /\ Forget(p)

\* What a process that is in a method does next.
Step(p) ==
    \/ \E reply \in Replies :
          \/ EnsureTable(p, reply)
          \/ EnsureIndex(p, reply)
          \/ \E done \in BOOLEAN : RunStatement(p, done, reply)
          \/ Record(p, reply)
          \/ Unrecord(p, reply)
    \/ ReadApplied(p)
    \/ SkipApplied(p)
    \/ BeginApply(p)
    \/ FinishApplyAll(p)
    \/ EndOp(p)
    \/ OpsDone(p)
    \/ Refused(p)
    \/ Return(p)

Start(p) ==
    \/ StartApplyAll(p)
    \/ \E c \in AllCalls \ {"ApplyAll"}, m \in Mig : StartOne(p, c, m)

Next == \E p \in Migrators : Start(p) \/ Step(p) \/ Crash(p)

Spec == Init /\ [][Next]_vars
-----------------------------------------------------------------------------
(* Properties.                                                             *)

TypeOK ==
    /\ table \in {"absent", "bare", "indexed"}
    /\ rows \in [Mig -> Nat]
    /\ pc \in [Migrators -> Labels]
    /\ call \in [Migrators -> AllCalls]
    /\ snap \in [Migrators -> SUBSET Mig]
    /\ cur \in [Migrators -> 1 .. Last + 1]
    /\ op \in [Migrators -> Nat]
    /\ touched \subseteq Mig
    /\ ran \subseteq Mig

\* The unique index of EnsureMigrationTable does its work: however many
\* processes and retries there are, a migration never has two rows.
OneRowEach == \A m \in Mig : rows[m] <= 1

\* A recorded migration has had all its operations executed by one process in
\* one go: no crash, lost answer or stale snapshot records a partial run.
RecordedRan == Recorded \subseteq ran

\* When ApplyAll returns no error every registered migration is recorded, also
\* when its query of the applied migrations failed or another process raced it.
SuccessIsComplete ==
    \A p \in Migrators :
        pc[p] = "succeeded" /\ call[p] = "ApplyAll" => Recorded = Mig

\* ApplyAll's damage is confined: whatever crashes and races happen, the only
\* unrecorded migration whose statements have touched the schema is the first
\* unrecorded one, where the next ApplyAll starts.
DamageAtFrontier ==
    \A m \in touched \ Recorded : 1 .. m - 1 \subseteq Recorded

\* Without Reverse the records implement the ledger that MigrationLedger
\* promises: a prefix of the migrations that only grows, one at a time.
Ledger == INSTANCE MigrationLedger WITH ledger <- Recorded

LedgerSpec == Ledger!Spec
=============================================================================
