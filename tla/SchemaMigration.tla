-------------------------- MODULE SchemaMigration --------------------------
(***************************************************************************)
(* MigrationExecutor with the data: the same processes, whose operations   *)
(* now change a project state in the memory of the process (ProjectState)  *)
(* and send statements to a database that accepts or rejects them          *)
(* (PostgresSchema).  Every action is the conjunction of an action of      *)
(* MigrationExecutor and of what it does to db, st and queue, so whatever  *)
(* is proved of MigrationExecutor holds here.                              *)
(*                                                                         *)
(* The registered operations live as long as the process: a second call in *)
(* the same process starts with the arrays the first one left, a new       *)
(* process with those of the source text.                                  *)
(***************************************************************************)
EXTENDS PostgresSchema, MigrationExecutor

CONSTANTS
    Migrations,    \* Migrations[m]: the operations of migration m
    Faults         \* what may go wrong: a subset of AllFaults

AllFaults == {"refused", "lost", "crash"}

ASSUME MigrationsAssumption ==
    /\ DOMAIN Migrations = Mig
    /\ \A m \in Mig : NumOps[m] = Len(Migrations[m])
ASSUME FaultsAssumption == Faults \subseteq AllFaults

VARIABLES
    db,        \* the schema in the database, without django_migrations
    st,        \* st[p]: project state of p, with the arrays of p's operations
    queue      \* queue[p]: statements of p's current operation still to send

dataVars == <<db, st, queue>>
allVars == <<vars, dataVars>>

Fresh0 == NewProjectState(PristineHeap(Migrations))

SchemaInit ==
    /\ Init
    /\ db = EmptyDB
    /\ st = [p \in Migrators |-> Fresh0]
    /\ queue = [p \in Migrators |-> <<>>]

\* The state applyOne or Reverse starts from is built in p's memory.
BuildState(p) == st' = [st EXCEPT ![p] = StateBefore(@.heap, Migrations, cur[p])]

Ensure(p, reply) ==
    /\ reply = "lost" => "lost" \in Faults
    /\ \/ EnsureTable(p, reply) /\ UNCHANGED st
       \/ /\ EnsureIndex(p, reply)
          /\ IF pc'[p] = "run" THEN BuildState(p) ELSE UNCHANGED st
    /\ UNCHANGED <<db, queue>>

BeginMigration(p) == BeginApply(p) /\ BuildState(p) /\ UNCHANGED <<db, queue>>

\* The operation p is at; undoing an operation is doing its reverse.
CurrentOp(p) ==
    IF call[p] = "Reverse" THEN Reversed(Migrations[cur[p]][op[p]])
    ELSE Migrations[cur[p]][op[p] + 1]

\* StateForwards (or StateBackwards), then DatabaseForwards up to its first statement.
BeginOp(p) ==
    /\ pc[p] = "run"
    /\ OpsLeft(p)
    /\ queue[p] = <<>>
    /\ LET result == StateForwards(st[p], CurrentOp(p))
           todo == Statements(result.st, CurrentOp(p))
       IN /\ st' = [st EXCEPT ![p] = result.st]
          /\ \/ ~result.ok /\ Refused(p) /\ UNCHANGED queue
             \/ result.ok /\ todo = <<>> /\ EndOp(p) /\ UNCHANGED queue
             \/ result.ok /\ todo # <<>> /\ queue' = [queue EXCEPT ![p] = todo] /\ UNCHANGED vars
    /\ UNCHANGED db

\* The next statement takes effect; if its error is ignored, so is a lost answer.
Execute(p, reply) ==
    /\ queue[p] # <<>>
    /\ reply = "lost" => "lost" \in Faults
    /\ LET s == Head(queue[p]) IN
       /\ Accepts(db, s)
       /\ RunStatement(p, Len(queue[p]) = 1, IF s.ign THEN "ok" ELSE reply)
       /\ db' = Effect(db, s)
    /\ queue' = [queue EXCEPT ![p] = IF pc'[p] = "run" THEN Tail(@) ELSE <<>>]
    /\ UNCHANGED st

\* The next statement does not.
Reject(p) ==
    /\ queue[p] # <<>>
    /\ LET s == Head(queue[p]) IN
       /\ Accepts(db, s) => "refused" \in Faults
       /\ IF s.ign
          THEN /\ queue' = [queue EXCEPT ![p] = Tail(@)]
               /\ IF Len(queue[p]) = 1 THEN EndOp(p) ELSE UNCHANGED vars
          ELSE Refused(p) /\ queue' = [queue EXCEPT ![p] = <<>>]
    /\ UNCHANGED <<db, st>>

\* recordApplied and unrecordApplied take effect ...
WriteRecord(p, reply) ==
    /\ reply = "lost" => "lost" \in Faults
    /\ Record(p, reply) \/ Unrecord(p, reply)
    /\ UNCHANGED dataVars

\* ... or one of the statements on django_migrations is refused.
BookkeepingRefused(p) ==
    /\ pc[p] # "run"
    /\ \/ "refused" \in Faults
       \/ pc[p] = "record" /\ table = "indexed" /\ rows[cur[p]] > 0
    /\ Refused(p)
    /\ UNCHANGED dataVars

Local(p) == (ReadApplied(p) \/ SkipApplied(p) \/ FinishApplyAll(p) \/ OpsDone(p)) /\ UNCHANGED dataVars

Leave(p) ==
    /\ Return(p)
    /\ st' = [st EXCEPT ![p] = NewProjectState(@.heap)]
    /\ UNCHANGED <<db, queue>>

\* The process ends, by a crash or between two calls, and another takes its place.
Restart(p) ==
    /\ \/ "crash" \in Faults /\ Crash(p)
       \/ pc[p] = "idle" /\ UNCHANGED vars
    /\ st' = [st EXCEPT ![p] = Fresh0]
    /\ queue' = [queue EXCEPT ![p] = <<>>]
    /\ UNCHANGED db

Work(p) ==
    \/ \E reply \in Replies : Ensure(p, reply) \/ Execute(p, reply) \/ WriteRecord(p, reply)
    \/ BeginMigration(p)
    \/ BeginOp(p)
    \/ Reject(p)
    \/ BookkeepingRefused(p)
    \/ Local(p)
    \/ Leave(p)

Enter(p) == Start(p) /\ UNCHANGED dataVars

SchemaNext == \E p \in Migrators : Enter(p) \/ Work(p) \/ Restart(p)

SchemaSpec == SchemaInit /\ [][SchemaNext]_allVars

\* Every process keeps going: it carries on with its call or enters the next.
\* (One of the two is always possible, so this is weak fairness of their
\* disjunction, in a form that spares TLC the evaluation of ENABLED.)
FairSchemaSpec ==
    SchemaSpec /\ \A p \in Migrators : []<><<Enter(p) \/ Work(p)>>_allVars
-----------------------------------------------------------------------------
(* A rehearsal r of the migrations by a process that does not fail:        *)
(*   script          the statements of all migrations, one after another   *)
(*   starts[m][o]    how many of them come before operation o + 1 of m     *)
(*   states[m][o]    the project state the process then has                *)
(*   dbs[n]          the databases in which the first n statements have    *)
(*                   taken effect, some of them more than once             *)

Places(m) == 0 .. NumOps[m]
Begin(r, m) == IF m > Last THEN Len(r.script) ELSE r.starts[m][0]

\* The project state after the first k migrations, in a fresh process.
Intended(k) == StateBefore(PristineHeap(Migrations), Migrations, k + 1)

\* The migrations and their operations follow each other in the script.
InOrder(r) ==
    /\ r.script \in Seq({r.script[i] : i \in DOMAIN r.script})
    /\ Begin(r, 1) = 0
    /\ \A m \in Mig : r.starts[m][NumOps[m]] = Begin(r, m + 1)
    /\ \A m, k \in Mig : \A o \in Places(m), i \in Places(k) :
          /\ r.starts[m][o] \in 0 .. Len(r.script)
          /\ m < k \/ (m = k /\ o <= i) => r.starts[m][o] <= r.starts[k][i]

\* No operation fails or changes the arrays of another one, and what it sends
\* is its part of the script.
KeepsToScript(r) ==
    \A m \in Mig :
        /\ r.states[m][0] = Intended(m - 1)
        /\ \A o \in Places(m) : r.states[m][o].heap = PristineHeap(Migrations)
        /\ \A o \in Places(m) \ {NumOps[m]} :
              LET operation == Migrations[m][o + 1]
                  after == r.states[m][o + 1]
              IN /\ StateForwards(r.states[m][o], operation) = Ok(after)
                 /\ Statements(after, operation) = SubSeq(r.script, r.starts[m][o] + 1, r.starts[m][o + 1])

\* A statement that is sent once more is refused or leaves a database that is as
\* far as before, and no error is ignored.  Where a migration begins the database
\* is the one that the migrations before it describe.
OncePerStatement(r) ==
    /\ EmptyDB \in r.dbs[0]
    /\ \A n \in 0 .. Len(r.script), i \in 1 .. Len(r.script) : \A d \in r.dbs[n] :
          i <= n + 1 /\ Accepts(d, r.script[i]) => Effect(d, r.script[i]) \in r.dbs[IF i = n + 1 THEN i ELSE n]
    /\ \A i \in 1 .. Len(r.script) : ~r.script[i].ign
    /\ \A m \in 1 .. Last + 1 : \A d \in r.dbs[Begin(r, m)] :
          ActualSchema(d) = ExpectedSchema(Intended(m - 1))

Rehearsed(r) == InOrder(r) /\ KeepsToScript(r) /\ OncePerStatement(r)

\* The database takes the script when nothing goes wrong.
Plays(r) == \A n \in 1 .. Len(r.script) : \A d \in r.dbs[n - 1] : Accepts(d, r.script[n])
-----------------------------------------------------------------------------
(* Properties.                                                             *)

\* Outside a half-done migration the database has exactly the tables, columns,
\* keys and indexes that the recorded migrations describe.
SchemaMatchesRecords ==
    touched \subseteq Recorded =>
        \E k \in 0 .. Last :
            /\ Recorded = 1 .. k
            /\ ActualSchema(db) = ExpectedSchema(Intended(k))

\* Without crashes and outside faults, processes that race each other may fail,
\* but when the last of them is done no migration is left half-applied.
RaceLeavesNoDamage ==
    (\A p \in Migrators : pc[p] \in {"idle", "succeeded", "failed"}) => touched \subseteq Recorded

\* Without crashes and outside faults, calling ApplyAll again and again gets
\* all migrations recorded and the schema that the models ask for.
EventuallyMigrated ==
    <>(Recorded = Mig /\ ActualSchema(db) = ExpectedSchema(Intended(Last)))
=============================================================================
