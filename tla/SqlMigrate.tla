----------------------------- MODULE SqlMigrate -----------------------------
(***************************************************************************)
(* The command sqlmigrate: Executor.GetMigrationSQL runs the operations of *)
(* one migration against a schema editor that keeps SQL texts instead of   *)
(* executing them (migrations/executor.go), in a process of its own.       *)
(***************************************************************************)
EXTENDS PostgresSchema
LOCAL INSTANCE SequencesExt

CONSTANT Migrations     \* Migrations[m]: the operations of migration m

VARIABLES
    db,          \* the database
    asked,       \* the migration last asked for, or 0
    printed      \* what was printed for it: statements, or one Error

vars == <<db, asked, printed>>

StateAt(m) == StateBefore(PristineHeap(Migrations), Migrations, m)

\* SQLLoggingEditor keeps what ExecuteSQL is given; every other method of it
\* returns nil.  What a RunPython does is not up to the editor.
Logged(statements) == SelectSeq(statements, LAMBDA s : s.kind = "Run")
Called(statements) == SelectSeq(statements, LAMBDA s : s.kind = "Call")
Fails(statements) == \E i \in DOMAIN statements : statements[i].kind = "Error"

\* generateOperationSQL and, after it, the loop body of GetMigrationSQL: the
\* state is taken forwards by both.
ShowOperation(r, o) ==
    LET once == StateForwards(r.st, o)
        statements == Statements(once.st, o)
        twice == StateForwards(once.st, o)
    IN IF ~r.ok \/ ~once.ok THEN [r EXCEPT !.ok = FALSE]
       ELSE [ok |-> ~Fails(statements) /\ twice.ok,
             st |-> twice.st,
             sql |-> r.sql \o Logged(statements),
             db |-> FoldLeft(Effect, r.db, Called(statements))]

GetMigrationSQL(m) ==
    LET r == FoldLeft(ShowOperation, [ok |-> TRUE, st |-> StateAt(m), sql |-> <<>>, db |-> db], Migrations[m])
    IN [sql |-> IF r.ok THEN r.sql ELSE <<[kind |-> "Error"]>>, db |-> r.db]

\* What applyOne executes for the same migration.
Executed(m) ==
    LET perform(r, o) == LET st == StateForwards(r.st, o).st
                         IN [st |-> st, sql |-> r.sql \o Statements(st, o)]
    IN SelectSeq(FoldLeft(perform, [st |-> StateAt(m), sql |-> <<>>], Migrations[m]).sql,
                 LAMBDA s : s.kind # "Call")

Init == db = EmptyDB /\ asked = 0 /\ printed = <<>>

RunSqlMigrate(m) ==
    /\ asked' = m
    /\ printed' = GetMigrationSQL(m).sql
    /\ db' = GetMigrationSQL(m).db

Next == \E m \in DOMAIN Migrations : RunSqlMigrate(m)

Spec == Init /\ [][Next]_vars
-----------------------------------------------------------------------------
(* Properties.                                                             *)

\* The command prints the statements that migrate would execute.
PrintsWhatIsExecuted == asked # 0 => printed = Executed(asked)
=============================================================================
