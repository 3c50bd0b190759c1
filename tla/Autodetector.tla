---------------------------- MODULE Autodetector ----------------------------
(***************************************************************************)
(* The workflow of a developer: edit the models, makemigrations, migrate.  *)
(* makemigrations compares the state that the registered migrations build  *)
(* (migrations/autodetector.go) with the declared models and writes a new  *)
(* migration; migrate sends the statements of the migrations that have not *)
(* been applied.  Each command is a process of its own, so it starts with  *)
(* the operations as the files have them, which is not always as they were *)
(* detected: migrations/writer.go cannot write everything.                 *)
(*                                                                         *)
(* Fields have two more attributes here, pk for PrimaryKey and rel for the *)
(* OnDelete and DBIndex of a foreign key, which its constructor sets and   *)
(* the tags of a struct do not.                                            *)
(*                                                                         *)
(* The autodetector walks Go maps, whose order is not defined: Detect is   *)
(* the set of the operation sequences it may return.  Here migrate runs    *)
(* alone and nothing is refused for a reason outside this model: what      *)
(* races, crashes and faults do to it is the subject of SchemaMigration.   *)
(***************************************************************************)
EXTENDS PostgresSchema
LOCAL INSTANCE SequencesExt

CONSTANTS
    Declarations,     \* the sets of models the developer may declare
    MaxMigrations     \* bound on the number of migrations written

VARIABLES
    declared,     \* declared[model]: table, options, fields, indexes, constraints
    history,      \* the migrations in the files, each a sequence of operations
    applied,      \* how many of them are recorded as applied
    db,           \* the database
    broken,       \* a migrate failed in the middle of a migration
    seen          \* history: the declarations the last makemigrations saw

vars == <<declared, history, applied, db, broken, seen>>
-----------------------------------------------------------------------------
(* The autodetector.                                                       *)

\* The sequences that walking a map with these values may give.
Walks(values) == SetToSeqs(values)

Concat(A, B) == {a \o b : a \in A, b \in B}

ConcatAll(sets) == FoldLeft(Concat, {<<>>}, sets)

ByName(seq) == [n \in {x.name : x \in ToSet(seq)} |-> CHOOSE x \in ToSet(seq) : x.name = n]
NamedOnly(seq) == ByName(SelectSeq(seq, LAMBDA x : x.name # None))

\* Same table, as many fields, indexes and constraints, and the same fields
\* (fieldDiffer looks at all their attributes): the content of indexes,
\* constraints and options is not looked at.
modelsDiffer(before, after) ==
    \/ before.table # after.table
    \/ \E kind \in Kinds : Len(before[kind]) # Len(after[kind])
    \/ ByName(before.fields) # ByName(after.fields)

\* Mutants of diffModelFields: removed fields are forgotten; an AlterField has
\* the old and the new field swapped.
NoRemovedFields(model, before, after) ==
    LET old == ByName(before.fields)
        new == ByName(after.fields)
        added == {[kind |-> "AddField", model |-> model, field |-> new[n]] :
                     n \in DOMAIN new \ DOMAIN old}
        altered == {[kind |-> "AlterField", model |-> model, from |-> old[n], to |-> new[n]] :
                       n \in {x \in DOMAIN new \cap DOMAIN old : old[x] # new[x]}}
    IN Walks(added \union altered)

SwappedFields(model, before, after) ==
    LET old == ByName(before.fields)
        new == ByName(after.fields)
        altered == {[kind |-> "AlterField", model |-> model, from |-> new[n], to |-> old[n]] :
                       n \in {x \in DOMAIN new \cap DOMAIN old : old[x] # new[x]}}
    IN Walks(altered)

diffModelFields(model, before, after) ==
    LET old == ByName(before.fields)
        new == ByName(after.fields)
        added == {[kind |-> "AddField", model |-> model, field |-> new[n]] :
                     n \in DOMAIN new \ DOMAIN old}
        altered == {[kind |-> "AlterField", model |-> model, from |-> old[n], to |-> new[n]] :
                       n \in {x \in DOMAIN new \cap DOMAIN old : old[x] # new[x]}}
        removed == {[kind |-> "RemoveField", model |-> model, field |-> old[n]] :
                       n \in DOMAIN old \ DOMAIN new}
    IN Concat(Walks(added \union altered), Walks(removed))

\* Indexes and constraints (part): a changed one is removed and added; one
\* without a name is not seen.
diffNamed(model, old, new, add, remove, part) ==
    LET op(kind, x) == (part :> x) @@ [kind |-> kind, model |-> model]
        added == {<<op(add, new[n])>> : n \in DOMAIN new \ DOMAIN old}
        altered == {<<op(remove, old[n]), op(add, new[n])>> :
                       n \in {x \in DOMAIN new \cap DOMAIN old : old[x] # new[x]}}
        removed == {<<op(remove, old[n])>> : n \in DOMAIN old \ DOMAIN new}
    IN {FlattenSeq(w) : w \in Concat(Walks(added \union altered), Walks(removed))}

diffModelIndexes(model, before, after) ==
    diffNamed(model, NamedOnly(before.indexes), NamedOnly(after.indexes),
              "AddIndex", "RemoveIndex", "index")

diffModelConstraints(model, before, after) ==
    diffNamed(model, NamedOnly(before.constraints), NamedOnly(after.constraints),
              "AddConstraint", "RemoveConstraint", "constraint")

diffModelOptions(model, before, after) ==
    LET when(condition, o) == IF condition THEN <<o>> ELSE <<>> IN
    when(before.table # after.table,
         [kind |-> "AlterModelTable", model |-> model, from |-> before.table, to |-> after.table])
    \o when(before.options # after.options,
            [kind |-> "AlterModelOptions", model |-> model, from |-> before.options, to |-> after.options])

\* Mutant of diffModel: the constraints come before the fields.
ConstraintsFirst(model, before, after) ==
    ConcatAll(<<diffModelConstraints(model, before, after),
                diffModelFields(model, before, after),
                diffModelIndexes(model, before, after),
                {diffModelOptions(model, before, after)}>>)

diffModel(model, before, after) ==
    ConcatAll(<<diffModelFields(model, before, after),
                diffModelIndexes(model, before, after),
                diffModelConstraints(model, before, after),
                {diffModelOptions(model, before, after)}>>)

\* CreateModel for every new model, DeleteModel for every one that is gone,
\* then the differences of each changed model.
Detect(before, after) ==
    LET create(m) == after[m] @@ [kind |-> "CreateModel", model |-> m]
        delete(m) == [kind |-> "DeleteModel", model |-> m, table |-> before[m].table]
        changed == {m \in DOMAIN before \cap DOMAIN after : modelsDiffer(before[m], after[m])}
        changes(walk) == ConcatAll([i \in DOMAIN walk |-> diffModel(walk[i], before[walk[i]], after[walk[i]])])
    IN ConcatAll(<<Walks({create(m) : m \in DOMAIN after \ DOMAIN before}),
                   Walks({delete(m) : m \in DOMAIN before \ DOMAIN after}),
                   UNION {changes(walk) : walk \in Walks(changed)}>>)
-----------------------------------------------------------------------------
(* The file: operations as the process that loads it has them.             *)

\* The types of automatic keys, and all others that have a constructor in a file.
AutoTypes == {"serial", "bigserial"}
WrittenTypes == {"varchar", "text", "uuid", "integer", "bigint", "smallint", "real", "double", "numeric",
                 "boolean", "date", "timestamptz", "jsonb", "fk", "m2m"}

\* Mutant of generateFieldCode: an automatic key keeps its column.
KeyWithColumn(f) ==
    IF f.type \in AutoTypes
    THEN [f EXCEPT !.pk = TRUE, !.null = FALSE, !.uniq = FALSE, !.dflt = None]
    ELSE [f EXCEPT !.type = IF @ \in WrittenTypes THEN @ ELSE "text", !.pk = FALSE,
                   !.rel = IF f.type = "fk" /\ @ = None THEN "cascade" ELSE @]

\* An automatic key has a name and nothing else, any other type is text, a primary
\* key of another type is none, and the constructor of a foreign key adds its own.
generateFieldCode(f) ==
    IF f.type \in AutoTypes
    THEN [f EXCEPT !.db = None, !.pk = TRUE, !.null = FALSE, !.uniq = FALSE, !.dflt = None]
    ELSE [f EXCEPT !.type = IF @ \in WrittenTypes THEN @ ELSE "text", !.pk = FALSE,
                   !.rel = IF f.type = "fk" /\ @ = None THEN "cascade" ELSE @]

\* Options are never written.  (Detect finds no operation that has no code at all.)
generateOperationCode(o) ==
    CASE o.kind = "CreateModel" ->
            [o EXCEPT !.options = None, !.fields = [i \in DOMAIN o.fields |-> generateFieldCode(o.fields[i])]]
      [] o.kind \in {"AddField", "RemoveField"} -> [o EXCEPT !.field = generateFieldCode(@)]
      [] o.kind = "AlterField" -> [o EXCEPT !.from = generateFieldCode(@), !.to = generateFieldCode(@)]
      [] o.kind = "AlterModelOptions" -> [o EXCEPT !.from = None, !.to = None]
      [] OTHER -> o

\* Loaded from a file, a CreateModel has arrays of its own (id).
GenerateMigrationCode(ops, m) ==
    [i \in DOMAIN ops |->
        LET code == generateOperationCode(ops[i])
        IN IF code.kind = "CreateModel" THEN [id |-> 10 * m + i] @@ code ELSE code]
-----------------------------------------------------------------------------
(* The commands.                                                           *)

\* The models of a project state, and a project state with these models.
ModelsOf(st) == [m \in DOMAIN st.models |->
                    [kind \in Kinds |-> Elements(st, m, kind)]
                    @@ [table |-> st.models[m].table, options |-> st.models[m].options]]

\* normalizeModelColumns: every field of a registered model has a column.
normalizeModelColumns(fields) == [i \in DOMAIN fields |-> [fields[i] EXCEPT !.db = ColumnName(fields[i])]]

Registered(models) == [m \in DOMAIN models |-> [models[m] EXCEPT !.fields = normalizeModelColumns(@)]]

StateOf(models) == [heap |-> <<>>,
                    models |-> [m \in DOMAIN models |->
                        [kind \in Kinds |-> Own(models[m][kind])]
                        @@ [table |-> models[m].table, options |-> models[m].options]]]

\* What a fresh process builds from the first k migrations.
StateAfter(k) == StateBefore(PristineHeap(history), history, k + 1)

Init ==
    /\ declared = <<>>
    /\ history = <<>>
    /\ applied = 0
    /\ db = EmptyDB
    /\ broken = FALSE
    /\ seen = <<>>

Edit(models) ==
    /\ Registered(models) # declared
    /\ declared' = Registered(models)
    /\ UNCHANGED <<history, applied, db, broken, seen>>

\* What makemigrations would write now, before it is written.
Detected == Detect(ModelsOf(StateAfter(Len(history))), declared)

MakeMigrations ==
    /\ Len(history) < MaxMigrations
    /\ \E ops \in Detected :
          history' = IF ops = <<>> THEN history ELSE Append(history, GenerateMigrationCode(ops, Len(history) + 1))
    /\ seen' = declared
    /\ UNCHANGED <<declared, applied, db, broken>>

\* A statement and then an operation of applyOne, unless something failed before.
Send(r, s) ==
    IF r.ok /\ Accepts(r.db, s) THEN [r EXCEPT !.db = Effect(@, s)]
    ELSE [r EXCEPT !.ok = @ /\ s.ign]

Perform(r, o) ==
    LET forwards == StateForwards(r.st, o) IN
    IF r.ok /\ forwards.ok THEN FoldLeft(Send, [r EXCEPT !.st = forwards.st], Statements(forwards.st, o))
    ELSE [r EXCEPT !.ok = FALSE]

\* ApplyAll as far as the next migration: a failure leaves what was done.
Migrate ==
    /\ applied < Len(history)
    /\ ~broken
    /\ LET r == FoldLeft(Perform, [ok |-> TRUE, st |-> StateAfter(applied), db |-> db], history[applied + 1])
       IN /\ db' = r.db
          /\ broken' = ~r.ok
          /\ applied' = IF r.ok THEN applied + 1 ELSE applied
    /\ UNCHANGED <<declared, history, seen>>

Next ==
    \/ \E models \in Declarations : Edit(models)
    \/ MakeMigrations
    \/ Migrate

Spec == Init /\ [][Next]_vars
-----------------------------------------------------------------------------
(* Properties.                                                             *)

\* makemigrations never comes to rest: what it finds again, with no edit since the
\* last one, is the automatic keys and the foreign keys that the file has changed.
\* But those are operations that send nothing: a file that was not needed does not
\* touch the database, and what the first one has written is complete, in whatever
\* order the maps were walked (autodetector.go:161-242, writer.go:290-372).
RepeatsSendNothing ==
    seen = declared =>
        \A ops \in Detected : \A i \in DOMAIN ops :
            Statements(StateAfter(Len(history)), generateOperationCode(ops[i])) = <<>>

\* What makemigrations has looked at is in the files: the migrations that are loaded
\* from them describe the tables, columns, keys and indexes of the declared models.
\* modelsDiffer counts indexes and does not compare them (autodetector.go:127): that
\* one becomes UNIQUE is found because a key differs every time.
ChangesAreWritten ==
    seen = declared =>
        ExpectedSchema(StateAfter(Len(history))) = ExpectedSchema(StateOf(declared))

\* What makemigrations writes, migrate can run.
NothingBreaks == ~broken

\* The columns that a migration of the model says are no longer UNIQUE.
NoLongerUnique(model) ==
    {<<ColumnName(o.to)>> : o \in
        {x \in UNION {ToSet(m) : m \in ToSet(history)} :
            x.kind = "AlterField" /\ x.model = model /\ x.from.uniq /\ ~x.to.uniq}}

\* When makemigrations has looked at the declared models and migrate has applied
\* what it wrote, the database is the declared one (cli.go:73), except that a column
\* which is no longer UNIQUE may still be: AlterColumn drops a constraint by a name
\* that it need not have, and ignores the error (schema_editor.go:216-221).
DatabaseIsDeclared ==
    LET actual == ActualSchema(db)
        expected == ExpectedSchema(StateOf(declared))
    IN seen = declared /\ applied = Len(history) /\ ~broken =>
          /\ DOMAIN actual = DOMAIN expected
          /\ \A m \in DOMAIN declared :
                LET has == actual[declared[m].table]
                    wants == expected[declared[m].table]
                IN /\ [has EXCEPT !.keys = wants.keys] = wants
                   /\ wants.keys \subseteq has.keys
                   /\ has.keys \ wants.keys \subseteq NoLongerUnique(m)
=============================================================================
