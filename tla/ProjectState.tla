---------------------------- MODULE ProjectState ----------------------------
(***************************************************************************)
(* The in-memory side of a migration: migrations/state.go and the          *)
(* StateForwards and StateBackwards methods of migrations/operations.go,   *)
(* as pure operators.                                                      *)
(*                                                                         *)
(* The value that matters is the Go slice.  CreateModel.StateForwards puts *)
(* the slices of the operation itself into the model state, so what later  *)
(* operations do to the model state (remove in place, append into spare    *)
(* room, overwrite) is done to the arrays of the registered operation.  A  *)
(* project state is therefore a pair: the arrays of the CreateModel        *)
(* operations of this process (heap), and the models, whose slices are     *)
(* either windows on one of these arrays or own their elements.            *)
(*                                                                         *)
(* Fields are [name, db, type, pk, null, uniq, dflt] (db: WithDBColumn or  *)
(* none; more than these in Autodetector), indexes [name, fields, unique]  *)
(* and constraints [name, cols] (no cols: a check).  Types are column      *)
(* types as InferDBType gives them, "m2m" for many-to-many.  Managers, the *)
(* primary key's name and the wording of errors are left out.              *)
(***************************************************************************)
EXTENDS Naturals, Sequences, TLC
LOCAL INSTANCE SequencesExt
LOCAL INSTANCE FiniteSetsExt

None == ""        \* Go's empty string: no name, no column, no default, no SQL

Kinds == {"fields", "indexes", "constraints"}

Ok(st) == [ok |-> TRUE, st |-> st]
Fail(st) == [ok |-> FALSE, st |-> st]
-----------------------------------------------------------------------------
(* Slices.                                                                 *)

Own(seq) == [op |-> 0, len |-> Len(seq), own |-> seq]

\* The slice of operation o as its own header describes it.
WholeOf(o, kind) == [op |-> o.id, len |-> Len(o[kind]), own |-> <<>>]

Contents(st, slice, kind) ==
    IF slice.op = 0 THEN slice.own
    ELSE SubSeq(st.heap[slice.op][kind], 1, slice.len)

Elements(st, model, kind) == Contents(st, st.models[model][kind], kind)

\* Position of the first element with this name, or 0.
IndexOf(seq, name) == SelectInSeq(seq, LAMBDA x : x.name = name)

\* f with the value at key put or replaced.
Put(f, key, value) == (key :> value) @@ f

SetSlice(st, model, kind, slice) ==
    [st EXCEPT !.models = Put(@, model, [st.models[model] EXCEPT ![kind] = slice])]

SetArray(st, id, kind, array) ==
    [st EXCEPT !.heap = Put(@, id, [st.heap[id] EXCEPT ![kind] = array])]

\* append(s, x): into the array if it has room, else into a new array.
AddTo(st, model, kind, x) ==
    LET s == st.models[model][kind]
        array == st.heap[s.op][kind]
    IN IF s.op # 0 /\ s.len < Len(array)
       THEN SetSlice(SetArray(st, s.op, kind, [array EXCEPT ![s.len + 1] = x]),
                     model, kind, [s EXCEPT !.len = @ + 1])
       ELSE SetSlice(st, model, kind, Own(Append(Contents(st, s, kind), x)))

\* append(s[:i], s[i+1:]...): the elements after i move down in the array,
\* which keeps its length: what was last is now there twice.
RemoveFrom(st, model, kind, name) ==
    LET s == st.models[model][kind]
        all == Contents(st, s, kind)
        i == IndexOf(all, name)
        array == st.heap[s.op][kind]
    IN CASE i = 0 -> st
         [] i # 0 /\ s.op = 0 -> SetSlice(st, model, kind, Own(RemoveAt(all, i)))
         [] i # 0 /\ s.op # 0 ->
               SetSlice(SetArray(st, s.op, kind, RemoveAt(all, i) \o SubSeq(array, s.len, Len(array))),
                        model, kind, [s EXCEPT !.len = @ - 1])

\* s[i] = x for the first element with this name.
ReplaceIn(st, model, kind, name, x) ==
    LET s == st.models[model][kind]
        all == Contents(st, s, kind)
        i == IndexOf(all, name)
    IN CASE i = 0 -> st
         [] i # 0 /\ s.op = 0 -> SetSlice(st, model, kind, Own(ReplaceAt(all, i, x)))
         [] i # 0 /\ s.op # 0 ->
               SetArray(st, s.op, kind, ReplaceAt(st.heap[s.op][kind], i, x))
-----------------------------------------------------------------------------
(* Operations.  An operation is a record with its kind; a CreateModel has  *)
(* an id of its own, and every table name is the one tableNameFor gives.   *)

Without(models, model) == [k \in DOMAIN models \ {model} |-> models[k]]

NewModel(o) == [table |-> o.table,
                options |-> o.options,
                fields |-> WholeOf(o, "fields"),
                indexes |-> WholeOf(o, "indexes"),
                constraints |-> WholeOf(o, "constraints")]

\* Mutant of RenameFieldIn: the field is looked up under its new name.
RenameFieldSwapped(st, o) ==
    LET all == Elements(st, o.model, "fields")
        i == IndexOf(all, o.to)
    IN IF i = 0 THEN Fail(st)
       ELSE Ok(AddTo(RemoveFrom(st, o.model, "fields", o.from),
                     o.model, "fields", [all[i] EXCEPT !.name = o.to]))

RenameFieldIn(st, o) ==
    LET all == Elements(st, o.model, "fields")
        i == IndexOf(all, o.from)
    IN IF i = 0 THEN Fail(st)
       ELSE Ok(AddTo(RemoveFrom(st, o.model, "fields", o.from),
                     o.model, "fields", [all[i] EXCEPT !.name = o.to]))

\* StateForwards of every kind but SeparateDatabaseAndState.
SimpleForwards(st, o) ==
    CASE o.kind \in {"RunSQL", "RunPython"} -> Ok(st)
      [] o.kind = "Irreversible" -> Fail(st)
      [] o.kind = "CreateModel" ->
            IF o.model \in DOMAIN st.models THEN Fail(st)
            ELSE Ok([st EXCEPT !.models = Put(@, o.model, NewModel(o))])
      [] o.kind = "RenameModel" ->
            IF o.from \notin DOMAIN st.models THEN Fail(st)
            ELSE Ok([st EXCEPT !.models =
                        Put(Without(@, o.from), o.to, [@[o.from] EXCEPT !.table = o.toTable])])
      [] OTHER ->
            CASE o.model \notin DOMAIN st.models -> Fail(st)
              [] o.model \in DOMAIN st.models ->
                 CASE o.kind = "DeleteModel" -> Ok([st EXCEPT !.models = Without(@, o.model)])
                   [] o.kind = "AddField" -> Ok(AddTo(st, o.model, "fields", o.field))
                   [] o.kind = "RemoveField" -> Ok(RemoveFrom(st, o.model, "fields", o.field.name))
                   [] o.kind = "AlterField" -> Ok(ReplaceIn(st, o.model, "fields", o.from.name, o.to))
                   [] o.kind = "RenameField" -> RenameFieldIn(st, o)
                   [] o.kind = "AddIndex" -> Ok(AddTo(st, o.model, "indexes", o.index))
                   [] o.kind = "RemoveIndex" -> Ok(RemoveFrom(st, o.model, "indexes", o.index.name))
                   [] o.kind = "AddConstraint" -> Ok(AddTo(st, o.model, "constraints", o.constraint))
                   [] o.kind = "RemoveConstraint" ->
                         Ok(RemoveFrom(st, o.model, "constraints", o.constraint.name))
                   [] o.kind = "AlterModelTable" -> Ok([st EXCEPT !.models = Put(@, o.model, [@[o.model] EXCEPT !.table = o.to])])
                   [] o.kind = "AlterModelOptions" -> Ok([st EXCEPT !.models = Put(@, o.model, [@[o.model] EXCEPT !.options = o.to])])

\* Operations one after the other, up to the first error.
SomeForwards(st, ops) ==
    FoldLeft(LAMBDA r, o : IF r.ok THEN SimpleForwards(r.st, o) ELSE r, Ok(st), ops)

StateForwards(st, o) ==
    IF o.kind = "SeparateDatabaseAndState" THEN SomeForwards(st, o.state)
    ELSE SimpleForwards(st, o)

\* The operation whose forward methods do what o's backward methods do.
SimpleReversed(o) ==
    CASE o.kind = "CreateModel" -> [kind |-> "DeleteModel", model |-> o.model, table |-> o.table]
      [] o.kind = "DeleteModel" -> [kind |-> "Irreversible"]
      [] o.kind = "AddField" -> [o EXCEPT !.kind = "RemoveField"]
      [] o.kind = "RemoveField" -> [o EXCEPT !.kind = "AddField"]
      [] o.kind = "AddIndex" -> [o EXCEPT !.kind = "RemoveIndex"]
      [] o.kind = "RemoveIndex" -> [o EXCEPT !.kind = "AddIndex"]
      [] o.kind = "AddConstraint" -> [o EXCEPT !.kind = "RemoveConstraint"]
      [] o.kind = "RemoveConstraint" -> [o EXCEPT !.kind = "AddConstraint"]
      [] o.kind \in {"AlterField", "RenameField", "AlterModelTable", "AlterModelOptions"} ->
            [o EXCEPT !.from = o.to, !.to = o.from]
      [] o.kind = "RenameModel" ->
            [o EXCEPT !.from = o.to, !.to = o.from, !.fromTable = o.toTable, !.toTable = o.fromTable]
      \* no reverse function, no reverse SQL: both are an error of DatabaseBackwards
      [] o.kind = "RunPython" -> [o EXCEPT !.code = o.reverse, !.reverse = o.code]
      [] o.kind = "RunSQL" -> IF o.reverse = None
                              THEN [kind |-> "RunPython", code |-> None, reverse |-> None]
                              ELSE [o EXCEPT !.sql = o.reverse, !.reverse = o.sql]

Reversed(o) ==
    IF o.kind = "SeparateDatabaseAndState"
    THEN LET back(ops) == [i \in DOMAIN ops |-> SimpleReversed(ops[Len(ops) + 1 - i])]
         IN [o EXCEPT !.state = back(@), !.database = back(@)]
    ELSE SimpleReversed(o)

StateBackwards(st, o) == StateForwards(st, Reversed(o))
-----------------------------------------------------------------------------
(* Project states built from registered migrations.                        *)

\* (A SeparateDatabaseAndState does not contain another one here.)
CreateOps(migrations) ==
    LET ops == UNION {ToSet(migrations[m]) : m \in DOMAIN migrations}
        nested == UNION {ToSet(o.state) : o \in {s \in ops : s.kind = "SeparateDatabaseAndState"}}
    IN {o \in ops \union nested : o.kind = "CreateModel"}

\* The arrays as the init functions that register the migrations leave them.
PristineHeap(migrations) ==
    LET arrays(o) == [fields |-> o.fields, indexes |-> o.indexes, constraints |-> o.constraints]
    IN FoldSet(LAMBDA o, heap : Put(heap, o.id, arrays(o)), <<>>, CreateOps(migrations))

NewProjectState(heap) == [heap |-> heap, models |-> <<>>]

\* Mutant of StateBefore: the loop stops after the migration, not before it.
StateThrough(heap, migrations, m) ==
    FoldLeft(LAMBDA st, o : StateForwards(st, o).st,
             NewProjectState(heap),
             FlattenSeq([i \in 1 .. m |-> migrations[i]]))

\* BuildProjectStateForAppBefore(m): an operation that fails is only logged,
\* with what it did before it failed left in place.
StateBefore(heap, migrations, m) ==
    FoldLeft(LAMBDA st, o : StateForwards(st, o).st,
             NewProjectState(heap),
             FlattenSeq([i \in 1 .. m - 1 |-> migrations[i]]))
=============================================================================
