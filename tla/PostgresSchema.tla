--------------------------- MODULE PostgresSchema ---------------------------
(***************************************************************************)
(* The database side of a migration: the statements that                   *)
(* migrations/schema_editor.go and the DatabaseForwards methods of         *)
(* migrations/operations.go send, and what PostgreSQL does with each       *)
(* (external: it is modelled as far as those statements go).               *)
(*                                                                         *)
(* An operation gives a sequence of statements.  Each commits by itself    *)
(* (the editor's beginTx is never called).  A statement with ign is one    *)
(* whose error the code ignores; "Error" stands for an error that the code *)
(* returns without sending anything, "Call" for a call of a RunPython      *)
(* function.                                                               *)
(*                                                                         *)
(* A database is [tables, indexes, ran]: per table its columns and its     *)
(* UNIQUE and CHECK constraints by name, the indexes by name, and the      *)
(* RunSQL texts and RunPython functions with the times they ran (up to     *)
(* MaxRuns).  Rows are left out: what they decide (a NULL that forbids SET *)
(* NOT NULL) is a statement refused for no reason visible here.            *)
(***************************************************************************)
EXTENDS ProjectState
LOCAL INSTANCE SequencesExt

CONSTANTS
    SnakeCase,     \* GoFieldToDBColumn as a function on the names in use
    WithId         \* the same with "_id", for foreign keys

MaxRuns == 2

\* A name given in the program, and the names that code or server make up.
Named(name) == <<name>>
MadeUp(table, cols, suffix) == <<table, cols, suffix>>

ColumnName(f) ==
    CASE f.db # None -> f.db
      [] f.db = None /\ f.type = "fk" -> WithId[f.name]
      [] f.db = None /\ f.type # "fk" -> SnakeCase[f.name]
-----------------------------------------------------------------------------
(* Statements.                                                             *)

\* The type, PRIMARY KEY, NULL, DEFAULT and UNIQUE of a column definition; a
\* primary key is NOT NULL and UNIQUE without saying so.
ColumnDef(f) == [col |-> ColumnName(f), type |-> f.type, pk |-> f.pk, null |-> f.null /\ ~f.pk,
                 dflt |-> f.dflt, uniq |-> f.uniq /\ ~f.pk]

\* buildConstraintDDL: an unnamed check has no name at all.
ConstraintDDL(c, table) ==
    [cols |-> c.cols,
     name |-> CASE c.name # None -> Named(c.name)
                [] c.name = None /\ c.cols # <<>> -> MadeUp(table, c.cols, "uniq")
                [] c.name = None /\ c.cols = <<>> -> <<>>]

CreateIndex(table, index) == [kind |-> "CreateIndex", ign |-> FALSE, table |-> table, index |-> index]

CreateModelStatements(table, fields, indexes, constraints) ==
    LET columns == SelectSeq(fields, LAMBDA f : f.type # "m2m") IN
    <<[kind |-> "CreateTable", ign |-> FALSE, table |-> table,
       cols |-> [i \in DOMAIN columns |-> ColumnDef(columns[i])],
       cons |-> [i \in DOMAIN constraints |-> ConstraintDDL(constraints[i], table)]]>>
    \o [i \in DOMAIN indexes |-> CreateIndex(table, indexes[i])]

\* Mutant of AlterColumnStatements: only the type is altered.
AlterTypeOnly(table, old, new) ==
    IF old.type = new.type /\ old.null = new.null THEN <<>>
    ELSE <<[kind |-> "AlterType", ign |-> FALSE, table |-> table, col |-> ColumnName(new), value |-> new.type]>>

\* AlterColumn: up to four statements, on the column the new field has.
AlterColumnStatements(table, old, new) ==
    LET col == ColumnName(new)
        alter(kind, value) == [kind |-> kind, ign |-> FALSE, table |-> table, col |-> col, value |-> value]
        when(condition, statement) == IF condition THEN <<statement>> ELSE <<>>
        name == MadeUp(table, <<col>>, "uniq")
    IN when(old.type # new.type \/ old.null # new.null, alter("AlterType", new.type))
       \o when(old.null # new.null, alter("AlterNull", new.null))
       \o when(old.dflt # new.dflt, alter("AlterDefault", new.dflt))
       \o when(~old.uniq /\ new.uniq,
               [kind |-> "AddConstraint", ign |-> FALSE, table |-> table,
                con |-> [name |-> name, cols |-> <<col>>]])
       \o when(old.uniq /\ ~new.uniq,
               [kind |-> "DropConstraint", ign |-> TRUE, table |-> table, name |-> name, ifExists |-> FALSE])

RemoveIndexName(table, index) ==
    IF index.name # None THEN Named(index.name) ELSE MadeUp(table, index.fields, "idx")

\* DatabaseForwards of every kind but SeparateDatabaseAndState, with the
\* project state after the operation's StateForwards.
SimpleStatements(st, o) ==
    LET table == st.models[o.model].table
        stmt(kind) == [kind |-> kind, ign |-> FALSE]
    IN
    CASE o.kind = "RunSQL" -> IF o.sql = None THEN <<>> ELSE <<stmt("Run") @@ [what |-> o.sql]>>
      [] o.kind = "RunPython" -> IF o.code = None THEN <<stmt("Error")>>
                                 ELSE <<stmt("Call") @@ [what |-> o.code]>>
      [] o.kind = "DeleteModel" -> <<stmt("DropTable") @@ [table |-> o.table]>>
      [] o.kind = "AlterModelTable" -> <<stmt("RenameTable") @@ [from |-> o.from, to |-> o.to]>>
      [] o.kind = "RenameModel" -> <<stmt("RenameTable") @@ [from |-> o.fromTable, to |-> o.toTable]>>
      [] o.kind = "AlterModelOptions" -> <<>>
      [] OTHER ->
            CASE o.model \notin DOMAIN st.models -> <<stmt("Error")>>
              [] o.model \in DOMAIN st.models ->
                 CASE o.kind = "CreateModel" ->
                         CreateModelStatements(table, Elements(st, o.model, "fields"),
                             Elements(st, o.model, "indexes"), Elements(st, o.model, "constraints"))
                   [] o.kind = "AddField" ->
                         <<stmt("AddColumn") @@ [table |-> table, def |-> ColumnDef(o.field)]>>
                   [] o.kind = "RemoveField" ->
                         <<stmt("DropColumn") @@ [table |-> table, col |-> ColumnName(o.field)]>>
                   [] o.kind = "AlterField" -> AlterColumnStatements(table, o.from, o.to)
                   \* the names of the fields, not of their columns
                   [] o.kind = "RenameField" ->
                         <<stmt("RenameColumn") @@ [table |-> table, from |-> o.from, to |-> o.to]>>
                   [] o.kind = "AddIndex" -> <<CreateIndex(table, o.index)>>
                   [] o.kind = "RemoveIndex" ->
                         <<stmt("DropIndex") @@ [name |-> RemoveIndexName(table, o.index)]>>
                   [] o.kind = "AddConstraint" ->
                         <<stmt("AddConstraint") @@
                           [table |-> table, con |-> ConstraintDDL(o.constraint, table)]>>
                   [] o.kind = "RemoveConstraint" ->
                         IF o.constraint.name = None THEN <<>>
                         ELSE <<[kind |-> "DropConstraint", ign |-> FALSE, table |-> table,
                                 name |-> Named(o.constraint.name), ifExists |-> TRUE]>>

Statements(st, o) ==
    IF o.kind = "SeparateDatabaseAndState"
    THEN FlattenSeq([i \in DOMAIN o.database |-> SimpleStatements(st, o.database[i])])
    ELSE SimpleStatements(st, o)
-----------------------------------------------------------------------------
(* PostgreSQL.                                                             *)

EmptyDB == [tables |-> <<>>, indexes |-> <<>>, ran |-> <<>>]

Drop(f, keys) == [k \in DOMAIN f \ keys |-> f[k]]

Columns(db, table) == DOMAIN db.tables[table].cols

\* Tables, indexes and UNIQUE constraints share one space of names.
Relations(db) ==
    {Named(t) : t \in DOMAIN db.tables}
    \union DOMAIN db.indexes
    \union UNION {{n \in DOMAIN cons : cons[n] # <<>>} : cons \in {db.tables[t].cons : t \in DOMAIN db.tables}}

\* A constraint can be added to a table with these columns and constraints.
ConstraintFits(db, cols, cons, con) ==
    /\ con.name # <<>>
    /\ con.name \notin DOMAIN cons
    /\ con.cols # <<>> => con.name \notin Relations(db)
    /\ ToSet(con.cols) \subseteq cols

\* The name the server makes up; a taken one gets a number.
Fresh(db, name) == IF name \in Relations(db) THEN Append(name, 1) ELSE name

Column(def) == [type |-> def.type, pk |-> def.pk, null |-> def.null, dflt |-> def.dflt]

\* The constraints that the UNIQUE of column definitions stand for.
KeysOf(db, table, defs) ==
    LET name(d) == Fresh(db, MadeUp(table, <<d.col>>, "key"))
    IN [n \in {name(d) : d \in {x \in ToSet(defs) : x.uniq}} |-> n[2]]

Accepts(db, s) ==
    CASE s.kind = "CreateTable" ->
            LET names == {s.cols[i].col : i \in DOMAIN s.cols} IN
            /\ Named(s.table) \notin Relations(db)
            /\ \A i, j \in DOMAIN s.cols : s.cols[i].col = s.cols[j].col => i = j
            /\ \A i, j \in DOMAIN s.cols : s.cols[i].pk /\ s.cols[j].pk => i = j
            /\ \A i, j \in DOMAIN s.cons : s.cons[i].name = s.cons[j].name => i = j
            /\ \A i \in DOMAIN s.cons : ConstraintFits(db, names, <<>>, s.cons[i])
      [] s.kind \in {"DropTable", "DropIndex", "Run", "Call"} -> TRUE
      [] s.kind = "Error" -> FALSE
      [] s.kind = "RenameTable" -> s.from \in DOMAIN db.tables /\ Named(s.to) \notin Relations(db)
      [] OTHER ->
         /\ s.table \in DOMAIN db.tables
         /\ LET t == db.tables[s.table]
                cols == DOMAIN t.cols
            IN CASE s.kind = "AddColumn" -> /\ s.def.col \notin cols /\ s.def.type # "m2m"
                                            /\ s.def.pk => \A c \in cols : ~t.cols[c].pk
                 [] s.kind \in {"DropColumn", "AlterType", "AlterDefault"} -> s.col \in cols
                 [] s.kind = "AlterNull" -> s.col \in cols /\ ~(s.value /\ t.cols[s.col].pk)
                 [] s.kind = "RenameColumn" -> s.from \in cols /\ s.to \notin cols
                 [] s.kind = "AddConstraint" -> ConstraintFits(db, cols, t.cons, s.con)
                 [] s.kind = "DropConstraint" -> s.ifExists \/ s.name \in DOMAIN t.cons
                 [] s.kind = "CreateIndex" ->
                       /\ ToSet(s.index.fields) \subseteq cols
                       /\ s.index.name # None => Named(s.index.name) \notin Relations(db)

\* Effects on a table; the database drops what depends on a dropped column.
RenameIn(cols, from, to) == [i \in DOMAIN cols |-> IF cols[i] = from THEN to ELSE cols[i]]

Uses(cols, col) == col \in ToSet(cols)

NewTable(db, s) ==
    [cols |-> [c \in {d.col : d \in ToSet(s.cols)} |->
                  Column(CHOOSE d \in ToSet(s.cols) : d.col = c)],
     cons |-> KeysOf(db, s.table, s.cols) @@
              [n \in {c.name : c \in ToSet(s.cons)} |->
                  (CHOOSE c \in ToSet(s.cons) : c.name = n).cols]]

TableAfter(db, s) ==
    LET t == db.tables[s.table]
        alter(column) == [t EXCEPT !.cols = Put(@, s.col, column)]
    IN
    CASE s.kind = "AddColumn" -> [cols |-> Put(t.cols, s.def.col, Column(s.def)),
                                  cons |-> KeysOf(db, s.table, <<s.def>>) @@ t.cons]
      [] s.kind = "DropColumn" ->
            [cols |-> Drop(t.cols, {s.col}),
             cons |-> Drop(t.cons, {n \in DOMAIN t.cons : Uses(t.cons[n], s.col)})]
      [] s.kind = "RenameColumn" ->
            [cols |-> Put(Drop(t.cols, {s.from}), s.to, t.cols[s.from]),
             cons |-> [n \in DOMAIN t.cons |-> RenameIn(t.cons[n], s.from, s.to)]]
      [] s.kind = "AlterType" -> alter([t.cols[s.col] EXCEPT !.type = s.value])
      [] s.kind = "AlterNull" -> alter([t.cols[s.col] EXCEPT !.null = s.value])
      [] s.kind = "AlterDefault" -> alter([t.cols[s.col] EXCEPT !.dflt = s.value])
      [] s.kind = "AddConstraint" -> [t EXCEPT !.cons = Put(@, s.con.name, s.con.cols)]
      [] s.kind = "DropConstraint" -> [t EXCEPT !.cons = Drop(@, {s.name})]
      [] OTHER -> t

IndexesAfter(db, s) ==
    LET ix == db.indexes
        of(table) == {n \in DOMAIN ix : ix[n].table = table}
    IN CASE s.kind = "DropTable" -> Drop(ix, of(s.table))
         [] s.kind = "DropIndex" -> Drop(ix, {s.name})
         [] s.kind = "RenameTable" ->
               [n \in DOMAIN ix |-> IF n \in of(s.from) THEN [ix[n] EXCEPT !.table = s.to] ELSE ix[n]]
         [] s.kind = "DropColumn" -> Drop(ix, {n \in of(s.table) : Uses(ix[n].cols, s.col)})
         [] s.kind = "RenameColumn" ->
               [n \in DOMAIN ix |-> IF n \in of(s.table)
                                    THEN [ix[n] EXCEPT !.cols = RenameIn(@, s.from, s.to)] ELSE ix[n]]
         [] s.kind = "CreateIndex" ->
               Put(ix, IF s.index.name # None THEN Named(s.index.name)
                       ELSE Fresh(db, MadeUp(s.table, s.index.fields, "idx")),
                   [table |-> s.table, cols |-> s.index.fields, uniq |-> s.index.unique])
         [] OTHER -> ix

\* The database after a statement that it accepts.
Effect(db, s) ==
    [tables |-> CASE s.kind = "CreateTable" -> Put(db.tables, s.table, NewTable(db, s))
                  [] s.kind = "DropTable" -> Drop(db.tables, {s.table})
                  [] s.kind = "RenameTable" -> Put(Drop(db.tables, {s.from}), s.to, db.tables[s.from])
                  [] s.kind \in {"Run", "Call", "DropIndex"} -> db.tables
                  [] OTHER -> Put(db.tables, s.table, TableAfter(db, s)),
     indexes |-> IndexesAfter(db, s),
     ran |-> LET times == IF s.what \in DOMAIN db.ran THEN db.ran[s.what] ELSE 0
             IN IF s.kind \notin {"Run", "Call"} \/ times = MaxRuns THEN db.ran ELSE Put(db.ran, s.what, times + 1)]
-----------------------------------------------------------------------------
(* What the models ask for, to compare the database with: the schema that  *)
(* a reader of the models expects, without the names the server or the     *)
(* editor chose.                                                           *)

ExpectedTable(st, model) ==
    LET of(kind) == ToSet(Elements(st, model, kind))
        columns == {f \in of("fields") : f.type # "m2m"}
        col(name) == IF \E f \in columns : f.name = name
                     THEN ColumnName(CHOOSE f \in columns : f.name = name) ELSE name
        cols(names) == [i \in DOMAIN names |-> col(names[i])]
    IN [cols |-> [c \in {ColumnName(f) : f \in columns} |->
                     Column(ColumnDef(CHOOSE f \in columns : ColumnName(f) = c))],
        keys |-> {<<ColumnName(f)>> : f \in {x \in columns : x.uniq /\ ~x.pk}}
                 \union {cols(c.cols) : c \in {x \in of("constraints") : x.cols # <<>>}},
        indexes |-> {[cols |-> cols(x.fields), uniq |-> x.unique] : x \in of("indexes")}]

ExpectedSchema(st) ==
    [t \in {st.models[k].table : k \in DOMAIN st.models} |->
        ExpectedTable(st, CHOOSE k \in DOMAIN st.models : st.models[k].table = t)]

ActualSchema(db) ==
    [t \in DOMAIN db.tables |->
        [cols |-> db.tables[t].cols,
         keys |-> {c \in {db.tables[t].cons[n] : n \in DOMAIN db.tables[t].cons} : c # <<>>},
         indexes |-> {[cols |-> db.indexes[n].cols, uniq |-> db.indexes[n].uniq] :
                         n \in {x \in DOMAIN db.indexes : db.indexes[x].table = t}}]]
=============================================================================
