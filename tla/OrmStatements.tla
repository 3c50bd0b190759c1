---------------------------- MODULE OrmStatements ----------------------------
(***************************************************************************)
(* The statements of OrmClients: what SqlCompiler makes of a queryset and  *)
(* PgQuery of the text, and what they should do, said of the chain of      *)
(* calls that the queryset was made with.                                  *)
(***************************************************************************)
EXTENDS OrmClients, PgQuery

(* What the database replies.                                              *)

SelectResults(env, meta, qs, table) ==
    LET select == CompileSelect(env, meta, qs) IN
    IF Refused(select.sql, select.args) THEN {} ELSE Results(select.sql, select.args, table)

\* A reply: what became of the rows that a statement reaches.
Reply(frag, table, after) ==
    IF Refused(frag.sql, frag.args) THEN [refused |-> TRUE]
    ELSE [refused |-> FALSE, n |-> Cardinality(Reached(frag.sql, frag.args, table)), table |-> after]

CountReply(env, meta, qs, table) == Reply(CompileCount(env, meta, qs), table, table)

DeleteReply(env, meta, qs, table) ==
    LET delete == CompileDelete(env, meta, qs)
    IN  Reply(delete, table, table \ Reached(delete.sql, delete.args, table))

UpdateReply(env, meta, qs, values, table) ==
    LET update == CompileUpdate(env, meta, qs, values)
    IN  Reply(update, table, Updated(update.sql, update.args, table))

UpdateExprReply(env, meta, qs, updates, table) ==
    LET update == CompileUpdateExpr(env, meta, qs, updates)
    IN  Reply(update, table, Updated(update.sql, update.args, table))

\* The row of an INSERT: what the columns are given, the sequence for the key, and
\* NULL for the rest.
RowOf(meta, insert, next) ==
    LET given(col) == {i \in DOMAIN insert.sql.columns : insert.sql.columns[i] = col} IN
    [col \in {ConcreteFields(meta)[i].column : i \in DOMAIN ConcreteFields(meta)} |->
        IF given(col) # {} THEN insert.args[CHOOSE i \in given(col) : TRUE]
        ELSE IF col = PKColumn(meta) THEN next ELSE Null]

InsertRow(meta, values, next) == RowOf(meta, CompileInsert(meta, values), next)
-----------------------------------------------------------------------------
(* What a chain of calls means, said without slices, texts or placeholders.*)

Picked(steps, op) == SelectSeq(steps, LAMBDA s : s.op = op)
LastOr(steps, default(_), none) == IF steps = <<>> THEN none ELSE default(steps[Len(steps)])

\* The cells that the calls of one kind add, one after the other.
Added(steps, op) ==
    LET f[i \in 0..Len(steps)] == IF i = 0 THEN <<>> ELSE IF steps[i].op = op THEN f[i - 1] \o steps[i].cells ELSE f[i - 1]
    IN  f[Len(steps)]

\* The ordering: what OrderBy added, each Reverse turning round what there is.
OrderMeant(steps) ==
    LET f[i \in 0..Len(steps)] ==
            IF i = 0 THEN <<>>
            ELSE IF steps[i].op = "orderBy" THEN f[i - 1] \o steps[i].cells
            ELSE IF steps[i].op # "reverse" THEN f[i - 1]
            ELSE IF f[i - 1] = <<>> THEN DefaultOrdering
            ELSE [j \in DOMAIN f[i - 1] |-> Flip(f[i - 1][j])]
    IN  IF f[Len(steps)] = <<>> THEN Meta.ordering ELSE f[Len(steps)]

\* The names of the columns a chain selects: annotations bring in all, Select goes
\* before Only and Defer, and of those two the later one counts.
ColumnsMeant(steps) ==
    LET names(list) == {DBColumnForField(Meta, list[i]) : i \in DOMAIN list}
        all == names([i \in DOMAIN ConcreteFields(Meta) |-> ConcreteFields(Meta)[i].name])
        narrowing == SelectSeq(steps, LAMBDA x : x.op \in {"only", "defer"})
        last == narrowing[Len(narrowing)]
    IN  IF Added(steps, "annotations") # <<>> THEN all
        ELSE IF Picked(steps, "select") # <<>> THEN LastOr(Picked(steps, "select"), LAMBDA x : names(x.fields), {})
        ELSE IF narrowing = <<>> THEN all
        ELSE IF last.op = "only" THEN names(last.fields) ELSE all \ names(last.cells)

\* The querysets that the conditions of a chain name.
RECURSIVE NamedIn(_), Answerable(_)

NamedIn(node) ==
    UNION {NamedIn(node.children[i]) : i \in DOMAIN node.children}
    \union ({node.lookups[i].sub : i \in DOMAIN node.lookups} \ {0})

NamedBy(steps) ==
    UNION {UNION {NamedIn(steps[i].cells[j]) : j \in DOMAIN steps[i].cells} :
              i \in {k \in DOMAIN steps : steps[k].op \in {"filters", "exclude"}}}

\* "In a subquery" asks for one column: the code sends the subquery with all the
\* columns it selects, and the database refuses it (builder.go:444-446).
Answerable(steps) ==
    \A q \in NamedBy(steps) : /\ Cardinality(ColumnsMeant(chain[q])) = 1
                              /\ Added(chain[q], "annotations") = <<>>
                              /\ Answerable(chain[q])

\* A subquery means the values that its own chain selects.
RECURSIVE Meant(_, _), NodeMeans(_, _), Chosen(_)

LookupMeans(l, row) ==
    LET v == row[DBColumnForField(Meta, l.field)] IN
    IF l.sub # 0 THEN Compare("in", v, {r[CHOOSE col \in ColumnsMeant(chain[l.sub]) : TRUE] : r \in Chosen(l.sub)})
    ELSE IF l.op = "range" THEN Between(v, l.values[1], l.values[2])
    ELSE IF l.op = "isnull" THEN Truth((v = Null) <=> (l.values = <<1>>))
    ELSE IF l.op = "exact" /\ l.values = <<Null>> THEN Truth(v = Null)
    ELSE Compare(l.op, v, {l.values[i] : i \in DOMAIN l.values})

Together(node, parts) ==
    LET truth == IF node.connector = "OR" THEN Or3(parts) ELSE And3(parts)
    IN  IF node.negated THEN Not3(truth) ELSE truth

NodeMeans(node, row) ==
    Together(node, {NodeMeans(node.children[i], row) : i \in DOMAIN node.children}
                   \union {LookupMeans(node.lookups[i], row) : i \in DOMAIN node.lookups})

\* A row is meant if everything it is filtered by is true of it, and everything it
\* is excluded by is false.
Meant(steps, row) ==
    /\ \A i \in DOMAIN Added(steps, "filters") : NodeMeans(Added(steps, "filters")[i], row) = "T"
    /\ \A i \in DOMAIN Added(steps, "exclude") : NodeMeans(Added(steps, "exclude")[i], row) = "F"

MeantRows(q) == {r \in rows : Meant(chain[q], r)}

\* The sequences that rows in the order of a chain may come in.
Lined(steps, some) == Arranged(some, compileOrderBy(Meta, OrderMeant(steps)))

MeantResults(steps, some) ==
    {Sliced(s, LastOr(Picked(steps, "limit"), LAMBDA x : x.n, -1), LastOr(Picked(steps, "offset"), LAMBDA x : x.n, 0))
     : s \in Lined(steps, some)}

Cells(s) == {s[i] : i \in DOMAIN s}
Chosen(q) == Cells(CHOOSE s \in MeantResults(chain[q], MeantRows(q)) : TRUE)

\* A subquery with arguments of its own beside other arguments: its placeholders
\* are numbered from $1 as those around it are.
InnerPlaceholders(sql) == UNION {IF "select" \in DOMAIN sql[i] THEN StatementPlaceholders(sql[i].select) ELSE {} : i \in DOMAIN sql}

Clashes(frag) ==
    LET inner == InnerPlaceholders(frag.sql.set \o frag.sql.where)
    IN  inner # {} /\ Cardinality(inner) # Len(frag.args)

\* What an expression means for a row.
ExprMeans(e, row) ==
    LET leaf(x) == IF x.e = "value" THEN x.v ELSE row[DBColumnForField(Meta, x.field)]
        known == {i \in DOMAIN e.exprs : leaf(e.exprs[i]) # Null}
    IN  IF e.e = "case" THEN leaf(IF NodeMeans(e.whens[1].condition, row) = "T" THEN e.whens[1].result ELSE e.else)
        ELSE IF e.e # "coalesce" THEN leaf(e)
        ELSE IF known = {} THEN Null ELSE leaf(e.exprs[CHOOSE i \in known : \A j \in known : i <= j])
-----------------------------------------------------------------------------
(* Properties.                                                             *)

SelectIsMeant(steps, some, frag, exprs) ==
    LET wanted == Added(steps, "annotations") IN
    ~Clashes(frag) =>
        /\ ~Refused(frag.sql, frag.args)
        /\ {frag.sql.columns[i] : i \in DOMAIN frag.sql.columns} = ColumnsMeant(steps)
        /\ Results(frag.sql, frag.args, rows) = MeantResults(steps, some)
        /\ \A i \in DOMAIN wanted : \A r \in some : Evaluate(exprs[i], frag.args, r, rows) = ExprMeans(wanted[i], r)

CountIsMeant(some, frag) ==
    ~Clashes(frag) => ~Refused(frag.sql, frag.args) /\ Reached(frag.sql, frag.args, rows) = some

\* The rows that are meant get the values, the others stay.
UpdateIsMeant(updates, some, frag) ==
    LET value(r, col) ==
            LET i == {k \in DOMAIN updates : DBColumnForField(Meta, updates[k].field) = col}
            IN  IF i = {} THEN r[col] ELSE ExprMeans(updates[CHOOSE k \in i : TRUE].expr, r)
        after == {IF r \in some THEN [col \in DOMAIN r |-> value(r, col)] ELSE r : r \in rows}
    IN  ~Clashes(frag) => ~Refused(frag.sql, frag.args) /\ Updated(frag.sql, frag.args, rows) = after

Plainly(values) == [i \in DOMAIN values |-> [field |-> values[i].field, expr |-> [e |-> "value", v |-> values[i].value]]]

\* No call has been made yet: calls change no queryset, and the tables to look at
\* are those of the initial states.
Fresh == \A c \in Clients : call[c].at = "idle"

\* The statements of queryset q.
StatementsOf(q) ==
    {CompileSelect(Env, Meta, Contents(q)), CompileCount(Env, Meta, Contents(q)), CompileDelete(Env, Meta, Contents(q))}
    \union {CompileUpdate(Env, Meta, Contents(q), values) : values \in Assigned}
    \union {CompileUpdateExpr(Env, Meta, Contents(q), updates) : updates \in Computed}

AllIsMeant(q, some) ==
    /\ \A frag \in {CompileSelect(Env, Meta, Contents(q))} : SelectIsMeant(chain[q], some, frag, Split(frag.sql.set))
    /\ CountIsMeant(some, CompileCount(Env, Meta, Contents(q)))
    /\ CountIsMeant(some, CompileDelete(Env, Meta, Contents(q)))
    /\ \A values \in Assigned :
           UpdateIsMeant(Plainly(values), some, CompileUpdate(Env, Meta, Contents(q), values))
    /\ \A updates \in Computed : UpdateIsMeant(updates, some, CompileUpdateExpr(Env, Meta, Contents(q), updates))

\* SELECT, COUNT, UPDATE and DELETE of every queryset reach the rows that its chain
\* of calls means, in its order and with its columns and values: parentheses and
\* negations are in place, every placeholder gets the argument that belongs to it,
\* and no other queryset has written into its clauses (builder.go, queryset.go:53-79).
\* If the chain compares with a subquery of several columns, all of them are refused.
StatementsMeanTheirChain ==
    Fresh => \A q \in DOMAIN sets :
        IF Answerable(chain[q]) THEN \A some \in {MeantRows(q)} : AllIsMeant(q, some)
        ELSE \A frag \in StatementsOf(q) : Refused(frag.sql, frag.args)

Gives(frag, row) == ~Clashes(frag) => Results(frag.sql, frag.args, rows) = {<<row>>}

\* First and Last return the ends of the order that a program asked for, as long as
\* no two rows are equal in it (queryset.go:279-301).  Without an order First goes by
\* the key, and so does Last for a model without an ordering.
EndsOfTheOrder ==
    Fresh => \A q \in {x \in DOMAIN sets : Answerable(chain[x])} : \A orders \in {Lined(chain[q], MeantRows(q))} :
        (/\ OrderMeant(chain[q]) # Meta.ordering
         /\ Cardinality(orders) = 1 /\ orders # {<<>>}
         /\ Picked(chain[q], "offset") = <<>>)
        => \A ordered \in orders :
              /\ Gives(CompileSelect(Env, Meta, FirstOf(Contents(q))), ordered[1])
              /\ Gives(CompileSelect(Env, Meta, LastOf(Contents(q))), ordered[Len(ordered)])
=============================================================================
