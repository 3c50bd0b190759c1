----------------------------- MODULE SqlCompiler -----------------------------
(***************************************************************************)
(* The SQL compiler (orm/builder.go, expr.go): from the clauses of a       *)
(* queryset to a text with numbered placeholders and the arguments to bind,*)
(* and what PostgreSQL makes of the two.                                   *)
(*                                                                         *)
(* The text of a condition is a sequence of tokens, so that parentheses    *)
(* and precedence are those of the text.  A token has a word and the       *)
(* numbers of its placeholders, 0 as long as a placeholder is $NEXT.  A    *)
(* statement is a record of its parts in the order of the text.            *)
(*                                                                         *)
(* Values are numbers.  The lookups that compare text or take a date apart *)
(* have one placeholder and one argument, as "gt" has, and are left out;   *)
(* so are the joins that select_related adds, which have no placeholder.   *)
(***************************************************************************)
EXTENDS OrmModels, Integers, FiniteSets

LOCAL INSTANCE SequencesExt

\* Text and arguments.
Frag(sql, args) == [sql |-> sql, args |-> args]
Word(w) == <<[w |-> w, ph |-> <<>>]>>
Test(column, op, places) == <<[w |-> "test", column |-> column, op |-> op, ph |-> [i \in 1..places |-> 0]]>>

Sqls(frags) == [i \in DOMAIN frags |-> frags[i].sql]
Args(frags) == FlattenSeq([i \in DOMAIN frags |-> frags[i].args])

\* strings.Join
Join(texts, sep) ==
    FlattenSeq([i \in DOMAIN texts |-> IF i = 1 THEN texts[i] ELSE sep \o texts[i]])

Parens(text) == Word("(") \o text \o Word(")")

\* How many $NEXT there are in a text.
NextsIn(sql) == Cardinality({p \in UNION {{<<i, k>> : k \in DOMAIN sql[i].ph} : i \in DOMAIN sql} : sql[p[1]].ph[p[2]] = 0})

\* replacePlaceholders: every $NEXT gets a number, from start on.
replacePlaceholders(sql, start) ==
    LET nexts(i) == Cardinality({k \in DOMAIN sql[i].ph : sql[i].ph[k] = 0})
        before[i \in 0..Len(sql)] == IF i = 0 THEN 0 ELSE before[i - 1] + nexts(i)
        number(i, k) == start + before[i - 1] + Cardinality({j \in 1..(k - 1) : sql[i].ph[j] = 0})
    IN  [i \in DOMAIN sql |->
            [sql[i] EXCEPT !.ph = [k \in DOMAIN @ |-> IF @[k] = 0 THEN number(i, k) ELSE @[k]]]]
-----------------------------------------------------------------------------
(* Conditions.                                                             *)

RECURSIVE compileQNode(_, _, _), CompileSelect(_, _, _)

\* A subquery is compiled on its own, numbers included.
InSelect(column, inner) ==
    Frag(<<[w |-> "test", column |-> column, op |-> "inSelect", ph |-> <<>>, select |-> inner.sql]>>, inner.args)

compileIn(env, meta, column, lookup) ==
    IF lookup.sub # 0 THEN InSelect(column, CompileSelect(env, meta, env[lookup.sub]))
    ELSE IF lookup.values = <<>> THEN Frag(Word("1=0"), <<>>)
    ELSE Frag(Test(column, "in", Len(lookup.values)), lookup.values)

LookupOn(env, meta, column, lookup) ==
    CASE lookup.op = "exact" /\ lookup.values = <<Null>> -> Frag(Test(column, "isnull", 0), <<>>)
      [] lookup.op = "in" -> compileIn(env, meta, column, lookup)
      [] lookup.op = "isnull" -> Frag(Test(column, IF lookup.values = <<1>> THEN "isnull" ELSE "notnull", 0), <<>>)
      [] lookup.op = "range" -> Frag(Parens(Test(column, "between", 2)), lookup.values)
      [] OTHER -> Frag(Test(column, lookup.op, 1), lookup.values)

compileLookup(env, meta, lookup) == LookupOn(env, meta, DBColumnForField(meta, lookup.field), lookup)

\* Mutant of Grouped: several parts are not put in parentheses.
Ungrouped(parts, connector) == Join(parts, Word(connector))

Grouped(parts, connector) ==
    IF Len(parts) > 1 THEN Parens(Join(parts, Word(connector))) ELSE parts[1]

\* A node without parts is true, and its negation is forgotten.
Node(node, parts) ==
    LET text == Grouped(Sqls(parts), node.connector) IN
    IF parts = <<>> THEN Frag(Word("1=1"), <<>>)
    ELSE Frag(IF node.negated THEN Word("NOT") \o text ELSE text, Args(parts))

compileQNode(env, meta, node) ==
    Node(node, [i \in DOMAIN node.children |-> compileQNode(env, meta, node.children[i])]
               \o [i \in DOMAIN node.lookups |-> compileLookup(env, meta, node.lookups[i])])

QNodes(env, meta, nodes) == [i \in DOMAIN nodes |-> compileQNode(env, meta, nodes[i])]

\* Mutant of Conditions: the arguments of what is excluded come first.
ExcludedFirst(kept, dropped) ==
    LET texts == Sqls(kept) \o [i \in DOMAIN dropped |-> Word("NOT") \o Parens(dropped[i].sql)]
    IN  Frag(IF texts = <<>> THEN <<>> ELSE Grouped(texts, "AND"), Args(dropped) \o Args(kept))

Conditions(kept, dropped) ==
    LET texts == Sqls(kept) \o [i \in DOMAIN dropped |-> Word("NOT") \o Parens(dropped[i].sql)]
    IN  Frag(IF texts = <<>> THEN <<>> ELSE Grouped(texts, "AND"), Args(kept) \o Args(dropped))

compileWhere(env, meta, qs) ==
    Conditions(QNodes(env, meta, qs.clause["filters"]), QNodes(env, meta, qs.clause["exclude"]))
-----------------------------------------------------------------------------
(* Expressions: [e |-> "value", v], [e |-> "f", field], [e |-> "func",      *)
(* args], [e |-> "case", whens, else], and so on.                           *)

RECURSIVE compileExpr(_, _, _)

\* compileFuncExpr and compileCoalesceExpr
Called(name, parts) == Frag(Word(name) \o Join(Sqls(parts), <<>>) \o Word(")"), Args(parts))

When(cond, result) ==
    Frag(Word("WHEN") \o cond.sql \o Word("THEN") \o result.sql, cond.args \o result.args)

compileCaseExpr(whens, other) ==
    Frag(Word("CASE") \o Join(Sqls(whens), <<>>) \o Word("ELSE") \o other.sql \o Word("END"),
         Args(whens) \o other.args)

\* The filter of an aggregate comes after its argument, in text and arguments.
compileAggregateExpr(inner, filter) ==
    Frag(Word("COUNT(") \o inner.sql \o Word(") FILTER") \o Parens(filter.sql), inner.args \o filter.args)

OfSelect(kind, inner) == Frag(<<[w |-> kind, ph |-> <<>>, select |-> inner.sql]>>, inner.args)

Exprs(env, meta, exprs) == [i \in DOMAIN exprs |-> compileExpr(env, meta, exprs[i])]

compileExpr(env, meta, e) ==
    CASE e.e = "value" -> Frag(<<[w |-> "value", ph |-> <<0>>]>>, <<e.v>>)
      [] e.e = "f" -> Frag(<<[w |-> "column", column |-> DBColumnForField(meta, e.field), ph |-> <<>>]>>, <<>>)
      [] e.e = "coalesce" -> Called("COALESCE(", Exprs(env, meta, e.exprs))
      [] e.e = "case" ->
             compileCaseExpr([i \in DOMAIN e.whens |-> When(compileQNode(env, meta, e.whens[i].condition),
                                                            compileExpr(env, meta, e.whens[i].result))],
                             compileExpr(env, meta, e.else))
      [] e.e = "aggregate" -> compileAggregateExpr(compileExpr(env, meta, e.inner), compileQNode(env, meta, e.filter))
      [] e.e \in {"subquery", "exists"} -> OfSelect(e.e, CompileSelect(env, meta, env[e.sub]))
      [] OTHER -> Frag(<<[w |-> "value", ph |-> <<0>>]>>, <<>>)  \* an OuterRef: no argument
-----------------------------------------------------------------------------
(* Statements.                                                             *)

compileOrderBy(meta, fields) ==
    [i \in DOMAIN fields |-> [column |-> DBColumnForField(meta, fields[i].name), desc |-> fields[i].desc]]

quoteColumns(meta, names) == [i \in DOMAIN names |-> DBColumnForField(meta, names[i])]

allColumns(meta) == quoteColumns(meta, [i \in DOMAIN ConcreteFields(meta) |-> ConcreteFields(meta)[i].name])

\* Deferred are the fields with one of the names, not with one of the columns.
allColumnsExcept(meta, except) ==
    LET kept == SelectSeq(ConcreteFields(meta), LAMBDA f : \A i \in DOMAIN except : except[i] # f.name)
    IN  quoteColumns(meta, [i \in DOMAIN kept |-> kept[i].name])

Columns(meta, qs) ==
    IF qs.clause["annotations"] # <<>> THEN allColumns(meta)
    ELSE IF qs.plain.select # <<>> THEN quoteColumns(meta, qs.plain.select)
    ELSE IF qs.plain.only # <<>> THEN quoteColumns(meta, qs.plain.only)
    ELSE IF qs.clause["deferFields"] # <<>> THEN allColumnsExcept(meta, qs.clause["deferFields"])
    ELSE allColumns(meta)

Ordering(meta, qs) ==
    compileOrderBy(meta, IF qs.clause["orderBy"] # <<>> THEN qs.clause["orderBy"] ELSE meta.ordering)

\* A FOR UPDATE does not wait if one of its options says so; NOWAIT goes first.
Locking(lock) ==
    IF "forUpdate" \notin lock THEN "none"
    ELSE IF "noWait" \in lock THEN "noWait"
    ELSE IF "skipLocked" \in lock THEN "skipLocked" ELSE "wait"

\* Expressions first, then the condition: the order of the text is the order of
\* the arguments.
Numbered(stmt, exprs, where) ==
    LET text == Join(Sqls(exprs), Word(",")) IN
    Frag([stmt EXCEPT !.set = replacePlaceholders(text, 1),
                      !.where = replacePlaceholders(where.sql, 1 + NextsIn(text))],
         Args(exprs) \o where.args)

\* COUNT, UPDATE and DELETE know the conditions of a queryset and nothing else of it.
Short(kind, columns) ==
    [kind |-> kind, columns |-> columns, distinct |-> FALSE, set |-> <<>>, where |-> <<>>,
     order |-> <<>>, limit |-> -1, offset |-> 0, lock |-> "none"]

\* Limit and offset are in the text.
CompileSelect(env, meta, qs) ==
    Numbered([Short("select", Columns(meta, qs))
                 EXCEPT !.distinct = qs.plain.distinct, !.order = Ordering(meta, qs),
                        !.limit = qs.plain.limit, !.offset = qs.plain.offset, !.lock = Locking(qs.plain.lock)],
             Exprs(env, meta, qs.clause["annotations"]), compileWhere(env, meta, qs))

CompileCount(env, meta, qs) ==
    Numbered([Short("count", <<PKColumn(meta)>>) EXCEPT !.distinct = qs.plain.distinct],
             <<>>, compileWhere(env, meta, qs))

CompileAggregate(env, meta, qs, exprs) ==
    Numbered(Short("aggregate", <<>>), Exprs(env, meta, exprs), compileWhere(env, meta, qs))

\* $1, $2, ... $n
Values(n) == Join([i \in 1..n |-> <<[w |-> "value", ph |-> <<i>>]>>], Word(","))

\* values is a sequence of [field, value] with sorted fields, each once.  The
\* numbers of SET are written first and the condition goes on from there.
Updating(meta, values, where) ==
    Frag([Short("update", quoteColumns(meta, [i \in DOMAIN values |-> values[i].field]))
             EXCEPT !.set = Values(Len(values)), !.where = replacePlaceholders(where.sql, Len(values) + 1)],
         [i \in DOMAIN values |-> values[i].value] \o where.args)

CompileUpdate(env, meta, qs, values) == Updating(meta, values, compileWhere(env, meta, qs))

\* The same with expressions, numbered with the condition.
CompileUpdateExpr(env, meta, qs, updates) ==
    Numbered(Short("update", quoteColumns(meta, [i \in DOMAIN updates |-> updates[i].field])),
             Exprs(env, meta, [i \in DOMAIN updates |-> updates[i].expr]), compileWhere(env, meta, qs))

CompileDelete(env, meta, qs) == Numbered(Short("delete", <<>>), <<>>, compileWhere(env, meta, qs))

\* Values of an automatic key that are zero are left to the database.
isZeroAutoPKValue(meta, field, value) == IsAutoPK(meta, field) /\ value \in {0, Null}

Given(meta, values) == SelectSeq(values, LAMBDA v : ~isZeroAutoPKValue(meta, v.field, v.value))

Inserting(meta, given) ==
    Frag([kind |-> "insert", columns |-> quoteColumns(meta, [i \in DOMAIN given |-> given[i].field]),
          set |-> Values(Len(given)),
          returning |-> HasAutoPK(meta)],
         [i \in DOMAIN given |-> given[i].value])

CompileInsert(meta, values) == Inserting(meta, Given(meta, values))
=============================================================================
