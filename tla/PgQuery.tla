------------------------------- MODULE PgQuery -------------------------------
(***************************************************************************)
(* What PostgreSQL does with the statements of SqlCompiler: it reads the   *)
(* text with its own precedence (NOT, then AND, then OR), binds $n to the  *)
(* n-th argument, and knows three truth values.  A row is a function from  *)
(* columns to values.                                                      *)
(***************************************************************************)
EXTENDS SqlCompiler

LOCAL INSTANCE SequencesExt
LOCAL INSTANCE FiniteSetsExt

Not3(a) == CASE a = "T" -> "F" [] a = "F" -> "T" [] a = "U" -> "U"
And3(S) == IF "F" \in S THEN "F" ELSE IF "U" \in S THEN "U" ELSE "T"
Or3(S) == IF "T" \in S THEN "T" ELSE IF "U" \in S THEN "U" ELSE "F"
Truth(b) == IF b THEN "T" ELSE "F"

\* A comparison with NULL is neither true nor false.
Compare(op, v, vs) ==
    IF op \in {"isnull", "notnull"} THEN Truth((v = Null) <=> (op = "isnull"))
    ELSE IF op = "in" THEN Or3({IF v = Null \/ x = Null THEN "U" ELSE Truth(v = x) : x \in vs})
    ELSE IF v = Null \/ Null \in vs THEN "U"
    ELSE CASE op = "exact" -> Truth(vs = {v})
           [] op = "gt" -> Truth(\A x \in vs : v > x)
           [] op = "lt" -> Truth(\A x \in vs : v < x)

Between(v, low, high) == IF Null \in {v, low, high} THEN "U" ELSE Truth(low <= v /\ v <= high)

\* The placeholders of a text, those of its subqueries included.
RECURSIVE PlaceholdersOf(_), StatementPlaceholders(_)

PlaceholdersOf(sql) ==
    UNION {ToSet(sql[i].ph) \union (IF "select" \in DOMAIN sql[i] THEN StatementPlaceholders(sql[i].select) ELSE {})
           : i \in DOMAIN sql}

StatementPlaceholders(stmt) == PlaceholdersOf(stmt.set \o stmt.where)

\* The texts between the commas.
Split(sql) ==
    LET commas == {i \in DOMAIN sql : sql[i].w = ","}
        ends == SetToSortSeq(commas \union {0, Len(sql) + 1}, LAMBDA a, b : a < b)
    IN  IF sql = <<>> THEN <<>> ELSE [k \in 1..(Len(ends) - 1) |-> SubSeq(sql, ends[k] + 1, ends[k + 1] - 1)]

\* A subquery has one column, unless it is only asked whether it has rows.
RECURSIVE SubqueriesFit(_)

SubqueriesFit(sql) ==
    \A i \in {j \in DOMAIN sql : "select" \in DOMAIN sql[j]} :
        /\ sql[i].w = "exists" \/ Len(sql[i].select.columns) + Len(Split(sql[i].select.set)) = 1
        /\ SubqueriesFit(sql[i].select.set \o sql[i].select.where)

\* A statement is refused unless its placeholders are $1 to $n for n arguments and
\* its subqueries have one column.
Refused(stmt, args) ==
    \/ StatementPlaceholders(stmt) # 1..Len(args)
    \/ ~SubqueriesFit(stmt.set \o stmt.where)

Depth(sql, i) ==
    Cardinality({j \in 1..(i - 1) : sql[j].w = "("}) - Cardinality({j \in 1..(i - 1) : sql[j].w = ")"})

At(sql, w) == {i \in DOMAIN sql : sql[i].w = w /\ Depth(sql, i) = 0}

RECURSIVE Holds(_, _, _, _), Selected(_, _, _)

HoldsTest(t, args, row, rows) ==
    CASE t.op = "between" -> Between(row[t.column], args[t.ph[1]], args[t.ph[2]])
      [] t.op = "inSelect" -> Compare("in", row[t.column], {r[t.select.columns[1]] : r \in Selected(t.select, args, rows)})
      [] OTHER -> Compare(t.op, row[t.column], {args[n] : n \in ToSet(t.ph)})

\* The truth value of a condition for a row: of its parts around an OR, or else
\* around an AND.
Around(sql, args, row, rows, w) ==
    LET i == CHOOSE i \in At(sql, w) : TRUE IN
    {Holds(part, args, row, rows) : part \in {SubSeq(sql, 1, i - 1), SubSeq(sql, i + 1, Len(sql))}}

Simple(sql, args, row, rows) ==
    CASE sql[1].w = "NOT" -> Not3(Holds(Tail(sql), args, row, rows))
      [] sql[1].w = "(" -> Holds(SubSeq(sql, 2, Len(sql) - 1), args, row, rows)
      [] sql[1].w \in {"1=1", "1=0"} -> Truth(sql[1].w = "1=1")
      [] sql[1].w = "test" -> HoldsTest(sql[1], args, row, rows)

Holds(sql, args, row, rows) ==
    IF sql = <<>> THEN "T"
    ELSE IF At(sql, "OR") # {} THEN Or3(Around(sql, args, row, rows, "OR"))
    ELSE IF At(sql, "AND") # {} THEN And3(Around(sql, args, row, rows, "AND"))
    ELSE Simple(sql, args, row, rows)

\* The rows a statement is about, before order, limit and offset.
Reached(stmt, args, rows) == {r \in rows : Holds(stmt.where, args, r, rows) = "T"}

\* NULLs come last, and first if the order is descending.
Before(a, b, desc) ==
    IF a = b THEN FALSE
    ELSE IF desc THEN a = Null \/ (b # Null /\ a > b)
    ELSE b = Null \/ (a # Null /\ a < b)

Precedes(order, r, s) ==
    \E i \in DOMAIN order :
        /\ Before(r[order[i].column], s[order[i].column], order[i].desc)
        /\ \A j \in 1..(i - 1) : r[order[j].column] = s[order[j].column]

\* The sequences a set of rows may come in.
Arranged(rows, order) ==
    {s \in SetToSeqs(rows) : \A i, j \in DOMAIN s : Precedes(order, s[i], s[j]) => i < j}

Sliced(s, limit, offset) ==
    SubSeq(s, offset + 1, IF limit < 0 \/ offset + limit > Len(s) THEN Len(s) ELSE offset + limit)

\* The results a SELECT may have.
Results(stmt, args, rows) ==
    {Sliced(s, stmt.limit, stmt.offset) : s \in Arranged(Reached(stmt, args, rows), stmt.order)}

\* The rows a subquery gives: of a subquery with a limit, one choice.
Selected(stmt, args, rows) == ToSet(CHOOSE s \in Results(stmt, args, rows) : TRUE)

Leaf(t, args, row) == IF t.w = "value" THEN args[t.ph[1]] ELSE row[t.column]

\* The value of an expression: COALESCE of columns and values, CASE with one WHEN.
Evaluate(sql, args, row, rows) ==
    LET at(w) == CHOOSE i \in DOMAIN sql : sql[i].w = w
        leaves == [i \in 2..(Len(sql) - 1) |-> Leaf(sql[i], args, row)]
        known == {i \in DOMAIN leaves : leaves[i] # Null}
        case == Holds(SubSeq(sql, 3, at("THEN") - 1), args, row, rows)
    IN  CASE sql[1].w = "COALESCE(" -> IF known = {} THEN Null ELSE leaves[Min(known)]
          [] sql[1].w = "CASE" -> Leaf(sql[at(IF case = "T" THEN "THEN" ELSE "ELSE") + 1], args, row)
          [] OTHER -> Leaf(sql[1], args, row)

\* The table after an UPDATE.
Updated(stmt, args, rows) ==
    LET exprs == Split(stmt.set)
        new(r) == [c \in DOMAIN r |->
                      IF \E i \in DOMAIN exprs : stmt.columns[i] = c
                      THEN Evaluate(exprs[CHOOSE i \in DOMAIN exprs : stmt.columns[i] = c], args, r, rows)
                      ELSE r[c]]
    IN  {IF r \in Reached(stmt, args, rows) THEN new(r) ELSE r : r \in rows}
=============================================================================
