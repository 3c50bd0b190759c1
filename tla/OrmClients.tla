----------------------------- MODULE OrmClients -----------------------------
(***************************************************************************)
(* Querysets in use (orm/queryset.go, generic_queryset.go, manager.go):    *)
(* clients that call Get, First, Count, Update, Delete, Create,            *)
(* GetOrCreate, BulkCreate and Aggregate on the querysets of one program,  *)
(* on one table and one pool of connections.  Composes QuerySets (the      *)
(* chains) with what the database replies to the statements that a queryset*)
(* is compiled to; the replies are parameters, given by OrmStatements.     *)
(*                                                                         *)
(* Nothing opens a transaction: every statement is a step.  The rows of a  *)
(* SELECT keep their connection until they are closed.                     *)
(***************************************************************************)
EXTENDS QuerySets, OrmModels, FiniteSets

CONSTANTS
    Clients,
    Connections,  \* MaxConns of the pool
    Struct,       \* the Go struct of the model
    Model,        \* its name
    Ordered,      \* its default ordering
    Tables,       \* the tables a program may find
    Creates,      \* what clients create: sequences of [field, value]
    Wanted,       \* what they get or create: [lookups, defaults]
    Assigned,     \* what they update: sequences of [field, value]
    Computed,     \* and with expressions: sequences of [field, expr]
    BusySets,     \* bound: calls are made as long as there are no more querysets
    \* Given the querysets there are, the model, a queryset and a table: the sequences of
    \* rows a SELECT may give, none if it is refused; and the replies to the others,
    \* [refused, n, table], with the rows they reached and the table they leave.
    Selects(_, _, _, _),
    Counts(_, _, _, _),
    Deletes(_, _, _, _),
    Updates(_, _, _, _, _),      \* given also the values,
    UpdatesExpr(_, _, _, _, _),  \* or the expressions
    NewRow(_, _, _)              \* the row of an INSERT, given the model, values, the sequence

ASSUME OrmAssumption == Connections \in Nat /\ IsFiniteSet(Clients)

VARIABLES
    models,      \* the registry of models
    rows,        \* the table
    nextId,      \* its sequence
    free,        \* connections in the pool
    call,        \* call[c]: what client c is doing, or its answer
    leaked,      \* history: the connections that nobody will give back
    disturbed    \* history: rows have been updated or deleted

dbvars == <<rows, nextId, free, call, leaked, disturbed>>
program == <<qsvars, models>>
vars == <<program, dbvars>>

\* The lookup of Objects, BaseObjects and NewManagerForModel.
Meta == models.models[Model]

\* The contents of all querysets: a subquery is the number of one.
Env == [q \in DOMAIN sets |-> Contents(q)]

NoAnswer == [how |-> "none", id |-> 0, created |-> FALSE, n |-> 0]
Idle == [at |-> "idle", kind |-> "none", q |-> 1, found |-> <<>>, todo |-> <<>>, want |-> <<>>, answer |-> NoAnswer]

\* RegisterModel is called before main begins.
Registered == RegisterModel(NoModels, Model, Struct, Ordered)

ormInit ==
    /\ Init
    /\ models = Registered
    /\ rows \in Tables
    /\ nextId = 1 + Cardinality(rows)
    /\ free = Connections
    /\ call = [c \in Clients |-> Idle]
    /\ leaked = 0
    /\ disturbed = FALSE

\* The querysets that a condition names: a program has made them before.
Subqueries(step) ==
    IF step.op \in {"filters", "exclude"}
    THEN UNION {{step.cells[i].lookups[j].sub : j \in DOMAIN step.cells[i].lookups} : i \in DOMAIN step.cells}
    ELSE {}

Extend(q, step) ==
    /\ \A c \in Clients : call[c].at = "idle"
    /\ \A sub \in Subqueries(step) : sub <= Len(sets)
    /\ Call(q, step)
    /\ UNCHANGED <<models, dbvars>>

Done(c, how) == [call EXCEPT ![c].at = "done", ![c].answer.how = how]

\* A call on the newest queryset.
Calls(c) == call[c].at = "idle" /\ Len(sets) <= BusySets

Newest == Contents(Len(sets))
-----------------------------------------------------------------------------
(* Reading.  First, Last and Get change a clone that nobody else sees.     *)

Ascending(name) == [name |-> name, desc |-> FALSE]

FirstOf(qs) == [qs EXCEPT !.clause["orderBy"] = Append(@, Ascending(Meta.pk)), !.plain.limit = 1]

\* Mutant of Reversed: the first field only.
ReversedOnce(order) == IF order = <<>> THEN DefaultOrdering ELSE [order EXCEPT ![1] = Flip(@)]

Reversed(order) == IF order = <<>> THEN DefaultOrdering ELSE [i \in DOMAIN order |-> Flip(order[i])]

LastOf(qs) == FirstOf([qs EXCEPT !.clause["orderBy"] = Reversed(@)])

\* Mutant of Filtered: the clone that Filter returns is dropped.
Unfiltered(qs, lookups) == qs

Filtered(qs, lookups) == [qs EXCEPT !.clause["filters"] = Append(@, Q(lookups))]

\* The queryset that a reading call compiles.
Asked(kind, qs, lookups) ==
    CASE kind = "first" -> FirstOf(qs)
      [] kind = "last" -> LastOf(qs)
      [] kind \in {"get", "getOrCreate"} -> Filtered(qs, lookups)
      [] kind = "all" -> qs

\* What follows from the rows of a SELECT.
Answered(kind, found, todo) ==
    LET one == [NoAnswer EXCEPT !.how = "ok", !.id = found[1][PKColumn(Meta)]] IN
    CASE kind = "all" -> [at |-> "done", answer |-> [NoAnswer EXCEPT !.how = "ok", !.n = Len(found)]]
      [] kind = "get" /\ Len(found) # 1 -> [at |-> "done", answer |-> [NoAnswer EXCEPT !.how = "error"]]
      [] kind = "getOrCreate" /\ found = <<>> -> [at |-> "insert", answer |-> NoAnswer]
      [] kind \in {"first", "last"} /\ found = <<>> -> [at |-> "done", answer |-> [NoAnswer EXCEPT !.how = "ok"]]
      [] kind \in {"get", "getOrCreate", "first", "last"} /\ found # <<>> /\ (kind = "get" => Len(found) = 1) ->
             [at |-> "done", answer |-> one]

\* executeSelectRows without a statement: None() gives no rows, which the generic
\* querysets then close; without a database there is an error.
SelectNothing(c, kind, typed, todo, want) ==
    LET next == Answered(kind, <<>>, todo) IN
    /\ Calls(c)
    /\ Newest.plain.noop \/ ~Newest.plain.db
    /\ call' = IF Newest.plain.noop /\ typed THEN Done(c, "panic")
               ELSE IF ~Newest.plain.noop THEN Done(c, "error")
               ELSE [call EXCEPT ![c] = [Idle EXCEPT !.at = next.at, !.kind = kind, !.answer = next.answer,
                                                     !.todo = todo, !.want = want]]
    /\ UNCHANGED <<program, rows, nextId, free, leaked, disturbed>>

\* The statement of a reading call: its rows hold a connection.
Query(c, kind, results, todo, want) ==
    IF results = {}
    THEN call' = Done(c, "error") /\ UNCHANGED free
    ELSE /\ \E found \in results :
                call' = [call EXCEPT ![c] = [Idle EXCEPT !.at = "scan", !.kind = kind, !.found = found,
                                                         !.todo = todo, !.want = want]]
         /\ free' = free - 1

Select(c, kind, lookups, todo, want) ==
    /\ Calls(c)
    /\ ~Newest.plain.noop /\ Newest.plain.db
    /\ free > 0
    /\ Query(c, kind, Selects(Env, Meta, Asked(kind, Newest, lookups), rows), todo, want)
    /\ UNCHANGED <<program, rows, nextId, leaked, disturbed>>

\* scanRows and scanRowsGeneric, and the deferred Close.
Scan(c) ==
    LET next == Answered(call[c].kind, call[c].found, call[c].todo) IN
    /\ call[c].at = "scan"
    /\ call' = [call EXCEPT ![c].at = next.at, ![c].answer = next.answer, ![c].found = <<>>]
    /\ free' = free + 1
    /\ UNCHANGED <<program, rows, nextId, leaked, disturbed>>

\* Mutant of ScanFails: the rows are not closed.
ScanFailsOpen(c) ==
    /\ call[c].at = "scan"
    /\ call' = [call EXCEPT ![c].at = "done", ![c].answer.how = "error", ![c].found = <<>>]
    /\ UNCHANGED <<program, rows, nextId, free, leaked, disturbed>>

\* Scanning fails half way: the rows are closed all the same.
ScanFails(c) ==
    /\ call[c].at = "scan"
    /\ call' = [call EXCEPT ![c].at = "done", ![c].answer.how = "error", ![c].found = <<>>]
    /\ free' = free + 1
    /\ UNCHANGED <<program, rows, nextId, leaked, disturbed>>

Counted(c, reply) ==
    IF ~Newest.plain.db THEN Done(c, "panic")
    ELSE IF reply.refused THEN Done(c, "error")
    ELSE [Done(c, "ok") EXCEPT ![c].answer.n = reply.n]

Count(c) ==
    /\ Calls(c)
    /\ free > 0
    /\ call' = Counted(c, Counts(Env, Meta, Newest, rows))
    /\ UNCHANGED <<program, rows, nextId, free, leaked, disturbed>>

\* A row of QueryRow has no Columns: Aggregate returns that error and never scans
\* the row, which is what would give the connection back.
Aggregate(c) ==
    /\ Calls(c)
    /\ Newest.plain.db
    /\ free > 0
    /\ free' = free - 1
    /\ leaked' = leaked + 1
    /\ call' = Done(c, "error")
    /\ UNCHANGED <<program, rows, nextId, disturbed>>
-----------------------------------------------------------------------------
(* Writing.                                                                *)

\* UPDATE and DELETE look at the conditions only: at no limit, and not at None().
Write(c, reply) ==
    /\ Calls(c)
    /\ free > 0
    /\ IF ~Newest.plain.db \/ reply.refused
       THEN /\ call' = Done(c, IF Newest.plain.db THEN "error" ELSE "panic")
            /\ UNCHANGED <<rows, disturbed>>
       ELSE /\ rows' = reply.table
            /\ disturbed' = TRUE
            /\ call' = [Done(c, "ok") EXCEPT ![c].answer.n = reply.n]
    /\ UNCHANGED <<program, nextId, free, leaked>>

Update(c, values) == Write(c, Updates(Env, Meta, Newest, values, rows))

UpdateExpr(c, updates) == Write(c, UpdatesExpr(Env, Meta, Newest, updates, rows))

Delete(c) == Write(c, Deletes(Env, Meta, Newest, rows))

\* The fields with an index that allows a value once; NULLs do not count.
UniqueOf(meta) == {meta.fields[i].column : i \in {j \in DOMAIN meta.fields : meta.fields[j].unique \/ meta.fields[j].pk}}
UniqueColumns == UniqueOf(Meta)

\* The tables that a program finds have met these indexes.
ASSUME TablesAssumption ==
    \A t \in Tables : \A a, b \in t : \A col \in UniqueOf(Registered.models[Model]) :
        a[col] # Null /\ a[col] = b[col] => a = b

Violates(row) == \E r \in rows, col \in UniqueColumns : row[col] # Null /\ r[col] = row[col]

\* Create, and BulkCreate and Create of the generic queryset, which leaves out the
\* key that is zero a second time.
StartCreate(c, records) ==
    /\ Calls(c)
    /\ call' = IF Newest.plain.db THEN [call EXCEPT ![c] = [Idle EXCEPT !.at = "insert", !.kind = "create", !.todo = records]]
               ELSE Done(c, "error")
    /\ UNCHANGED <<program, rows, nextId, free, leaked, disturbed>>

\* The sequence has moved on even if the row is refused.
Inserts(row) ==
    /\ nextId' = IF row[PKColumn(Meta)] = nextId THEN nextId + 1 ELSE nextId
    /\ rows' = IF Violates(row) THEN rows ELSE rows \union {row}

\* The INSERT of a call that has one to make.  An error ends the call: what
\* BulkCreate inserted before stays, and its count is returned beside the error.
Insert(c) ==
    LET row == NewRow(Meta, Head(call[c].todo), nextId)
        rest == Tail(call[c].todo)
        now == [call[c].answer EXCEPT !.n = @ + 1, !.id = row[PKColumn(Meta)], !.created = TRUE]
    IN  /\ call[c].at = "insert"
        /\ free > 0
        /\ Inserts(row)
        /\ call' = IF Violates(row) THEN Done(c, "error")
                   ELSE IF rest = <<>> THEN [call EXCEPT ![c].at = "done", ![c].answer = [now EXCEPT !.how = "ok"]]
                   ELSE [call EXCEPT ![c].todo = rest, ![c].answer = now]
        /\ UNCHANGED <<program, free, leaked, disturbed>>

\* The connection breaks before or after the statement has been executed.
InsertFails(c) ==
    /\ call[c].at = "insert"
    /\ free > 0
    /\ \/ UNCHANGED <<rows, nextId>>
       \/ Inserts(NewRow(Meta, Head(call[c].todo), nextId))
    /\ call' = Done(c, "error")
    /\ UNCHANGED <<program, free, leaked, disturbed>>

\* Mutant of ValuesOf: the lookups are not copied.
DefaultsOf(want) == want.defaults

\* GetOrCreate makes its row of the lookups, whatever their operator, and of the
\* defaults, which win.
ValuesOf(want) ==
    LET named == {want.defaults[i].field : i \in DOMAIN want.defaults}
        kept == SelectSeq(want.lookups, LAMBDA l : l.field \notin named)
    IN  [i \in DOMAIN kept |-> [field |-> kept[i].field, value |-> kept[i].values[1]]] \o want.defaults

ReadCalls(c) ==
    \/ \E kind \in {"first", "last", "all"} : Select(c, kind, <<>>, <<>>, <<>>)
    \/ \E w \in Wanted : Select(c, "get", w.lookups, <<>>, <<>>)
    \/ \E kind \in {"first", "get", "all"}, typed \in BOOLEAN : SelectNothing(c, kind, typed, <<>>, <<>>)

GetOrCreate(c) ==
    \E w \in Wanted :
        \/ Select(c, "getOrCreate", w.lookups, <<ValuesOf(w)>>, w.lookups)
        \/ SelectNothing(c, "getOrCreate", FALSE, <<ValuesOf(w)>>, w.lookups)

ormNext ==
    \/ \E q \in DOMAIN sets, step \in Steps : Extend(q, step)
    \/ \E c \in Clients :
          \/ ReadCalls(c)
          \/ GetOrCreate(c)
          \/ Scan(c)
          \/ ScanFails(c)
          \/ Count(c)
          \/ Aggregate(c)
          \/ \E values \in Assigned : Update(c, values)
          \/ \E updates \in Computed : UpdateExpr(c, updates)
          \/ Delete(c)
          \/ \E records \in Creates : StartCreate(c, records)
          \/ Insert(c)
          \/ InsertFails(c)

ormSpec == ormInit /\ [][ormNext]_vars
-----------------------------------------------------------------------------
(* Properties.                                                             *)

\* A lookup that one row can meet at most: NULL is not a value that is unique.
Identifies(l) ==
    l.op = "exact" /\ l.values[1] # Null /\ DBColumnForField(Meta, l.field) \in UniqueColumns
Names(row, l) == row[DBColumnForField(Meta, l.field)] = l.values[1]

\* A row that has all the unique values that are wanted.
Fits(row, want) == \A i \in DOMAIN want : Identifies(want[i]) => Names(row, want[i])

\* Two clients that get or create by a unique field at the same time end with one
\* row, which only one of them has created; who loses the race gets an error
\* (queryset.go:419-440 reads and inserts in two statements).
OneRowIsCreated ==
    \A c, d \in Clients :
        (/\ c # d
         /\ ~disturbed
         /\ \A x \in {c, d} : call[x].at = "done" /\ call[x].kind = "getOrCreate" /\ call[x].answer.how = "ok"
         /\ call[c].want = call[d].want
         /\ \E i \in DOMAIN call[c].want : Identifies(call[c].want[i]))
        => /\ call[c].answer.id = call[d].answer.id
           /\ ~(call[c].answer.created /\ call[d].answer.created)

\* What a GetOrCreate by a unique field asks of the database: the row that it finds
\* is one of the table and has the value that was asked for, on whatever queryset
\* the call is made, and so would the row that it inserts (queryset.go:419-440).
GetOrCreateGoesByTheKey ==
    \A w \in Wanted :
        /\ (Newest.plain.db /\ \E c \in Clients : Calls(c)) =>
               \A found \in Selects(Env, Meta, Asked("getOrCreate", Newest, w.lookups), rows) :
                   found # <<>> => found[1] \in rows /\ Fits(found[1], w.lookups)
        /\ Fits(NewRow(Meta, ValuesOf(w), nextId), w.lookups)

\* A connection is in the pool, or holds the rows of a call that will close them,
\* or has been lost to an Aggregate (db.go:215, queryset.go:336-341): no other call
\* keeps one, however it ends.
OnlyAggregateKeepsOne ==
    free + Cardinality({c \in Clients : call[c].at = "scan"}) + leaked = Connections
=============================================================================
