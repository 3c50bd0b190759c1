---------------------------- MODULE MCOrmClients ----------------------------
(* A table of items: an automatic key, a unique slug that may be NULL, and a *)
(* rank in a column of another name.                                         *)
EXTENDS OrmStatements

int64 == [go |-> "int64", pointer |-> FALSE, of |-> NoName]
pint == [go |-> "int64", pointer |-> TRUE, of |-> NoName]

MCSnake == [n \in {"ID", "Slug", "Rank", "cache", "id"} |->
               CASE n \in {"ID", "id"} -> "id" [] n = "Slug" -> "slug" [] n = "Rank" -> "rank" [] n = "cache" -> "cache"]
MCWithId == [n \in {"id", "slug", "rank"} |-> n]
MCTable == [n \in {"Item"} |-> "shop_item"]

F(name, type, tags) == [name |-> name, exported |-> TRUE, type |-> type, tags |-> tags]
MCStruct == <<F("ID", int64, <<>>), F("Slug", pint, [unique |-> ""]),
              [F("cache", int64, <<>>) EXCEPT !.exported = FALSE], F("Rank", pint, [column |-> "position"])>>
MCOrdered == <<[name |-> "Rank", desc |-> FALSE]>>
MCReversed == <<[name |-> "Rank", desc |-> TRUE]>>

Row(i, s, p) == [id |-> i, slug |-> s, position |-> p]
MCTables == {{}, {Row(1, 1, 2), Row(2, 2, Null), Row(3, Null, 1)}, {Row(1, Null, 2), Row(2, Null, 1)}}

L(field, op, values) == [field |-> field, op |-> op, values |-> values, sub |-> 0]
Sub(q) == [field |-> "ID", op |-> "in", values |-> <<>>, sub |-> q]
Slug1 == L("Slug", "exact", <<1>>)
Rank2 == L("Rank", "exact", <<2>>)
Low == L("Rank", "lt", <<2>>)

ValueOf(v) == [e |-> "value", v |-> v]
FieldOf(f) == [e |-> "f", field |-> f]
Ranked == [e |-> "case", whens |-> <<[condition |-> QNot(Q(<<Slug1>>)), result |-> ValueOf(5)]>>, else |-> FieldOf("Rank")]
Coalesced == [e |-> "coalesce", exprs |-> <<FieldOf("Rank"), ValueOf(0)>>]

MCSteps ==
    {[op |-> "filters", cells |-> <<Q(<<Slug1>>)>>],
     [op |-> "filters", cells |-> <<QOr(<<Q(<<Rank2>>), Q(<<L("Slug", "isnull", <<1>>)>>)>>)>>],
     [op |-> "filters", cells |-> <<Q(<<L("Slug", "in", <<1, 2>>), Low>>)>>],
     [op |-> "filters", cells |-> <<Q(<<Sub(2)>>)>>],
     [op |-> "exclude", cells |-> <<Q(<<Sub(3)>>)>>],
     [op |-> "only", fields |-> <<"Rank">>],
     [op |-> "exclude", cells |-> <<Q(<<Slug1, Rank2>>)>>],
     [op |-> "exclude", cells |-> <<QNot(QOr(<<Q(<<L("Rank", "range", <<2, 3>>)>>), Q(<<L("Slug", "exact", <<Null>>)>>)>>))>>],
     [op |-> "orderBy", cells |-> <<[name |-> "Slug", desc |-> TRUE], [name |-> "ID", desc |-> FALSE]>>],
     [op |-> "reverse"],
     [op |-> "limit", n |-> 1],
     [op |-> "offset", n |-> 1],
     [op |-> "annotations", cells |-> <<Coalesced>>],
     [op |-> "annotations", cells |-> <<Ranked>>],
     [op |-> "none"]}

\* The two clients are alike.
MCAlike == Permutations(Clients)

MCCreates == {<<<<[field |-> "ID", value |-> 0], [field |-> "Slug", value |-> 1]>>>>,
              <<<<[field |-> "Slug", value |-> 2]>>, <<[field |-> "Rank", value |-> 2]>>>>}
MCWanted == {[lookups |-> <<Slug1>>, defaults |-> <<[field |-> "Rank", value |-> 1]>>],
             [lookups |-> <<Rank2>>, defaults |-> <<>>],
             [lookups |-> <<L("Slug", "exact", <<Null>>)>>, defaults |-> <<>>]}
MCAssigned == {<<[field |-> "Rank", value |-> 3]>>}
MCComputed == {<<[field |-> "Rank", expr |-> Coalesced], [field |-> "Slug", expr |-> ValueOf(Null)]>>}
=============================================================================
