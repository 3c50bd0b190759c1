------------------------------ MODULE OrmModels ------------------------------
(***************************************************************************)
(* Models (orm/tags.go, model.go, field.go): what RegisterModel makes of a *)
(* Go struct, the registry it goes to, and how a name in a query becomes a *)
(* column.                                                                 *)
(*                                                                         *)
(* A struct is a sequence of fields [name, exported, type, tags].  type is *)
(* a record [go, pointer, of]: the Go kind, whether it is a pointer, and   *)
(* the struct it points to or is a slice of (NoName for none).  tags is a  *)
(* function from the keys of the jango tag to their values.                *)
(***************************************************************************)
EXTENDS Naturals, Sequences, TLC

CONSTANTS
    Snake,    \* Snake[name]: GoFieldToDBColumn, for the names an instance uses
    WithId,   \* WithId[column]: the column with the suffix _id
    Table,    \* Table[model]: the default table name, app_model
    NoName,
    Null      \* NULL, and nil

Integers32 == {"int", "positiveint"}
Integers64 == {"bigint", "positivebigint"}
Relations == {"foreignkey", "onetoonetype", "manytomany"}

\* The field type of a Go kind; whatever is not listed is text.
KindTypes == [string |-> "char", int |-> "int", int32 |-> "int", int64 |-> "bigint",
              int16 |-> "smallint", uint |-> "positiveint", uint32 |-> "positiveint",
              uint64 |-> "positivebigint", uint16 |-> "positivesmallint", bool |-> "boolean",
              float32 |-> "float", float64 |-> "double", time |-> "datetime",
              nullstring |-> "char", nullint64 |-> "bigint", nullbool |-> "boolean",
              nullfloat64 |-> "double", nulltime |-> "datetime"]

inferFieldType(type) == IF type.go \in DOMAIN KindTypes THEN KindTypes[type.go] ELSE "text"

\* An integer primary key becomes an auto field.
AsKey(f) ==
    IF f.type \in Integers32 THEN [f EXCEPT !.pk = TRUE, !.type = "auto", !.auto = TRUE]
    ELSE IF f.type \in Integers64 THEN [f EXCEPT !.pk = TRUE, !.type = "bigauto", !.auto = TRUE]
    ELSE [f EXCEPT !.pk = TRUE]

\* What the keys of the tag say.
Tagged(sf) ==
    LET tag(key) == key \in DOMAIN sf.tags IN
    [name |-> sf.name,
     column |-> IF tag("column") THEN sf.tags["column"] ELSE Snake[sf.name],
     type |-> IF tag("type") THEN sf.tags["type"] ELSE inferFieldType(sf.type),
     pk |-> FALSE,
     auto |-> tag("auto"),
     unique |-> tag("unique"),
     null |-> tag("null") \/ sf.type.pointer,
     autoNow |-> tag("auto_now") \/ tag("auto_now_add"),
     related |-> IF tag("related_model") THEN sf.tags["related_model"] ELSE NoName]

StructKinds == {"struct", "time", "nullstring", "nullint64", "nullbool", "nullfloat64", "nulltime"}

\* A pointer to a struct is a foreign key and a slice of pointers many-to-many,
\* unless the tag said another type.
Related(f, of, relation) ==
    [f EXCEPT !.related = IF @ = NoName THEN of ELSE @, !.type = IF @ = "text" THEN relation ELSE @]
AsRelation(sf, f) ==
    IF sf.type.go \in StructKinds /\ sf.type.pointer THEN Related(f, sf.type.of, "foreignkey")
    ELSE IF sf.type.go = "slice" THEN Related(f, sf.type.of, "manytomany")
    ELSE f

WithSuffix(f) ==
    IF f.type \in Relations \ {"manytomany"} /\ f.column = Snake[f.name]
    THEN [f EXCEPT !.column = WithId[@]]
    ELSE f

Keyed(sf, f) == IF "primary_key" \in DOMAIN sf.tags THEN AsKey(f) ELSE f

parseField(sf) == WithSuffix(AsRelation(sf, Keyed(sf, Tagged(sf))))

Mapped(struct) == SelectSeq(struct, LAMBDA sf : sf.exported /\ "-" \notin DOMAIN sf.tags)

\* The last field tagged as primary key, or else the first one called ID; NoName
\* without either.
PKField(fields, ids) ==
    LET tagged == {i \in DOMAIN fields : fields[i].pk}
        named == {i \in DOMAIN fields : fields[i].name \in ids}
    IN  IF tagged # {} THEN fields[CHOOSE i \in tagged : \A j \in tagged : j <= i].name
        ELSE IF named # {} THEN fields[CHOOSE i \in named : \A j \in named : i <= j].name
        ELSE NoName

\* The names that strings.EqualFold takes for ID.
IdNames == {"ID", "Id", "id"}

ParsedFields(mapped) == [i \in DOMAIN mapped |-> parseField(mapped[i])]
WithKey(fields, key) ==
    IF \E i \in DOMAIN fields : fields[i].pk THEN fields
    ELSE [i \in DOMAIN fields |-> IF fields[i].name = key THEN AsKey(fields[i]) ELSE fields[i]]
MetaOf(model, fields, key, ordering) ==
    [name |-> model, table |-> NoName, pk |-> key, ordering |-> ordering, fields |-> WithKey(fields, key)]
OfFields(model, fields, ordering) == MetaOf(model, fields, PKField(fields, IdNames), ordering)

ParseModel(model, struct, ordering) == OfFields(model, ParsedFields(Mapped(struct)), ordering)

\* Register: what is missing in the meta data is filled in.  ParseModel leaves no
\* column empty, so normalizeModelColumns changes nothing here.
Completed(meta) ==
    [meta EXCEPT !.table = IF @ = NoName THEN Table[meta.name] ELSE @,
                 !.pk = IF @ = NoName THEN "id" ELSE @]

NoModels == [models |-> <<>>, ordered |-> <<>>]

\* A name that is registered again is listed twice, with the new meta data.
Register(registry, meta) ==
    [models |-> (meta.name :> Completed(meta)) @@ registry.models,
     ordered |-> Append(registry.ordered, meta.name)]

RegisterModel(registry, model, struct, ordering) == Register(registry, ParseModel(model, struct, ordering))

AllModels(registry) == [i \in DOMAIN registry.ordered |-> registry.models[registry.ordered[i]]]
-----------------------------------------------------------------------------
\* The first field that has the name, the column, or a name with that column.
Resolves(f, name) == f.name = name \/ f.column = name \/ Snake[f.name] = name

Candidates(meta, name) == {i \in DOMAIN meta.fields : Resolves(meta.fields[i], name)}

FieldForNameOrColumn(meta, name) ==
    meta.fields[CHOOSE i \in Candidates(meta, name) : \A j \in Candidates(meta, name) : i <= j]

\* Of a name that is no field, its own column: the database will refuse it.
DBColumnForField(meta, name) ==
    IF Candidates(meta, name) = {} THEN Snake[name] ELSE FieldForNameOrColumn(meta, name).column

PKColumn(meta) == DBColumnForField(meta, meta.pk)

IsAutoPK(meta, name) ==
    /\ Candidates(meta, name) # {}
    /\ FieldForNameOrColumn(meta, name).pk
    /\ FieldForNameOrColumn(meta, name).auto

HasAutoPK(meta) == Candidates(meta, meta.pk) # {} /\ FieldForNameOrColumn(meta, meta.pk).auto

ConcreteFields(meta) == SelectSeq(meta.fields, LAMBDA f : f.type # "manytomany")
=============================================================================
