----------------------------- MODULE Serializer -----------------------------
(***************************************************************************)
(* ModelSerializer (rest/serializer.go): the bindings of a model's fields, *)
(* what one of them makes of the input, and how validated values reach a   *)
(* struct.  The steps of bind, in which requests meet, are in Site.        *)
(*                                                                         *)
(* The body of a request is a function from names to values: Null, or      *)
(* [kind, text] with kind "text", "number", "bool" or "list".  A coerced   *)
(* value is what the text says in the type of the field.  A struct and a   *)
(* row are functions, of field names and of columns.                       *)
(***************************************************************************)
EXTENDS OrmModels

CONSTANTS
    Unset,       \* an option that is not given
    Unstorable,  \* a value of a type that the column does not take
    GoName,      \* GoName[column]: dbColumnToGoField
    Says,        \* Says[family]: from the texts that a type can read to what they say
    Rejected     \* Rejected[column]: what a validator of that field refuses

KeyTypes == {"auto", "bigauto", "smallauto"}
IntTypes == KeyTypes \cup Integers32 \cup Integers64 \cup
            {"smallint", "positivesmallint", "foreignkey", "onetoonetype"}
BoolTypes == {"boolean", "nullboolean"}
NumberTypes == {"float", "double", "decimal"}
TimeTypes == {"datetime", "date", "time"}

\* The kinds of JSON values that toInt64, toBoolValue, toFloat64 and toTime read.
Family(f) ==
    CASE f.type \in IntTypes -> "int"
      [] f.type \in BoolTypes -> "bool"
      [] f.type \in NumberTypes -> "float"
      [] f.type \in TimeTypes -> f.type
      [] OTHER -> "text"

Kinds == [int |-> {"number", "text"}, bool |-> {"bool", "text"}, float |-> {"number", "text"},
          datetime |-> {"text"}, date |-> {"text"}, time |-> {"text"}]

\* The options [readOnly, writeOnly, required, default] of a field: those of its
\* column under those of its name.
NoOptions == [readOnly |-> FALSE, writeOnly |-> FALSE, required |-> Unset, default |-> Unset]

mergeFieldOptions(left, right) ==
    [readOnly |-> left.readOnly \/ right.readOnly,
     writeOnly |-> left.writeOnly \/ right.writeOnly,
     required |-> IF right.required # Unset THEN right.required ELSE left.required,
     default |-> IF right.default # Unset THEN right.default ELSE left.default]

OptionsFor(options, name) == IF name \in DOMAIN options THEN options[name] ELSE NoOptions

\* A configuration is [fields, exclude, options].  Whoever names fields must not
\* exclude any, and every name must be that of a field that has a column.
Misconfigured(meta, cfg) ==
    \/ cfg.fields # <<>> /\ cfg.exclude # {}
    \/ \E name \in cfg.exclude : Candidates(meta, name) = {}
    \/ \E i \in DOMAIN cfg.fields :
          \/ Candidates(meta, cfg.fields[i]) = {}
          \/ FieldForNameOrColumn(meta, cfg.fields[i]).type = "manytomany"

BoundFields(meta, cfg) ==
    IF cfg.fields # <<>>
    THEN [i \in DOMAIN cfg.fields |-> FieldForNameOrColumn(meta, cfg.fields[i])]
    ELSE LET excluded == {FieldForNameOrColumn(meta, name).column : name \in cfg.exclude}
         IN SelectSeq(ConcreteFields(meta), LAMBDA f : f.column \notin excluded)

buildFieldBindings(meta, cfg) ==
    LET fields == BoundFields(meta, cfg) IN
    [i \in DOMAIN fields |->
        [field |-> fields[i], outputName |-> fields[i].column,
         structNames |-> <<fields[i].name, GoName[fields[i].column]>>,
         options |-> mergeFieldOptions(OptionsFor(cfg.options, fields[i].column),
                                       OptionsFor(cfg.options, fields[i].name))]]

serializerFieldRequired(b) ==
    IF b.options.required # Unset THEN b.options.required
    ELSE ~(b.field.pk /\ b.field.auto) /\ ~b.field.autoNow /\ ~b.field.null

\* Mutant of validatedKey: the name in the input is kept.
KeyOfInput(b) == b.outputName

\* The key under which a value is kept: the Go name of the column, whatever the
\* field of the struct is called.
validatedKey(b) == b.structNames[2]

\* lookupInput: by the column first, and then by the name of the field.
Supplied(b, body) == {b.outputName, b.field.name} \cap DOMAIN body # {}
lookupInput(b, body) == body[IF b.outputName \in DOMAIN body THEN b.outputName ELSE b.field.name]

Reads(f, raw) ==
    IF raw = Null THEN f.null
    ELSE Family(f) # "text" => raw.kind \in Kinds[Family(f)] /\ raw.text \in DOMAIN Says[Family(f)]

coerceSerializerValue(f, raw) ==
    IF raw = Null THEN Null
    ELSE IF Family(f) # "text" THEN Says[Family(f)][raw.text]
    ELSE IF raw.kind = "text" THEN raw.text ELSE Unstorable

\* What bind makes of one field: nothing, a value to keep, an error, or a value
\* that is kept although a validator refuses it.
Nothing == [keep |-> FALSE, value |-> Null, error |-> FALSE]
BindOne(b, body, partial) ==
    IF b.options.readOnly THEN Nothing
    ELSE IF ~Supplied(b, body)
    THEN IF b.options.default # Unset THEN [keep |-> TRUE, value |-> b.options.default, error |-> FALSE]
         ELSE [Nothing EXCEPT !.error = ~partial /\ serializerFieldRequired(b)]
    ELSE IF ~Reads(b.field, lookupInput(b, body)) THEN [Nothing EXCEPT !.error = TRUE]
    ELSE LET cleaned == coerceSerializerValue(b.field, lookupInput(b, body)) IN
         [keep |-> TRUE, value |-> cleaned, error |-> cleaned \in Rejected[b.outputName]]
-----------------------------------------------------------------------------
(* Structs and rows.  A map is a partial function from validated keys.     *)

\* map[key] = value
With(map, key, value) == [k \in DOMAIN map \cup {key} |-> IF k = key THEN value ELSE map[k]]

\* assignMapToStruct: nil, a key that is no field, and a value that does not
\* convert to the field, which a pointer is for all of them, change nothing.
assignMapToStruct(pointers, instance, data) ==
    [n \in DOMAIN instance |->
        IF n \in DOMAIN data \ pointers /\ data[n] \notin {Null, Unstorable} THEN data[n]
        ELSE instance[n]]

\* readBindingValue of a struct: its field of the first name that is one.
readBindingValue(b, instance) ==
    IF b.structNames[1] \in DOMAIN instance THEN instance[b.structNames[1]]
    ELSE IF b.structNames[2] \in DOMAIN instance THEN instance[b.structNames[2]] ELSE Null

\* Serialize, without the fields that are only written.
Shown(bindings) == {bindings[i] : i \in DOMAIN bindings} \ {b \in {bindings[i] : i \in DOMAIN bindings} : b.options.writeOnly}
Serialize(bindings, instance) ==
    [name \in {b.outputName : b \in Shown(bindings)} |->
        readBindingValue(CHOOSE b \in Shown(bindings) : b.outputName = name, instance)]

\* What an INSERT or an UPDATE of the validated values puts into the columns.
ColumnOf(meta, key) == DBColumnForField(meta, key)
Stored(meta, row, data) ==
    [col \in DOMAIN row |->
        IF \E key \in DOMAIN data : ColumnOf(meta, key) = col
        THEN data[CHOOSE key \in DOMAIN data : ColumnOf(meta, key) = col]
        ELSE row[col]]
=============================================================================
