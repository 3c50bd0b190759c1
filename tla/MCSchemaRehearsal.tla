------------------------- MODULE MCSchemaRehearsal --------------------------
(***************************************************************************)
(* The blog of MCSchemaMigration with a rehearsal of its migrations, which *)
(* the theorems on what the schema is ask for.                             *)
(***************************************************************************)
EXTENDS MCSchemaMigration
SE == INSTANCE SequencesExt

\* A fresh process sends the script; any number of others repeat parts of it, in
\* whatever database has got that far.
RECURSIVE MCState(_, _)
MCState(m, o) ==
    IF o = 0 THEN Intended(m - 1) ELSE StateForwards(MCState(m, o - 1), Migrations[m][o]).st
TodoOf(m) == [o \in 1 .. NumOps[m] |-> Statements(MCState(m, o), Migrations[m][o])]
TextOf(m, o) == SE!FlattenSeq(SubSeq(TodoOf(m), 1, o))
TextBefore(m) == SE!FlattenSeq([k \in 1 .. m - 1 |-> TextOf(k, NumOps[k])])

Sends(dbs, s) == {Effect(d, s) : d \in {x \in dbs : Accepts(x, s)}}
RECURSIVE Repeating(_, _)
Repeating(dbs, statements) ==
    LET more == UNION {Sends(dbs, s) : s \in statements} IN
    IF more \subseteq dbs THEN dbs ELSE Repeating(dbs \union more, statements)
RECURSIVE MCDbs(_, _)
MCDbs(script, n) ==
    Repeating(IF n = 0 THEN {EmptyDB} ELSE Sends(MCDbs(script, n - 1), script[n]), {script[i] : i \in 1 .. n})

MCRehearsal ==
    LET script == TextBefore(Last + 1)
    IN [script |-> script,
        starts |-> [m \in Mig |-> [o \in Places(m) |-> Len(TextBefore(m)) + Len(TextOf(m, o))]],
        states |-> [m \in Mig |-> [o \in Places(m) |-> MCState(m, o)]],
        dbs |-> [n \in 0 .. Len(script) |-> MCDbs(script, n)]]
ASSUME MCRehearsalAssumption == LET r == MCRehearsal IN Rehearsed(r) /\ Plays(r)
=============================================================================
