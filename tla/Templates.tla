----------------------------- MODULE Templates -----------------------------
(***************************************************************************)
(* The template engine (templates/engine.go): the set of templates that    *)
(* the first Render loads, file by file, into a field of the engine that   *)
(* all requests read and nobody locks.                                     *)
(*                                                                         *)
(* The loader reads the field again for every template it adds, so that    *)
(* two of them fill whichever set was made last.  A set of html/template   *)
(* takes no more templates once one of it has been executed, or has been   *)
(* asked for.  Data and functions of templates are left out.               *)
(***************************************************************************)
EXTENDS Naturals, Sequences

CONSTANTS
    Incomplete,    \* a template without a text
    Readers,       \* the goroutines that render
    EngineDirs,    \* Engine.Dirs: each the sequence of its .html files as WalkDir finds
                   \* them, [name, base], its path in the directory and its last part
    AppDirs        \* AppDirs[label]: the directory templates of an app, <<>> without one

TemplateFile == [name : STRING, base : STRING]

ASSUME TemplatesAssumption ==
    /\ EngineDirs \in Seq(Seq(TemplateFile))
    /\ \A label \in DOMAIN AppDirs : AppDirs[label] \in Seq(TemplateFile)

VARIABLES
    templates,     \* Engine.templates: [made, texts, escaped]; made is FALSE for nil
    loader,        \* loader[c]: where c is in Render: [at, files], those still to be parsed
    disturbed      \* history: a load failed, or c came to Render while another loaded

templateVars == <<templates, loader, disturbed>>

Unloaded == [made |-> FALSE, texts |-> <<>>, escaped |-> FALSE]
NotRendering == [at |-> "check", files |-> <<>>]

TemplatesInit ==
    /\ templates = Unloaded
    /\ loader = [c \in Readers |-> NotRendering]
    /\ disturbed = FALSE

\* The files of the engine's directories and then of the registered apps.
templateDirs(labels) == EngineDirs \o [i \in DOMAIN labels |-> AppDirs[labels[i]]]
Files(labels) ==
    LET dirs == templateDirs(labels)
        upTo[i \in 0..Len(dirs)] == IF i = 0 THEN <<>> ELSE upTo[i - 1] \o dirs[i]
    IN  upTo[Len(dirs)]

\* Render asks whether there is a set ...
Loading == {c \in Readers : loader[c].at \in {"load", "name", "base"}}
CheckLoaded(c) ==
    /\ loader[c].at = "check"
    /\ loader' = [loader EXCEPT ![c].at = IF templates.made THEN "execute" ELSE "load"]
    /\ disturbed' = (disturbed \/ Loading # {})
    /\ UNCHANGED templates

\* ... and makes an empty one if there was none.
Load(c, labels) ==
    /\ loader[c].at = "load"
    /\ templates' = [Unloaded EXCEPT !.made = TRUE]
    /\ loader' = [loader EXCEPT ![c] = [at |-> "name", files |-> Files(labels)]]
    /\ UNCHANGED disturbed

\* New makes a template without a text, in the place of one of that name, and Parse
\* gives it the text if none of the set has been executed.
Holding(set, name, text) ==
    [set EXCEPT !.texts = [n \in DOMAIN @ \cup {name} |-> IF n = name THEN text ELSE @[n]]]
Added(set, name, file) == Holding(set, name, IF set.escaped THEN Incomplete ELSE file)

\* The first file is parsed under its path ...
ParseName(c) ==
    /\ loader[c].at = "name" /\ loader[c].files # <<>>
    /\ templates' = Added(templates, Head(loader[c].files).name, Head(loader[c].files))
    /\ loader' = [loader EXCEPT ![c].at = IF templates.escaped THEN "failed" ELSE "base"]
    /\ UNCHANGED disturbed

\* Mutant of ParseBase: the last part always names the file that comes last.
ParseBaseAlways(c) ==
    /\ loader[c].at = "base"
    /\ templates' = Added(templates, Head(loader[c].files).base, Head(loader[c].files))
    /\ loader' = [loader EXCEPT ![c] = IF templates.escaped THEN [@ EXCEPT !.at = "failed"]
                                       ELSE [at |-> "name", files |-> Tail(@.files)]]
    /\ UNCHANGED disturbed

\* ... and under the last part of it, if no template has that name.
ParseBase(c) ==
    /\ loader[c].at = "base"
    /\ LET file == Head(loader[c].files) IN
       IF file.base \in DOMAIN templates.texts
       THEN /\ loader' = [loader EXCEPT ![c] = [at |-> "name", files |-> Tail(@.files)]]
            /\ UNCHANGED templates
       ELSE /\ templates' = Added(templates, file.base, file)
            /\ loader' = [loader EXCEPT ![c] = IF templates.escaped THEN [@ EXCEPT !.at = "failed"]
                                               ELSE [at |-> "name", files |-> Tail(@.files)]]
    /\ UNCHANGED disturbed

\* A directory or a file cannot be read, or the file not be parsed.
FileFails(c) ==
    /\ loader[c].at = "name"
    /\ \/ UNCHANGED templates
       \/ loader[c].files # <<>> /\ templates' = Holding(templates, Head(loader[c].files).name, Incomplete)
    /\ loader' = [loader EXCEPT ![c].at = "failed"]
    /\ disturbed' = TRUE

EndLoad(c) ==
    /\ loader[c].at = "name" /\ loader[c].files = <<>>
    /\ loader' = [loader EXCEPT ![c].at = "execute"]
    /\ UNCHANGED <<templates, disturbed>>

LoadStep(c, labels) ==
    \/ CheckLoaded(c)
    \/ Load(c, labels)
    \/ ParseName(c)
    \/ ParseBase(c)
    \/ FileFails(c)
    \/ EndLoad(c)

\* ExecuteTemplate: from now on the set takes no templates, whether there is one of
\* that name or not.
TextOf(name) == IF name \in DOMAIN templates.texts THEN templates.texts[name] ELSE Incomplete

Execute(c) ==
    /\ loader[c].at = "execute"
    /\ templates' = [templates EXCEPT !.escaped = TRUE]
    /\ loader' = [loader EXCEPT ![c] = NotRendering]
    /\ UNCHANGED disturbed

\* Render returns the error of Load; the set stays as it is.
LoadFails(c) ==
    /\ loader[c].at = "failed"
    /\ loader' = [loader EXCEPT ![c] = NotRendering]
    /\ UNCHANGED <<templates, disturbed>>

\* What a name stands for: the last file with that path, or else the first whose
\* path ends in it.
Meant(files, name) ==
    LET named == {i \in DOMAIN files : files[i].name = name}
        based == {i \in DOMAIN files : files[i].base = name}
    IN IF named # {} THEN files[CHOOSE i \in named : \A j \in named : i >= j]
       ELSE IF based # {} THEN files[CHOOSE i \in based : \A j \in based : i <= j]
       ELSE Incomplete
=============================================================================
