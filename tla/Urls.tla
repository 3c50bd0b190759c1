-------------------------------- MODULE Urls --------------------------------
(***************************************************************************)
(* The URL configuration (urls/urls.go, urls/resolver.go) and the patterns *)
(* that the REST router makes (rest/router.go).                            *)
(*                                                                         *)
(* A path is the sequence of the texts between its slashes, so that        *)
(* "/notes/1/" is <<"notes", "1", "">>.  A route is a sequence of literal  *)
(* and converted segments.  Regular expressions (RePath), the path         *)
(* converter (whose values contain slashes) and includes inside of         *)
(* includes are left out.                                                  *)
(***************************************************************************)
EXTENDS Naturals, Sequences

CONSTANTS
    NoMatch,       \* the error of Resolve and of Reverse
    Numerals,      \* the texts made of digits
    ZeroLed,       \* those of two digits or more that start with 0
    Slugs,         \* the texts of [-a-zA-Z0-9_]+
    Uuids,         \* the texts of the pattern of a UUID
    Quoted(_)      \* regexp.QuoteMeta: the text with its metacharacters escaped

Lit(text) == [lit |-> text]
Arg(converter, param) == [converter |-> converter, param |-> param]
IsArg(segment) == "param" \in DOMAIN segment

Path(route, handler, name) == [route |-> route, handler |-> handler, name |-> name]
Include(prefix, patterns, namespace) ==
    [prefix |-> prefix, patterns |-> patterns, namespace |-> namespace]
IsInclude(pattern) == "prefix" \in DOMAIN pattern

\* The regular expression of a converter, and then its function; a converter
\* that is not known is that of strings.
Converts(converter, text) ==
    /\ text # ""
    /\ converter = "int" => text \in Numerals \ ZeroLed
    /\ converter = "slug" => text \in Slugs
    /\ converter = "uuid" => text \in Uuids

Fits(segment, text) ==
    IF IsArg(segment) THEN Converts(segment.converter, text) ELSE segment.lit = text

ParamsOf(route) == {segment.param : segment \in {s \in {route[i] : i \in DOMAIN route} : IsArg(s)}}
Place(route, param) == CHOOSE i \in DOMAIN route : IsArg(route[i]) /\ route[i].param = param

\* matchPattern
Matches(pattern, path) ==
    /\ Len(pattern.route) = Len(path)
    /\ \A i \in DOMAIN path : Fits(pattern.route[i], path[i])

Match(pattern, path, name) ==
    [handler |-> pattern.handler, name |-> name,
     params |-> [p \in ParamsOf(pattern.route) |-> path[Place(pattern.route, p)]]]

Under(prefix, path) == Len(prefix) <= Len(path) /\ SubSeq(path, 1, Len(prefix)) = prefix
Remaining(prefix, path) ==
    IF Len(path) = Len(prefix) THEN <<"">> ELSE SubSeq(path, Len(prefix) + 1, Len(path))

First(hits) == CHOOSE i \in hits : \A j \in hits : i <= j

\* resolvePatterns without includes: the first pattern that matches.
FirstMatch(patterns, path, namespace) ==
    LET hits == {i \in DOMAIN patterns : Matches(patterns[i], path)} IN
    IF hits = {} THEN NoMatch
    ELSE LET hit == patterns[First(hits)] IN
         Match(hit, path, IF namespace = "" \/ hit.name = "" THEN <<hit.name>> ELSE <<namespace, hit.name>>)

\* What one entry makes of a path: resolveInclude or matchPattern.
Resolved(entry, path) ==
    IF ~IsInclude(entry) THEN FirstMatch(<<entry>>, path, "")
    ELSE IF ~Under(entry.prefix, path) THEN NoMatch
    ELSE FirstMatch(entry.patterns, Remaining(entry.prefix, path), entry.namespace)

\* Resolver.Resolve: an include that has no match does not end the search.
Resolve(urlconf, path) ==
    LET hits == {i \in DOMAIN urlconf : Resolved(urlconf[i], path) # NoMatch} IN
    IF hits = {} THEN NoMatch ELSE Resolved(urlconf[First(hits)], path)

\* The patterns in their order, each with the prefix of its include, and those with names.
AllPatterns(urlconf) ==
    UNION {IF IsInclude(urlconf[i])
           THEN {[at |-> <<i, j>>, prefix |-> urlconf[i].prefix, pattern |-> urlconf[i].patterns[j]]
                    : j \in DOMAIN urlconf[i].patterns}
           ELSE {[at |-> <<i, 0>>, prefix |-> <<>>, pattern |-> urlconf[i]]}
              : i \in DOMAIN urlconf}
Entries(urlconf) == {e \in AllPatterns(urlconf) : e.pattern.name # ""}

Earlier(a, b) == a[1] < b[1] \/ (a[1] = b[1] /\ a[2] < b[2])

\* Mutant of indexPatterns: the prefix of the include is lost.
IndexWithoutPrefix(urlconf) ==
    [n \in {e.pattern.name : e \in Entries(urlconf)} |->
        LET named == {e \in Entries(urlconf) : e.pattern.name = n} IN
        [(CHOOSE e \in named : \A o \in named : o = e \/ Earlier(o.at, e.at)) EXCEPT !.prefix = <<>>]]

\* indexPatterns: a map from names, without their namespaces; of two patterns
\* with one name the last one stays.
indexPatterns(urlconf) ==
    [n \in {e.pattern.name : e \in Entries(urlconf)} |->
        LET named == {e \in Entries(urlconf) : e.pattern.name = n} IN
        CHOOSE e \in named : \A o \in named : o = e \/ Earlier(o.at, e.at)]

\* Resolver.Reverse and buildReverse, for a name with or without a namespace: the
\* regular expression of the pattern, with its literals escaped as they are in it.
Reverse(urlconf, name, kwargs) ==
    LET names == indexPatterns(urlconf)
        local == name[Len(name)]
    IN IF local \notin DOMAIN names \/ ~(ParamsOf(names[local].pattern.route) \subseteq DOMAIN kwargs)
       THEN NoMatch
       ELSE LET route == names[local].pattern.route IN
            names[local].prefix
                \o [i \in DOMAIN route |-> IF IsArg(route[i]) THEN kwargs[route[i].param] ELSE Quoted(route[i].lit)]
-----------------------------------------------------------------------------
(* When a path that is built from a name leads back to its pattern.        *)

Segments == [lit : STRING] \cup [converter : STRING \ {"path"}, param : STRING]
WellFormed(urlconf) ==
    /\ \A e \in AllPatterns(urlconf) :
          /\ e.at[1] \in Nat /\ e.at[2] \in Nat
          /\ e.prefix \in Seq(STRING) /\ e.pattern.route \in Seq(Segments) \ {<<>>} /\ e.pattern.name \in STRING
    /\ \A i \in DOMAIN urlconf : IsInclude(urlconf[i]) => urlconf[i].namespace \in STRING

\* No text fits both segments, and no path both ways; a pattern of an include that
\* is its root has two ways, with and without the last slash.
Apart(s, t) == ~(IsArg(s) /\ IsArg(t)) /\ IF IsArg(s) THEN ~Fits(s, t.lit) ELSE ~Fits(t, s.lit)
Differ(way, other) == Len(way) # Len(other) \/ \E i \in DOMAIN way : Apart(way[i], other[i])

Literal(texts) == [i \in DOMAIN texts |-> Lit(texts[i])]
Whole(e) == Literal(e.prefix) \o e.pattern.route
Ways(e) == {Whole(e)} \cup (IF e.pattern.route = <<Lit("")>> THEN {Literal(e.prefix)} ELSE {})

\* The last pattern of its name, with none before it that takes its paths, params
\* that its converters accept, and literals without metacharacters.
IsLast(urlconf, e) ==
    \A o \in Entries(urlconf) : o.pattern.name = e.pattern.name => o = e \/ Earlier(o.at, e.at)
IsFree(urlconf, e) ==
    \A o \in AllPatterns(urlconf) : Earlier(o.at, e.at) => \A way \in Ways(o) : Differ(way, Whole(e))
Takes(e, params) ==
    LET route == e.pattern.route IN
    /\ params \in [ParamsOf(route) -> STRING]
    /\ \A i \in DOMAIN route : IsArg(route[i]) => Converts(route[i].converter, params[route[i].param])
IsPlain(e) ==
    LET route == e.pattern.route IN \A i \in DOMAIN route : ~IsArg(route[i]) => Quoted(route[i].lit) = route[i].lit
-----------------------------------------------------------------------------
(* rest.Router                                                             *)

ViewSet(name, actions) == [viewset |-> name, actions |-> actions]

CollectionActions == [GET |-> "list", POST |-> "create"]
DetailActions == [GET |-> "retrieve", PUT |-> "update", PATCH |-> "partial_update", DELETE |-> "destroy"]

\* One extra action [name, methods, detail] of a viewset.
ExtraPattern(prefix, basename, viewset, action) ==
    LET detail == IF action.detail THEN <<Arg("int", "id")>> ELSE <<>> IN
    Path(<<Lit(prefix)>> \o detail \o <<Lit(action.name), Lit("")>>,
         ViewSet(viewset, [m \in action.methods |-> action.name]),
         basename \o (IF action.detail THEN "-detail-" ELSE "-") \o action.name)

\* Router.URLPatterns for one registered viewset.  The parameter of the detail
\* routes is called id, whatever the primary key is called.
URLPatterns(prefix, basename, viewset, extras) ==
    <<Path(<<Lit(prefix), Lit("")>>, ViewSet(viewset, CollectionActions), basename \o "-list"),
      Path(<<Lit(prefix), Arg("int", "id"), Lit("")>>, ViewSet(viewset, DetailActions), basename \o "-detail")>>
    \o [i \in DOMAIN extras |-> ExtraPattern(prefix, basename, viewset, extras[i])]
=============================================================================
