------------------------------- MODULE MCSite -------------------------------
(* A site of notes: an automatic key, a title, and a rank that may be NULL. *)
(* The view set notes and a list and a detail view read the same table.     *)
EXTENDS Site

\* Startup: base is a production configuration and open one for development.
MCGiven == [o \in Objects |->
    CASE o = "base" -> [DefaultSettings EXCEPT !.ProjectName = "shop", !.AllowedHosts = {"shop"}, !.HSTSSeconds = 60]
      [] o = "open" -> [DefaultSettings EXCEPT !.ProjectName = "shop", !.AllowedHosts = {"*"}]]
MCEnviron == [Debug |-> "false", SecretKey |-> "long", SSLRedirect |-> "yes", BrowserXSSFilter |-> "true"]
MCLabel == [a \in Apps |-> a]
\* The first call of Setup fails, the second succeeds and the third panics; of
\* the other program each call fails.
Calls(object, apps) == [object |-> object, apps |-> apps]
MCPrograms ==
    {<<Calls("open", <<"auth", "notes">>), Calls("base", <<"auth", "notes">>), Calls("base", <<"auth">>)>>,
     <<Calls("base", <<"auth", "auth">>), Calls("base", <<"auth", "notes">>)>>}

\* The model.
T(go, pointer) == [go |-> go, pointer |-> pointer, of |-> NoName]
F(name, type, tags) == [name |-> name, exported |-> TRUE, type |-> type, tags |-> tags]
MCStruct == <<F("ID", T("int64", FALSE), [primary_key |-> ""]), F("Title", T("string", FALSE), <<>>),
              F("Rank", T("int64", TRUE), <<>>)>>
MCSnake == [n \in {"ID", "Title", "Rank", "id", "title", "rank", "page_size", "ghost"} |->
    CASE n \in {"ID", "id"} -> "id" [] n \in {"Title", "title"} -> "title" [] n \in {"Rank", "rank"} -> "rank"
      [] OTHER -> n]
MCWithId == [n \in {"id", "title", "rank"} |-> n]
MCTable == [n \in {"Note"} |-> "notes_note"]
MCOrdered == <<[name |-> "Rank", desc |-> TRUE]>>
MCGoName == [id |-> "ID", title |-> "Title", rank |-> "Rank"]
MCZero == [ID |-> 0, Title |-> "", Rank |-> Null]

MCConfig == [fields |-> <<>>, exclude |-> {},
             options |-> [id |-> [NoOptions EXCEPT !.readOnly = TRUE], Rank |-> [NoOptions EXCEPT !.default = 1]]]
MCSays == [int |-> [t \in {"0", "1", "2", "9"} |-> CASE t = "0" -> 0 [] t = "1" -> 1 [] t = "2" -> 2 [] t = "9" -> 9],
           bool |-> [t \in {"true", "false"} |-> t = "true"]]
MCRejected == [id |-> {}, title |-> {"spam"}, rank |-> {9}]
MCContradictory == {[Title |-> "t2", Rank |-> 2]}
Row(i, t, r) == [id |-> i, title |-> t, rank |-> r]
MCStartRows == {{Row(1, "t1", Null), Row(2, "t2", 2)}}
MCLocked == {[column |-> "title", value |-> "t2"]}

\* The URLs.
MCViews ==
    LET set == [kind |-> "set", parsers |-> {"json", "form"}, renderers |-> {"json"}, versioning |-> "query",
                defaultVersion |-> "", versions |-> {"v1"}, authenticators |-> <<"token", "session">>,
                permissions |-> <<"IsAuthenticated", "ModelPermissions", "Object">>, throttled |-> TRUE,
                filterFields |-> {"rank", "rank__gt"}, searchFields |-> {"title"}, orderingFields |-> {},
                paginator |-> "cursor", pageSize |-> 1, maxSize |-> 0, lookupField |-> "", urlParam |-> ""]
    IN [notes |-> set,
        latest |-> [set EXCEPT !.kind = "list", !.paginator = "none", !.filterFields = {}],
        one |-> [set EXCEPT !.kind = "detail", !.lookupField = "Title", !.urlParam = "slug"]]

Page1(ends, guard) == [ends |-> ends, guard |-> guard]
ReadOnly(name) == [viewset |-> name, actions |-> <<>>]

\* The generic views.
Generic(path, view) == [path |-> path, handler |-> [view |-> view, guard |-> "login"]]
Option == [kind |-> "", engine |-> FALSE, template |-> "", permanent |-> FALSE, finds |-> {"object", "error"},
           onGet |-> {}, handler |-> {}, success |-> FALSE]
MCGeneric ==
    <<Generic("start", [Option EXCEPT !.kind = "template", !.engine = TRUE, !.template = "list.html"]),
      Generic("about", [Option EXCEPT !.kind = "template", !.engine = TRUE, !.template = "lost.html"]),
      Generic("plain", [Option EXCEPT !.kind = "template"]),
      Generic("old", [Option EXCEPT !.kind = "redirect", !.permanent = TRUE]),
      Generic("all", [Option EXCEPT !.kind = "list", !.engine = TRUE, !.template = "detail.html"]),
      Generic("none", [Option EXCEPT !.kind = "list", !.finds = {"unset", "panic"}]),
      Generic("shown", [Option EXCEPT !.kind = "detail", !.engine = TRUE, !.template = "notes/list.html"]),
      Generic("form", [Option EXCEPT !.kind = "form", !.handler = {"page", "panic"}]),
      Generic("ask", [Option EXCEPT !.kind = "form", !.onGet = {"page", "nil"}]),
      Generic("new", [Option EXCEPT !.kind = "create", !.handler = {"page"}]),
      Generic("change", [Option EXCEPT !.kind = "update"]),
      Generic("drop", [Option EXCEPT !.kind = "delete", !.success = TRUE]),
      Generic("v1.0", [Option EXCEPT !.kind = "view"]),
      [path |-> "only", handler |-> [methods |-> {"GET"}, guard |-> "none"]]>>
File(name, base) == [name |-> name, base |-> base]
MCEngineDirs == <<<<File("notes/list.html", "list.html")>>>>
MCAppDirs == [auth |-> <<>>, notes |-> <<File("list.html", "list.html"), File("notes/list.html", "list.html"), File("old/detail.html", "detail.html")>>]
MCPatterns ==
    <<Include(<<"api">>, URLPatterns("notes", "note", "notes", <<>>), "api"),
      Path(<<Lit("latest"), Lit("")>>, ReadOnly("latest"), "latest"),
      Path(<<Lit("by"), Arg("slug", "slug")>>, ReadOnly("one"), "one"),
      Path(<<Lit("home")>>, Page1({"page", "recorder", "nil", "panic"}, "permission"), "home"),
      Path(<<Lit("broken")>>, [func |-> TRUE], "broken")>>
    \o [i \in DOMAIN MCGeneric |-> Path(<<Lit(MCGeneric[i].path)>>, MCGeneric[i].handler, MCGeneric[i].path)]

\* QuoteMeta of the texts of the routes: one has a metacharacter.
MCQuoted(text) == IF text = "v1.0" THEN "v1\\.0" ELSE text

\* The requests.
Hooks == [request |-> "pass", response |-> "unset", exception |-> "unset"]
Get == [method |-> "GET", path |-> <<"home">>, aim |-> Null, query |-> <<>>, content |-> "", body |-> <<>>,
        session |-> "ed", host |-> "shop", csrf |-> TRUE, https |-> TRUE, hooks |-> Hooks, version |-> "",
        credentials |-> [scheme |-> "none", account |-> "none"], format |-> ""]

Aim(name, params) == [name |-> <<"api", name>>, params |-> params]
Named(method, id) == [Get EXCEPT !.method = method, !.path = <<>>, !.aim = Aim("note-detail", [id |-> id])]
At1(method, body) == [Named(method, "1") EXCEPT !.body = body]
List == [Get EXCEPT !.path = <<"api", "notes", "">>]
Post(body) == [List EXCEPT !.method = "POST", !.path = <<>>, !.aim = Aim("note-list", <<>>), !.body = body]
One(slug) == [Get EXCEPT !.path = <<>>, !.aim = [name |-> <<"one">>, params |-> [slug |-> slug]]]
Latest(query) == [Get EXCEPT !.path = <<"latest", "">>, !.query = query]
txt(t) == [kind |-> "text", text |-> t]
num(t) == [kind |-> "number", text |-> t]

Refused ==
    {[At1("DELETE", <<>>) EXCEPT !.csrf = FALSE],
     [At1("PATCH", [title |-> txt("t1")]) EXCEPT !.session = "guest"],
     [At1("PATCH", [title |-> txt("t1")]) EXCEPT !.session = "none"],
     [Post([title |-> txt("t1")]) EXCEPT !.session = "none",
                                         !.credentials = [scheme |-> "Token", account |-> "stolen"]],
     [List EXCEPT !.host = "evil"],
     [List EXCEPT !.format = "xml"],
     [List EXCEPT !.query = [version |-> <<"v9">>]],
     [List EXCEPT !.method = "PATCH"],
     [Post(Invalid) EXCEPT !.content = "json"],
     [Post(<<>>) EXCEPT !.content = "xml"],
     Post([rank |-> num("1")]), Post([title |-> txt("spam")]),
     Named("GET", "2"), Named("GET", "9")}
Pages ==
    {Get, [Get EXCEPT !.session = "guest", !.https = FALSE], [Get EXCEPT !.session = "none"],
     [Get EXCEPT !.hooks.request = "panic"],
     [Get EXCEPT !.hooks.exception = "answer", !.hooks.response = "nil"],
     [Get EXCEPT !.hooks.exception = "panic"],
     [Get EXCEPT !.hooks.response = "panic"],
     [Get EXCEPT !.path = <<"broken">>], [Get EXCEPT !.path = <<"by", "t 1">>], One("t1"),
     [List EXCEPT !.method = "OPTIONS"],
     [Get EXCEPT !.path = <<"api", "notes", "x", "">>]}
Lists ==
    {Latest(<<>>), Latest([page_size |-> <<"1">>]), Latest([limit |-> <<"1">>, ordering |-> <<"-rank", "id">>]),
     Latest([rank__in |-> <<"1", "2">>, offset |-> <<"1">>]), Latest([rank__isnull |-> <<"true">>]),
     Latest([search |-> <<"t">>, limit |-> <<"9">>])}
Odd ==
    {At1("GET", <<>>), At1("PATCH", [Title |-> txt("t2"), rank |-> txt("2")]), At1("PATCH", [title |-> num("1")]),
     Post([title |-> txt("t1"), rank |-> Null])}
Changes ==
    {At1("DELETE", <<>>), At1("PUT", [title |-> txt("t2"), rank |-> Null]), Post([title |-> txt("t1"), rank |-> num("2")])}

MCWalkRequest == List
MCCursorOf == <<"c1", "c2", "c3">>
MCDecoded == [c1 |-> 1, c2 |-> 2, c3 |-> 3]
MCSplit == [n \in {"rank", "rank__gt", "rank__in", "rank__isnull", "title", "id", "page_size"} |->
    CASE n = "rank__gt" -> <<"rank", "gt">> [] n = "rank__in" -> <<"rank", "in">>
      [] n = "rank__isnull" -> <<"rank", "isnull">> [] OTHER -> <<n, "exact">>]
MCOrder == [n \in {"-rank", "id"} |-> IF n = "-rank" THEN [desc |-> TRUE, name |-> "rank"]
                                      ELSE [desc |-> FALSE, name |-> "id"]]
MCContaining == [n \in {"t"} |-> {"t1", "t2"}]

\* Every generic view is asked for everything, and two clients have pages rendered.
Templated == {[Get EXCEPT !.path = <<MCGeneric[i].path>>] : i \in {1, 2, 5, 7}}
Methods == {"GET", "POST", "PUT", "HEAD", "OPTIONS", "TRACE"}
Everything == {[Get EXCEPT !.path = <<MCGeneric[i].path>>, !.method = m] : i \in DOMAIN MCGeneric, m \in Methods}

\* One client looks at everything while another deletes; two that write; one that
\* looks at every page; two that look at templates; and one that walks while another
\* writes.
Client(asks, walks) == [asks |-> asks, walks |-> walks]
MCSites ==
    <<[a |-> Client(Refused \cup Pages \cup Lists \cup Odd, FALSE), b |-> Client({At1("DELETE", <<>>)}, FALSE)],
      [a |-> Client(Changes, FALSE),
       b |-> Client({At1("DELETE", <<>>), At1("PATCH", [rank |-> num("2")])}, FALSE)],
      [a |-> Client(Everything, FALSE), b |-> Client({}, FALSE)],
      [a |-> Client(Templated, FALSE), b |-> Client(Templated, FALSE)],
      [a |-> Client({}, TRUE),
       b |-> Client({At1("DELETE", <<>>), At1("PATCH", <<>>), Post([title |-> txt("t1")])}, FALSE)]>>
MCLayers == <<"recovery", "logging", "host", "common", "security", "xframe", "auth", "csrf", "hooks">>
MCUsers == [ed |-> [active |-> TRUE, admin |-> TRUE], guest |-> [active |-> TRUE, admin |-> FALSE]]

\* The site is put together as the theorems about sites ask.
ASSUME MCSiteAssumption == LayersAreOrdered /\ KeyIsReadOnly /\ NamesDiffer /\ ChangesAskPermission
                            /\ WalksByCursor /\ PathsLeadBack
=============================================================================
