-------------------------------- MODULE Site --------------------------------
(***************************************************************************)
(* A site in use: a program that starts (Startup) and then serves requests *)
(* that are resolved (Urls), go through its middlewares (Middleware) and   *)
(* end in pages of the application (Pages, Templates) or in REST views     *)
(* (RestView, Serializer) on one table; server/server.go puts them         *)
(* together.                                                               *)
(*                                                                         *)
(* Requests run at the same time.  What they share is the table, the set   *)
(* of templates and the serializer: a view has one ModelSerializer, and    *)
(* Bind keeps its results in that object.  Everything up to the first      *)
(* statement or the first access to one of these is one step.              *)
(***************************************************************************)
EXTENDS Startup, Urls, RestView, Pages, Templates

CONSTANTS
    Clients,
    Patterns,      \* the URL configuration
    Views,         \* Views[name]: the options of a REST view
    Sites,         \* what the clients may be like: a sequence of functions from clients
                   \* to [asks, walks], their requests and whether they walk through
    WalkRequest,   \* the list of this request by its cursor
    CursorOf,      \* CursorOf[id]: the cursor that a client makes of a key
    Struct, Model, Ordered, Config,   \* the model and the options of its serializer
    Locked,        \* the objects that are refused: [column, value] of one of their columns
    Contradictory, \* the maps that an object validator refuses
    Zero,          \* new(T)
    StartRows,     \* the table at first
    MaxId          \* bound: rows are created as long as there are keys

VARIABLES
    site,        \* which of Sites this one is
    listening,   \* the program has begun to serve
    running,     \* and has not been killed
    rows,        \* the table
    nextId,      \* its sequence
    bound,       \* the serializer: [validated, errors]
    call,        \* call[c]: the request of client c
    walk         \* walk[c]: history of a walk: [seen, kept, done]

siteVars == <<site, listening, running, rows, nextId, bound, call, walk>>
vars == <<startupVars, templateVars, siteVars>>

Meta == RegisterModel(NoModels, Model, Struct, Ordered).models[Model]
Key == PKColumn(Meta)
Bindings == buildFieldBindings(Meta, Config)
Pointers == {Struct[i].name : i \in {j \in DOMAIN Struct : Struct[j].type.pointer}}
Columns == {ConcreteFields(Meta)[i].column : i \in DOMAIN ConcreteFields(Meta)}
NotNull == {ConcreteFields(Meta)[i].column : i \in {j \in DOMAIN ConcreteFields(Meta) : ~ConcreteFields(Meta)[j].null}}

\* What the constraints of the columns let in.
Stores(row) ==
    /\ \A col \in Columns : row[col] # Unstorable
    /\ \A col \in NotNull : row[col] # Null

\* The clients' requests are what renders, and every app may have templates.
ASSUME ClientsAssumption == Readers = Clients /\ Labels \subseteq DOMAIN AppDirs

\* The model has a primary key, what is bound is a slice of columns
\* (serializer.go:424), and the table has its first rows from its sequence.
ASSUME TableAssumption ==
    /\ Key \in Columns /\ Meta.pk \in DOMAIN Zero
    /\ ~Misconfigured(Meta, Config) => /\ Bindings \in Seq({Bindings[i] : i \in DOMAIN Bindings})
                                       /\ \A i \in DOMAIN Bindings : Bindings[i].field.column \in Columns
    /\ \A table \in StartRows :
          /\ IsFiniteSet(table)
          /\ \A row \in table : DOMAIN row = Columns /\ Stores(row) /\ row[Key] \in 1..Cardinality(table)
          /\ \A a, b \in table : a[Key] = b[Key] => a = b

\* scanRowsGeneric
Loaded(row) == [n \in DOMAIN Zero |-> row[DBColumnForField(Meta, n)]]

Fresh == [pc |-> "idle", req |-> Null, action |-> "", match |-> NoMatch,
          plan |-> Null, instance |-> Null, before |-> Null, next |-> 1, outcome |-> Nil, data |-> <<>>,
          alone |-> FALSE, wrote |-> FALSE]

SiteInit ==
    /\ StartupInit /\ TemplatesInit
    /\ site \in DOMAIN Sites
    /\ listening = FALSE /\ running = TRUE
    /\ rows \in StartRows
    /\ nextId = 1 + Cardinality(rows)
    /\ bound = [validated |-> <<>>, errors |-> FALSE]
    /\ call = [c \in Clients |-> Fresh]
    /\ walk = [c \in Clients |-> [seen |-> <<>>, kept |-> {}, done |-> TRUE]]

\* The main goroutine listens when it has made its calls of Setup and one succeeded.
Listen ==
    /\ up # None /\ setup.pc = "idle" /\ calls = <<>> /\ ~listening
    /\ listening' = TRUE
    /\ UNCHANGED <<startupVars, templateVars, site, running, rows, nextId, bound, call, walk>>

\* From then on only other goroutines run.
Starting ==
    /\ IF listening THEN \E a \in Apps : AskReady(a) ELSE StartupNext
    /\ UNCHANGED <<templateVars, siteVars>>

Serving == listening /\ running
-----------------------------------------------------------------------------
(* Answers.  A call of c becomes to, with the answer that the middlewares  *)
(* make of what the view returned.                                         *)

Api(status) == Response("api", status)
Answered(was, out, data) ==
    [was EXCEPT !.pc = "answered", !.data = data, !.outcome = AnsweredWith(settings[global], was.req, out)]

ViewOf(c) == Views[call[c].match.handler.viewset]

Answer(c, out, data) == call' = [call EXCEPT ![c] = Answered(@, out, data)]

\* resolveHandler takes ViewFuncs and http.Handlers.
Callable(handler) == "func" \notin DOMAIN handler

\* A page of the application is a function, the answer of AllowedMethods, or a
\* generic view.
Outcomes(handler, method) ==
    IF "ends" \in DOMAIN handler THEN Endings(handler.ends)
    ELSE IF "methods" \in DOMAIN handler THEN AllowedMethods(handler, method)
    ELSE AsView(handler.view, method)

\* What comes out of the layers as a page by a template is rendered when it is written.
ToRender(was) == IF was.outcome.type = "template" THEN [was EXCEPT !.pc = "render"] ELSE was

\* The client writes a path or has it built from a name.
PathOf(req) == IF req.aim = Null THEN req.path ELSE Reverse(Patterns, req.aim.name, req.aim.params)

\* AsView of a view set, through Dispatch, and of ListAPIView and DetailAPIView.
ActionOf(handler, view, req, params, throttled) ==
    IF view.kind = "set"
    THEN [status |-> Dispatch(view, handler.actions, req, params, RequestUser(req), throttled),
          action |-> ActionFor(handler.actions, req.method)]
    ELSE [status |-> IF req.method \in {"GET", "HEAD", "OPTIONS"} THEN 0 ELSE 405,
          action |-> IF req.method = "OPTIONS" THEN "options"
                     ELSE IF view.kind = "list" THEN "list" ELSE "retrieve"]

\* Where a handler begins: [pc, plan], or the status it answers at once.  A list
\* is counted unless it is paged by cursor; an extra action is the application's.
Begin(view, action, req, params) ==
    CASE action = "list" ->
            (LET plan == ListPlan(view, Meta, req.query) IN
             IF plan = Invalid THEN [status |-> 400, pc |-> "", plan |-> Null]
             ELSE [status |-> 0, pc |-> IF plan.counts THEN "count" ELSE "rows", plan |-> plan])
      [] action = "create" -> [status |-> 0, pc |-> "bind", plan |-> Null]
      [] action \in {"retrieve", "update", "partial_update", "destroy"} ->
            (LET plan == ObjectPlan(view, Meta, params) IN
             IF plan = Invalid THEN [status |-> 400, pc |-> "", plan |-> Null]
             ELSE [status |-> 0, pc |-> "object", plan |-> plan])
      [] OTHER -> [status |-> 200, pc |-> "", plan |-> Null]

\* The requests there are, with those for the further pages of a walk.
Continued(id) == [WalkRequest EXCEPT !.query = [cursor |-> <<CursorOf[id]>>]]
AllAsks == UNION {Sites[i][c].asks : i \in DOMAIN Sites, c \in Clients}
Requests == AllAsks \cup {WalkRequest} \cup {Continued(id) : id \in DOMAIN CursorOf}

\* resolveHandler, for each of them: NoMatch too if it finds nothing callable.
CalledOf(match) == IF match = NoMatch THEN NoMatch ELSE IF Callable(match.handler) THEN match ELSE NoMatch
resolveHandler ==
    [req \in Requests |-> IF PathOf(req) = NoMatch THEN NoMatch ELSE CalledOf(Resolve(Patterns, PathOf(req)))]

\* What a REST view does with a request: an answer at once, or where it begins.
At0(status) == [status |-> status, pc |-> "", plan |-> Null, action |-> ""]
Handles(does, view, req, params) ==
    IF does.status # 0 THEN At0(does.status)
    ELSE LET begin == Begin(view, does.action, req, params) IN
         [status |-> begin.status, pc |-> begin.pc, plan |-> begin.plan, action |-> does.action]

Handling(match, view, req, throttled) ==
    Handles(ActionOf(match.handler, view, req, match.params, throttled), view, req, match.params)

IsApi(match) == match # NoMatch /\ "viewset" \in DOMAIN match.handler
ViewFor(match) == Views[match.handler.viewset]

\* For each request what its view does, with and without the throttle's consent.
Handled ==
    [req \in Requests |->
        IF ~IsApi(resolveHandler[req]) THEN {}
        ELSE {Handling(resolveHandler[req], ViewFor(resolveHandler[req]), req, throttled) :
                 throttled \in IF ViewFor(resolveHandler[req]).throttled THEN BOOLEAN ELSE {FALSE}}]

\* A REST view is called: rows are created only as long as there are keys for them.
Creating == {d \in Clients : call[d].action = "create" /\ call[d].pc \in {"bind", "binding", "insert"}}
Serve(c, was, does) ==
    /\ does.action = "create" => nextId + Cardinality(Creating) <= MaxId
    /\ call' = [call EXCEPT ![c] =
          IF does.status # 0 THEN Answered(was, Api(does.status), <<>>)
          ELSE [was EXCEPT !.pc = does.pc, !.plan = does.plan, !.action = does.action]]

\* ServeHTTP as far as nothing is shared: no view and no middleware for a path that
\* is not resolved, and no view for a request that a middleware stops.
Arrive(c, req, was) ==
    IF was.match = NoMatch
    THEN call' = [call EXCEPT ![c] = [was EXCEPT !.pc = "answered", !.outcome = Response("page", 404)]]
    ELSE IF ~ReachesView(req)
    THEN call' = [call EXCEPT ![c] = [was EXCEPT !.pc = "answered", !.outcome = StoppedWith(settings[global], req)]]
    ELSE IF IsApi(was.match) THEN \E does \in Handled[req] : Serve(c, was, does)
    ELSE \E out \in Outcomes(was.match.handler, req.method) :
            call' = [call EXCEPT ![c] =
                ToRender(Answered(was, Guarded(was.match.handler.guard, RequestUser(req), out), <<>>))]

Ids(set) == {row[Key] : row \in set}
Last1(seen) == seen[Len(seen)]

\* A client asks, begins a walk, or asks for the page after the last key it has
\* seen, of which it has a cursor.
Goes(c) == ~walk[c].done /\ walk[c].seen # <<>> /\ Last1(walk[c].seen) \in DOMAIN CursorOf
Wishes(c) ==
    Sites[site][c].asks
        \cup (IF Sites[site][c].walks THEN {WalkRequest} ELSE {})
        \cup (IF Goes(c) THEN {Continued(Last1(walk[c].seen))} ELSE {})

Ask(c, req) ==
    /\ Serving /\ call[c].pc = "idle"
    /\ Arrive(c, req, [Fresh EXCEPT !.req = req, !.match = resolveHandler[req]])
    /\ walk' = IF Sites[site][c].walks /\ req = WalkRequest
               THEN [walk EXCEPT ![c] = [seen |-> <<>>, kept |-> Ids(rows), done |-> FALSE]] ELSE walk
    /\ UNCHANGED <<startupVars, templateVars, site, listening, running, rows, nextId, bound>>

\* The client has its answer.
Leave(c) ==
    /\ Serving /\ call[c].pc = "answered"
    /\ call' = [call EXCEPT ![c] = Fresh]
    /\ UNCHANGED <<startupVars, templateVars, site, listening, running, rows, nextId, bound, walk>>

\* The page is rendered into a buffer, and written if there was no error; of an
\* error the client is told nothing, and it gets an empty page of status 200.
Written(c, shown) == call' = [call EXCEPT ![c].pc = "answered", ![c].data = <<shown>>]

Render(c) ==
    /\ Serving /\ call[c].pc = "render"
    /\ LoadStep(c, ordered)
    /\ UNCHANGED <<startupVars, siteVars>>

Show(c) ==
    /\ Serving /\ call[c].pc = "render"
    /\ \/ Execute(c) /\ Written(c, TextOf(call[c].match.handler.view.template))
       \/ LoadFails(c) /\ Written(c, Incomplete)
    /\ UNCHANGED <<startupVars, site, listening, running, rows, nextId, bound, walk>>
-----------------------------------------------------------------------------
(* Reading.                                                                *)

At(c, pc) == Serving /\ call[c].pc = pc

\* The count of a list is a statement of its own, and only shown.
Count(c) ==
    /\ At(c, "count")
    /\ call' = [call EXCEPT ![c].pc = "rows"]
    /\ UNCHANGED <<startupVars, templateVars, site, listening, running, rows, nextId, bound, walk>>

Walked(c, page) ==
    [walk EXCEPT ![c].seen = @ \o page, ![c].done = Len(page) < call[c].plan.limit]

Rows(c) ==
    /\ At(c, "rows")
    /\ \E listing \in Listings(call[c].plan.ordering, Chosen(call[c].plan, rows)) :
          LET page == Cut(call[c].plan, listing) IN
          /\ Answer(c, Api(200), [i \in DOMAIN page |-> Serialize(Bindings, Loaded(page[i]))])
          /\ walk' = IF Sites[site][c].walks /\ ~walk[c].done
                     THEN Walked(c, [i \in DOMAIN page |-> page[i][Key]]) ELSE walk
    /\ UNCHANGED <<startupVars, templateVars, site, listening, running, rows, nextId, bound>>

\* getObject: Get, and then the permissions for that object.
GetObject(c) ==
    /\ At(c, "object")
    /\ LET found == {row \in rows : Holds(call[c].plan, row[call[c].plan.column])}
           row == CHOOSE r \in found : TRUE
           view == ViewOf(c)
           refused == IF view.kind # "set" THEN 0
                      ELSE checkObjectPermissions(view, call[c].req,
                              authenticateRequest(view, call[c].req, RequestUser(call[c].req)), \E l \in Locked : row[l.column] = l.value)
       IN IF found = {} THEN Answer(c, Api(404), <<>>)
          ELSE IF Cardinality(found) > 1 THEN Answer(c, Api(500), <<>>)
          ELSE IF refused # 0 THEN Answer(c, Api(refused), <<>>)
          ELSE IF call[c].action = "retrieve" THEN Answer(c, Api(200), <<Serialize(Bindings, Loaded(row))>>)
          ELSE call' = [call EXCEPT ![c].pc = IF call[c].action = "destroy" THEN "delete" ELSE "bind",
                                    ![c].instance = Loaded(row), ![c].before = row]
    /\ UNCHANGED <<startupVars, templateVars, site, listening, running, rows, nextId, bound, walk>>

\* A statement fails without effect; of a list that is counted the client is told
\* it made a mistake.
DatabaseFails(c) ==
    /\ Serving
    /\ call[c].pc \in {"count", "rows", "object", "insert", "update", "delete"}
    /\ Answer(c, Api(IF call[c].pc = "count" /\ ViewOf(c).kind = "set" THEN 400 ELSE 500), <<>>)
    /\ UNCHANGED <<startupVars, templateVars, site, listening, running, rows, nextId, bound, walk>>
-----------------------------------------------------------------------------
(* Bind, on the serializer that all requests of the view share.            *)

Partial(c) == call[c].action = "partial_update"
Binding == {c \in Clients : call[c].pc = "binding"}

\* Mutant of StartBind: what an earlier request has left is kept.
StartBindUncleared(c) ==
    /\ At(c, "bind")
    /\ bound' = [bound EXCEPT !.errors = Misconfigured(Meta, Config)]
    /\ call' = [d \in Clients |->
                  IF d = c THEN [call[c] EXCEPT !.pc = "binding", !.next = 1, !.alone = Binding = {}]
                  ELSE [call[d] EXCEPT !.alone = FALSE]]
    /\ UNCHANGED <<startupVars, templateVars, site, listening, running, rows, nextId, walk>>

StartBind(c) ==
    /\ At(c, "bind")
    /\ bound' = [validated |-> <<>>, errors |-> Misconfigured(Meta, Config)]
    /\ call' = [d \in Clients |->
                  IF d = c THEN [call[c] EXCEPT !.pc = "binding", !.next = 1, !.alone = Binding = {}]
                  ELSE [call[d] EXCEPT !.alone = FALSE]]
    /\ UNCHANGED <<startupVars, templateVars, site, listening, running, rows, nextId, walk>>

BindField(c) ==
    /\ At(c, "binding")
    /\ ~Misconfigured(Meta, Config) /\ call[c].next \in DOMAIN Bindings
    /\ LET b == Bindings[call[c].next]
           one == BindOne(b, call[c].req.body, Partial(c))
       IN bound' = [validated |-> IF one.keep THEN With(bound.validated, validatedKey(b), one.value)
                                  ELSE bound.validated,
                    errors |-> bound.errors \/ one.error]
    /\ call' = [call EXCEPT ![c].next = @ + 1]
    /\ UNCHANGED <<startupVars, templateVars, site, listening, running, rows, nextId, walk>>

\* The object validators are asked if there are no errors yet.
FinishBind(c) ==
    /\ At(c, "binding")
    /\ Misconfigured(Meta, Config) \/ call[c].next \notin DOMAIN Bindings
    /\ bound' = [bound EXCEPT !.errors = @ \/ bound.validated \in Contradictory]
    /\ IF bound'.errors THEN Answer(c, Api(400), <<>>)
       ELSE call' = [call EXCEPT ![c].pc = IF call[c].action = "create" THEN "insert" ELSE "assign"]
    /\ UNCHANGED <<startupVars, templateVars, site, listening, running, rows, nextId, walk>>

\* Two goroutines that write one map: the Go runtime may end the program.
MapWritesCollide ==
    /\ Serving
    /\ Cardinality(Binding) > 1
    /\ running' = FALSE
    /\ UNCHANGED <<startupVars, templateVars, site, listening, rows, nextId, bound, call, walk>>
-----------------------------------------------------------------------------
(* Writing: one statement each, whose answer may get lost after its effect.*)

\* The rows change under everybody else.
Wrote(c, was, how, out, data) ==
    call' = [d \in Clients |->
               IF d # c THEN [call[d] EXCEPT !.alone = FALSE]
               ELSE IF how = "lost" THEN Answered([was EXCEPT !.wrote = TRUE], Api(500), <<>>)
               ELSE Answered([was EXCEPT !.wrote = TRUE], out, data)]

Blank == [col \in Columns |-> IF col = Key THEN nextId ELSE Null]

\* Create: INSERT reads the validated values, and the answer reads them again.
Insert(c, how) ==
    /\ At(c, "insert")
    /\ LET row == Stored(Meta, Blank, bound.validated) IN
       IF ~Stores(row)
       THEN how = "ok" /\ Answer(c, Api(500), <<>>) /\ UNCHANGED <<rows, nextId>>
       ELSE /\ rows' = rows \cup {row}
            /\ nextId' = nextId + 1
            /\ IF how = "lost" THEN Wrote(c, call[c], how, Nil, <<>>)
               ELSE call' = [d \in Clients |->
                       IF d = c THEN [call[c] EXCEPT !.pc = "created", !.wrote = TRUE, !.before = row,
                                                     !.instance = bound.validated]
                       ELSE [call[d] EXCEPT !.alone = FALSE]]
    /\ UNCHANGED <<startupVars, templateVars, site, listening, running, bound, walk>>

Created(c) ==
    /\ At(c, "created")
    /\ LET first == assignMapToStruct(Pointers, Zero, bound.validated)
           instance == assignMapToStruct(Pointers, first, With(call[c].instance, Meta.pk, call[c].before[Key]))
       IN Answer(c, Api(201), <<Serialize(Bindings, instance)>>)
    /\ UNCHANGED <<startupVars, templateVars, site, listening, running, rows, nextId, bound, walk>>

\* Update: the validated values go into the object that was read, and are then
\* read again for the UPDATE, of which nobody asks how many rows it changed.
Assign(c) ==
    /\ At(c, "assign")
    /\ call' = [call EXCEPT ![c].pc = "update",
                            ![c].instance = assignMapToStruct(Pointers, @, bound.validated)]
    /\ UNCHANGED <<startupVars, templateVars, site, listening, running, rows, nextId, bound, walk>>

UpdateRow(c, how) ==
    /\ At(c, "update")
    /\ LET found == {row \in rows : row[Key] = call[c].instance[Meta.pk]}
           changed == {Stored(Meta, row, bound.validated) : row \in found}
           data == <<Serialize(Bindings, call[c].instance)>>
       IN IF bound.validated = <<>> \/ found = {}
          THEN how = "ok" /\ Answer(c, Api(200), data) /\ UNCHANGED rows
          ELSE IF \E row \in changed : ~Stores(row)
          THEN how = "ok" /\ Answer(c, Api(500), <<>>) /\ UNCHANGED rows
          ELSE /\ rows' = (rows \ found) \cup changed
               /\ Wrote(c, [call[c] EXCEPT !.before = CHOOSE row \in found : TRUE], how, Api(200), data)
    /\ UNCHANGED <<startupVars, templateVars, site, listening, running, nextId, bound, walk>>

\* Mutant of DeleteRow: a DELETE that finds nothing is a success.
DeleteRowAnyway(c, how) ==
    /\ At(c, "delete")
    /\ LET found == {row \in rows : row[Key] = call[c].instance[Meta.pk]} IN
       IF found = {} THEN how = "ok" /\ Answer(c, Api(204), <<>>) /\ UNCHANGED <<rows, walk>>
       ELSE /\ rows' = rows \ found
            /\ walk' = [d \in Clients |-> [walk[d] EXCEPT !.kept = @ \ Ids(found)]]
            /\ Wrote(c, call[c], how, Api(204), <<>>)
    /\ UNCHANGED <<startupVars, templateVars, site, listening, running, nextId, bound>>

\* Mutant of DeleteRow: the test of the rows that were deleted is turned around.
DeleteRowInverted(c, how) ==
    /\ At(c, "delete")
    /\ LET found == {row \in rows : row[Key] = call[c].instance[Meta.pk]} IN
       IF found = {} THEN how = "ok" /\ Answer(c, Api(204), <<>>) /\ UNCHANGED <<rows, walk>>
       ELSE /\ rows' = rows \ found
            /\ walk' = [d \in Clients |-> [walk[d] EXCEPT !.kept = @ \ Ids(found)]]
            /\ Wrote(c, call[c], how, Api(404), <<>>)
    /\ UNCHANGED <<startupVars, templateVars, site, listening, running, nextId, bound>>

\* Destroy: the object was read before, and may be gone.
DeleteRow(c, how) ==
    /\ At(c, "delete")
    /\ LET found == {row \in rows : row[Key] = call[c].instance[Meta.pk]} IN
       IF found = {} THEN how = "ok" /\ Answer(c, Api(404), <<>>) /\ UNCHANGED <<rows, walk>>
       ELSE /\ rows' = rows \ found
            /\ walk' = [d \in Clients |-> [walk[d] EXCEPT !.kept = @ \ Ids(found)]]
            /\ Wrote(c, call[c], how, Api(204), <<>>)
    /\ UNCHANGED <<startupVars, templateVars, site, listening, running, nextId, bound>>

Writes(c) == \E how \in {"ok", "lost"} : Insert(c, how) \/ UpdateRow(c, how) \/ DeleteRow(c, how)

ClientNext(c) ==
    \/ \E req \in Wishes(c) : Ask(c, req)
    \/ Leave(c)
    \/ Render(c)
    \/ Show(c)
    \/ Count(c)
    \/ Rows(c)
    \/ GetObject(c)
    \/ DatabaseFails(c)
    \/ StartBind(c)
    \/ BindField(c)
    \/ FinishBind(c)
    \/ Created(c)
    \/ Assign(c)
    \/ Writes(c)

SiteNext == Starting \/ Listen \/ MapWritesCollide \/ \E c \in Clients : ClientNext(c)

SiteSpec == SiteInit /\ [][SiteNext]_vars
-----------------------------------------------------------------------------
(* How a site may be put together.                                         *)

\* Panics are recovered by the outermost layer, and a nil that a view or a hook
\* returns comes to a log line that is above all hooks.
AboveHooks(k) == \A j \in 1..(k - 1) : Layers[j] # "hooks"
LayersAreOrdered ==
    /\ Layers # <<>> /\ Layers[1] = "recovery"
    /\ \E k \in DOMAIN Layers : Layers[k] = "logging" /\ AboveHooks(k)

\* No input of the serializer goes into the primary key.
KeyIsReadOnly ==
    \A i \in DOMAIN Bindings : ~Bindings[i].options.readOnly => ColumnOf(Meta, validatedKey(Bindings[i])) # Key

\* No two fields of the serializer are bound under one name.
NamesDiffer ==
    ~Misconfigured(Meta, Config) =>
        \A i, j \in DOMAIN Bindings : validatedKey(Bindings[i]) = validatedKey(Bindings[j]) => Bindings[i] = Bindings[j]

\* Who walks asks for nothing else.  The list of the walk is paged by cursor, is not
\* searched, filtered or ordered otherwise, and a cursor gives its key back.
Walking == {WalkRequest} \cup {Continued(id) : id \in DOMAIN CursorOf}
PageSize(view) == IF view.pageSize = 0 THEN DefaultLimit ELSE view.pageSize
WalksByCursor ==
    /\ \A i \in DOMAIN Sites, c \in Clients : Sites[i][c].walks => Sites[i][c].asks = {}
    /\ WalkRequest.query = <<>> /\ "query" \in DOMAIN WalkRequest
    /\ \A id \in DOMAIN CursorOf :
          CursorOf[id] # "" /\ CursorOf[id] \in DOMAIN Decoded /\ Decoded[CursorOf[id]] = id
    /\ Null \notin Nat
    /\ \A req \in Walking : LET match == resolveHandler[req] IN
          IsApi(match) => ViewFor(match).paginator = "cursor" /\ PageSize(ViewFor(match)) \in Nat \ {0}

\* A name that a client has a path built from is that of a pattern that the path leads
\* back to, with a handler that can be called.  Its literals have no metacharacters:
\* Reverse would leave the escapes of the others in the path (urls.go:166, resolver.go:184).
PathsLeadBack ==
    /\ WellFormed(Patterns)
    /\ NoMatch \notin Seq(STRING)
          \cup [handler : {e.pattern.handler : e \in AllPatterns(Patterns)}, name : Seq(STRING),
                params : {req.aim.params : req \in {r \in Requests : r.aim # Null}}]
    /\ \A req \in Requests : req.aim # Null =>
          \E e \in Entries(Patterns) :
             /\ e.pattern.name = req.aim.name[Len(req.aim.name)] /\ IsLast(Patterns, e)
             /\ IsFree(Patterns, e) /\ Takes(e, req.aim.params) /\ IsPlain(e) /\ Callable(e.pattern.handler)

\* The token of the form is asked, and whatever changes rows belongs to a view set
\* that asks for the permissions of the model, under a method that they know.
Changing == {"create", "update", "partial_update", "destroy"}
ChangesAskPermission ==
    /\ \E i \in DOMAIN Layers : Layers[i] = "csrf"
    /\ \A req \in Requests : LET match == resolveHandler[req] IN
          IsApi(match) /\ ViewFor(match).kind = "set" =>
             \A m \in DOMAIN match.handler.actions : match.handler.actions[m] \in Changing =>
                /\ m \in {"POST", "PUT", "PATCH", "DELETE"}
                /\ \E i \in DOMAIN ViewFor(match).permissions : ViewFor(match).permissions[i] = "ModelPermissions"
-----------------------------------------------------------------------------
(* Properties.                                                             *)

Status(c) == IF call[c].pc = "answered" THEN call[c].outcome.status ELSE 0
Account(c) ==
    authenticateRequest(ViewOf(c), call[c].req, RequestUser(call[c].req))

\* The type of the variables, and what the table and the serializer hold: rows meet
\* the constraints of their columns and have different keys, and what Bind has
\* validated goes by the Go names of columns, never by the names of an input.
SiteTypeOK ==
    /\ listening \in BOOLEAN /\ running \in BOOLEAN
    /\ \A row \in rows : DOMAIN row = Columns /\ Stores(row) /\ row[Key] < nextId
    /\ Cardinality(Ids(rows)) = Cardinality(rows)
    /\ DOMAIN bound.validated \subseteq {GoName[col] : col \in Columns}
    /\ \A c \in Clients : call[c].pc \in {"idle", "count", "rows", "object", "bind", "binding", "insert",
                                          "created", "assign", "update", "delete", "render", "answered"}

\* Of the requests to delete a row only one is told that it did.  They all have
\* read the row before, so that the count of deleted rows must decide.
DeletedOnce ==
    \A c, d \in Clients :
        c # d /\ Status(c) = 204 /\ Status(d) = 204 => call[c].before[Key] # call[d].before[Key]

\* A request that was refused (4xx) has changed no row, at whatever stage it was
\* refused: by the middlewares, by Dispatch, for the object, for its input, or
\* because the row had gone.
RefusedChangesNothing == \A c \in Clients : Status(c) \in 400..499 => ~call[c].wrote

\* What a request stores is what it said.  If no other request has bound since it
\* began to bind, or written since it wrote, then a created or updated row that
\* still is there differs from the one before in what its own body says, and not
\* in what earlier requests have left in the serializer.
OwnValues(c) ==
    LET own == {i \in DOMAIN Bindings : BindOne(Bindings[i], call[c].req.body, Partial(c)).keep} IN
    [k \in {validatedKey(Bindings[i]) : i \in own} |->
        BindOne(CHOOSE b \in {Bindings[i] : i \in own} : validatedKey(b) = k, call[c].req.body, Partial(c)).value]

OwnDataIsStored ==
    \A c \in Clients :
        Status(c) \in {200, 201} /\ call[c].wrote /\ call[c].alone =>
            \A row \in rows : row[Key] = call[c].before[Key] =>
                row = Stored(Meta, IF call[c].action = "create" THEN [Blank EXCEPT ![Key] = row[Key]]
                                   ELSE call[c].before, OwnValues(c))

\* A walk through a list by its cursor shows every row that was there all along,
\* and shows none twice, although other requests insert, change and delete rows
\* between its pages.
CursorWalkIsComplete ==
    \A c \in Clients :
        LET seen == walk[c].seen IN
        /\ \A i, j \in DOMAIN seen : i # j => seen[i] # seen[j]
        /\ walk[c].done => walk[c].kept \subseteq {seen[i] : i \in DOMAIN seen}

\* Whatever a view or a hook does, panic or return nil, the order of the layers
\* has every request answered with a response.
EveryRequestIsAnswered ==
    \A c \in Clients : call[c].pc = "answered" => call[c].outcome.type \notin {"nil", "panic"}

\* A page shows the template its view names, the project's file or an app's, and is
\* empty only if there is none, as long as no load of the templates has failed and
\* none was under way when a second request came to render (engine.go:38).
PagesShowTheirTemplate ==
    ~disturbed => \A c \in Clients :
        call[c].pc = "answered" /\ call[c].outcome.type = "template" =>
            call[c].data = <<Meant(Files(ordered), call[c].match.handler.view.template)>>

\* A path that Reverse has built from a name arrives at the view of that name, with
\* the same parameters.
ReversedPathsArrive ==
    \A c \in Clients :
        call[c].req # Null /\ call[c].req.aim # Null =>
            /\ call[c].match # NoMatch
            /\ call[c].match.name[Len(call[c].match.name)] = call[c].req.aim.name[Len(call[c].req.aim.name)]
            /\ call[c].match.params = call[c].req.aim.params

\* Rows change only in a step of a request that came from the site's own pages, or
\* has the token they have, by an account that may change them.
NoChangeWithoutPermission ==
    [][rows' # rows => \E c \in Clients : call'[c].wrote /\ ~call[c].wrote /\ call[c].req.csrf /\ HasPerm(Account(c))]_vars
=============================================================================
