------------------------------ MODULE RestView ------------------------------
(***************************************************************************)
(* The REST views (rest/api_views.go, views.go, pagination.go and what     *)
(* Dispatch asks before it calls a handler): what they make of a request   *)
(* before they go to the database, and which rows a list shows.            *)
(*                                                                         *)
(* The query of a request is a function from parameters to the texts       *)
(* between its commas.  A view is a record of its options; one that has no *)
(* queryset or serializer answers 500 to everything and is left out.       *)
(* Lookups that compare texts other than by what they contain, and those   *)
(* on dates, are left out, and so are spaces around a text.                *)
(***************************************************************************)
EXTENDS Serializer, Middleware, FiniteSets

CONSTANTS
    Invalid,     \* an error
    Split,       \* Split[param]: splitLookupName, <<base, op>> or Invalid
    Order,       \* Order[text]: [desc, name], what a part of ordering says
    Containing,  \* Containing[term]: the texts that contain it in any case
    Decoded,     \* Decoded[text]: base64, of those texts that are
    MaxLimit,
    DefaultLimit

\* Dispatch asks these in turn, and answers with the first status that is not 0.
Refuses(condition, status) == IF condition THEN status ELSE 0

\* parseRequestData: no body is read for GET, HEAD and OPTIONS; without a content
\* type it is JSON, whatever the view parses.
ParseRefusal(view, req) ==
    Refuses(req.method \notin {"GET", "HEAD", "OPTIONS"}
            /\ ((req.content # "" /\ req.content \notin view.parsers) \/ req.body = Invalid), 400)

\* DetermineVersion of the four ways to say a version, under the names they have by
\* default; a parameter of the query counts with its first value.
QueryParameterVersioning(req) == IF "version" \in DOMAIN req.query THEN req.query["version"][1] ELSE ""
HeaderVersioning(req) == req.version
URLPathVersioning(params) == IF "version" \in DOMAIN params THEN params["version"] ELSE ""
NamespaceVersioning(params) == IF "namespace" \in DOMAIN params THEN params["namespace"] ELSE ""

DetermineVersion(view, req, params) ==
    CASE view.versioning = "query" -> QueryParameterVersioning(req)
      [] view.versioning = "header" -> HeaderVersioning(req)
      [] view.versioning = "path" -> URLPathVersioning(params)
      [] view.versioning = "namespace" -> NamespaceVersioning(params)

validateVersion(version, allowed) == version = "" \/ allowed = {} \/ version \in allowed

VersionRefusal(view, req, params) ==
    Refuses(view.versioning # "none"
            /\ LET said == DetermineVersion(view, req, params)
               IN ~validateVersion(IF said = "" THEN view.defaultVersion ELSE said, view.versions), 400)

\* What an authenticator says: an account, that it is not asked, or an error.  The
\* session's is satisfied with whomever a middleware has set.
AccountOf(account) == IF account \in DOMAIN Users THEN account ELSE "error"
SessionAuthentication(req, user) ==
    IF user # "nobody" THEN user ELSE IF req.session = "none" THEN "not asked" ELSE AccountOf(req.session)
BasicAuthentication(req) ==
    IF req.credentials.scheme # "Basic" THEN "not asked" ELSE AccountOf(req.credentials.account)
TokenAuthentication(req) ==
    IF req.credentials.scheme \notin {"Token", "Bearer"} THEN "not asked" ELSE AccountOf(req.credentials.account)

Authenticate(way, req, user) ==
    CASE way = "session" -> SessionAuthentication(req, user)
      [] way = "basic" -> BasicAuthentication(req)
      [] way = "token" -> TokenAuthentication(req)

\* The first one that is asked decides; nobody asked leaves the user.
authenticateRequest(view, req, user) ==
    LET asked == {i \in DOMAIN view.authenticators : Authenticate(view.authenticators[i], req, user) # "not asked"}
    IN IF asked = {} THEN user
       ELSE Authenticate(view.authenticators[CHOOSE i \in asked : \A j \in asked : i <= j], req, user)

AuthRefusal(view, req, user) == Refuses(authenticateRequest(view, req, user) = "error", 401)

permissionAction == [m \in {"GET", "HEAD", "POST", "PUT", "PATCH", "DELETE"} |->
                        CASE m \in {"GET", "HEAD"} -> "view" [] m = "POST" -> "add"
                          [] m \in {"PUT", "PATCH"} -> "change" [] m = "DELETE" -> "delete"]

HasPermission(permission, method, user) ==
    CASE permission = "IsAuthenticated" -> Authenticated(user)
      [] permission = "ModelPermissions" -> method \in DOMAIN permissionAction => HasPerm(user)
      [] permission \in {"AllowAny", "Object"} -> TRUE

checkPermissions(view, req, user) ==
    Refuses(\E i \in DOMAIN view.permissions : ~HasPermission(view.permissions[i], req.method, user), 403)

\* checkObjectPermissions; ObjectPermissionFunc is a function of the application
\* that refuses everybody the objects it locks.
checkObjectPermissions(view, req, user, locked) ==
    Refuses(\E i \in DOMAIN view.permissions :
               \/ view.permissions[i] = "Object" /\ locked
               \/ ~HasPermission(view.permissions[i], req.method, user), 403)

rendererMatchesFormat(renderer, format) ==
    CASE format = "json" -> renderer = "json"
      [] format \in {"api", "html"} -> renderer = "html"
      [] OTHER -> FALSE

\* SelectRenderer: a path with a suffix needs a renderer of that format; without,
\* there is always one.
SelectRenderer(view, req) ==
    Refuses(req.format # "" /\ ~\E r \in view.renderers : rendererMatchesFormat(r, req.format), 406)

\* What AsView makes of the actions of a route, and what Dispatch finds there.
ActionFor(actions, method) ==
    CASE method = "OPTIONS" -> "options"
      [] method # "OPTIONS" /\ method \in DOMAIN actions -> actions[method]
      [] method = "HEAD" /\ method \notin DOMAIN actions /\ "GET" \in DOMAIN actions -> actions["GET"]
      [] OTHER -> "none"

MethodRefusal(actions, req) == Refuses(ActionFor(actions, req.method) = "none", 405)

\* The status that ends the request before a handler is called, or 0.  throttled
\* is what the throttles say.
Dispatch(view, actions, req, params, user, throttled) ==
    LET account == authenticateRequest(view, req, user)
        checks == <<ParseRefusal(view, req), VersionRefusal(view, req, params), AuthRefusal(view, req, user),
                    checkPermissions(view, req, account), Refuses(throttled, 429),
                    SelectRenderer(view, req), MethodRefusal(actions, req)>>
        refused == {i \in DOMAIN checks : checks[i] # 0}
    IN IF refused = {} THEN 0 ELSE checks[CHOOSE i \in refused : \A j \in refused : i <= j]
-----------------------------------------------------------------------------
(* The query string.                                                       *)

Text(query, param) ==
    IF param \in DOMAIN query /\ Len(query[param]) = 1 THEN query[param][1]
    ELSE IF param \in DOMAIN query THEN "several" ELSE ""

isReservedQueryParam == {"ordering", "limit", "offset", "search", "page", "cursor", "version"}

Exact(f, text) ==
    IF Family(f) = "text" THEN text
    ELSE IF text \in DOMAIN Says[Family(f)] THEN Says[Family(f)][text] ELSE Invalid

\* coerceQueryValue
coerceQueryValue(f, op, texts) ==
    LET each == {Exact(f, texts[i]) : i \in DOMAIN texts} IN
    CASE op = "isnull" -> IF Len(texts) = 1 /\ texts[1] \in DOMAIN Says["bool"] THEN Says["bool"][texts[1]] ELSE Invalid
      [] op = "in" -> IF texts = <<"">> THEN {} ELSE IF Invalid \in each THEN Invalid ELSE each
      [] op = "range" -> IF Len(texts) # 2 \/ Invalid \in each THEN Invalid
                         ELSE <<Exact(f, texts[1]), Exact(f, texts[2])>>
      [] OTHER -> IF Len(texts) = 1 THEN Exact(f, texts[1]) ELSE Invalid

HasColumn(meta, name) ==
    Candidates(meta, name) # {} /\ FieldForNameOrColumn(meta, name).type # "manytomany"

\* allowedFieldSet: every column, or those the names given begin with and the
\* names as they are given.
allowedFieldSet(meta, names) ==
    IF names = {} THEN {ConcreteFields(meta)[i].column : i \in DOMAIN ConcreteFields(meta)}
    ELSE IF \E n \in names : Split[n] = Invalid \/ ~HasColumn(meta, Split[n][1]) THEN Invalid
    ELSE names \cup {FieldForNameOrColumn(meta, Split[n][1]).column : n \in names}

\* applyFilters: a condition [column, op, value] for each parameter.
Condition(meta, allowed, query, p) ==
    IF Split[p] = Invalid \/ ~HasColumn(meta, Split[p][1]) THEN Invalid
    ELSE LET f == FieldForNameOrColumn(meta, Split[p][1])
             value == coerceQueryValue(f, Split[p][2], query[p])
         IN IF allowed \cap {f.column, p} = {} \/ value = Invalid THEN Invalid
            ELSE [column |-> f.column, op |-> Split[p][2], value |-> value]

applyFilters(view, meta, query) ==
    LET allowed == allowedFieldSet(meta, view.filterFields)
        params == DOMAIN query \ isReservedQueryParam
    IN IF allowed = Invalid \/ \E p \in params : Condition(meta, allowed, query, p) = Invalid THEN Invalid
       ELSE {Condition(meta, allowed, query, p) : p \in params}

\* applySearch: one of the search fields contains the term.
applySearch(view, meta, query) ==
    IF Text(query, "search") = "" \/ view.searchFields = {} THEN {}
    ELSE IF \E n \in view.searchFields : ~HasColumn(meta, n) THEN Invalid
    ELSE {[column |-> FieldForNameOrColumn(meta, n).column, op |-> "icontains", value |-> query["search"][1]]
             : n \in view.searchFields}

\* applyOrdering; names that begin with a lookup do not count here.
applyOrdering(view, meta, query) ==
    IF Text(query, "ordering") = "" THEN <<>>
    ELSE LET allowed == allowedFieldSet(meta, view.orderingFields)
             parts == [i \in DOMAIN query["ordering"] |-> Order[query["ordering"][i]]]
         IN IF allowed = Invalid THEN Invalid
            ELSE IF \E i \in DOMAIN parts : ~HasColumn(meta, parts[i].name)
                       \/ FieldForNameOrColumn(meta, parts[i].name).column \notin allowed THEN Invalid
            ELSE [i \in DOMAIN parts |->
                    [column |-> FieldForNameOrColumn(meta, parts[i].name).column, desc |-> parts[i].desc]]

\* A number in a parameter, default if there is none or it is empty.
NumberIn(query, param, default) ==
    IF Text(query, param) = "" THEN default
    ELSE IF Text(query, param) \in DOMAIN Says["int"] THEN Says["int"][Text(query, param)] ELSE Invalid

Page(limit, offset) == [limit |-> limit, offset |-> offset, after |-> Null]

\* pagination
LimitOffset(view, query) ==
    LET size == IF view.pageSize = 0 THEN DefaultLimit ELSE view.pageSize
        limit == NumberIn(query, "limit", size)
        offset == NumberIn(query, "offset", 0)
    IN IF limit = Invalid \/ offset = Invalid THEN Invalid
       ELSE IF limit < 0 \/ limit > MaxLimit \/ offset < 0 THEN Invalid
       ELSE Page(limit, offset)

\* PageNumberPagination
PageNumber(view, query) ==
    LET size == NumberIn(query, "page_size", IF view.pageSize = 0 THEN DefaultLimit ELSE view.pageSize)
        page == NumberIn(query, "page", 1)
    IN IF size = Invalid \/ page = Invalid THEN Invalid
       ELSE IF page < 1 \/ size < 0 \/ size > (IF view.maxSize = 0 THEN MaxLimit ELSE view.maxSize) THEN Invalid
       ELSE Page(size, (page - 1) * size)

\* CursorPagination: after the key that the cursor holds.
Cursor(view, query) ==
    LET size == IF view.pageSize = 0 THEN DefaultLimit ELSE view.pageSize IN
    IF Text(query, "cursor") = "" THEN Page(size, 0)
    ELSE IF Text(query, "cursor") \in DOMAIN Decoded
         THEN [Page(size, 0) EXCEPT !.after = Decoded[Text(query, "cursor")]] ELSE Invalid

\* Paginate, up to the count; a view that only lists has no paginator and ignores
\* MaxLimit of one.
Paginate(view, query) ==
    CASE view.paginator = "page" -> PageNumber(view, query)
      [] view.paginator = "cursor" -> Cursor(view, query)
      [] view.paginator \in {"limit", "none"} ->
            (LET page == LimitOffset(view, query) IN
             IF page # Invalid /\ view.paginator = "limit" /\ view.maxSize > 0 /\ page.limit > view.maxSize
             THEN Invalid ELSE page)

\* Mutant of AfterCursor: the row of the cursor is shown again.
FromCursor(meta, page) ==
    IF page.after = Null THEN {}
    ELSE {[column |-> PKColumn(meta), op |-> "gte", value |-> page.after]}

AfterCursor(meta, page) ==
    IF page.after = Null THEN {}
    ELSE {[column |-> PKColumn(meta), op |-> "gt", value |-> page.after]}

\* The ordering of the model stands in where a queryset has none.
ModelOrdering(meta) ==
    [i \in DOMAIN meta.ordering |->
        [column |-> DBColumnForField(meta, meta.ordering[i].name), desc |-> meta.ordering[i].desc]]

\* The list that a request asks for, or Invalid.
ListPlan(view, meta, query) ==
    LET conditions == applyFilters(view, meta, query)
        search == applySearch(view, meta, query)
        ordering == applyOrdering(view, meta, query)
        page == Paginate(view, query)
    IN IF conditions = Invalid \/ search = Invalid \/ ordering = Invalid \/ page = Invalid THEN Invalid
       ELSE [conditions |-> conditions \cup AfterCursor(meta, page), search |-> search,
             ordering |-> IF view.paginator = "cursor"
                          THEN Append(ordering, [column |-> PKColumn(meta), desc |-> FALSE])
                          ELSE IF ordering = <<>> THEN ModelOrdering(meta) ELSE ordering,
             limit |-> page.limit, offset |-> page.offset, counts |-> view.paginator # "cursor"]

\* getObject before its query: the value in the path that names the object.
LookupField(view, meta) == FieldForNameOrColumn(meta, IF view.lookupField = "" THEN meta.pk ELSE view.lookupField)
LookupParam(view, meta) == IF view.urlParam = "" THEN LookupField(view, meta).column ELSE view.urlParam
ObjectPlan(view, meta, params) ==
    IF LookupParam(view, meta) \notin DOMAIN params THEN Invalid
    ELSE IF Exact(LookupField(view, meta), params[LookupParam(view, meta)]) = Invalid THEN Invalid
    ELSE [column |-> LookupField(view, meta).column, op |-> "exact",
          value |-> Exact(LookupField(view, meta), params[LookupParam(view, meta)])]
-----------------------------------------------------------------------------
(* What the database makes of it.                                          *)

Holds(cond, v) ==
    IF cond.op = "isnull" THEN (v = Null) = cond.value
    ELSE /\ v # Null
         /\ CASE cond.op \in {"exact", "iexact"} -> v = cond.value
              [] cond.op = "gt" -> v > cond.value
              [] cond.op = "gte" -> v >= cond.value
              [] cond.op = "lt" -> v < cond.value
              [] cond.op = "lte" -> v <= cond.value
              [] cond.op = "in" -> v \in cond.value
              [] cond.op = "range" -> v >= cond.value[1] /\ v <= cond.value[2]
              [] cond.op \in {"contains", "icontains"} -> v \in Containing[cond.value]

Chosen(plan, rows) ==
    {row \in rows : /\ \A c \in plan.conditions : Holds(c, row[c.column])
                    /\ plan.search = {} \/ \E c \in plan.search : Holds(c, row[c.column])}

\* NULL comes last, and first when descending.
Before(o, a, b) ==
    LET x == a[o.column] y == b[o.column] IN
    IF x = y THEN FALSE
    ELSE IF x = Null THEN o.desc ELSE IF y = Null THEN ~o.desc
    ELSE IF o.desc THEN x > y ELSE x < y

Precedes(ordering, a, b) ==
    \E i \in DOMAIN ordering : /\ Before(ordering[i], a, b)
                               /\ \A j \in 1..(i - 1) : a[ordering[j].column] = b[ordering[j].column]

\* The orders the database may choose.
Listings(ordering, rows) ==
    {s \in [1..Cardinality(rows) -> rows] :
        /\ \A i, j \in DOMAIN s : i # j => s[i] # s[j]
        /\ \A i, j \in DOMAIN s : i < j => ~Precedes(ordering, s[j], s[i])}

Cut(plan, listing) == SubSeq(listing, plan.offset + 1, IF plan.offset + plan.limit < Len(listing)
                                                       THEN plan.offset + plan.limit ELSE Len(listing))
=============================================================================
