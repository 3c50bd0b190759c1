----------------------------- MODULE Middleware -----------------------------
(***************************************************************************)
(* The onion of middlewares around a view: middleware/middleware.go, those *)
(* of auth/middleware.go and security/csrf.go, and the guards of           *)
(* auth/guards.go.                                                         *)
(*                                                                         *)
(* A layer shares no state with other requests, so that it is two          *)
(* functions: what it answers without calling the next one (Stops), and    *)
(* what it makes of what the next one returns (Returns).  What a call ends *)
(* with is an outcome: a response, nil, or a panic on its way up.          *)
(*                                                                         *)
(* The layers are named; hooks stands for AdaptHooks with functions of the *)
(* application, whose behaviour is part of the request that meets them.    *)
(* OnView and OnTemplateResponse are left out: the first replaces the view *)
(* and the second a page by another.                                       *)
(***************************************************************************)
LOCAL INSTANCE Naturals
LOCAL INSTANCE Sequences
LOCAL Seqs == INSTANCE SequencesExt

CONSTANTS
    Layers,         \* the middlewares given to NewServer, in that order
    AllowedHosts,   \* the hosts given to HostValidationMiddleware
    Users           \* Users[u]: [active, admin] of the user accounts there are

ASSUME MiddlewareAssumption == Layers \in Seq(STRING)

Safe == {"GET", "HEAD", "OPTIONS", "TRACE"}

\* Outcomes.  type decides which headers and cookies a response can take;
\* marks are those it has got.
Response(type, status) == [type |-> type, status |-> status, marks |-> {}]
Nil == [type |-> "nil", status |-> 0, marks |-> {}]
Panic == [type |-> "panic", status |-> 0, marks |-> {}]
GoesOn == [type |-> "goes on", status |-> 0, marks |-> {}]
InternalServerError == Response("page", 500)

\* A response of an http.Handler (recorderResponse) has neither SetHeader nor
\* SetCookie, and nil none either: the layers pass it on as it is.
Mark(out, mark) ==
    IF out.type \in {"nil", "panic", "recorder"} THEN out ELSE [out EXCEPT !.marks = @ \cup mark]

\* Authenticated says what IsAuthenticated says: an account that is active.
Authenticated(user) == user \in DOMAIN Users /\ Users[user].active

\* AuthMiddleware: the account the session names, if it is there and can be
\* read, and else the anonymous user.
AuthMiddleware(req) ==
    IF req.session \in DOMAIN Users THEN req.session ELSE "anonymous"

\* The user of the request when it reaches the view: the last layer that sets one.
RequestUser(req) ==
    Seqs!FoldLeft(LAMBDA user, layer : CASE layer = "auth" -> AuthMiddleware(req)
                                    [] layer = "basic" -> req.credentials.account
                                    [] OTHER -> user,
             "nobody", Layers)

isAllowedHost(req) == "*" \in AllowedHosts \/ req.host \in AllowedHosts

\* Mutant of CSRFMiddleware: the token is looked at, but nothing comes of it.
CSRFUnheeded(req) == GoesOn

\* CSRFMiddleware: a safe method, or a token that is the cookie's or signed.
CSRFMiddleware(req) ==
    IF req.method \in Safe \/ req.csrf THEN GoesOn ELSE Response("page", 403)

\* What a layer answers instead of calling the next one.
Stops(layer, req) ==
    CASE layer = "host"  -> IF isAllowedHost(req) THEN GoesOn ELSE Response("page", 403)
      [] layer = "csrf"  -> CSRFMiddleware(req)
      [] layer = "basic" -> IF req.credentials.account \in DOMAIN Users THEN GoesOn
                            ELSE Response("page", 401)
      [] layer = "hooks" -> (CASE req.hooks.request = "answer" -> Response("page", 200)
                               [] req.hooks.request = "panic" -> Panic
                               [] OTHER -> GoesOn)
      [] OTHER -> GoesOn

\* RecoveryMiddleware
Recovery(out) == IF out.type = "panic" THEN InternalServerError ELSE out

\* AdaptHooks after the next call: OnException and OnResponse, whose own
\* panics nobody in this layer recovers.
OnException(hook, out) ==
    CASE out.type # "panic" -> out
      [] out.type = "panic" /\ hook = "panic" -> Panic
      [] out.type = "panic" /\ hook = "answer" -> Response("page", 503)
      [] OTHER -> InternalServerError

OnResponse(hook, out) ==
    CASE out.type = "panic" -> out
      [] out.type # "panic" /\ hook = "panic" -> Panic
      [] out.type # "panic" /\ hook = "nil" -> Nil
      [] OTHER -> out

AdaptHooks(hooks, out) == OnResponse(hooks.response, OnException(hooks.exception, out))

\* LoggingMiddleware asks the response for its status, nil or not.
Logging(out) == IF out.type = "nil" THEN Panic ELSE out

\* SecurityMiddleware: the redirect to https comes after the view has run.
Security(settings, req, out) ==
    IF out.type \in {"nil", "panic"} THEN out
    ELSE IF settings.SSLRedirect /\ ~req.https THEN Response("redirect", 302)
    ELSE Mark(out, (IF settings.ContentTypeNoSniff THEN {"nosniff"} ELSE {})
                   \cup (IF settings.BrowserXSSFilter THEN {"xss"} ELSE {})
                   \cup (IF settings.HSTSSeconds > 0 /\ req.https THEN {"hsts"} ELSE {}))

\* What a layer makes of the outcome of the next one.
Returns(layer, settings, req, out) ==
    CASE layer = "recovery" -> Recovery(out)
      [] layer = "logging"  -> Logging(out)
      [] layer = "hooks"    -> AdaptHooks(req.hooks, out)
      [] layer = "security" -> Security(settings, req, out)
      [] layer = "common"   -> Mark(out, {"nosniff", "frame"})
      [] layer = "xframe"   -> Mark(out, {"frame"})
      [] layer = "csrf"     -> Mark(out, {"csrftoken"})
      [] OTHER -> out

\* Mutant of Chain: the layers are wrapped from the first to the last.
ChainInwards ==
    LET wrapped[i \in 0..Len(Layers)] == IF i = 0 THEN <<>> ELSE <<Layers[i]>> \o wrapped[i - 1]
    IN  wrapped[Len(Layers)]

\* Chain wraps the view from the last layer to the first: the layers from the
\* outside in.
Chain ==
    LET wrapped[i \in 0..Len(Layers)] == IF i = 0 THEN <<>> ELSE <<Layers[Len(Layers) - (i - 1)]>> \o wrapped[i - 1]
    IN  wrapped[Len(Layers)]

\* The layers a request enters before one of them answers.
Entered(req) ==
    LET stop == {i \in DOMAIN Chain : Stops(Chain[i], req) # GoesOn}
    IN IF stop = {} THEN Len(Chain) + 1 ELSE CHOOSE i \in stop : \A j \in stop : i <= j

ReachesView(req) == Entered(req) = Len(Chain) + 1

\* What the layers above position i make of an outcome, one after the other.
Outwards(settings, req, i, out) ==
    LET after[k \in 0..(i - 1)] == IF k = 0 THEN out ELSE Returns(Chain[i - k], settings, req, after[k - 1])
    IN  after[i - 1]

\* The answer to a request that one of the layers stops.
StoppedWith(settings, req) ==
    Outwards(settings, req, Entered(req), Stops(Chain[Entered(req)], req))

\* The answer to a request whose view ended with out.
AnsweredWith(settings, req, out) == Outwards(settings, req, Len(Chain) + 1, out)
-----------------------------------------------------------------------------
(* auth/guards.go                                                          *)

\* GetUser and Authenticate read the columns is_active, is_staff and is_admin of
\* an account, and nothing fills in IsSuperuser or Permissions.
HasPerm(user) == user \in DOMAIN Users /\ Users[user].admin

\* A guard asks for a *User, who may be inactive.
LoginRequired(user, out) == IF user \in DOMAIN Users THEN out ELSE Response("redirect", 302)
LoginRequiredAPI(user, out) == IF user \in DOMAIN Users THEN out ELSE Response("page", 401)

PermissionRequired(user, out) ==
    IF user \notin DOMAIN Users THEN Response("redirect", 302)
    ELSE IF ~HasPerm(user) THEN Response("page", 403) ELSE out
PermissionRequiredAPI(user, out) ==
    IF user \notin DOMAIN Users THEN Response("page", 401)
    ELSE IF ~HasPerm(user) THEN Response("page", 403) ELSE out

Guarded(guard, user, out) ==
    CASE guard = "login" -> LoginRequired(user, out)
      [] guard = "login api" -> LoginRequiredAPI(user, out)
      [] guard = "permission" -> PermissionRequired(user, out)
      [] guard = "permission api" -> PermissionRequiredAPI(user, out)
      [] OTHER -> out
=============================================================================
