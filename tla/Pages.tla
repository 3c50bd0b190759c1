------------------------------- MODULE Pages -------------------------------
(***************************************************************************)
(* The generic views (views/generic.go, view.go): what each of them        *)
(* answers to a method.  A view is a record of its options: engine says    *)
(* whether it has a template engine, finds what its function can find      *)
(* ("unset" if it has none), and handler how its callback can end (empty   *)
(* if it has none).  An operator is the set of its outcomes.               *)
(*                                                                         *)
(* A response of type template is rendered only when it is written, after  *)
(* all the layers have seen it.  The Allow headers are left out.           *)
(***************************************************************************)
EXTENDS Middleware

LOCAL INSTANCE Naturals

Template == Response("template", 200)
OK == Response("page", 200)
NotAllowed == Response("page", 405)
Redirect(permanent) == Response("redirect", IF permanent THEN 301 ELSE 302)

\* A page by a template, or the same as JSON without an engine.
PageBy(view) == IF view.engine THEN Template ELSE OK

\* What a function of the application ends with; recorder is a http.Handler.
Ending(how) ==
    CASE how = "page" -> OK
      [] how = "recorder" -> Response("recorder", 200)
      [] how = "nil" -> Nil
      [] OTHER -> Panic
Endings(handler) == {Ending(how) : how \in handler}
HandledBy(handler) == IF handler = {} THEN {NotAllowed} ELSE Endings(handler)

\* HEAD never asks for what GET would show.
Bare(method) == IF method \in {"HEAD", "OPTIONS"} THEN {OK} ELSE {NotAllowed}

\* What the function of a view finds decides the status of its page.
Found(view, missing) ==
    {CASE found = "unset" -> Response("page", 500)
       [] found = "error" -> Response("page", missing)
       [] found = "object" -> PageBy(view)
       [] OTHER -> Panic : found \in view.finds}

TemplateView(view, method) == IF method = "GET" THEN {PageBy(view)} ELSE Bare(method)

RedirectView(view, method) ==
    CASE method \in {"GET", "POST", "HEAD"} -> {Redirect(view.permanent)}
      [] OTHER -> Bare(method)

ListView(view, method) == IF method = "GET" THEN Found(view, 500) ELSE Bare(method)

DetailView(view, method) == IF method = "GET" THEN Found(view, 404) ELSE Bare(method)

FormView(view, method) ==
    CASE method = "GET" -> IF view.onGet = {} THEN {PageBy(view)} ELSE Endings(view.onGet)
      [] method = "POST" -> HandledBy(view.handler)
      [] OTHER -> Bare(method)

CreateView(view, method) ==
    CASE method = "GET" -> {PageBy(view)}
      [] method = "POST" -> HandledBy(view.handler)
      [] OTHER -> Bare(method)

UpdateView(view, method) ==
    CASE method = "GET" -> Found(view, 404)
      [] method = "POST" -> HandledBy(view.handler)
      [] OTHER -> Bare(method)

\* Without a callback nothing is deleted, but the redirect says it was.
DeleteView(view, method) ==
    CASE method = "GET" -> Found(view, 404)
      [] method = "POST" -> IF view.handler = {} /\ view.success THEN {Redirect(FALSE)} ELSE HandledBy(view.handler)
      [] OTHER -> Bare(method)

\* AllowedMethods is a view that answers other methods and returns nil to these.
AllowedMethods(view, method) == IF method \in view.methods THEN {Nil} ELSE {NotAllowed}

\* AsView
AsView(view, method) ==
    IF method \notin {"GET", "POST", "PUT", "PATCH", "DELETE", "HEAD", "OPTIONS"} THEN {NotAllowed}
    ELSE CASE view.kind = "view" -> Bare(method)
           [] view.kind = "template" -> TemplateView(view, method)
           [] view.kind = "redirect" -> RedirectView(view, method)
           [] view.kind = "list" -> ListView(view, method)
           [] view.kind = "detail" -> DetailView(view, method)
           [] view.kind = "form" -> FormView(view, method)
           [] view.kind = "create" -> CreateView(view, method)
           [] view.kind = "update" -> UpdateView(view, method)
           [] OTHER -> DeleteView(view, method)
=============================================================================
