----------------------------- MODULE Site_proofs -----------------------------
(***************************************************************************)
(* Proofs about a site, for any number of clients, views, URLs, rows and   *)
(* templates, any layers and any model.                                    *)
(*                                                                         *)
(* A site implements Startup, so that what is proved of Startup holds      *)
(* while requests are served.  Of the requests themselves a step lemma for *)
(* each action says what it does to the calls; each theorem has its own    *)
(* invariant, of what a request knows at each place (Responded, Told,      *)
(* Permitted, Deletes, Owns, Shows, OnWalk), over the shape of the calls,  *)
(* of the table and of the set of templates (Clean).                       *)
(*                                                                         *)
(* What a theorem asks of the site that the code does not is a hypothesis  *)
(* of it, named in Site; MCSite has the instance that is checked meet it.  *)
(***************************************************************************)
EXTENDS Site, Startup_proofs, FiniteSetTheorems, WellFoundedInduction
-----------------------------------------------------------------------------
(* The start.                                                              *)

\* Before it listens a site starts; from then on apps are only asked.
LEMMA StartingStarts ==
    ASSUME Starting PROVE StartupNext
BY DEF Starting, StartupNext

\* No request touches the settings or the registry.
LEMMA RequestsLeaveStartup ==
    ASSUME NEW c \in Clients, ClientNext(c) PROVE UNCHANGED startupVars
<1>1. CASE \E req \in Wishes(c) : Ask(c, req)
  BY <1>1 DEF Ask
<1>2. CASE Leave(c) \/ Render(c) \/ Show(c) \/ Count(c) \/ Rows(c)
  BY <1>2 DEF Leave, Render, Show, Count, Rows
<1>3. CASE GetObject(c) \/ DatabaseFails(c) \/ StartBind(c) \/ BindField(c) \/ FinishBind(c)
  BY <1>3 DEF GetObject, DatabaseFails, StartBind, BindField, FinishBind
<1>4. CASE Created(c) \/ Assign(c)
  BY <1>4 DEF Created, Assign
<1>5. CASE Writes(c)
  BY <1>5 DEF Writes, Insert, UpdateRow, DeleteRow
<1> QED BY <1>1, <1>2, <1>3, <1>4, <1>5 DEF ClientNext

LEMMA SiteStepStarts ==
    ASSUME [SiteNext]_vars PROVE [StartupNext]_startupVars
<1>1. CASE Starting
  BY <1>1, StartingStarts
<1>2. CASE Listen \/ MapWritesCollide
  BY <1>2 DEF Listen, MapWritesCollide
<1>3. CASE \E c \in Clients : ClientNext(c)
  BY <1>3, RequestsLeaveStartup
<1>4. CASE UNCHANGED vars
  BY <1>4 DEF vars
<1> QED BY <1>1, <1>2, <1>3, <1>4 DEF SiteNext

\* A site that serves requests (server.go:24) is a program that starts (setup.go:17).
THEOREM SiteImplementsStartup == SiteSpec => StartupSpec
<1>1. SiteInit => StartupInit
  BY DEF SiteInit
<1> QED BY <1>1, SiteStepStarts, PTL DEF SiteSpec, StartupSpec

\* The settings in force are valid and frozen, and the apps are ready, at every
\* moment of every request after Setup succeeded.
THEOREM SetupHoldsWhileServing == SiteSpec => []SetupHolds
BY SiteImplementsStartup, SetupHoldsAlways, PTL

-----------------------------------------------------------------------------
(* Natural numbers: a set of them has a least one, which gives induction,  *)
(* and recursion over a finite interval.                                   *)

LEMMA LeastNumber ==
    ASSUME NEW T \in SUBSET Nat, T # {} PROVE \E m \in T : \A n \in T : m <= n
<1> DEFINE Less == {ss \in Nat \X Nat : ss[1] < ss[2]}
<1>1. IsWellFoundedOn(Less, Nat)
  BY NatLessThanWellFounded DEF OpToRel
<1> HIDE DEF Less
<1>2. PICK m \in T : \A n \in T : ~(<<n, m>> \in Less)
  BY <1>1, WFMin, Zenon
<1>3. ASSUME NEW n \in T PROVE m <= n
  <2>1. n \in Nat /\ m \in Nat
    OBVIOUS
  <2>2. n < m => <<n, m>> \in Less
    BY <2>1 DEF Less
  <2> QED BY <1>2, <2>1, <2>2
<1> QED BY <1>3

\* A set that has 0, and with each number below N the next one, has all up to N.
LEMMA UpTo ==
    ASSUME NEW N \in Nat, NEW T, 0 \in T, \A k \in 0..N : k < N /\ k \in T => k + 1 \in T
    PROVE  0..N \subseteq T
<1> SUFFICES ASSUME ~(0..N \subseteq T) PROVE FALSE
  OBVIOUS
<1>1. (0..N) \ T \in SUBSET Nat /\ (0..N) \ T # {}
  OBVIOUS
<1>2. PICK m \in (0..N) \ T : \A n \in (0..N) \ T : m <= n
  BY <1>1, LeastNumber
<1>3. m # 0 /\ m - 1 \in 0..N /\ m - 1 < N /\ m \in Nat
  BY <1>2
<1>4. m - 1 \in T
  BY <1>2, <1>3
<1>5. (m - 1) + 1 \in T
  BY <1>3, <1>4
<1> QED BY <1>2, <1>3, <1>5

\* What is defined step by step up to N is defined.
Built(N, V, b, F, f) == f \in [0..N -> V] /\ f[0] = b /\ \A k \in 1..N : f[k] = F[k][f[k - 1]]

LEMMA StepByStep ==
    ASSUME NEW N \in Nat, NEW V, NEW b \in V, NEW F \in [1..N -> [V -> V]]
    PROVE  \E f : Built(N, V, b, F, f)
<1> DEFINE Upto(n, f) == f \in [0..n -> V] /\ f[0] = b /\ \A k \in 1..n : f[k] = F[k][f[k - 1]]
           T == {n \in 0..N : \E f : Upto(n, f)}
<1>1. 0 \in T
  <2>1. Upto(0, [k \in 0..0 |-> b])
    OBVIOUS
  <2>2. \E f : Upto(0, f)
    BY <2>1
  <2> QED BY <2>2
<1>2. ASSUME NEW n \in 0..N, n < N, n \in T PROVE n + 1 \in T
  <2>1. PICK f : Upto(n, f)
    BY <1>2
  <2> DEFINE g == [k \in 0..(n + 1) |-> IF k <= n THEN f[k] ELSE F[k][f[n]]]
  <2>2. f[n] \in V /\ n + 1 \in 1..N
    BY <1>2, <2>1
  <2>3. g \in [0..(n + 1) -> V]
    BY <2>1, <2>2
  <2>4. g[0] = b
    BY <2>1
  <2>5. ASSUME NEW k \in 1..(n + 1) PROVE g[k] = F[k][g[k - 1]]
    <3>1. CASE k <= n
      <4>1. g[k] = f[k] /\ g[k - 1] = f[k - 1] /\ k \in 1..n
        BY <3>1
      <4> QED BY <2>1, <4>1
    <3>2. CASE k = n + 1
      <4>1. g[k] = F[k][f[n]] /\ k - 1 = n /\ g[n] = f[n]
        BY <3>2
      <4> QED BY <4>1
    <3> QED BY <3>1, <3>2
  <2> HIDE DEF g
  <2>6. Upto(n + 1, g)
    BY <2>3, <2>4, <2>5
  <2> HIDE DEF Upto
  <2>7. \E h : Upto(n + 1, h)
    BY <2>6
  <2> QED BY <2>2, <2>7
<1> HIDE DEF T
<1>3. 0..N \subseteq T
  BY <1>1, <1>2, UpTo
<1>4. N \in T
  BY <1>3
<1>5. PICK f : Upto(N, f)
  BY <1>4 DEF T
<1> QED BY <1>5 DEF Built
-----------------------------------------------------------------------------
(* The chain of middlewares.                                               *)

LEMMA LayersInOrder ==
    DOMAIN Layers = 1..Len(Layers) /\ Len(Layers) \in Nat /\ \A i \in 1..Len(Layers) : Layers[i] \in STRING
BY MiddlewareAssumption

\* Wrapping from the last to the first puts the first outermost (middleware.go:18-26).
LEMMA ChainIsLayers == Chain = Layers
<1> DEFINE N == Len(Layers)
           V == Seq(STRING)
           F == [k \in 1..N |-> [v \in V |-> <<Layers[N - (k - 1)]>> \o v]]
           Wrapping(f) == f = [i \in 0..N |-> IF i = 0 THEN <<>> ELSE <<Layers[N - (i - 1)]>> \o f[i - 1]]
           wrapped == CHOOSE f : Wrapping(f)
<1>1. ASSUME NEW k \in 1..N, NEW v \in V PROVE <<Layers[N - (k - 1)]>> \o v \in V
  <2>1. N - (k - 1) \in 1..N
    BY LayersInOrder
  <2>2. <<Layers[N - (k - 1)]>> \in V
    BY <2>1, LayersInOrder
  <2> QED BY <2>2
<1>2. <<>> \in V /\ N \in Nat
  BY LayersInOrder
<1>3. Chain = wrapped[N]
  BY DEF Chain
<1> HIDE DEF N, V
<1>4. F \in [1..N -> [V -> V]] /\ \A k \in 1..N, v \in V : F[k][v] = <<Layers[N - (k - 1)]>> \o v
  BY <1>1
<1> HIDE DEF F
<1>5. \E f : Wrapping(f)
  <2>1. PICK f : Built(N, V, <<>>, F, f)
    BY <1>2, <1>4, StepByStep
  <2>2. \A k \in 0..N : k = 0 \/ (k \in 1..N /\ k - 1 \in 0..N)
    BY <1>2
  <2>3. \A k \in 0..N : f[k] = IF k = 0 THEN <<>> ELSE <<Layers[N - (k - 1)]>> \o f[k - 1]
    BY <1>4, <2>1, <2>2 DEF Built
  <2>4. f = [k \in 0..N |-> f[k]]
    BY <2>1 DEF Built
  <2>5. f = [i \in 0..N |-> IF i = 0 THEN <<>> ELSE <<Layers[N - (i - 1)]>> \o f[i - 1]]
    BY <2>3, <2>4
  <2> QED BY <2>5
<1>6. Wrapping(wrapped)
  BY <1>5
<1> HIDE DEF wrapped
<1>7. wrapped[0] = <<>> /\ \A i \in 1..N : wrapped[i] = <<Layers[N - (i - 1)]>> \o wrapped[i - 1]
  <2>1. 0 \in 0..N /\ \A i \in 1..N : i \in 0..N /\ i # 0
    BY <1>2
  <2> QED BY <1>6, <2>1
\* After i steps it holds the last i layers.
<1> DEFINE Last(i) == wrapped[i] \in Seq(STRING) /\ Len(wrapped[i]) = i /\ \A j \in 1..i : wrapped[i][j] = Layers[N - i + j]
<1>8. Last(0)
  BY <1>7
<1>9. ASSUME NEW k \in 0..N, k < N, Last(k) PROVE Last(k + 1)
  <2>1. k + 1 \in 1..N /\ N - ((k + 1) - 1) = N - k /\ N - k \in 1..N /\ k \in Nat /\ (k + 1) - 1 = k
    BY <1>2, <1>9
  <2>2. wrapped[k + 1] = <<Layers[N - k]>> \o wrapped[k]
    BY <1>7, <2>1
  <2>3. Layers[N - k] \in STRING
    BY <2>1, LayersInOrder DEF N
  <2>4. wrapped[k + 1] \in Seq(STRING) /\ Len(wrapped[k + 1]) = k + 1
    BY <1>9, <2>1, <2>2, <2>3
  <2>5. ASSUME NEW j \in 1..(k + 1) PROVE wrapped[k + 1][j] = Layers[N - (k + 1) + j]
    <3>1. CASE j = 1
      BY <1>2, <1>9, <2>1, <2>2, <2>3, <3>1
    <3>2. CASE j # 1
      <4>1. j - 1 \in 1..k /\ N - k + (j - 1) = N - (k + 1) + j
        BY <1>2, <2>1, <3>2
      <4>2. wrapped[k + 1][j] = wrapped[k][j - 1]
        BY <1>9, <2>1, <2>2, <2>3, <3>2, <4>1
      <4> QED BY <1>9, <4>1, <4>2
    <3> QED BY <3>1, <3>2
  <2> QED BY <2>4, <2>5
<1> DEFINE T == {i \in 0..N : Last(i)}
<1> HIDE DEF Last
<1>10. 0 \in T /\ \A k \in 0..N : k < N /\ k \in T => k + 1 \in T
  BY <1>2, <1>8, <1>9
<1> HIDE DEF T
<1>11. 0..N \subseteq T
  BY <1>2, <1>10, UpTo
<1>12. Last(N)
  BY <1>2, <1>11 DEF T
<1>13. wrapped[N] \in Seq(STRING) /\ Len(wrapped[N]) = N /\ \A j \in 1..N : wrapped[N][j] = Layers[j]
  BY <1>2, <1>12 DEF Last
<1>14. wrapped[N] = Layers
  BY <1>13, MiddlewareAssumption DEF N
<1> QED BY <1>3, <1>14

\* What a call of a view or of a layer may end with.
Types == {"nil", "panic", "goes on", "page", "redirect", "template", "recorder", "api"}
Marks == {"nosniff", "xss", "hsts", "frame", "csrftoken"}
Outcome == [type : Types, status : Int, marks : SUBSET Marks]

LEMMA Responses ==
    ASSUME NEW type \in Types, NEW status \in Int
    PROVE  /\ Response(type, status) \in Outcome
           /\ Response(type, status).status = status /\ Response(type, status).type = type
<1>1. Response(type, status) = [type |-> type, status |-> status, marks |-> {}]
  BY DEF Response
<1>2. {} \in SUBSET Marks
  OBVIOUS
<1>3. [type |-> type, status |-> status, marks |-> {}] \in Outcome
  BY <1>2 DEF Outcome
<1> QED BY <1>1, <1>3

LEMMA NoResponses ==
    /\ Nil \in Outcome /\ Nil.status = 0 /\ Nil.type = "nil"
    /\ Panic \in Outcome /\ Panic.status = 0 /\ Panic.type = "panic"
    /\ GoesOn \in Outcome /\ GoesOn.status = 0 /\ GoesOn.type = "goes on"
<1>1. {} \in SUBSET Marks
  OBVIOUS
<1>2. \A type \in Types : [type |-> type, status |-> 0, marks |-> {}] \in Outcome
  BY <1>1 DEF Outcome
<1>3. Nil \in Outcome /\ Panic \in Outcome /\ GoesOn \in Outcome
  BY <1>2 DEF Types, Nil, Panic, GoesOn
<1> QED BY <1>3 DEF Nil, Panic, GoesOn

LEMMA MarkMarks ==
    ASSUME NEW out \in Outcome, NEW mark \in SUBSET Marks
    PROVE  Mark(out, mark) \in Outcome /\ Mark(out, mark).status = out.status /\ Mark(out, mark).type = out.type
BY DEF Mark, Outcome

LEMMA SecurityMarks ==
    ASSUME NEW out \in Outcome, NEW conf, NEW req
    PROVE  LET back == Security(conf, req, out) IN
           /\ back \in Outcome /\ back.status \in {out.status, 302}
           /\ back.type \in {out.type, "redirect"} /\ (out.type = "panic" => back = out)
<1> DEFINE mark == (IF conf.ContentTypeNoSniff THEN {"nosniff"} ELSE {})
                   \cup (IF conf.BrowserXSSFilter THEN {"xss"} ELSE {})
                   \cup (IF conf.HSTSSeconds > 0 /\ req.https THEN {"hsts"} ELSE {})
<1>1. mark \in SUBSET Marks
  <2>1. {"nosniff"} \in SUBSET Marks /\ {"xss"} \in SUBSET Marks /\ {"hsts"} \in SUBSET Marks /\ {} \in SUBSET Marks
    BY DEF Marks
  <2>2. \A a, b, d \in SUBSET Marks : a \cup b \cup d \in SUBSET Marks
    OBVIOUS
  <2> QED BY <2>1, <2>2, Zenon
<1>2. Security(conf, req, out) \in {out, Response("redirect", 302), Mark(out, mark)}
  BY Zenon DEF Security
<1>3. out.type = "panic" => Security(conf, req, out) = out
  BY DEF Security
<1> HIDE DEF mark
<1>4. Response("redirect", 302) \in Outcome /\ Response("redirect", 302).status = 302 /\ Response("redirect", 302).type = "redirect"
  <2>1. "redirect" \in Types /\ 302 \in Int
    BY DEF Types
  <2> QED BY <2>1, Responses
<1> QED BY <1>1, <1>2, <1>3, <1>4, MarkMarks

\* What a layer may make of an outcome: nil becomes something else only in the log
\* line, only a hook makes a nil, and a panic goes on up until somebody recovers it.
LEMMA LayerReturns ==
    ASSUME NEW layer, NEW conf, NEW req, NEW out \in Outcome
    PROVE  LET back == Returns(layer, conf, req, out) IN
           /\ back \in Outcome
           /\ back.status \in {out.status, 0, 302, 500, 503}
           /\ layer # "hooks" /\ out.type # "nil" => back.type # "nil"
           /\ layer = "logging" => back.type # "nil"
           /\ layer = "recovery" => back.type # "panic"
<1> DEFINE back == Returns(layer, conf, req, out)
<1>0. /\ InternalServerError \in Outcome /\ InternalServerError.status = 500 /\ InternalServerError.type = "page"
      /\ Response("page", 503) \in Outcome /\ Response("page", 503).status = 503 /\ Response("page", 503).type = "page"
  <2>1. "page" \in Types /\ 500 \in Int /\ 503 \in Int
    BY DEF Types
  <2> QED BY <2>1, Responses DEF InternalServerError
<1>1. CASE layer = "recovery"
  <2>1. back = Recovery(out)
    BY <1>1 DEF Returns
  <2> QED BY <1>0, <1>1, <2>1 DEF Recovery
<1>2. CASE layer = "logging"
  <2>1. back = Logging(out)
    BY <1>2 DEF Returns
  <2> QED BY <1>2, <2>1, NoResponses, ZenonT(40) DEF Logging
<1>3. CASE layer = "hooks"
  <2>1. back = AdaptHooks(req.hooks, out)
    BY <1>3 DEF Returns
  <2> DEFINE excepted == OnException(req.hooks.exception, out)
  <2>2. excepted \in {out, Panic, Response("page", 503), InternalServerError}
    BY DEF OnException
  <2> HIDE DEF excepted
  <2>3. excepted \in Outcome /\ (excepted.status = out.status \/ excepted.status \in {0, 500, 503})
    <3>1. CASE excepted = out
      BY <3>1
    <3>2. CASE excepted = Panic
      BY <3>2, NoResponses
    <3>3. CASE excepted = Response("page", 503)
      BY <1>0, <3>3
    <3>4. CASE excepted = InternalServerError
      BY <1>0, <3>4
    <3> QED BY <2>2, <3>1, <3>2, <3>3, <3>4
  <2>4. OnResponse(req.hooks.response, excepted) \in {excepted, Panic, Nil}
    BY DEF OnResponse
  <2>5. back = OnResponse(req.hooks.response, excepted)
    BY <2>1 DEF AdaptHooks, excepted
  <2>6. back \in {excepted, Panic, Nil}
    BY <2>4, <2>5
  <2> HIDE DEF back
  <2>7. back \in Outcome /\ (back.status = out.status \/ back.status \in {0, 500, 503})
    <3>1. CASE back = excepted
      BY <2>3, <3>1
    <3>2. CASE back = Panic
      BY <3>2, NoResponses
    <3>3. CASE back = Nil
      BY <3>3, NoResponses
    <3> QED BY <2>6, <3>1, <3>2, <3>3
  <2> QED BY <1>3, <2>7 DEF back
<1>4. CASE layer = "security"
  <2>1. back = Security(conf, req, out)
    BY <1>4 DEF Returns
  <2> QED BY <1>4, <2>1, SecurityMarks
<1>5. CASE layer \in {"common", "xframe", "csrf"}
  <2>1. back \in {Mark(out, {"nosniff", "frame"}), Mark(out, {"frame"}), Mark(out, {"csrftoken"})}
    BY <1>5 DEF Returns
  <2>2. {"nosniff", "frame"} \in SUBSET Marks /\ {"frame"} \in SUBSET Marks /\ {"csrftoken"} \in SUBSET Marks
    BY DEF Marks
  <2> QED BY <1>5, <2>1, <2>2, MarkMarks
<1>6. CASE layer \notin {"recovery", "logging", "hooks", "security", "common", "xframe", "csrf"}
  <2>1. back = out
    BY <1>6 DEF Returns
  <2> QED BY <1>6, <2>1
<1> QED BY <1>1, <1>2, <1>3, <1>4, <1>5, <1>6

\* The layers above a position see the outcome one after the other, the outermost last.
Climbs(conf, req, i, out, f) ==
    /\ f \in [0..(i - 1) -> Outcome] /\ f[0] = out
    /\ \A k \in 1..(i - 1) : f[k] = Returns(Layers[i - k], conf, req, f[k - 1])

LEMMA OutwardsClimbs ==
    ASSUME NEW conf, NEW req, NEW i \in 1..(Len(Layers) + 1), NEW out \in Outcome
    PROVE  \E f : Climbs(conf, req, i, out, f) /\ Outwards(conf, req, i, out) = f[i - 1]
<1> DEFINE N == i - 1
           F == [k \in 1..N |-> [v \in Outcome |-> Returns(Layers[i - k], conf, req, v)]]
           Climbing(f) == f = [k \in 0..(i - 1) |-> IF k = 0 THEN out ELSE Returns(Chain[i - k], conf, req, f[k - 1])]
           after == CHOOSE f : Climbing(f)
<1>1. N \in Nat /\ i \in Nat
  BY LayersInOrder
<1>2. \A k \in 1..N, v \in Outcome : Returns(Layers[i - k], conf, req, v) \in Outcome
  BY LayerReturns
<1>3. F \in [1..N -> [Outcome -> Outcome]] /\ \A k \in 1..N, v \in Outcome : F[k][v] = Returns(Layers[i - k], conf, req, v)
  BY <1>2
<1>4. Outwards(conf, req, i, out) = after[i - 1]
  BY DEF Outwards
<1> HIDE DEF F
<1>5. \E f : Climbing(f)
  <2>1. PICK f : Built(N, Outcome, out, F, f)
    BY <1>1, <1>3, StepByStep
  <2>2. \A k \in 0..N : k = 0 \/ (k \in 1..N /\ k - 1 \in 0..N)
    BY <1>1
  <2>3. \A k \in 0..N : f[k] = IF k = 0 THEN out ELSE Returns(Chain[i - k], conf, req, f[k - 1])
    BY <1>3, <2>1, <2>2, ChainIsLayers DEF Built
  <2>4. f = [k \in 0..N |-> f[k]]
    BY <2>1 DEF Built
  <2>5. f = [k \in 0..N |-> IF k = 0 THEN out ELSE Returns(Chain[i - k], conf, req, f[k - 1])]
    BY <2>3, <2>4
  <2> QED BY <2>5
<1>6. Climbing(after)
  BY <1>5
<1> HIDE DEF after
<1>7. after[0] = out /\ \A k \in 1..N : after[k] = Returns(Layers[i - k], conf, req, after[k - 1])
  <2>1. 0 \in 0..N /\ \A k \in 1..N : k \in 0..N /\ k # 0
    BY <1>1
  <2> QED BY <1>6, <2>1, ChainIsLayers
<1>8. after \in [0..N -> Outcome]
  <2> DEFINE T == {k \in 0..N : after[k] \in Outcome}
  <2>1. 0 \in T
    BY <1>1, <1>7
  <2>2. \A k \in 0..N : k < N /\ k \in T => k + 1 \in T
    <3> SUFFICES ASSUME NEW k \in 0..N, k < N, k \in T PROVE k + 1 \in T
      OBVIOUS
    <3>1. k + 1 \in 1..N /\ k + 1 \in 0..N /\ (k + 1) - 1 = k
      BY <1>1
    <3>2. after[k + 1] = Returns(Layers[i - (k + 1)], conf, req, after[k])
      BY <1>7, <3>1
    <3> QED BY <1>2, <3>1, <3>2
  <2> HIDE DEF T
  <2>3. 0..N \subseteq T
    BY <1>1, <2>1, <2>2, UpTo
  <2>4. \A k \in 0..N : after[k] \in Outcome
    BY <2>3 DEF T
  <2> QED BY <1>6, <2>4
<1>9. Climbs(conf, req, i, out, after)
  BY <1>7, <1>8 DEF Climbs
<1> QED BY <1>4, <1>9

\* A status is the view's or one of those that the layers make.
LEMMA OutwardsKeepsStatus ==
    ASSUME NEW conf, NEW req, NEW i \in 1..(Len(Layers) + 1), NEW out \in Outcome
    PROVE  LET back == Outwards(conf, req, i, out) IN
           back \in Outcome /\ (back.status = out.status \/ back.status \in {0, 302, 500, 503})
<1> DEFINE N == i - 1
<1>1. N \in Nat /\ i \in Nat
  BY LayersInOrder
<1>2. PICK f : Climbs(conf, req, i, out, f) /\ Outwards(conf, req, i, out) = f[i - 1]
  BY OutwardsClimbs
<1>3. f \in [0..N -> Outcome] /\ f[0] = out /\ \A k \in 1..N : f[k] = Returns(Layers[i - k], conf, req, f[k - 1])
  BY <1>2 DEF Climbs
<1> DEFINE Kept(o) == o.status = out.status \/ o.status \in {0, 302, 500, 503}
           T == {k \in 0..N : Kept(f[k])}
<1>4. 0 \in T
  BY <1>1, <1>3
<1>5. ASSUME NEW k \in 0..N, k < N, k \in T PROVE k + 1 \in T
  <2>1. k + 1 \in 1..N /\ k + 1 \in 0..N /\ (k + 1) - 1 = k
    BY <1>1, <1>5
  <2>2. f[k + 1] = Returns(Layers[i - (k + 1)], conf, req, f[k]) /\ f[k] \in Outcome
    BY <1>3, <2>1
  <2>3. f[k + 1].status \in {f[k].status, 0, 302, 500, 503}
    BY <2>2, LayerReturns
  <2>4. Kept(f[k])
    BY <1>5
  <2>5. Kept(f[k + 1])
    BY <2>3, <2>4
  <2> QED BY <2>1, <2>5
<1> HIDE DEF T
<1>6. 0..N \subseteq T
  BY <1>1, <1>4, <1>5, UpTo
<1>7. N \in 0..N
  BY <1>1
<1>8. Kept(f[N])
  BY <1>6, <1>7 DEF T
<1> QED BY <1>2, <1>3, <1>7, <1>8

\* Below a layer that recovers panics, and with no hook above the log line.
LEMMA OutwardsAnswers ==
    ASSUME LayersAreOrdered, NEW conf, NEW req, NEW i \in 2..(Len(Layers) + 1), NEW out \in Outcome,
           out.type # "nil" \/ i = Len(Layers) + 1
    PROVE  Outwards(conf, req, i, out).type \notin {"nil", "panic"}
<1> DEFINE N == i - 1
<1>1. N \in Nat /\ i \in Nat /\ N >= 1 /\ i \in 1..(Len(Layers) + 1)
  BY LayersInOrder
<1>2. PICK f : Climbs(conf, req, i, out, f) /\ Outwards(conf, req, i, out) = f[i - 1]
  BY <1>1, OutwardsClimbs
<1>3. f \in [0..N -> Outcome] /\ f[0] = out /\ \A k \in 1..N : f[k] = Returns(Layers[i - k], conf, req, f[k - 1])
  BY <1>2 DEF Climbs
<1>4. PICK log \in DOMAIN Layers : Layers[log] = "logging" /\ AboveHooks(log)
  BY DEF LayersAreOrdered
<1>5. log \in 1..Len(Layers) /\ log \in Nat /\ Layers[log] = "logging" /\ \A j \in 1..(log - 1) : Layers[j] # "hooks"
  BY <1>4, LayersInOrder DEF AboveHooks
\* Above the log line, or above who stopped the request higher up, there is no nil.
<1> DEFINE T == {k \in 0..N : i - k <= log => f[k].type # "nil"}
<1>6. 0 \in T
  <2>1. i <= log => i # Len(Layers) + 1
    BY <1>1, <1>5, LayersInOrder
  <2> QED BY <1>1, <1>3, <2>1
<1>7. ASSUME NEW k \in 0..N, k < N, k \in T PROVE k + 1 \in T
  <2>1. k + 1 \in 1..N /\ k + 1 \in 0..N /\ (k + 1) - 1 = k /\ i - (k + 1) \in Int
    BY <1>1, <1>7
  <2>2. f[k + 1] = Returns(Layers[i - (k + 1)], conf, req, f[k]) /\ f[k] \in Outcome
    BY <1>3, <2>1
  <2>3. CASE i - (k + 1) = log
    <3>1. f[k + 1].type # "nil"
      BY <1>5, <2>2, <2>3, LayerReturns
    <3> QED BY <2>1, <3>1
  <2>4. CASE i - (k + 1) < log
    <3>1. i - (k + 1) \in 1..(log - 1) /\ i - k <= log
      BY <1>1, <1>5, <2>1, <2>4
    <3>2. f[k].type # "nil" /\ Layers[i - (k + 1)] # "hooks"
      BY <1>5, <1>7, <3>1
    <3>3. f[k + 1].type # "nil"
      BY <2>2, <3>2, LayerReturns
    <3> QED BY <2>1, <3>3
  <2>5. CASE ~(i - (k + 1) <= log)
    BY <2>1, <2>5
  <2> QED BY <1>5, <2>1, <2>3, <2>4, <2>5
<1> HIDE DEF T
<1>8. 0..N \subseteq T
  BY <1>1, <1>6, <1>7, UpTo
<1>9. N \in 0..N /\ N \in 1..N /\ i - N = 1 /\ N - 1 \in 0..N /\ 1 <= log
  BY <1>1, <1>5
<1>10. f[N].type # "nil"
  BY <1>8, <1>9 DEF T
<1>11. f[N] = Returns(Layers[1], conf, req, f[N - 1]) /\ f[N - 1] \in Outcome /\ Layers[1] = "recovery"
  BY <1>3, <1>9 DEF LayersAreOrdered
<1>12. f[N].type # "panic"
  BY <1>11, LayerReturns
<1> QED BY <1>2, <1>10, <1>12

\* Where a request gets to.
LEMMA EnteredFar ==
    ASSUME NEW req
    PROVE  \/ Entered(req) = Len(Layers) + 1 /\ \A i \in DOMAIN Layers : Stops(Layers[i], req) = GoesOn
           \/ Entered(req) \in DOMAIN Layers /\ Stops(Layers[Entered(req)], req) # GoesOn
<1> DEFINE stop == {i \in DOMAIN Layers : Stops(Layers[i], req) # GoesOn}
           first == CHOOSE i \in stop : \A j \in stop : i <= j
<1>1. Entered(req) = IF stop = {} THEN Len(Layers) + 1 ELSE first
  BY ChainIsLayers DEF Entered
<1>2. CASE stop = {}
  BY <1>1, <1>2
<1>3. CASE stop # {}
  <2>1. stop \in SUBSET Nat
    BY LayersInOrder
  <2>2. \E i \in stop : \A j \in stop : i <= j
    BY <1>3, <2>1, LeastNumber
  <2>3. first \in stop
    BY <2>2
  <2> QED BY <1>1, <1>3, <2>3
<1> QED BY <1>2, <1>3

\* What a layer answers by itself is no nil.
LEMMA StopsResponds ==
    ASSUME NEW layer, NEW req
    PROVE  LET back == Stops(layer, req) IN
           /\ back \in Outcome /\ back.type # "nil" /\ back.status \in {0, 200, 401, 403}
           /\ layer = "recovery" => back = GoesOn
           /\ layer = "csrf" /\ req.method \notin Safe /\ back = GoesOn => req.csrf
<1> DEFINE back == Stops(layer, req)
<1>1. \A status \in {200, 401, 403} : /\ Response("page", status) \in Outcome /\ Response("page", status).status = status
                                     /\ Response("page", status).type = "page"
  <2>1. "page" \in Types /\ {200, 401, 403} \subseteq Int
    BY DEF Types
  <2> QED BY <2>1, Responses
<1>2. Response("page", 403) # GoesOn
  BY DEF Response, GoesOn
<1>3. CASE layer = "host"
  <2>1. back = GoesOn \/ back = Response("page", 403)
    BY <1>3 DEF Stops
  <2>2. CASE back = GoesOn
    BY <1>3, <2>2, NoResponses
  <2>3. CASE back = Response("page", 403)
    BY <1>1, <1>3, <2>3
  <2> QED BY <2>1, <2>2, <2>3
<1>4. CASE layer = "csrf"
  <2>1. back = CSRFMiddleware(req)
    BY <1>4 DEF Stops
  <2>2. CASE req.method \in Safe \/ req.csrf
    <3>1. back = GoesOn
      BY <2>1, <2>2 DEF CSRFMiddleware
    <3> QED BY <1>4, <2>2, <3>1, NoResponses
  <2>3. CASE ~(req.method \in Safe \/ req.csrf)
    <3>1. back = Response("page", 403)
      BY <2>1, <2>3 DEF CSRFMiddleware
    <3> QED BY <1>1, <1>2, <1>4, <3>1
  <2> QED BY <2>2, <2>3
<1>5. CASE layer = "basic"
  <2>1. back = GoesOn \/ back = Response("page", 401)
    BY <1>5 DEF Stops
  <2>2. CASE back = GoesOn
    BY <1>5, <2>2, NoResponses
  <2>3. CASE back = Response("page", 401)
    BY <1>1, <1>5, <2>3
  <2> QED BY <2>1, <2>2, <2>3
<1>6. CASE layer = "hooks"
  <2>1. back = GoesOn \/ back = Panic \/ back = Response("page", 200)
    BY <1>6 DEF Stops
  <2>2. CASE back = GoesOn
    BY <1>6, <2>2, NoResponses
  <2>3. CASE back = Panic
    BY <1>6, <2>3, NoResponses
  <2>4. CASE back = Response("page", 200)
    BY <1>1, <1>6, <2>4
  <2> QED BY <2>1, <2>2, <2>3, <2>4
<1>7. CASE layer \notin {"host", "csrf", "basic", "hooks"}
  <2>1. back = GoesOn
    BY <1>7 DEF Stops
  <2> QED BY <1>7, <2>1, NoResponses
<1> QED BY <1>3, <1>4, <1>5, <1>6, <1>7

-----------------------------------------------------------------------------
(* What views end with.                                                    *)

PageStatuses == {0, 200, 301, 302, 400, 401, 403, 404, 405, 406, 429, 500}
ViewOutcome(out) == out \in Outcome /\ out.status \in PageStatuses

LEMMA PageOutcomes ==
    /\ \A status \in PageStatuses : ViewOutcome(Response("page", status))
    /\ ViewOutcome(Nil) /\ ViewOutcome(Panic) /\ ViewOutcome(Template) /\ ViewOutcome(OK) /\ ViewOutcome(NotAllowed)
    /\ \A permanent : ViewOutcome(Redirect(permanent))
    /\ ViewOutcome(Response("recorder", 200))
<1>1. /\ PageStatuses \subseteq Int /\ {"page", "template", "recorder", "redirect"} \subseteq Types
      /\ 0 \in PageStatuses /\ 200 \in PageStatuses /\ 405 \in PageStatuses /\ 301 \in PageStatuses /\ 302 \in PageStatuses
  BY DEF Types, PageStatuses
<1>2. \A type \in {"page", "template", "recorder", "redirect"}, status \in PageStatuses : ViewOutcome(Response(type, status))
  BY <1>1, Responses DEF ViewOutcome
<1>3. ViewOutcome(Nil) /\ ViewOutcome(Panic)
  BY <1>1, NoResponses, ZenonT(40) DEF ViewOutcome
<1>4. ViewOutcome(Template) /\ ViewOutcome(OK) /\ ViewOutcome(NotAllowed) /\ ViewOutcome(Response("recorder", 200))
  BY <1>1, <1>2 DEF Template, OK, NotAllowed
<1>5. \A permanent : ViewOutcome(Redirect(permanent))
  BY <1>1, <1>2 DEF Redirect
<1> QED BY <1>2, <1>3, <1>4, <1>5

LEMMA EndingsAreOutcomes ==
    ASSUME NEW handler PROVE (\A out \in Endings(handler) : ViewOutcome(out)) /\ (\A out \in HandledBy(handler) : ViewOutcome(out))
<1>1. \A how : Ending(how) \in {OK, Response("recorder", 200), Nil, Panic}
  BY DEF Ending
<1>2. \A how : ViewOutcome(Ending(how))
  <2> SUFFICES ASSUME NEW how PROVE ViewOutcome(Ending(how))
    OBVIOUS
  <2>1. Ending(how) = OK \/ Ending(how) = Response("recorder", 200) \/ Ending(how) = Nil \/ Ending(how) = Panic
    BY <1>1
  <2> QED BY <2>1, PageOutcomes
<1>3. \A out \in Endings(handler) : ViewOutcome(out)
  BY <1>2 DEF Endings
<1> QED BY <1>3, PageOutcomes DEF HandledBy

LEMMA FoundAreOutcomes ==
    ASSUME NEW view, NEW missing \in {404, 500} PROVE \A out \in Found(view, missing) : ViewOutcome(out)
<1> SUFFICES ASSUME NEW found, NEW out,
                    out = CASE found = "unset" -> Response("page", 500)
                            [] found = "error" -> Response("page", missing)
                            [] found = "object" -> PageBy(view)
                            [] OTHER -> Panic
             PROVE  ViewOutcome(out)
  BY DEF Found
<1>1. 500 \in PageStatuses /\ missing \in PageStatuses
  BY DEF PageStatuses
<1>2. ViewOutcome(PageBy(view))
  BY PageOutcomes DEF PageBy
<1>3. out = Response("page", 500) \/ out = Response("page", missing) \/ out = PageBy(view) \/ out = Panic
  OBVIOUS
<1> QED BY <1>1, <1>2, <1>3, PageOutcomes

LEMMA PagesEndWithOutcomes ==
    ASSUME NEW handler, NEW method PROVE \A out \in Outcomes(handler, method) : ViewOutcome(out)
<1>1. \A out \in Bare(method) : ViewOutcome(out)
  BY PageOutcomes DEF Bare
<1>2. \A view : ViewOutcome(PageBy(view))
  BY PageOutcomes DEF PageBy
<1>3. \A view, out : out \in TemplateView(view, method) => ViewOutcome(out)
  BY <1>1, <1>2 DEF TemplateView
<1>4. \A view, out : out \in RedirectView(view, method) => ViewOutcome(out)
  BY <1>1, PageOutcomes DEF RedirectView
<1>5. \A view, out : out \in ListView(view, method) \/ out \in DetailView(view, method) => ViewOutcome(out)
  BY <1>1, FoundAreOutcomes DEF ListView, DetailView
<1>6. \A view, out : out \in FormView(view, method) => ViewOutcome(out)
  BY <1>1, <1>2, EndingsAreOutcomes DEF FormView
<1>7. \A view, out : out \in CreateView(view, method) => ViewOutcome(out)
  BY <1>1, <1>2, EndingsAreOutcomes DEF CreateView
<1>8. \A view, out : out \in UpdateView(view, method) => ViewOutcome(out)
  BY <1>1, FoundAreOutcomes, EndingsAreOutcomes DEF UpdateView
<1>9. \A view, out : out \in DeleteView(view, method) => ViewOutcome(out)
  <2> SUFFICES ASSUME NEW view, NEW out, out \in DeleteView(view, method) PROVE ViewOutcome(out)
    OBVIOUS
  <2>1. out \in Found(view, 404) \/ out = Redirect(FALSE) \/ out \in HandledBy(view.handler) \/ out \in Bare(method)
    BY DEF DeleteView
  <2>2. CASE out \in Found(view, 404)
    <3>1. 404 \in {404, 500}
      OBVIOUS
    <3> QED BY <2>2, <3>1, FoundAreOutcomes
  <2>3. CASE out = Redirect(FALSE)
    BY <2>3, PageOutcomes
  <2>4. CASE out \in HandledBy(view.handler)
    BY <2>4, EndingsAreOutcomes
  <2> QED BY <1>1, <2>1, <2>2, <2>3, <2>4
<1>10. \A view, out : out \in AsView(view, method) => ViewOutcome(out)
  <2> SUFFICES ASSUME NEW view, NEW out, out \in AsView(view, method) PROVE ViewOutcome(out)
    OBVIOUS
  <2>1. \/ out = NotAllowed \/ out \in Bare(method) \/ out \in TemplateView(view, method) \/ out \in RedirectView(view, method)
        \/ out \in ListView(view, method) \/ out \in DetailView(view, method) \/ out \in FormView(view, method)
        \/ out \in CreateView(view, method) \/ out \in UpdateView(view, method) \/ out \in DeleteView(view, method)
    BY DEF AsView
  <2> QED BY <2>1, <1>1, <1>3, <1>4, <1>5, <1>6, <1>7, <1>8, <1>9, PageOutcomes
<1>11. \A view, out : out \in AllowedMethods(view, method) => ViewOutcome(out)
  BY PageOutcomes DEF AllowedMethods
<1> QED BY <1>10, <1>11, EndingsAreOutcomes DEF Outcomes

LEMMA GuardsAnswer ==
    ASSUME NEW guard, NEW user, NEW out, ViewOutcome(out) PROVE ViewOutcome(Guarded(guard, user, out))
<1>1. /\ ViewOutcome(Response("redirect", 302)) /\ ViewOutcome(Response("page", 401)) /\ ViewOutcome(Response("page", 403))
  BY PageOutcomes DEF PageStatuses, Redirect
<1>2. Guarded(guard, user, out) \in {out, Response("redirect", 302), Response("page", 401), Response("page", 403)}
  BY DEF Guarded, LoginRequired, LoginRequiredAPI, PermissionRequired, PermissionRequiredAPI
<1>3. \/ Guarded(guard, user, out) = out \/ Guarded(guard, user, out) = Response("redirect", 302)
      \/ Guarded(guard, user, out) = Response("page", 401) \/ Guarded(guard, user, out) = Response("page", 403)
  BY <1>2
<1> QED BY <1>1, <1>3
-----------------------------------------------------------------------------
(* What a REST view answers before a handler goes to the database.         *)

Refusals == {400, 401, 403, 405, 406, 429}

LEMMA LeastOfIndices ==
    ASSUME NEW N \in Nat, NEW S \in SUBSET (1..N), S # {}
    PROVE  (CHOOSE i \in S : \A j \in S : i <= j) \in S
<1>1. S \in SUBSET Nat
  OBVIOUS
<1>2. \E i \in S : \A j \in S : i <= j
  BY <1>1, LeastNumber
<1> QED BY <1>2

\* Dispatch answers only what one of its checks said, and lets a request through
\* only if all of them do; of these the permissions are asked for the account that
\* the authenticators name.
LEMMA DispatchAsks ==
    ASSUME NEW view, NEW actions, NEW req, NEW params, NEW user, NEW throttled
    PROVE  LET back == Dispatch(view, actions, req, params, user, throttled) IN
           /\ back \in Refusals \cup {0}
           /\ back = 0 => checkPermissions(view, req, authenticateRequest(view, req, user)) = 0
<1> DEFINE account == authenticateRequest(view, req, user)
           checks == <<ParseRefusal(view, req), VersionRefusal(view, req, params), AuthRefusal(view, req, user),
                       checkPermissions(view, req, account), Refuses(throttled, 429),
                       SelectRenderer(view, req), MethodRefusal(actions, req)>>
           refused == {i \in DOMAIN checks : checks[i] # 0}
           first == CHOOSE i \in refused : \A j \in refused : i <= j
           back == Dispatch(view, actions, req, params, user, throttled)
<1>1. back = IF refused = {} THEN 0 ELSE checks[first]
  BY DEF Dispatch
<1>2. /\ ParseRefusal(view, req) \in {0, 400} /\ AuthRefusal(view, req, user) \in {0, 401}
      /\ checkPermissions(view, req, account) \in {0, 403} /\ Refuses(throttled, 429) \in {0, 429}
  BY DEF Refuses, ParseRefusal, AuthRefusal, checkPermissions
<1>3. /\ VersionRefusal(view, req, params) \in {0, 400} /\ SelectRenderer(view, req) \in {0, 406}
      /\ MethodRefusal(actions, req) \in {0, 405}
  BY DEF Refuses, VersionRefusal, SelectRenderer, MethodRefusal
<1>4. DOMAIN checks = 1..7 /\ checks[4] = checkPermissions(view, req, account)
  OBVIOUS
<1>5. \A i \in 1..7 : checks[i] \in Refusals \cup {0}
  BY <1>2, <1>3 DEF Refusals
<1>6. refused # {} => first \in refused
  BY <1>4, LeastOfIndices
<1>7. refused = {} => checks[4] = 0
  BY <1>4
<1> HIDE DEF checks
<1>8. CASE refused = {}
  BY <1>1, <1>4, <1>7, <1>8
<1>9. CASE refused # {}
  BY <1>1, <1>4, <1>5, <1>6, <1>9
<1> QED BY <1>8, <1>9

\* Where the handlers begin.
Starts == {"count", "rows", "bind", "object"}

LEMMA HandlersBegin ==
    ASSUME NEW view, NEW action, NEW req, NEW params
    PROVE  LET begin == Begin(view, action, req, params) IN
           \/ begin.status \in {200, 400}
           \/ /\ begin.status = 0
              /\ \/ action = "list" /\ begin.pc \in {"count", "rows"}
                 \/ action = "create" /\ begin.pc = "bind"
                 \/ action \in {"retrieve", "update", "partial_update", "destroy"} /\ begin.pc = "object"
BY DEF Begin

\* What a view does with a request it is called for: an answer, or a handler of
\* which Dispatch said that it may begin.
LEMMA HandlingBegins ==
    ASSUME NEW match, NEW view, NEW req, NEW throttled
    PROVE  LET does == Handling(match, view, req, throttled)
               asked == ActionOf(match.handler, view, req, match.params, throttled)
           IN \/ does.status \in Refusals \cup {200}
              \/ /\ does.status = 0 /\ asked.status = 0 /\ does.action = asked.action
                 /\ \/ does.action = "list" /\ does.pc \in {"count", "rows"}
                    \/ does.action = "create" /\ does.pc = "bind"
                    \/ does.action \in {"retrieve", "update", "partial_update", "destroy"} /\ does.pc = "object"
<1> DEFINE asked == ActionOf(match.handler, view, req, match.params, throttled)
           begin == Begin(view, asked.action, req, match.params)
           does == Handling(match, view, req, throttled)
<1>1. does = IF asked.status # 0 THEN At0(asked.status)
             ELSE [status |-> begin.status, pc |-> begin.pc, plan |-> begin.plan, action |-> asked.action]
  BY DEF Handling, Handles
<1>2. asked.status \in Refusals \cup {0}
  <2>1. CASE view.kind = "set"
    BY <2>1, DispatchAsks DEF ActionOf
  <2>2. CASE view.kind # "set"
    BY <2>2 DEF ActionOf, Refusals
  <2> QED BY <2>1, <2>2
<1>3. CASE asked.status # 0
  <2>1. does = At0(asked.status)
    BY <1>1, <1>3
  <2> HIDE DEF does, asked
  <2>2. does.status = asked.status
    BY <2>1 DEF At0
  <2>3. does.status \in Refusals \cup {200}
    BY <1>2, <1>3, <2>2
  <2> QED BY <2>3 DEF does
<1>4. CASE asked.status = 0
  <2>1. does.status = begin.status /\ does.pc = begin.pc /\ does.action = asked.action
    BY <1>1, <1>4
  <2> HIDE DEF begin, does
  <2>2. \/ begin.status \in {200, 400}
        \/ /\ begin.status = 0
           /\ \/ asked.action = "list" /\ begin.pc \in {"count", "rows"}
              \/ asked.action = "create" /\ begin.pc = "bind"
              \/ asked.action \in {"retrieve", "update", "partial_update", "destroy"} /\ begin.pc = "object"
    BY HandlersBegin DEF begin
  <2>3. begin.status = 400 => does.status \in Refusals
    BY <2>1 DEF Refusals
  <2> QED BY <1>4, <2>1, <2>2, <2>3 DEF does
<1> QED BY <1>3, <1>4

-----------------------------------------------------------------------------
(* What a step of a client does to the calls.                              *)

Fields == {"pc", "req", "action", "match", "plan", "instance", "before", "next", "outcome", "data", "alone", "wrote"}
Calls == DOMAIN call = Clients /\ \A c \in Clients : DOMAIN call[c] = Fields
Shape == site \in DOMAIN Sites /\ Calls

\* Another call is as it was, or no longer alone.
Kept(d) ==
    /\ DOMAIN call'[d] = Fields
    /\ call'[d].pc = call[d].pc /\ call'[d].req = call[d].req /\ call'[d].action = call[d].action
    /\ call'[d].match = call[d].match /\ call'[d].plan = call[d].plan /\ call'[d].instance = call[d].instance
    /\ call'[d].before = call[d].before /\ call'[d].next = call[d].next /\ call'[d].outcome = call[d].outcome
    /\ call'[d].data = call[d].data /\ (call'[d].wrote <=> call[d].wrote)

\* A step of c that leaves the other calls as they are.
Only(c) == DOMAIN call' = Clients /\ DOMAIN call'[c] = Fields /\ \A d \in Clients \ {c} : Kept(d)

\* A call goes on in pc, or is answered with what the layers make of a status.
On(c, pc) ==
    /\ Only(c)
    /\ call'[c].pc = pc /\ call'[c].req = call[c].req /\ call'[c].match = call[c].match
    /\ call'[c].action = call[c].action /\ call'[c].plan = call[c].plan
Conf == settings[global]
Ends(c, status, wrote) ==
    /\ On(c, "answered")
    /\ call'[c].outcome = AnsweredWith(Conf, call[c].req, Api(status))
    /\ call'[c].before = call[c].before /\ (call'[c].wrote <=> wrote)

LEMMA SameKept ==
    ASSUME Calls, NEW c \in Clients, NEW now, DOMAIN now = Fields, call' = [call EXCEPT ![c] = now]
    PROVE  Only(c) /\ call'[c] = now
BY DEF Calls, Only, Kept

LEMMA AloneKept ==
    ASSUME Calls, NEW c \in Clients, NEW now, DOMAIN now = Fields,
           call' = [d \in Clients |-> IF d = c THEN now ELSE [call[d] EXCEPT !.alone = FALSE]]
    PROVE  Only(c) /\ call'[c] = now
<1>1. ASSUME NEW d \in Clients \ {c} PROVE Kept(d)
  <2>1. call'[d] = [call[d] EXCEPT !.alone = FALSE] /\ DOMAIN call[d] = Fields
    BY DEF Calls
  <2> QED BY <2>1 DEF Kept, Fields
<1> QED BY <1>1 DEF Only

LEMMA FreshFields ==
    /\ DOMAIN Fresh = Fields /\ Fresh.pc = "idle" /\ Fresh.outcome = Nil /\ ~Fresh.wrote
BY DEF Fresh, Fields

LEMMA AnswerEnds ==
    ASSUME Calls, NEW c \in Clients, NEW status, NEW data, Answer(c, Api(status), data)
    PROVE  Ends(c, status, call[c].wrote)
<1> DEFINE now == Answered(call[c], Api(status), data)
<1>1. call' = [call EXCEPT ![c] = now]
  BY DEF Answer, Calls
<1>2. /\ DOMAIN now = Fields /\ now.pc = "answered" /\ now.req = call[c].req /\ now.match = call[c].match
      /\ now.action = call[c].action /\ now.plan = call[c].plan
      /\ now.outcome = AnsweredWith(Conf, call[c].req, Api(status))
      /\ now.before = call[c].before /\ (now.wrote <=> call[c].wrote)
  BY DEF Answered, Calls, Fields, Conf
<1> HIDE DEF now
<1> QED BY <1>1, <1>2, SameKept DEF Ends, On

\* A call goes on with what it had.
Turns(c, pc) ==
    /\ On(c, pc)
    /\ call'[c].outcome = call[c].outcome /\ call'[c].before = call[c].before /\ (call'[c].wrote <=> call[c].wrote)

LEMMA LeaveStep ==
    ASSUME Calls, NEW c \in Clients, Leave(c) PROVE Only(c) /\ call'[c] = Fresh /\ call[c].pc = "answered"
BY SameKept, FreshFields DEF Leave

LEMMA ShowStep ==
    ASSUME Calls, NEW c \in Clients, Show(c)
    PROVE  call[c].pc = "render" /\ Turns(c, "answered")
<1> SUFFICES ASSUME NEW shown, Written(c, shown), call[c].pc = "render" PROVE Turns(c, "answered")
  BY DEF Show
<1> DEFINE now == [call[c] EXCEPT !.pc = "answered", !.data = <<shown>>]
<1>1. call' = [call EXCEPT ![c] = now]
  BY DEF Written, Calls
<1>2. /\ DOMAIN now = Fields /\ now.pc = "answered" /\ now.req = call[c].req /\ now.match = call[c].match
      /\ now.action = call[c].action /\ now.plan = call[c].plan /\ now.outcome = call[c].outcome
      /\ now.before = call[c].before /\ (now.wrote <=> call[c].wrote)
  BY DEF Calls, Fields
<1> HIDE DEF now
<1> QED BY <1>1, <1>2, SameKept DEF Turns, On

LEMMA CountStep ==
    ASSUME Calls, NEW c \in Clients, Count(c)
    PROVE  call[c].pc = "count" /\ Turns(c, "rows")
<1> DEFINE now == [call[c] EXCEPT !.pc = "rows"]
<1>1. call' = [call EXCEPT ![c] = now] /\ call[c].pc = "count"
  BY DEF Count, At, Calls
<1>2. /\ DOMAIN now = Fields /\ now.pc = "rows" /\ now.req = call[c].req /\ now.match = call[c].match
      /\ now.action = call[c].action /\ now.plan = call[c].plan /\ now.outcome = call[c].outcome
      /\ now.before = call[c].before /\ (now.wrote <=> call[c].wrote)
  BY DEF Calls, Fields
<1> HIDE DEF now
<1> QED BY <1>1, <1>2, SameKept DEF Turns, On

LEMMA RowsStep ==
    ASSUME Calls, NEW c \in Clients, Rows(c)
    PROVE  call[c].pc = "rows" /\ Ends(c, 200, call[c].wrote)
BY AnswerEnds DEF Rows, At

LEMMA DatabaseFailsStep ==
    ASSUME Calls, NEW c \in Clients, DatabaseFails(c)
    PROVE  /\ call[c].pc \in {"count", "rows", "object", "insert", "update", "delete"}
           /\ \E status \in {400, 500} : Ends(c, status, call[c].wrote)
<1> DEFINE status == IF call[c].pc = "count" /\ ViewOf(c).kind = "set" THEN 400 ELSE 500
<1>1. status \in {400, 500} /\ Answer(c, Api(status), <<>>) /\ call[c].pc \in {"count", "rows", "object", "insert", "update", "delete"}
  BY DEF DatabaseFails
<1> HIDE DEF status
<1>2. Ends(c, status, call[c].wrote)
  BY <1>1, AnswerEnds
<1> QED BY <1>1, <1>2

\* The object that getObject has found.
Gets(c, row) ==
    /\ On(c, IF call[c].action = "destroy" THEN "delete" ELSE "bind")
    /\ call'[c].outcome = call[c].outcome /\ (call'[c].wrote <=> call[c].wrote)
    /\ call'[c].instance = Loaded(row) /\ call'[c].before = row

LEMMA GetObjectStep ==
    ASSUME Calls, NEW c \in Clients, GetObject(c)
    PROVE  /\ call[c].pc = "object"
           /\ \/ \E status \in {200, 403, 404, 500} : Ends(c, status, call[c].wrote)
              \/ call[c].action # "retrieve" /\ \E row \in rows : Gets(c, row)
<1> DEFINE found == {row \in rows : Holds(call[c].plan, row[call[c].plan.column])}
           row == CHOOSE r \in found : TRUE
           view == ViewOf(c)
           refused == IF view.kind # "set" THEN 0
                      ELSE checkObjectPermissions(view, call[c].req,
                              authenticateRequest(view, call[c].req, RequestUser(call[c].req)), \E l \in Locked : row[l.column] = l.value)
           now == [call[c] EXCEPT !.pc = IF call[c].action = "destroy" THEN "delete" ELSE "bind",
                                  !.instance = Loaded(row), !.before = row]
<1>1. call[c].pc = "object"
  BY DEF GetObject, At
<1>2. refused \in {0, 403}
  BY DEF checkObjectPermissions, Refuses
<1>3. \/ found = {} /\ Answer(c, Api(404), <<>>)
      \/ found # {} /\ Answer(c, Api(500), <<>>)
      \/ found # {} /\ refused # 0 /\ Answer(c, Api(refused), <<>>)
      \/ found # {} /\ Answer(c, Api(200), <<Serialize(Bindings, Loaded(row))>>)
      \/ found # {} /\ call[c].action # "retrieve"
         /\ call' = [call EXCEPT ![c].pc = IF call[c].action = "destroy" THEN "delete" ELSE "bind",
                                 ![c].instance = Loaded(row), ![c].before = row]
  BY ZenonT(40) DEF GetObject
<1>4. found # {} => row \in rows
  OBVIOUS
<1> HIDE DEF refused, found, row
<1>5. CASE found = {} /\ Answer(c, Api(404), <<>>)
  BY <1>1, <1>5, AnswerEnds
<1>6. CASE Answer(c, Api(500), <<>>)
  BY <1>1, <1>6, AnswerEnds
<1>7. CASE refused # 0 /\ Answer(c, Api(refused), <<>>)
  <2>1. refused = 403
    BY <1>2, <1>7
  <2>2. Ends(c, 403, call[c].wrote)
    BY <1>7, <2>1, AnswerEnds
  <2> QED BY <1>1, <2>2
<1>8. CASE Answer(c, Api(200), <<Serialize(Bindings, Loaded(row))>>)
  BY <1>1, <1>8, AnswerEnds
<1>9. CASE found # {} /\ call[c].action # "retrieve"
           /\ call' = [call EXCEPT ![c].pc = IF call[c].action = "destroy" THEN "delete" ELSE "bind",
                                   ![c].instance = Loaded(row), ![c].before = row]
  <2>1. call' = [call EXCEPT ![c] = now]
    BY <1>9 DEF Calls
  <2>2. /\ DOMAIN now = Fields /\ now.pc = (IF call[c].action = "destroy" THEN "delete" ELSE "bind")
        /\ now.req = call[c].req /\ now.match = call[c].match
        /\ now.action = call[c].action /\ now.plan = call[c].plan /\ now.outcome = call[c].outcome
        /\ now.instance = Loaded(row) /\ now.before = row /\ (now.wrote <=> call[c].wrote)
    BY DEF Calls, Fields
  <2> HIDE DEF now
  <2>3. Gets(c, row)
    BY <2>1, <2>2, SameKept DEF Gets, On
  <2> QED BY <1>1, <1>4, <1>9, <2>3
<1> QED BY <1>3, <1>5, <1>6, <1>7, <1>8, <1>9

LEMMA StartBindStep ==
    ASSUME Calls, NEW c \in Clients, StartBind(c)
    PROVE  call[c].pc = "bind" /\ Turns(c, "binding") /\ call'[c].instance = call[c].instance
<1> DEFINE now == [call[c] EXCEPT !.pc = "binding", !.next = 1, !.alone = Binding = {}]
<1>1. call[c].pc = "bind" /\ call' = [d \in Clients |-> IF d = c THEN now ELSE [call[d] EXCEPT !.alone = FALSE]]
  BY DEF StartBind, At
<1>2. /\ DOMAIN now = Fields /\ now.pc = "binding" /\ now.req = call[c].req /\ now.match = call[c].match
      /\ now.action = call[c].action /\ now.plan = call[c].plan /\ now.outcome = call[c].outcome
      /\ now.before = call[c].before /\ now.instance = call[c].instance /\ (now.wrote <=> call[c].wrote)
  BY DEF Calls, Fields
<1> HIDE DEF now
<1> QED BY <1>1, <1>2, AloneKept DEF Turns, On

LEMMA BindFieldStep ==
    ASSUME Calls, NEW c \in Clients, BindField(c)
    PROVE  call[c].pc = "binding" /\ Turns(c, "binding") /\ call'[c].instance = call[c].instance
<1> DEFINE now == [call[c] EXCEPT !.next = @ + 1]
<1>1. call[c].pc = "binding" /\ call' = [call EXCEPT ![c] = now]
  BY DEF BindField, At, Calls
<1>2. /\ DOMAIN now = Fields /\ now.pc = call[c].pc /\ now.req = call[c].req /\ now.match = call[c].match
      /\ now.action = call[c].action /\ now.plan = call[c].plan /\ now.outcome = call[c].outcome
      /\ now.before = call[c].before /\ now.instance = call[c].instance /\ (now.wrote <=> call[c].wrote)
  BY DEF Calls, Fields
<1> HIDE DEF now
<1> QED BY <1>1, <1>2, SameKept DEF Turns, On

LEMMA FinishBindStep ==
    ASSUME Calls, NEW c \in Clients, FinishBind(c)
    PROVE  /\ call[c].pc = "binding"
           /\ \/ Ends(c, 400, call[c].wrote)
              \/ /\ Turns(c, IF call[c].action = "create" THEN "insert" ELSE "assign")
                 /\ call'[c].instance = call[c].instance
<1> DEFINE now == [call[c] EXCEPT !.pc = IF call[c].action = "create" THEN "insert" ELSE "assign"]
<1>1. call[c].pc = "binding" /\ (Answer(c, Api(400), <<>>) \/ call' = [call EXCEPT ![c] = now])
  BY DEF FinishBind, At, Calls
<1>2. /\ DOMAIN now = Fields /\ now.pc = (IF call[c].action = "create" THEN "insert" ELSE "assign")
      /\ now.req = call[c].req /\ now.match = call[c].match
      /\ now.action = call[c].action /\ now.plan = call[c].plan /\ now.outcome = call[c].outcome
      /\ now.before = call[c].before /\ now.instance = call[c].instance /\ (now.wrote <=> call[c].wrote)
  BY DEF Calls, Fields
<1> HIDE DEF now
<1>3. CASE call' = [call EXCEPT ![c] = now]
  <2>1. Only(c) /\ call'[c] = now
    BY <1>2, <1>3, SameKept
  <2> DEFINE to == IF call[c].action = "create" THEN "insert" ELSE "assign"
  <2>2. now.pc = to
    BY <1>2
  <2> HIDE DEF to
  <2>3. Turns(c, to) /\ call'[c].instance = call[c].instance
    BY <1>2, <2>1, <2>2 DEF Turns, On
  <2> QED BY <1>1, <2>3 DEF to
<1> QED BY <1>1, <1>3, AnswerEnds

LEMMA CreatedStep ==
    ASSUME Calls, NEW c \in Clients, Created(c)
    PROVE  call[c].pc = "created" /\ Ends(c, 201, call[c].wrote)
BY AnswerEnds DEF Created, At

LEMMA AssignStep ==
    ASSUME Calls, NEW c \in Clients, Assign(c)
    PROVE  /\ call[c].pc = "assign" /\ Turns(c, "update")
           /\ call'[c].instance = assignMapToStruct(Pointers, call[c].instance, bound.validated)
<1> DEFINE now == [call[c] EXCEPT !.pc = "update", !.instance = assignMapToStruct(Pointers, @, bound.validated)]
<1>1. call[c].pc = "assign" /\ call' = [call EXCEPT ![c] = now]
  BY DEF Assign, At, Calls
<1>2. /\ DOMAIN now = Fields /\ now.pc = "update" /\ now.req = call[c].req /\ now.match = call[c].match
      /\ now.action = call[c].action /\ now.plan = call[c].plan /\ now.outcome = call[c].outcome
      /\ now.before = call[c].before /\ (now.wrote <=> call[c].wrote)
      /\ now.instance = assignMapToStruct(Pointers, call[c].instance, bound.validated)
  BY DEF Calls, Fields
<1> HIDE DEF now
<1> QED BY <1>1, <1>2, SameKept DEF Turns, On

LEMMA WroteEnds ==
    ASSUME Calls, NEW c \in Clients, NEW was, DOMAIN was = Fields, was.req = call[c].req, was.match = call[c].match,
           was.action = call[c].action, was.plan = call[c].plan,
           NEW how, NEW status, NEW data, Wrote(c, was, how, Api(status), data)
    PROVE  /\ On(c, "answered") /\ call'[c].before = was.before /\ call'[c].wrote
           /\ \E told \in {status, 500} : call'[c].outcome = AnsweredWith(Conf, call[c].req, Api(told))
<1> DEFINE told == IF how = "lost" THEN 500 ELSE status
           shown == IF how = "lost" THEN <<>> ELSE data
           now == Answered([was EXCEPT !.wrote = TRUE], Api(told), shown)
<1>1. call' = [d \in Clients |-> IF d = c THEN now ELSE [call[d] EXCEPT !.alone = FALSE]]
  BY DEF Wrote
<1>2. told \in {status, 500}
  OBVIOUS
<1> HIDE DEF told, shown
<1>3. /\ DOMAIN now = Fields /\ now.pc = "answered" /\ now.req = was.req /\ now.match = was.match
      /\ now.action = was.action /\ now.plan = was.plan /\ now.before = was.before /\ now.wrote
      /\ now.outcome = AnsweredWith(Conf, was.req, Api(told))
  BY DEF Answered, Fields, Conf
<1> HIDE DEF now
<1>4. Only(c) /\ call'[c] = now
  BY <1>1, <1>3, AloneKept
<1> QED BY <1>2, <1>3, <1>4 DEF On

\* The three statements that write: each answers, without or with an effect on the table.
Writing(c, statuses) ==
    /\ On(c, "answered") /\ call'[c].wrote
    /\ \E told \in statuses \cup {500} : call'[c].outcome = AnsweredWith(Conf, call[c].req, Api(told))

NewRow == Stored(Meta, Blank, bound.validated)

LEMMA InsertStep ==
    ASSUME Calls, NEW c \in Clients, NEW how, Insert(c, how)
    PROVE  /\ call[c].pc = "insert"
           /\ \/ UNCHANGED <<rows, nextId>> /\ Ends(c, 500, call[c].wrote)
              \/ /\ Stores(NewRow) /\ rows' = rows \cup {NewRow} /\ nextId' = nextId + 1
                 /\ \/ Writing(c, {500})
                    \/ /\ On(c, "created") /\ call'[c].wrote /\ call'[c].before = NewRow
                       /\ call'[c].instance = bound.validated
<1> DEFINE now == [call[c] EXCEPT !.pc = "created", !.wrote = TRUE, !.before = NewRow, !.instance = bound.validated]
<1>1. /\ call[c].pc = "insert"
      /\ \/ UNCHANGED <<rows, nextId>> /\ Answer(c, Api(500), <<>>)
         \/ /\ Stores(NewRow) /\ rows' = rows \cup {NewRow} /\ nextId' = nextId + 1
            /\ \/ how = "lost" /\ Wrote(c, call[c], how, Nil, <<>>)
               \/ call' = [d \in Clients |-> IF d = c THEN now ELSE [call[d] EXCEPT !.alone = FALSE]]
  BY DEF Insert, At, NewRow
<1>2. CASE UNCHANGED <<rows, nextId>> /\ Answer(c, Api(500), <<>>)
  BY <1>1, <1>2, AnswerEnds
<1>3. CASE how = "lost" /\ Wrote(c, call[c], how, Nil, <<>>)
  <2>1. Wrote(c, call[c], how, Api(500), <<>>)
    BY <1>3 DEF Wrote
  <2>2. DOMAIN call[c] = Fields
    BY DEF Calls
  <2>3. Writing(c, {500})
    BY <2>1, <2>2, WroteEnds DEF Writing
  <2> QED BY <1>1, <2>3, <1>2
<1>4. CASE call' = [d \in Clients |-> IF d = c THEN now ELSE [call[d] EXCEPT !.alone = FALSE]]
  <2>1. /\ DOMAIN now = Fields /\ now.pc = "created" /\ now.req = call[c].req /\ now.match = call[c].match
        /\ now.action = call[c].action /\ now.plan = call[c].plan
        /\ now.before = NewRow /\ now.wrote /\ now.instance = bound.validated
    BY DEF Calls, Fields
  <2> HIDE DEF now
  <2>2. Only(c) /\ call'[c] = now
    BY <1>4, <2>1, AloneKept
  <2>3. On(c, "created") /\ call'[c].wrote /\ call'[c].before = NewRow /\ call'[c].instance = bound.validated
    BY <2>1, <2>2 DEF On
  <2> QED BY <1>1, <1>2, <2>3
<1> QED BY <1>1, <1>2, <1>3, <1>4

LEMMA UpdateRowStep ==
    ASSUME Calls, NEW c \in Clients, NEW how, UpdateRow(c, how)
    PROVE  LET found == {row \in rows : row[Key] = call[c].instance[Meta.pk]}
               changed == {Stored(Meta, row, bound.validated) : row \in found}
           IN /\ call[c].pc = "update"
              /\ \/ UNCHANGED rows /\ \E status \in {200, 500} : Ends(c, status, call[c].wrote)
                 \/ /\ found # {} /\ \A row \in changed : Stores(row)
                    /\ rows' = (rows \ found) \cup changed
                    /\ Writing(c, {200}) /\ call'[c].before \in found
<1> DEFINE found == {row \in rows : row[Key] = call[c].instance[Meta.pk]}
           changed == {Stored(Meta, row, bound.validated) : row \in found}
           was == [call[c] EXCEPT !.before = CHOOSE row \in found : TRUE]
           shown == <<Serialize(Bindings, call[c].instance)>>
<1>1. call[c].pc = "update"
  BY DEF UpdateRow, At
<1>2. \/ UNCHANGED rows /\ Answer(c, Api(200), shown)
      \/ UNCHANGED rows /\ Answer(c, Api(500), <<>>)
      \/ /\ found # {} /\ \A row \in changed : Stores(row)
         /\ rows' = (rows \ found) \cup changed
         /\ Wrote(c, was, how, Api(200), shown)
  BY Zenon DEF UpdateRow
<1>3. found # {} => (CHOOSE row \in found : TRUE) \in found
  OBVIOUS
<1> HIDE DEF found, changed, shown
<1>4. /\ DOMAIN was = Fields /\ was.req = call[c].req /\ was.match = call[c].match
      /\ was.action = call[c].action /\ was.plan = call[c].plan /\ was.before = CHOOSE row \in found : TRUE
  BY DEF Calls, Fields
<1> HIDE DEF was
<1>5. CASE UNCHANGED rows /\ Answer(c, Api(200), shown)
  <2>1. Ends(c, 200, call[c].wrote)
    BY <1>5, AnswerEnds
  <2> QED BY <1>1, <1>5, <2>1
<1>6. CASE UNCHANGED rows /\ Answer(c, Api(500), <<>>)
  <2>1. Ends(c, 500, call[c].wrote)
    BY <1>6, AnswerEnds
  <2> QED BY <1>1, <1>6, <2>1
<1>7. CASE /\ found # {} /\ \A row \in changed : Stores(row)
           /\ rows' = (rows \ found) \cup changed
           /\ Wrote(c, was, how, Api(200), shown)
  <2>1. Writing(c, {200}) /\ call'[c].before = was.before
    BY <1>4, <1>7, WroteEnds DEF Writing
  <2>2. call'[c].before \in found
    BY <1>3, <1>4, <1>7, <2>1
  <2> QED BY <1>1, <1>7, <2>1, <2>2 DEF found, changed
<1> QED BY <1>2, <1>5, <1>6, <1>7

LEMMA DeleteRowStep ==
    ASSUME Calls, NEW c \in Clients, NEW how, DeleteRow(c, how)
    PROVE  LET found == {row \in rows : row[Key] = call[c].instance[Meta.pk]} IN
           /\ call[c].pc = "delete"
           /\ \/ UNCHANGED <<rows, walk>> /\ Ends(c, 404, call[c].wrote)
              \/ /\ found # {} /\ rows' = rows \ found
                 /\ walk' = [d \in Clients |-> [walk[d] EXCEPT !.kept = @ \ Ids(found)]]
                 /\ Writing(c, {204}) /\ call'[c].before = call[c].before
<1> DEFINE found == {row \in rows : row[Key] = call[c].instance[Meta.pk]}
<1>1. call[c].pc = "delete"
  BY DEF DeleteRow, At
<1>2. \/ UNCHANGED <<rows, walk>> /\ Answer(c, Api(404), <<>>)
      \/ /\ found # {} /\ rows' = rows \ found
         /\ walk' = [d \in Clients |-> [walk[d] EXCEPT !.kept = @ \ Ids(found)]]
         /\ Wrote(c, call[c], how, Api(204), <<>>)
  BY Zenon DEF DeleteRow
<1>3. DOMAIN call[c] = Fields
  BY DEF Calls
<1> HIDE DEF found
<1>4. CASE UNCHANGED <<rows, walk>> /\ Answer(c, Api(404), <<>>)
  BY <1>1, <1>4, AnswerEnds
<1>5. CASE /\ found # {} /\ rows' = rows \ found
           /\ walk' = [d \in Clients |-> [walk[d] EXCEPT !.kept = @ \ Ids(found)]]
           /\ Wrote(c, call[c], how, Api(204), <<>>)
  <2>1. Writing(c, {204}) /\ call'[c].before = call[c].before
    BY <1>3, <1>5, WroteEnds DEF Writing
  <2> QED BY <1>1, <1>5, <2>1 DEF found
<1> QED BY <1>2, <1>4, <1>5

\* A request is answered before a handler begins, by nobody, by a layer, or by a
\* view whose outcome the layers have seen; or a handler begins.
Fell(c, req) ==
    \/ resolveHandler[req] = NoMatch /\ call'[c].outcome = Response("page", 404)
    \/ ~ReachesView(req) /\ call'[c].outcome = StoppedWith(Conf, req)
    \/ ReachesView(req) /\ \E out : ViewOutcome(out) /\ call'[c].outcome = AnsweredWith(Conf, req, out)
Begun(c, req) ==
    /\ ReachesView(req) /\ IsApi(resolveHandler[req])
    /\ \E throttled \in BOOLEAN :
          LET does == Handling(resolveHandler[req], ViewFor(resolveHandler[req]), req, throttled) IN
          does.status = 0 /\ call'[c].pc = does.pc /\ call'[c].action = does.action /\ call'[c].plan = does.plan
Arrives(c, req) ==
    /\ Only(c) /\ call'[c].req = req /\ call'[c].match = resolveHandler[req] /\ ~call'[c].wrote
    /\ \/ call'[c].pc \in {"answered", "render"} /\ Fell(c, req)
       \/ Begun(c, req)

\* Whatever a client asks is one of the requests there are.
LEMMA WishesAreRequests ==
    ASSUME Shape, NEW c \in Clients, NEW req \in Wishes(c) PROVE req \in Requests
<1>1. CASE req \in Sites[site][c].asks
  BY <1>1 DEF Shape, Requests, AllAsks
<1>2. CASE req \notin Sites[site][c].asks
  <2>1. req = WalkRequest \/ (Last1(walk[c].seen) \in DOMAIN CursorOf /\ req = Continued(Last1(walk[c].seen)))
    <3>1. req \in (IF Sites[site][c].walks THEN {WalkRequest} ELSE {}) \/ req \in (IF Goes(c) THEN {Continued(Last1(walk[c].seen))} ELSE {})
      BY <1>2 DEF Wishes
    <3> QED BY <3>1 DEF Goes
  <2>2. \A id \in DOMAIN CursorOf : Continued(id) \in Requests
    BY DEF Requests
  <2>3. WalkRequest \in Requests
    BY DEF Requests
  <2> QED BY <2>1, <2>2, <2>3
<1> QED BY <1>1, <1>2

LEMMA AskStep ==
    ASSUME Calls, NEW c \in Clients, NEW req \in Requests, Ask(c, req)
    PROVE  call[c].pc = "idle" /\ Arrives(c, req)
<1> DEFINE was == [Fresh EXCEPT !.req = req, !.match = resolveHandler[req]]
<1>1. call[c].pc = "idle" /\ Arrive(c, req, was)
  BY DEF Ask
<1>2. DOMAIN was = Fields /\ was.req = req /\ was.match = resolveHandler[req] /\ ~was.wrote
  BY FreshFields DEF Fields
<1> HIDE DEF was
\* An answer, with out in place of what the view returned.
<1>3. ASSUME NEW out, NEW data, NEW pc \in {"answered", "render"}, NEW now, DOMAIN now = Fields, now.pc = pc,
             now.req = req, now.match = resolveHandler[req], ~now.wrote,
             call' = [call EXCEPT ![c] = now],
             \/ resolveHandler[req] = NoMatch /\ now.outcome = Response("page", 404)
             \/ ~ReachesView(req) /\ now.outcome = StoppedWith(Conf, req)
             \/ ReachesView(req) /\ ViewOutcome(out) /\ now.outcome = AnsweredWith(Conf, req, out)
      PROVE  Arrives(c, req)
  <2>1. Only(c) /\ call'[c] = now
    BY <1>3, SameKept
  <2>2. Fell(c, req)
    BY <1>3, <2>1 DEF Fell
  <2> QED BY <1>3, <2>1, <2>2 DEF Arrives
<1>4. CASE was.match = NoMatch
  <2> DEFINE now == [was EXCEPT !.pc = "answered", !.outcome = Response("page", 404)]
  <2>1. call' = [call EXCEPT ![c] = now]
    BY <1>1, <1>4 DEF Arrive
  <2>2. /\ DOMAIN now = Fields /\ now.pc = "answered" /\ now.req = req /\ now.match = resolveHandler[req]
        /\ ~now.wrote /\ now.outcome = Response("page", 404)
    BY <1>2 DEF Fields
  <2> HIDE DEF now
  <2> QED BY <1>1, <1>2, <1>3, <1>4, <2>1, <2>2
<1>5. CASE was.match # NoMatch /\ ~ReachesView(req)
  <2> DEFINE now == [was EXCEPT !.pc = "answered", !.outcome = StoppedWith(Conf, req)]
  <2>1. call' = [call EXCEPT ![c] = now]
    BY <1>1, <1>5 DEF Arrive, Conf
  <2>2. /\ DOMAIN now = Fields /\ now.pc = "answered" /\ now.req = req /\ now.match = resolveHandler[req]
        /\ ~now.wrote /\ now.outcome = StoppedWith(Conf, req)
    BY <1>2 DEF Fields
  <2> HIDE DEF now
  <2> QED BY <1>1, <1>3, <1>5, <2>1, <2>2
<1>6. CASE was.match # NoMatch /\ ReachesView(req) /\ IsApi(was.match)
  <2>1. PICK does \in Handled[req] : Serve(c, was, does)
    BY <1>1, <1>6 DEF Arrive
  <2>2. PICK throttled \in BOOLEAN : does = Handling(resolveHandler[req], ViewFor(resolveHandler[req]), req, throttled)
    BY <1>2, <1>6 DEF Handled
  <2>3. CASE does.status # 0
    <3> DEFINE now == Answered(was, Api(does.status), <<>>)
    <3>1. call' = [call EXCEPT ![c] = now]
      BY <2>1, <2>3 DEF Serve
    <3>2. /\ DOMAIN now = Fields /\ now.pc = "answered" /\ now.req = req /\ now.match = resolveHandler[req]
          /\ ~now.wrote /\ now.outcome = AnsweredWith(Conf, req, Api(does.status))
      BY <1>2 DEF Answered, Fields, Conf
    <3>3. ViewOutcome(Api(does.status))
      <4>1. does.status \in Refusals \cup {200}
        BY <2>2, <2>3, HandlingBegins
      <4>2. "api" \in Types /\ does.status \in Int /\ does.status \in PageStatuses
        BY <4>1 DEF Types, PageStatuses, Refusals
      <4> QED BY <4>2, Responses DEF ViewOutcome, Api
    <3> HIDE DEF now
    <3> QED BY <1>1, <1>3, <1>6, <3>1, <3>2, <3>3
  <2>4. CASE does.status = 0
    <3> DEFINE now == [was EXCEPT !.pc = does.pc, !.plan = does.plan, !.action = does.action]
    <3>1. call' = [call EXCEPT ![c] = now]
      BY <2>1, <2>4 DEF Serve
    <3>2. /\ DOMAIN now = Fields /\ now.pc = does.pc /\ now.req = req /\ now.match = resolveHandler[req]
          /\ now.action = does.action /\ now.plan = does.plan /\ ~now.wrote
      BY <1>2 DEF Fields
    <3> HIDE DEF now
    <3>3. Only(c) /\ call'[c] = now
      BY <3>1, <3>2, SameKept
    <3>4. Begun(c, req)
      BY <1>2, <1>6, <2>2, <2>4, <3>2, <3>3 DEF Begun
    <3> QED BY <1>1, <3>2, <3>3, <3>4 DEF Arrives
  <2> QED BY <2>3, <2>4
<1>7. CASE was.match # NoMatch /\ ReachesView(req) /\ ~IsApi(was.match)
  <2>1. PICK out \in Outcomes(was.match.handler, req.method) :
            call' = [call EXCEPT ![c] =
                ToRender(Answered(was, Guarded(was.match.handler.guard, RequestUser(req), out), <<>>))]
    BY <1>1, <1>7 DEF Arrive
  <2> DEFINE end == Guarded(was.match.handler.guard, RequestUser(req), out)
             answered == Answered(was, end, <<>>)
             now == ToRender(answered)
  <2>2. call' = [call EXCEPT ![c] = now]
    BY <2>1
  <2>3. ViewOutcome(end)
    BY PagesEndWithOutcomes, GuardsAnswer
  <2> HIDE DEF end
  <2>4. /\ DOMAIN answered = Fields /\ answered.pc = "answered" /\ answered.req = req
        /\ answered.match = resolveHandler[req] /\ ~answered.wrote /\ answered.outcome = AnsweredWith(Conf, req, end)
    BY <1>2 DEF Answered, Fields, Conf
  <2> HIDE DEF answered
  <2>5. /\ DOMAIN now = Fields /\ now.pc \in {"answered", "render"} /\ now.req = req
        /\ now.match = resolveHandler[req] /\ ~now.wrote /\ now.outcome = AnsweredWith(Conf, req, end)
    BY <2>4 DEF ToRender, Fields
  <2> HIDE DEF now
  <2> QED BY <1>1, <1>3, <1>7, <2>2, <2>3, <2>5, ZenonT(40)
<1> QED BY <1>1, <1>4, <1>5, <1>6, <1>7

LEMMA ApiOutcome ==
    ASSUME NEW status \in Int
    PROVE  Api(status) \in Outcome /\ Api(status).status = status /\ Api(status).type = "api"
<1>1. "api" \in Types
  BY DEF Types
<1> QED BY <1>1, Responses DEF Api

\* What a request is answered with, whoever answers it.
LEMMA AnswersKeepStatus ==
    ASSUME NEW req, NEW out \in Outcome
    PROVE  LET back == AnsweredWith(Conf, req, out) IN
           back \in Outcome /\ (back.status = out.status \/ back.status \in {0, 302, 500, 503})
<1>1. Len(Layers) + 1 \in 1..(Len(Layers) + 1)
  BY LayersInOrder
<1> QED BY <1>1, OutwardsKeepsStatus, ChainIsLayers DEF AnsweredWith

LEMMA AnswersRespond ==
    ASSUME LayersAreOrdered, NEW req, NEW out \in Outcome
    PROVE  AnsweredWith(Conf, req, out).type \notin {"nil", "panic"}
<1>1. Len(Layers) + 1 \in 2..(Len(Layers) + 1)
  BY LayersInOrder, MiddlewareAssumption DEF LayersAreOrdered
<1> QED BY <1>1, OutwardsAnswers, ChainIsLayers DEF AnsweredWith

LEMMA StopsRespond ==
    ASSUME LayersAreOrdered, NEW req, ~ReachesView(req)
    PROVE  StoppedWith(Conf, req).type \notin {"nil", "panic"}
<1> DEFINE i == Entered(req)
           out == Stops(Layers[i], req)
<1>1. i \in DOMAIN Layers /\ out # GoesOn
  BY EnteredFar, ChainIsLayers DEF ReachesView
<1>2. out \in Outcome /\ out.type # "nil" /\ (Layers[i] = "recovery" => out = GoesOn)
  BY StopsResponds
<1>3. i \in 2..(Len(Layers) + 1)
  BY <1>1, <1>2, LayersInOrder DEF LayersAreOrdered
<1>4. StoppedWith(Conf, req) = Outwards(Conf, req, i, out)
  BY ChainIsLayers DEF StoppedWith
<1> HIDE DEF i, out
<1> QED BY <1>2, <1>3, <1>4, OutwardsAnswers

\* What goes on beside the requests.
LEMMA OtherSteps ==
    ASSUME Starting \/ Listen \/ MapWritesCollide PROVE UNCHANGED <<site, rows, nextId, bound, call, walk>>
BY DEF Starting, Listen, MapWritesCollide, siteVars

LEMMA RenderStep ==
    ASSUME NEW c \in Clients, Render(c) PROVE call[c].pc = "render" /\ UNCHANGED <<site, rows, nextId, bound, call, walk>>
BY DEF Render, siteVars

\* A step of a client, by name.
LEMMA ClientSteps ==
    ASSUME NEW c \in Clients, ClientNext(c)
    PROVE  \/ \E req \in Wishes(c) : Ask(c, req)
           \/ Leave(c) \/ Render(c) \/ Show(c) \/ Count(c) \/ Rows(c) \/ GetObject(c) \/ DatabaseFails(c)
           \/ StartBind(c) \/ BindField(c) \/ FinishBind(c) \/ Created(c) \/ Assign(c)
           \/ \E how : Insert(c, how)
           \/ \E how : UpdateRow(c, how)
           \/ \E how : DeleteRow(c, how)
BY DEF ClientNext, Writes

LEMMA BegunStarts ==
    ASSUME NEW c, NEW req, Begun(c, req)
    PROVE  \/ call'[c].action = "list" /\ call'[c].pc \in {"count", "rows"}
           \/ call'[c].action = "create" /\ call'[c].pc = "bind"
           \/ call'[c].action \in {"retrieve", "update", "partial_update", "destroy"} /\ call'[c].pc = "object"
<1> DEFINE does(throttled) == Handling(resolveHandler[req], ViewFor(resolveHandler[req]), req, throttled)
<1>1. PICK throttled \in BOOLEAN : does(throttled).status = 0 /\ call'[c].pc = does(throttled).pc /\ call'[c].action = does(throttled).action
  BY DEF Begun
<1>2. \/ does(throttled).status \in Refusals \cup {200}
      \/ does(throttled).action = "list" /\ does(throttled).pc \in {"count", "rows"}
      \/ does(throttled).action = "create" /\ does(throttled).pc = "bind"
      \/ does(throttled).action \in {"retrieve", "update", "partial_update", "destroy"} /\ does(throttled).pc = "object"
  BY HandlingBegins
<1> HIDE DEF does
<1>3. ~(does(throttled).status \in Refusals \cup {200})
  BY <1>1 DEF Refusals
<1> QED BY <1>1, <1>2, <1>3

LEMMA ClientOnly ==
    ASSUME Shape, NEW c \in Clients, ClientNext(c) PROVE (Only(c) \/ UNCHANGED call) /\ UNCHANGED site
<1>1. Calls
  BY DEF Shape
<1>2. ASSUME NEW req \in Wishes(c), Ask(c, req) PROVE Only(c) /\ UNCHANGED site
  <2>1. req \in Requests
    BY WishesAreRequests
  <2>2. Only(c)
    BY <1>1, <1>2, <2>1, AskStep DEF Arrives
  <2> QED BY <1>2, <2>2 DEF Ask
<1>3. CASE Leave(c)
  BY <1>1, <1>3, LeaveStep DEF Leave
<1>4. CASE Render(c)
  BY <1>4, RenderStep
<1>5. CASE Show(c)
  BY <1>1, <1>5, ShowStep DEF Show, Turns, On
<1>6. CASE Count(c)
  BY <1>1, <1>6, CountStep DEF Count, Turns, On
<1>7. CASE Rows(c)
  BY <1>1, <1>7, RowsStep DEF Rows, Ends, On
<1>8. CASE GetObject(c)
  BY <1>1, <1>8, GetObjectStep DEF GetObject, Ends, Gets, On
<1>9. CASE DatabaseFails(c)
  BY <1>1, <1>9, DatabaseFailsStep DEF DatabaseFails, Ends, On
<1>10. CASE StartBind(c)
  BY <1>1, <1>10, StartBindStep DEF StartBind, Turns, On
<1>11. CASE BindField(c)
  BY <1>1, <1>11, BindFieldStep DEF BindField, Turns, On
<1>12. CASE FinishBind(c)
  BY <1>1, <1>12, FinishBindStep DEF FinishBind, Ends, Turns, On
<1>13. CASE Created(c)
  BY <1>1, <1>13, CreatedStep DEF Created, Ends, On
<1>14. CASE Assign(c)
  BY <1>1, <1>14, AssignStep DEF Assign, Turns, On
<1>15. ASSUME NEW how, Insert(c, how) PROVE Only(c) /\ UNCHANGED site
  <2>1. Only(c)
    BY <1>1, <1>15, InsertStep DEF Ends, Writing, On
  <2> QED BY <1>15, <2>1 DEF Insert
<1>16. ASSUME NEW how, UpdateRow(c, how) PROVE Only(c) /\ UNCHANGED site
  <2>1. Only(c)
    BY <1>1, <1>16, UpdateRowStep DEF Ends, Writing, On
  <2> QED BY <1>16, <2>1 DEF UpdateRow
<1>17. ASSUME NEW how, DeleteRow(c, how) PROVE Only(c) /\ UNCHANGED site
  <2>1. Only(c)
    BY <1>1, <1>17, DeleteRowStep DEF Ends, Writing, On
  <2> QED BY <1>17, <2>1 DEF DeleteRow
<1> QED BY <1>2, <1>3, <1>4, <1>5, <1>6, <1>7, <1>8, <1>9, <1>10, <1>11, <1>12, <1>13, <1>14, <1>15, <1>16, <1>17, ClientSteps

LEMMA ShapeHolds == SiteSpec => []Shape
<1>1. SiteInit => Shape
  BY FreshFields DEF SiteInit, Shape, Calls
<1>2. Shape /\ [SiteNext]_vars => Shape'
  <2> SUFFICES ASSUME Shape, [SiteNext]_vars PROVE Shape'
    OBVIOUS
  <2>1. CASE Starting \/ Listen \/ MapWritesCollide
    BY <2>1, OtherSteps DEF Shape, Calls
  <2>2. ASSUME NEW c \in Clients, ClientNext(c) PROVE Shape'
    <3>1. (Only(c) \/ UNCHANGED call) /\ UNCHANGED site
      BY <2>2, ClientOnly
    <3>2. CASE Only(c)
      BY <3>1, <3>2 DEF Shape, Calls, Only, Kept
    <3>3. CASE UNCHANGED call
      BY <3>1, <3>3 DEF Shape, Calls
    <3> QED BY <3>1, <3>2, <3>3
  <2>3. CASE UNCHANGED vars
    BY <2>3 DEF vars, siteVars, Shape, Calls
  <2> QED BY <2>1, <2>2, <2>3 DEF SiteNext
<1> QED BY <1>1, <1>2, PTL DEF SiteSpec
-----------------------------------------------------------------------------
(* Every request is answered.                                              *)

Responded(d) == call[d].pc \in {"answered", "render"} => call[d].outcome.type \notin {"nil", "panic"}

LEMMA EndsResponded ==
    ASSUME LayersAreOrdered, NEW c, NEW req, NEW status \in Int, call'[c].outcome = AnsweredWith(Conf, req, Api(status))
    PROVE  Responded(c)'
BY ApiOutcome, AnswersRespond DEF Responded

LEMMA StepResponded ==
    ASSUME LayersAreOrdered, Shape, NEW c \in Clients, Responded(c), ClientNext(c) PROVE Responded(c)'
<1>1. Calls
  BY DEF Shape
<1>2. ASSUME NEW req \in Wishes(c), Ask(c, req) PROVE Responded(c)'
  <2>1. req \in Requests
    BY WishesAreRequests
  <2>2. Arrives(c, req)
    BY <1>1, <1>2, <2>1, AskStep
  <2>3. CASE Fell(c, req)
    <3>1. CASE call'[c].outcome = Response("page", 404)
      <4>1. "page" \in Types /\ 404 \in Int
        BY DEF Types
      <4>2. call'[c].outcome.type = "page"
        BY <3>1, <4>1, Responses
      <4> QED BY <4>2 DEF Responded
    <3>2. CASE ~ReachesView(req) /\ call'[c].outcome = StoppedWith(Conf, req)
      BY <3>2, StopsRespond DEF Responded
    <3>3. CASE \E out : ViewOutcome(out) /\ call'[c].outcome = AnsweredWith(Conf, req, out)
      BY <3>3, AnswersRespond DEF Responded, ViewOutcome
    <3> QED BY <2>3, <3>1, <3>2, <3>3 DEF Fell
  <2>4. CASE Begun(c, req)
    BY <2>4, BegunStarts DEF Responded
  <2> QED BY <2>2, <2>3, <2>4 DEF Arrives
<1>3. CASE Leave(c)
  BY <1>1, <1>3, LeaveStep, FreshFields DEF Responded
<1>4. CASE Render(c)
  BY <1>4, RenderStep DEF Responded
<1>5. CASE Show(c)
  BY <1>1, <1>5, ShowStep DEF Turns, Responded
<1>6. CASE Count(c)
  BY <1>1, <1>6, CountStep DEF Turns, On, Responded
<1>7. CASE Rows(c)
  BY <1>1, <1>7, RowsStep, EndsResponded DEF Ends
<1>8. CASE GetObject(c)
  <2>1. CASE \E row \in rows : Gets(c, row)
    BY <2>1 DEF Gets, On, Responded
  <2>2. CASE \E status \in {200, 403, 404, 500} : Ends(c, status, call[c].wrote)
    BY <2>2, EndsResponded DEF Ends
  <2> QED BY <1>1, <1>8, <2>1, <2>2, GetObjectStep
<1>9. CASE DatabaseFails(c)
  BY <1>1, <1>9, DatabaseFailsStep, EndsResponded DEF Ends
<1>10. CASE StartBind(c)
  BY <1>1, <1>10, StartBindStep DEF Turns, On, Responded
<1>11. CASE BindField(c)
  BY <1>1, <1>11, BindFieldStep DEF Turns, On, Responded
<1>12. CASE FinishBind(c)
  <2>1. CASE Ends(c, 400, call[c].wrote)
    BY <2>1, EndsResponded DEF Ends
  <2>2. CASE Turns(c, IF call[c].action = "create" THEN "insert" ELSE "assign")
    BY <2>2 DEF Turns, On, Responded
  <2> QED BY <1>1, <1>12, <2>1, <2>2, FinishBindStep
<1>13. CASE Created(c)
  BY <1>1, <1>13, CreatedStep, EndsResponded DEF Ends
<1>14. CASE Assign(c)
  BY <1>1, <1>14, AssignStep DEF Turns, On, Responded
<1>15. ASSUME NEW statuses \in SUBSET Int, Writing(c, statuses) PROVE Responded(c)'
  BY <1>15, EndsResponded DEF Writing
<1>16. ASSUME NEW how, Insert(c, how) PROVE Responded(c)'
  <2>1. CASE Ends(c, 500, call[c].wrote)
    BY <2>1, EndsResponded DEF Ends
  <2>2. CASE Writing(c, {500})
    BY <1>15, <2>2
  <2>3. CASE On(c, "created")
    BY <2>3 DEF On, Responded
  <2> QED BY <1>1, <1>16, <2>1, <2>2, <2>3, InsertStep
<1>17. ASSUME NEW how, UpdateRow(c, how) PROVE Responded(c)'
  <2>1. CASE \E status \in {200, 500} : Ends(c, status, call[c].wrote)
    BY <2>1, EndsResponded DEF Ends
  <2>2. CASE Writing(c, {200})
    BY <1>15, <2>2
  <2> QED BY <1>1, <1>17, <2>1, <2>2, UpdateRowStep
<1>18. ASSUME NEW how, DeleteRow(c, how) PROVE Responded(c)'
  <2>1. CASE Ends(c, 404, call[c].wrote)
    BY <2>1, EndsResponded DEF Ends
  <2>2. CASE Writing(c, {204})
    BY <1>15, <2>2
  <2> QED BY <1>1, <1>18, <2>1, <2>2, DeleteRowStep
<1> QED BY <1>2, <1>3, <1>4, <1>5, <1>6, <1>7, <1>8, <1>9, <1>10, <1>11, <1>12, <1>13, <1>14, <1>16, <1>17, <1>18, ClientSteps

\* Whatever views, hooks and layers do, a client gets a response (server.go:24,
\* middleware.go:103), in every site whose layers are ordered as they ask to be.
THEOREM EveryRequestIsAnsweredAlways ==
    ASSUME LayersAreOrdered PROVE SiteSpec => []EveryRequestIsAnswered
<1> DEFINE Inv == \A d \in Clients : Responded(d)
<1>1. SiteInit => Inv
  BY FreshFields DEF SiteInit, Responded
<1>2. Shape /\ Inv /\ [SiteNext]_vars => Inv'
  <2> SUFFICES ASSUME Shape, Inv, [SiteNext]_vars, NEW d \in Clients PROVE Responded(d)'
    OBVIOUS
  <2>1. CASE Starting \/ Listen \/ MapWritesCollide
    BY <2>1, OtherSteps DEF Responded
  <2>2. ASSUME NEW c \in Clients, ClientNext(c) PROVE Responded(d)'
    <3>1. CASE d = c
      BY <2>2, <3>1, StepResponded
    <3>2. CASE d # c
      BY <2>2, <3>2, ClientOnly DEF Only, Kept, Responded
    <3> QED BY <3>1, <3>2
  <2>3. CASE UNCHANGED vars
    BY <2>3 DEF vars, siteVars, Responded
  <2> QED BY <2>1, <2>2, <2>3 DEF SiteNext
<1>3. Inv => EveryRequestIsAnswered
  BY DEF Responded, EveryRequestIsAnswered
<1> QED BY <1>1, <1>2, <1>3, ShapeHolds, PTL DEF SiteSpec

-----------------------------------------------------------------------------
(* A refused request has changed nothing: once a request has written, its  *)
(* answer is that of the statement, whatever layers see it on the way out. *)

Mild(out) == out.status \notin 400..499
Told(d) == call[d].wrote => call[d].pc = "created" \/ (call[d].pc = "answered" /\ Mild(call[d].outcome))

LEMMA EndsMild ==
    ASSUME NEW req, NEW status \in {200, 201, 204, 500} PROVE Mild(AnsweredWith(Conf, req, Api(status)))
<1>1. status \in Int /\ status \notin 400..499
  OBVIOUS
<1>2. Api(status) \in Outcome /\ Api(status).status = status
  BY <1>1, ApiOutcome
<1>3. LET back == AnsweredWith(Conf, req, Api(status)) IN back.status = status \/ back.status \in {0, 302, 500, 503}
  BY <1>2, AnswersKeepStatus
<1> QED BY <1>1, <1>3 DEF Mild

LEMMA WritingTold ==
    ASSUME NEW c, NEW statuses \in SUBSET {200, 204, 500}, Writing(c, statuses) PROVE Told(c)'
BY EndsMild DEF Writing, On, Told

LEMMA StepTold ==
    ASSUME Shape, NEW c \in Clients, Told(c), ClientNext(c) PROVE Told(c)'
<1>1. Calls
  BY DEF Shape
<1>2. ASSUME NEW req \in Wishes(c), Ask(c, req) PROVE Told(c)'
  <2>1. req \in Requests
    BY WishesAreRequests
  <2>2. Arrives(c, req)
    BY <1>1, <1>2, <2>1, AskStep
  <2> QED BY <2>2 DEF Arrives, Told
<1>3. CASE Leave(c)
  BY <1>1, <1>3, LeaveStep, FreshFields DEF Told
<1>4. CASE Render(c)
  BY <1>4, RenderStep DEF Told
<1>5. CASE Show(c)
  BY <1>1, <1>5, ShowStep DEF Turns, On, Told
<1>6. CASE Count(c)
  BY <1>1, <1>6, CountStep DEF Turns, On, Told
<1>7. CASE Rows(c)
  BY <1>1, <1>7, RowsStep DEF Ends, On, Told
<1>8. CASE GetObject(c)
  BY <1>1, <1>8, GetObjectStep DEF Ends, Gets, On, Told
<1>9. CASE DatabaseFails(c)
  BY <1>1, <1>9, DatabaseFailsStep DEF Ends, On, Told
<1>10. CASE StartBind(c)
  BY <1>1, <1>10, StartBindStep DEF Turns, On, Told
<1>11. CASE BindField(c)
  BY <1>1, <1>11, BindFieldStep DEF Turns, On, Told
<1>12. CASE FinishBind(c)
  BY <1>1, <1>12, FinishBindStep DEF Ends, Turns, On, Told
<1>13. CASE Created(c)
  BY <1>1, <1>13, CreatedStep, EndsMild DEF Ends, On, Told
<1>14. CASE Assign(c)
  BY <1>1, <1>14, AssignStep DEF Turns, On, Told
<1>15. ASSUME NEW how, Insert(c, how) PROVE Told(c)'
  <2>1. CASE Ends(c, 500, call[c].wrote)
    BY <1>1, <1>15, <2>1, InsertStep DEF Ends, On, Told
  <2>2. CASE Writing(c, {500})
    BY <2>2, WritingTold
  <2>3. CASE On(c, "created")
    BY <2>3 DEF On, Told
  <2> QED BY <1>1, <1>15, <2>1, <2>2, <2>3, InsertStep
<1>16. ASSUME NEW how, UpdateRow(c, how) PROVE Told(c)'
  <2>1. call[c].pc = "update"
    BY <1>1, <1>16, UpdateRowStep
  <2>2. CASE \E status \in {200, 500} : Ends(c, status, call[c].wrote)
    BY <2>1, <2>2 DEF Ends, On, Told
  <2>3. CASE Writing(c, {200})
    BY <2>3, WritingTold
  <2> QED BY <1>1, <1>16, <2>2, <2>3, UpdateRowStep
<1>17. ASSUME NEW how, DeleteRow(c, how) PROVE Told(c)'
  <2>1. call[c].pc = "delete"
    BY <1>1, <1>17, DeleteRowStep
  <2>2. CASE Ends(c, 404, call[c].wrote)
    BY <2>1, <2>2 DEF Ends, On, Told
  <2>3. CASE Writing(c, {204})
    BY <2>3, WritingTold
  <2> QED BY <1>1, <1>17, <2>2, <2>3, DeleteRowStep
<1> QED BY <1>2, <1>3, <1>4, <1>5, <1>6, <1>7, <1>8, <1>9, <1>10, <1>11, <1>12, <1>13, <1>14, <1>15, <1>16, <1>17, ClientSteps

\* A client that is told no has changed nothing (api_views.go:113, views.go:96).
THEOREM RefusedChangesNothingAlways == SiteSpec => []RefusedChangesNothing
<1> DEFINE Inv == \A d \in Clients : Told(d)
<1>1. SiteInit => Inv
  BY FreshFields DEF SiteInit, Told
<1>2. Shape /\ Inv /\ [SiteNext]_vars => Inv'
  <2> SUFFICES ASSUME Shape, Inv, [SiteNext]_vars, NEW d \in Clients PROVE Told(d)'
    OBVIOUS
  <2>1. CASE Starting \/ Listen \/ MapWritesCollide
    BY <2>1, OtherSteps DEF Told
  <2>2. ASSUME NEW c \in Clients, ClientNext(c) PROVE Told(d)'
    <3>1. CASE d = c
      BY <2>2, <3>1, StepTold
    <3>2. CASE d # c
      BY <2>2, <3>2, ClientOnly DEF Only, Kept, Told
    <3> QED BY <3>1, <3>2
  <2>3. CASE UNCHANGED vars
    BY <2>3 DEF vars, siteVars, Told
  <2> QED BY <2>1, <2>2, <2>3 DEF SiteNext
<1>3. Inv => RefusedChangesNothing
  BY DEF Told, Mild, Status, RefusedChangesNothing
<1> QED BY <1>1, <1>2, <1>3, ShapeHolds, PTL DEF SiteSpec

-----------------------------------------------------------------------------
(* Rows change only for those who may change them: who gets as far as to   *)
(* change rows has passed the layers and Dispatch.                         *)

ToWrite == {"bind", "binding", "insert", "assign", "update", "delete"}
Trusted(d) == call[d].req.csrf /\ HasPerm(Account(d))
Permitted(d) == call[d].pc \in ToWrite \/ (call[d].pc = "object" /\ call[d].action # "retrieve") => Trusted(d)

\* An action that changes rows is asked for under its method.
LEMMA ChangingMethod ==
    ASSUME ChangesAskPermission, NEW req \in Requests, IsApi(resolveHandler[req]), NEW throttled,
           LET match == resolveHandler[req] IN ActionOf(match.handler, ViewFor(match), req, match.params, throttled).action \in Changing
    PROVE  LET view == ViewFor(resolveHandler[req]) IN
           /\ view.kind = "set" /\ req.method \in {"POST", "PUT", "PATCH", "DELETE"}
           /\ \E i \in DOMAIN view.permissions : view.permissions[i] = "ModelPermissions"
<1> DEFINE match == resolveHandler[req]
           view == ViewFor(match)
           actions == match.handler.actions
           action == ActionOf(match.handler, view, req, match.params, throttled).action
<1>1. action \in Changing /\ {"list", "retrieve", "options", "none"} \cap Changing = {}
  BY DEF Changing
<1>2. CASE view.kind # "set"
  <2>1. action \in {"options", "list", "retrieve"}
    BY <1>2 DEF ActionOf
  <2> QED BY <1>1, <2>1
<1>3. CASE view.kind = "set"
  <2>1. action = ActionFor(actions, req.method)
    BY <1>3 DEF ActionOf
  <2>2. \/ action = "options" \/ action = "none"
        \/ req.method \in DOMAIN actions /\ action = actions[req.method]
        \/ "GET" \in DOMAIN actions /\ action = actions["GET"]
    BY <2>1 DEF ActionFor
  <2>3. ASSUME NEW m \in DOMAIN actions, actions[m] \in Changing
        PROVE  m \in {"POST", "PUT", "PATCH", "DELETE"} /\ \E i \in DOMAIN view.permissions : view.permissions[i] = "ModelPermissions"
    BY <1>3, <2>3 DEF ChangesAskPermission
  <2> HIDE DEF match, view, actions, action
  <2> QED BY <1>1, <1>3, <2>2, <2>3 DEF match, view
<1> QED BY <1>2, <1>3

LEMMA BegunTrusted ==
    ASSUME ChangesAskPermission, NEW c, NEW req \in Requests, call'[c].req = req, call'[c].match = resolveHandler[req],
           Begun(c, req), call'[c].action \in Changing
    PROVE  Trusted(c)'
<1> DEFINE match == resolveHandler[req]
           view == ViewFor(match)
           asked(throttled) == ActionOf(match.handler, view, req, match.params, throttled)
           account == authenticateRequest(view, req, RequestUser(req))
<1>1. PICK throttled \in BOOLEAN : asked(throttled).status = 0 /\ asked(throttled).action = call'[c].action
  <2> DEFINE does(throttled) == Handling(match, view, req, throttled)
  <2>1. PICK throttled \in BOOLEAN : does(throttled).status = 0 /\ does(throttled).action = call'[c].action
    BY DEF Begun
  <2>2. \/ does(throttled).status \in Refusals \cup {200}
        \/ asked(throttled).status = 0 /\ does(throttled).action = asked(throttled).action
    BY HandlingBegins
  <2> HIDE DEF does
  <2>3. ~(does(throttled).status \in Refusals \cup {200})
    BY <2>1 DEF Refusals
  <2> QED BY <2>1, <2>2, <2>3
<1>2. /\ view.kind = "set" /\ req.method \in {"POST", "PUT", "PATCH", "DELETE"}
      /\ \E i \in DOMAIN view.permissions : view.permissions[i] = "ModelPermissions"
  BY <1>1, ChangingMethod DEF Begun
<1>3. req.csrf
  <2>1. PICK i \in DOMAIN Layers : Layers[i] = "csrf"
    BY DEF ChangesAskPermission
  <2>2. Stops(Layers[i], req) = GoesOn
    <3>1. Entered(req) = Len(Layers) + 1
      BY ChainIsLayers DEF Begun, ReachesView
    <3>2. Len(Layers) + 1 \notin DOMAIN Layers
      BY LayersInOrder
    <3> QED BY <3>1, <3>2, EnteredFar
  <2>3. req.method \notin Safe
    BY <1>2 DEF Safe
  <2> QED BY <2>1, <2>2, <2>3, StopsResponds
<1>4. HasPerm(account)
  <2>1. Dispatch(view, match.handler.actions, req, match.params, RequestUser(req), throttled) = 0
    BY <1>1, <1>2 DEF ActionOf
  <2>2. checkPermissions(view, req, account) = 0
    BY <2>1, DispatchAsks
  <2>3. PICK i \in DOMAIN view.permissions : view.permissions[i] = "ModelPermissions"
    BY <1>2
  <2>4. HasPermission(view.permissions[i], req.method, account)
    BY <2>2, <2>3 DEF checkPermissions, Refuses
  <2>5. req.method \in DOMAIN permissionAction
    BY <1>2 DEF permissionAction
  <2> QED BY <2>3, <2>4, <2>5 DEF HasPermission
<1>5. Account(c)' = account
  BY DEF Account, ViewOf, ViewFor
<1> QED BY <1>3, <1>4, <1>5 DEF Trusted

LEMMA SameTrust ==
    ASSUME NEW c, call'[c].req = call[c].req, call'[c].match = call[c].match PROVE Trusted(c)' <=> Trusted(c)
BY DEF Trusted, Account, ViewOf

LEMMA StepPermitted ==
    ASSUME ChangesAskPermission, Shape, NEW c \in Clients, Permitted(c), ClientNext(c) PROVE Permitted(c)'
<1>1. Calls
  BY DEF Shape
<1>2. ASSUME NEW req \in Wishes(c), Ask(c, req) PROVE Permitted(c)'
  <2>1. req \in Requests
    BY WishesAreRequests
  <2>2. Arrives(c, req)
    BY <1>1, <1>2, <2>1, AskStep
  <2>3. CASE call'[c].pc \in {"answered", "render"}
    BY <2>3 DEF Permitted, ToWrite
  <2>4. CASE Begun(c, req)
    <3>1. CASE call'[c].action \in Changing
      BY <2>1, <2>2, <2>4, <3>1, BegunTrusted DEF Arrives, Permitted
    <3>2. CASE call'[c].action \notin Changing
      BY <2>4, <3>2, BegunStarts DEF Permitted, ToWrite, Changing
    <3> QED BY <3>1, <3>2
  <2> QED BY <2>2, <2>3, <2>4 DEF Arrives
<1>3. CASE Leave(c)
  BY <1>1, <1>3, LeaveStep, FreshFields DEF Permitted, ToWrite
<1>4. CASE Render(c)
  BY <1>4, RenderStep DEF Permitted, ToWrite
<1>5. ASSUME NEW pc, On(c, pc), pc \notin ToWrite \cup {"object"} PROVE Permitted(c)'
  BY <1>5 DEF On, Permitted
<1>6. ASSUME NEW pc, On(c, pc), pc # "object",
             call[c].pc \in ToWrite \/ (call[c].pc = "object" /\ call[c].action # "retrieve")
      PROVE  Permitted(c)'
  BY <1>6, SameTrust DEF On, Permitted
<1>7. ASSUME NEW status, NEW wrote, Ends(c, status, wrote) PROVE Permitted(c)'
  <2>1. On(c, "answered")
    BY <1>7 DEF Ends
  <2> QED BY <1>5, <2>1 DEF ToWrite
<1>8. CASE Show(c)
  <2>1. On(c, "answered")
    BY <1>1, <1>8, ShowStep DEF Turns
  <2> QED BY <1>5, <2>1 DEF ToWrite
<1>9. CASE Count(c)
  <2>1. On(c, "rows")
    BY <1>1, <1>9, CountStep DEF Turns
  <2> QED BY <1>5, <2>1 DEF ToWrite
<1>10. CASE Rows(c)
  BY <1>1, <1>7, <1>10, RowsStep
<1>11. CASE GetObject(c)
  <2>1. CASE call[c].action # "retrieve" /\ \E row \in rows : Gets(c, row)
    <3>1. On(c, IF call[c].action = "destroy" THEN "delete" ELSE "bind") /\ call[c].pc = "object"
      BY <1>1, <1>11, <2>1, GetObjectStep DEF Gets
    <3> QED BY <1>6, <2>1, <3>1
  <2> QED BY <1>1, <1>7, <1>11, <2>1, GetObjectStep
<1>12. CASE DatabaseFails(c)
  BY <1>1, <1>7, <1>12, DatabaseFailsStep
<1>13. CASE StartBind(c)
  <2>1. On(c, "binding") /\ call[c].pc \in ToWrite
    BY <1>1, <1>13, StartBindStep DEF Turns, ToWrite
  <2> QED BY <1>6, <2>1
<1>14. CASE BindField(c)
  <2>1. On(c, "binding") /\ call[c].pc \in ToWrite
    BY <1>1, <1>14, BindFieldStep DEF Turns, ToWrite
  <2> QED BY <1>6, <2>1
<1>15. CASE FinishBind(c)
  <2>1. call[c].pc \in ToWrite
    BY <1>1, <1>15, FinishBindStep DEF ToWrite
  <2>2. CASE Turns(c, IF call[c].action = "create" THEN "insert" ELSE "assign")
    BY <1>6, <2>1, <2>2 DEF Turns
  <2> QED BY <1>1, <1>7, <1>15, <2>2, FinishBindStep
<1>16. CASE Created(c)
  BY <1>1, <1>7, <1>16, CreatedStep
<1>17. CASE Assign(c)
  <2>1. On(c, "update") /\ call[c].pc \in ToWrite
    BY <1>1, <1>17, AssignStep DEF Turns, ToWrite
  <2> QED BY <1>6, <2>1
<1>18. ASSUME NEW statuses, Writing(c, statuses) PROVE Permitted(c)'
  <2>1. On(c, "answered")
    BY <1>18 DEF Writing
  <2> QED BY <1>5, <2>1 DEF ToWrite
<1>19. ASSUME NEW how, Insert(c, how) PROVE Permitted(c)'
  <2>1. CASE On(c, "created")
    BY <1>5, <2>1 DEF ToWrite
  <2> QED BY <1>1, <1>7, <1>18, <1>19, <2>1, InsertStep
<1>20. ASSUME NEW how, UpdateRow(c, how) PROVE Permitted(c)'
  BY <1>1, <1>7, <1>18, <1>20, UpdateRowStep
<1>21. ASSUME NEW how, DeleteRow(c, how) PROVE Permitted(c)'
  BY <1>1, <1>7, <1>18, <1>21, DeleteRowStep
<1> QED BY <1>2, <1>3, <1>4, <1>8, <1>9, <1>10, <1>11, <1>12, <1>13, <1>14, <1>15, <1>16, <1>17, <1>19, <1>20, <1>21, ClientSteps

\* The rows change only by the three statements.
LEMMA RowsChange ==
    ASSUME Shape, NEW c \in Clients, ClientNext(c), rows' # rows PROVE call[c].pc \in ToWrite /\ call'[c].wrote
<1>1. Calls
  BY DEF Shape
<1>2. \/ \E how : Insert(c, how)
      \/ \E how : UpdateRow(c, how)
      \/ \E how : DeleteRow(c, how)
  BY ClientSteps, RenderStep DEF Ask, Leave, Show, Count, Rows, GetObject, DatabaseFails, StartBind, BindField,
     FinishBind, Created, Assign
<1>3. ASSUME NEW how, Insert(c, how) PROVE call[c].pc \in ToWrite /\ call'[c].wrote
  BY <1>1, <1>3, InsertStep DEF Writing, ToWrite
<1>4. ASSUME NEW how, UpdateRow(c, how) PROVE call[c].pc \in ToWrite /\ call'[c].wrote
  BY <1>1, <1>4, UpdateRowStep DEF Writing, ToWrite
<1>5. ASSUME NEW how, DeleteRow(c, how) PROVE call[c].pc \in ToWrite /\ call'[c].wrote
  BY <1>1, <1>5, DeleteRowStep DEF Writing, ToWrite
<1> QED BY <1>2, <1>3, <1>4, <1>5

\* Rows change only in a step of a request with the token of the form, by an account
\* that has the permission (csrf.go:64, permissions.go:52), whatever else is asked
\* at the same time.
THEOREM NoChangeWithoutPermissionAlways ==
    ASSUME ChangesAskPermission PROVE SiteSpec => NoChangeWithoutPermission
<1> DEFINE Inv == \A d \in Clients : Permitted(d) /\ Told(d)
           Change == rows' # rows => \E c \in Clients : call'[c].wrote /\ ~call[c].wrote /\ call[c].req.csrf /\ HasPerm(Account(c))
<1>1. SiteInit => Inv
  BY FreshFields DEF SiteInit, Permitted, ToWrite, Told
<1>2. Shape /\ Inv /\ [SiteNext]_vars => Inv'
  <2> SUFFICES ASSUME Shape, Inv, [SiteNext]_vars, NEW d \in Clients PROVE Permitted(d)' /\ Told(d)'
    OBVIOUS
  <2>1. CASE Starting \/ Listen \/ MapWritesCollide
    BY <2>1, OtherSteps, SameTrust DEF Permitted, Told
  <2>2. ASSUME NEW c \in Clients, ClientNext(c) PROVE Permitted(d)' /\ Told(d)'
    <3>1. CASE d = c
      BY <2>2, <3>1, StepPermitted, StepTold
    <3>2. CASE d # c
      <4>1. Kept(d) \/ UNCHANGED call
        BY <2>2, <3>2, ClientOnly DEF Only
      <4>2. /\ call'[d].pc = call[d].pc /\ call'[d].action = call[d].action /\ call'[d].req = call[d].req
            /\ call'[d].match = call[d].match /\ call'[d].outcome = call[d].outcome /\ (call'[d].wrote <=> call[d].wrote)
        BY <4>1 DEF Kept
      <4> QED BY <4>2, SameTrust DEF Permitted, Told
    <3> QED BY <3>1, <3>2
  <2>3. CASE UNCHANGED vars
    BY <2>3, SameTrust DEF vars, siteVars, Permitted, Told
  <2> QED BY <2>1, <2>2, <2>3 DEF SiteNext
<1>3. Shape /\ Inv /\ [SiteNext]_vars => [Change]_vars
  <2> SUFFICES ASSUME Shape, Inv, SiteNext, rows' # rows
               PROVE  \E c \in Clients : call'[c].wrote /\ ~call[c].wrote /\ call[c].req.csrf /\ HasPerm(Account(c))
    OBVIOUS
  <2>1. PICK c \in Clients : ClientNext(c)
    BY OtherSteps DEF SiteNext
  <2>2. call[c].pc \in ToWrite /\ call'[c].wrote
    BY <2>1, RowsChange
  <2>3. ~call[c].wrote
    BY <2>2 DEF Told, ToWrite
  <2> QED BY <2>2, <2>3 DEF Permitted, Trusted
<1> QED BY <1>1, <1>2, <1>3, ShapeHolds, PTL DEF SiteSpec, NoChangeWithoutPermission

-----------------------------------------------------------------------------
(* The table and the serializer.                                           *)

SoundTable ==
    /\ IsFiniteSet(rows) /\ nextId \in Nat
    /\ \A row \in rows : DOMAIN row = Columns /\ Stores(row) /\ row[Key] \in Nat /\ row[Key] < nextId
    /\ \A a, b \in rows : a[Key] = b[Key] => a = b

Names == {GoName[col] : col \in Columns}
Validated ==
    /\ DOMAIN bound = {"validated", "errors"} /\ DOMAIN bound.validated \subseteq Names
    /\ \A key \in DOMAIN bound.validated : ColumnOf(Meta, key) # Key

LEMMA InitialTable ==
    ASSUME SiteInit PROVE SoundTable /\ Validated
<1>1. rows \in StartRows /\ nextId = 1 + Cardinality(rows)
  BY DEF SiteInit
<1>2. /\ IsFiniteSet(rows)
      /\ \A row \in rows : DOMAIN row = Columns /\ Stores(row) /\ row[Key] \in 1..Cardinality(rows)
      /\ \A a, b \in rows : a[Key] = b[Key] => a = b
  BY <1>1, TableAssumption
<1>3. Cardinality(rows) \in Nat
  BY <1>2, FS_CardinalityType
<1>4. SoundTable
  BY <1>1, <1>2, <1>3 DEF SoundTable
<1>5. bound = [validated |-> <<>>, errors |-> FALSE] /\ DOMAIN (<<>>) = {}
  BY DEF SiteInit
<1>6. Validated
  BY <1>5 DEF Validated
<1> QED BY <1>4, <1>6

\* What is stored keeps the key of the row it is stored in.
LEMMA StoredKeepsKey ==
    ASSUME Validated, NEW row, DOMAIN row = Columns
    PROVE  LET new == Stored(Meta, row, bound.validated) IN DOMAIN new = Columns /\ new[Key] = row[Key]
<1>1. Key \in Columns
  BY TableAssumption
<1>2. ~\E key \in DOMAIN bound.validated : ColumnOf(Meta, key) = Key
  BY DEF Validated
<1> QED BY <1>1, <1>2 DEF Stored

LEMMA InsertTable ==
    ASSUME SoundTable, Validated, Stores(NewRow), rows' = rows \cup {NewRow}, nextId' = nextId + 1
    PROVE  SoundTable' /\ NewRow[Key] = nextId
<1>1. DOMAIN Blank = Columns /\ Blank[Key] = nextId
  BY TableAssumption DEF Blank
<1>2. DOMAIN NewRow = Columns /\ NewRow[Key] = nextId
  BY <1>1, StoredKeepsKey DEF NewRow
<1>3. IsFiniteSet(rows')
  BY FS_AddElement DEF SoundTable
<1>4. \A row \in rows : row[Key] \in Nat /\ row[Key] < nextId /\ row[Key] # nextId
  BY DEF SoundTable
<1>5. nextId \in Nat /\ nextId' \in Nat /\ nextId < nextId' /\ \A n \in Nat : n < nextId => n < nextId'
  BY DEF SoundTable
<1>6. \A row \in rows' : DOMAIN row = Columns /\ Stores(row) /\ row[Key] \in Nat /\ row[Key] < nextId'
  BY <1>2, <1>5 DEF SoundTable
<1>7. \A a, b \in rows' : a[Key] = b[Key] => a = b
  BY <1>2, <1>4 DEF SoundTable
<1> QED BY <1>2, <1>3, <1>5, <1>6, <1>7 DEF SoundTable

LEMMA UpdateTable ==
    ASSUME SoundTable, Validated, NEW found \in SUBSET rows,
           \A row \in found : Stores(Stored(Meta, row, bound.validated)),
           rows' = (rows \ found) \cup {Stored(Meta, row, bound.validated) : row \in found}, UNCHANGED nextId
    PROVE  SoundTable' /\ \A row \in rows' : \E old \in rows : old[Key] = row[Key]
<1> DEFINE new(row) == Stored(Meta, row, bound.validated)
           changed == {new(row) : row \in found}
<1>1. \A row \in found : DOMAIN new(row) = Columns /\ new(row)[Key] = row[Key] /\ Stores(new(row))
  BY StoredKeepsKey DEF SoundTable
<1>2. IsFiniteSet(found)
  BY FS_Subset DEF SoundTable
<1>3. IsFiniteSet(changed)
  <2> DEFINE f == [row \in found |-> new(row)]
  <2>1. f \in [found -> changed] /\ \A t \in changed : \E row \in found : f[row] = t
    OBVIOUS
  <2> HIDE DEF f, changed
  <2>2. f \in Surjection(found, changed)
    BY <2>1 DEF Surjection
  <2> QED BY <1>2, <2>2, FS_Surjection
<1>4. IsFiniteSet(rows')
  <2>1. IsFiniteSet(rows \ found)
    BY FS_Difference DEF SoundTable
  <2> QED BY <1>3, <2>1, FS_Union
<1> HIDE DEF new
<1>5. \A row \in rows' : \/ row \in rows \ found
                         \/ \E old \in found : row = new(old)
  BY DEF new
<1>6. \A row \in rows' : \E old \in rows : old[Key] = row[Key]
  BY <1>1, <1>5
<1>7. \A row \in rows' : DOMAIN row = Columns /\ Stores(row) /\ row[Key] \in Nat /\ row[Key] < nextId
  BY <1>1, <1>5 DEF SoundTable
<1>8. ASSUME NEW a \in rows', NEW b \in rows', a[Key] = b[Key] PROVE a = b
  BY <1>1, <1>5, <1>8 DEF SoundTable
<1> QED BY <1>4, <1>6, <1>7, <1>8 DEF SoundTable

LEMMA DeleteTable ==
    ASSUME SoundTable, NEW found, rows' = rows \ found, UNCHANGED nextId PROVE SoundTable'
<1>1. IsFiniteSet(rows')
  BY FS_Difference DEF SoundTable
<1> QED BY <1>1 DEF SoundTable

\* One field: what is kept is never of a field that is only read.
LEMMA ReadOnlyIsNotKept ==
    ASSUME NEW b, NEW body, NEW partial, BindOne(b, body, partial).keep PROVE ~b.options.readOnly
BY DEF BindOne, Nothing

LEMMA BindingNames ==
    ASSUME ~Misconfigured(Meta, Config), NEW i \in DOMAIN Bindings PROVE validatedKey(Bindings[i]) \in Names
<1> DEFINE fields == BoundFields(Meta, Config)
<1>1. /\ DOMAIN Bindings = DOMAIN fields
      /\ Bindings[i].field = fields[i] /\ Bindings[i].structNames = <<fields[i].name, GoName[fields[i].column]>>
  BY DEF Bindings, buildFieldBindings
<1>2. Bindings[i].field.column \in Columns
  BY TableAssumption
<1> HIDE DEF fields
<1>3. validatedKey(Bindings[i]) = GoName[fields[i].column]
  BY <1>1 DEF validatedKey
<1> QED BY <1>1, <1>2, <1>3 DEF Names

LEMMA BindFieldValidated ==
    ASSUME KeyIsReadOnly, Validated, NEW c, BindField(c) PROVE Validated'
<1> DEFINE b == Bindings[call[c].next]
           one == BindOne(b, call[c].req.body, Partial(c))
<1>1. /\ bound' = [validated |-> IF one.keep THEN With(bound.validated, validatedKey(b), one.value) ELSE bound.validated,
                   errors |-> bound.errors \/ one.error]
      /\ ~Misconfigured(Meta, Config) /\ call[c].next \in DOMAIN Bindings
  BY Zenon DEF BindField
<1>2. one.keep => ~b.options.readOnly
  BY ReadOnlyIsNotKept
<1> HIDE DEF one
<1>3. DOMAIN bound' = {"validated", "errors"}
  BY <1>1
<1>4. CASE ~one.keep
  BY <1>1, <1>3, <1>4 DEF Validated
<1>5. CASE one.keep
  <2> DEFINE key == validatedKey(b)
  <2>1. bound'.validated = With(bound.validated, key, one.value)
    BY <1>1, <1>5
  <2>2. ColumnOf(Meta, key) # Key
    BY <1>1, <1>2, <1>5 DEF KeyIsReadOnly
  <2>3. key \in Names
    BY <1>1, BindingNames
  <2> HIDE DEF key
  <2>4. DOMAIN bound'.validated = DOMAIN bound.validated \cup {key}
    BY <2>1 DEF With
  <2> QED BY <1>3, <2>2, <2>3, <2>4 DEF Validated
<1> QED BY <1>4, <1>5

LEMMA StepValidated ==
    ASSUME KeyIsReadOnly, Validated, NEW c \in Clients, ClientNext(c) PROVE Validated'
<1>1. CASE BindField(c)
  BY <1>1, BindFieldValidated
<1>2. CASE StartBind(c)
  <2> DEFINE wrong == Misconfigured(Meta, Config)
  <2>1. bound' = [validated |-> <<>>, errors |-> wrong]
    BY <1>2, Zenon DEF StartBind
  <2> HIDE DEF wrong
  <2>2. bound'.validated = <<>> /\ DOMAIN bound' = {"validated", "errors"}
    BY <2>1
  <2>3. DOMAIN (<<>>) = {}
    OBVIOUS
  <2> QED BY <2>2, <2>3 DEF Validated
<1>3. CASE FinishBind(c)
  <2>1. bound' = [bound EXCEPT !.errors = @ \/ bound.validated \in Contradictory]
    BY <1>3 DEF FinishBind
  <2>2. bound'.validated = bound.validated /\ DOMAIN bound' = DOMAIN bound
    BY <2>1 DEF Validated
  <2> QED BY <2>2 DEF Validated
<1>4. CASE UNCHANGED bound
  BY <1>4 DEF Validated
<1>5. BindField(c) \/ StartBind(c) \/ FinishBind(c) \/ UNCHANGED bound
  BY RenderStep, ClientSteps DEF Ask, Leave, Show, Count, Rows, GetObject, DatabaseFails, Created, Assign,
     Insert, UpdateRow, DeleteRow
<1> QED BY <1>1, <1>2, <1>3, <1>4, <1>5

\* What a step of a client does to the table: the keys of rows never change, and a
\* new one is that of the sequence.
LEMMA StepTable ==
    ASSUME Shape, SoundTable, Validated, NEW c \in Clients, ClientNext(c)
    PROVE  /\ SoundTable' /\ nextId <= nextId'
           /\ \A row \in rows' : row[Key] = nextId \/ \E old \in rows : old[Key] = row[Key]
<1>0. Calls /\ nextId \in Nat
  BY DEF Shape, SoundTable
<1>1. CASE UNCHANGED <<rows, nextId>>
  BY <1>0, <1>1 DEF SoundTable
<1>2. ASSUME NEW how, Insert(c, how), ~UNCHANGED <<rows, nextId>>
      PROVE  /\ SoundTable' /\ nextId <= nextId'
             /\ \A row \in rows' : row[Key] = nextId \/ \E old \in rows : old[Key] = row[Key]
  <2>1. Stores(NewRow) /\ rows' = rows \cup {NewRow} /\ nextId' = nextId + 1
    BY <1>0, <1>2, InsertStep
  <2> QED BY <1>0, <2>1, InsertTable
<1>3. ASSUME NEW how, UpdateRow(c, how), ~UNCHANGED <<rows, nextId>>
      PROVE  /\ SoundTable' /\ nextId <= nextId'
             /\ \A row \in rows' : row[Key] = nextId \/ \E old \in rows : old[Key] = row[Key]
  <2> DEFINE found == {row \in rows : row[Key] = call[c].instance[Meta.pk]}
             changed == {Stored(Meta, row, bound.validated) : row \in found}
  <2>1. UNCHANGED nextId
    BY <1>3 DEF UpdateRow
  <2>2. (\A row \in changed : Stores(row)) /\ rows' = (rows \ found) \cup changed
    BY <1>0, <1>3, <2>1, UpdateRowStep
  <2>3. \A row \in found : Stores(Stored(Meta, row, bound.validated))
    BY <2>2
  <2> HIDE DEF found
  <2>4. found \in SUBSET rows
    BY DEF found
  <2> QED BY <1>0, <2>1, <2>2, <2>3, <2>4, UpdateTable
<1>4. ASSUME NEW how, DeleteRow(c, how), ~UNCHANGED <<rows, nextId>>
      PROVE  /\ SoundTable' /\ nextId <= nextId'
             /\ \A row \in rows' : row[Key] = nextId \/ \E old \in rows : old[Key] = row[Key]
  <2> DEFINE found == {row \in rows : row[Key] = call[c].instance[Meta.pk]}
  <2>1. UNCHANGED nextId
    BY <1>4 DEF DeleteRow
  <2>2. rows' = rows \ found
    BY <1>0, <1>4, <2>1, DeleteRowStep
  <2> HIDE DEF found
  <2> QED BY <1>0, <2>1, <2>2, DeleteTable
<1>5. \/ UNCHANGED <<rows, nextId>>
      \/ \E how : Insert(c, how)
      \/ \E how : UpdateRow(c, how)
      \/ \E how : DeleteRow(c, how)
  BY RenderStep, ClientSteps DEF Ask, Leave, Show, Count, Rows, GetObject, DatabaseFails, StartBind, BindField,
     FinishBind, Created, Assign
<1> QED BY <1>1, <1>2, <1>3, <1>4, <1>5

TableHolds == SoundTable /\ Validated

LEMMA TableAlways ==
    ASSUME KeyIsReadOnly PROVE SiteSpec => []TableHolds
<1>1. SiteInit => TableHolds
  BY InitialTable DEF TableHolds
<1>2. Shape /\ TableHolds /\ [SiteNext]_vars => TableHolds'
  <2> SUFFICES ASSUME Shape, SoundTable, Validated, [SiteNext]_vars PROVE SoundTable' /\ Validated'
    BY DEF TableHolds
  <2>1. CASE Starting \/ Listen \/ MapWritesCollide
    BY <2>1, OtherSteps DEF SoundTable, Validated
  <2>2. ASSUME NEW c \in Clients, ClientNext(c) PROVE SoundTable' /\ Validated'
    BY <2>2, StepTable, StepValidated
  <2>3. CASE UNCHANGED vars
    BY <2>3 DEF vars, siteVars, SoundTable, Validated
  <2> QED BY <2>1, <2>2, <2>3 DEF SiteNext
<1> QED BY <1>1, <1>2, ShapeHolds, PTL DEF SiteSpec

PCs == {"idle", "count", "rows", "object", "bind", "binding", "insert", "created", "assign", "update", "delete", "render",
        "answered"}

LEMMA StepPc ==
    ASSUME Shape, NEW c \in Clients, call[c].pc \in PCs, ClientNext(c) PROVE call'[c].pc \in PCs
<1>1. Calls
  BY DEF Shape
<1>2. ASSUME NEW req \in Wishes(c), Ask(c, req) PROVE call'[c].pc \in PCs
  <2>1. req \in Requests
    BY WishesAreRequests
  <2>2. Arrives(c, req)
    BY <1>1, <1>2, <2>1, AskStep
  <2>3. call'[c].pc \in {"answered", "render", "count", "rows", "bind", "object"}
    BY <2>2, BegunStarts DEF Arrives
  <2> QED BY <2>3 DEF PCs
<1> USE DEF PCs
<1>3. CASE Leave(c)
  BY <1>1, <1>3, LeaveStep, FreshFields
<1>4. CASE Render(c)
  BY <1>4, RenderStep
<1>5. CASE Show(c)
  BY <1>1, <1>5, ShowStep DEF Turns, On
<1>6. CASE Count(c)
  BY <1>1, <1>6, CountStep DEF Turns, On
<1>7. CASE Rows(c)
  BY <1>1, <1>7, RowsStep DEF Ends, On
<1>8. CASE GetObject(c)
  BY <1>1, <1>8, GetObjectStep DEF Ends, Gets, On
<1>9. CASE DatabaseFails(c)
  BY <1>1, <1>9, DatabaseFailsStep DEF Ends, On
<1>10. CASE StartBind(c)
  BY <1>1, <1>10, StartBindStep DEF Turns, On
<1>11. CASE BindField(c)
  BY <1>1, <1>11, BindFieldStep DEF Turns, On
<1>12. CASE FinishBind(c)
  BY <1>1, <1>12, FinishBindStep DEF Ends, Turns, On
<1>13. CASE Created(c)
  BY <1>1, <1>13, CreatedStep DEF Ends, On
<1>14. CASE Assign(c)
  BY <1>1, <1>14, AssignStep DEF Turns, On
<1>15. ASSUME NEW how, Insert(c, how) PROVE call'[c].pc \in PCs
  BY <1>1, <1>15, InsertStep DEF Ends, Writing, On
<1>16. ASSUME NEW how, UpdateRow(c, how) PROVE call'[c].pc \in PCs
  BY <1>1, <1>16, UpdateRowStep DEF Ends, Writing, On
<1>17. ASSUME NEW how, DeleteRow(c, how) PROVE call'[c].pc \in PCs
  BY <1>1, <1>17, DeleteRowStep DEF Ends, Writing, On
<1> QED BY <1>2, <1>3, <1>4, <1>5, <1>6, <1>7, <1>8, <1>9, <1>10, <1>11, <1>12, <1>13, <1>14, <1>15, <1>16, <1>17, ClientSteps

\* The variables have their types, and the table and the serializer hold what they
\* may, at every moment of any number of requests (serializer.go:251, views.go:96).
THEOREM SiteTypeOKAlways ==
    ASSUME KeyIsReadOnly PROVE SiteSpec => []SiteTypeOK
<1> DEFINE Inv == listening \in BOOLEAN /\ running \in BOOLEAN /\ \A d \in Clients : call[d].pc \in PCs
<1>1. SiteInit => Inv
  BY FreshFields DEF SiteInit, PCs
<1>2. Shape /\ Inv /\ [SiteNext]_vars => Inv'
  <2> SUFFICES ASSUME Shape, Inv, [SiteNext]_vars PROVE Inv'
    OBVIOUS
  <2>1. CASE Starting
    BY <2>1 DEF Starting, siteVars
  <2>2. CASE Listen \/ MapWritesCollide
    BY <2>2 DEF Listen, MapWritesCollide
  <2>3. ASSUME NEW c \in Clients, ClientNext(c) PROVE Inv'
    <3>1. UNCHANGED <<listening, running>>
      BY <2>3, ClientSteps DEF Ask, Leave, Render, Show, Count, Rows, GetObject, DatabaseFails, StartBind, BindField,
         FinishBind, Created, Assign, Insert, UpdateRow, DeleteRow, siteVars
    <3>2. call'[c].pc \in PCs
      BY <2>3, StepPc
    <3>3. ASSUME NEW d \in Clients \ {c} PROVE call'[d].pc \in PCs
      BY <2>3, <3>3, ClientOnly DEF Only, Kept
    <3> QED BY <3>1, <3>2, <3>3
  <2>4. CASE UNCHANGED vars
    BY <2>4 DEF vars, siteVars
  <2> QED BY <2>1, <2>2, <2>3, <2>4 DEF SiteNext
<1>3. Inv /\ TableHolds => SiteTypeOK
  <2> SUFFICES ASSUME Inv, TableHolds PROVE SiteTypeOK
    OBVIOUS
  <2>1. Cardinality(Ids(rows)) = Cardinality(rows)
    <3> DEFINE f == [row \in rows |-> row[Key]]
    <3>1. /\ f \in [rows -> Ids(rows)] /\ (\A t \in Ids(rows) : \E row \in rows : f[row] = t)
          /\ \A a, b \in rows : f[a] = f[b] => a = b
      BY DEF Ids, TableHolds, SoundTable
    <3> HIDE DEF f
    <3>2. f \in Surjection(rows, Ids(rows))
      BY <3>1 DEF Surjection
    <3>3. IsInjective(f)
      BY <3>1 DEF IsInjective
    <3>4. f \in Injection(rows, Ids(rows))
      BY <3>1, <3>3 DEF Injection
    <3>5. IsFiniteSet(rows)
      BY DEF TableHolds, SoundTable
    <3> QED BY <3>2, <3>4, <3>5, FS_Surjection
  <2> QED BY <2>1 DEF SiteTypeOK, TableHolds, SoundTable, Validated, Names, PCs
<1> QED BY <1>1, <1>2, <1>3, ShapeHolds, TableAlways, PTL DEF SiteSpec

-----------------------------------------------------------------------------
(* A row is deleted once: who is told 204 has deleted the row it had read, *)
(* and its key never comes back.                                           *)

Taken(d) == call[d].before[Key] \in Nat /\ call[d].before[Key] < nextId
Gone(d) == \A row \in rows : row[Key] # call[d].before[Key]
Deletes(d) ==
    /\ call[d].pc = "delete" => Taken(d) /\ call[d].instance[Meta.pk] = call[d].before[Key]
    /\ call[d].pc = "render" => call[d].outcome.status # 204
    /\ Status(d) = 204 => Taken(d) /\ Gone(d)

\* After a step: who is told 204 now has found the row it deletes.
Tells(c) ==
    /\ Deletes(c)'
    /\ Status(c)' = 204 => call'[c].before = call[c].before /\ ~Gone(c)

\* Nobody but the statement answers 204.
LEMMA AnsweredNot204 ==
    ASSUME NEW req, NEW out \in Outcome, out.status # 204 PROVE AnsweredWith(Conf, req, out).status # 204
BY AnswersKeepStatus

LEMMA FellNot204 ==
    ASSUME NEW c, NEW req, Fell(c, req) PROVE call'[c].outcome.status # 204
<1>1. CASE call'[c].outcome = Response("page", 404)
  <2>1. "page" \in Types /\ 404 \in Int
    BY DEF Types
  <2>2. call'[c].outcome.status = 404
    BY <1>1, <2>1, Responses
  <2> QED BY <2>2
<1>2. CASE ~ReachesView(req) /\ call'[c].outcome = StoppedWith(Conf, req)
  <2> DEFINE i == Entered(req)
             out == Stops(Layers[i], req)
  <2>1. i \in DOMAIN Layers
    BY <1>2, EnteredFar, ChainIsLayers DEF ReachesView
  <2>2. out \in Outcome /\ out.status \in {0, 200, 401, 403}
    BY StopsResponds
  <2>3. StoppedWith(Conf, req) = Outwards(Conf, req, i, out) /\ i \in 1..(Len(Layers) + 1)
    BY <2>1, LayersInOrder, ChainIsLayers DEF StoppedWith
  <2> HIDE DEF i, out
  <2>4. LET back == Outwards(Conf, req, i, out) IN back.status = out.status \/ back.status \in {0, 302, 500, 503}
    BY <2>2, <2>3, OutwardsKeepsStatus
  <2>5. Outwards(Conf, req, i, out).status # 204
    BY <2>2, <2>4
  <2> QED BY <1>2, <2>3, <2>5
<1>3. CASE \E out : ViewOutcome(out) /\ call'[c].outcome = AnsweredWith(Conf, req, out)
  BY <1>3, AnsweredNot204 DEF ViewOutcome, PageStatuses
<1> QED BY <1>1, <1>2, <1>3 DEF Fell

LEMMA EndsNot204 ==
    ASSUME NEW c, NEW status \in {200, 201, 400, 403, 404, 500}, NEW wrote, Ends(c, status, wrote) PROVE Tells(c)
<1>1. Api(status) \in Outcome /\ Api(status).status # 204
  BY ApiOutcome
<1>2. call'[c].pc = "answered" /\ call'[c].outcome.status # 204
  BY <1>1, AnsweredNot204 DEF Ends, On
<1> QED BY <1>2 DEF Tells, Deletes, Status

\* In every other place there is nothing to say.
LEMMA ElsewhereDeletes ==
    ASSUME NEW c, NEW pc, On(c, pc), pc \notin {"delete", "render", "answered"} PROVE Tells(c)
BY DEF Tells, On, Deletes, Status

LEMMA LoadedKey ==
    ASSUME NEW row PROVE Loaded(row)[Meta.pk] = row[Key]
BY TableAssumption DEF Loaded, Key, PKColumn

\* The keys of others are as far gone as before.
LEMMA KeysStayGone ==
    ASSUME Shape, SoundTable, Validated, NEW c \in Clients, ClientNext(c), NEW d \in Clients, Taken(d), call'[d].before = call[d].before
    PROVE  Taken(d)' /\ (Gone(d) => Gone(d)')
<1>1. /\ SoundTable' /\ nextId <= nextId'
      /\ \A row \in rows' : row[Key] = nextId \/ \E old \in rows : old[Key] = row[Key]
  BY StepTable
<1>2. nextId \in Nat /\ nextId' \in Nat
  BY <1>1 DEF SoundTable
<1> QED BY <1>1, <1>2 DEF Taken, Gone

LEMMA StepDeletes ==
    ASSUME KeyIsReadOnly, Shape, SoundTable, Validated, NEW c \in Clients, Deletes(c), ClientNext(c) PROVE Tells(c)
<1>1. Calls
  BY DEF Shape
<1>2. ASSUME NEW req \in Wishes(c), Ask(c, req) PROVE Tells(c)
  <2>1. req \in Requests
    BY WishesAreRequests
  <2>2. Arrives(c, req)
    BY <1>1, <1>2, <2>1, AskStep
  <2>3. CASE call'[c].pc \in {"answered", "render"} /\ Fell(c, req)
    BY <2>3, FellNot204 DEF Tells, Deletes, Status
  <2>4. CASE Begun(c, req)
    BY <2>4, BegunStarts DEF Tells, Deletes, Status
  <2> QED BY <2>2, <2>3, <2>4 DEF Arrives
<1>3. CASE Leave(c)
  BY <1>1, <1>3, LeaveStep, FreshFields DEF Tells, Deletes, Status
<1>4. CASE Render(c)
  BY <1>4, RenderStep DEF Tells, Deletes, Status, Taken, Gone
<1>5. CASE Show(c)
  BY <1>1, <1>5, ShowStep DEF Turns, On, Tells, Deletes, Status
<1>6. CASE Count(c)
  BY <1>1, <1>6, CountStep, ElsewhereDeletes DEF Turns
<1>7. CASE Rows(c)
  BY <1>1, <1>7, RowsStep, EndsNot204
<1>8. CASE GetObject(c)
  <2>1. CASE \E row \in rows : Gets(c, row)
    <3>1. PICK row \in rows : Gets(c, row)
      BY <2>1
    <3>2. row[Key] \in Nat /\ row[Key] < nextId /\ UNCHANGED nextId
      BY <1>8 DEF SoundTable, GetObject
    <3>3. call'[c].before[Key] = row[Key] /\ call'[c].instance[Meta.pk] = row[Key] /\ call'[c].pc \in {"delete", "bind"}
      BY <3>1, LoadedKey DEF Gets, On
    <3> QED BY <3>2, <3>3 DEF Tells, Deletes, Taken, Status
  <2>2. CASE \E status \in {200, 403, 404, 500} : Ends(c, status, call[c].wrote)
    BY <2>2, EndsNot204
  <2> QED BY <1>1, <1>8, <2>1, <2>2, GetObjectStep
<1>9. CASE DatabaseFails(c)
  BY <1>1, <1>9, DatabaseFailsStep, EndsNot204
<1>10. CASE StartBind(c)
  BY <1>1, <1>10, StartBindStep, ElsewhereDeletes DEF Turns
<1>11. CASE BindField(c)
  BY <1>1, <1>11, BindFieldStep, ElsewhereDeletes DEF Turns
<1>12. CASE FinishBind(c)
  <2>1. CASE Turns(c, IF call[c].action = "create" THEN "insert" ELSE "assign")
    BY <2>1, ElsewhereDeletes DEF Turns
  <2> QED BY <1>1, <1>12, <2>1, FinishBindStep, EndsNot204
<1>13. CASE Created(c)
  BY <1>1, <1>13, CreatedStep, EndsNot204
<1>14. CASE Assign(c)
  BY <1>1, <1>14, AssignStep, ElsewhereDeletes DEF Turns
<1>15. ASSUME NEW statuses \in SUBSET {200, 500}, Writing(c, statuses) PROVE Tells(c)
  <2>1. PICK told \in {200, 500} : call'[c].outcome = AnsweredWith(Conf, call[c].req, Api(told))
    BY <1>15 DEF Writing
  <2>2. Api(told) \in Outcome /\ Api(told).status # 204
    BY ApiOutcome
  <2>3. call'[c].pc = "answered" /\ call'[c].outcome.status # 204
    BY <1>15, <2>1, <2>2, AnsweredNot204 DEF Writing, On
  <2> QED BY <2>3 DEF Tells, Deletes, Status
<1>16. ASSUME NEW how, Insert(c, how) PROVE Tells(c)
  <2>1. CASE On(c, "created")
    BY <2>1, ElsewhereDeletes
  <2> QED BY <1>1, <1>15, <1>16, <2>1, InsertStep, EndsNot204
<1>17. ASSUME NEW how, UpdateRow(c, how) PROVE Tells(c)
  BY <1>1, <1>15, <1>17, UpdateRowStep, EndsNot204
<1>18. ASSUME NEW how, DeleteRow(c, how) PROVE Tells(c)
  <2> DEFINE found == {row \in rows : row[Key] = call[c].instance[Meta.pk]}
  <2>1. CASE Ends(c, 404, call[c].wrote)
    BY <2>1, EndsNot204
  <2>2. CASE found # {} /\ rows' = rows \ found /\ Writing(c, {204}) /\ call'[c].before = call[c].before
    <3>1. Taken(c) /\ call[c].instance[Meta.pk] = call[c].before[Key]
      BY <1>1, <1>18, DeleteRowStep DEF Deletes
    <3>2. call'[c].pc = "answered"
      BY <2>2 DEF Writing, On
    <3>3. Taken(c)'
      BY <1>18, <2>2, <3>1 DEF Taken, DeleteRow
    <3>4. Gone(c)'
      BY <2>2, <3>1 DEF Gone
    <3>5. ~Gone(c)
      BY <2>2, <3>1 DEF Gone
    <3> QED BY <2>2, <3>2, <3>3, <3>4, <3>5 DEF Tells, Deletes
  <2> QED BY <1>1, <1>18, <2>1, <2>2, DeleteRowStep
<1> QED BY <1>2, <1>3, <1>4, <1>5, <1>6, <1>7, <1>8, <1>9, <1>10, <1>11, <1>12, <1>13, <1>14, <1>16, <1>17, <1>18, ClientSteps

\* Of the requests to delete a row one is told that it did, however they and all
\* the others that read, write and delete rows meet (views.go:96, queryset.go:1128).
THEOREM DeletedOnceAlways ==
    ASSUME KeyIsReadOnly PROVE SiteSpec => []DeletedOnce
<1> DEFINE Inv == DeletedOnce /\ \A d \in Clients : Deletes(d)
<1>1. SiteInit => Inv
  BY FreshFields DEF SiteInit, Deletes, DeletedOnce, Status
<1>2. Shape /\ TableHolds /\ Inv /\ [SiteNext]_vars => Inv'
  <2> SUFFICES ASSUME Shape, SoundTable, Validated, Inv, [SiteNext]_vars PROVE Inv'
    BY DEF TableHolds
  <2>1. CASE Starting \/ Listen \/ MapWritesCollide
    BY <2>1, OtherSteps DEF Deletes, DeletedOnce, Status, Taken, Gone
  <2>2. ASSUME NEW c \in Clients, ClientNext(c) PROVE Inv'
    <3>1. Tells(c)
      BY <2>2, StepDeletes
    <3>2. ASSUME NEW d \in Clients \ {c} PROVE Deletes(d)' /\ Status(d)' = Status(d) /\ call'[d].before = call[d].before
      <4>1. /\ call'[d].pc = call[d].pc /\ call'[d].before = call[d].before
            /\ call'[d].outcome = call[d].outcome /\ call'[d].instance = call[d].instance
        BY <2>2, <3>2, ClientOnly DEF Only, Kept
      <4>2. Deletes(d)
        BY <3>2
      <4>3. Taken(d) => Taken(d)' /\ (Gone(d) => Gone(d)')
        BY <2>2, <3>2, <4>1, KeysStayGone
      <4> QED BY <4>1, <4>2, <4>3 DEF Deletes, Status
    <3>3. ASSUME NEW d \in Clients \ {c}, Status(c)' = 204, Status(d)' = 204
          PROVE  call'[c].before[Key] # call'[d].before[Key]
      <4>1. call'[c].before = call[c].before /\ ~Gone(c)
        BY <3>1, <3>3 DEF Tells
      <4>2. call'[d].before = call[d].before /\ Gone(d)
        BY <3>2, <3>3 DEF Deletes
      <4> QED BY <4>1, <4>2 DEF Gone
    <3>4. ASSUME NEW a \in Clients, NEW b \in Clients, a # b, Status(a)' = 204, Status(b)' = 204
          PROVE  call'[a].before[Key] # call'[b].before[Key]
      <4>1. CASE a # c /\ b # c
        BY <3>2, <3>4, <4>1 DEF DeletedOnce
      <4> QED BY <3>3, <3>4, <4>1
    <3> QED BY <3>1, <3>2, <3>4 DEF DeletedOnce, Tells
  <2>3. CASE UNCHANGED vars
    BY <2>3 DEF vars, siteVars, Deletes, DeletedOnce, Status, Taken, Gone
  <2> QED BY <2>1, <2>2, <2>3 DEF SiteNext
<1> QED BY <1>1, <1>2, ShapeHolds, TableAlways, PTL DEF SiteSpec

-----------------------------------------------------------------------------
(* What a request stores is its own.                                       *)

\* What Bind has of the first fields, those before k.
Keeps(i, body, partial) == BindOne(Bindings[i], body, partial).keep
Collects(body, partial, k, v) ==
    /\ v = [x \in DOMAIN v |-> v[x]]
    /\ DOMAIN v = {validatedKey(Bindings[i]) : i \in {j \in DOMAIN Bindings : j < k /\ Keeps(j, body, partial)}}
    /\ \A i \in DOMAIN Bindings :
          i < k /\ Keeps(i, body, partial) => v[validatedKey(Bindings[i])] = BindOne(Bindings[i], body, partial).value

LEMMA BindingsInOrder ==
    ASSUME ~Misconfigured(Meta, Config) PROVE Len(Bindings) \in Nat /\ DOMAIN Bindings = 1..Len(Bindings)
<1> DEFINE B == Bindings
           S == {B[i] : i \in DOMAIN B}
<1>1. B \in Seq(S)
  BY TableAssumption
<1> HIDE DEF B, S
<1>2. Len(B) \in Nat /\ DOMAIN B = 1..Len(B)
  BY <1>1
<1> QED BY <1>2 DEF B

LEMMA CollectsNothing ==
    ASSUME ~Misconfigured(Meta, Config), NEW body, NEW partial PROVE Collects(body, partial, 1, <<>>)
<1>1. \A i \in DOMAIN Bindings : ~(i < 1)
  BY BindingsInOrder
<1>2. DOMAIN (<<>>) = {} /\ <<>> = [x \in DOMAIN (<<>>) |-> (<<>>)[x]]
  OBVIOUS
<1> QED BY <1>1, <1>2 DEF Collects

LEMMA CollectsOne ==
    ASSUME ~Misconfigured(Meta, Config), NamesDiffer, NEW body, NEW partial, NEW k \in DOMAIN Bindings, NEW v,
           Collects(body, partial, k, v)
    PROVE  LET one == BindOne(Bindings[k], body, partial) IN
           Collects(body, partial, k + 1, IF one.keep THEN With(v, validatedKey(Bindings[k]), one.value) ELSE v)
<1> DEFINE one == BindOne(Bindings[k], body, partial)
           key == validatedKey(Bindings[k])
           new == With(v, key, one.value)
           KeptUpTo(m) == {j \in DOMAIN Bindings : j < m /\ Keeps(j, body, partial)}
<1>1. \A i \in DOMAIN Bindings : i < k + 1 <=> (i < k \/ i = k)
  BY BindingsInOrder
<1>2. CASE ~one.keep
  <2>1. ~Keeps(k, body, partial)
    BY <1>2 DEF Keeps
  <2>2. KeptUpTo(k + 1) = KeptUpTo(k)
    BY <1>1, <2>1
  <2>3. \A i \in DOMAIN Bindings : i < k + 1 /\ Keeps(i, body, partial) => i < k
    BY <1>1, <2>1
  <2>4. Collects(body, partial, k + 1, v)
    BY <2>2, <2>3 DEF Collects
  <2> QED BY <1>2, <2>4
<1>3. CASE one.keep
  <2>1. Keeps(k, body, partial)
    BY <1>3 DEF Keeps
  <2>2. KeptUpTo(k + 1) = KeptUpTo(k) \cup {k}
    BY <1>1, <2>1
  <2>3. /\ DOMAIN new = DOMAIN v \cup {key} /\ new[key] = one.value
        /\ \A x \in DOMAIN v \ {key} : new[x] = v[x]
        /\ new = [x \in DOMAIN new |-> new[x]]
    BY DEF With
  <2> HIDE DEF new
  <2>4. DOMAIN new = {validatedKey(Bindings[i]) : i \in KeptUpTo(k + 1)}
    BY <2>2, <2>3 DEF Collects
  <2>5. ASSUME NEW i \in DOMAIN Bindings, i < k + 1, Keeps(i, body, partial)
        PROVE  new[validatedKey(Bindings[i])] = BindOne(Bindings[i], body, partial).value
    <3>1. CASE validatedKey(Bindings[i]) = key
      <4>1. Bindings[i] = Bindings[k]
        BY <3>1 DEF NamesDiffer
      <4> QED BY <2>3, <4>1
    <3>2. CASE validatedKey(Bindings[i]) # key
      <4>1. i < k
        BY <1>1, <2>5, <3>2
      <4>2. validatedKey(Bindings[i]) \in DOMAIN v /\ v[validatedKey(Bindings[i])] = BindOne(Bindings[i], body, partial).value
        BY <2>5, <4>1 DEF Collects
      <4> QED BY <2>3, <3>2, <4>2
    <3> QED BY <3>1, <3>2
  <2>6. Collects(body, partial, k + 1, new)
    BY <2>3, <2>4, <2>5 DEF Collects
  <2> QED BY <1>3, <2>6 DEF new
<1> QED BY <1>2, <1>3

LEMMA CollectsAll ==
    ASSUME ~Misconfigured(Meta, Config), NamesDiffer, NEW c, NEW k \in Nat \ {0}, k \notin DOMAIN Bindings, NEW v,
           Collects(call[c].req.body, Partial(c), k, v)
    PROVE  v = OwnValues(c)
<1> DEFINE body == call[c].req.body
           partial == Partial(c)
           own == {i \in DOMAIN Bindings : BindOne(Bindings[i], body, partial).keep}
           keys == {validatedKey(Bindings[i]) : i \in own}
           of(x) == CHOOSE b \in {Bindings[i] : i \in own} : validatedKey(b) = x
<1>1. OwnValues(c) = [x \in keys |-> BindOne(of(x), body, partial).value]
  BY DEF OwnValues
<1>2. \A i \in DOMAIN Bindings : i < k
  BY BindingsInOrder
<1>3. own = {j \in DOMAIN Bindings : j < k /\ Keeps(j, body, partial)}
  BY <1>2 DEF Keeps
<1>4. DOMAIN v = keys
  BY <1>3 DEF Collects
<1>5. ASSUME NEW x \in keys PROVE v[x] = BindOne(of(x), body, partial).value
  <2>1. PICK i \in own : validatedKey(Bindings[i]) = x
    OBVIOUS
  <2>2. \A b \in {Bindings[j] : j \in own} : validatedKey(b) = x => b = Bindings[i]
    BY <2>1 DEF NamesDiffer
  <2>3. of(x) = Bindings[i]
    BY <2>1, <2>2
  <2>4. v[validatedKey(Bindings[i])] = BindOne(Bindings[i], body, partial).value
    BY <1>2, <2>1 DEF Collects, Keeps
  <2> QED BY <2>1, <2>3, <2>4
<1>6. v = [x \in DOMAIN v |-> v[x]]
  BY DEF Collects
<1> HIDE DEF of, keys, own, body, partial
<1>7. v = [x \in keys |-> v[x]]
  BY <1>4, <1>6
<1> QED BY <1>1, <1>5, <1>7

\* Only one that begins to bind comes to bind.
LEMMA WhoBinds ==
    ASSUME Shape, NEW c \in Clients, ClientNext(c), ~StartBind(c), call[c].pc # "binding"
    PROVE  call'[c].pc # "binding" /\ bound' = bound
<1>1. Calls
  BY DEF Shape
<1>2. ASSUME NEW req \in Wishes(c), Ask(c, req) PROVE call'[c].pc # "binding" /\ bound' = bound
  <2>1. req \in Requests
    BY WishesAreRequests
  <2>2. Arrives(c, req)
    BY <1>1, <1>2, <2>1, AskStep
  <2>3. call'[c].pc \in {"answered", "render", "count", "rows", "bind", "object"}
    BY <2>2, BegunStarts DEF Arrives
  <2> QED BY <1>2, <2>3 DEF Ask
<1>3. CASE Leave(c)
  BY <1>1, <1>3, LeaveStep, FreshFields DEF Leave
<1>4. CASE Render(c)
  BY <1>4, RenderStep
<1>5. CASE Show(c)
  BY <1>1, <1>5, ShowStep DEF Turns, On, Show
<1>6. CASE Count(c)
  BY <1>1, <1>6, CountStep DEF Turns, On, Count
<1>7. CASE Rows(c)
  BY <1>1, <1>7, RowsStep DEF Ends, On, Rows
<1>8. CASE GetObject(c)
  BY <1>1, <1>8, GetObjectStep, ZenonT(40) DEF Ends, Gets, On, GetObject
<1>9. CASE DatabaseFails(c)
  BY <1>1, <1>9, DatabaseFailsStep DEF Ends, On, DatabaseFails
<1>10. CASE BindField(c) \/ FinishBind(c)
  BY <1>10 DEF BindField, FinishBind, At
<1>13. CASE Created(c)
  BY <1>1, <1>13, CreatedStep DEF Ends, On, Created
<1>14. CASE Assign(c)
  BY <1>1, <1>14, AssignStep DEF Turns, On, Assign
<1>15. ASSUME NEW how, Insert(c, how) PROVE call'[c].pc # "binding" /\ bound' = bound
  BY <1>1, <1>15, InsertStep DEF Ends, Writing, On, Insert
<1>16. ASSUME NEW how, UpdateRow(c, how) PROVE call'[c].pc # "binding" /\ bound' = bound
  BY <1>1, <1>16, UpdateRowStep DEF Ends, Writing, On, UpdateRow
<1>17. ASSUME NEW how, DeleteRow(c, how) PROVE call'[c].pc # "binding" /\ bound' = bound
  BY <1>1, <1>17, DeleteRowStep DEF Ends, Writing, On, DeleteRow
<1> QED BY <1>2, <1>3, <1>4, <1>5, <1>6, <1>7, <1>8, <1>9, <1>10, <1>13, <1>14, <1>15, <1>16, <1>17, ClientSteps

\* The others are told when one begins to bind, or writes.
LEMMA OthersAreTold ==
    ASSUME Shape, NEW c \in Clients, ClientNext(c), NEW d \in Clients \ {c}, call'[d].alone
    PROVE  call[d].alone /\ rows' = rows /\ ~StartBind(c)
<1>1. Calls /\ "alone" \in DOMAIN call[d] /\ DOMAIN call = Clients
  BY DEF Shape, Calls, Fields
<1>2. ASSUME NEW was, was = [call[d] EXCEPT !.alone = FALSE] PROVE call'[d] # was
  BY <1>1, <1>2
<1>3. ~StartBind(c)
  <2>1. StartBind(c) => call'[d] = [call[d] EXCEPT !.alone = FALSE]
    BY DEF StartBind
  <2> QED BY <1>2, <2>1
<1>4. ASSUME NEW now, call' = [call EXCEPT ![c] = now] PROVE call'[d] = call[d]
  BY <1>1, <1>4
<1>5. ASSUME NEW out, NEW data, Answer(c, out, data) PROVE call'[d] = call[d]
  BY <1>1, <1>5 DEF Answer
<1>6. ASSUME NEW was, NEW how, NEW out, NEW data, Wrote(c, was, how, out, data) PROVE FALSE
  <2>1. call'[d] = [call[d] EXCEPT !.alone = FALSE]
    BY <1>6 DEF Wrote
  <2> QED BY <1>2, <2>1
<1>7. ASSUME NEW req \in Wishes(c), Ask(c, req) PROVE call'[d] = call[d] /\ rows' = rows
  BY <1>4, <1>7, Zenon DEF Ask, Arrive, Serve
<1>8. ASSUME Leave(c) \/ Count(c) \/ Assign(c) \/ BindField(c) PROVE call'[d] = call[d] /\ rows' = rows
  <2>1. CASE Leave(c)
    BY <1>4, <2>1 DEF Leave
  <2>2. CASE Count(c)
    BY <1>1, <2>2 DEF Count
  <2>3. CASE Assign(c)
    BY <1>1, <2>3 DEF Assign
  <2>4. CASE BindField(c)
    BY <1>1, <2>4 DEF BindField
  <2> QED BY <1>8, <2>1, <2>2, <2>3, <2>4
<1>9. ASSUME Render(c) PROVE call'[d] = call[d] /\ rows' = rows
  BY <1>9, RenderStep
<1>10. ASSUME Show(c) PROVE call'[d] = call[d] /\ rows' = rows
  <2>1. rows' = rows /\ \E shown : Written(c, shown)
    BY <1>10, Zenon DEF Show
  <2>2. ASSUME NEW shown, Written(c, shown) PROVE call'[d] = call[d]
    BY <1>1, <2>2 DEF Written
  <2> QED BY <2>1, <2>2
<1>11. ASSUME Rows(c) \/ DatabaseFails(c) \/ Created(c) PROVE call'[d] = call[d] /\ rows' = rows
  <2>1. rows' = rows
    BY <1>11 DEF Rows, DatabaseFails, Created
  <2>2. \E out, data : Answer(c, out, data)
    BY <1>11, ZenonT(40) DEF Rows, DatabaseFails, Created
  <2> QED BY <1>5, <2>1, <2>2
<1>12. ASSUME GetObject(c) PROVE call'[d] = call[d] /\ rows' = rows
  <2> DEFINE found == {row \in rows : Holds(call[c].plan, row[call[c].plan.column])}
             before == CHOOSE r \in found : TRUE
             to == IF call[c].action = "destroy" THEN "delete" ELSE "bind"
  <2>1. \/ \E out, data : Answer(c, out, data)
        \/ call' = [call EXCEPT ![c].pc = to, ![c].instance = Loaded(before), ![c].before = before]
    BY <1>12, ZenonT(40) DEF GetObject
  <2>2. rows' = rows
    BY <1>12 DEF GetObject
  <2> HIDE DEF before, to
  <2>3. call' = [call EXCEPT ![c].pc = to, ![c].instance = Loaded(before), ![c].before = before] => call'[d] = call[d]
    BY <1>1
  <2> QED BY <1>5, <2>1, <2>2, <2>3
<1>13. ASSUME FinishBind(c) PROVE call'[d] = call[d] /\ rows' = rows
  <2>1. (\/ Answer(c, Api(400), <<>>)
         \/ \E to : call' = [call EXCEPT ![c].pc = to]) /\ rows' = rows
    BY <1>13, Zenon DEF FinishBind
  <2>2. ASSUME NEW to, call' = [call EXCEPT ![c].pc = to] PROVE call'[d] = call[d]
    BY <1>1, <2>2
  <2> QED BY <1>5, <2>1, <2>2
<1>14. ASSUME NEW how, Insert(c, how) PROVE call'[d] = call[d] /\ rows' = rows
  <2>1. \/ Answer(c, Api(500), <<>>) /\ UNCHANGED rows
        \/ Wrote(c, call[c], how, Nil, <<>>)
        \/ call'[d] = [call[d] EXCEPT !.alone = FALSE]
    BY <1>14 DEF Insert
  <2> QED BY <1>2, <1>5, <1>6, <2>1
<1>15. ASSUME NEW how, UpdateRow(c, how) PROVE call'[d] = call[d] /\ rows' = rows
  <2>1. \/ (\E out, data : Answer(c, out, data)) /\ UNCHANGED rows
        \/ \E was, out, data : Wrote(c, was, how, out, data)
    BY <1>15, Zenon DEF UpdateRow
  <2> QED BY <1>5, <1>6, <2>1
<1>16. ASSUME NEW how, DeleteRow(c, how) PROVE call'[d] = call[d] /\ rows' = rows
  <2>1. \/ (\E out, data : Answer(c, out, data)) /\ UNCHANGED rows
        \/ \E was, out, data : Wrote(c, was, how, out, data)
    BY <1>16, Zenon DEF DeleteRow
  <2> QED BY <1>5, <1>6, <2>1
<1> QED BY <1>3, <1>7, <1>8, <1>9, <1>10, <1>11, <1>12, <1>13, <1>14, <1>15, <1>16, ClientSteps

\* What a request knows that has been alone since it began to bind: at first that
\* what is bound is its own, as far as it has come, and then that its row is.
OnlyBinder(d) == \A e \in Clients \ {d} : call[e].pc # "binding"
Collecting(d) ==
    /\ OnlyBinder(d) /\ call[d].next \in Nat \ {0}
    /\ Misconfigured(Meta, Config) => bound.errors
    /\ ~Misconfigured(Meta, Config) => Collects(call[d].req.body, Partial(d), call[d].next, bound.validated)
BlankRow(k) == [col \in Columns |-> IF col = Key THEN k ELSE Null]
HoldsOwn(d) ==
    \A row \in rows : row[Key] = call[d].before[Key] =>
        row = Stored(Meta, IF call[d].action = "create" THEN BlankRow(row[Key]) ELSE call[d].before, OwnValues(d))
Succeeded(d) == call[d].pc = "answered" /\ call[d].wrote /\ call[d].outcome.status \in {200, 201}
Owns(d) ==
    /\ call[d].pc \in {"insert", "created"} => call[d].action = "create"
    /\ call[d].pc \in {"assign", "update"} => call[d].action # "create"
    /\ call[d].alone =>
          /\ call[d].pc = "binding" => Collecting(d)
          /\ call[d].pc \in {"insert", "assign", "update"} => OnlyBinder(d) /\ bound.validated = OwnValues(d)
          /\ call[d].pc = "created" \/ Succeeded(d) => HoldsOwn(d)

LEMMA BlankRows == ASSUME NEW k PROVE BlankRow(k) = [Blank EXCEPT ![Key] = k] /\ Blank = BlankRow(nextId)
<1>1. Key \in Columns
  BY TableAssumption
<1> QED BY <1>1 DEF BlankRow, Blank

LEMMA SameOwnValues ==
    ASSUME NEW d, call'[d].req = call[d].req, call'[d].action = call[d].action
    PROVE  OwnValues(d)' = OwnValues(d) /\ Partial(d)' = Partial(d)
BY DEF OwnValues, Partial

\* What others do leaves it with that, or tells it that it is not alone.
LEMMA OthersLeaveOwns ==
    ASSUME Shape, NEW c \in Clients, ClientNext(c), NEW d \in Clients \ {c}, Owns(d) PROVE Owns(d)'
<1>1. CASE UNCHANGED call
  <2>1. call[d].alone => rows' = rows /\ ~StartBind(c)
    BY <1>1, OthersAreTold
  <2>2. OnlyBinder(d) /\ ~StartBind(c) => bound' = bound
    BY WhoBinds DEF OnlyBinder
  <2>3. OwnValues(d)' = OwnValues(d) /\ Partial(d)' = Partial(d)
    BY <1>1, SameOwnValues
  <2>4. OnlyBinder(d)' = OnlyBinder(d)
    BY <1>1 DEF OnlyBinder
  <2>5. call[d].alone /\ call[d].pc = "binding" => Collecting(d)'
    BY <1>1, <2>1, <2>2, <2>3, <2>4 DEF Owns, Collecting
  <2>6. call[d].alone /\ HoldsOwn(d) => HoldsOwn(d)'
    BY <1>1, <2>1, <2>3 DEF HoldsOwn
  <2> QED BY <1>1, <2>1, <2>2, <2>3, <2>4, <2>5, <2>6 DEF Owns, Succeeded
<1>2. CASE Only(c)
  <2>1. Kept(d)
    BY <1>2 DEF Only
  <2>2. /\ call'[d].pc = call[d].pc /\ call'[d].req = call[d].req /\ call'[d].action = call[d].action
        /\ call'[d].before = call[d].before /\ call'[d].next = call[d].next /\ call'[d].outcome = call[d].outcome
        /\ (call'[d].wrote <=> call[d].wrote)
    BY <2>1 DEF Kept
  <2>3. call'[d].alone => call[d].alone /\ rows' = rows /\ ~StartBind(c)
    BY OthersAreTold
  <2>4. OwnValues(d)' = OwnValues(d) /\ Partial(d)' = Partial(d)
    BY <2>2, SameOwnValues
  <2>5. OnlyBinder(d) /\ ~StartBind(c) => OnlyBinder(d)' /\ bound' = bound
    <3> SUFFICES ASSUME OnlyBinder(d), ~StartBind(c) PROVE OnlyBinder(d)' /\ bound' = bound
      OBVIOUS
    <3>1. call'[c].pc # "binding" /\ bound' = bound
      BY WhoBinds DEF OnlyBinder
    <3>2. \A e \in Clients \ {c} : call'[e].pc = call[e].pc
      BY <1>2 DEF Only, Kept
    <3> QED BY <3>1, <3>2 DEF OnlyBinder
  <2>6. call'[d].alone /\ call[d].pc = "binding" => Collecting(d)'
    BY <2>2, <2>3, <2>4, <2>5 DEF Owns, Collecting
  <2>7. call'[d].alone /\ HoldsOwn(d) => HoldsOwn(d)'
    BY <2>2, <2>3, <2>4 DEF HoldsOwn
  <2>8. Succeeded(d)' <=> Succeeded(d)
    BY <2>2 DEF Succeeded
  <2> QED BY <2>2, <2>3, <2>4, <2>5, <2>6, <2>7, <2>8 DEF Owns
<1> QED BY <1>1, <1>2, ClientOnly

\* Only what others do, or a new beginning, changes who is alone.
LEMMA AloneStays ==
    ASSUME Calls, NEW c \in Clients,
           BindField(c) \/ FinishBind(c) \/ Assign(c) \/ Created(c) \/ \E how : Insert(c, how) \/ UpdateRow(c, how)
    PROVE  call'[c].alone = call[c].alone
<1>1. c \in DOMAIN call /\ DOMAIN call[c] = Fields
  BY DEF Calls
<1>2. ASSUME NEW was, DOMAIN was = Fields, NEW out, NEW data PROVE Answered(was, out, data).alone = was.alone
  BY <1>2 DEF Answered, Fields
<1>3. ASSUME NEW out, NEW data, Answer(c, out, data) PROVE call'[c].alone = call[c].alone
  <2>1. call'[c] = Answered(call[c], out, data)
    BY <1>1, <1>3 DEF Answer
  <2> QED BY <1>1, <1>2, <2>1
<1>4. ASSUME NEW was, DOMAIN was = Fields, was.alone = call[c].alone, NEW how, NEW out, NEW data, Wrote(c, was, how, out, data)
      PROVE  call'[c].alone = call[c].alone
  <2> DEFINE now == [was EXCEPT !.wrote = TRUE]
  <2>1. DOMAIN now = Fields /\ now.alone = was.alone
    BY <1>4 DEF Fields
  <2>2. call'[c] = Answered(now, Api(500), <<>>) \/ call'[c] = Answered(now, out, data)
    BY <1>4 DEF Wrote
  <2> HIDE DEF now
  <2> QED BY <1>2, <1>4, <2>1, <2>2
<1>5. CASE BindField(c)
  BY <1>1, <1>5 DEF BindField, Fields
<1>6. CASE FinishBind(c)
  <2>1. \/ Answer(c, Api(400), <<>>)
        \/ \E to : call' = [call EXCEPT ![c].pc = to]
    BY <1>6, Zenon DEF FinishBind
  <2>2. ASSUME NEW to, call' = [call EXCEPT ![c].pc = to] PROVE call'[c].alone = call[c].alone
    BY <1>1, <2>2 DEF Fields
  <2> QED BY <1>3, <2>1, <2>2
<1>7. CASE Assign(c)
  BY <1>1, <1>7 DEF Assign, Fields
<1>8. CASE Created(c)
  <2>1. \E out, data : Answer(c, out, data)
    BY <1>8, Zenon DEF Created
  <2> QED BY <1>3, <2>1
<1>9. ASSUME NEW how, Insert(c, how) PROVE call'[c].alone = call[c].alone
  <2> DEFINE now == [call[c] EXCEPT !.pc = "created", !.wrote = TRUE, !.before = NewRow, !.instance = bound.validated]
  <2>1. \/ Answer(c, Api(500), <<>>)
        \/ Wrote(c, call[c], how, Nil, <<>>)
        \/ call'[c] = now
    BY <1>9 DEF Insert, NewRow
  <2>2. now.alone = call[c].alone
    BY <1>1 DEF Fields
  <2> HIDE DEF now
  <2> QED BY <1>1, <1>3, <1>4, <2>1, <2>2
<1>10. ASSUME NEW how, UpdateRow(c, how) PROVE call'[c].alone = call[c].alone
  <2> DEFINE found == {row \in rows : row[Key] = call[c].instance[Meta.pk]}
             was == [call[c] EXCEPT !.before = CHOOSE row \in found : TRUE]
  <2>1. \/ \E out, data : Answer(c, out, data)
        \/ \E out, data : Wrote(c, was, how, out, data)
    BY <1>10, ZenonT(40) DEF UpdateRow
  <2> HIDE DEF found
  <2>2. DOMAIN was = Fields /\ was.alone = call[c].alone
    BY <1>1 DEF Fields
  <2> HIDE DEF was
  <2> QED BY <1>3, <1>4, <2>1, <2>2
<1> QED BY <1>5, <1>6, <1>7, <1>8, <1>9, <1>10

\* A request that has not got to its values, or has not succeeded, has nothing to show.
LEMMA NothingToOwn ==
    ASSUME NEW c, call'[c].pc \notin {"binding", "insert", "created", "assign", "update"}, ~Succeeded(c)' PROVE Owns(c)'
BY DEF Owns

LEMMA UnwrittenOwnsNothing ==
    ASSUME NEW c, NEW status, Ends(c, status, call[c].wrote), Told(c), call[c].pc \notin {"created", "answered"} PROVE Owns(c)'
<1>1. call'[c].pc = "answered" /\ ~call'[c].wrote
  BY DEF Ends, On, Told
<1> QED BY <1>1, NothingToOwn DEF Succeeded

LEMMA FailedOwnsNothing ==
    ASSUME NEW c, NEW statuses \in SUBSET {204, 500}, Writing(c, statuses) PROVE Owns(c)'
<1>1. PICK told \in {204, 500} : call'[c].outcome = AnsweredWith(Conf, call[c].req, Api(told))
  BY DEF Writing
<1>2. Api(told) \in Outcome /\ Api(told).status = told
  BY <1>1, ApiOutcome
<1>3. LET back == AnsweredWith(Conf, call[c].req, Api(told)) IN back.status = told \/ back.status \in {0, 302, 500, 503}
  BY <1>2, AnswersKeepStatus
<1>4. call'[c].outcome.status \notin {200, 201}
  BY <1>1, <1>3
<1> QED BY <1>4, NothingToOwn DEF Writing, On, Succeeded

LEMMA StartBindOwns ==
    ASSUME Calls, Validated, NEW c \in Clients, StartBind(c) PROVE Owns(c)'
<1> DEFINE now == [call[c] EXCEPT !.pc = "binding", !.next = 1, !.alone = Binding = {}]
           wrong == Misconfigured(Meta, Config)
<1>1. call'[c] = now /\ bound' = [validated |-> <<>>, errors |-> wrong]
  BY Zenon DEF StartBind
<1>2. now.next = 1 /\ (now.alone <=> Binding = {}) /\ now.pc = "binding"
  BY DEF Calls, Fields
<1> HIDE DEF now
<1>3. Only(c)
  BY StartBindStep DEF Turns, On
<1>4. call'[c].alone => OnlyBinder(c)'
  BY <1>1, <1>2, <1>3 DEF OnlyBinder, Binding, Only, Kept
<1>5. (wrong => bound'.errors) /\ bound'.validated = <<>>
  BY <1>1
<1>6. call'[c].alone => Collecting(c)'
  BY <1>1, <1>2, <1>4, <1>5, CollectsNothing DEF Collecting
<1> QED BY <1>1, <1>2, <1>6 DEF Owns, Succeeded

LEMMA BindFieldOwns ==
    ASSUME NamesDiffer, Shape, NEW c \in Clients, Owns(c), BindField(c) PROVE Owns(c)'
<1> DEFINE k == call[c].next
           one == BindOne(Bindings[k], call[c].req.body, Partial(c))
<1>1. /\ bound'.validated = IF one.keep THEN With(bound.validated, validatedKey(Bindings[k]), one.value) ELSE bound.validated
      /\ ~Misconfigured(Meta, Config) /\ k \in DOMAIN Bindings
  <2>1. /\ bound' = [validated |-> IF one.keep THEN With(bound.validated, validatedKey(Bindings[k]), one.value) ELSE bound.validated,
                     errors |-> bound.errors \/ one.error]
        /\ ~Misconfigured(Meta, Config) /\ k \in DOMAIN Bindings
    BY Zenon DEF BindField
  <2> HIDE DEF one, k
  <2> QED BY <2>1
<1>2. call'[c].next = k + 1 /\ call'[c].alone = call[c].alone
  BY AloneStays DEF BindField, Shape, Calls, Fields
<1>3. call[c].pc = "binding" /\ Turns(c, "binding")
  BY BindFieldStep DEF Shape
<1>4. OnlyBinder(c) => OnlyBinder(c)'
  BY <1>3 DEF Turns, On, Only, Kept, OnlyBinder
<1>5. Partial(c)' = Partial(c) /\ call'[c].req = call[c].req
  BY <1>3, SameOwnValues DEF Turns, On
<1> HIDE DEF k, one
<1>6. ASSUME call'[c].alone PROVE Collecting(c)'
  <2>1. OnlyBinder(c) /\ k \in Nat \ {0} /\ Collects(call[c].req.body, Partial(c), k, bound.validated)
    BY <1>1, <1>2, <1>3, <1>6 DEF Owns, Collecting, k
  <2>2. Collects(call[c].req.body, Partial(c), k + 1, bound'.validated)
    BY <1>1, <2>1, CollectsOne DEF one
  <2>3. k + 1 \in Nat \ {0}
    BY <2>1
  <2> QED BY <1>1, <1>2, <1>4, <1>5, <2>1, <2>2, <2>3 DEF Collecting
<1> QED BY <1>3, <1>6 DEF Turns, On, Owns, Succeeded

LEMMA FinishBindOwns ==
    ASSUME NamesDiffer, Shape, Validated, NEW c \in Clients, Owns(c), Told(c), FinishBind(c) PROVE Owns(c)'
<1> DEFINE to == IF call[c].action = "create" THEN "insert" ELSE "assign"
<1>1. Calls /\ call[c].pc = "binding"
  BY FinishBindStep DEF Shape
<1>2. CASE bound'.errors
  <2>1. Answer(c, Api(400), <<>>)
    BY <1>2 DEF FinishBind
  <2> QED BY <1>1, <2>1, AnswerEnds, UnwrittenOwnsNothing
<1>3. CASE ~bound'.errors
  <2>1. bound' = [bound EXCEPT !.errors = @ \/ bound.validated \in Contradictory] /\ call' = [call EXCEPT ![c].pc = to]
        /\ (Misconfigured(Meta, Config) \/ call[c].next \notin DOMAIN Bindings)
    BY <1>3 DEF FinishBind
  <2>2. bound'.validated = bound.validated /\ ~bound.errors
    BY <1>3, <2>1 DEF Validated
  <2> HIDE DEF to
  <2>3. call'[c].pc = to /\ call'[c].action = call[c].action /\ call'[c].req = call[c].req
        /\ \A e \in Clients \ {c} : call'[e] = call[e]
    BY <1>1, <2>1 DEF Calls, Fields
  <2>4. call'[c].alone = call[c].alone
    BY <1>1, AloneStays
  <2>5. ASSUME call'[c].alone PROVE OnlyBinder(c)' /\ bound'.validated = OwnValues(c)'
    <3>1. Collecting(c)
      BY <1>1, <2>4, <2>5 DEF Owns
    <3>2. ~Misconfigured(Meta, Config)
      BY <2>2, <3>1 DEF Collecting
    <3>3. bound.validated = OwnValues(c)
      BY <2>1, <3>1, <3>2, CollectsAll DEF Collecting
    <3>4. OwnValues(c)' = OwnValues(c)
      BY <2>3, SameOwnValues
    <3> QED BY <2>2, <2>3, <3>1, <3>3, <3>4 DEF OnlyBinder, Collecting
  <2>6. to \in {"insert", "assign"} /\ (to = "insert" <=> call[c].action = "create")
    BY DEF to
  <2> QED BY <2>3, <2>5, <2>6 DEF Owns, Succeeded
<1> QED BY <1>2, <1>3

LEMMA AssignOwns ==
    ASSUME Calls, NEW c \in Clients, Owns(c), Assign(c) PROVE Owns(c)'
<1>1. call[c].pc = "assign" /\ Turns(c, "update") /\ call'[c].alone = call[c].alone /\ bound' = bound
  BY AssignStep, AloneStays DEF Assign
<1>2. OwnValues(c)' = OwnValues(c)
  BY <1>1, SameOwnValues DEF Turns, On
<1>3. OnlyBinder(c) => OnlyBinder(c)'
  BY <1>1 DEF Turns, On, Only, Kept, OnlyBinder
<1> QED BY <1>1, <1>2, <1>3 DEF Turns, On, Owns, Succeeded

LEMMA CreatedOwns ==
    ASSUME Calls, NEW c \in Clients, Owns(c), Created(c) PROVE Owns(c)'
<1>1. call[c].pc = "created" /\ Ends(c, 201, call[c].wrote) /\ call'[c].alone = call[c].alone /\ rows' = rows
  BY CreatedStep, AloneStays DEF Created
<1>2. OwnValues(c)' = OwnValues(c)
  BY <1>1, SameOwnValues DEF Ends, On
<1>3. HoldsOwn(c) => HoldsOwn(c)'
  BY <1>1, <1>2 DEF Ends, On, HoldsOwn
<1> QED BY <1>1, <1>3 DEF Ends, On, Owns

LEMMA InsertOwns ==
    ASSUME Shape, SoundTable, Validated, NEW c \in Clients, Owns(c), Told(c), NEW how, Insert(c, how) PROVE Owns(c)'
<1>1. Calls /\ call[c].pc = "insert" /\ call'[c].alone = call[c].alone /\ bound' = bound
  BY InsertStep, AloneStays DEF Shape, Insert
<1>2. CASE Ends(c, 500, call[c].wrote)
  BY <1>1, <1>2, UnwrittenOwnsNothing
<1>3. CASE Writing(c, {500})
  BY <1>3, FailedOwnsNothing
<1>4. CASE /\ Stores(NewRow) /\ rows' = rows \cup {NewRow} /\ nextId' = nextId + 1
           /\ On(c, "created") /\ call'[c].before = NewRow
  <2>1. SoundTable' /\ NewRow[Key] = nextId
    BY <1>4, InsertTable
  <2>2. call[c].action = "create" /\ call'[c].action = "create"
    BY <1>1, <1>4 DEF Owns, On
  <2>3. OwnValues(c)' = OwnValues(c)
    BY <1>4, SameOwnValues DEF On
  <2>4. ASSUME call'[c].alone, NEW row \in rows', row[Key] = NewRow[Key]
        PROVE  row = Stored(Meta, BlankRow(row[Key]), OwnValues(c))
    <3>1. row = NewRow
      BY <1>4, <2>1, <2>4 DEF SoundTable
    <3>2. bound.validated = OwnValues(c)
      BY <1>1, <2>4 DEF Owns
    <3>3. Blank = BlankRow(row[Key])
      BY <2>1, <2>4, BlankRows
    <3> QED BY <3>1, <3>2, <3>3 DEF NewRow
  <2>5. call'[c].alone => HoldsOwn(c)'
    BY <1>4, <2>2, <2>3, <2>4 DEF HoldsOwn
  <2> QED BY <1>4, <2>2, <2>5 DEF On, Owns, Succeeded
<1> QED BY <1>1, <1>2, <1>3, <1>4, InsertStep

LEMMA UpdateOwns ==
    ASSUME Shape, SoundTable, Validated, NEW c \in Clients, Owns(c), Told(c), NEW how, UpdateRow(c, how) PROVE Owns(c)'
<1> DEFINE found == {row \in rows : row[Key] = call[c].instance[Meta.pk]}
           changed == {Stored(Meta, row, bound.validated) : row \in found}
<1>1. Calls /\ call[c].pc = "update" /\ call'[c].alone = call[c].alone /\ bound' = bound
  BY UpdateRowStep, AloneStays DEF Shape, UpdateRow
<1>2. ASSUME NEW status \in {200, 500}, Ends(c, status, call[c].wrote) PROVE Owns(c)'
  BY <1>1, <1>2, UnwrittenOwnsNothing
<1>3. CASE rows' = (rows \ found) \cup changed /\ Writing(c, {200}) /\ call'[c].before \in found
  <2> DEFINE old == call'[c].before
  <2>1. call[c].action # "create" /\ call'[c].action # "create"
    BY <1>1, <1>3 DEF Owns, Writing, On
  <2>2. OwnValues(c)' = OwnValues(c)
    BY <1>3, SameOwnValues DEF Writing, On
  <2>3. ASSUME call'[c].alone, NEW row \in rows', row[Key] = old[Key]
        PROVE  row = Stored(Meta, old, OwnValues(c))
    <3>1. old \in rows /\ old \in found
      BY <1>3
    <3> HIDE DEF old
    <3>2. row \notin rows \ found
      BY <2>3, <3>1 DEF SoundTable
    <3>3. PICK was \in found : row = Stored(Meta, was, bound.validated)
      BY <1>3, <3>2
    <3>4. row[Key] = was[Key] /\ was \in rows
      BY <3>3, StoredKeepsKey DEF SoundTable
    <3>5. was = old
      BY <2>3, <3>1, <3>4 DEF SoundTable
    <3>6. bound.validated = OwnValues(c)
      BY <1>1, <2>3 DEF Owns
    <3> QED BY <3>3, <3>5, <3>6
  <2>4. call'[c].alone => HoldsOwn(c)'
    BY <2>1, <2>2, <2>3 DEF HoldsOwn
  <2>5. call'[c].pc = "answered"
    BY <1>3 DEF Writing, On
  <2> QED BY <2>4, <2>5 DEF Owns
<1> QED BY <1>1, <1>2, <1>3, UpdateRowStep

LEMMA StepOwns ==
    ASSUME NamesDiffer, Shape, SoundTable, Validated, NEW c \in Clients, Owns(c), Told(c), ClientNext(c) PROVE Owns(c)'
<1>1. Calls
  BY DEF Shape
<1>2. ASSUME NEW req \in Wishes(c), Ask(c, req) PROVE Owns(c)'
  <2>1. Arrives(c, req)
    BY <1>1, <1>2, WishesAreRequests, AskStep
  <2>2. call'[c].pc \in {"answered", "render", "count", "rows", "bind", "object"} /\ ~call'[c].wrote
    BY <2>1, BegunStarts DEF Arrives
  <2> QED BY <2>2, NothingToOwn DEF Succeeded
<1>3. CASE Leave(c)
  BY <1>1, <1>3, LeaveStep, FreshFields, NothingToOwn DEF Succeeded
<1>4. CASE Render(c)
  BY <1>4, RenderStep, NothingToOwn DEF Succeeded
<1>5. CASE Show(c)
  BY <1>1, <1>5, ShowStep, NothingToOwn DEF Turns, On, Told, Succeeded
<1>6. CASE Count(c)
  BY <1>1, <1>6, CountStep, NothingToOwn DEF Turns, On, Succeeded
<1>7. CASE Rows(c)
  BY <1>1, <1>7, RowsStep, UnwrittenOwnsNothing
<1>8. CASE GetObject(c)
  <2>1. ASSUME NEW row \in rows, Gets(c, row) PROVE Owns(c)'
    BY <2>1, NothingToOwn DEF Gets, On, Succeeded
  <2> QED BY <1>1, <1>8, <2>1, GetObjectStep, UnwrittenOwnsNothing
<1>9. CASE DatabaseFails(c)
  BY <1>1, <1>9, DatabaseFailsStep, UnwrittenOwnsNothing
<1>10. CASE StartBind(c)
  BY <1>1, <1>10, StartBindOwns
<1>11. CASE BindField(c)
  BY <1>11, BindFieldOwns
<1>12. CASE FinishBind(c)
  BY <1>12, FinishBindOwns
<1>13. CASE Created(c)
  BY <1>1, <1>13, CreatedOwns
<1>14. CASE Assign(c)
  BY <1>1, <1>14, AssignOwns
<1>15. ASSUME NEW how, Insert(c, how) PROVE Owns(c)'
  BY <1>15, InsertOwns
<1>16. ASSUME NEW how, UpdateRow(c, how) PROVE Owns(c)'
  BY <1>16, UpdateOwns
<1>17. ASSUME NEW how, DeleteRow(c, how) PROVE Owns(c)'
  <2>1. CASE Writing(c, {204})
    BY <2>1, FailedOwnsNothing
  <2> QED BY <1>1, <1>17, <2>1, DeleteRowStep, UnwrittenOwnsNothing
<1> QED BY <1>2, <1>3, <1>4, <1>5, <1>6, <1>7, <1>8, <1>9, <1>10, <1>11, <1>12, <1>13, <1>14, <1>15, <1>16, <1>17, ClientSteps

\* What a request stores is what its body says, if no other has used the serializer
\* since it began to bind: whatever was left in it, whoever reads, and whatever the
\* database answers (serializer.go:282, views.go:96).
THEOREM OwnDataIsStoredAlways ==
    ASSUME KeyIsReadOnly, NamesDiffer PROVE SiteSpec => []OwnDataIsStored
<1> DEFINE Inv == \A d \in Clients : Owns(d) /\ Told(d)
<1>1. SiteInit => Inv
  <2>1. Fresh.alone = FALSE
    BY DEF Fresh
  <2> QED BY <2>1, FreshFields DEF SiteInit, Owns, Told
<1>2. Shape /\ TableHolds /\ Inv /\ [SiteNext]_vars => Inv'
  <2> SUFFICES ASSUME Shape, SoundTable, Validated, Inv, [SiteNext]_vars, NEW d \in Clients PROVE Owns(d)' /\ Told(d)'
    BY DEF TableHolds
  <2>1. ASSUME UNCHANGED <<rows, bound, call>> PROVE Owns(d)' /\ Told(d)'
    <3>1. OwnValues(d)' = OwnValues(d) /\ Partial(d)' = Partial(d)
      BY <2>1, SameOwnValues
    <3>2. Collecting(d)' = Collecting(d) /\ OnlyBinder(d)' = OnlyBinder(d) /\ HoldsOwn(d)' = HoldsOwn(d)
      BY <2>1, <3>1 DEF Collecting, OnlyBinder, HoldsOwn
    <3> QED BY <2>1, <3>1, <3>2 DEF Owns, Succeeded, Told
  <2>2. CASE Starting \/ Listen \/ MapWritesCollide
    BY <2>1, <2>2, OtherSteps
  <2>3. ASSUME NEW c \in Clients, ClientNext(c) PROVE Owns(d)' /\ Told(d)'
    <3>1. CASE d = c
      BY <2>3, <3>1, StepOwns, StepTold
    <3>2. CASE d # c
      BY <2>3, <3>2, OthersLeaveOwns, ClientOnly DEF Only, Kept, Told
    <3> QED BY <3>1, <3>2
  <2>4. CASE UNCHANGED vars
    BY <2>1, <2>4 DEF vars, siteVars
  <2> QED BY <2>2, <2>3, <2>4 DEF SiteNext
<1>3. Inv => OwnDataIsStored
  <2> SUFFICES ASSUME NEW c \in Clients, Owns(c), Status(c) \in {200, 201}, call[c].wrote, call[c].alone,
                      NEW row \in rows, row[Key] = call[c].before[Key]
               PROVE  row = Stored(Meta, IF call[c].action = "create" THEN [Blank EXCEPT ![Key] = row[Key]]
                                         ELSE call[c].before, OwnValues(c))
    BY DEF OwnDataIsStored
  <2>1. Succeeded(c)
    BY DEF Status, Succeeded
  <2>2. HoldsOwn(c)
    BY <2>1 DEF Owns
  <2> QED BY <2>2, BlankRows DEF HoldsOwn
<1> QED BY <1>1, <1>2, <1>3, ShapeHolds, TableAlways, PTL DEF SiteSpec

-----------------------------------------------------------------------------
(* Templates: what a set holds while and after it is filled.               *)

\* The files are a sequence, one directory after the other.
LEMMA FilesAreSequence ==
    ASSUME NEW labels \in Seq(Labels) PROVE Files(labels) \in Seq(TemplateFile)
<1> DEFINE V == Seq(TemplateFile)
           dirs == templateDirs(labels)
           N == Len(dirs)
           F == [k \in 1..N |-> [v \in V |-> v \o dirs[k]]]
           Joining(f) == f = [i \in 0..N |-> IF i = 0 THEN <<>> ELSE f[i - 1] \o dirs[i]]
           joined == CHOOSE f : Joining(f)
<1>1. Files(labels) = joined[N]
  BY DEF Files
<1>2. dirs \in Seq(V)
  <2>1. EngineDirs \in Seq(V)
    BY TemplatesAssumption
  <2>2. labels \in [1..Len(labels) -> Labels] /\ Len(labels) \in Nat
    OBVIOUS
  <2>3. [i \in DOMAIN labels |-> AppDirs[labels[i]]] \in Seq(V)
    <3>1. \A i \in 1..Len(labels) : AppDirs[labels[i]] \in V
      BY <2>2, TemplatesAssumption, ClientsAssumption
    <3>2. DOMAIN labels = 1..Len(labels)
      BY <2>2
    <3> HIDE DEF V
    <3>3. [i \in 1..Len(labels) |-> AppDirs[labels[i]]] \in [1..Len(labels) -> V]
      BY <3>1
    <3> QED BY <2>2, <3>2, <3>3, IsASeq
  <2> HIDE DEF V
  <2> QED BY <2>1, <2>3, ConcatProperties DEF templateDirs
<1>3. N \in Nat /\ \A k \in 1..N : dirs[k] \in V
  <2> HIDE DEF V, dirs
  <2> QED BY <1>2 DEF N
<1>4. <<>> \in V /\ \A k \in 1..N, v \in V : v \o dirs[k] \in V
  BY <1>3
<1> HIDE DEF V, dirs, N
<1>5. F \in [1..N -> [V -> V]] /\ \A k \in 1..N, v \in V : F[k][v] = v \o dirs[k]
  BY <1>4
<1> HIDE DEF F
<1>6. \E f : Joining(f)
  <2>1. PICK f : Built(N, V, <<>>, F, f)
    BY <1>3, <1>4, <1>5, StepByStep
  <2>2. \A k \in 0..N : k = 0 \/ (k \in 1..N /\ k - 1 \in 0..N)
    BY <1>3
  <2>3. \A k \in 0..N : f[k] = IF k = 0 THEN <<>> ELSE f[k - 1] \o dirs[k]
    BY <1>5, <2>1, <2>2 DEF Built
  <2>4. f = [k \in 0..N |-> f[k]]
    BY <2>1 DEF Built
  <2>5. f = [i \in 0..N |-> IF i = 0 THEN <<>> ELSE f[i - 1] \o dirs[i]]
    BY <2>3, <2>4
  <2> QED BY <2>5
<1>7. Joining(joined)
  BY <1>6
<1> HIDE DEF joined
<1>8. joined[0] = <<>> /\ \A k \in 1..N : joined[k] = joined[k - 1] \o dirs[k]
  <2>1. 0 \in 0..N /\ \A k \in 1..N : k \in 0..N /\ k # 0
    BY <1>3
  <2> QED BY <1>7, <2>1
<1> DEFINE T == {k \in 0..N : joined[k] \in V}
<1>9. 0 \in T
  BY <1>3, <1>4, <1>8
<1>10. ASSUME NEW k \in 0..N, k < N, k \in T PROVE k + 1 \in T
  <2>1. k + 1 \in 1..N /\ k + 1 \in 0..N /\ (k + 1) - 1 = k
    BY <1>3, <1>10
  <2> QED BY <1>4, <1>8, <1>10, <2>1
<1> HIDE DEF T
<1>11. 0..N \subseteq T
  BY <1>3, <1>9, <1>10, UpTo
<1>12. N \in T
  BY <1>3, <1>11
<1> QED BY <1>1, <1>12 DEF T, V

\* What a name stands for after the first k files, and after the next one too has
\* been parsed under its path.
MeantBy(f, k, n, t) ==
    \/ \E i \in 1..k : f[i].name = n /\ t = f[i] /\ \A j \in 1..k : f[j].name = n => j <= i
    \/ /\ \A j \in 1..k : f[j].name # n
       /\ \E i \in 1..k : f[i].base = n /\ t = f[i] /\ \A j \in 1..k : f[j].base = n => i <= j

Both(f, k, texts) == \A i \in 1..k : f[i].name \in DOMAIN texts /\ f[i].base \in DOMAIN texts

Parsed(f, k, texts) == Both(f, k, texts) /\ \A n \in DOMAIN texts : MeantBy(f, k, n, texts[n])

Named(f, k, texts) ==
    /\ Both(f, k, texts)
    /\ f[k + 1].name \in DOMAIN texts /\ texts[f[k + 1].name] = f[k + 1]
    /\ \A n \in DOMAIN texts \ {f[k + 1].name} : MeantBy(f, k, n, texts[n])

Adding(texts, name, text) == [n \in DOMAIN texts \cup {name} |-> IF n = name THEN text ELSE texts[n]]

LEMMA NothingParsed == ASSUME NEW f PROVE Parsed(f, 0, <<>>)
BY DEF Parsed, Both

LEMMA NameParsed ==
    ASSUME NEW f, NEW k \in Nat, NEW texts, Parsed(f, k, texts)
    PROVE  Named(f, k, Adding(texts, f[k + 1].name, f[k + 1]))
<1> DEFINE new == Adding(texts, f[k + 1].name, f[k + 1])
<1>1. /\ DOMAIN new = DOMAIN texts \cup {f[k + 1].name} /\ new[f[k + 1].name] = f[k + 1]
      /\ \A n \in DOMAIN texts \ {f[k + 1].name} : new[n] = texts[n]
  BY DEF Adding
<1> HIDE DEF new
<1>2. Both(f, k, new)
  BY <1>1 DEF Parsed, Both
<1>3. ASSUME NEW n \in DOMAIN new \ {f[k + 1].name} PROVE MeantBy(f, k, n, new[n])
  <2>1. n \in DOMAIN texts /\ new[n] = texts[n]
    BY <1>1
  <2> QED BY <2>1 DEF Parsed
<1> QED BY <1>1, <1>2, <1>3 DEF Named, new

\* A name that is not the next file's goes on to mean what it meant.
LEMMA MeantStays ==
    ASSUME NEW f, NEW k \in Nat, NEW n, NEW t, f[k + 1].name # n, MeantBy(f, k, n, t)
    PROVE  MeantBy(f, k + 1, n, t)
<1>0. \A i \in 1..(k + 1) : i \in 1..k \/ i = k + 1
  OBVIOUS
<1>00. \A i \in 1..k : i \in 1..(k + 1) /\ i <= k + 1
  OBVIOUS
<1>1. CASE \E i \in 1..k : f[i].name = n /\ t = f[i] /\ \A j \in 1..k : f[j].name = n => j <= i
  BY <1>0, <1>00, <1>1 DEF MeantBy
<1>2. CASE /\ \A j \in 1..k : f[j].name # n
           /\ \E i \in 1..k : f[i].base = n /\ t = f[i] /\ \A j \in 1..k : f[j].base = n => i <= j
  BY <1>0, <1>00, <1>2 DEF MeantBy
<1> QED BY <1>1, <1>2 DEF MeantBy

LEMMA NextNamed ==
    ASSUME NEW f, NEW k \in Nat PROVE MeantBy(f, k + 1, f[k + 1].name, f[k + 1])
BY DEF MeantBy

LEMMA BaseIsThere ==
    ASSUME NEW f, NEW k \in Nat, NEW texts, Named(f, k, texts), f[k + 1].base \in DOMAIN texts
    PROVE  Parsed(f, k + 1, texts)
<1>1. \A i \in 1..(k + 1) : i \in 1..k \/ i = k + 1
  OBVIOUS
<1>2. Both(f, k + 1, texts)
  BY <1>1 DEF Named, Both
<1>3. ASSUME NEW n \in DOMAIN texts PROVE MeantBy(f, k + 1, n, texts[n])
  <2>1. CASE n = f[k + 1].name
    BY <2>1, NextNamed DEF Named
  <2>2. CASE n # f[k + 1].name
    BY <2>2, MeantStays DEF Named
  <2> QED BY <2>1, <2>2
<1> QED BY <1>2, <1>3 DEF Parsed

LEMMA BaseAdded ==
    ASSUME NEW f, NEW k \in Nat, NEW texts, Named(f, k, texts), f[k + 1].base \notin DOMAIN texts
    PROVE  Parsed(f, k + 1, Adding(texts, f[k + 1].base, f[k + 1]))
<1> DEFINE base == f[k + 1].base
           new == Adding(texts, base, f[k + 1])
<1>1. /\ DOMAIN new = DOMAIN texts \cup {base} /\ new[base] = f[k + 1]
      /\ \A n \in DOMAIN texts \ {base} : new[n] = texts[n]
  BY DEF Adding
<1> HIDE DEF new
<1>2. \A i \in 1..(k + 1) : i \in 1..k \/ i = k + 1
  OBVIOUS
<1>3. Both(f, k + 1, new)
  BY <1>1, <1>2 DEF Named, Both
<1>4. ASSUME NEW n \in DOMAIN texts PROVE MeantBy(f, k + 1, n, new[n])
  <2>1. new[n] = texts[n]
    BY <1>1
  <2>2. CASE n = f[k + 1].name
    BY <2>1, <2>2, NextNamed DEF Named
  <2>3. CASE n # f[k + 1].name
    BY <2>1, <2>3, MeantStays DEF Named
  <2> QED BY <2>2, <2>3
<1>5. MeantBy(f, k + 1, base, f[k + 1])
  <2>1. \A j \in 1..k : f[j].name # base /\ f[j].base # base
    BY DEF Named, Both
  <2>2. f[k + 1].name # base
    BY DEF Named
  <2>3. k + 1 \in 1..(k + 1) /\ \A j \in 1..(k + 1) : f[j].base = base => k + 1 <= j
    BY <1>2, <2>1
  <2> QED BY <1>2, <2>1, <2>2, <2>3 DEF MeantBy
<1>6. ASSUME NEW n \in DOMAIN new PROVE MeantBy(f, k + 1, n, new[n])
  <2>1. CASE n = base
    BY <1>1, <1>5, <2>1
  <2>2. CASE n # base
    BY <1>1, <1>4, <2>2
  <2> QED BY <2>1, <2>2
<1> QED BY <1>3, <1>6 DEF Parsed, new

\* When all files are parsed a name stands for what is meant.
LEMMA AllParsed ==
    ASSUME NEW f \in Seq(TemplateFile), NEW texts, Parsed(f, Len(f), texts), NEW name
    PROVE  (IF name \in DOMAIN texts THEN texts[name] ELSE Incomplete) = Meant(f, name)
<1> DEFINE named == {i \in DOMAIN f : f[i].name = name}
           based == {i \in DOMAIN f : f[i].base = name}
<1>1. DOMAIN f = 1..Len(f) /\ Len(f) \in Nat
  OBVIOUS
<1>2. Meant(f, name) = IF named # {} THEN f[CHOOSE i \in named : \A j \in named : i >= j]
                       ELSE IF based # {} THEN f[CHOOSE i \in based : \A j \in based : i <= j]
                       ELSE Incomplete
  BY DEF Meant
<1>3. named \subseteq Nat /\ based \subseteq Nat
  BY <1>1
<1>4. CASE name \notin DOMAIN texts
  BY <1>1, <1>2, <1>4 DEF Parsed, Both
<1>5. CASE name \in DOMAIN texts /\ \E i \in 1..Len(f) : f[i].name = name /\ texts[name] = f[i] /\ \A j \in 1..Len(f) : f[j].name = name => j <= i
  <2>1. PICK i \in 1..Len(f) : f[i].name = name /\ texts[name] = f[i] /\ \A j \in 1..Len(f) : f[j].name = name => j <= i
    BY <1>5
  <2>2. i \in named /\ \A j \in named : i >= j
    BY <1>1, <2>1
  <2>3. \A m \in named : (\A j \in named : m >= j) => m = i
    BY <1>3, <2>2
  <2> HIDE DEF named, based
  <2>4. (CHOOSE m \in named : \A j \in named : m >= j) = i
    BY <2>2, <2>3
  <2> QED BY <1>2, <1>5, <2>1, <2>2, <2>4
<1>6. CASE /\ name \in DOMAIN texts /\ \A j \in 1..Len(f) : f[j].name # name
           /\ \E i \in 1..Len(f) : f[i].base = name /\ texts[name] = f[i] /\ \A j \in 1..Len(f) : f[j].base = name => i <= j
  <2>1. PICK i \in 1..Len(f) : f[i].base = name /\ texts[name] = f[i] /\ \A j \in 1..Len(f) : f[j].base = name => i <= j
    BY <1>6
  <2>2. i \in based /\ \A j \in based : i <= j
    BY <1>1, <2>1
  <2>3. \A m \in based : (\A j \in based : m <= j) => m = i
    BY <1>3, <2>2
  <2>4. named = {}
    BY <1>1, <1>6
  <2> HIDE DEF named, based
  <2>5. (CHOOSE m \in based : \A j \in based : m <= j) = i
    BY <2>2, <2>3
  <2> QED BY <1>2, <1>6, <2>1, <2>2, <2>4, <2>5
<1> QED BY <1>4, <1>5, <1>6 DEF Parsed, MeantBy

\* The loads that nothing disturbs: nobody has loaded; one goroutine alone makes the
\* set, and has parsed so many of the files; or the set is there.
Left(c, f, k) ==
    /\ Len(loader[c].files) = Len(f) - k
    /\ \A i \in 1..(Len(f) - k) : loader[c].files[i] = f[k + i]
Others(c) == \A d \in Readers \ {c} : loader[d].at = "check"
Filling(c, f) ==
    \E k \in 0..Len(f) :
        /\ Left(c, f, k) /\ templates.made /\ ~templates.escaped
        /\ \/ loader[c].at = "name" /\ Parsed(f, k, templates.texts)
           \/ loader[c].at = "base" /\ k < Len(f) /\ Named(f, k, templates.texts)
Full(f) ==
    /\ templates.made /\ Parsed(f, Len(f), templates.texts)
    /\ \A c \in Readers : loader[c].at \in {"check", "execute"}
Clean(f) ==
    \/ ~templates.made /\ \A c \in Readers : loader[c].at = "check"
    \/ \E c \in Readers : Others(c) /\ (loader[c].at = "load" \/ Filling(c, f))
    \/ Full(f)

LoaderTyped ==
    /\ DOMAIN loader = Readers
    /\ \A c \in Readers :
          /\ DOMAIN loader[c] = {"at", "files"} /\ loader[c].files \in Seq(TemplateFile)
          /\ loader[c].at = "base" => loader[c].files # <<>>
    /\ DOMAIN templates = {"made", "texts", "escaped"}

\* c moves on in Render.
Moves(c, at, files) ==
    /\ DOMAIN loader' = Readers /\ \A d \in Readers \ {c} : loader'[d] = loader[d]
    /\ loader'[c].at = at /\ loader'[c].files = files /\ DOMAIN loader'[c] = {"at", "files"}

LEMMA AtMoves ==
    ASSUME LoaderTyped, NEW c \in Readers, NEW at, loader' = [loader EXCEPT ![c].at = at]
    PROVE  Moves(c, at, loader[c].files)
<1> DEFINE now == [loader[c] EXCEPT !.at = at]
<1>1. now.at = at /\ now.files = loader[c].files /\ DOMAIN now = {"at", "files"}
  BY DEF LoaderTyped
<1>2. loader' = [loader EXCEPT ![c] = now]
  BY DEF LoaderTyped
<1> HIDE DEF now
<1> QED BY <1>1, <1>2 DEF Moves, LoaderTyped

LEMMA RecordMoves ==
    ASSUME LoaderTyped, NEW c \in Readers, NEW at, NEW files, loader' = [loader EXCEPT ![c] = [at |-> at, files |-> files]]
    PROVE  Moves(c, at, files)
BY DEF Moves, LoaderTyped

LEMMA MovesTyped ==
    ASSUME LoaderTyped, NEW c \in Readers, NEW at, NEW files \in Seq(TemplateFile), Moves(c, at, files),
           at = "base" => files # <<>>, DOMAIN templates' = {"made", "texts", "escaped"}
    PROVE  LoaderTyped'
<1>1. ASSUME NEW d \in Readers
      PROVE  /\ DOMAIN loader'[d] = {"at", "files"} /\ loader'[d].files \in Seq(TemplateFile)
             /\ loader'[d].at = "base" => loader'[d].files # <<>>
  <2>1. CASE d = c
    BY <2>1 DEF Moves
  <2>2. CASE d # c
    BY <2>2 DEF Moves, LoaderTyped
  <2> QED BY <2>1, <2>2
<1>2. DOMAIN loader' = Readers
  BY DEF Moves
<1> QED BY <1>1, <1>2 DEF LoaderTyped

\* What New and Parse make of a set.
LEMMA AddedTexts ==
    ASSUME NEW set, DOMAIN set = {"made", "texts", "escaped"}, NEW name, NEW file, ~set.escaped
    PROVE  LET new == Added(set, name, file) IN
           /\ DOMAIN new = {"made", "texts", "escaped"} /\ new.made = set.made /\ new.escaped = set.escaped
           /\ new.texts = Adding(set.texts, name, file)
BY DEF Added, Holding, Adding

LEMMA AddedTyped ==
    ASSUME NEW set, DOMAIN set = {"made", "texts", "escaped"}, NEW name, NEW text
    PROVE  DOMAIN Holding(set, name, text) = {"made", "texts", "escaped"}
BY DEF Holding

\* The first of the files that are left.
LEMMA NextFile ==
    ASSUME NEW f \in Seq(TemplateFile), NEW k \in 0..Len(f), NEW c \in Readers, LoaderTyped, Left(c, f, k), loader[c].files # <<>>
    PROVE  /\ k < Len(f) /\ Head(loader[c].files) = f[k + 1] /\ Tail(loader[c].files) \in Seq(TemplateFile)
           /\ Len(Tail(loader[c].files)) = Len(f) - (k + 1)
           /\ \A i \in 1..(Len(f) - (k + 1)) : Tail(loader[c].files)[i] = f[(k + 1) + i]
<1>a. SUFFICES ASSUME NEW files \in Seq(TemplateFile), files # <<>>, Len(files) = Len(f) - k,
                      \A i \in 1..(Len(f) - k) : files[i] = f[k + i]
               PROVE  /\ k < Len(f) /\ Head(files) = f[k + 1] /\ Tail(files) \in Seq(TemplateFile)
                      /\ Len(Tail(files)) = Len(f) - (k + 1)
                      /\ \A i \in 1..(Len(f) - (k + 1)) : Tail(files)[i] = f[(k + 1) + i]
  BY DEF LoaderTyped, Left
<1>1. Len(files) \in Nat /\ Len(files) > 0 /\ Len(f) \in Nat /\ k \in Nat
  BY <1>a
<1>2. Head(files) = files[1] /\ Tail(files) \in Seq(TemplateFile) /\ Len(Tail(files)) = Len(files) - 1
      /\ \A i \in 1..(Len(files) - 1) : Tail(files)[i] = files[i + 1]
  BY <1>a, <1>1
<1>3. k < Len(f) /\ Head(files) = f[k + 1]
  BY <1>a, <1>1, <1>2
<1>4. ASSUME NEW i \in 1..(Len(f) - (k + 1)) PROVE Tail(files)[i] = f[(k + 1) + i]
  <2>1. i \in 1..(Len(files) - 1) /\ i + 1 \in 1..(Len(f) - k) /\ k + (i + 1) = (k + 1) + i
    BY <1>a, <1>1
  <2> QED BY <1>a, <1>2, <2>1
<1> QED BY <1>a, <1>1, <1>2, <1>3, <1>4

\* One that renders alone is the only one that is not at the beginning.
LEMMA WhoFills ==
    ASSUME NEW f, Clean(f), NEW c \in Readers, loader[c].at \in {"load", "name", "base", "failed"}
    PROVE  Others(c) /\ loader[c].at # "failed" /\ (loader[c].at # "load" => Filling(c, f))
<1>1. PICK d \in Readers : Others(d) /\ (loader[d].at = "load" \/ Filling(d, f))
  BY DEF Clean, Full
<1>2. d = c
  BY <1>1 DEF Others
<1>3. loader[c].at # "failed"
  BY <1>1, <1>2 DEF Filling
<1> QED BY <1>1, <1>2, <1>3 DEF Filling

LEMMA FillingGoesOn ==
    ASSUME NEW f \in Seq(TemplateFile), NEW k \in 0..Len(f), NEW c \in Readers, Others(c), NEW at, NEW files, Moves(c, at, files),
           Len(files) = Len(f) - k, \A i \in 1..(Len(f) - k) : files[i] = f[k + i],
           templates'.made, ~templates'.escaped,
           \/ at = "name" /\ Parsed(f, k, templates'.texts)
           \/ at = "base" /\ k < Len(f) /\ Named(f, k, templates'.texts)
    PROVE  Clean(f)'
<1>1. Others(c)'
  BY DEF Others, Moves
<1>2. Left(c, f, k)'
  BY DEF Left, Moves
<1>3. Filling(c, f)'
  BY <1>2 DEF Filling, Moves
<1> QED BY <1>1, <1>3 DEF Clean

LEMMA CheckStep ==
    ASSUME NEW f \in Seq(TemplateFile), LoaderTyped, NEW c \in Readers, CheckLoaded(c)
    PROVE  LoaderTyped' /\ (Clean(f) /\ ~disturbed' => Clean(f)')
<1> DEFINE at == IF templates.made THEN "execute" ELSE "load"
<1>1. loader' = [loader EXCEPT ![c].at = at] /\ loader[c].at = "check" /\ templates' = templates
      /\ (~disturbed' => Loading = {})
  BY DEF CheckLoaded
<1>2. at = "execute" \/ at = "load"
  OBVIOUS
<1>3. (templates.made => at = "execute") /\ (~templates.made => at = "load")
  OBVIOUS
<1> HIDE DEF at
<1>4. Moves(c, at, loader[c].files)
  BY <1>1, AtMoves
<1>5. LoaderTyped'
  BY <1>1, <1>2, <1>4, MovesTyped DEF LoaderTyped
<1>6. ASSUME Clean(f), ~disturbed' PROVE Clean(f)'
  <2>1. \A d \in Readers : loader[d].at \notin {"load", "name", "base"}
    BY <1>1, <1>6 DEF Loading
  <2>2. ~\E d \in Readers : loader[d].at = "load" \/ Filling(d, f)
    BY <2>1 DEF Filling
  <2>3. CASE ~templates.made /\ \A d \in Readers : loader[d].at = "check"
    <3>1. at = "load" /\ Others(c)'
      BY <1>3, <1>4, <2>3 DEF Others, Moves
    <3> QED BY <1>4, <3>1 DEF Clean, Moves
  <2>4. CASE Full(f)
    <3>1. at = "execute"
      BY <1>3, <2>4 DEF Full
    <3>2. \A d \in Readers : loader'[d].at \in {"check", "execute"}
      BY <1>4, <2>4, <3>1 DEF Full, Moves
    <3>3. Full(f)'
      BY <1>1, <2>4, <3>2 DEF Full
    <3> QED BY <3>3 DEF Clean
  <2> QED BY <1>6, <2>2, <2>3, <2>4 DEF Clean
<1> QED BY <1>5, <1>6

LEMMA LoadStarts ==
    ASSUME NEW labels, NEW f \in Seq(TemplateFile), f = Files(labels), LoaderTyped, NEW c \in Readers, Load(c, labels)
    PROVE  LoaderTyped' /\ (Clean(f) => Clean(f)')
<1>1. loader' = [loader EXCEPT ![c] = [at |-> "name", files |-> f]] /\ loader[c].at = "load"
      /\ templates' = [made |-> TRUE, texts |-> <<>>, escaped |-> FALSE]
  BY DEF Load, Unloaded
<1>2. Moves(c, "name", f)
  BY <1>1, RecordMoves
<1>3. LoaderTyped'
  BY <1>1, <1>2, MovesTyped
<1>4. ASSUME Clean(f) PROVE Clean(f)'
  <2>1. Others(c)
    BY <1>1, <1>4, WhoFills
  <2>2. 0 \in 0..Len(f) /\ Len(f) = Len(f) - 0 /\ \A i \in 1..(Len(f) - 0) : f[i] = f[0 + i]
    OBVIOUS
  <2>3. templates'.made /\ ~templates'.escaped /\ templates'.texts = <<>>
    BY <1>1
  <2>4. Parsed(f, 0, templates'.texts)
    BY <2>3, NothingParsed
  <2> QED BY <1>2, <2>1, <2>2, <2>3, <2>4, FillingGoesOn
<1> QED BY <1>3, <1>4

LEMMA NameStep ==
    ASSUME NEW f \in Seq(TemplateFile), LoaderTyped, NEW c \in Readers, ParseName(c)
    PROVE  LoaderTyped' /\ (Clean(f) => Clean(f)')
<1> DEFINE at == IF templates.escaped THEN "failed" ELSE "base"
           file == Head(loader[c].files)
<1>1. loader' = [loader EXCEPT ![c].at = at] /\ loader[c].at = "name" /\ loader[c].files # <<>>
      /\ templates' = Added(templates, file.name, file)
  BY DEF ParseName
<1>2. ~templates.escaped => at = "base"
  OBVIOUS
<1> HIDE DEF at
<1>3. Moves(c, at, loader[c].files)
  BY <1>1, AtMoves
<1>4. DOMAIN templates' = {"made", "texts", "escaped"}
  BY <1>1, AddedTyped DEF Added, LoaderTyped
<1>5. LoaderTyped'
  BY <1>1, <1>3, <1>4, MovesTyped DEF LoaderTyped
<1>6. ASSUME Clean(f) PROVE Clean(f)'
  <2>1. Others(c) /\ Filling(c, f)
    BY <1>1, <1>6, WhoFills
  <2>2. PICK k \in 0..Len(f) : Left(c, f, k) /\ templates.made /\ ~templates.escaped /\ Parsed(f, k, templates.texts)
    BY <1>1, <2>1 DEF Filling
  <2>3. k < Len(f) /\ file = f[k + 1] /\ k \in Nat
    BY <1>1, <2>2, NextFile
  <2> HIDE DEF file
  <2>4. templates'.made /\ ~templates'.escaped /\ templates'.texts = Adding(templates.texts, f[k + 1].name, f[k + 1])
    BY <1>1, <2>2, <2>3, AddedTexts DEF LoaderTyped
  <2>5. Named(f, k, templates'.texts)
    BY <2>2, <2>3, <2>4, NameParsed
  <2>6. at = "base" /\ Len(loader[c].files) = Len(f) - k /\ \A i \in 1..(Len(f) - k) : loader[c].files[i] = f[k + i]
    BY <1>2, <2>2 DEF Left
  <2> QED BY <1>3, <2>1, <2>3, <2>4, <2>5, <2>6, FillingGoesOn
<1> QED BY <1>5, <1>6

LEMMA BaseStep ==
    ASSUME NEW f \in Seq(TemplateFile), LoaderTyped, NEW c \in Readers, ParseBase(c)
    PROVE  LoaderTyped' /\ (Clean(f) => Clean(f)')
<1> DEFINE file == Head(loader[c].files)
           rest == Tail(loader[c].files)
           on == loader' = [loader EXCEPT ![c] = [at |-> "name", files |-> rest]]
           there == file.base \in DOMAIN templates.texts
<1>1. /\ loader[c].at = "base"
      /\ there => on /\ templates' = templates
      /\ ~there => /\ templates' = Added(templates, file.base, file)
                   /\ ~templates.escaped => on
                   /\ templates.escaped => loader' = [loader EXCEPT ![c].at = "failed"]
  BY DEF ParseBase, LoaderTyped
<1>2. loader[c].files # <<>> /\ rest \in Seq(TemplateFile)
  BY <1>1 DEF LoaderTyped
<1>3. on => Moves(c, "name", rest)
  BY RecordMoves
<1>4. loader' = [loader EXCEPT ![c].at = "failed"] => Moves(c, "failed", loader[c].files)
  BY AtMoves
<1> HIDE DEF file, rest, on, there
<1>5. DOMAIN templates' = {"made", "texts", "escaped"}
  BY <1>1, AddedTyped DEF Added, LoaderTyped
<1>6. Moves(c, "name", rest) \/ Moves(c, "failed", loader[c].files)
  BY <1>1, <1>3, <1>4
<1>7. LoaderTyped'
  BY <1>2, <1>5, <1>6, MovesTyped DEF LoaderTyped
<1>8. ASSUME Clean(f) PROVE Clean(f)'
  <2>1. Others(c) /\ Filling(c, f)
    BY <1>1, <1>8, WhoFills
  <2>2. PICK k \in 0..Len(f) : Left(c, f, k) /\ templates.made /\ ~templates.escaped /\ Named(f, k, templates.texts)
    BY <1>1, <2>1 DEF Filling
  <2>3. /\ k < Len(f) /\ file = f[k + 1] /\ k \in Nat /\ k + 1 \in 0..Len(f)
        /\ Len(rest) = Len(f) - (k + 1) /\ \A i \in 1..(Len(f) - (k + 1)) : rest[i] = f[(k + 1) + i]
    BY <1>2, <2>2, NextFile DEF file, rest
  <2>4. Moves(c, "name", rest)
    BY <1>1, <1>3, <2>2
  <2>5. templates'.made /\ ~templates'.escaped /\ Parsed(f, k + 1, templates'.texts)
    <3>1. CASE there
      <4>1. Parsed(f, k + 1, templates.texts)
        BY <2>2, <2>3, <3>1, BaseIsThere DEF there
      <4> QED BY <1>1, <2>2, <3>1, <4>1
    <3>2. CASE ~there
      <4>1. /\ templates'.made /\ ~templates'.escaped
            /\ templates'.texts = Adding(templates.texts, f[k + 1].base, f[k + 1])
        BY <1>1, <2>2, <2>3, <3>2, AddedTexts DEF LoaderTyped
      <4>2. Parsed(f, k + 1, Adding(templates.texts, f[k + 1].base, f[k + 1]))
        BY <2>2, <2>3, <3>2, BaseAdded DEF there
      <4> QED BY <4>1, <4>2
    <3> QED BY <3>1, <3>2
  <2> QED BY <2>1, <2>3, <2>4, <2>5, FillingGoesOn
<1> QED BY <1>7, <1>8

LEMMA FailStep ==
    ASSUME LoaderTyped, NEW c \in Readers, FileFails(c) PROVE LoaderTyped' /\ disturbed'
<1>1. loader' = [loader EXCEPT ![c].at = "failed"] /\ disturbed'
      /\ (templates' = templates \/ templates' = Holding(templates, Head(loader[c].files).name, Incomplete))
  BY DEF FileFails
<1>2. DOMAIN templates' = {"made", "texts", "escaped"}
  BY <1>1, AddedTyped DEF LoaderTyped
<1>3. Moves(c, "failed", loader[c].files)
  BY <1>1, AtMoves
<1> QED BY <1>1, <1>2, <1>3, MovesTyped DEF LoaderTyped

LEMMA EndStep ==
    ASSUME NEW f \in Seq(TemplateFile), LoaderTyped, NEW c \in Readers, EndLoad(c)
    PROVE  LoaderTyped' /\ (Clean(f) => Clean(f)')
<1>1. loader' = [loader EXCEPT ![c].at = "execute"] /\ loader[c].at = "name" /\ loader[c].files = <<>> /\ templates' = templates
  BY DEF EndLoad
<1>2. Moves(c, "execute", loader[c].files)
  BY <1>1, AtMoves
<1>3. LoaderTyped'
  BY <1>1, <1>2, MovesTyped DEF LoaderTyped
<1>4. ASSUME Clean(f) PROVE Clean(f)'
  <2>1. Others(c) /\ Filling(c, f)
    BY <1>1, <1>4, WhoFills
  <2>2. PICK k \in 0..Len(f) : Left(c, f, k) /\ templates.made /\ Parsed(f, k, templates.texts)
    BY <1>1, <2>1 DEF Filling
  <2>3. k = Len(f)
    BY <1>1, <2>2 DEF Left
  <2>4. \A d \in Readers : loader'[d].at \in {"check", "execute"}
    BY <1>2, <2>1 DEF Others, Moves
  <2> QED BY <1>1, <2>2, <2>3, <2>4 DEF Clean, Full
<1> QED BY <1>3, <1>4

\* Whoever executes a template of a set that is there gets what it means.
LEMMA ExecuteStep ==
    ASSUME NEW f \in Seq(TemplateFile), LoaderTyped, NEW c \in Readers, Execute(c)
    PROVE  /\ LoaderTyped' /\ disturbed' = disturbed
           /\ Clean(f) => Clean(f)' /\ \A name : TextOf(name) = Meant(f, name)
<1>1. loader' = [loader EXCEPT ![c] = [at |-> "check", files |-> <<>>]] /\ loader[c].at = "execute" /\ disturbed' = disturbed
      /\ templates' = [templates EXCEPT !.escaped = TRUE]
  BY DEF Execute, NotRendering
<1>2. Moves(c, "check", <<>>)
  BY <1>1, RecordMoves
<1>3. /\ DOMAIN templates' = {"made", "texts", "escaped"} /\ templates'.made = templates.made
      /\ templates'.texts = templates.texts
  BY <1>1 DEF LoaderTyped
<1>4. LoaderTyped'
  <2>1. <<>> \in Seq(TemplateFile)
    OBVIOUS
  <2> QED BY <1>2, <1>3, <2>1, MovesTyped
<1>5. ASSUME Clean(f) PROVE Clean(f)' /\ \A name : TextOf(name) = Meant(f, name)
  <2>1. Full(f)
    BY <1>1, <1>5 DEF Clean, Others, Filling
  <2>2. \A d \in Readers : loader'[d].at \in {"check", "execute"}
    BY <1>2, <2>1 DEF Full, Moves
  <2>3. Full(f)'
    BY <1>3, <2>1, <2>2 DEF Full
  <2>4. \A name : TextOf(name) = Meant(f, name)
    BY <2>1, AllParsed DEF Full, TextOf
  <2> QED BY <2>3, <2>4 DEF Clean
<1> QED BY <1>1, <1>4, <1>5

LEMMA FailsStep ==
    ASSUME NEW f, LoaderTyped, NEW c \in Readers, LoadFails(c) PROVE LoaderTyped' /\ ~Clean(f) /\ disturbed' = disturbed
<1>1. /\ loader' = [loader EXCEPT ![c] = [at |-> "check", files |-> <<>>]] /\ loader[c].at = "failed"
      /\ templates' = templates /\ disturbed' = disturbed
  BY DEF LoadFails, NotRendering
<1>2. Moves(c, "check", <<>>)
  BY <1>1, RecordMoves
<1>3. LoaderTyped'
  BY <1>1, <1>2, MovesTyped DEF LoaderTyped
<1>4. ~Clean(f)
  BY <1>1, WhoFills
<1> QED BY <1>1, <1>3, <1>4

-----------------------------------------------------------------------------
(* Pages by templates.                                                     *)

\* No layer makes a page by a template of anything else.
Plain(out) == out \in Outcome /\ out.type # "template"

LEMMA PlainResponses ==
    /\ Plain(Nil) /\ Plain(Panic) /\ Plain(GoesOn)
    /\ \A type \in Types \ {"template"}, status \in Int : Plain(Response(type, status))
<1>1. Plain(Nil) /\ Plain(Panic) /\ Plain(GoesOn)
  <2>1. "nil" # "template" /\ "panic" # "template" /\ "goes on" # "template"
    OBVIOUS
  <2> QED BY <2>1, NoResponses DEF Plain
<1>2. ASSUME NEW type \in Types \ {"template"}, NEW status \in Int PROVE Plain(Response(type, status))
  BY Responses DEF Plain
<1> QED BY <1>1, <1>2

LEMMA LayerPlain ==
    ASSUME NEW layer, NEW conf, NEW req, NEW out, Plain(out) PROVE Plain(Returns(layer, conf, req, out))
<1> DEFINE back == Returns(layer, conf, req, out)
<1>1. out \in Outcome /\ out.type # "template" /\ back \in Outcome
  BY LayerReturns DEF Plain
<1>2. Plain(InternalServerError) /\ Plain(Response("page", 503))
  <2>1. "page" \in Types \ {"template"} /\ 500 \in Int /\ 503 \in Int
    BY DEF Types
  <2> QED BY <2>1, PlainResponses DEF InternalServerError
<1>3. CASE layer = "recovery"
  <2>1. back = out \/ back = InternalServerError
    BY <1>3 DEF Returns, Recovery
  <2> QED BY <1>2, <2>1
<1>4. CASE layer = "logging"
  <2>1. back = out \/ back = Panic
    BY <1>4 DEF Returns, Logging
  <2> QED BY <2>1, PlainResponses
<1>5. CASE layer = "hooks"
  <2> DEFINE excepted == OnException(req.hooks.exception, out)
  <2>1. back = OnResponse(req.hooks.response, excepted)
    BY <1>5 DEF Returns, AdaptHooks
  <2>2. excepted = out \/ excepted = Panic \/ excepted = Response("page", 503) \/ excepted = InternalServerError
    BY DEF OnException
  <2> HIDE DEF excepted
  <2>3. back = excepted \/ back = Panic \/ back = Nil
    BY <2>1 DEF OnResponse
  <2> QED BY <1>2, <2>2, <2>3, PlainResponses
<1>6. CASE layer = "security"
  <2>1. back = Security(conf, req, out)
    BY <1>6 DEF Returns
  <2>2. back.type \in {out.type, "redirect"}
    BY <1>1, <2>1, SecurityMarks
  <2> QED BY <1>1, <2>2 DEF Plain
<1>7. CASE layer \in {"common", "xframe", "csrf"}
  <2>1. back \in {Mark(out, {"nosniff", "frame"}), Mark(out, {"frame"}), Mark(out, {"csrftoken"})}
    BY <1>7 DEF Returns
  <2>2. {"nosniff", "frame"} \in SUBSET Marks /\ {"frame"} \in SUBSET Marks /\ {"csrftoken"} \in SUBSET Marks
    BY DEF Marks
  <2>3. back.type = out.type
    BY <1>1, <2>1, <2>2, MarkMarks
  <2> QED BY <1>1, <2>3 DEF Plain
<1>8. CASE layer \notin {"recovery", "logging", "hooks", "security", "common", "xframe", "csrf"}
  <2>1. back = out
    BY <1>8 DEF Returns
  <2> QED BY <2>1
<1> QED BY <1>3, <1>4, <1>5, <1>6, <1>7, <1>8

LEMMA OutwardsPlain ==
    ASSUME NEW conf, NEW req, NEW i \in 1..(Len(Layers) + 1), NEW out, Plain(out)
    PROVE  Outwards(conf, req, i, out).type # "template"
<1> DEFINE N == i - 1
<1>1. N \in Nat /\ i \in Nat
  BY LayersInOrder
<1>2. PICK f : Climbs(conf, req, i, out, f) /\ Outwards(conf, req, i, out) = f[i - 1]
  BY OutwardsClimbs DEF Plain
<1>3. f[0] = out /\ \A k \in 1..N : f[k] = Returns(Layers[i - k], conf, req, f[k - 1])
  BY <1>2 DEF Climbs
<1> DEFINE T == {k \in 0..N : Plain(f[k])}
<1>4. 0 \in T
  BY <1>1, <1>3
<1>5. ASSUME NEW k \in 0..N, k < N, k \in T PROVE k + 1 \in T
  <2>1. k + 1 \in 1..N /\ k + 1 \in 0..N /\ (k + 1) - 1 = k
    BY <1>1, <1>5
  <2>2. f[k + 1] = Returns(Layers[i - (k + 1)], conf, req, f[k])
    BY <1>3, <2>1
  <2> QED BY <1>5, <2>1, <2>2, LayerPlain
<1> HIDE DEF T
<1>6. 0..N \subseteq T
  BY <1>1, <1>4, <1>5, UpTo
<1>7. N \in T
  BY <1>1, <1>6
<1> QED BY <1>2, <1>7 DEF T, Plain

LEMMA PlainAnswers ==
    /\ \A conf, req, out : Plain(out) => AnsweredWith(conf, req, out).type # "template"
    /\ \A conf, req : ~ReachesView(req) => StoppedWith(conf, req).type # "template"
<1>1. ASSUME NEW conf, NEW req, NEW out, Plain(out) PROVE AnsweredWith(conf, req, out).type # "template"
  <2>1. Len(Layers) + 1 \in 1..(Len(Layers) + 1)
    BY LayersInOrder
  <2> QED BY <1>1, <2>1, OutwardsPlain, ChainIsLayers DEF AnsweredWith
<1>2. ASSUME NEW conf, NEW req, ~ReachesView(req) PROVE StoppedWith(conf, req).type # "template"
  <2> DEFINE i == Entered(req)
             out == Stops(Layers[i], req)
  <2>1. i \in DOMAIN Layers
    BY <1>2, EnteredFar, ChainIsLayers DEF ReachesView
  <2>2. i \in 1..(Len(Layers) + 1)
    BY <2>1, LayersInOrder
  <2>3. Plain(out)
    <3>1. "page" \in Types \ {"template"} /\ {200, 401, 403} \subseteq Int
      BY DEF Types
    <3>2. \/ out = GoesOn \/ out = Panic \/ \E status \in {200, 401, 403} : out = Response("page", status)
      BY DEF Stops, CSRFMiddleware
    <3> HIDE DEF out
    <3> QED BY <3>1, <3>2, PlainResponses
  <2>4. StoppedWith(conf, req) = Outwards(conf, req, i, out)
    BY ChainIsLayers DEF StoppedWith
  <2> HIDE DEF i, out
  <2> QED BY <2>2, <2>3, <2>4, OutwardsPlain
<1> QED BY <1>1, <1>2

LEMMA ApiIsPlain == ASSUME NEW status \in Int PROVE Plain(Api(status))
BY ApiOutcome DEF Plain

\* An answer that does not wait for its template.
Final(d) == call'[d].pc = "answered" => call'[d].outcome.type # "template"

LEMMA EndsFinal ==
    ASSUME NEW c, NEW status \in Int, NEW wrote, Ends(c, status, wrote) PROVE Final(c)
BY ApiIsPlain, PlainAnswers DEF Ends, Final

LEMMA AskFinal ==
    ASSUME Calls, NEW c \in Clients, NEW req \in Requests, Ask(c, req) PROVE Final(c)
<1> DEFINE was == [Fresh EXCEPT !.req = req, !.match = resolveHandler[req]]
<1>1. Arrive(c, req, was)
  BY DEF Ask
<1>2. DOMAIN was = Fields /\ was.req = req /\ was.match = resolveHandler[req]
  BY FreshFields DEF Fields
<1> HIDE DEF was
<1>3. ASSUME NEW now, call' = [call EXCEPT ![c] = now] PROVE call'[c] = now
  BY <1>3 DEF Calls
<1>4. CASE was.match = NoMatch
  <2> DEFINE now == [was EXCEPT !.pc = "answered", !.outcome = Response("page", 404)]
  <2>1. call' = [call EXCEPT ![c] = now]
    BY <1>1, <1>4 DEF Arrive
  <2>2. now.outcome = Response("page", 404)
    BY <1>2 DEF Fields
  <2> HIDE DEF now
  <2>3. "page" \in Types \ {"template"} /\ 404 \in Int
    BY DEF Types
  <2>4. Plain(Response("page", 404))
    BY <2>3, PlainResponses
  <2>5. call'[c].outcome = Response("page", 404)
    BY <1>3, <2>1, <2>2
  <2> QED BY <2>4, <2>5 DEF Final, Plain
<1>5. CASE was.match # NoMatch /\ ~ReachesView(req)
  <2> DEFINE now == [was EXCEPT !.pc = "answered", !.outcome = StoppedWith(Conf, req)]
  <2>1. call' = [call EXCEPT ![c] = now]
    BY <1>1, <1>5 DEF Arrive, Conf
  <2>2. now.outcome = StoppedWith(Conf, req)
    BY <1>2 DEF Fields
  <2> HIDE DEF now
  <2> QED BY <1>3, <1>5, <2>1, <2>2, PlainAnswers DEF Final
<1>6. CASE was.match # NoMatch /\ ReachesView(req) /\ IsApi(was.match)
  <2>1. PICK does \in Handled[req] : Serve(c, was, does)
    BY <1>1, <1>6 DEF Arrive
  <2>2. PICK throttled \in BOOLEAN : does = Handling(resolveHandler[req], ViewFor(resolveHandler[req]), req, throttled)
    BY <1>2, <1>6 DEF Handled
  <2>3. CASE does.status # 0
    <3> DEFINE now == Answered(was, Api(does.status), <<>>)
    <3>1. call' = [call EXCEPT ![c] = now]
      BY <2>1, <2>3 DEF Serve
    <3>2. now.outcome = AnsweredWith(Conf, req, Api(does.status))
      BY <1>2 DEF Answered, Fields, Conf
    <3>3. does.status \in Int
      <4>1. does.status \in Refusals \cup {200}
        BY <2>2, <2>3, HandlingBegins
      <4> QED BY <4>1 DEF Refusals
    <3> HIDE DEF now
    <3> QED BY <1>3, <3>1, <3>2, <3>3, ApiIsPlain, PlainAnswers DEF Final
  <2>4. CASE does.status = 0
    <3> DEFINE now == [was EXCEPT !.pc = does.pc, !.plan = does.plan, !.action = does.action]
    <3>1. call' = [call EXCEPT ![c] = now]
      BY <2>1, <2>4 DEF Serve
    <3>2. now.pc = does.pc
      BY <1>2 DEF Fields
    <3> HIDE DEF now
    <3>3. does.pc # "answered"
      BY <2>2, <2>4, HandlingBegins DEF Refusals
    <3> QED BY <1>3, <3>1, <3>2, <3>3 DEF Final
  <2> QED BY <2>3, <2>4
<1>7. CASE was.match # NoMatch /\ ReachesView(req) /\ ~IsApi(was.match)
  <2>1. PICK out \in Outcomes(was.match.handler, req.method) :
            call' = [call EXCEPT ![c] =
                ToRender(Answered(was, Guarded(was.match.handler.guard, RequestUser(req), out), <<>>))]
    BY <1>1, <1>7 DEF Arrive
  <2> DEFINE answered == Answered(was, Guarded(was.match.handler.guard, RequestUser(req), out), <<>>)
  <2>2. call'[c] = ToRender(answered)
    BY <1>3, <2>1
  <2>3. DOMAIN answered = Fields
    BY <1>2 DEF Answered
  <2> HIDE DEF answered
  <2> QED BY <2>2, <2>3 DEF ToRender, Final, Fields
<1> QED BY <1>1, <1>4, <1>5, <1>6, <1>7

\* Of the steps of a client only Show answers with a template.
LEMMA StepFinal ==
    ASSUME Shape, NEW c \in Clients, ClientNext(c)
    PROVE  Final(c) \/ Show(c) \/ (Render(c) /\ call' = call)
<1>1. Calls
  BY DEF Shape
<1>2. ASSUME NEW req \in Wishes(c), Ask(c, req) PROVE Final(c)
  BY <1>1, <1>2, WishesAreRequests, AskFinal
<1>3. CASE Leave(c)
  BY <1>1, <1>3, LeaveStep, FreshFields DEF Final
<1>4. CASE Render(c)
  BY <1>4, RenderStep
<1>6. CASE Count(c)
  BY <1>1, <1>6, CountStep DEF Turns, On, Final
<1>7. CASE Rows(c)
  BY <1>1, <1>7, RowsStep, EndsFinal
<1>8. CASE GetObject(c)
  <2>1. CASE \E row \in rows : Gets(c, row)
    BY <2>1 DEF Gets, On, Final
  <2>2. CASE \E status \in {200, 403, 404, 500} : Ends(c, status, call[c].wrote)
    BY <2>2, EndsFinal
  <2> QED BY <1>1, <1>8, <2>1, <2>2, GetObjectStep
<1>9. CASE DatabaseFails(c)
  <2>1. PICK status \in {400, 500} : Ends(c, status, call[c].wrote)
    BY <1>1, <1>9, DatabaseFailsStep
  <2>2. Final(c)
    BY <2>1, EndsFinal
  <2> QED BY <2>2
<1>10. CASE StartBind(c)
  BY <1>1, <1>10, StartBindStep DEF Turns, On, Final
<1>11. CASE BindField(c)
  BY <1>1, <1>11, BindFieldStep DEF Turns, On, Final
<1>12. CASE FinishBind(c)
  <2>1. CASE Ends(c, 400, call[c].wrote)
    BY <2>1, EndsFinal
  <2>2. CASE Turns(c, IF call[c].action = "create" THEN "insert" ELSE "assign")
    BY <2>2 DEF Turns, On, Final
  <2> QED BY <1>1, <1>12, <2>1, <2>2, FinishBindStep
<1>13. CASE Created(c)
  BY <1>1, <1>13, CreatedStep, EndsFinal
<1>14. CASE Assign(c)
  BY <1>1, <1>14, AssignStep DEF Turns, On, Final
<1>15. ASSUME NEW statuses \in SUBSET Int, Writing(c, statuses) PROVE Final(c)
  <2>1. PICK told \in statuses \cup {500} : call'[c].outcome = AnsweredWith(Conf, call[c].req, Api(told))
    BY <1>15 DEF Writing
  <2>2. told \in Int
    BY <2>1
  <2> QED BY <2>1, <2>2, ApiIsPlain, PlainAnswers DEF Final
<1>16. ASSUME NEW how, Insert(c, how) PROVE Final(c)
  <2>1. CASE Ends(c, 500, call[c].wrote)
    BY <2>1, EndsFinal
  <2>2. CASE Writing(c, {500})
    BY <1>15, <2>2
  <2>3. CASE On(c, "created")
    BY <2>3 DEF On, Final
  <2> QED BY <1>1, <1>16, <2>1, <2>2, <2>3, InsertStep
<1>17. ASSUME NEW how, UpdateRow(c, how) PROVE Final(c)
  <2>1. CASE \E status \in {200, 500} : Ends(c, status, call[c].wrote)
    BY <2>1, EndsFinal
  <2>2. CASE Writing(c, {200})
    BY <1>15, <2>2
  <2> QED BY <1>1, <1>17, <2>1, <2>2, UpdateRowStep
<1>18. ASSUME NEW how, DeleteRow(c, how) PROVE Final(c)
  <2>1. CASE Ends(c, 404, call[c].wrote)
    BY <2>1, EndsFinal
  <2>2. CASE Writing(c, {204})
    BY <1>15, <2>2
  <2> QED BY <1>1, <1>18, <2>1, <2>2, DeleteRowStep
<1> QED BY <1>2, <1>3, <1>4, <1>6, <1>7, <1>8, <1>9, <1>10, <1>11, <1>12, <1>13, <1>14, <1>16, <1>17, <1>18, ClientSteps

\* Who serves has begun to listen, and only Render and Show see the templates.
LEMMA ClientsServe ==
    ASSUME NEW c \in Clients, ClientNext(c)
    PROVE  listening /\ listening' = listening /\ (Render(c) \/ Show(c) \/ UNCHANGED templateVars)
<1>1. CASE Render(c) \/ Show(c)
  BY <1>1 DEF Render, Show, Serving, siteVars
<1>2. CASE Leave(c) \/ Count(c) \/ Rows(c) \/ GetObject(c) \/ DatabaseFails(c) \/ Created(c) \/ Assign(c)
  BY <1>2 DEF Leave, Count, Rows, GetObject, DatabaseFails, Created, Assign, At, Serving
<1>3. CASE StartBind(c) \/ BindField(c) \/ FinishBind(c)
  BY <1>3 DEF StartBind, BindField, FinishBind, At, Serving
<1>4. CASE \E req \in Wishes(c) : Ask(c, req)
  BY <1>4 DEF Ask, Serving
<1>5. CASE \E how : Insert(c, how) \/ UpdateRow(c, how) \/ DeleteRow(c, how)
  BY <1>5 DEF Insert, UpdateRow, DeleteRow, At, Serving
<1> QED BY <1>1, <1>2, <1>3, <1>4, <1>5, ClientSteps

\* A step of Render, with the files of the apps that are registered.
LEMMA RenderLoads ==
    ASSUME NEW f \in Seq(TemplateFile), f = Files(ordered), LoaderTyped, NEW c \in Clients, Render(c)
    PROVE  LoaderTyped' /\ (~disturbed' => ~disturbed) /\ (Clean(f) /\ ~disturbed' => Clean(f)')
<1>1. c \in Readers /\ LoadStep(c, ordered)
  BY ClientsAssumption DEF Render
<1>2. CASE CheckLoaded(c)
  BY <1>1, <1>2, CheckStep DEF CheckLoaded
<1>3. CASE Load(c, ordered)
  BY <1>1, <1>3, LoadStarts DEF Load
<1>4. CASE ParseName(c)
  BY <1>1, <1>4, NameStep DEF ParseName
<1>5. CASE ParseBase(c)
  BY <1>1, <1>5, BaseStep DEF ParseBase
<1>6. CASE FileFails(c)
  BY <1>1, <1>6, FailStep
<1>7. CASE EndLoad(c)
  BY <1>1, <1>7, EndStep DEF EndLoad
<1> QED BY <1>1, <1>2, <1>3, <1>4, <1>5, <1>6, <1>7 DEF LoadStep

\* A step of Show.
LEMMA ShowWrites ==
    ASSUME NEW f \in Seq(TemplateFile), Calls, LoaderTyped, NEW c \in Clients, Show(c)
    PROVE  /\ LoaderTyped' /\ disturbed' = disturbed
           /\ Clean(f) => Clean(f)' /\ call'[c].data = <<Meant(f, call[c].match.handler.view.template)>>
<1> DEFINE name == call[c].match.handler.view.template
<1>1. c \in Readers
  BY ClientsAssumption
<1>2. CASE Execute(c) /\ Written(c, TextOf(name))
  <2>1. LoaderTyped' /\ disturbed' = disturbed /\ (Clean(f) => Clean(f)' /\ TextOf(name) = Meant(f, name))
    BY <1>1, <1>2, ExecuteStep
  <2>2. call'[c].data = <<TextOf(name)>>
    <3>1. "data" \in DOMAIN call[c] /\ c \in DOMAIN call
      BY DEF Calls, Fields
    <3> QED BY <1>2, <3>1 DEF Written
  <2> QED BY <2>1, <2>2
<1>3. CASE LoadFails(c)
  BY <1>1, <1>3, FailsStep
<1> QED BY <1>2, <1>3 DEF Show

\* A page that has been written shows what its name means.
Shows(f, d) ==
    call[d].pc = "answered" /\ call[d].outcome.type = "template" =>
        call[d].data = <<Meant(f, call[d].match.handler.view.template)>>

\* Before the site listens nobody has called it, and nobody has loaded a template.
Unused ==
    /\ ~templates.made /\ \A c \in Readers : loader[c].at = "check"
    /\ \A c \in Clients : call[c].pc = "idle"

PagesInv ==
    /\ LoaderTyped
    /\ ~listening => Unused
    /\ ~disturbed => Clean(Files(ordered)) /\ \A c \in Clients : Shows(Files(ordered), c)

LEMMA UnusedIsClean ==
    ASSUME Unused, NEW f PROVE Clean(f) /\ \A c \in Clients : Shows(f, c)
BY DEF Unused, Clean, Shows

\* Without a step of Render or Show the set and who loads it stay as they are.
LEMMA TemplatesStand ==
    ASSUME UNCHANGED templateVars, NEW f
    PROVE  /\ LoaderTyped => LoaderTyped'
           /\ Clean(f) => Clean(f)'
           /\ disturbed' = disturbed
<1>1. loader' = loader /\ templates' = templates /\ disturbed' = disturbed
  BY DEF templateVars
<1>2. LoaderTyped => LoaderTyped'
  BY <1>1 DEF LoaderTyped
<1>3. ASSUME NEW c \in Readers PROVE Others(c) /\ (loader[c].at = "load" \/ Filling(c, f)) => Clean(f)'
  <2>1. Others(c) => Others(c)'
    BY <1>1 DEF Others
  <2>2. Filling(c, f) => Filling(c, f)'
    BY <1>1, Zenon DEF Filling, Left
  <2> QED BY <1>1, <2>1, <2>2 DEF Clean
<1>4. Full(f) => Full(f)'
  BY <1>1 DEF Full
<1> QED BY <1>1, <1>2, <1>3, <1>4 DEF Clean

LEMMA PagesStand ==
    ASSUME PagesInv, UNCHANGED templateVars, ordered' = ordered, call' = call, listening => listening' PROVE PagesInv'
<1>a. SUFFICES ASSUME NEW f, f = Files(ordered) PROVE PagesInv'
  OBVIOUS
<1>1. Files(ordered)' = f
  BY <1>a DEF Files, templateDirs
<1>2. LoaderTyped' /\ disturbed' = disturbed /\ (Clean(f) => Clean(f)')
  BY TemplatesStand DEF PagesInv
<1>3. \A c \in Clients : Shows(f, c) => Shows(f, c)'
  BY DEF Shows
<1>4. Unused => Unused'
  BY DEF Unused, templateVars
<1> QED BY <1>a, <1>1, <1>2, <1>3, <1>4 DEF PagesInv

LEMMA StepPages ==
    ASSUME Shape, PagesInv, ordered \in Seq(Labels), NEW c \in Clients, ClientNext(c)
    PROVE  PagesInv'
<1>a. SUFFICES ASSUME NEW f, f = Files(ordered) PROVE PagesInv'
  OBVIOUS
<1>1. f \in Seq(TemplateFile) /\ Calls
  BY <1>a, FilesAreSequence DEF Shape
<1>2. Files(ordered)' = f
  BY <1>a, RequestsLeaveStartup DEF startupVars, registryVars, Files, templateDirs
<1>3. listening /\ listening'
  BY ClientsServe
<1>4. ASSUME NEW d \in Clients \ {c} PROVE Shows(f, d) => Shows(f, d)'
  BY <1>4, ClientOnly DEF Only, Kept, Shows
<1>5. CASE Render(c)
  <2>1. UNCHANGED call
    BY <1>5, RenderStep
  <2>2. LoaderTyped' /\ (~disturbed' => ~disturbed) /\ (Clean(f) /\ ~disturbed' => Clean(f)')
    BY <1>1, <1>5, <1>a, RenderLoads DEF PagesInv
  <2>3. \A d \in Clients : Shows(f, d) => Shows(f, d)'
    BY <2>1 DEF Shows
  <2> QED BY <1>2, <1>3, <2>2, <2>3, <1>a DEF PagesInv
<1>6. CASE Show(c)
  <2>1. /\ LoaderTyped' /\ disturbed' = disturbed
        /\ Clean(f) => Clean(f)' /\ call'[c].data = <<Meant(f, call[c].match.handler.view.template)>>
    BY <1>1, <1>6, ShowWrites DEF PagesInv
  <2>2. call'[c].match = call[c].match
    BY <1>1, <1>6, ShowStep DEF Turns, On
  <2>3. Clean(f) => Shows(f, c)'
    BY <2>1, <2>2 DEF Shows
  <2> QED BY <1>2, <1>3, <1>4, <2>1, <2>3, <1>a DEF PagesInv
<1>7. CASE ~Render(c) /\ ~Show(c)
  <2>1. UNCHANGED templateVars
    BY <1>7, ClientsServe
  <2>2. Shows(f, c)'
    <3>1. Final(c)
      BY <1>7, StepFinal
    <3> QED BY <3>1 DEF Final, Shows
  <2>3. LoaderTyped' /\ (Clean(f) => Clean(f)') /\ disturbed' = disturbed
    BY <2>1, TemplatesStand DEF PagesInv
  <2> QED BY <1>2, <1>3, <1>4, <2>2, <2>3, <1>a DEF PagesInv
<1> QED BY <1>5, <1>6, <1>7

\* A page shows the template that its view names, whoever renders when, until a load
\* fails or is disturbed (engine.go:38, views.go:30).
THEOREM PagesShowTheirTemplateAlways == SiteSpec => []PagesShowTheirTemplate
<1>1. SiteInit => PagesInv
  <2> SUFFICES ASSUME SiteInit PROVE PagesInv
    OBVIOUS
  <2>1. TemplatesInit /\ call = [c \in Clients |-> Fresh]
    BY DEF SiteInit
  <2>2. DOMAIN NotRendering = {"at", "files"} /\ NotRendering.at = "check" /\ NotRendering.files = <<>>
    BY DEF NotRendering
  <2>3. LoaderTyped
    <3>1. /\ templates = [made |-> FALSE, texts |-> <<>>, escaped |-> FALSE]
          /\ DOMAIN loader = Readers /\ \A c \in Readers : loader[c] = NotRendering
      BY <2>1 DEF TemplatesInit, Unloaded
    <3>2. <<>> \in Seq(TemplateFile)
      OBVIOUS
    <3> QED BY <2>2, <3>1, <3>2 DEF LoaderTyped
  <2>4. Unused
    BY <2>1, <2>2, FreshFields DEF TemplatesInit, Unused, Unloaded
  <2> QED BY <2>3, <2>4, UnusedIsClean DEF PagesInv
<1>2. Shape /\ SetupInv /\ PagesInv /\ [SiteNext]_vars => PagesInv'
  <2> SUFFICES ASSUME Shape, ordered \in Seq(Labels), PagesInv, [SiteNext]_vars PROVE PagesInv'
    BY DEF SetupInv, SetupTyped
  <2>1. CASE Starting
    <3>1. UNCHANGED templateVars /\ UNCHANGED <<listening, call>>
      BY <2>1 DEF Starting, siteVars
    <3>3. CASE listening
      <4>1. ordered' = ordered
        BY <2>1, <3>3 DEF Starting, AskReady
      <4> QED BY <3>1, <4>1, PagesStand
    <3>4. CASE ~listening
      <4>1. Unused' /\ LoaderTyped'
        BY <3>1, <3>4, TemplatesStand DEF PagesInv, Unused, templateVars
      <4>2. (\A files : Clean(files) /\ \A c \in Clients : Shows(files, c))'
        BY <4>1 DEF Unused, Clean, Shows
      <4> QED BY <4>1, <4>2 DEF PagesInv
    <3> QED BY <3>3, <3>4
  <2>2. CASE Listen \/ MapWritesCollide
    BY <2>2, PagesStand DEF Listen, MapWritesCollide, startupVars, registryVars
  <2>3. ASSUME NEW c \in Clients, ClientNext(c) PROVE PagesInv'
    BY <2>3, StepPages
  <2>4. CASE UNCHANGED vars
    BY <2>4, PagesStand DEF vars, siteVars, startupVars, registryVars
  <2> QED BY <2>1, <2>2, <2>3, <2>4 DEF SiteNext
<1>3. PagesInv => PagesShowTheirTemplate
  BY DEF PagesInv, Shows, PagesShowTheirTemplate
<1>4. StartupSpec => []SetupInv
  BY InitSettled, SetupKeeps, PTL DEF StartupSpec
<1> QED BY <1>1, <1>2, <1>3, <1>4, SiteImplementsStartup, ShapeHolds, PTL DEF SiteSpec

-----------------------------------------------------------------------------
(* A walk by the cursor.  What it has shown ascends; a key that was there  *)
(* all along is among it or lies ahead; and the page that is asked for is  *)
(* the one after the last key.                                             *)

Ascends(seen) == \A i, j \in 1..Len(seen) : i < j => seen[i] < seen[j]
Passed(seen, k) == \E i \in 1..Len(seen) : seen[i] = k
Ahead(seen, k) == seen = <<>> \/ k > Last1(seen)

ByKey == <<[column |-> Key, desc |-> FALSE]>>
PlansAfter(plan, seen) ==
    /\ plan.conditions = IF seen = <<>> THEN {} ELSE {[column |-> Key, op |-> "gt", value |-> Last1(seen)]}
    /\ plan.search = {} /\ plan.ordering = ByKey /\ plan.offset = 0 /\ plan.limit \in Nat \ {0}

\* A listing has every row once.
LEMMA ListedAll ==
    ASSUME NEW S, IsFiniteSet(S), NEW s \in [1..Cardinality(S) -> S], \A i, j \in DOMAIN s : i # j => s[i] # s[j]
    PROVE  \A x \in S : \E i \in 1..Cardinality(S) : s[i] = x
<1> DEFINE n == Cardinality(S)
<1>1. n \in Nat
  BY FS_CardinalityType
<1>2. IsFiniteSet(1..n) /\ Cardinality(1..n) = n
  BY <1>1, FS_Interval
<1>3. s \in Injection(1..n, S)
  BY DEF Injection, IsInjective
<1>4. s \in Surjection(1..n, S)
  BY <1>2, <1>3, FS_Injection
<1> QED BY <1>4 DEF Surjection

\* The keys of the rows of a list by the key ascend, and all of them are there.
LEMMA ListedByKey ==
    ASSUME SoundTable, Null \notin Nat, NEW T \in SUBSET rows, NEW s \in Listings(ByKey, T)
    PROVE  /\ Cardinality(T) \in Nat /\ s \in [1..Cardinality(T) -> T]
           /\ \A row \in T : \E i \in 1..Cardinality(T) : s[i] = row
           /\ \A i, j \in 1..Cardinality(T) : i < j => s[i][Key] < s[j][Key]
<1> DEFINE n == Cardinality(T)
           o == [column |-> Key, desc |-> FALSE]
<1>1. IsFiniteSet(T) /\ n \in Nat
  BY FS_Subset, FS_CardinalityType DEF SoundTable
<1>2. /\ s \in [1..n -> T]
      /\ \A i, j \in DOMAIN s : i # j => s[i] # s[j]
      /\ \A i, j \in DOMAIN s : i < j => ~Precedes(ByKey, s[j], s[i])
  BY DEF Listings
<1>3. \A row \in T : \E i \in 1..n : s[i] = row
  BY <1>1, <1>2, ListedAll
<1>4. ASSUME NEW i \in 1..n, NEW j \in 1..n, i < j PROVE s[i][Key] < s[j][Key]
  <2>1. s[i] \in rows /\ s[j] \in rows /\ s[i] # s[j]
    BY <1>1, <1>2, <1>4
  <2>2. s[i][Key] \in Nat /\ s[j][Key] \in Nat /\ s[i][Key] # s[j][Key]
    BY <2>1 DEF SoundTable
  <2>3. ~Before(o, s[j], s[i])
    <3>1. ~Precedes(ByKey, s[j], s[i])
      BY <1>2, <1>4
    <3>2. 1 \in DOMAIN ByKey /\ ByKey[1] = o /\ 1..(1 - 1) = {}
      BY DEF ByKey
    <3> QED BY <3>1, <3>2 DEF Precedes
  <2>4. ~(s[j][Key] < s[i][Key])
    BY <2>2, <2>3 DEF Before
  <2> QED BY <2>2, <2>4
<1> QED BY <1>1, <1>2, <1>3, <1>4

\* A page of a walk.
LEMMA PageShows ==
    ASSUME SoundTable, Null \notin Nat, NEW seen \in Seq(Nat), Ascends(seen), NEW plan, PlansAfter(plan, seen),
           NEW s \in Listings(plan.ordering, Chosen(plan, rows)), NEW keys,
           keys = [i \in DOMAIN Cut(plan, s) |-> Cut(plan, s)[i][Key]]
    PROVE  LET now == seen \o keys
               done == Len(Cut(plan, s)) < plan.limit
           IN /\ now \in Seq(Nat) /\ Ascends(now)
              /\ \A k \in Ids(rows) : Passed(seen, k) \/ Ahead(seen, k) => Passed(now, k) \/ (~done /\ Ahead(now, k))
<1> DEFINE T == Chosen(plan, rows)
           n == Cardinality(T)
           page == Cut(plan, s)
           m == IF plan.limit < n THEN plan.limit ELSE n
           now == seen \o keys
<1>1. T \in SUBSET rows /\ \A row \in rows : row \in T <=> Ahead(seen, row[Key])
  <2>1. \A row \in rows : row[Key] \in Nat /\ row[Key] # Null
    BY DEF SoundTable
  <2> DEFINE cond == [column |-> Key, op |-> "gt", value |-> Last1(seen)]
  <2>2. ASSUME seen # <<>>, NEW row \in rows PROVE Holds(cond, row[Key]) <=> row[Key] > Last1(seen)
    BY <2>1 DEF Holds
  <2>3. plan.search = {}
    BY DEF PlansAfter
  <2>4. CASE seen = <<>>
    BY <2>3, <2>4 DEF Chosen, PlansAfter, Ahead
  <2>5. CASE seen # <<>>
    <3>1. plan.conditions = {cond} /\ cond.column = Key
      BY <2>5 DEF PlansAfter
    <3> HIDE DEF cond
    <3>2. T = {row \in rows : Holds(cond, row[Key])}
      BY <2>3, <3>1 DEF Chosen
    <3> QED BY <2>2, <2>5, <3>2 DEF Ahead
  <2> QED BY <2>4, <2>5
<1>2. /\ n \in Nat /\ s \in [1..n -> T]
      /\ \A row \in T : \E i \in 1..n : s[i] = row
      /\ \A i, j \in 1..n : i < j => s[i][Key] < s[j][Key]
  <2>1. s \in Listings(ByKey, T)
    BY DEF PlansAfter
  <2> HIDE DEF T
  <2> QED BY <1>1, <2>1, ListedByKey
<1> HIDE DEF T
<1>3. m \in Nat /\ m <= n /\ plan.limit \in Nat \ {0} /\ plan.offset = 0 /\ (m < plan.limit => m = n) /\ m <= plan.limit
  BY <1>2 DEF PlansAfter
<1> HIDE DEF n
<1>4. page \in Seq(T) /\ Len(page) = m /\ \A i \in 1..m : page[i] = s[i]
  <2>1. s \in Seq(T) /\ Len(s) = n
    BY <1>2
  <2>2. page = SubSeq(s, 1, m)
    BY <1>3, <2>1 DEF Cut
  <2> HIDE DEF page, m
  <2> QED BY <1>3, <2>1, <2>2
<1> HIDE DEF page, m
<1>5. keys \in Seq(Nat) /\ Len(keys) = m /\ \A i \in 1..m : keys[i] = s[i][Key]
  <2>1. DOMAIN page = 1..m
    BY <1>3, <1>4
  <2>2. \A i \in 1..m : s[i][Key] \in Nat
    BY <1>1, <1>2, <1>3 DEF SoundTable
  <2>3. keys = [i \in 1..m |-> s[i][Key]]
    BY <1>4, <2>1 DEF page
  <2> QED BY <1>3, <2>2, <2>3
<1>6. now \in Seq(Nat) /\ Len(now) = Len(seen) + m
  BY <1>3, <1>5
<1>7. /\ \A i \in 1..Len(seen) : now[i] = seen[i]
      /\ \A i \in 1..m : now[Len(seen) + i] = keys[i]
  BY <1>3, <1>5
<1>8. \A i \in 1..m : Ahead(seen, keys[i])
  BY <1>1, <1>2, <1>3, <1>5
<1>9. Ascends(now)
  <2> SUFFICES ASSUME NEW i \in 1..Len(now), NEW j \in 1..Len(now), i < j PROVE now[i] < now[j]
    BY DEF Ascends
  <2>1. CASE j <= Len(seen)
    BY <1>6, <1>7, <2>1 DEF Ascends
  <2>2. CASE i > Len(seen)
    <3> DEFINE a == i - Len(seen)
               b == j - Len(seen)
    <3>1. a \in 1..m /\ b \in 1..m /\ a < b /\ i = Len(seen) + a /\ j = Len(seen) + b
      BY <1>3, <1>6, <2>2
    <3> HIDE DEF a, b
    <3>2. now[i] = s[a][Key] /\ now[j] = s[b][Key]
      BY <1>5, <1>7, <3>1
    <3>3. a \in 1..n /\ b \in 1..n
      BY <1>2, <1>3, <3>1
    <3> QED BY <1>2, <3>1, <3>2, <3>3
  <2>3. CASE i <= Len(seen) /\ j > Len(seen)
    <3> DEFINE b == j - Len(seen)
    <3>1. b \in 1..m /\ j = Len(seen) + b
      BY <1>3, <1>6, <2>3
    <3> HIDE DEF b
    <3>2. i \in 1..Len(seen)
      BY <1>6, <2>3
    <3>3. now[i] = seen[i] /\ now[j] = keys[b]
      BY <1>7, <3>1, <3>2
    <3>4. seen # <<>> /\ keys[b] > Last1(seen) /\ keys[b] \in Nat
      <4>1. seen # <<>>
        BY <3>2
      <4>2. keys[b] \in Nat
        BY <1>5, <3>1
      <4> QED BY <1>8, <3>1, <4>1, <4>2 DEF Ahead
    <3>5. seen[i] <= Last1(seen) /\ seen[i] \in Nat /\ Last1(seen) \in Nat
      BY <3>2 DEF Ascends, Last1
    <3> QED BY <3>2, <3>3, <3>4, <3>5
  <2> QED BY <1>6, <2>1, <2>2, <2>3
<1>10. ASSUME NEW k \in Ids(rows), Passed(seen, k) \/ Ahead(seen, k)
       PROVE  Passed(now, k) \/ (~(m < plan.limit) /\ Ahead(now, k))
  <2>1. CASE Passed(seen, k)
    BY <1>6, <1>7, <2>1 DEF Passed
  <2>2. CASE Ahead(seen, k)
    <3>1. PICK row \in rows : k = row[Key]
      BY DEF Ids
    <3>2. PICK i \in 1..n : s[i] = row
      BY <1>1, <1>2, <2>2, <3>1
    <3>3. CASE i <= m
      <4>1. i \in 1..m /\ now[Len(seen) + i] = k /\ Len(seen) + i \in 1..Len(now)
        BY <1>2, <1>3, <1>5, <1>6, <1>7, <3>1, <3>2, <3>3
      <4> QED BY <4>1 DEF Passed
    <3>4. CASE i > m
      <4>1. m = plan.limit /\ m \in 1..m /\ m \in 1..n /\ m < i
        BY <1>2, <1>3, <3>2, <3>4
      <4>2. Len(now) = Len(seen) + m /\ now[Len(now)] = s[m][Key]
        BY <1>5, <1>6, <1>7, <4>1
      <4>3. s[m][Key] < k /\ s[m][Key] \in Nat /\ k \in Nat
        BY <1>1, <1>2, <3>1, <3>2, <4>1 DEF SoundTable
      <4>4. Ahead(now, k)
        BY <4>2, <4>3 DEF Ahead, Last1
      <4> QED BY <1>3, <4>1, <4>4
    <3> QED BY <1>2, <1>3, <3>2, <3>3, <3>4
  <2> QED BY <1>10, <2>1, <2>2
<1> QED BY <1>4, <1>6, <1>9, <1>10 DEF page

\* A list begins with the plan of its query.
LEMMA ListBegins ==
    ASSUME NEW c, NEW req, Begun(c, req), call'[c].pc \in {"count", "rows"}
    PROVE  call'[c].plan = ListPlan(ViewFor(resolveHandler[req]), Meta, req.query) /\ call'[c].plan # Invalid
<1> DEFINE match == resolveHandler[req]
           view == ViewFor(match)
           plan == ListPlan(view, Meta, req.query)
<1>1. PICK t \in BOOLEAN :
         LET does == Handling(match, view, req, t) IN
         does.status = 0 /\ call'[c].pc = does.pc /\ call'[c].plan = does.plan
  BY DEF Begun
<1> DEFINE asked == ActionOf(match.handler, view, req, match.params, t)
           action == asked.action
           begin == Begin(view, action, req, match.params)
           does == Handling(match, view, req, t)
<1>2. does = IF asked.status # 0 THEN At0(asked.status)
             ELSE [status |-> begin.status, pc |-> begin.pc, plan |-> begin.plan, action |-> action]
  BY DEF Handling, Handles
<1>3. At0(asked.status).pc \notin {"count", "rows"}
  BY DEF At0
<1>4. does.status = 0 /\ call'[c].pc = does.pc /\ call'[c].plan = does.plan
  BY <1>1
<1>5. begin = Begin(view, action, req, match.params)
  OBVIOUS
<1> HIDE DEF asked, action, begin, does
<1>6. begin.pc \in {"count", "rows"} /\ begin.status = 0 /\ call'[c].plan = begin.plan
  BY <1>2, <1>3, <1>4
<1>7. action = "list"
  BY <1>5, <1>6, HandlersBegin
<1>8. begin = IF plan = Invalid THEN [status |-> 400, pc |-> "", plan |-> Null]
              ELSE [status |-> 0, pc |-> IF plan.counts THEN "count" ELSE "rows", plan |-> plan]
  BY <1>5, <1>7 DEF Begin
<1> HIDE DEF plan, view
<1>9. CASE plan = Invalid
  <2>1. begin = [status |-> 400, pc |-> "", plan |-> Null]
    BY <1>8, <1>9, Zenon
  <2>2. begin.status = 400
    BY <2>1, Zenon
  <2> QED BY <1>6, <2>2
<1>10. CASE plan # Invalid
  <2>1. begin.plan = plan
    BY <1>8, <1>10
  <2> QED BY <1>6, <1>10, <2>1 DEF plan, view
<1> QED BY <1>9, <1>10

\* The plan of a list by cursor that is not filtered, searched or ordered otherwise.
LEMMA PlanByCursor ==
    ASSUME NEW view, view.paginator = "cursor", PageSize(view) \in Nat \ {0}, NEW query,
           DOMAIN query \subseteq {"cursor"}, NEW after,
           Cursor(view, query) = [limit |-> PageSize(view), offset |-> 0, after |-> after],
           ListPlan(view, Meta, query) # Invalid
    PROVE  LET plan == ListPlan(view, Meta, query) IN
           /\ plan.conditions = AfterCursor(Meta, [limit |-> PageSize(view), offset |-> 0, after |-> after])
           /\ plan.search = {} /\ plan.ordering = ByKey /\ plan.offset = 0 /\ plan.limit = PageSize(view)
<1> DEFINE conditions == applyFilters(view, Meta, query)
           search == applySearch(view, Meta, query)
           ordering == applyOrdering(view, Meta, query)
           page == Paginate(view, query)
           given == [limit |-> PageSize(view), offset |-> 0, after |-> after]
           plan == ListPlan(view, Meta, query)
<1>1. conditions # Invalid /\ search # Invalid /\ ordering # Invalid /\ page # Invalid
  BY Zenon DEF ListPlan
<1>2. plan = [conditions |-> conditions \cup AfterCursor(Meta, page), search |-> search,
              ordering |-> IF view.paginator = "cursor"
                           THEN Append(ordering, [column |-> PKColumn(Meta), desc |-> FALSE])
                           ELSE IF ordering = <<>> THEN ModelOrdering(Meta) ELSE ordering,
              limit |-> page.limit, offset |-> page.offset, counts |-> view.paginator # "cursor"]
  BY <1>1, Zenon DEF ListPlan
<1>3. conditions = {}
  <2> DEFINE allowed == allowedFieldSet(Meta, view.filterFields)
  <2>1. DOMAIN query \ isReservedQueryParam = {}
    BY DEF isReservedQueryParam
  <2> HIDE DEF allowed
  <2>2. conditions = Invalid \/ conditions = {}
    BY <2>1 DEF applyFilters, allowed
  <2> QED BY <1>1, <2>2
<1>4. Text(query, "search") = "" /\ Text(query, "ordering") = ""
  BY DEF Text
<1>5. search = {} /\ ordering = <<>>
  BY <1>4 DEF applySearch, applyOrdering
<1>6. page = given
  BY DEF Paginate
<1> HIDE DEF conditions, search, ordering, page, plan
<1>7. plan.ordering = Append(<<>>, [column |-> Key, desc |-> FALSE])
  BY <1>2, <1>5 DEF Key
<1>8. plan.ordering = ByKey
  BY <1>7 DEF ByKey
<1>9. plan.conditions = AfterCursor(Meta, given) /\ plan.search = {} /\ plan.offset = 0 /\ plan.limit = PageSize(view)
  BY <1>2, <1>3, <1>5, <1>6
<1> QED BY <1>8, <1>9 DEF plan

LEMMA LastSeen ==
    ASSUME NEW seen \in Seq(Nat), seen # <<>> PROVE Last1(seen) \in Nat
BY DEF Last1

LEMMA WalkPlans ==
    ASSUME WalksByCursor, NEW c, NEW seen \in Seq(Nat), NEW req,
           \/ seen = <<>> /\ req = WalkRequest
           \/ seen # <<>> /\ Last1(seen) \in DOMAIN CursorOf /\ req = Continued(Last1(seen)),
           Begun(c, req), call'[c].pc \in {"count", "rows"}
    PROVE  PlansAfter(call'[c].plan, seen)
<1> DEFINE view == ViewFor(resolveHandler[req])
           size == PageSize(view)
           after == IF seen = <<>> THEN Null ELSE Last1(seen)
           page == [limit |-> size, offset |-> 0, after |-> after]
<1>1. call'[c].plan = ListPlan(view, Meta, req.query) /\ call'[c].plan # Invalid
  BY ListBegins
<1>2. req \in Walking
  BY DEF Walking
<1>3. view.paginator = "cursor" /\ size \in Nat \ {0}
  BY <1>2 DEF Begun, WalksByCursor
<1>4. DOMAIN req.query \subseteq {"cursor"} /\ Cursor(view, req.query) = page
  <2>1. CASE seen = <<>>
    <3>1. req.query = <<>>
      BY <2>1 DEF WalksByCursor
    <3>2. DOMAIN req.query = {}
      BY <3>1
    <3>3. Text(req.query, "cursor") = ""
      BY <3>2 DEF Text
    <3> QED BY <2>1, <3>2, <3>3 DEF Cursor, Page, PageSize
  <2>2. CASE seen # <<>>
    <3> DEFINE id == Last1(seen)
    <3>1. id \in DOMAIN CursorOf /\ req = Continued(id)
      BY <2>2
    <3>2. CursorOf[id] # "" /\ CursorOf[id] \in DOMAIN Decoded /\ Decoded[CursorOf[id]] = id
      BY <3>1 DEF WalksByCursor
    <3> HIDE DEF id
    <3>3. req.query = [cursor |-> <<CursorOf[id]>>]
      BY <3>1 DEF Continued, WalksByCursor
    <3>4. DOMAIN req.query = {"cursor"} /\ Text(req.query, "cursor") = CursorOf[id]
      BY <3>3 DEF Text
    <3> QED BY <2>2, <3>2, <3>4 DEF Cursor, Page, PageSize, id
  <2> QED BY <2>1, <2>2
<1>5. seen # <<>> => Last1(seen) \in Nat /\ Last1(seen) # Null
  BY LastSeen DEF WalksByCursor
<1> HIDE DEF view, size
<1>6. size = PageSize(view)
  BY DEF size
<1>7. /\ call'[c].plan.conditions = AfterCursor(Meta, page)
      /\ call'[c].plan.search = {} /\ call'[c].plan.ordering = ByKey /\ call'[c].plan.offset = 0 /\ call'[c].plan.limit = size
  BY <1>1, <1>3, <1>4, <1>6, PlanByCursor
<1>8. AfterCursor(Meta, page) = IF seen = <<>> THEN {} ELSE {[column |-> Key, op |-> "gt", value |-> Last1(seen)]}
  BY <1>5 DEF AfterCursor, Key
<1> QED BY <1>3, <1>7, <1>8 DEF PlansAfter

\* The invariant: of the walk of a client, and of the page it asks for.
OnWalk(d) ==
    /\ DOMAIN walk[d] = {"seen", "kept", "done"} /\ walk[d].seen \in Seq(Nat) /\ Ascends(walk[d].seen)
    /\ walk[d].kept \subseteq Ids(rows)
    /\ \A k \in walk[d].kept : Passed(walk[d].seen, k) \/ (~walk[d].done /\ Ahead(walk[d].seen, k))
Asking(d) == Sites[site][d].walks /\ call[d].pc \in {"count", "rows"} => PlansAfter(call[d].plan, walk[d].seen)

\* A walk that is not gone on with loses at most the keys that are deleted.
Stays(d) ==
    /\ DOMAIN walk'[d] = {"seen", "kept", "done"}
    /\ walk'[d].seen = walk[d].seen /\ (walk'[d].done <=> walk[d].done)
    /\ walk'[d].kept \subseteq walk[d].kept \cap Ids(rows')

LEMMA StaysOnWalk ==
    ASSUME NEW d, OnWalk(d), Stays(d) PROVE OnWalk(d)'
BY DEF OnWalk, Stays, Ids

LEMMA UpdateKeepsKeys ==
    ASSUME Shape, SoundTable, Validated, NEW c \in Clients, NEW how, UpdateRow(c, how) PROVE Ids(rows) \subseteq Ids(rows')
<1> DEFINE found == {row \in rows : row[Key] = call[c].instance[Meta.pk]}
           changed == {Stored(Meta, row, bound.validated) : row \in found}
<1>1. UNCHANGED rows \/ rows' = (rows \ found) \cup changed
  BY UpdateRowStep DEF Shape
<1>2. ASSUME NEW row \in rows, rows' = (rows \ found) \cup changed PROVE \E new \in rows' : new[Key] = row[Key]
  <2>1. CASE row \notin found
    BY <1>2, <2>1
  <2>2. CASE row \in found
    <3> DEFINE new == Stored(Meta, row, bound.validated)
    <3>1. new[Key] = row[Key]
      BY StoredKeepsKey DEF SoundTable
    <3>2. new \in rows'
      BY <1>2, <2>2
    <3> QED BY <3>1, <3>2
  <2> QED BY <2>1, <2>2
<1> QED BY <1>1, <1>2 DEF Ids

LEMMA DeleteStays ==
    ASSUME Shape, DOMAIN walk = Clients, \A d \in Clients : OnWalk(d), NEW c \in Clients, NEW how, DeleteRow(c, how)
    PROVE  DOMAIN walk' = Clients /\ \A d \in Clients : Stays(d)
<1> DEFINE found == {row \in rows : row[Key] = call[c].instance[Meta.pk]}
<1>1. \/ UNCHANGED <<rows, walk>>
      \/ rows' = rows \ found /\ walk' = [d \in Clients |-> [walk[d] EXCEPT !.kept = @ \ Ids(found)]]
  BY DeleteRowStep DEF Shape
<1>2. CASE UNCHANGED <<rows, walk>>
  BY <1>2 DEF OnWalk, Stays
<1>3. CASE rows' = rows \ found /\ walk' = [d \in Clients |-> [walk[d] EXCEPT !.kept = @ \ Ids(found)]]
  <2> HIDE DEF found
  <2>1. DOMAIN walk' = Clients
    BY <1>3
  <2>2. ASSUME NEW d \in Clients PROVE Stays(d)
    <3>1. /\ DOMAIN walk'[d] = {"seen", "kept", "done"}
          /\ walk'[d].seen = walk[d].seen /\ (walk'[d].done <=> walk[d].done)
          /\ walk'[d].kept = walk[d].kept \ Ids(found)
      BY <1>3 DEF OnWalk
    <3>2. Ids(rows) \ Ids(found) \subseteq Ids(rows')
      BY <1>3 DEF Ids
    <3>3. walk[d].kept \subseteq Ids(rows)
      BY DEF OnWalk
    <3> QED BY <3>1, <3>2, <3>3 DEF Stays
  <2> QED BY <2>1, <2>2
<1> QED BY <1>1, <1>2, <1>3

\* The keys of rows stay while walks do.
LEMMA WalksStay ==
    ASSUME Shape, SoundTable, Validated, DOMAIN walk = Clients, \A d \in Clients : OnWalk(d),
           NEW c \in Clients, ClientNext(c)
    PROVE  \/ DOMAIN walk' = Clients /\ \A d \in Clients : Stays(d)
           \/ \E req \in Wishes(c) : Ask(c, req)
           \/ Rows(c)
<1>1. ASSUME UNCHANGED walk, Ids(rows) \subseteq Ids(rows') PROVE DOMAIN walk' = Clients /\ \A d \in Clients : Stays(d)
  BY <1>1 DEF OnWalk, Stays
<1>2. CASE UNCHANGED <<rows, walk>>
  BY <1>1, <1>2
<1>3. ASSUME NEW how, Insert(c, how) PROVE DOMAIN walk' = Clients /\ \A d \in Clients : Stays(d)
  <2>1. rows \subseteq rows' /\ UNCHANGED walk
    BY <1>3, InsertStep DEF Shape, Insert
  <2> QED BY <1>1, <2>1 DEF Ids
<1>4. ASSUME NEW how, UpdateRow(c, how) PROVE DOMAIN walk' = Clients /\ \A d \in Clients : Stays(d)
  <2>1. UNCHANGED walk
    BY <1>4 DEF UpdateRow
  <2> QED BY <1>1, <1>4, <2>1, UpdateKeepsKeys
<1>5. \/ UNCHANGED <<rows, walk>>
      \/ \E req \in Wishes(c) : Ask(c, req)
      \/ Rows(c)
      \/ \E how : Insert(c, how)
      \/ \E how : UpdateRow(c, how)
      \/ \E how : DeleteRow(c, how)
  BY RenderStep, ClientSteps DEF Leave, Show, Count, GetObject, DatabaseFails, StartBind, BindField,
     FinishBind, Created, Assign
<1> QED BY <1>2, <1>3, <1>4, <1>5, DeleteStays

\* The page after the last key is asked for.
LEMMA AskWalks ==
    ASSUME WalksByCursor, Shape, SoundTable, DOMAIN walk = Clients, \A d \in Clients : OnWalk(d) /\ Asking(d),
           NEW c \in Clients, NEW req \in Wishes(c), Ask(c, req)
    PROVE  DOMAIN walk' = Clients /\ (OnWalk(c) /\ Asking(c))' /\ \A d \in Clients \ {c} : Stays(d)
<1> DEFINE begins == Sites[site][c].walks /\ req = WalkRequest
<1>1. /\ UNCHANGED <<site, rows>>
      /\ walk' = IF begins THEN [walk EXCEPT ![c] = [seen |-> <<>>, kept |-> Ids(rows), done |-> FALSE]] ELSE walk
  BY DEF Ask
<1>2. Arrives(c, req)
  BY WishesAreRequests, AskStep DEF Shape
<1>3. DOMAIN walk' = Clients /\ \A d \in Clients \ {c} : Stays(d)
  BY <1>1 DEF OnWalk, Stays
<1>4. CASE begins
  <2>1. walk'[c] = [seen |-> <<>>, kept |-> Ids(rows), done |-> FALSE]
    BY <1>1, <1>4
  <2>2. /\ DOMAIN walk'[c] = {"seen", "kept", "done"} /\ walk'[c].seen = <<>>
        /\ walk'[c].kept = Ids(rows) /\ ~walk'[c].done
    BY <2>1
  <2>3. <<>> \in Seq(Nat) /\ Len(<<>>) = 0
    OBVIOUS
  <2>4. OnWalk(c)'
    BY <1>1, <2>2, <2>3 DEF OnWalk, Ascends, Ahead
  <2>5. ASSUME call'[c].pc \in {"count", "rows"} PROVE PlansAfter(call'[c].plan, walk'[c].seen)
    <3>1. Begun(c, req)
      BY <1>2, <2>5 DEF Arrives
    <3>2. PlansAfter(call'[c].plan, <<>>)
      BY <1>4, <2>3, <2>5, <3>1, WalkPlans
    <3> QED BY <2>2, <3>2
  <2> QED BY <1>3, <2>4, <2>5 DEF Asking
<1>5. CASE ~begins
  <2>1. walk' = walk
    BY <1>1, <1>5
  <2>2. OnWalk(c)'
    BY <1>1, <2>1 DEF OnWalk
  <2>3. ASSUME Sites[site][c].walks, call'[c].pc \in {"count", "rows"} PROVE PlansAfter(call'[c].plan, walk[c].seen)
    <3>1. Begun(c, req)
      BY <1>2, <2>3 DEF Arrives
    <3>2. Sites[site][c].asks = {}
      BY <2>3 DEF WalksByCursor, Shape
    <3>3. Goes(c) /\ req = Continued(Last1(walk[c].seen))
      BY <1>5, <2>3, <3>2 DEF Wishes
    <3>4. walk[c].seen # <<>> /\ Last1(walk[c].seen) \in DOMAIN CursorOf /\ walk[c].seen \in Seq(Nat)
      BY <3>3 DEF Goes, OnWalk
    <3> QED BY <2>3, <3>1, <3>3, <3>4, WalkPlans
  <2> QED BY <1>1, <1>3, <2>1, <2>2, <2>3 DEF Asking
<1> QED BY <1>4, <1>5

\* The page is shown.
LEMMA RowsWalks ==
    ASSUME WalksByCursor, Shape, SoundTable, DOMAIN walk = Clients, \A d \in Clients : OnWalk(d) /\ Asking(d),
           NEW c \in Clients, Rows(c)
    PROVE  DOMAIN walk' = Clients /\ OnWalk(c)' /\ \A d \in Clients \ {c} : Stays(d)
<1> DEFINE plan == call[c].plan
           seen == walk[c].seen
<1>1. call[c].pc = "rows" /\ UNCHANGED <<site, rows>>
  BY DEF Rows, At
<1>2. CASE walk' = walk
  BY <1>1, <1>2 DEF OnWalk, Stays
<1>3. ASSUME NEW s \in Listings(plan.ordering, Chosen(plan, rows)), NEW keys,
             keys = [i \in DOMAIN Cut(plan, s) |-> Cut(plan, s)[i][Key]],
             Sites[site][c].walks, walk' = Walked(c, keys)
      PROVE  DOMAIN walk' = Clients /\ OnWalk(c)' /\ \A d \in Clients \ {c} : Stays(d)
  <2> DEFINE now == seen \o keys
             done == Len(Cut(plan, s)) < plan.limit
  <2>1. Null \notin Nat /\ seen \in Seq(Nat) /\ Ascends(seen) /\ PlansAfter(plan, seen)
    BY <1>1, <1>3 DEF WalksByCursor, OnWalk, Asking
  <2>2. /\ now \in Seq(Nat) /\ Ascends(now)
        /\ \A k \in Ids(rows) : Passed(seen, k) \/ Ahead(seen, k) => Passed(now, k) \/ (~done /\ Ahead(now, k))
    BY <1>3, <2>1, PageShows
  <2>3. Len(keys) = Len(Cut(plan, s))
    BY <1>3
  <2>4. /\ DOMAIN walk' = Clients /\ \A d \in Clients \ {c} : walk'[d] = walk[d]
        /\ DOMAIN walk'[c] = {"seen", "kept", "done"} /\ walk'[c].seen = now
        /\ walk'[c].kept = walk[c].kept /\ (walk'[c].done <=> done)
    BY <1>3, <2>3 DEF Walked, OnWalk
  <2> HIDE DEF now, done, seen, plan
  <2>5. \A k \in walk[c].kept : Passed(now, k) \/ (~done /\ Ahead(now, k))
    BY <2>2 DEF OnWalk, seen
  <2>6. OnWalk(c)'
    BY <1>1, <2>2, <2>4, <2>5 DEF OnWalk
  <2>7. \A d \in Clients \ {c} : Stays(d)
    BY <1>1, <2>4 DEF OnWalk, Stays
  <2> QED BY <2>4, <2>6, <2>7
<1>4. PICK s \in Listings(plan.ordering, Chosen(plan, rows)) :
         LET page == Cut(plan, s) IN
         walk' = IF Sites[site][c].walks /\ ~walk[c].done
                 THEN Walked(c, [i \in DOMAIN page |-> page[i][Key]]) ELSE walk
  BY DEF Rows
<1> HIDE DEF plan
<1> QED BY <1>2, <1>3, <1>4

LEMMA StepAsking ==
    ASSUME Shape, NEW c \in Clients, Asking(c), Stays(c), ClientNext(c), ~\E req \in Wishes(c) : Ask(c, req) PROVE Asking(c)'
<1>1. Calls
  BY DEF Shape
<1>2. CASE Count(c)
  <2>1. call[c].pc = "count" /\ call'[c].plan = call[c].plan /\ UNCHANGED site
    BY <1>1, <1>2, CountStep DEF Turns, On, Count
  <2> QED BY <2>1 DEF Asking, Stays
<1>3. CASE Render(c)
  BY <1>3, RenderStep DEF Asking, Stays
<1>4. ASSUME call'[c].pc \notin {"count", "rows"} PROVE Asking(c)'
  BY <1>4 DEF Asking
<1>5. CASE Leave(c)
  BY <1>1, <1>4, <1>5, LeaveStep, FreshFields
<1>6. CASE Show(c)
  BY <1>1, <1>4, <1>6, ShowStep DEF Turns, On
<1>7. CASE Rows(c)
  BY <1>1, <1>4, <1>7, RowsStep DEF Ends, On
<1>8. CASE GetObject(c)
  BY <1>1, <1>4, <1>8, GetObjectStep DEF Ends, Gets, On
<1>9. CASE DatabaseFails(c)
  BY <1>1, <1>4, <1>9, DatabaseFailsStep DEF Ends, On
<1>10. CASE StartBind(c) \/ BindField(c) \/ FinishBind(c)
  BY <1>1, <1>4, <1>10, StartBindStep, BindFieldStep, FinishBindStep DEF Ends, Turns, On
<1>11. CASE Created(c) \/ Assign(c)
  BY <1>1, <1>4, <1>11, CreatedStep, AssignStep DEF Ends, Turns, On
<1>12. ASSUME NEW how, Insert(c, how) \/ UpdateRow(c, how) \/ DeleteRow(c, how) PROVE Asking(c)'
  <2>1. CASE Insert(c, how)
    BY <1>1, <1>4, <2>1, InsertStep DEF Ends, Writing, On
  <2>2. CASE UpdateRow(c, how)
    BY <1>1, <1>4, <2>2, UpdateRowStep DEF Ends, Writing, On
  <2>3. CASE DeleteRow(c, how)
    BY <1>1, <1>4, <2>3, DeleteRowStep DEF Ends, Writing, On
  <2> QED BY <1>12, <2>1, <2>2, <2>3
<1> QED BY <1>2, <1>3, <1>5, <1>6, <1>7, <1>8, <1>9, <1>10, <1>11, <1>12, ClientSteps

WalkInv == DOMAIN walk = Clients /\ \A d \in Clients : OnWalk(d) /\ Asking(d)

LEMMA StepWalks ==
    ASSUME WalksByCursor, Shape, SoundTable, Validated, WalkInv, NEW c \in Clients, ClientNext(c) PROVE WalkInv'
<1>1. UNCHANGED site /\ \A d \in Clients \ {c} : call'[d].pc = call[d].pc /\ call'[d].plan = call[d].plan
  BY ClientOnly DEF Only, Kept
<1>2. ASSUME NEW d \in Clients \ {c}, Stays(d) PROVE (OnWalk(d) /\ Asking(d))'
  BY <1>1, <1>2, StaysOnWalk DEF WalkInv, Asking, Stays
<1>3. CASE \E req \in Wishes(c) : Ask(c, req)
  BY <1>2, <1>3, AskWalks DEF WalkInv
<1>4. CASE Rows(c)
  <2>1. DOMAIN walk' = Clients /\ OnWalk(c)' /\ \A d \in Clients \ {c} : Stays(d)
    BY <1>4, RowsWalks DEF WalkInv
  <2>2. call'[c].pc = "answered"
    BY <1>4, RowsStep DEF Shape, Ends, On
  <2> QED BY <1>2, <2>1, <2>2 DEF WalkInv, Asking
<1>5. CASE /\ DOMAIN walk' = Clients /\ \A d \in Clients : Stays(d)
           /\ ~\E req \in Wishes(c) : Ask(c, req)
  <2>1. OnWalk(c)' /\ Asking(c)'
    BY <1>5, StaysOnWalk, StepAsking DEF WalkInv
  <2> QED BY <1>2, <1>5, <2>1 DEF WalkInv
<1> QED BY <1>3, <1>4, <1>5, WalksStay DEF WalkInv

\* A walk by the cursor is complete and shows no row twice, whatever others insert,
\* change and delete between its pages, of whatever size these are, and whatever
\* statement of it fails (pagination.go:107-146): the cursor is the last key seen,
\* and keys do not change and are not used again.
THEOREM CursorWalkIsCompleteAlways ==
    ASSUME KeyIsReadOnly, WalksByCursor PROVE SiteSpec => []CursorWalkIsComplete
<1>1. SiteInit => WalkInv
  <2> SUFFICES ASSUME SiteInit PROVE WalkInv
    OBVIOUS
  <2>1. /\ walk = [c \in Clients |-> [seen |-> <<>>, kept |-> {}, done |-> TRUE]]
        /\ call = [c \in Clients |-> Fresh]
    BY DEF SiteInit
  <2>2. ASSUME NEW d \in Clients PROVE OnWalk(d)
    <3>1. walk[d] = [seen |-> <<>>, kept |-> {}, done |-> TRUE]
      BY <2>1
    <3>2. /\ DOMAIN walk[d] = {"seen", "kept", "done"} /\ walk[d].seen = <<>> /\ walk[d].kept = {}
          /\ <<>> \in Seq(Nat) /\ Len(<<>>) = 0
      BY <3>1
    <3> QED BY <3>2 DEF OnWalk, Ascends
  <2>3. ASSUME NEW d \in Clients PROVE Asking(d)
    BY <2>1, FreshFields DEF Asking
  <2> QED BY <2>1, <2>2, <2>3 DEF WalkInv
<1>2. Shape /\ TableHolds /\ WalkInv /\ [SiteNext]_vars => WalkInv'
  <2> SUFFICES ASSUME Shape, SoundTable, Validated, WalkInv, [SiteNext]_vars PROVE WalkInv'
    BY DEF TableHolds
  <2>1. CASE UNCHANGED <<site, rows, call, walk>>
    BY <2>1 DEF WalkInv, OnWalk, Asking, Ids
  <2>2. CASE Starting \/ Listen \/ MapWritesCollide
    BY <2>1, <2>2, OtherSteps
  <2>3. ASSUME NEW c \in Clients, ClientNext(c) PROVE WalkInv'
    BY <2>3, StepWalks
  <2>4. CASE UNCHANGED vars
    BY <2>1, <2>4 DEF vars, siteVars
  <2> QED BY <2>2, <2>3, <2>4 DEF SiteNext
<1>3. WalkInv => CursorWalkIsComplete
  <2> SUFFICES ASSUME WalkInv, NEW c \in Clients
               PROVE  /\ \A i, j \in DOMAIN walk[c].seen : i # j => walk[c].seen[i] # walk[c].seen[j]
                      /\ walk[c].done => walk[c].kept \subseteq {walk[c].seen[i] : i \in DOMAIN walk[c].seen}
    BY DEF CursorWalkIsComplete
  <2> DEFINE seen == walk[c].seen
  <2>1. seen \in Seq(Nat) /\ Ascends(seen) /\ DOMAIN seen = 1..Len(seen)
    BY DEF WalkInv, OnWalk
  <2>2. \A i \in 1..Len(seen) : seen[i] \in Nat
    BY <2>1
  <2>3. ASSUME NEW i \in 1..Len(seen), NEW j \in 1..Len(seen), i # j PROVE seen[i] # seen[j]
    <3>1. seen[i] < seen[j] \/ seen[j] < seen[i]
      BY <2>1, <2>3 DEF Ascends
    <3> QED BY <2>2, <3>1
  <2>4. walk[c].done => \A k \in walk[c].kept : Passed(seen, k)
    BY DEF WalkInv, OnWalk
  <2> HIDE DEF seen
  <2>5. walk[c].done => walk[c].kept \subseteq {seen[i] : i \in DOMAIN seen}
    BY <2>1, <2>4 DEF Passed
  <2> QED BY <2>1, <2>3, <2>5 DEF seen
<1> QED BY <1>1, <1>2, <1>3, ShapeHolds, TableAlways, PTL DEF SiteSpec
-----------------------------------------------------------------------------
(* A path that is built from a name leads back to its pattern.             *)

FitsAll(way, path) == Len(way) = Len(path) /\ \A i \in 1..Len(path) : Fits(way[i], path[i])

LEMMA OnlyOne ==
    ASSUME NEW a, NEW one, one = <<a>> PROVE Len(one) = 1 /\ 1 \in DOMAIN one /\ one[1] = a
OBVIOUS

LEMMA OneSegment ==
    ASSUME NEW route \in Seq(Segments), Len(route) = 1 PROVE route = <<route[1]>> /\ route[1] \in Segments
OBVIOUS

LEMMA Joined ==
    ASSUME NEW f \in Seq(Segments), NEW g \in Seq(Segments)
    PROVE  /\ f \o g \in Seq(Segments) /\ Len(f \o g) = Len(f) + Len(g)
           /\ \A i \in 1..Len(f) : (f \o g)[i] = f[i]
           /\ \A i \in 1..Len(g) : (f \o g)[Len(f) + i] = g[i]
OBVIOUS

LEMMA JoinedTexts ==
    ASSUME NEW f \in Seq(STRING), NEW g \in Seq(STRING)
    PROVE  /\ f \o g \in Seq(STRING) /\ Len(f \o g) = Len(f) + Len(g)
           /\ \A i \in 1..Len(f) : (f \o g)[i] = f[i]
           /\ \A i \in 1..Len(g) : (f \o g)[Len(f) + i] = g[i]
OBVIOUS

LEMMA CutInTwo ==
    ASSUME NEW f \in Seq(STRING), NEW g \in Seq(STRING)
    PROVE  SubSeq(f \o g, 1, Len(f)) = f /\ SubSeq(f \o g, Len(f) + 1, Len(f \o g)) = g
OBVIOUS

LEMMA ShortSequences ==
    ASSUME NEW S, NEW a \in S, NEW b \in S PROVE <<a>> \in Seq(S) /\ <<a, b>> \in Seq(S)
OBVIOUS

LEMMA NameOfOne ==
    ASSUME NEW a \in STRING, NEW name, name = <<a>> PROVE name \in Seq(STRING) /\ name[Len(name)] = a
<1>1. <<a>> \in Seq(STRING)
  BY ShortSequences
<1>2. Len(name) = 1 /\ name[1] = a
  BY OnlyOne
<1> QED BY <1>1, <1>2, Zenon

LEMMA NameOfTwo ==
    ASSUME NEW a \in STRING, NEW b \in STRING, NEW name, name = <<a, b>>
    PROVE  name \in Seq(STRING) /\ name[Len(name)] = b
<1>1. <<a, b>> \in Seq(STRING)
  BY ShortSequences
<1>2. Len(<<a, b>>) = 2 /\ <<a, b>>[2] = b
  OBVIOUS
<1> QED BY <1>1, <1>2, Zenon

LEMMA SegmentTypes ==
    ASSUME NEW s \in Segments
    PROVE  \/ ~IsArg(s) /\ s.lit \in STRING /\ s = Lit(s.lit)
           \/ IsArg(s) /\ s.param \in STRING
BY DEF Segments, IsArg, Lit

LEMMA Literals ==
    ASSUME NEW texts \in Seq(STRING)
    PROVE  /\ Literal(texts) \in Seq(Segments) /\ Len(Literal(texts)) = Len(texts)
           /\ \A i \in 1..Len(texts) : Literal(texts)[i] = Lit(texts[i])
<1>1. \A text \in STRING : Lit(text) \in Segments
  BY DEF Lit, Segments
<1>2. Literal(texts) = [i \in 1..Len(texts) |-> Lit(texts[i])] /\ Len(texts) \in Nat
  BY DEF Literal
<1>3. ASSUME NEW i \in 1..Len(texts) PROVE Lit(texts[i]) \in Segments
  <2>1. texts[i] \in STRING
    OBVIOUS
  <2> QED BY <1>1, <2>1, Zenon
<1> QED BY <1>2, <1>3

LEMMA LitFits ==
    ASSUME NEW text, NEW other PROVE Fits(Lit(text), other) <=> text = other
BY DEF Fits, IsArg, Lit

\* Two ways that differ do not take one path.
LEMMA DifferentWays ==
    ASSUME NEW path \in Seq(STRING), NEW f \in Seq(Segments), NEW g \in Seq(Segments), FitsAll(f, path), FitsAll(g, path)
    PROVE  ~Differ(f, g)
<1>1. Len(f) = Len(g) /\ DOMAIN f = 1..Len(path)
  BY DEF FitsAll
<1>2. ASSUME NEW i \in 1..Len(path), Apart(f[i], g[i]) PROVE FALSE
  <2>1. f[i] \in Segments /\ g[i] \in Segments /\ Fits(f[i], path[i]) /\ Fits(g[i], path[i])
    BY <1>1, <1>2 DEF FitsAll
  <2>2. CASE IsArg(f[i])
    <3>1. ~IsArg(g[i]) /\ ~Fits(f[i], g[i].lit)
      BY <1>2, <2>2 DEF Apart
    <3>2. g[i].lit = path[i]
      BY <2>1, <3>1 DEF Fits
    <3> QED BY <2>1, <3>1, <3>2
  <2>3. CASE ~IsArg(f[i])
    <3>1. ~Fits(g[i], f[i].lit)
      BY <1>2, <2>3 DEF Apart
    <3>2. f[i].lit = path[i]
      BY <2>1, <2>3 DEF Fits
    <3> QED BY <2>1, <3>1, <3>2
  <2> QED BY <2>2, <2>3
<1> QED BY <1>1, <1>2 DEF Differ

LEMMA PatternAt ==
    ASSUME NEW P, NEW e \in AllPatterns(P)
    PROVE  \E i \in DOMAIN P :
              \/ ~IsInclude(P[i]) /\ e = [at |-> <<i, 0>>, prefix |-> <<>>, pattern |-> P[i]]
              \/ /\ IsInclude(P[i])
                 /\ \E j \in DOMAIN P[i].patterns :
                       e = [at |-> <<i, j>>, prefix |-> P[i].prefix, pattern |-> P[i].patterns[j]]
BY DEF AllPatterns

LEMMA PatternsAre ==
    ASSUME NEW P, NEW i \in DOMAIN P
    PROVE  /\ ~IsInclude(P[i]) => [at |-> <<i, 0>>, prefix |-> <<>>, pattern |-> P[i]] \in AllPatterns(P)
           /\ IsInclude(P[i]) => \A j \in DOMAIN P[i].patterns :
                 [at |-> <<i, j>>, prefix |-> P[i].prefix, pattern |-> P[i].patterns[j]] \in AllPatterns(P)
BY DEF AllPatterns

LEMMA WholeTypes ==
    ASSUME NEW e, e.prefix \in Seq(STRING), e.pattern.route \in Seq(Segments)
    PROVE  /\ Whole(e) \in Seq(Segments) /\ Len(Whole(e)) = Len(e.prefix) + Len(e.pattern.route)
           /\ \A i \in 1..Len(e.prefix) : Whole(e)[i] = Lit(e.prefix[i])
           /\ \A i \in 1..Len(e.pattern.route) : Whole(e)[Len(e.prefix) + i] = e.pattern.route[i]
<1> DEFINE first == Literal(e.prefix)
<1>1. first \in Seq(Segments) /\ Len(first) = Len(e.prefix) /\ \A i \in 1..Len(e.prefix) : first[i] = Lit(e.prefix[i])
  BY Literals
<1>2. Whole(e) = first \o e.pattern.route
  BY DEF Whole
<1> HIDE DEF first
<1> DEFINE route == e.pattern.route
<1>3. route \in Seq(Segments)
  OBVIOUS
<1> HIDE DEF route
<1>4. /\ first \o route \in Seq(Segments) /\ Len(first \o route) = Len(first) + Len(route)
      /\ \A i \in 1..Len(first) : (first \o route)[i] = first[i]
      /\ \A i \in 1..Len(route) : (first \o route)[Len(first) + i] = route[i]
  BY <1>1, <1>3, Joined
<1>5. /\ Whole(e) \in Seq(Segments) /\ Len(Whole(e)) = Len(e.prefix) + Len(route)
      /\ \A i \in 1..Len(e.prefix) : Whole(e)[i] = first[i]
      /\ \A i \in 1..Len(route) : Whole(e)[Len(e.prefix) + i] = route[i]
  BY <1>1, <1>2, <1>4 DEF route
<1> QED BY <1>1, <1>5 DEF route

\* What an include finds below its prefix goes one of the ways of the pattern.
LEMMA FoundBelow ==
    ASSUME NEW e, e.prefix \in Seq(STRING), e.pattern.route \in Seq(Segments), NEW path \in Seq(STRING),
           Under(e.prefix, path), Matches(e.pattern, Remaining(e.prefix, path))
    PROVE  \E way \in Ways(e) : way \in Seq(Segments) /\ FitsAll(way, path)
<1> DEFINE prefix == e.prefix
           route == e.pattern.route
           rest == Remaining(prefix, path)
<1>1. Len(prefix) <= Len(path) /\ SubSeq(path, 1, Len(prefix)) = prefix
  BY DEF Under
<1>2. Len(route) = Len(rest) /\ \A i \in DOMAIN rest : Fits(route[i], rest[i])
  BY DEF Matches
<1>3. /\ Whole(e) \in Seq(Segments) /\ Len(Whole(e)) = Len(prefix) + Len(route)
      /\ \A i \in 1..Len(prefix) : Whole(e)[i] = Lit(prefix[i])
      /\ \A i \in 1..Len(route) : Whole(e)[Len(prefix) + i] = route[i]
  BY WholeTypes
<1>4. /\ Literal(prefix) \in Seq(Segments) /\ Len(Literal(prefix)) = Len(prefix)
      /\ \A i \in 1..Len(prefix) : Literal(prefix)[i] = Lit(prefix[i])
  BY Literals
<1>5. prefix \in Seq(STRING) /\ route \in Seq(Segments) /\ Len(prefix) \in Nat /\ Len(route) \in Nat /\ Len(path) \in Nat
  OBVIOUS
<1>6. rest = IF Len(path) = Len(prefix) THEN <<"">> ELSE SubSeq(path, Len(prefix) + 1, Len(path))
  BY DEF Remaining
<1>7. Whole(e) \in Ways(e) /\ (route = <<Lit("")>> => Literal(prefix) \in Ways(e))
  BY DEF Ways
<1> HIDE DEF prefix, route, rest
<1>8. \A i \in 1..Len(prefix) : path[i] = prefix[i]
  <2>1. \A i \in 1..Len(prefix) : SubSeq(path, 1, Len(prefix))[i] = path[i]
    BY <1>1, <1>5
  <2> QED BY <1>1, <2>1
<1>9. CASE Len(path) = Len(prefix)
  <2>1. rest = <<"">>
    BY <1>6, <1>9
  <2>2. Len(rest) = 1 /\ 1 \in DOMAIN rest /\ rest[1] = ""
    BY <2>1, OnlyOne
  <2>3. Len(route) = 1 /\ Fits(route[1], "")
    BY <1>2, <2>2
  <2>4. route = <<route[1]>> /\ route[1] \in Segments
    BY <1>5, <2>3, OneSegment
  <2>5. ~IsArg(route[1])
    BY <2>3 DEF Fits, Converts
  <2>6. route[1] = Lit("")
    BY <2>3, <2>4, <2>5, SegmentTypes DEF Fits
  <2>7. Literal(prefix) \in Ways(e)
    BY <1>7, <2>4, <2>6
  <2>8. FitsAll(Literal(prefix), path)
    BY <1>4, <1>8, <1>9, LitFits DEF FitsAll
  <2> QED BY <1>4, <2>7, <2>8
<1>10. CASE Len(path) > Len(prefix)
  <2>1. rest = SubSeq(path, Len(prefix) + 1, Len(path))
    <3>1. Len(path) # Len(prefix)
      BY <1>5, <1>10
    <3> QED BY <1>6, <3>1, Zenon
  <2>2. Len(rest) = Len(path) - Len(prefix) /\ DOMAIN rest = 1..Len(rest) /\ \A i \in 1..Len(rest) : rest[i] = path[Len(prefix) + i]
    BY <1>5, <1>10, <2>1
  <2>3. Len(path) = Len(prefix) + Len(route) /\ DOMAIN rest = 1..Len(route)
    BY <1>2, <1>5, <2>2
  <2>4. ASSUME NEW i \in 1..Len(path) PROVE Fits(Whole(e)[i], path[i])
    <3>1. CASE i <= Len(prefix)
      <4>1. i \in 1..Len(prefix)
        BY <1>5, <3>1
      <4> QED BY <1>3, <1>8, <4>1, LitFits
    <3>2. CASE i > Len(prefix)
      <4> DEFINE k == i - Len(prefix)
      <4>1. k \in 1..Len(route) /\ i = Len(prefix) + k
        BY <1>5, <2>3, <3>2
      <4> HIDE DEF k
      <4>2. Whole(e)[i] = route[k]
        BY <1>3, <4>1
      <4>3. path[i] = rest[k] /\ Fits(route[k], rest[k])
        BY <1>2, <2>2, <2>3, <4>1
      <4> QED BY <4>2, <4>3
    <3> QED BY <1>5, <3>1, <3>2
  <2>5. FitsAll(Whole(e), path)
    BY <1>3, <2>3, <2>4 DEF FitsAll
  <2> QED BY <1>3, <1>7, <2>5
<1> QED BY <1>1, <1>5, <1>9, <1>10

\* Whatever entry makes something of a path, one of its patterns goes that way.
GoesBy(o, i, path) == o.at[1] = i /\ \E way \in Ways(o) : way \in Seq(Segments) /\ FitsAll(way, path)
SomeGoesBy(P, i, path) == \E o \in AllPatterns(P) : GoesBy(o, i, path)

LEMMA ResolvedGoes ==
    ASSUME NEW P, WellFormed(P), NEW i \in DOMAIN P, NEW path \in Seq(STRING), Resolved(P[i], path) # NoMatch
    PROVE  SomeGoesBy(P, i, path)
<1>1. CASE ~IsInclude(P[i])
  <2> DEFINE e == [at |-> <<i, 0>>, prefix |-> <<>>, pattern |-> P[i]]
  <2>1. e \in AllPatterns(P)
    BY <1>1, PatternsAre
  <2>2. Resolved(P[i], path) = FirstMatch(<<P[i]>>, path, "")
    BY <1>1 DEF Resolved
  <2>3. {k \in DOMAIN <<P[i]>> : Matches(<<P[i]>>[k], path)} # {}
    BY <2>2 DEF FirstMatch
  <2>4. Matches(P[i], path)
    BY <2>3
  <2>5. e.prefix = <<>> /\ e.pattern = P[i] /\ e.at[1] = i
    OBVIOUS
  <2> HIDE DEF e
  <2>6. e.prefix \in Seq(STRING) /\ e.pattern.route \in Seq(Segments)
    BY <2>1 DEF WellFormed
  <2>7. Len(e.prefix) = 0 /\ Len(e.pattern.route) = Len(path) /\ \A k \in 1..Len(path) : Fits(e.pattern.route[k], path[k])
    BY <2>4, <2>5 DEF Matches
  <2>8. Whole(e) \in Seq(Segments) /\ FitsAll(Whole(e), path)
    <3>1. Whole(e) \in Seq(Segments) /\ Len(Whole(e)) = Len(path)
      <4>1. Whole(e) \in Seq(Segments) /\ Len(Whole(e)) = Len(e.prefix) + Len(e.pattern.route)
        BY <2>6, WholeTypes
      <4>2. Len(path) \in Nat
        OBVIOUS
      <4> QED BY <2>7, <4>1, <4>2
    <3>2. \A k \in 1..Len(path) : Whole(e)[0 + k] = e.pattern.route[k]
      BY <2>6, <2>7, WholeTypes
    <3>3. \A k \in 1..Len(path) : Whole(e)[k] = e.pattern.route[k]
      BY <3>2
    <3> QED BY <2>7, <3>1, <3>3 DEF FitsAll
  <2> QED BY <2>1, <2>5, <2>8 DEF Ways, SomeGoesBy, GoesBy
<1>2. CASE IsInclude(P[i])
  <2>1. /\ Resolved(P[i], path) = IF ~Under(P[i].prefix, path) THEN NoMatch
                                  ELSE FirstMatch(P[i].patterns, Remaining(P[i].prefix, path), P[i].namespace)
    BY <1>2 DEF Resolved
  <2>2. Under(P[i].prefix, path) /\ \E j \in DOMAIN P[i].patterns : Matches(P[i].patterns[j], Remaining(P[i].prefix, path))
    BY <2>1 DEF FirstMatch
  <2>3. PICK j \in DOMAIN P[i].patterns : Matches(P[i].patterns[j], Remaining(P[i].prefix, path))
    BY <2>2
  <2> DEFINE e == [at |-> <<i, j>>, prefix |-> P[i].prefix, pattern |-> P[i].patterns[j]]
  <2>4. e \in AllPatterns(P)
    BY <1>2, PatternsAre
  <2>5. e.prefix = P[i].prefix /\ e.pattern = P[i].patterns[j] /\ e.at[1] = i
    OBVIOUS
  <2> HIDE DEF e
  <2>6. e.prefix \in Seq(STRING) /\ e.pattern.route \in Seq(Segments)
    BY <2>4 DEF WellFormed
  <2>7. \E way \in Ways(e) : way \in Seq(Segments) /\ FitsAll(way, path)
    BY <2>2, <2>3, <2>5, <2>6, FoundBelow
  <2> QED BY <2>4, <2>5, <2>7 DEF SomeGoesBy, GoesBy
<1> QED BY <1>1, <1>2

\* Of the places where something is found the first is taken.
LEMMA FirstIs ==
    ASSUME NEW hits \in SUBSET Nat, NEW i \in hits, \A j \in hits : ~(j < i) PROVE First(hits) = i
<1>1. \A j \in hits : i <= j
  OBVIOUS
<1>2. \A k \in hits : (\A j \in hits : k <= j) => k = i
  BY <1>1
<1> QED BY <1>1, <1>2 DEF First

LEMMA EntryIsPattern ==
    ASSUME NEW P, WellFormed(P), NEW e \in Entries(P)
    PROVE  /\ e \in AllPatterns(P) /\ e.at[1] \in Nat /\ e.at[2] \in Nat /\ e.prefix \in Seq(STRING)
           /\ e.pattern.route \in Seq(Segments) /\ e.pattern.route # <<>> /\ e.pattern.name \in STRING
<1>1. e \in AllPatterns(P)
  BY DEF Entries
<1> QED BY <1>1 DEF WellFormed

\* The last pattern of a name is the one that the index has.
LEMMA IndexHasLast ==
    ASSUME NEW P, WellFormed(P), NEW e \in Entries(P), IsLast(P, e)
    PROVE  e.pattern.name \in DOMAIN indexPatterns(P) /\ indexPatterns(P)[e.pattern.name] = e
<1> DEFINE n == e.pattern.name
           named == {o \in Entries(P) : o.pattern.name = n}
<1>1. n \in DOMAIN indexPatterns(P)
      /\ indexPatterns(P)[n] = CHOOSE x \in named : \A o \in named : o = x \/ Earlier(o.at, x.at)
  BY DEF indexPatterns
<1>2. e \in named /\ \A o \in named : o = e \/ Earlier(o.at, e.at)
  BY DEF IsLast
<1>3. ASSUME NEW x \in named, \A o \in named : o = x \/ Earlier(o.at, x.at) PROVE x = e
  <2>1. e = x \/ (Earlier(e.at, x.at) /\ Earlier(x.at, e.at))
    BY <1>2, <1>3
  <2>2. x.at[1] \in Nat /\ x.at[2] \in Nat /\ e.at[1] \in Nat /\ e.at[2] \in Nat
    BY <1>3, EntryIsPattern
  <2> QED BY <2>1, <2>2 DEF Earlier
<1> HIDE DEF named
<1>4. (CHOOSE x \in named : \A o \in named : o = x \/ Earlier(o.at, x.at)) = e
  BY <1>2, <1>3
<1> QED BY <1>1, <1>4

\* What buildReverse puts in the places of a route.
Filled(route, params) == [i \in DOMAIN route |-> IF IsArg(route[i]) THEN params[route[i].param] ELSE route[i].lit]

LEMMA ReverseBuilds ==
    ASSUME NEW P, WellFormed(P), NEW e \in Entries(P), IsLast(P, e), NEW params, Takes(e, params), IsPlain(e),
           NEW name, name[Len(name)] = e.pattern.name
    PROVE  Reverse(P, name, params) = e.prefix \o Filled(e.pattern.route, params)
<1>1. e.pattern.name \in DOMAIN indexPatterns(P) /\ indexPatterns(P)[e.pattern.name] = e
  BY IndexHasLast
<1>2. ParamsOf(e.pattern.route) \subseteq DOMAIN params
  BY DEF Takes
<1> DEFINE route == e.pattern.route
<1>3. [i \in DOMAIN route |-> IF IsArg(route[i]) THEN params[route[i].param] ELSE Quoted(route[i].lit)]
         = Filled(route, params)
  BY DEF IsPlain, Filled
<1> QED BY <1>1, <1>2, <1>3 DEF Reverse

LEMMA FilledFits ==
    ASSUME NEW e, e.pattern.route \in Seq(Segments), NEW params, Takes(e, params)
    PROVE  LET route == e.pattern.route
               texts == Filled(route, params)
           IN /\ texts \in Seq(STRING) /\ Len(texts) = Len(route) /\ \A i \in 1..Len(route) : Fits(route[i], texts[i])
              /\ [p \in ParamsOf(route) |-> texts[Place(route, p)]] = params
<1> DEFINE route == e.pattern.route
           texts == Filled(route, params)
<1>1. /\ route \in Seq(Segments) /\ Len(route) \in Nat /\ DOMAIN route = 1..Len(route)
      /\ params \in [ParamsOf(route) -> STRING]
      /\ \A i \in DOMAIN route : IsArg(route[i]) => Converts(route[i].converter, params[route[i].param])
  BY DEF Takes
<1>2. texts = [i \in 1..Len(route) |-> IF IsArg(route[i]) THEN params[route[i].param] ELSE route[i].lit]
  BY <1>1 DEF Filled
<1> HIDE DEF route, texts
<1>3. ASSUME NEW i \in 1..Len(route) PROVE texts[i] \in STRING /\ Fits(route[i], texts[i])
  <2>1. route[i] \in Segments
    BY <1>1
  <2>2. CASE IsArg(route[i])
    <3>1. texts[i] = params[route[i].param]
      BY <1>2, <2>2
    <3>2. route[i].param \in ParamsOf(route)
      BY <1>1, <2>2 DEF ParamsOf
    <3> QED BY <1>1, <2>2, <3>1, <3>2 DEF Fits
  <2>3. CASE ~IsArg(route[i])
    <3>1. texts[i] = route[i].lit
      BY <1>2, <2>3
    <3>2. route[i].lit \in STRING
      BY <2>1, <2>3, SegmentTypes
    <3> QED BY <2>3, <3>1, <3>2 DEF Fits
  <2> QED BY <2>2, <2>3
<1>4. texts \in Seq(STRING) /\ Len(texts) = Len(route)
  BY <1>1, <1>2, <1>3
<1>5. ASSUME NEW p \in ParamsOf(route) PROVE texts[Place(route, p)] = params[p]
  <2>1. \E i \in DOMAIN route : IsArg(route[i]) /\ route[i].param = p
    BY DEF ParamsOf
  <2> DEFINE i == Place(route, p)
  <2>2. i \in DOMAIN route /\ IsArg(route[i]) /\ route[i].param = p
    BY <2>1 DEF Place
  <2> HIDE DEF i
  <2>3. texts[i] = params[p]
    BY <1>1, <1>2, <2>2
  <2> QED BY <2>3 DEF i
<1>6. [p \in ParamsOf(route) |-> texts[Place(route, p)]] = params
  BY <1>1, <1>5
<1> QED BY <1>3, <1>4, <1>6 DEF route, texts

\* No pattern before e takes a path that goes the way of e.
LEMMA NoneBefore ==
    ASSUME NEW P, WellFormed(P), NEW e \in Entries(P), IsFree(P, e), NEW path \in Seq(STRING), FitsAll(Whole(e), path),
           NEW o \in AllPatterns(P), NEW way \in Ways(o), way \in Seq(Segments), FitsAll(way, path)
    PROVE  ~Earlier(o.at, e.at)
<1>1. Whole(e) \in Seq(Segments)
  BY EntryIsPattern, WholeTypes
<1>2. ~Differ(way, Whole(e))
  BY <1>1, DifferentWays
<1> QED BY <1>2 DEF IsFree

\* The entry of e makes of the path what e does, with the params it was built from.
Gives(found, e, params) ==
    \E name \in Seq(STRING) :
       found = [handler |-> e.pattern.handler, name |-> name, params |-> params] /\ name[Len(name)] = e.pattern.name

LEMMA EntryFinds ==
    ASSUME NEW P, WellFormed(P), NEW e \in Entries(P), IsFree(P, e), NEW params, Takes(e, params),
           NEW path, path = e.prefix \o Filled(e.pattern.route, params)
    PROVE  /\ path \in Seq(STRING) /\ FitsAll(Whole(e), path) /\ e.at[1] \in DOMAIN P
           /\ Gives(Resolved(P[e.at[1]], path), e, params)
<1> DEFINE prefix == e.prefix
           route == e.pattern.route
           texts == Filled(route, params)
           Made(name) == [handler |-> e.pattern.handler, name |-> name, params |-> params]
<1>1. /\ e \in AllPatterns(P) /\ e.at[1] \in Nat /\ e.at[2] \in Nat /\ prefix \in Seq(STRING)
      /\ route \in Seq(Segments) /\ route # <<>> /\ e.pattern.name \in STRING
  BY EntryIsPattern
<1>2. /\ texts \in Seq(STRING) /\ Len(texts) = Len(route) /\ \A i \in 1..Len(route) : Fits(route[i], texts[i])
      /\ [p \in ParamsOf(route) |-> texts[Place(route, p)]] = params
  BY <1>1, FilledFits
<1>3. /\ Whole(e) \in Seq(Segments) /\ Len(Whole(e)) = Len(prefix) + Len(route)
      /\ \A i \in 1..Len(prefix) : Whole(e)[i] = Lit(prefix[i])
      /\ \A i \in 1..Len(route) : Whole(e)[Len(prefix) + i] = route[i]
  BY <1>1, WholeTypes
<1>4. path = prefix \o texts
  OBVIOUS
<1>5. \A name : Match(e.pattern, texts, name) = Made(name)
  BY <1>2 DEF Match
<1>6. Matches(e.pattern, texts)
  <2>1. DOMAIN texts = 1..Len(route) /\ Len(route) = Len(texts)
    BY <1>1, <1>2
  <2> HIDE DEF texts
  <2> QED BY <1>2, <2>1 DEF Matches
<1> HIDE DEF prefix, texts, Made
<1>7. Len(route) \in Nat \ {0} /\ Len(prefix) \in Nat /\ Len(texts) = Len(route)
  BY <1>1, <1>2 DEF prefix
<1> HIDE DEF route
<1>8. /\ path \in Seq(STRING) /\ Len(path) = Len(prefix) + Len(route)
      /\ \A i \in 1..Len(prefix) : path[i] = prefix[i]
      /\ \A i \in 1..Len(route) : path[Len(prefix) + i] = texts[i]
      /\ SubSeq(path, 1, Len(prefix)) = prefix /\ SubSeq(path, Len(prefix) + 1, Len(path)) = texts
  <2>1. prefix \in Seq(STRING) /\ texts \in Seq(STRING)
    BY <1>1, <1>2
  <2>2. /\ prefix \o texts \in Seq(STRING) /\ Len(prefix \o texts) = Len(prefix) + Len(texts)
        /\ \A i \in 1..Len(prefix) : (prefix \o texts)[i] = prefix[i]
        /\ \A i \in 1..Len(texts) : (prefix \o texts)[Len(prefix) + i] = texts[i]
    BY <2>1, JoinedTexts
  <2>3. SubSeq(prefix \o texts, 1, Len(prefix)) = prefix
        /\ SubSeq(prefix \o texts, Len(prefix) + 1, Len(prefix \o texts)) = texts
    BY <2>1, CutInTwo
  <2> QED BY <1>4, <1>7, <2>2, <2>3
<1>9. FitsAll(Whole(e), path)
  <2>1. ASSUME NEW i \in 1..Len(path) PROVE Fits(Whole(e)[i], path[i])
    <3>1. CASE i \in 1..Len(prefix)
      BY <1>3, <1>8, <3>1, LitFits
    <3>2. CASE i \notin 1..Len(prefix)
      <4> DEFINE k == i - Len(prefix)
      <4>1. k \in 1..Len(route) /\ i = Len(prefix) + k
        BY <1>7, <1>8, <3>2
      <4> HIDE DEF k
      <4>2. Whole(e)[i] = route[k] /\ path[i] = texts[k] /\ Fits(route[k], texts[k])
        BY <1>2, <1>3, <1>8, <4>1
      <4> QED BY <4>2
    <3> QED BY <3>1, <3>2
  <2> QED BY <1>3, <1>8, <2>1 DEF FitsAll
<1>10. PICK i \in DOMAIN P :
          \/ ~IsInclude(P[i]) /\ e = [at |-> <<i, 0>>, prefix |-> <<>>, pattern |-> P[i]]
          \/ /\ IsInclude(P[i])
             /\ \E j \in DOMAIN P[i].patterns :
                   e = [at |-> <<i, j>>, prefix |-> P[i].prefix, pattern |-> P[i].patterns[j]]
  BY <1>1, PatternAt
<1>11. CASE ~IsInclude(P[i]) /\ e = [at |-> <<i, 0>>, prefix |-> <<>>, pattern |-> P[i]]
  <2>1. e.at[1] = i /\ e.prefix = <<>> /\ e.pattern = P[i]
    BY <1>11
  <2>2. path = texts
    BY <1>2, <1>4, <2>1 DEF prefix
  <2> DEFINE one == <<P[i]>>
             hits == {k \in DOMAIN one : Matches(one[k], path)}
  <2>3. DOMAIN one = {1} /\ one[1] = P[i]
    OBVIOUS
  <2> HIDE DEF one
  <2>4. hits = {1}
    BY <1>6, <2>1, <2>2, <2>3
  <2> HIDE DEF hits
  <2>5. First(hits) = 1
    BY <2>4, FirstIs
  <2>6. hits # {} /\ one[First(hits)] = P[i]
    BY <2>3, <2>4, <2>5
  <2>7. FirstMatch(one, path, "") = Match(P[i], path, <<P[i].name>>)
    BY <2>6 DEF FirstMatch, hits
  <2>8. Resolved(P[i], path) = Made(<<e.pattern.name>>)
    BY <1>5, <1>11, <2>1, <2>2, <2>7 DEF Resolved, one
  <2> DEFINE name == <<e.pattern.name>>
  <2>9. name \in Seq(STRING) /\ name[Len(name)] = e.pattern.name
    BY <1>1, NameOfOne
  <2> HIDE DEF name
  <2> QED BY <1>8, <1>9, <2>1, <2>8, <2>9 DEF name, Made, Gives
<1>12. CASE IsInclude(P[i]) /\ \E j \in DOMAIN P[i].patterns :
                e = [at |-> <<i, j>>, prefix |-> P[i].prefix, pattern |-> P[i].patterns[j]]
  <2>1. PICK j \in DOMAIN P[i].patterns : e = [at |-> <<i, j>>, prefix |-> P[i].prefix, pattern |-> P[i].patterns[j]]
    BY <1>12
  <2>2. e.at[1] = i /\ e.at[2] = j /\ prefix = P[i].prefix /\ e.pattern = P[i].patterns[j]
    BY <2>1 DEF prefix
  <2> DEFINE subs == P[i].patterns
             space == P[i].namespace
             hits == {k \in DOMAIN subs : Matches(subs[k], texts)}
  <2>3. Under(prefix, path) /\ Remaining(prefix, path) = texts
    <3>1. Len(prefix) <= Len(path) /\ Len(path) # Len(prefix)
      <4>1. Len(path) = Len(prefix) + Len(route)
        BY <1>8
      <4> HIDE DEF hits
      <4> QED BY <1>7, <4>1
    <3> QED BY <1>8, <3>1, Zenon DEF Under, Remaining
  <2>4. hits \in SUBSET Nat /\ j \in hits
    <3>1. ASSUME NEW k \in DOMAIN subs PROVE k \in Nat
      <4> DEFINE o == [at |-> <<i, k>>, prefix |-> P[i].prefix, pattern |-> P[i].patterns[k]]
      <4>1. o \in AllPatterns(P)
        BY <1>12, <3>1, PatternsAre
      <4>2. o.at[2] = k
        OBVIOUS
      <4> HIDE DEF o
      <4> QED BY <4>1, <4>2 DEF WellFormed
    <3> QED BY <1>6, <2>2, <3>1
  <2>5. ASSUME NEW k \in hits, k < j PROVE FALSE
    <3> DEFINE o == [at |-> <<i, k>>, prefix |-> P[i].prefix, pattern |-> P[i].patterns[k]]
    <3>1. o \in AllPatterns(P)
      BY <1>12, <2>5, PatternsAre
    <3>2. o.at[1] = i /\ o.at[2] = k /\ o.prefix = prefix /\ o.pattern = subs[k]
      BY <2>2
    <3> HIDE DEF o
    <3>3. o.prefix \in Seq(STRING) /\ o.pattern.route \in Seq(Segments)
      BY <3>1 DEF WellFormed
    <3>4. Under(o.prefix, path) /\ Matches(o.pattern, Remaining(o.prefix, path))
      BY <2>3, <2>5, <3>2
    <3>5. \E way \in Ways(o) : way \in Seq(Segments) /\ FitsAll(way, path)
      BY <1>8, <3>3, <3>4, FoundBelow
    <3>6. ~Earlier(o.at, e.at)
      BY <1>8, <1>9, <3>1, <3>5, NoneBefore
    <3> QED BY <2>2, <2>5, <3>2, <3>6 DEF Earlier
  <2> HIDE DEF hits
  <2>6. First(hits) = j
    BY <2>4, <2>5, FirstIs
  <2> DEFINE name == IF space = "" \/ e.pattern.name = "" THEN <<e.pattern.name>> ELSE <<space, e.pattern.name>>
  <2>7. FirstMatch(subs, texts, space) = Match(e.pattern, texts, name)
    BY <2>2, <2>4, <2>6 DEF FirstMatch, hits
  <2>8. Resolved(P[i], path) = Made(name)
    BY <1>5, <1>12, <2>2, <2>3, <2>7 DEF Resolved
  <2>9. name \in Seq(STRING) /\ name[Len(name)] = e.pattern.name
    <3>1. space \in STRING
      BY <1>12 DEF WellFormed
    <3> HIDE DEF space
    <3>2. CASE name = <<e.pattern.name>>
      BY <1>1, <3>2, NameOfOne
    <3>3. CASE name = <<space, e.pattern.name>>
      BY <1>1, <3>1, <3>3, NameOfTwo
    <3> QED BY <3>2, <3>3
  <2> HIDE DEF name
  <2> QED BY <1>8, <1>9, <2>2, <2>8, <2>9 DEF Made, Gives
<1> QED BY <1>10, <1>11, <1>12

\* The resolver finds the pattern whose path it is: no entry before it finds anything.
LEMMA ResolveFinds ==
    ASSUME NEW P, WellFormed(P), NEW e \in Entries(P), IsFree(P, e), NEW params, Takes(e, params),
           NEW path, path = e.prefix \o Filled(e.pattern.route, params),
           \A name \in Seq(STRING) : NoMatch # [handler |-> e.pattern.handler, name |-> name, params |-> params]
    PROVE  Gives(Resolve(P, path), e, params)
<1> DEFINE at == e.at[1]
           hits == {i \in DOMAIN P : Resolved(P[i], path) # NoMatch}
<1>1. path \in Seq(STRING) /\ FitsAll(Whole(e), path) /\ at \in DOMAIN P
  BY EntryFinds
<1>2. Gives(Resolved(P[at], path), e, params)
  BY EntryFinds
<1>3. at \in hits
  BY <1>1, <1>2 DEF Gives
<1>4. ASSUME NEW i \in hits PROVE i \in Nat /\ ~(i < at)
  <2>1. PICK o \in AllPatterns(P) : GoesBy(o, i, path)
    <3>1. i \in DOMAIN P /\ Resolved(P[i], path) # NoMatch
      BY <1>4
    <3>2. SomeGoesBy(P, i, path)
      BY <1>1, <3>1, ResolvedGoes
    <3> QED BY <3>2 DEF SomeGoesBy
  <2>2. o.at[1] \in Nat
    BY <2>1 DEF WellFormed
  <2>3. ~Earlier(o.at, e.at)
    BY <1>1, <2>1, NoneBefore DEF GoesBy
  <2> QED BY <2>1, <2>2, <2>3 DEF Earlier, GoesBy
<1> HIDE DEF hits, at
<1>5. First(hits) = at
  BY <1>3, <1>4, FirstIs
<1>6. Resolve(P, path) = Resolved(P[at], path)
  BY <1>3, <1>5 DEF Resolve, hits
<1> QED BY <1>2, <1>6

\* What resolveHandler has for a path that is built from a name.
LEMMA BuiltPathsArrive ==
    ASSUME PathsLeadBack, NEW req \in Requests, req.aim # Null
    PROVE  /\ resolveHandler[req] # NoMatch
           /\ resolveHandler[req].name[Len(resolveHandler[req].name)] = req.aim.name[Len(req.aim.name)]
           /\ resolveHandler[req].params = req.aim.params
<1> DEFINE aim == req.aim
           Made(handler, name, params) == [handler |-> handler, name |-> name, params |-> params]
<1>1. WellFormed(Patterns)
  BY DEF PathsLeadBack
<1>2. PICK e \in Entries(Patterns) :
         /\ e.pattern.name = aim.name[Len(aim.name)] /\ IsLast(Patterns, e)
         /\ IsFree(Patterns, e) /\ Takes(e, aim.params) /\ IsPlain(e) /\ Callable(e.pattern.handler)
  BY DEF PathsLeadBack
<1> DEFINE handler == e.pattern.handler
           path == e.prefix \o Filled(e.pattern.route, aim.params)
<1>3. \A name \in Seq(STRING) : NoMatch # Made(handler, name, aim.params)
  <2>1. e \in AllPatterns(Patterns)
    BY <1>1, EntryIsPattern
  <2>2. handler \in {o.pattern.handler : o \in AllPatterns(Patterns)}
    BY <2>1
  <2>3. aim.params \in {r.aim.params : r \in {q \in Requests : q.aim # Null}}
    OBVIOUS
  <2> HIDE DEF aim, handler
  <2>4. \A name \in Seq(STRING) :
           Made(handler, name, aim.params) \in [handler : {o.pattern.handler : o \in AllPatterns(Patterns)}, name : Seq(STRING),
                                                params : {r.aim.params : r \in {q \in Requests : q.aim # Null}}]
    BY <2>2, <2>3
  <2> QED BY <2>4 DEF PathsLeadBack
<1>4. path \in Seq(STRING)
  BY <1>1, <1>2, EntryFinds
<1>5. PathOf(req) = path
  <2>1. Reverse(Patterns, aim.name, aim.params) = path
    BY <1>1, <1>2, ReverseBuilds
  <2> QED BY <2>1 DEF PathOf
<1>6. PICK name \in Seq(STRING) :
         Resolve(Patterns, path) = Made(handler, name, aim.params) /\ name[Len(name)] = e.pattern.name
  <2>1. Gives(Resolve(Patterns, path), e, aim.params)
    BY <1>1, <1>2, <1>3, ResolveFinds
  <2> QED BY <2>1 DEF Gives
<1>7. path # NoMatch
  BY <1>4 DEF PathsLeadBack
<1> HIDE DEF path
<1> DEFINE made == Made(handler, name, aim.params)
<1>8. made.handler = handler /\ made.name = name /\ made.params = aim.params /\ made # NoMatch
  BY <1>3
<1> HIDE DEF made, aim, handler, Made
<1>9. resolveHandler[req] = CalledOf(Resolve(Patterns, path))
  BY <1>5, <1>7 DEF resolveHandler
<1>10. Resolve(Patterns, path) = made
  BY <1>6 DEF made
<1>11. CalledOf(made) = made
  BY <1>2, <1>8 DEF CalledOf, handler
<1> QED BY <1>2, <1>6, <1>8, <1>9, <1>10, <1>11 DEF aim

\* A call has what resolveHandler has for its request.
Arrived(d) == call[d].req = Null \/ (call[d].req \in Requests /\ call[d].match = resolveHandler[call[d].req])

LEMMA StepHolds ==
    ASSUME Shape, \A d \in Clients : Arrived(d), NEW c \in Clients, ClientNext(c)
    PROVE  \A d \in Clients : Arrived(d)'
<1> DEFINE Same(d) == call'[d].req = call[d].req /\ call'[d].match = call[d].match
<1>1. Calls
  BY DEF Shape
<1>2. \A d \in Clients : Same(d) => Arrived(d)'
  BY DEF Arrived
<1>3. \A d \in Clients \ {c} : Only(c) => Same(d)
  BY DEF Only, Kept
<1>4. (Only(c) /\ Same(c)) \/ UNCHANGED call \/ (Only(c) /\ call'[c] = Fresh)
      \/ \E req \in Requests : Only(c) /\ call'[c].req = req /\ call'[c].match = resolveHandler[req]
  <2>1. ASSUME NEW req \in Wishes(c), Ask(c, req)
        PROVE  req \in Requests /\ Only(c) /\ call'[c].req = req /\ call'[c].match = resolveHandler[req]
    <3>1. req \in Requests
      BY WishesAreRequests
    <3> QED BY <1>1, <2>1, <3>1, AskStep DEF Arrives
  <2>2. CASE Leave(c)
    BY <1>1, <2>2, LeaveStep
  <2>3. CASE Render(c)
    BY <2>3, RenderStep
  <2>4. CASE Show(c)
    BY <1>1, <2>4, ShowStep DEF Turns, On
  <2>5. CASE Count(c)
    BY <1>1, <2>5, CountStep DEF Turns, On
  <2>6. CASE Rows(c)
    BY <1>1, <2>6, RowsStep DEF Ends, On
  <2>7. CASE GetObject(c)
    BY <1>1, <2>7, GetObjectStep DEF Ends, Gets, On
  <2>8. CASE DatabaseFails(c)
    BY <1>1, <2>8, DatabaseFailsStep DEF Ends, On
  <2>9. CASE StartBind(c)
    BY <1>1, <2>9, StartBindStep DEF Turns, On
  <2>10. CASE BindField(c)
    BY <1>1, <2>10, BindFieldStep DEF Turns, On
  <2>11. CASE FinishBind(c)
    BY <1>1, <2>11, FinishBindStep DEF Ends, Turns, On
  <2>12. CASE Created(c)
    BY <1>1, <2>12, CreatedStep DEF Ends, On
  <2>13. CASE Assign(c)
    BY <1>1, <2>13, AssignStep DEF Turns, On
  <2>14. ASSUME NEW how, Insert(c, how) PROVE Only(c) /\ Same(c)
    BY <1>1, <2>14, InsertStep DEF Ends, Writing, On
  <2>15. ASSUME NEW how, UpdateRow(c, how) PROVE Only(c) /\ Same(c)
    BY <1>1, <2>15, UpdateRowStep DEF Ends, Writing, On
  <2>16. ASSUME NEW how, DeleteRow(c, how) PROVE Only(c) /\ Same(c)
    BY <1>1, <2>16, DeleteRowStep DEF Ends, Writing, On
  <2> QED BY <2>1, <2>2, <2>3, <2>4, <2>5, <2>6, <2>7, <2>8, <2>9, <2>10, <2>11, <2>12, <2>13, <2>14, <2>15, <2>16, ClientSteps
<1>5. CASE UNCHANGED call
  BY <1>2, <1>5
<1>6. CASE Only(c) /\ Same(c)
  BY <1>2, <1>3, <1>6
<1>7. CASE Only(c) /\ call'[c] = Fresh
  <2>1. Fresh.req = Null
    BY DEF Fresh
  <2>2. Arrived(c)'
    BY <1>7, <2>1 DEF Arrived
  <2> QED BY <1>2, <1>3, <1>7, <2>2
<1>8. CASE \E req \in Requests : Only(c) /\ call'[c].req = req /\ call'[c].match = resolveHandler[req]
  <2>1. Arrived(c)'
    BY <1>8 DEF Arrived
  <2> QED BY <1>2, <1>3, <1>8, <2>1
<1> QED BY <1>4, <1>5, <1>6, <1>7, <1>8

\* A request whose path is built from a name and params is resolved to the pattern of
\* that name, with those params (urls/resolver.go:145-216), when the pattern is the last
\* of its name, none before it takes its paths, its converters accept the params and its
\* literals have no metacharacters.  Includes are one level deep, and no converter is path.
THEOREM ReversedPathsArriveAlways ==
    ASSUME PathsLeadBack PROVE SiteSpec => []ReversedPathsArrive
<1> DEFINE Inv == \A d \in Clients : Arrived(d)
<1>1. SiteInit => Inv
  <2>1. Fresh.req = Null
    BY DEF Fresh
  <2> QED BY <2>1 DEF SiteInit, Arrived
<1>2. Shape /\ Inv /\ [SiteNext]_vars => Inv'
  <2> SUFFICES ASSUME Shape, Inv, [SiteNext]_vars PROVE Inv'
    OBVIOUS
  <2>1. UNCHANGED call => Inv'
    BY DEF Arrived
  <2>2. CASE Starting \/ Listen \/ MapWritesCollide
    BY <2>1, <2>2, OtherSteps
  <2>3. ASSUME NEW c \in Clients, ClientNext(c) PROVE Inv'
    BY <2>3, StepHolds
  <2>4. CASE UNCHANGED vars
    BY <2>1, <2>4 DEF vars, siteVars
  <2> QED BY <2>2, <2>3, <2>4 DEF SiteNext
<1>3. Inv => ReversedPathsArrive
  BY BuiltPathsArrive DEF ReversedPathsArrive, Arrived
<1> QED BY <1>1, <1>2, <1>3, ShapeHolds, PTL DEF SiteSpec
=============================================================================
