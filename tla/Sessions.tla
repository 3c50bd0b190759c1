------------------------------ MODULE Sessions ------------------------------
(***************************************************************************)
(* Sessions (sessions/): the middleware that loads a session before the    *)
(* view and saves it after, the engines behind it, and the table           *)
(* django_session, under concurrent requests of several browsers, faults   *)
(* of the database, panics of views, lost answers and the clock.           *)
(*                                                                         *)
(* The middleware, the engine and the driver hold no lock and no           *)
(* transaction: every statement is a step of its own.  A time is kept as   *)
(* the ticks that are left until it, so that the clock needs no bound.     *)
(***************************************************************************)
EXTENDS Integers

CONSTANTS
    Requests,      \* the requests the server handles at once
    Browsers,
    Names,         \* names a view may set in a session
    Keys,          \* session keys
    Engine,        \* "db", or "cookie", or "cache" with the driver it ships with
    CookieAge,     \* defaultSessionCookieAge
    Lives,         \* durations views give to SetExpiry
    None

ASSUME KeysAreNotEmpty == None \notin Keys

\* A duration that is over at once is -1, however long ago that was.
ASSUME Durations == CookieAge \in Nat /\ Lives \subseteq Nat \union {-1}

VARIABLES
    rows,        \* django_session: rows[key], its items and the time it has left
    jar,         \* jar[browser]: the session cookie it holds
    req,         \* req[r]: the request, its session and where it is
    expected     \* history: the items a browser's next request should find,
                 \* and for how long

vars == <<rows, jar, req, expected>>

\* An item carries the browser in whose request it was set.
Items == Browsers \X Names

NoRow == [there |-> FALSE, items |-> {}, left |-> -1]
NoCookie == [key |-> None, left |-> 0]
Nothing == [items |-> {}, left |-> -1]

Idle == [at |-> "idle", browser |-> None, key |-> None, data |-> {}, expiry |-> None,
         crowded |-> FALSE]

Least(a, b) == IF a < b THEN a ELSE b
Later(left) == IF left < 0 THEN left ELSE left - 1

InUse == {jar[b].key : b \in Browsers} \union {req[r].key : r \in Requests}

\* The rows of the table that somebody still has the key of.  The others stay
\* in the real table, where no request can reach them.
Reachable == [k \in Keys |-> IF k \in InUse' THEN rows[k] ELSE NoRow]

\* Mutant of FreshKeys: the random bytes are never read.
ZeroKeys == {CHOOSE k \in Keys : TRUE}

\* generateSessionKey: a key that nobody has.
FreshKeys == Keys \ InUse

Init ==
    /\ rows = [k \in Keys |-> NoRow]
    /\ jar = [b \in Browsers |-> NoCookie]
    /\ req = [r \in Requests |-> Idle]
    /\ expected = [b \in Browsers |-> Nothing]

\* Time passes: rows and sessions in memory come nearer to their expiry, and a
\* browser drops a cookie whose Max-Age is over.
Tick ==
    /\ jar' = [b \in Browsers |-> IF jar[b].left <= 1 THEN NoCookie ELSE [jar[b] EXCEPT !.left = @ - 1]]
    /\ req' = [r \in Requests |-> [req[r] EXCEPT !.expiry = IF @ = None THEN None ELSE Later(@)]]
    /\ expected' = [b \in Browsers |-> IF expected[b].left <= 0 THEN Nothing ELSE [expected[b] EXCEPT !.left = @ - 1]]
    /\ rows' = [k \in Keys |-> [Reachable[k] EXCEPT !.left = Later(@)]]

\* A request comes in with the cookie its browser holds.  If another request of
\* the browser is in progress nothing is expected of the two.
Arrive(r, b) ==
    LET others == {s \in Requests : req[s].at # "idle" /\ req[s].browser = b} IN
    /\ req[r].at = "idle"
    /\ req' = [s \in Requests |->
                  IF s = r THEN [Idle EXCEPT !.at = "load", !.browser = b, !.key = jar[b].key, !.crowded = others # {}]
                  ELSE [req[s] EXCEPT !.crowded = @ \/ s \in others]]
    /\ expected' = [expected EXCEPT ![b] = IF others = {} THEN @ ELSE Nothing]
    /\ UNCHANGED <<rows, jar>>
-----------------------------------------------------------------------------
(* Loading.                                                                *)

\* Mutant of Expired: the comparison is turned round.
NotExpired(row) == row.left > 0

\* time.Now().After(expireDate)
Expired(row) == row.left < 0

\* A new session, without a row as long as nothing is saved.
Create(r) == \E k \in FreshKeys : req' = [req EXCEPT ![r].at = "view", ![r].key = k]

\* The engines without a table: the driver of the cache engine never has a key,
\* and the cookie engine takes it for a session, which is empty.
LoadNothing(r) == IF Engine = "cache" THEN Create(r) ELSE req' = [req EXCEPT ![r].at = "view"]

\* engine.Load.  What is not in the table is an empty session with the key of
\* the cookie; what has expired is deleted by a second statement.
Load(r) ==
    LET row == rows[req[r].key] IN
    /\ req[r].at = "load"
    /\ IF req[r].key = None THEN Create(r)
       ELSE IF Engine # "db" THEN LoadNothing(r)
       ELSE IF ~row.there THEN req' = [req EXCEPT ![r].at = "view"]
       ELSE IF Expired(row) THEN req' = [req EXCEPT ![r].at = "purge"]
       ELSE req' = [req EXCEPT ![r].at = "view", ![r].data = row.items]
    /\ UNCHANGED <<rows, jar, expected>>

\* Any error of the query is taken for a missing row.
LoadFails(r) ==
    /\ Engine = "db"
    /\ req[r].at = "load"
    /\ req[r].key # None
    /\ req' = [req EXCEPT ![r].at = "view"]
    /\ UNCHANGED <<rows, jar, expected>>

\* DELETE of whatever row has the key by now; its error is ignored.
Purge(r) ==
    /\ req[r].at = "purge"
    /\ rows' = [rows EXCEPT ![req[r].key] = NoRow]
    /\ req' = [req EXCEPT ![r].at = "view"]
    /\ UNCHANGED <<jar, expected>>

PurgeFails(r) ==
    /\ req[r].at = "purge"
    /\ req' = [req EXCEPT ![r].at = "view"]
    /\ UNCHANGED <<rows, jar, expected>>
-----------------------------------------------------------------------------
(* The view, and what the middleware does after it.                        *)

\* The request is over without a cookie for the browser.
End(r) ==
    /\ req' = [req EXCEPT ![r] = Idle]
    /\ UNCHANGED <<jar, expected>>
    /\ rows' = Reachable

\* The view sets and deletes names and may call SetExpiry.  Until it is saved
\* the session is the request's own, so this is one step.
Modify(r) ==
    /\ req[r].at = "view"
    /\ \E set, deleted \in SUBSET Names, life \in Lives \union {None} :
          /\ set # {} \/ deleted # {} \/ life # None
          /\ req' = [req EXCEPT ![r].at = "save", ![r].expiry = life,
                                ![r].data = {item \in req[r].data : item[2] \notin deleted} \union ({req[r].browser} \X set)]
    /\ UNCHANGED <<rows, jar, expected>>

\* The view leaves the session alone, which is then not saved and its cookie
\* not sent again; or it panics, and nothing after next(req) is executed.
Leave(r) == req[r].at = "view" /\ End(r)

ExpireDate(r) == IF req[r].expiry = None THEN CookieAge ELSE req[r].expiry

\* Mutant of Stored: the expiry in the row is left as it was.
StoredOnce(r) ==
    LET row == rows[req[r].key]
    IN [there |-> TRUE, items |-> req[r].data, left |-> IF row.there THEN row.left ELSE ExpireDate(r)]

\* INSERT ... ON CONFLICT DO UPDATE SET session_data, expire_date
Stored(r) == [there |-> TRUE, items |-> req[r].data, left |-> ExpireDate(r)]

\* Only the database engine stores anything.
Written(r) == IF Engine = "db" THEN [rows EXCEPT ![req[r].key] = Stored(r)] ELSE rows

\* What a browser may count on while the row and its cookie last.
Promise(items, left, cookie) ==
    IF left >= 0 /\ cookie > 0 THEN [items |-> items, left |-> Least(left, cookie - 1)] ELSE Nothing

\* session.Save, after which the cookie is set.
Save(r) ==
    LET k == req[r].key
        b == req[r].browser
    IN /\ req[r].at = "save"
       /\ rows' = Written(r)
       /\ req' = [req EXCEPT ![r].at = "saved", ![r].data = {}, ![r].expiry = None]
       /\ expected' = [expected EXCEPT ![b] =
              IF req[r].crowded \/ jar[b].key # k THEN Nothing
              ELSE Promise(req[r].data, ExpireDate(r), jar[b].left)]
       /\ UNCHANGED jar

\* An error of Save is ignored: the cookie is set all the same.
SaveFails(r) ==
    /\ Engine = "db"
    /\ req[r].at = "save"
    /\ req' = [req EXCEPT ![r].at = "unsaved", ![r].data = {}, ![r].expiry = None]
    /\ UNCHANGED <<rows, jar, expected>>

\* The response and its cookie reach the browser.
Respond(r) ==
    LET b == req[r].browser IN
    /\ req[r].at \in {"saved", "unsaved"}
    /\ jar' = [jar EXCEPT ![b] = [key |-> req[r].key, left |-> CookieAge]]
    /\ expected' = [expected EXCEPT ![b] =
           IF req[r].crowded THEN Nothing
           ELSE IF req[r].at = "saved" THEN Promise(rows[req[r].key].items, rows[req[r].key].left, CookieAge)
           ELSE IF jar[b].key = req[r].key THEN @ ELSE Nothing]
    /\ req' = [req EXCEPT ![r] = Idle]
    /\ rows' = Reachable

\* The response is lost on the way.
Lost(r) == req[r].at \in {"saved", "unsaved"} /\ End(r)

Next ==
    \/ Tick
    \/ \E r \in Requests :
          \/ \E b \in Browsers : Arrive(r, b)
          \/ Load(r) \/ LoadFails(r) \/ Purge(r) \/ PurgeFails(r)
          \/ Modify(r) \/ Leave(r)
          \/ Save(r) \/ SaveFails(r) \/ Respond(r) \/ Lost(r)

Spec == Init /\ [][Next]_vars
-----------------------------------------------------------------------------
(* Properties.                                                             *)

Stages == {"idle", "load", "purge", "view", "save", "saved", "unsaved"}

\* The state is well formed; from its view on a request has a session key.
TypeOK ==
    /\ \A k \in Keys : rows[k].items \subseteq Items /\ rows[k].left >= -1
    /\ \A b \in Browsers : jar[b].key \in Keys \union {None} /\ jar[b].left >= 0
    /\ \A r \in Requests :
          /\ req[r].at \in Stages
          /\ req[r].at # "idle" => req[r].browser \in Browsers
          /\ req[r].data \subseteq Items
          /\ req[r].at \notin {"idle", "load"} => req[r].key \in Keys

\* Whatever overlaps, fails or is lost, no browser ever sees what was set in
\* the session of another, and no two hold the same key.
SessionsApart ==
    /\ \A r \in Requests : \A item \in req[r].data : item[1] = req[r].browser
    /\ \A a, b \in Browsers : jar[a].key = jar[b].key /\ jar[a].key # None => a = b

\* A browser that sends one request at a time finds what its last saved
\* request left, until the row or the cookie expires: no fault, panic or lost
\* answer in between, and no purge, takes it away or brings older items back.
SessionIsKept ==
    [][\A r \in Requests :
          Load(r) /\ ~req[r].crowded /\ expected[req[r].browser].left >= 0 =>
             /\ req'[r].at = "view"
             /\ req'[r].data = expected[req[r].browser].items]_vars

\* A request that is alone with its session never deletes a row that is alive.
PurgeSparesTheLive ==
    [][\A r \in Requests : Purge(r) /\ ~req[r].crowded => rows[req[r].key].left < 0]_vars
=============================================================================
