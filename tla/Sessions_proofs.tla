-------------------------- MODULE Sessions_proofs ---------------------------
(***************************************************************************)
(* Proofs about Sessions, for any number of requests, browsers and keys    *)
(* and each of the engines.  The first results come from one invariant: a  *)
(* key is held by one browser only, in its cookie or in a request of its   *)
(* own, and the row under it holds items of that browser.  The second part *)
(* is about how long a session lasts.                                      *)
(***************************************************************************)
EXTENDS Sessions, TLAPS

Rows == [there : BOOLEAN, items : SUBSET Items, left : Nat \union {-1}]
Held == Keys \union {None}
Cookies == [key : Held, left : Nat]
Expiries == Nat \union {-1, None}
SessionsInMemory ==
    [at : Stages, browser : Browsers \union {None}, key : Held,
     data : SUBSET Items, expiry : Expiries, crowded : BOOLEAN]

Typed ==
    /\ rows \in [Keys -> Rows]
    /\ jar \in [Browsers -> Cookies]
    /\ req \in [Requests -> SessionsInMemory]

\* Where a request is, and what it then has.
InPlace ==
    \A r \in Requests :
       /\ req[r].at = "idle" => req[r].key = None /\ req[r].data = {}
       /\ req[r].at # "idle" => req[r].browser \in Browsers
       /\ req[r].at \notin {"idle", "load"} => req[r].key \in Keys

\* A browser holds a key in its cookie or in one of its requests.
Holds(b, k) == jar[b].key = k \/ \E r \in Requests : req[r].browser = b /\ req[r].key = k

OneHolder == \A a, b \in Browsers, k \in Keys : Holds(a, k) /\ Holds(b, k) => a = b

OwnItems(items, b) == \A item \in items : item[1] = b

\* Rows and sessions hold items of the browser that has the key; a key nobody
\* has is free for another browser, so nothing may be left under it.
OwnRows ==
    /\ \A b \in Browsers, k \in Keys : Holds(b, k) => OwnItems(rows[k].items, b)
    /\ \A r \in Requests : OwnItems(req[r].data, req[r].browser)
    /\ \A k \in Keys : (\A b \in Browsers : ~Holds(b, k)) => rows[k].items = {}
    /\ Engine # "db" => \A k \in Keys : rows[k].items = {}

IInv == Typed /\ InPlace /\ OneHolder /\ OwnRows
-----------------------------------------------------------------------------
(* Types.                                                                  *)

LEMMA IdleTyped == Idle \in SessionsInMemory
BY DEF Idle, SessionsInMemory, Held, Expiries, Stages

LEMMA InitInv == Init => IInv
<1> SUFFICES ASSUME Init PROVE IInv
  OBVIOUS
<1> USE KeysAreNotEmpty
<1>1. rows \in [Keys -> Rows] /\ \A k \in Keys : rows[k].items = {}
  BY DEF Init, NoRow, Rows
<1>2. jar \in [Browsers -> Cookies] /\ \A b \in Browsers : jar[b].key = None
  BY DEF Init, NoCookie, Cookies, Held
<1>3. req \in [Requests -> SessionsInMemory]
  BY IdleTyped DEF Init
<1>4. \A r \in Requests : req[r].at = "idle" /\ req[r].key = None /\ req[r].data = {}
  BY DEF Init, Idle
<1>5. \A b \in Browsers, k \in Keys : ~Holds(b, k)
  BY <1>2, <1>4 DEF Holds
<1>6. OwnRows
  BY <1>1, <1>4, <1>5 DEF OwnRows, OwnItems
<1>7. Typed /\ InPlace /\ OneHolder
  BY <1>1, <1>2, <1>3, <1>4, <1>5 DEF Typed, InPlace, OneHolder
<1> QED  BY <1>6, <1>7 DEF IInv

\* Rows that are forgotten are rows.
LEMMA ReachableTyped ==
    ASSUME rows \in [Keys -> Rows]
    PROVE  Reachable \in [Keys -> Rows]
BY DEF Reachable, Rows, NoRow

LEMMA StoredTyped ==
    ASSUME NEW r \in Requests, Typed
    PROVE  /\ Stored(r) \in Rows
           /\ Stored(r).items = req[r].data
<1>1. req[r] \in SessionsInMemory
  BY DEF Typed
<1>2. req[r].data \in SUBSET Items /\ req[r].expiry \in Expiries
  BY <1>1 DEF SessionsInMemory
<1>3. ExpireDate(r) \in Nat \union {-1}
  BY <1>2, Durations DEF ExpireDate, Expiries
<1> QED  BY <1>2, <1>3 DEF Stored, Rows

\* Request r has another stage and perhaps another key and other data; the
\* other requests are as they were.
Changes(r, at, key, data) ==
    /\ req' \in [Requests -> SessionsInMemory]
    /\ \A s \in Requests \ {r} : req'[s] = req[s]
    /\ req'[r].at = at /\ req'[r].key = key /\ req'[r].data = data
    /\ req'[r].browser = req[r].browser

LEMMA RequestChanges ==
    ASSUME Typed, NEW r \in Requests,
           NEW at \in Stages, NEW key \in Held, NEW data \in SUBSET Items, NEW expiry \in Expiries
    PROVE  /\ req' = [req EXCEPT ![r].at = at] => Changes(r, at, req[r].key, req[r].data)
           /\ req' = [req EXCEPT ![r].at = at, ![r].key = key] => Changes(r, at, key, req[r].data)
           /\ req' = [req EXCEPT ![r].at = at, ![r].data = data] => Changes(r, at, req[r].key, data)
           /\ req' = [req EXCEPT ![r].at = at, ![r].expiry = expiry, ![r].data = data]
                 => Changes(r, at, req[r].key, data)
           /\ req' = [req EXCEPT ![r].at = at, ![r].data = data, ![r].expiry = expiry]
                 => Changes(r, at, req[r].key, data)
<1>1. req \in [Requests -> SessionsInMemory]
  BY DEF Typed
<1>2. ASSUME req' = [req EXCEPT ![r].at = at]
      PROVE  Changes(r, at, req[r].key, req[r].data)
  BY <1>1, <1>2 DEF Changes, SessionsInMemory
<1>3. ASSUME req' = [req EXCEPT ![r].at = at, ![r].key = key]
      PROVE  Changes(r, at, key, req[r].data)
  BY <1>1, <1>3 DEF Changes, SessionsInMemory
<1>4. ASSUME req' = [req EXCEPT ![r].at = at, ![r].data = data]
      PROVE  Changes(r, at, req[r].key, data)
  BY <1>1, <1>4 DEF Changes, SessionsInMemory
<1>5. ASSUME req' = [req EXCEPT ![r].at = at, ![r].expiry = expiry, ![r].data = data]
      PROVE  Changes(r, at, req[r].key, data)
  BY <1>1, <1>5, ZenonT(40) DEF Changes, SessionsInMemory
<1>6. ASSUME req' = [req EXCEPT ![r].at = at, ![r].data = data, ![r].expiry = expiry]
      PROVE  Changes(r, at, req[r].key, data)
  BY <1>1, <1>6, ZenonT(40) DEF Changes, SessionsInMemory
<1> QED  BY <1>2, <1>3, <1>4, <1>5, <1>6

-----------------------------------------------------------------------------
(* Steps of a request between its arrival and its answer.                  *)

\* A request that works on its session keeps the key, and has data of its own.
Working(r) ==
    \E at \in Stages \ {"idle", "load"}, data \in SUBSET Items :
       Changes(r, at, req[r].key, data) /\ OwnItems(data, req[r].browser)

LEMMA WorkingKeepsInv ==
    ASSUME IInv, NEW r \in Requests, Working(r), req[r].at # "idle", req[r].key \in Keys,
           jar' = jar, rows' \in [Keys -> Rows],
           \A k \in Keys : \/ rows'[k].items \in {rows[k].items, {}}
                           \/ k = req[r].key /\ rows'[k].items = req[r].data /\ Engine = "db"
    PROVE  IInv'
<1>1. PICK at \in Stages \ {"idle", "load"}, data \in SUBSET Items :
         Changes(r, at, req[r].key, data) /\ OwnItems(data, req[r].browser)
  BY DEF Working
<1>2. Typed'
  BY <1>1 DEF IInv, Typed, Changes
<1>3. req[r].browser \in Browsers
  BY DEF IInv, InPlace
<1>4. InPlace'
  BY <1>1, <1>3 DEF IInv, InPlace, Changes
<1>5. \A s \in Requests : req'[s].browser = req[s].browser /\ req'[s].key = req[s].key
  BY <1>1 DEF Changes
<1>6. \A b \in Browsers, k \in Keys : Holds(b, k)' <=> Holds(b, k)
  BY <1>5 DEF Holds
<1>7. OneHolder'
  BY <1>6 DEF IInv, OneHolder
<1>8. Holds(req[r].browser, req[r].key)
  BY DEF Holds
<1>9. OwnRows'
  <2>1. ASSUME NEW b \in Browsers, NEW k \in Keys, Holds(b, k)'
        PROVE  OwnItems(rows'[k].items, b)
    <3>1. CASE rows'[k].items \in {rows[k].items, {}}
      BY <1>6, <2>1, <3>1 DEF IInv, OwnRows, OwnItems
    <3>2. CASE k = req[r].key /\ rows'[k].items = req[r].data
      <4>1. b = req[r].browser
        BY <1>3, <1>6, <1>8, <2>1, <3>2 DEF IInv, OneHolder
      <4> QED  BY <3>2, <4>1 DEF IInv, OwnRows
    <3> QED  BY <3>1, <3>2
  <2>2. \A s \in Requests : OwnItems(req'[s].data, req'[s].browser)
    BY <1>1 DEF Changes, IInv, OwnRows
  <2>3. ASSUME NEW k \in Keys, \A b \in Browsers : ~Holds(b, k)'
        PROVE  rows'[k].items = {}
    <3>1. k # req[r].key /\ rows[k].items = {}
      BY <1>3, <1>6, <1>8, <2>3 DEF IInv, OwnRows
    <3> QED  BY <3>1
  <2>4. Engine # "db" => \A k \in Keys : rows'[k].items = {}
    BY DEF IInv, OwnRows
  <2> QED  BY <2>1, <2>2, <2>3, <2>4 DEF OwnRows
<1> QED  BY <1>2, <1>4, <1>7, <1>9 DEF IInv

\* A new session has a key nobody had, and so an empty row.
Creating(r) == \E k \in FreshKeys : Changes(r, "view", k, req[r].data)

LEMMA CreateChanges ==
    ASSUME Typed, NEW r \in Requests, Create(r)
    PROVE  Creating(r)
<1>1. PICK k \in FreshKeys : req' = [req EXCEPT ![r].at = "view", ![r].key = k]
  BY DEF Create
<1>2. k \in Held /\ "view" \in Stages
  BY DEF FreshKeys, Held, Stages
<1>3. Changes(r, "view", k, req[r].data)
  BY <1>1, <1>2, RequestChanges DEF Typed, SessionsInMemory, Expiries
<1> QED  BY <1>3 DEF Creating

LEMMA CreatingKeepsInv ==
    ASSUME IInv, NEW r \in Requests, Creating(r), req[r].at # "idle", jar' = jar, rows' = rows,
           req[r].key = None \/ Engine # "db"
    PROVE  IInv'
<1> USE KeysAreNotEmpty
<1>1. PICK key \in FreshKeys : Changes(r, "view", key, req[r].data)
  BY DEF Creating
<1>2. Typed'
  BY <1>1 DEF IInv, Typed, Changes
<1>3. key \in Keys /\ \A b \in Browsers : ~Holds(b, key)
  BY <1>1 DEF FreshKeys, InUse, Holds
<1>4. InPlace'
  BY <1>1, <1>3 DEF IInv, InPlace, Changes
<1>5. ASSUME NEW b \in Browsers, NEW k \in Keys, Holds(b, k)'
      PROVE  Holds(b, k) \/ (k = key /\ b = req[r].browser)
  BY <1>1, <1>5 DEF Holds, Changes
<1>6. OneHolder'
  BY <1>3, <1>5 DEF IInv, OneHolder
<1>7. OwnRows'
  <2>1. rows[key].items = {}
    BY <1>3 DEF IInv, OwnRows
  <2>2. \A b \in Browsers, k \in Keys : Holds(b, k)' => OwnItems(rows'[k].items, b)
    BY <1>5, <2>1 DEF IInv, OwnRows, OwnItems
  <2>3. \A s \in Requests : OwnItems(req'[s].data, req'[s].browser)
    BY <1>1 DEF Changes, IInv, OwnRows
  <2>4. ASSUME NEW k \in Keys, \A b \in Browsers : ~Holds(b, k)'
        PROVE  rows'[k].items = {}
    <3>1. CASE Engine # "db"
      BY <3>1 DEF IInv, OwnRows
    <3>2. CASE req[r].key = None
      <4>1. \A b \in Browsers : ~Holds(b, k)
        BY <1>1, <2>4, <3>2 DEF Holds, Changes
      <4> QED  BY <4>1 DEF IInv, OwnRows
    <3> QED  BY <3>1, <3>2
  <2> QED  BY <2>2, <2>3, <2>4 DEF IInv, OwnRows
<1> QED  BY <1>2, <1>4, <1>6, <1>7 DEF IInv

\* A request that ends, with or without a cookie for its browser.
LEMMA EndKeepsInv ==
    ASSUME IInv, NEW r \in Requests, req' = [req EXCEPT ![r] = Idle], rows' = Reachable,
           \/ jar' = jar
           \/ /\ req[r].at \notin {"idle", "load"}
              /\ jar' = [jar EXCEPT ![req[r].browser] = [key |-> req[r].key, left |-> CookieAge]]
    PROVE  IInv'
<1> USE KeysAreNotEmpty
<1>1. rows' \in [Keys -> Rows]
  BY ReachableTyped DEF IInv, Typed
<1>2. jar' \in [Browsers -> Cookies]
  BY Durations DEF IInv, Typed, InPlace, Cookies, Held
<1>3. req' \in [Requests -> SessionsInMemory]
  BY IdleTyped DEF IInv, Typed
<1>4. /\ \A s \in Requests \ {r} : req'[s] = req[s]
      /\ req'[r].at = "idle" /\ req'[r].key = None /\ req'[r].data = {}
  BY DEF IInv, Typed, Idle
<1>5. InPlace'
  BY <1>4 DEF IInv, InPlace
<1>6. ASSUME NEW b \in Browsers, NEW k \in Keys, Holds(b, k)'
      PROVE  Holds(b, k)
  BY <1>4, <1>6 DEF Holds, IInv, Typed, InPlace
<1>7. OneHolder'
  BY <1>6 DEF IInv, OneHolder
<1>8. OwnRows'
  <2>1. \A k \in Keys : rows'[k].items \in {rows[k].items, {}}
    BY DEF Reachable, NoRow
  <2>2. \A b \in Browsers, k \in Keys : Holds(b, k)' => OwnItems(rows'[k].items, b)
    BY <1>6, <2>1 DEF IInv, OwnRows, OwnItems
  <2>3. \A s \in Requests : OwnItems(req'[s].data, req'[s].browser)
    BY <1>4 DEF IInv, OwnRows, OwnItems
  <2>4. ASSUME NEW k \in Keys, \A b \in Browsers : ~Holds(b, k)'
        PROVE  rows'[k].items = {}
    <3>1. k \notin InUse'
      BY <1>5, <2>4 DEF InUse, Holds, InPlace
    <3> QED  BY <3>1 DEF Reachable, NoRow
  <2>5. Engine # "db" => \A k \in Keys : rows'[k].items = {}
    BY <2>1 DEF IInv, OwnRows
  <2> QED  BY <2>2, <2>3, <2>4, <2>5 DEF OwnRows
<1> QED  BY <1>1, <1>2, <1>3, <1>5, <1>7, <1>8 DEF IInv, Typed

\* A request takes over the cookie of its browser.
LEMMA ArriveKeepsInv ==
    ASSUME IInv, NEW r \in Requests, NEW b \in Browsers, Arrive(r, b)
    PROVE  IInv'
<1> USE KeysAreNotEmpty
<1>1. PICK others \in SUBSET Requests :
         req' = [s \in Requests |->
                    IF s = r THEN [Idle EXCEPT !.at = "load", !.browser = b, !.key = jar[b].key,
                                               !.crowded = others # {}]
                    ELSE [req[s] EXCEPT !.crowded = @ \/ s \in others]]
  BY DEF Arrive
<1>2. rows' = rows /\ jar' = jar
  BY DEF Arrive
<1>3. jar[b].key \in Held
  BY DEF IInv, Typed, Cookies
<1>4. [Idle EXCEPT !.at = "load", !.browser = b, !.key = jar[b].key, !.crowded = others # {}]
        \in SessionsInMemory
  BY <1>3 DEF Idle, SessionsInMemory, Expiries, Stages
<1>5. ASSUME NEW s \in Requests
      PROVE  [req[s] EXCEPT !.crowded = @ \/ s \in others] \in SessionsInMemory
  BY DEF IInv, Typed, SessionsInMemory
<1>6. req' \in [Requests -> SessionsInMemory]
  BY <1>1, <1>4, <1>5
<1>7. /\ req'[r].at = "load" /\ req'[r].browser = b /\ req'[r].key = jar[b].key /\ req'[r].data = {}
      /\ \A s \in Requests \ {r} :
            /\ req'[s].at = req[s].at /\ req'[s].browser = req[s].browser
            /\ req'[s].key = req[s].key /\ req'[s].data = req[s].data
  BY <1>1 DEF IInv, Typed, SessionsInMemory, Idle
<1>8. InPlace'
  BY <1>7 DEF IInv, InPlace
<1>9. req[r].key = None
  BY DEF Arrive, IInv, InPlace
<1>10. \A a \in Browsers, k \in Keys : Holds(a, k)' <=> Holds(a, k)
  BY <1>2, <1>7, <1>9 DEF Holds
<1>11. OneHolder' /\ OwnRows'
  BY <1>2, <1>7, <1>10 DEF IInv, OneHolder, OwnRows, OwnItems
<1> QED  BY <1>2, <1>6, <1>8, <1>11 DEF IInv, Typed

\* Time takes cookies away and shortens what is left.
LEMMA TickKeepsInv ==
    ASSUME IInv, Tick
    PROVE  IInv'
<1> USE KeysAreNotEmpty
<1>1. ASSUME NEW left \in Nat \union {-1}
      PROVE  Later(left) \in Nat \union {-1}
  BY DEF Later
<1>2. \A k \in Keys : rows'[k] = [Reachable[k] EXCEPT !.left = Later(@)]
  BY DEF Tick
<1>3. rows' \in [Keys -> Rows] /\ \A k \in Keys : rows'[k].items = Reachable[k].items
  <2>1. ASSUME NEW row \in Rows
        PROVE  /\ [row EXCEPT !.left = Later(@)] \in Rows
               /\ [row EXCEPT !.left = Later(@)].items = row.items
    BY <1>1 DEF Rows
  <2> HIDE DEF Rows
  <2> QED  BY <2>1, ReachableTyped DEF Tick, IInv, Typed
<1>4. jar' \in [Browsers -> Cookies] /\ \A b \in Browsers : jar'[b].key \in {jar[b].key, None}
  <2>1. ASSUME NEW b \in Browsers, ~(jar[b].left <= 1)
        PROVE  /\ [jar[b] EXCEPT !.left = @ - 1] \in Cookies
               /\ [jar[b] EXCEPT !.left = @ - 1].key = jar[b].key
    BY <2>1 DEF IInv, Typed, Cookies
  <2>2. NoCookie \in Cookies /\ NoCookie.key = None
    BY DEF NoCookie, Cookies, Held
  <2> QED  BY <2>1, <2>2 DEF Tick
<1>5. req' \in [Requests -> SessionsInMemory]
  <2>1. ASSUME NEW r \in Requests
        PROVE  [req[r] EXCEPT !.expiry = IF @ = None THEN None ELSE Later(@)] \in SessionsInMemory
    <3>1. req[r] \in SessionsInMemory /\ req[r].expiry \in Expiries
      BY DEF IInv, Typed, SessionsInMemory
    <3>2. (IF req[r].expiry = None THEN None ELSE Later(req[r].expiry)) \in Expiries
      BY <1>1, <3>1 DEF Expiries
    <3> QED  BY <3>1, <3>2 DEF SessionsInMemory
  <2> QED  BY <2>1 DEF Tick
<1>6. \A r \in Requests : /\ req'[r].at = req[r].at /\ req'[r].browser = req[r].browser
                          /\ req'[r].key = req[r].key /\ req'[r].data = req[r].data
  BY DEF Tick, IInv, Typed, SessionsInMemory
<1>7. InPlace'
  BY <1>6 DEF IInv, InPlace
<1>8. ASSUME NEW b \in Browsers, NEW k \in Keys, Holds(b, k)'
      PROVE  Holds(b, k)
  BY <1>4, <1>6, <1>8 DEF Holds
<1>9. OneHolder'
  BY <1>8 DEF IInv, OneHolder
<1>10. OwnRows'
  <2>1. \A k \in Keys : rows'[k].items \in {rows[k].items, {}}
    BY <1>3 DEF Reachable, NoRow
  <2>2. \A b \in Browsers, k \in Keys : Holds(b, k)' => OwnItems(rows'[k].items, b)
    BY <1>8, <2>1 DEF IInv, OwnRows, OwnItems
  <2>3. \A s \in Requests : OwnItems(req'[s].data, req'[s].browser)
    BY <1>6 DEF IInv, OwnRows
  <2>4. ASSUME NEW k \in Keys, \A b \in Browsers : ~Holds(b, k)'
        PROVE  rows'[k].items = {}
    <3>1. k \notin InUse'
      BY <1>7, <2>4 DEF InUse, Holds, InPlace
    <3> QED  BY <1>3, <3>1 DEF Reachable, NoRow
  <2>5. Engine # "db" => \A k \in Keys : rows'[k].items = {}
    BY <2>1 DEF IInv, OwnRows
  <2> QED  BY <2>2, <2>3, <2>4, <2>5 DEF OwnRows
<1> QED  BY <1>3, <1>4, <1>5, <1>7, <1>9, <1>10 DEF IInv, Typed
-----------------------------------------------------------------------------
(* The invariant and the two theorems.                                     *)

LEMMA NextKeepsInv ==
    ASSUME IInv, [Next]_vars
    PROVE  IInv'
<1> USE KeysAreNotEmpty
<1>0. ASSUME NEW r \in Requests
      PROVE  /\ req[r].data \in SUBSET Items /\ OwnItems(req[r].data, req[r].browser)
             /\ req[r].key \in Held /\ req[r].expiry \in Expiries /\ None \in Expiries
             /\ rows \in [Keys -> Rows]
  BY DEF IInv, OwnRows, Typed, SessionsInMemory, Expiries
\* A step that only moves r to another stage, with the session it has.
<1>1. ASSUME NEW r \in Requests, NEW at \in Stages \ {"idle", "load"}, req' = [req EXCEPT ![r].at = at]
      PROVE  Working(r)
  BY <1>0, <1>1, RequestChanges DEF Working, IInv
<1>2. ASSUME NEW r \in Requests, Load(r)
      PROVE  IInv'
  <2>1. CASE Create(r) /\ (req[r].key = None \/ Engine # "db")
    <3>1. Creating(r)
      BY <2>1, CreateChanges DEF IInv
    <3> QED  BY <1>2, <2>1, <3>1, CreatingKeepsInv DEF Load
  <2>2. CASE /\ req[r].key # None
             /\ \E at \in {"view", "purge"} : req' = [req EXCEPT ![r].at = at]
    <3>1. Working(r)
      BY <1>1, <2>2 DEF Stages
    <3> QED  BY <1>0, <1>2, <2>2, <3>1, WorkingKeepsInv DEF Load, Held
  <2>3. CASE req[r].key # None /\ req' = [req EXCEPT ![r].at = "view", ![r].data = rows[req[r].key].items]
    <3>1. req[r].key \in Keys /\ "view" \in Stages
      BY <1>0, <2>3 DEF Held, Stages
    <3>2. rows[req[r].key].items \in SUBSET Items
      BY <3>1 DEF IInv, Typed, Rows
    <3>3. OwnItems(rows[req[r].key].items, req[r].browser)
      BY <1>2, <3>1 DEF Load, IInv, InPlace, OwnRows, Holds
    <3>4. Changes(r, "view", req[r].key, rows[req[r].key].items)
      BY <1>0, <2>3, <3>1, <3>2, RequestChanges DEF IInv
    <3>5. Working(r)
      BY <3>1, <3>2, <3>3, <3>4 DEF Working
    <3> QED  BY <1>0, <1>2, <3>1, <3>5, WorkingKeepsInv DEF Load
  <2> QED  BY <1>2, <2>1, <2>2, <2>3 DEF Load, LoadNothing
<1>3. ASSUME NEW r \in Requests, LoadFails(r) \/ PurgeFails(r)
      PROVE  IInv'
  <2>1. Working(r)
    BY <1>1, <1>3 DEF LoadFails, PurgeFails, Stages
  <2>2. req[r].at # "idle" /\ req[r].key \in Keys
    BY <1>0, <1>3 DEF LoadFails, PurgeFails, Held, IInv, InPlace
  <2> QED  BY <1>0, <1>3, <2>1, <2>2, WorkingKeepsInv DEF LoadFails, PurgeFails
<1>4. ASSUME NEW r \in Requests, Purge(r)
      PROVE  IInv'
  <2>1. Working(r)
    BY <1>1, <1>4 DEF Purge, Stages
  <2>2. req[r].at # "idle" /\ req[r].key \in Keys
    BY <1>4 DEF Purge, IInv, InPlace
  <2>3. rows' \in [Keys -> Rows] /\ \A k \in Keys : rows'[k].items \in {rows[k].items, {}}
    BY <1>0, <1>4 DEF Purge, NoRow, Rows
  <2> QED  BY <1>4, <2>1, <2>2, <2>3, WorkingKeepsInv DEF Purge
<1>5. ASSUME NEW r \in Requests, Modify(r)
      PROVE  IInv'
  <2> DEFINE Data(set, deleted) ==
               {item \in req[r].data : item[2] \notin deleted} \union ({req[r].browser} \X set)
  <2>1. \E set, deleted \in SUBSET Names, life \in Lives \union {None} :
           req' = [req EXCEPT ![r].at = "save", ![r].expiry = life, ![r].data = Data(set, deleted)]
    <3>1. \E set, deleted \in SUBSET Names, life \in Lives \union {None} :
             /\ set # {} \/ deleted # {} \/ life # None
             /\ req' = [req EXCEPT ![r].at = "save", ![r].expiry = life, ![r].data = Data(set, deleted)]
      BY <1>5, Zenon DEF Modify
    <3> HIDE DEF Data
    <3> QED  BY <3>1, Zenon
  <2> HIDE DEF Data
  <2>2. PICK set \in SUBSET Names, deleted \in SUBSET Names, life \in Lives \union {None} :
           req' = [req EXCEPT ![r].at = "save", ![r].expiry = life, ![r].data = Data(set, deleted)]
    BY <2>1
  <2> DEFINE data == Data(set, deleted)
  <2>3. req[r].at # "idle" /\ req[r].key \in Keys /\ req[r].browser \in Browsers
    BY <1>5 DEF Modify, IInv, InPlace
  <2>4. data \in SUBSET Items /\ OwnItems(data, req[r].browser)
    BY <1>0, <2>3 DEF Data, Items, OwnItems
  <2>5. life \in Expiries /\ "save" \in Stages
    BY Durations DEF Expiries, Stages
  <2>6. req' = [req EXCEPT ![r].at = "save", ![r].expiry = life, ![r].data = data]
    BY <2>2
  <2> HIDE DEF data
  <2>7. Changes(r, "save", req[r].key, data)
    BY <1>0, <2>6, <2>4, <2>5, RequestChanges DEF IInv
  <2>8. Working(r)
    BY <2>4, <2>5, <2>7 DEF Working
  <2> QED  BY <1>0, <1>5, <2>3, <2>8, WorkingKeepsInv DEF Modify
<1>6. ASSUME NEW r \in Requests, Leave(r) \/ Lost(r)
      PROVE  IInv'
  BY <1>6, EndKeepsInv DEF Leave, Lost, End
<1>7. ASSUME NEW r \in Requests, Save(r) \/ SaveFails(r)
      PROVE  IInv'
  <2>1. {} \in SUBSET Items /\ OwnItems({}, req[r].browser)
    BY DEF OwnItems
  <2>2. Working(r)
    <3>1. CASE Save(r)
      BY <1>0, <2>1, <3>1, RequestChanges DEF Save, Working, IInv, Stages
    <3>2. CASE SaveFails(r)
      BY <1>0, <2>1, <3>2, RequestChanges DEF SaveFails, Working, IInv, Stages
    <3> QED  BY <1>7, <3>1, <3>2
  <2>3. req[r].at # "idle" /\ req[r].key \in Keys
    BY <1>7 DEF Save, SaveFails, IInv, InPlace
  <2>4. Written(r) \in [Keys -> Rows]
    BY <1>0, StoredTyped DEF Written, IInv
  <2>5. \A k \in Keys : \/ Written(r)[k].items \in {rows[k].items, {}}
                        \/ k = req[r].key /\ Written(r)[k].items = req[r].data /\ Engine = "db"
    BY <1>0, StoredTyped DEF Written, IInv
  <2>6. jar' = jar /\ rows' \in {rows, Written(r)}
    BY <1>7 DEF Save, SaveFails
  <2> QED  BY <1>0, <2>2, <2>3, <2>4, <2>5, <2>6, WorkingKeepsInv
<1>8. ASSUME NEW r \in Requests, Respond(r)
      PROVE  IInv'
  BY <1>8, EndKeepsInv DEF Respond
<1>9. CASE UNCHANGED vars
  BY <1>9 DEF vars, IInv, Typed, InPlace, OneHolder, OwnRows, Holds
<1> QED
  BY <1>2, <1>3, <1>4, <1>5, <1>6, <1>7, <1>8, <1>9, ArriveKeepsInv, TickKeepsInv DEF Next

\* Between any two requests, faults and losses the state is well formed, and a
\* request past its loading has a session key.
THEOREM TypeCorrect == Spec => []TypeOK
<1>1. IInv => TypeOK
  BY DEF IInv, Typed, InPlace, TypeOK, Rows, Cookies, Held, SessionsInMemory
<1> QED  BY <1>1, InitInv, NextKeepsInv, PTL DEF Spec

\* No browser gets at the session of another, for any number of browsers and
\* overlapping requests and each engine.
THEOREM SessionsApartAlways == Spec => []SessionsApart
<1>1. IInv => SessionsApart
  <2> SUFFICES ASSUME IInv PROVE SessionsApart
    OBVIOUS
  <2>1. \A r \in Requests : \A item \in req[r].data : item[1] = req[r].browser
    BY DEF IInv, OwnRows, OwnItems
  <2>2. \A b \in Browsers : jar[b].key \in Held
    BY DEF IInv, Typed, Cookies
  <2>3. ASSUME NEW a \in Browsers, NEW b \in Browsers, jar[a].key = jar[b].key, jar[a].key # None
        PROVE  a = b
    BY <2>2, <2>3 DEF Held, Holds, IInv, OneHolder
  <2> QED  BY <2>1, <2>3 DEF SessionsApart
<1> QED  BY <1>1, InitInv, NextKeepsInv, PTL DEF Spec
-----------------------------------------------------------------------------
(***************************************************************************)
(* A session lasts: a browser that sends one request at a time finds what  *)
(* its last saved request left, and what such a request deletes has        *)
(* expired.  The argument is about the request that is alone with its      *)
(* browser.  A key has one holder (OneHolder), so no request of another    *)
(* browser writes or deletes the row; and whatever happens to the lone     *)
(* request, row and cookie outlive what is expected of them.               *)
(***************************************************************************)
Expectations == [items : SUBSET Items, left : Nat \union {-1}]

\* Two requests that overlap know it, and nothing is expected of them.
Crowded ==
    /\ \A r, s \in Requests :
          r # s /\ req[r].at # "idle" /\ req[s].at # "idle" /\ req[r].browser = req[s].browser
             => req[r].crowded
    /\ \A r \in Requests : req[r].at # "idle" /\ req[r].crowded => expected[req[r].browser].left < 0

PurgesExpired == \A r \in Requests : req[r].at = "purge" /\ ~req[r].crowded => rows[req[r].key].left < 0

LiveRowsAreThere == \A k \in Keys : rows[k].left >= 0 => rows[k].there

\* What is expected of a browser is in its row, and row and cookie last as long.
Kept(b) ==
    expected[b].left >= 0 =>
       /\ jar[b].key \in Keys
       /\ jar[b].left > expected[b].left
       /\ rows[jar[b].key].items = expected[b].items
       /\ rows[jar[b].key].left >= expected[b].left

LoadsItsCookie ==
    \A r \in Requests :
       req[r].at = "load" /\ ~req[r].crowded /\ expected[req[r].browser].left >= 0
          => req[r].key = jar[req[r].browser].key

KeptInv ==
    /\ IInv
    /\ expected \in [Browsers -> Expectations]
    /\ \A b \in Browsers : jar[b].left <= CookieAge
    /\ Crowded
    /\ PurgesExpired
    /\ LiveRowsAreThere
    /\ \A b \in Browsers : Kept(b)
    /\ LoadsItsCookie
-----------------------------------------------------------------------------
LEMMA InitKept == Init => KeptInv
<1> SUFFICES ASSUME Init PROVE KeptInv
  OBVIOUS
<1>1. IInv
  BY InitInv
<1>2. expected \in [Browsers -> Expectations] /\ \A b \in Browsers : expected[b].left = -1
  BY DEF Init, Nothing, Expectations
<1>3. \A b \in Browsers : jar[b].left <= CookieAge
  BY Durations DEF Init, NoCookie
<1>4. \A r \in Requests : req[r].at = "idle"
  BY DEF Init, Idle
<1>5. LiveRowsAreThere
  BY DEF Init, NoRow, LiveRowsAreThere
<1>6. Crowded /\ PurgesExpired /\ LoadsItsCookie /\ \A b \in Browsers : Kept(b)
  BY <1>2, <1>4 DEF Crowded, PurgesExpired, LoadsItsCookie, Kept
<1> QED BY <1>1, <1>2, <1>3, <1>5, <1>6 DEF KeptInv

\* What the requests are.
LEMMA Facts ==
    ASSUME IInv, NEW r \in Requests
    PROVE  /\ req[r] \in SessionsInMemory
           /\ req[r].crowded \in BOOLEAN
           /\ req[r].at # "idle" => req[r].browser \in Browsers
           /\ req[r].at \notin {"idle", "load"} => req[r].key \in Keys
BY DEF IInv, Typed, InPlace, SessionsInMemory

\* A request at work stays the request it was, and past its loading keeps its key.
AtWork(r) ==
    /\ req[r].at # "idle" /\ req'[r].at \notin {"idle", "load"}
    /\ req'[r].browser = req[r].browser /\ req'[r].crowded = req[r].crowded
    /\ \A s \in Requests \ {r} : req'[s] = req[s]

\* A view's changes to its session, whatever they are.
LEMMA ModifyMoves ==
    ASSUME IInv, NEW r \in Requests, Modify(r)
    PROVE  /\ AtWork(r)
           /\ req'[r].at = "save"
<1> DEFINE Data(set, deleted) ==
             {item \in req[r].data : item[2] \notin deleted} \union ({req[r].browser} \X set)
<1>1. /\ req[r].at = "view"
      /\ \E set, deleted \in SUBSET Names, life \in Lives \union {None} :
            /\ set # {} \/ deleted # {} \/ life # None
            /\ req' = [req EXCEPT ![r].at = "save", ![r].expiry = life, ![r].data = Data(set, deleted)]
  BY Zenon DEF Modify
<1> HIDE DEF Data
<1>2. PICK data, life : req' = [req EXCEPT ![r].at = "save", ![r].expiry = life, ![r].data = data]
  BY <1>1, Zenon
<1> QED BY <1>1, <1>2 DEF IInv, Typed, SessionsInMemory, AtWork

LEMMA WorkIsWork ==
    ASSUME IInv, NEW r \in Requests,
           \/ Load(r) \/ LoadFails(r) \/ Purge(r) \/ PurgeFails(r)
           \/ Modify(r) \/ Save(r) \/ SaveFails(r)
    PROVE  AtWork(r)
<1>1. req[r] \in SessionsInMemory /\ req \in [Requests -> SessionsInMemory]
  BY DEF IInv, Typed
<1>2. CASE Load(r)
  BY <1>1, <1>2 DEF Load, LoadNothing, Create, AtWork, SessionsInMemory
<1>3. CASE LoadFails(r) \/ Purge(r) \/ PurgeFails(r)
  BY <1>1, <1>3 DEF LoadFails, Purge, PurgeFails, AtWork, SessionsInMemory
<1>4. CASE Modify(r)
  BY <1>4, ModifyMoves
<1>5. CASE Save(r) \/ SaveFails(r)
  BY <1>1, <1>5 DEF Save, SaveFails, AtWork, SessionsInMemory
<1> QED BY <1>2, <1>3, <1>4, <1>5

\* A request that works alters no other, and is in the place it was in.
LEMMA WorkKeepsRequests ==
    ASSUME KeptInv, NEW r \in Requests, AtWork(r)
    PROVE  /\ \A s \in Requests : req'[s].at # "idle" <=> req[s].at # "idle"
           /\ \A s \in Requests : req'[s].browser = req[s].browser /\ req'[s].crowded = req[s].crowded
           /\ \A s \in Requests : req'[s].at = "load" => req'[s] = req[s]
           /\ \A s \in Requests :
                 s # r /\ req[s].at # "idle" /\ req[s].browser = req[r].browser => req[s].crowded
BY DEF KeptInv, Crowded, AtWork

\* A step of one request in which only the request changes.
LEMMA QuietWorkKeeps ==
    ASSUME KeptInv, IInv', NEW r \in Requests, AtWork(r), UNCHANGED <<rows, jar, expected>>,
           req'[r].at = "purge" => rows[req'[r].key].left < 0
    PROVE  KeptInv'
<1> USE DEF KeptInv
<1>1. Crowded'
  BY WorkKeepsRequests DEF Crowded
<1>2. PurgesExpired'
  BY DEF PurgesExpired, AtWork
<1>3. LiveRowsAreThere' /\ \A b \in Browsers : Kept(b)'
  BY DEF LiveRowsAreThere, Kept
<1>4. LoadsItsCookie'
  BY WorkKeepsRequests DEF LoadsItsCookie
<1> QED BY <1>1, <1>2, <1>3, <1>4

LEMMA LoadKeeps ==
    ASSUME KeptInv, IInv', NEW r \in Requests, Load(r) PROVE KeptInv'
<1>1. AtWork(r) /\ UNCHANGED <<rows, jar, expected>>
  BY WorkIsWork DEF KeptInv, Load
<1>2. req'[r].at = "purge" => rows[req'[r].key].left < 0
  BY Facts DEF KeptInv, IInv, Typed, SessionsInMemory, Load, LoadNothing, Create, Expired
<1> QED BY <1>1, <1>2, QuietWorkKeeps

LEMMA OtherWorkKeeps ==
    ASSUME KeptInv, IInv', NEW r \in Requests, LoadFails(r) \/ PurgeFails(r) \/ Modify(r) \/ SaveFails(r)
    PROVE  KeptInv'
<1>1. AtWork(r) /\ UNCHANGED <<rows, jar, expected>>
  BY WorkIsWork DEF KeptInv, LoadFails, PurgeFails, Modify, SaveFails
<1>2. req'[r].at # "purge"
  <2>1. CASE Modify(r)
    BY <2>1, ModifyMoves DEF KeptInv
  <2>2. CASE LoadFails(r) \/ PurgeFails(r) \/ SaveFails(r)
    BY <2>2 DEF KeptInv, IInv, Typed, SessionsInMemory, LoadFails, PurgeFails, SaveFails
  <2> QED BY <2>1, <2>2
<1> QED BY <1>1, <1>2, QuietWorkKeeps

\* The rows of other browsers have other keys.
LEMMA OtherKeys ==
    ASSUME IInv, NEW r \in Requests, req[r].at \notin {"idle", "load"}
    PROVE  /\ \A b \in Browsers : jar[b].key = req[r].key => b = req[r].browser
           /\ \A s \in Requests : req[s].at # "idle" /\ req[s].key = req[r].key => req[s].browser = req[r].browser
<1>1. req[r].browser \in Browsers /\ req[r].key \in Keys /\ Holds(req[r].browser, req[r].key)
  BY Facts DEF Holds
<1>2. \A s \in Requests : req[s].at # "idle" => req[s].browser \in Browsers
  BY Facts
<1> QED BY <1>1, <1>2 DEF IInv, OneHolder, Holds

\* A purge takes the row of a lone request only when nothing is expected of it.
LEMMA PurgeKeeps ==
    ASSUME KeptInv, IInv', NEW r \in Requests, Purge(r) PROVE KeptInv'
<1> USE DEF KeptInv
<1>1. AtWork(r) /\ UNCHANGED <<jar, expected>> /\ req'[r].at = "view"
  BY WorkIsWork DEF Purge, IInv, Typed, SessionsInMemory
<1>2. req[r].at = "purge" /\ req[r].key \in Keys /\ req[r].browser \in Browsers
  BY Facts DEF Purge
<1>3. rows'[req[r].key] = NoRow /\ \A k \in Keys : k # req[r].key => rows'[k] = rows[k]
  BY <1>2 DEF Purge, IInv, Typed
<1>4. Crowded' /\ LoadsItsCookie'
  BY <1>1, WorkKeepsRequests DEF Crowded, LoadsItsCookie
<1>5. PurgesExpired'
  <2>1. ASSUME NEW s \in Requests, req'[s].at = "purge", ~req'[s].crowded PROVE rows'[req'[s].key].left < 0
    <3>1. req'[s] = req[s] /\ req[s].key \in Keys
      BY <1>1, <2>1, Facts DEF AtWork
    <3> QED BY <1>3, <2>1, <3>1 DEF PurgesExpired, NoRow
  <2> QED BY <2>1 DEF PurgesExpired
<1>6. LiveRowsAreThere'
  BY <1>3 DEF LiveRowsAreThere, NoRow
<1>7. ASSUME NEW b \in Browsers PROVE Kept(b)'
  <2>1. CASE jar[b].key # req[r].key
    BY <1>1, <1>3, <2>1 DEF Kept
  <2>2. CASE jar[b].key = req[r].key
    <3>1. b = req[r].browser
      BY <1>2, <2>2, OtherKeys
    <3>2. expected[b].left < 0
      <4>1. CASE req[r].crowded
        BY <1>2, <3>1, <4>1 DEF Crowded
      <4>2. CASE ~req[r].crowded
        <5>1. rows[jar[b].key].left < 0 /\ rows[jar[b].key].left \in Nat \union {-1}
          BY <1>2, <2>2, <4>2 DEF PurgesExpired, IInv, Typed, Rows
        <5>2. expected[b].left \in Nat \union {-1}
          BY DEF Expectations
        <5> QED BY <5>1, <5>2 DEF Kept
      <4> QED BY <4>1, <4>2
    <3> QED BY <1>1, <3>2 DEF Kept, Expectations
  <2> QED BY <2>1, <2>2
<1> QED BY <1>1, <1>4, <1>5, <1>6, <1>7

\* The expectation that Promise makes.
LEMMA PromiseTyped ==
    ASSUME NEW items \in SUBSET Items, NEW left \in Nat \union {-1}, NEW cookie \in Nat
    PROVE  /\ Promise(items, left, cookie) \in Expectations
           /\ Promise(items, left, cookie).left >= 0 =>
                 /\ Promise(items, left, cookie).items = items
                 /\ Promise(items, left, cookie).left <= left
                 /\ Promise(items, left, cookie).left < cookie
BY DEF Promise, Expectations, Least, Nothing

\* What is saved is expected from then on, by the browser that has its key.
LEMMA SaveKeeps ==
    ASSUME KeptInv, IInv', NEW r \in Requests, Save(r), Engine = "db" PROVE KeptInv'
<1> DEFINE b == req[r].browser
           k == req[r].key
           promised == Promise(req[r].data, ExpireDate(r), jar[b].left)
<1> USE DEF KeptInv
<1>1. AtWork(r) /\ req'[r].at = "saved" /\ jar' = jar
  BY WorkIsWork DEF Save, IInv, Typed, SessionsInMemory
<1>2. req[r].at = "save" /\ k \in Keys /\ b \in Browsers
  BY Facts DEF Save
<1>3. /\ rows'[k] = Stored(r) /\ Stored(r).items = req[r].data
      /\ Stored(r).there /\ Stored(r).left = ExpireDate(r)
      /\ \A j \in Keys : j # k => rows'[j] = rows[j]
  BY <1>2 DEF Save, Written, Stored, IInv, Typed
<1>4. /\ expected' = [expected EXCEPT ![b] = IF req[r].crowded \/ jar[b].key # k THEN Nothing ELSE promised]
      /\ req[r].data \in SUBSET Items /\ ExpireDate(r) \in Nat \union {-1} /\ jar[b].left \in Nat
  <2>1. req[r].data \in SUBSET Items /\ req[r].expiry \in Expiries
    BY Facts DEF SessionsInMemory
  <2>2. jar[b].left \in Nat
    BY <1>2 DEF IInv, Typed, Cookies
  <2>3. ExpireDate(r) \in Nat \union {-1}
    BY <2>1, Durations DEF ExpireDate, Expiries
  <2> QED BY <2>1, <2>2, <2>3 DEF Save
<1>5. /\ promised \in Expectations
      /\ promised.left >= 0 =>
            promised.items = req[r].data /\ promised.left <= ExpireDate(r) /\ promised.left < jar[b].left
  BY <1>4, PromiseTyped
<1>6. Nothing \in Expectations /\ Nothing.left = -1
  BY DEF Nothing, Expectations
<1> HIDE DEF promised
<1>7. /\ expected' \in [Browsers -> Expectations]
      /\ \A a \in Browsers : a # b => expected'[a] = expected[a]
      /\ req[r].crowded \/ jar[b].key # k => expected'[b].left < 0
      /\ ~req[r].crowded /\ jar[b].key = k => expected'[b] = promised
  BY <1>2, <1>4, <1>5, <1>6
<1> HIDE DEF b, k
<1>8. \A s \in Requests : s # r /\ req[s].at # "idle" /\ req[s].browser = b => req[s].crowded /\ req[r].crowded
  BY <1>2 DEF Crowded, b
<1>9. Crowded'
  <2>1. ASSUME NEW s \in Requests, req'[s].at # "idle", req'[s].crowded
        PROVE  expected'[req'[s].browser].left < 0
    BY <1>1, <1>7, <1>8, <2>1, WorkKeepsRequests, Facts DEF Crowded, b
  <2> QED BY <1>1, <2>1, WorkKeepsRequests DEF Crowded
<1>10. PurgesExpired'
  <2>1. ASSUME NEW s \in Requests, req'[s].at = "purge", ~req'[s].crowded PROVE rows'[req'[s].key].left < 0
    <3>1. s # r /\ req'[s] = req[s] /\ req[s].key \in Keys
      BY <1>1, <2>1, Facts DEF AtWork
    <3>2. req[s].key # k
      BY <1>2, <1>8, <2>1, <3>1, OtherKeys DEF b, k
    <3> QED BY <1>3, <2>1, <3>1, <3>2 DEF PurgesExpired
  <2> QED BY <2>1 DEF PurgesExpired
<1>11. LiveRowsAreThere'
  BY <1>3 DEF LiveRowsAreThere
<1>12. ASSUME NEW a \in Browsers PROVE Kept(a)'
  <2>1. CASE a = b /\ expected'[b] = promised /\ jar[b].key = k
    BY <1>1, <1>2, <1>3, <1>4, <1>5, <2>1 DEF Kept
  <2>2. CASE a # b
    <3>1. jar[a].key # k
      BY <1>2, <2>2, OtherKeys DEF b, k
    <3> QED BY <1>1, <1>3, <1>7, <2>2, <3>1 DEF Kept
  <2>3. CASE a = b /\ expected'[b].left < 0
    BY <1>7, <2>3 DEF Kept, Expectations
  <2> QED BY <1>7, <2>1, <2>2, <2>3
<1>13. LoadsItsCookie'
  <2>1. ASSUME NEW s \in Requests, req'[s].at = "load", ~req'[s].crowded, expected'[req'[s].browser].left >= 0
        PROVE  req'[s].key = jar'[req'[s].browser].key
    <3>1. s # r /\ req'[s] = req[s] /\ req[s].browser # b
      BY <1>1, <1>8, <2>1 DEF AtWork
    <3> QED BY <1>1, <1>7, <2>1, <3>1, Facts DEF LoadsItsCookie
  <2> QED BY <2>1 DEF LoadsItsCookie
<1> QED BY <1>1, <1>7, <1>9, <1>10, <1>11, <1>12, <1>13

\* Once a request is gone, rows whose key nobody has are forgotten.
Gone(r) ==
    /\ req'[r].at = "idle"
    /\ \A s \in Requests \ {r} : req'[s] = req[s]
    /\ \A k \in Keys : rows'[k] = IF k \in InUse' THEN rows[k] ELSE NoRow

LEMMA GoneIsGone ==
    ASSUME IInv, NEW r \in Requests, req' = [req EXCEPT ![r] = Idle], rows' = Reachable
    PROVE  Gone(r)
BY DEF IInv, Typed, Gone, Reachable, Idle

LEMMA GoneKeeps ==
    ASSUME KeptInv, NEW r \in Requests, Gone(r)
    PROVE  PurgesExpired' /\ LiveRowsAreThere'
<1>1. PurgesExpired'
  <2>1. ASSUME NEW s \in Requests, req'[s].at = "purge", ~req'[s].crowded PROVE rows'[req'[s].key].left < 0
    <3>1. req'[s] = req[s] /\ req[s].key \in Keys
      BY <2>1, Facts DEF Gone, KeptInv
    <3> QED BY <2>1, <3>1 DEF Gone, NoRow, KeptInv, PurgesExpired
  <2> QED BY <2>1 DEF PurgesExpired
<1>2. LiveRowsAreThere'
  BY DEF Gone, NoRow, KeptInv, LiveRowsAreThere
<1> QED BY <1>1, <1>2

\* A request that ends without a cookie takes nothing with it.
LEMMA EndKeeps ==
    ASSUME KeptInv, IInv', NEW r \in Requests, End(r) PROVE KeptInv'
<1> USE DEF KeptInv
<1>1. Gone(r) /\ jar' = jar /\ expected' = expected
  BY GoneIsGone DEF End
<1>2. Crowded'
  BY <1>1 DEF Crowded, Gone
<1>3. LoadsItsCookie'
  BY <1>1 DEF LoadsItsCookie, Gone
<1>4. ASSUME NEW b \in Browsers PROVE Kept(b)'
  BY <1>1 DEF Kept, Gone, InUse
<1> QED BY <1>1, <1>2, <1>3, <1>4, GoneKeeps

\* The answer brings the key of the row that was saved, or the key the browser had.
LEMMA RespondKeeps ==
    ASSUME KeptInv, IInv', NEW r \in Requests, Respond(r) PROVE KeptInv'
<1> DEFINE b == req[r].browser
           k == req[r].key
           promised == Promise(rows[k].items, rows[k].left, CookieAge)
<1> USE DEF KeptInv
<1>1. Gone(r)
  BY GoneIsGone DEF Respond
<1>2. req[r].at \in {"saved", "unsaved"} /\ k \in Keys /\ b \in Browsers
  BY Facts DEF Respond
<1>3. /\ jar'[b].key = k /\ jar'[b].left = CookieAge
      /\ \A a \in Browsers : a # b => jar'[a] = jar[a]
  BY <1>2 DEF Respond, IInv, Typed
<1>4. rows[k].items \in SUBSET Items /\ rows[k].left \in Nat \union {-1} /\ CookieAge \in Nat
  BY <1>2, Durations DEF IInv, Typed, Rows
<1>5. /\ promised \in Expectations
      /\ promised.left >= 0 =>
            promised.items = rows[k].items /\ promised.left <= rows[k].left /\ promised.left < CookieAge
  BY <1>4, PromiseTyped
<1>6. Nothing \in Expectations /\ Nothing.left = -1
  BY DEF Nothing, Expectations
<1>7. expected' = [expected EXCEPT ![b] =
          IF req[r].crowded THEN Nothing
          ELSE IF req[r].at = "saved" THEN promised
          ELSE IF jar[b].key = k THEN @ ELSE Nothing]
  BY DEF Respond
<1> HIDE DEF promised
<1>8. /\ expected' \in [Browsers -> Expectations]
      /\ \A a \in Browsers : a # b => expected'[a] = expected[a]
      /\ req[r].crowded => expected'[b].left < 0
      /\ \/ expected'[b].left < 0
         \/ expected'[b] = promised
         \/ jar[b].key = k /\ expected'[b] = expected[b]
  BY <1>2, <1>5, <1>6, <1>7
<1> HIDE DEF b, k
<1>9. \A s \in Requests : s # r /\ req[s].at # "idle" /\ req[s].browser = b => req[s].crowded /\ req[r].crowded
  BY <1>2 DEF Crowded, b
<1>10. Crowded'
  <2>1. ASSUME NEW s \in Requests, req'[s].at # "idle", req'[s].crowded
        PROVE  expected'[req'[s].browser].left < 0
    BY <1>1, <1>8, <1>9, <2>1, Facts DEF Crowded, Gone
  <2> QED BY <1>1, <2>1 DEF Crowded, Gone
<1>11. LoadsItsCookie'
  <2>1. ASSUME NEW s \in Requests, req'[s].at = "load", ~req'[s].crowded, expected'[req'[s].browser].left >= 0
        PROVE  req'[s].key = jar'[req'[s].browser].key
    <3>1. s # r /\ req'[s] = req[s] /\ req[s].browser # b
      BY <1>1, <1>9, <2>1 DEF Gone
    <3> QED BY <1>3, <1>8, <2>1, <3>1, Facts DEF LoadsItsCookie
  <2> QED BY <2>1 DEF LoadsItsCookie
<1>12. \A a \in Browsers : jar'[a].left <= CookieAge
  BY <1>3, <1>4
<1>13. ASSUME NEW a \in Browsers PROVE Kept(a)'
  <2>1. CASE a # b
    <3>1. jar'[a].key \in InUse'
      BY DEF InUse
    <3> QED BY <1>1, <1>3, <1>8, <2>1, <3>1 DEF Kept, Gone
  <2>2. CASE a = b
    <3>1. rows'[k] = rows[k]
      BY <1>1, <1>2, <1>3 DEF Gone, InUse
    <3>2. CASE expected'[b].left < 0
      BY <1>2, <1>8, <2>2, <3>2 DEF Kept, Expectations
    <3>3. CASE expected'[b] = promised
      BY <1>2, <1>3, <1>5, <2>2, <3>1, <3>3 DEF Kept
    <3>4. CASE jar[b].key = k /\ expected'[b] = expected[b]
      <4>1. jar[b].left <= CookieAge /\ jar[b].left \in Nat /\ expected[b].left \in Nat \union {-1}
        BY <1>2, <1>4 DEF IInv, Typed, Cookies, Expectations
      <4> QED BY <1>2, <1>3, <1>4, <2>2, <3>1, <3>4, <4>1 DEF Kept
    <3> QED BY <1>8, <3>2, <3>3, <3>4
  <2> QED BY <2>1, <2>2
<1> QED BY <1>1, <1>8, <1>10, <1>11, <1>12, <1>13, GoneKeeps

\* A request that finds others of its browser makes them and itself crowded.
LEMMA ArriveKeeps ==
    ASSUME KeptInv, IInv', NEW r \in Requests, NEW b \in Browsers, Arrive(r, b) PROVE KeptInv'
<1> DEFINE others == {s \in Requests : req[s].at # "idle" /\ req[s].browser = b}
<1> USE DEF KeptInv
<1>1. /\ req[r].at = "idle" /\ UNCHANGED <<rows, jar>>
      /\ expected' = [expected EXCEPT ![b] = IF others = {} THEN @ ELSE Nothing]
      /\ req' = [s \in Requests |->
                    IF s = r THEN [Idle EXCEPT !.at = "load", !.browser = b, !.key = jar[b].key,
                                               !.crowded = others # {}]
                    ELSE [req[s] EXCEPT !.crowded = @ \/ s \in others]]
  BY DEF Arrive
<1>2. /\ req'[r].at = "load" /\ req'[r].browser = b /\ req'[r].key = jar[b].key
      /\ req'[r].crowded <=> others # {}
  BY <1>1 DEF Idle
<1>3. ASSUME NEW s \in Requests \ {r}
      PROVE  /\ req'[s].at = req[s].at /\ req'[s].browser = req[s].browser /\ req'[s].key = req[s].key
             /\ req'[s].crowded <=> req[s].crowded \/ s \in others
  BY <1>1, ZenonT(40) DEF IInv, Typed, SessionsInMemory
<1>4. Nothing \in Expectations /\ Nothing.left = -1
  BY DEF Nothing, Expectations
<1>5. /\ expected' \in [Browsers -> Expectations]
      /\ \A a \in Browsers : expected'[a] = expected[a] \/ expected'[a].left = -1
      /\ others # {} => expected'[b].left = -1
  <2> DEFINE e == IF others = {} THEN expected[b] ELSE Nothing
  <2>1. expected' = [expected EXCEPT ![b] = e] /\ expected \in [Browsers -> Expectations]
    BY <1>1
  <2>2. e \in Expectations /\ (e = expected[b] \/ e.left = -1) /\ (others # {} => e.left = -1)
    BY <1>4
  <2> HIDE DEF e
  <2> QED BY <2>1, <2>2
<1>6. \A a \in Browsers : expected'[a].left >= 0 => expected[a].left >= 0
  BY <1>5
<1>7. \A s \in Requests : s \in others <=> req[s].at # "idle" /\ req[s].browser = b
  OBVIOUS
<1> HIDE DEF others
<1>8. Crowded'
  <2>1. ASSUME NEW s \in Requests, NEW t \in Requests, s # t, req'[s].at # "idle", req'[t].at # "idle",
               req'[s].browser = req'[t].browser
        PROVE  req'[s].crowded
    <3>1. CASE s = r
      BY <1>2, <1>3, <1>7, <2>1, <3>1
    <3>2. CASE t = r
      BY <1>2, <1>3, <1>7, <2>1, <3>2
    <3>3. CASE s # r /\ t # r
      BY <1>3, <2>1, <3>3 DEF Crowded
    <3> QED BY <3>1, <3>2, <3>3
  <2>2. ASSUME NEW s \in Requests, req'[s].at # "idle", req'[s].crowded
        PROVE  expected'[req'[s].browser].left < 0
    <3>1. CASE s = r \/ s \in others
      <4>1. req'[s].browser = b
        BY <1>2, <1>3, <1>7, <3>1
      <4>2. others # {}
        BY <1>2, <2>2, <3>1
      <4> QED BY <1>5, <4>1, <4>2
    <3>2. CASE s # r /\ s \notin others
      BY <1>3, <1>5, <2>2, <3>2, Facts DEF Crowded
    <3> QED BY <3>1, <3>2
  <2> QED BY <2>1, <2>2 DEF Crowded
<1>9. PurgesExpired'
  BY <1>1, <1>2, <1>3, ZenonT(40) DEF PurgesExpired
<1>10. LiveRowsAreThere' /\ \A a \in Browsers : Kept(a)'
  <2>1. LiveRowsAreThere'
    BY <1>1 DEF LiveRowsAreThere
  <2>2. ASSUME NEW a \in Browsers PROVE Kept(a)'
    <3>1. CASE expected'[a] = expected[a]
      BY <1>1, <3>1 DEF Kept
    <3>2. CASE expected'[a].left = -1
      BY <3>2 DEF Kept
    <3> QED BY <1>5, <3>1, <3>2
  <2> QED BY <2>1, <2>2
<1>11. LoadsItsCookie'
  <2>1. ASSUME NEW s \in Requests, req'[s].at = "load", ~req'[s].crowded, expected'[req'[s].browser].left >= 0
        PROVE  req'[s].key = jar'[req'[s].browser].key
    <3>1. CASE s = r
      BY <1>1, <1>2, <3>1
    <3>2. CASE s # r
      <4>1. req'[s].browser = req[s].browser /\ req[s].browser \in Browsers
        BY <1>3, <2>1, <3>2, Facts
      <4>2. req[s].at = "load" /\ ~req[s].crowded /\ req'[s].key = req[s].key
        BY <1>3, <2>1, <3>2
      <4>3. expected[req[s].browser].left >= 0
        BY <1>6, <2>1, <4>1
      <4>4. req[s].key = jar[req[s].browser].key
        BY <4>2, <4>3 DEF LoadsItsCookie
      <4>5. jar' = jar
        BY <1>1
      <4> QED BY <4>1, <4>2, <4>4, <4>5
    <3> QED BY <3>1, <3>2
  <2> QED BY <2>1 DEF LoadsItsCookie
<1> QED BY <1>1, <1>5, <1>8, <1>9, <1>10, <1>11

\* Time runs for what is expected as it does for the row and the cookie.
LEMMA TickKeeps ==
    ASSUME KeptInv, IInv', Tick PROVE KeptInv'
<1> USE DEF KeptInv
<1>1. \A r \in Requests : /\ req'[r].at = req[r].at /\ req'[r].browser = req[r].browser
                          /\ req'[r].key = req[r].key /\ req'[r].crowded = req[r].crowded
  BY DEF Tick, IInv, Typed, SessionsInMemory
<1>2. ASSUME NEW b \in Browsers
      PROVE  IF expected[b].left <= 0 THEN expected'[b] = Nothing
             ELSE /\ expected'[b].left = expected[b].left - 1 /\ expected'[b].items = expected[b].items
                  /\ expected'[b] \in Expectations
  <2>1. expected'[b] = IF expected[b].left <= 0 THEN Nothing ELSE [expected[b] EXCEPT !.left = @ - 1]
    BY DEF Tick
  <2>2. expected[b] \in Expectations
    OBVIOUS
  <2> QED BY <2>1, <2>2 DEF Expectations
<1>3. ASSUME NEW b \in Browsers
      PROVE  IF jar[b].left <= 1 THEN jar'[b] = NoCookie
             ELSE jar'[b].left = jar[b].left - 1 /\ jar'[b].key = jar[b].key
  <2>1. jar'[b] = IF jar[b].left <= 1 THEN NoCookie ELSE [jar[b] EXCEPT !.left = @ - 1]
    BY DEF Tick
  <2>2. jar[b] \in Cookies
    BY DEF IInv, Typed
  <2> QED BY <2>1, <2>2 DEF Cookies
<1>4. ASSUME NEW k \in Keys
      PROVE  IF k \in InUse'
             THEN rows'[k].there = rows[k].there /\ rows'[k].items = rows[k].items
                  /\ rows'[k].left = Later(rows[k].left)
             ELSE rows'[k].left = -1
  <2>1. rows'[k] = [Reachable[k] EXCEPT !.left = Later(@)]
    BY DEF Tick
  <2>2. Reachable[k] = IF k \in InUse' THEN rows[k] ELSE NoRow
    BY DEF Reachable
  <2>3. rows[k] \in Rows
    BY DEF IInv, Typed
  <2> QED BY <2>1, <2>2, <2>3 DEF Rows, NoRow, Later
<1>5. \A b \in Browsers : expected[b].left \in Nat \union {-1} /\ jar[b].left \in Nat
  BY DEF IInv, Typed, Cookies, Expectations
<1>6. \A k \in Keys : rows[k].left \in Nat \union {-1}
  BY DEF IInv, Typed, Rows
<1>7. expected' \in [Browsers -> Expectations]
  <2>1. Nothing \in Expectations
    BY DEF Nothing, Expectations
  <2>2. expected' = [b \in Browsers |-> expected'[b]]
    BY DEF Tick
  <2> QED BY <1>2, <2>1, <2>2
<1>8. \A b \in Browsers : jar'[b].left <= CookieAge
  BY <1>3, <1>5, Durations DEF NoCookie
<1>9. \A b \in Browsers : expected[b].left < 0 => expected'[b].left < 0
  BY <1>2, <1>5 DEF Nothing
<1>10. Crowded'
  BY <1>1, <1>9, Facts DEF Crowded
<1>11. PurgesExpired'
  <2>1. ASSUME NEW r \in Requests, req'[r].at = "purge", ~req'[r].crowded PROVE rows'[req'[r].key].left < 0
    <3>1. req'[r].key = req[r].key /\ req[r].key \in Keys /\ rows[req[r].key].left < 0
      BY <1>1, <2>1, Facts DEF PurgesExpired
    <3> QED BY <1>4, <1>6, <3>1 DEF Later
  <2> QED BY <2>1 DEF PurgesExpired
<1>12. LiveRowsAreThere'
  BY <1>4, <1>6 DEF LiveRowsAreThere, Later
<1>13. ASSUME NEW b \in Browsers, expected'[b].left >= 0
       PROVE  /\ expected[b].left > 0 /\ jar[b].left > 1 /\ jar'[b].key = jar[b].key
              /\ jar[b].key \in Keys
  <2>1. expected[b].left > 0
    BY <1>2, <1>5, <1>13 DEF Nothing
  <2>2. jar[b].left > expected[b].left /\ jar[b].key \in Keys
    <3>1. Kept(b) /\ expected[b].left >= 0
      BY <1>5, <2>1
    <3> QED BY <3>1 DEF Kept
  <2> QED BY <1>3, <1>5, <2>1, <2>2
<1>14. ASSUME NEW b \in Browsers PROVE Kept(b)'
  <2> SUFFICES ASSUME expected'[b].left >= 0
               PROVE  /\ jar'[b].key \in Keys
                      /\ jar'[b].left > expected'[b].left
                      /\ rows'[jar'[b].key].items = expected'[b].items
                      /\ rows'[jar'[b].key].left >= expected'[b].left
    BY DEF Kept
  <2>1. jar'[b].key \in InUse'
    BY DEF InUse
  <2>2. /\ jar'[b].left = jar[b].left - 1
        /\ expected'[b].left = expected[b].left - 1 /\ expected'[b].items = expected[b].items
    BY <1>2, <1>3, <1>5, <1>13
  <2>3. /\ rows'[jar[b].key].items = rows[jar[b].key].items
        /\ rows'[jar[b].key].left = Later(rows[jar[b].key].left)
    BY <1>4, <1>13, <2>1
  <2>4. /\ jar[b].left > expected[b].left
        /\ rows[jar[b].key].items = expected[b].items /\ rows[jar[b].key].left >= expected[b].left
    <3>1. Kept(b) /\ expected[b].left >= 0
      BY <1>5, <1>13
    <3> QED BY <3>1 DEF Kept
  <2> QED BY <1>5, <1>6, <1>13, <2>2, <2>3, <2>4 DEF Later
<1>15. LoadsItsCookie'
  BY <1>1, <1>5, <1>13, Facts DEF LoadsItsCookie
<1> QED BY <1>7, <1>8, <1>10, <1>11, <1>12, <1>14, <1>15
-----------------------------------------------------------------------------
LEMMA NextKeeps ==
    ASSUME KeptInv, Engine = "db", [Next]_vars PROVE KeptInv'
<1>1. IInv'
  BY NextKeepsInv DEF KeptInv
<1>2. CASE UNCHANGED vars
  BY <1>1, <1>2 DEF vars, KeptInv, Crowded, PurgesExpired, LiveRowsAreThere, Kept, LoadsItsCookie
<1>3. ASSUME NEW r \in Requests, Leave(r) \/ Lost(r) PROVE KeptInv'
  BY <1>1, <1>3, EndKeeps DEF Leave, Lost
<1> QED BY <1>1, <1>2, <1>3, ArriveKeeps, TickKeeps, LoadKeeps, OtherWorkKeeps, PurgeKeeps, SaveKeeps,
           RespondKeeps DEF Next

\* Without overlapping requests the statement that deletes an expired session
\* (driver.go, Load) never meets a row that another statement has renewed.
THEOREM PurgeSparesTheLiveAlways ==
    ASSUME Engine = "db" PROVE Spec => PurgeSparesTheLive
<1>1. KeptInv => \A r \in Requests : Purge(r) /\ ~req[r].crowded => rows[req[r].key].left < 0
  BY DEF KeptInv, PurgesExpired, Purge
<1>2. KeptInv /\ [Next]_vars => KeptInv'
  BY NextKeeps
<1> QED BY <1>1, <1>2, InitKept, PTL DEF Spec, PurgeSparesTheLive

\* Whatever fails, panics or is lost, and however long requests take, the database
\* engine gives a browser back what it saved (middleware.go:39-93).
THEOREM SessionIsKeptAlways ==
    ASSUME Engine = "db" PROVE Spec => SessionIsKept
<1> DEFINE Found == \A r \in Requests :
                       Load(r) /\ ~req[r].crowded /\ expected[req[r].browser].left >= 0 =>
                          /\ req'[r].at = "view"
                          /\ req'[r].data = expected[req[r].browser].items
<1>1. KeptInv => Found
  <2> SUFFICES ASSUME KeptInv, NEW r \in Requests, Load(r), ~req[r].crowded,
                      expected[req[r].browser].left >= 0
               PROVE  req'[r].at = "view" /\ req'[r].data = expected[req[r].browser].items
    OBVIOUS
  <2> USE DEF KeptInv
  <2>1. req[r].at = "load" /\ req[r].browser \in Browsers
    BY Facts DEF Load
  <2>2. req[r].key \in Keys /\ req[r].key # None /\ req[r].key = jar[req[r].browser].key
    BY <2>1, KeysAreNotEmpty DEF LoadsItsCookie, Kept
  <2>3. /\ rows[req[r].key].items = expected[req[r].browser].items
        /\ rows[req[r].key].left >= expected[req[r].browser].left
    BY <2>1, <2>2 DEF Kept
  <2>4. rows[req[r].key].left \in Nat \union {-1} /\ expected[req[r].browser].left \in Nat \union {-1}
    BY <2>1, <2>2 DEF IInv, Typed, Rows, Expectations
  <2>5. rows[req[r].key].there /\ ~Expired(rows[req[r].key])
    BY <2>2, <2>3, <2>4 DEF LiveRowsAreThere, Expired
  <2>6. req' = [req EXCEPT ![r].at = "view", ![r].data = rows[req[r].key].items]
    BY <2>2, <2>5 DEF Load
  <2> QED BY <2>3, <2>6 DEF IInv, Typed, SessionsInMemory
<1>2. KeptInv /\ [Next]_vars => KeptInv'
  BY NextKeeps
<1> HIDE DEF Found
<1>3. Spec => [][Found]_vars
  BY <1>1, <1>2, InitKept, PTL DEF Spec
<1> QED BY <1>3 DEF SessionIsKept, Found
=============================================================================
