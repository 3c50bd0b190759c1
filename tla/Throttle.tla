------------------------------ MODULE Throttle ------------------------------
(***************************************************************************)
(* The throttles of a REST view (rest/throttles.go), their histories in    *)
(* the memory cache (cache/cache.go) and the loop of APIView.Dispatch that *)
(* asks them (rest/api_views.go), for the concurrent requests of one       *)
(* client.                                                                 *)
(*                                                                         *)
(* A history is a slice: a backing array and a length.  The cache hands    *)
(* out the slice it holds, trimThrottleHistory compacts it in place, and   *)
(* append writes into the same array while it has room, so requests share  *)
(* arrays that nothing locks.  A time.Time from time.Now is compared by    *)
(* its monotonic word alone, so a read that races with a write sees the    *)
(* old or the new time; reads and writes of an element are steps.          *)
(***************************************************************************)
EXTENDS Integers, Sequences, FiniteSets

CONSTANTS
    Requests,      \* the requests that may be in progress at once
    Throttles,     \* the throttles of the view, in order: key, limit, window
    Second,        \* clock ticks in a second, the unit of Retry-After
    MaxTime,       \* bound on the clock
    MaxArrays      \* bound on the arrays in use at once

Keys == {Throttles[i].key : i \in DOMAIN Throttles}

\* ParseRate (throttles.go:39): rates that cannot be parsed, or are not positive, throttle
\* nothing, and a view without throttles asks none.  The arrays are as many as slices
\* there can be, and a new one.
ASSUME ThrottleAssumption ==
    /\ Throttles \in Seq([key : Keys, limit : Nat \ {0}, window : Nat \ {0}]) /\ Throttles # <<>>
    /\ Second \in Nat \ {0} /\ MaxTime \in Nat
    /\ IsFiniteSet(Requests) /\ MaxArrays \in Nat /\ MaxArrays > Len(Throttles) + Cardinality(Requests)

\* Nothing in the code keeps two throttles from sharing a bucket: a view that
\* does so is outside this module.
ASSUME KeysDiffer ==
    \A i, j \in DOMAIN Throttles : Throttles[i].key = Throttles[j].key => i = j

VARIABLES
    clock,       \* time.Now
    cache,       \* cache[key]: the slice stored and when it expires
    heap,        \* heap[array]: its elements; as many as its capacity
    req,         \* req[r]: where request r is in Dispatch, and its locals
    passed,      \* history: passed[i], when throttle i let requests pass
    promise,     \* history: promise[i], when Retry-After told to come again
    disturbed    \* history: what has happened that the promises leave out

vars == <<clock, cache, heap, req, passed, promise, disturbed>>

Times == 0..MaxTime
Arrays == 1..MaxArrays

\* The nil slice has no array.
Nil == [array |-> 0, len |-> 0]
Elements(a) == IF a = 0 THEN <<>> ELSE heap[a]

Idle == [at |-> "idle", i |-> 1, waiting |-> FALSE, now |-> 0, slice |-> Nil,
         scan |-> 0, kept |-> 0, hand |-> 0, ok |-> FALSE]

T(r) == Throttles[req[r].i]

\* Arrays nothing points to are collected.
Freed(h) ==
    LET used == {cache'[k].slice.array : k \in Keys} \union {req'[r].slice.array : r \in Requests}
    IN [a \in Arrays |-> IF a \in used THEN h[a] ELSE <<>>]
-----------------------------------------------------------------------------
Init ==
    /\ clock = 0
    /\ cache = [k \in Keys |-> [slice |-> Nil, expires |-> -1]]
    /\ heap = [a \in Arrays |-> <<>>]
    /\ req = [r \in Requests |-> Idle]
    /\ passed = [i \in DOMAIN Throttles |-> <<>>]
    /\ promise = [i \in DOMAIN Throttles |-> 0]
    /\ disturbed = "no"

Tick ==
    /\ clock < MaxTime
    /\ clock' = clock + 1
    /\ UNCHANGED <<cache, heap, req, passed, promise, disturbed>>

\* Promises are only followed up while nothing has disturbed them: a request
\* that came in while another was in progress, or a refusal whose Wait was at
\* a later time.
Kept(p) == [i \in DOMAIN Throttles |-> IF disturbed' = "no" THEN p[i] ELSE 0]

\* AllowRequest or Wait of throttle i begins: it reads the clock.
Ask(i, waiting) == [Idle EXCEPT !.at = "get", !.i = i, !.waiting = waiting, !.now = clock]

Arrive(r) ==
    /\ req[r].at = "idle"
    /\ req' = [req EXCEPT ![r] = Ask(1, FALSE)]
    /\ disturbed' = IF \E s \in Requests : req[s].at # "idle" THEN "overlap" ELSE disturbed
    /\ promise' = Kept(promise)
    /\ UNCHANGED <<clock, cache, heap, passed>>

\* MemoryCache.Get; what is missing or expired is an empty history.
Get(r) ==
    /\ req[r].at = "get"
    /\ LET entry == cache[T(r).key] IN
       req' = [req EXCEPT ![r].at = "scan",
                          ![r].slice = IF clock > entry.expires THEN Nil ELSE entry.slice]
    /\ UNCHANGED <<clock, cache, heap, passed, promise, disturbed>>

\* Mutants of Fresh: a request leaves the window late, or early.
FreshTooLong(time, now, window) == now - time <= window
FreshTooShort(time, now, window) == now - time < window - 1

\* trimThrottleHistory: an element is read, and kept while it is in the window.
Fresh(time, now, window) == now - time < window

Scan(r) ==
    /\ req[r].at = "scan"
    /\ req[r].scan < req[r].slice.len
    /\ LET time == heap[req[r].slice.array][req[r].scan + 1] IN
       req' = [req EXCEPT ![r].scan = @ + 1,
                          ![r].hand = IF Fresh(time, req[r].now, T(r).window) THEN time ELSE 0,
                          ![r].at = IF Fresh(time, req[r].now, T(r).window) THEN "keep" ELSE "scan"]
    /\ UNCHANGED <<clock, cache, heap, passed, promise, disturbed>>

Keep(r) ==
    /\ req[r].at = "keep"
    /\ heap' = [heap EXCEPT ![req[r].slice.array][req[r].kept + 1] = req[r].hand]
    /\ req' = [req EXCEPT ![r].at = "scan", ![r].kept = @ + 1, ![r].hand = 0]
    /\ UNCHANGED <<clock, cache, passed, promise, disturbed>>

\* Mutant of Remains: the history is used as it came from the cache.
AsCached(r) == req[r].slice.len

\* The length of the trimmed history.
Remains(r) == req[r].kept

Trimmed(r) == req[r].at = "scan" /\ req[r].scan = req[r].slice.len

\* A request passes.  Of requests that overlap only the time is noted, once.
Noted(log, time) ==
    IF disturbed = "overlap" /\ (\E j \in DOMAIN log : log[j] = time) THEN log ELSE Append(log, time)

\* Below the limit: append, in place while the array has room, in one of
\* twice the size when it is full.
Grant(r) ==
    /\ Trimmed(r)
    /\ ~req[r].waiting
    /\ req[r].kept < T(r).limit
    /\ LET a == req[r].slice.array
           n == Remains(r)
           old == Elements(a)
           new == CHOOSE b \in Arrays : heap[b] = <<>>
           grown == [j \in 1..(IF n = 0 THEN 1 ELSE 2 * n) |->
                        IF j <= n THEN old[j] ELSE IF j = n + 1 THEN req[r].now ELSE 0]
           full == n = Len(old)
       IN /\ req' = [req EXCEPT ![r].slice = [array |-> IF full THEN new ELSE a, len |-> n + 1],
                                ![r].at = "store", ![r].ok = TRUE]
          /\ passed' = [passed EXCEPT ![req[r].i] = Noted(@, req[r].now)]
          /\ promise' = [promise EXCEPT ![req[r].i] = 0]
          /\ UNCHANGED <<clock, cache, disturbed>>
          /\ heap' = Freed(IF full THEN [heap EXCEPT ![new] = grown]
                           ELSE [heap EXCEPT ![a][n + 1] = req[r].now])

Refuse(r) ==
    /\ Trimmed(r)
    /\ ~req[r].waiting
    /\ req[r].kept >= T(r).limit
    /\ req' = [req EXCEPT ![r].slice.len = req[r].kept, ![r].at = "store", ![r].ok = FALSE]
    /\ UNCHANGED <<clock, cache, heap, passed, promise, disturbed>>

\* Mutant of Lifetime: the history is dropped before its window ends.
ShortLifetime(r) == T(r).window - 2

\* The time to live of a history in the cache.
Lifetime(r) == T(r).window

\* MemoryCache.Set, the end of AllowRequest.  Dispatch goes on with the next
\* throttle, or with the handler after the last; a refusal asks for the Wait.
Store(r) ==
    /\ req[r].at = "store"
    /\ cache' = [cache EXCEPT ![T(r).key] = [slice |-> req[r].slice, expires |-> clock + Lifetime(r)]]
    /\ req' = [req EXCEPT ![r] = IF ~req[r].ok THEN Ask(req[r].i, TRUE)
                                 ELSE IF req[r].i < Len(Throttles) THEN Ask(req[r].i + 1, FALSE)
                                 ELSE Idle]
    /\ disturbed' = IF disturbed = "no" /\ ~req[r].ok /\ clock # req[r].now THEN "slip" ELSE disturbed
    /\ promise' = Kept(promise)
    /\ UNCHANGED <<clock, passed>>
    /\ heap' = Freed(heap)

\* Mutant of Seconds: rounded down.
SecondsDown(ticks) == ticks \div Second

Seconds(ticks) == (ticks + Second - 1) \div Second

\* The end of Wait.  Its trimmed history is not stored, but the array it
\* compacted is the one the cache still holds.
Tell(r) ==
    /\ Trimmed(r)
    /\ req[r].waiting
    /\ LET now == req[r].now
           remaining == IF req[r].kept < T(r).limit THEN 0
                        ELSE T(r).window - (now - heap[req[r].slice.array][1])
       IN promise' = IF remaining <= 0 \/ disturbed # "no" THEN promise
                     ELSE [promise EXCEPT ![req[r].i] = now + Second * Seconds(remaining)]
    /\ req' = [req EXCEPT ![r] = Idle]
    /\ UNCHANGED <<clock, cache, passed, disturbed>>
    /\ heap' = Freed(heap)

Next ==
    \/ Tick
    \/ \E r \in Requests :
          \/ Arrive(r) \/ Get(r) \/ Scan(r) \/ Keep(r)
          \/ Grant(r) \/ Refuse(r) \/ Store(r) \/ Tell(r)

Spec == Init /\ [][Next]_vars
-----------------------------------------------------------------------------
(* Properties.                                                             *)

Slices == [array : 0..MaxArrays, len : Nat]
Within(slice) == slice \in Slices /\ slice.len <= Len(Elements(slice.array))

\* Every slice lies within its array, the part of it that is kept within what
\* was read, and no stored history outgrows the limit.
TypeOK ==
    /\ clock \in Times
    /\ \A i \in DOMAIN Throttles :
          LET slice == cache[Throttles[i].key].slice
          IN Within(slice) /\ slice.len <= Throttles[i].limit
    /\ \A a \in Arrays : heap[a] \in Seq(Times)
    /\ \A r \in Requests :
          /\ Within(req[r].slice)
          /\ req[r].kept <= req[r].scan
          /\ req[r].at \in {"scan", "keep"} => req[r].scan <= req[r].slice.len
    /\ promise \in [DOMAIN Throttles -> Nat]

\* At no moment have more requests of the last window been let pass than the
\* limit, as long as the client sends one at a time.  The clock may move while
\* a request is asked for: a history can expire between its two looks at it.
NeverOverRate ==
    disturbed # "overlap" =>
        \A i \in DOMAIN Throttles :
            Cardinality({j \in DOMAIN passed[i] : clock - passed[i][j] < Throttles[i].window}) <= Throttles[i].limit

\* Whatever the requests in progress do to the arrays they share: a throttle
\* refuses only a client it let pass within the window.
RefusesOnlyTheRecent ==
    [][\A r \in Requests : Refuse(r) =>
          \E j \in DOMAIN passed[req[r].i] : req[r].now - passed[req[r].i][j] < T(r).window]_vars

\* A client that sends one request at a time and comes again when Retry-After
\* told it to is not refused by the same throttle: the rounding, the trim and
\* the life of the cache entry agree.
RetryAfterIsHonest ==
    [][\A r \in Requests : Refuse(r) =>
          promise[req[r].i] = 0 \/ req[r].now < promise[req[r].i]]_vars
=============================================================================
