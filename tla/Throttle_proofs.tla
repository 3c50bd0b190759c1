-------------------------- MODULE Throttle_proofs --------------------------
(***************************************************************************)
(* Proofs about the throttles.  Three invariants, each on the one before:  *)
(* InvA, for any number of requests at once: the slices of a throttle lie  *)
(* in arrays of its own and hold only times at which it let pass.          *)
(* InvS, while requests come one at a time: what is in the cache, or in    *)
(* the hands of the request, covers what passed, time by time from the     *)
(* end, although a trim moves times within the array the cache holds.      *)
(* InvE, while the clock stands still between a refusal and its Wait, too: *)
(* a history is exactly what passed last, and until the time that          *)
(* Retry-After told, the oldest pass that counts is in the window.         *)
(***************************************************************************)
EXTENDS Throttle, FiniteSetTheorems, TLAPS

-----------------------------------------------------------------------------
(* Slices and their arrays.                                                *)

D == DOMAIN Throttles
Limit(i) == Throttles[i].limit
Window(i) == Throttles[i].window

LEMMA ThrottlesTyped ==
    /\ D = 1..Len(Throttles) /\ Len(Throttles) \in Nat /\ 1 \in D
    /\ \A i \in D : Throttles[i].key \in Keys /\ Limit(i) \in Nat /\ Limit(i) > 0 /\ Window(i) \in Nat /\ Window(i) > 0
    /\ MaxTime \in Nat /\ 0 \in Times /\ Second \in Nat /\ Second > 0
    /\ MaxArrays \in Nat /\ Times \subseteq Nat /\ Arrays \subseteq Nat /\ 0 \notin Arrays
<1>1. D = 1..Len(Throttles) /\ Len(Throttles) \in Nat /\ 1 \in D
  BY ThrottleAssumption DEF D
<1>2. ASSUME NEW i \in D
      PROVE  Throttles[i].key \in Keys /\ Limit(i) \in Nat /\ Limit(i) > 0 /\ Window(i) \in Nat /\ Window(i) > 0
  <2> DEFINE rates == [key : Keys, limit : Nat \ {0}, window : Nat \ {0}]
  <2>1. Throttles \in Seq(rates)
    BY ThrottleAssumption
  <2> HIDE DEF rates
  <2>2. Throttles[i] \in rates
    BY <1>1, <2>1
  <2> QED BY <2>2 DEF Limit, Window, rates
<1>3. /\ MaxTime \in Nat /\ 0 \in Times /\ Second \in Nat /\ Second > 0
      /\ MaxArrays \in Nat /\ Times \subseteq Nat /\ Arrays \subseteq Nat /\ 0 \notin Arrays
  BY ThrottleAssumption DEF Times, Arrays
<1> QED BY <1>1, <1>2, <1>3

Places == {"idle", "get", "scan", "keep", "store"}
Locals == [at : Places, i : D, waiting : BOOLEAN, now : Times, slice : Slices, scan : Nat, kept : Nat, hand : Times, ok : BOOLEAN]

Typed ==
    /\ clock \in Times
    /\ cache \in [Keys -> [slice : Slices, expires : Int]]
    /\ heap \in [Arrays -> Seq(Times)]
    /\ req \in [Requests -> Locals]
    /\ passed \in [D -> Seq(Times)]
    /\ promise \in [D -> Nat]
    /\ disturbed \in {"no", "overlap", "slip"}

\* The slices of a throttle: in the cache, and in the requests that ask it.
History(i) == cache[Throttles[i].key].slice
Held(i) == {History(i)} \cup {req[r].slice : r \in {q \in Requests : req[q].i = i}}

\* A slice lies in its array, and has only times at which its throttle let pass.
Room(s) == s.len <= Len(Elements(s.array)) /\ (s.array # 0 => heap[s.array] # <<>>)
InLog(log, time) == \E j \in DOMAIN log : log[j] = time
Good(i, s) == Room(s) /\ s.len <= Limit(i) /\ \A j \in 1..s.len : InLog(passed[i], heap[s.array][j])

AllGood == \A i \in D : \A s \in Held(i) : Good(i, s)
Apart == \A i, j \in D : \A s \in Held(i), t \in Held(j) : i # j /\ s.array = t.array => s.array = 0
Pointed(a) == \E i \in D : \E s \in Held(i) : s.array = a
Collected == \A a \in Arrays : heap[a] # <<>> => Pointed(a)

\* Where a request is in the slice it trims.
Recent(r, time) == req[r].now - time < Window(req[r].i)
Progress(r) ==
    /\ req[r].at \in {"idle", "get"} => req[r].slice = Nil /\ req[r].scan = 0 /\ req[r].kept = 0
    /\ req[r].kept <= req[r].scan
    /\ req[r].at \in {"scan", "keep"} => req[r].scan <= req[r].slice.len
    /\ req[r].at = "keep" => req[r].kept < req[r].scan /\ InLog(passed[req[r].i], req[r].hand) /\ Recent(r, req[r].hand)
    /\ req[r].kept > 0 => \E j \in DOMAIN passed[req[r].i] : Recent(r, passed[req[r].i][j])

InvA == Typed /\ AllGood /\ Apart /\ Collected /\ \A r \in Requests : Progress(r)

LEMMA NilGood == ASSUME Typed, NEW i \in D PROVE Good(i, Nil) /\ Nil \in Slices
BY ThrottlesTyped DEF Good, Room, Nil, Elements, Slices

LEMMA HeldTyped ==
    ASSUME Typed, NEW i \in D, NEW s \in Held(i)
    PROVE  s \in Slices /\ s.len \in Nat /\ s.array \in 0..MaxArrays /\ (s.array # 0 => s.array \in Arrays /\ heap[s.array] \in Seq(Times))
<1>1. s \in Slices
  BY ThrottlesTyped DEF Held, History, Typed, Locals
<1> QED BY <1>1, ThrottlesTyped DEF Slices, Arrays, Typed

\* There is an array that nothing points to.
LEMMA NewArray ==
    ASSUME Typed, Collected PROVE \E b \in Arrays : heap[b] = <<>>
<1> DEFINE P1 == {History(i).array : i \in D}
           P2 == {req[r].slice.array : r \in Requests}
<1>1. IsFiniteSet(D) /\ Cardinality(D) = Len(Throttles)
  BY ThrottlesTyped, FS_Interval
<1>2. IsFiniteSet(P1) /\ Cardinality(P1) <= Len(Throttles)
  <2> DEFINE f == [i \in D |-> History(i).array]
  <2>1. f \in [D -> P1] /\ \A t \in P1 : \E i \in D : f[i] = t
    OBVIOUS
  <2> HIDE DEF f, P1
  <2>2. f \in Surjection(D, P1)
    BY <2>1 DEF Surjection
  <2> QED BY <1>1, <2>2, FS_Surjection
<1>3. IsFiniteSet(P2) /\ Cardinality(P2) <= Cardinality(Requests)
  <2> DEFINE f == [r \in Requests |-> req[r].slice.array]
  <2>1. f \in [Requests -> P2] /\ \A t \in P2 : \E r \in Requests : f[r] = t
    OBVIOUS
  <2> HIDE DEF f, P2
  <2>2. f \in Surjection(Requests, P2)
    BY <2>1 DEF Surjection
  <2> QED BY ThrottleAssumption, <2>2, FS_Surjection
<1>4. \A a : Pointed(a) => a \in P1 \cup P2
  BY DEF Pointed, Held
<1> HIDE DEF P1, P2
<1>5. /\ IsFiniteSet(P1 \cup P2)
      /\ Cardinality(P1 \cup P2) = Cardinality(P1) + Cardinality(P2) - Cardinality(P1 \cap P2)
  BY <1>2, <1>3, FS_Union
<1>6. /\ Cardinality(P1) \in Nat /\ Cardinality(P2) \in Nat /\ Cardinality(P1 \cap P2) \in Nat
      /\ Cardinality(P1 \cup P2) \in Nat /\ Cardinality(Requests) \in Nat
  <2>1. IsFiniteSet(P1 \cap P2)
    BY <1>2, FS_Intersection
  <2> QED BY <1>2, <1>3, <1>5, <2>1, FS_CardinalityType, ThrottleAssumption
<1>7. Cardinality(P1 \cup P2) < MaxArrays
  BY <1>2, <1>3, <1>5, <1>6, ThrottleAssumption
<1>8. Cardinality(Arrays) = MaxArrays
  BY ThrottleAssumption, FS_Interval DEF Arrays
<1>9. ~(Arrays \subseteq P1 \cup P2)
  <2> SUFFICES ASSUME Arrays \subseteq P1 \cup P2 PROVE FALSE
    OBVIOUS
  <2>1. Cardinality(Arrays) <= Cardinality(P1 \cup P2)
    BY <1>5, FS_Subset
  <2> QED BY <1>6, <1>7, <1>8, <2>1, ThrottleAssumption
<1>10. PICK b \in Arrays : b \notin P1 \cup P2
  BY <1>9
<1>11. heap[b] = <<>>
  BY <1>4, <1>10 DEF Collected
<1> QED BY <1>11

\* What the collector leaves: the arrays that are pointed to.
LEMMA FreedHeap ==
    ASSUME NEW h, heap' = Freed(h), Typed'
    PROVE  \A a \in Arrays : heap'[a] = IF Pointed(a)' THEN h[a] ELSE <<>>
<1> DEFINE used == {cache'[k].slice.array : k \in Keys} \union {req'[r].slice.array : r \in Requests}
<1>1. \A a \in Arrays : heap'[a] = IF a \in used THEN h[a] ELSE <<>>
  BY DEF Freed
<1>2. \A k \in Keys : \E i \in D : k = Throttles[i].key
  BY DEF Keys, D
<1>3. ASSUME NEW a PROVE a \in used <=> Pointed(a)'
  <2>1. ASSUME NEW k \in Keys, a = cache'[k].slice.array PROVE Pointed(a)'
    BY <1>2, <2>1 DEF Pointed, Held, History
  <2>2. ASSUME NEW r \in Requests, a = req'[r].slice.array PROVE Pointed(a)'
    <3>1. req'[r].i \in D /\ req'[r].slice \in Held(req[r].i)'
      BY DEF Typed, Locals, Held
    <3> QED BY <2>2, <3>1 DEF Pointed
  <2>3. ASSUME NEW i \in D, NEW s \in Held(i)', s.array = a PROVE a \in used
    BY <2>3, ThrottlesTyped DEF Held, History
  <2> QED BY <2>1, <2>2, <2>3 DEF Pointed
<1> HIDE DEF used
<1> QED BY <1>1, <1>3

\* What passed has passed.
PassedStays == \A i \in D : \A time : InLog(passed[i], time) => InLog(passed'[i], time)

\* Slices that are those there were, or parts of them, are as good as they were.
LEMMA SlicesStay ==
    ASSUME Typed, AllGood, Apart, PassedStays,
           \A i \in D : \A s \in Held(i)' :
              \/ s = Nil
              \/ /\ \E t \in Held(i) : s.array = t.array /\ s.len <= t.len
                 /\ s.array # 0 => heap'[s.array] = heap[s.array]
                 /\ s.len \in Nat
    PROVE  AllGood' /\ Apart'
<1>1. ASSUME NEW i \in D, NEW s \in Held(i)' PROVE Good(i, s)'
  <2>1. CASE s = Nil
    BY <2>1, ThrottlesTyped DEF Good, Room, Nil, Elements
  <2>2. CASE s # Nil
    <3>1. PICK t \in Held(i) : s.array = t.array /\ s.len <= t.len
      BY <1>1, <2>2
    <3>2. t.len \in Nat /\ s.len \in Nat /\ t.array \in 0..MaxArrays /\ Limit(i) \in Nat
      BY <1>1, <2>2, <3>1, HeldTyped, ThrottlesTyped
    <3>3. Good(i, t)
      BY <3>1 DEF AllGood
    <3>4. Elements(s.array)' = Elements(t.array) /\ Len(Elements(t.array)) \in Nat
      BY <1>1, <2>2, <3>1, HeldTyped DEF Elements
    <3>5. Room(s)'
      BY <1>1, <2>2, <3>1, <3>2, <3>3, <3>4 DEF Good, Room
    <3>6. ASSUME NEW j \in 1..s.len PROVE InLog(passed'[i], heap'[s.array][j])
      <4>1. j \in 1..t.len /\ s.array # 0
        BY <3>1, <3>2, <3>3 DEF Good, Room, Elements
      <4>2. InLog(passed[i], heap[t.array][j])
        BY <3>3, <4>1 DEF Good
      <4> QED BY <1>1, <2>2, <3>1, <4>1, <4>2 DEF PassedStays
    <3> QED BY <3>1, <3>2, <3>3, <3>5, <3>6 DEF Good, Limit
  <2> QED BY <2>1, <2>2
<1>2. ASSUME NEW i \in D, NEW j \in D, NEW s \in Held(i)', NEW t \in Held(j)', i # j, s.array = t.array PROVE s.array = 0
  BY <1>2 DEF Apart, Nil
<1> QED BY <1>1, <1>2 DEF AllGood, Apart

\* A request that is where it was has made the progress it had made.
LEMMA ProgressStays ==
    ASSUME Typed, PassedStays, NEW q \in Requests, Progress(q), req'[q] = req[q] PROVE Progress(q)'
<1>1. req[q].i \in D
  BY DEF Typed, Locals
<1>2. ASSUME NEW j \in DOMAIN passed[req[q].i], Recent(q, passed[req[q].i][j])
      PROVE  \E k \in DOMAIN passed'[req[q].i] : Recent(q, passed'[req[q].i][k])
  <2>1. InLog(passed'[req[q].i], passed[req[q].i][j])
    BY <1>1 DEF InLog, PassedStays
  <2> QED BY <1>2, <2>1 DEF InLog
<1>3. InLog(passed[req[q].i], req[q].hand) => InLog(passed'[req[q].i], req[q].hand)
  BY <1>1 DEF PassedStays
<1>4. \A time : Recent(q, time)' <=> Recent(q, time)
  BY DEF Recent
<1> QED BY <1>2, <1>3, <1>4 DEF Progress

LEMMA NoPass == ASSUME UNCHANGED passed PROVE PassedStays
BY DEF PassedStays, InLog

\* The slices after a step of r that gives r another one and leaves the cache.
LEMMA HeldAfter ==
    ASSUME Typed, NEW r \in Requests, \A q \in Requests \ {r} : req'[q] = req[q], UNCHANGED cache,
           NEW i \in D, NEW s \in Held(i)'
    PROVE  s \in Held(i) \/ (s = req'[r].slice /\ i = req'[r].i)
BY DEF Held, History

LEMMA HeldBy ==
    ASSUME Typed, NEW r \in Requests PROVE req[r].i \in D /\ req[r].slice \in Held(req[r].i) /\ req[r] \in Locals
BY DEF Typed, Locals, Held

\* A request before it has its history.
LEMMA AskTyped ==
    ASSUME clock \in Times, NEW i \in D, NEW waiting \in BOOLEAN
    PROVE  /\ Ask(i, waiting) \in Locals /\ Idle \in Locals
           /\ Ask(i, waiting).at = "get" /\ Ask(i, waiting).i = i /\ Ask(i, waiting).waiting = waiting
           /\ Ask(i, waiting).now = clock /\ Ask(i, waiting).slice = Nil /\ Ask(i, waiting).scan = 0
           /\ Ask(i, waiting).kept = 0
           /\ Idle.at = "idle" /\ Idle.i = 1 /\ Idle.slice = Nil /\ Idle.scan = 0 /\ Idle.kept = 0
<1>1. 1 \in D /\ 0 \in Times /\ Nil \in Slices
  BY ThrottlesTyped DEF Nil, Slices
<1>2. Idle \in Locals
  BY <1>1 DEF Idle, Locals, Places
<1>3. Ask(i, waiting) \in Locals
  BY <1>1, <1>2 DEF Ask, Locals, Places
<1> QED BY <1>2, <1>3 DEF Ask, Idle

LEMMA TickA ==
    ASSUME InvA, Tick PROVE InvA'
<1> USE DEF InvA
<1>1. Typed'
  BY ThrottlesTyped DEF Typed, Tick, Times
<1>2. PassedStays
  BY NoPass DEF Tick
<1>3. \A i \in D : Held(i)' = Held(i)
  BY DEF Tick, Held, History
<1>4. AllGood' /\ Apart'
  BY <1>3 DEF Tick, AllGood, Apart, Good, Room, Elements, InLog
<1>5. Collected'
  BY <1>3 DEF Tick, Collected, Pointed
<1>6. ASSUME NEW q \in Requests PROVE Progress(q)'
  BY <1>2, ProgressStays DEF Tick
<1> QED BY <1>1, <1>4, <1>5, <1>6

LEMMA ArriveA ==
    ASSUME InvA, NEW r \in Requests, Arrive(r) PROVE InvA'
<1> USE DEF InvA
<1>1. Ask(1, FALSE) \in Locals
  BY ThrottlesTyped, AskTyped DEF Typed
<1>2. req' = [req EXCEPT ![r] = Ask(1, FALSE)] /\ UNCHANGED <<clock, cache, heap, passed>> /\ req[r].at = "idle"
  BY DEF Arrive
<1>3. promise' \in [D -> Nat] /\ disturbed' \in {"no", "overlap", "slip"}
  BY DEF Arrive, Kept, Typed, D
<1>4. Typed'
  BY <1>1, <1>2, <1>3 DEF Typed
<1>5. PassedStays
  BY <1>2, NoPass
<1>6. req'[r] = Ask(1, FALSE) /\ \A q \in Requests \ {r} : req'[q] = req[q]
  BY <1>2 DEF Typed
<1>0. req[r].slice = Nil
  BY <1>2 DEF Progress
<1>7. req'[r].slice = Nil /\ req'[r].at = "get" /\ req'[r].scan = 0 /\ req'[r].kept = 0
  BY <1>6 DEF Ask, Idle
<1>8. \A i \in D : \A s \in Held(i)' : s = Nil \/ s \in Held(i)
  BY <1>2, <1>6, <1>7, HeldAfter
<1>9. AllGood' /\ Apart'
  <2>1. ASSUME NEW i \in D, NEW s \in Held(i)', s # Nil
        PROVE  /\ \E t \in Held(i) : s.array = t.array /\ s.len <= t.len
               /\ s.array # 0 => heap'[s.array] = heap[s.array]
               /\ s.len \in Nat
    BY <1>2, <1>8, <2>1, HeldTyped
  <2> QED BY <1>5, <2>1, SlicesStay
<1>10. Collected'
  <2>1. ASSUME NEW a \in Arrays, heap[a] # <<>> PROVE Pointed(a)'
    <3>0. PICK i \in D : \E s \in Held(i) : s.array = a
      BY <2>1 DEF Collected, Pointed
    <3>1. PICK s \in Held(i) : s.array = a
      BY <3>0
    <3>2. s # Nil
      BY <3>1, ThrottlesTyped DEF Nil
    <3>3. s \in Held(i)'
      BY <1>0, <1>2, <1>6, <3>2 DEF Held, History
    <3> QED BY <3>1, <3>3 DEF Pointed
  <2> QED BY <1>2, <2>1 DEF Collected
<1>11. Progress(r)'
  BY <1>7 DEF Progress
<1>12. ASSUME NEW q \in Requests PROVE Progress(q)'
  BY <1>5, <1>6, <1>11, ProgressStays
<1> QED BY <1>4, <1>9, <1>10, <1>12

LEMMA InSlice ==
    ASSUME Typed, NEW i \in D, NEW s \in Held(i), Good(i, s), NEW p \in 1..s.len
    PROVE  /\ s.array \in Arrays /\ Elements(s.array) = heap[s.array] /\ heap[s.array] \in Seq(Times)
           /\ p \in 1..Len(heap[s.array]) /\ heap[s.array][p] \in Times /\ InLog(passed[i], heap[s.array][p])
<1>1. s.len \in Nat /\ s.array \in 0..MaxArrays /\ (s.array # 0 => s.array \in Arrays /\ heap[s.array] \in Seq(Times))
  BY HeldTyped
<1>2. s.array # 0
  BY <1>1 DEF Good, Room, Elements
<1>3. Elements(s.array) = heap[s.array] /\ s.len <= Len(heap[s.array])
  BY <1>2 DEF Good, Room, Elements
<1> QED BY <1>1, <1>2, <1>3 DEF Good

LEMMA GetA ==
    ASSUME InvA, NEW r \in Requests, Get(r) PROVE InvA'
<1> USE DEF InvA
<1> DEFINE slice == IF clock > cache[T(r).key].expires THEN Nil ELSE History(req[r].i)
<1>1. /\ req' = [req EXCEPT ![r].at = "scan", ![r].slice = slice]
      /\ UNCHANGED <<clock, cache, heap, passed, promise, disturbed>> /\ req[r].at = "get"
  BY DEF Get, History, T
<1>2. req[r].i \in D /\ req[r].slice = Nil /\ req[r].scan = 0 /\ req[r].kept = 0
  BY <1>1, HeldBy DEF Progress
<1>3. slice = Nil \/ slice \in Held(req[r].i)
  BY DEF Held
<1>4. slice \in Slices
  BY <1>2, <1>3, HeldTyped, NilGood
<1> HIDE DEF slice
<1>0. UNCHANGED <<clock, cache, heap, passed, promise, disturbed>>
  BY <1>1
<1>5. Typed'
  <2>1. req' = [req EXCEPT ![r] = [req[r] EXCEPT !.at = "scan", !.slice = slice]]
    BY <1>1 DEF Typed
  <2>2. [req[r] EXCEPT !.at = "scan", !.slice = slice] \in Locals
    BY <1>4, HeldBy DEF Locals, Places
  <2> QED BY <1>0, <2>1, <2>2 DEF Typed
<1>6. PassedStays
  BY <1>1, NoPass
<1>7. /\ \A q \in Requests \ {r} : req'[q] = req[q]
      /\ req'[r].slice = slice /\ req'[r].at = "scan" /\ req'[r].i = req[r].i /\ req'[r].scan = 0 /\ req'[r].kept = 0
  BY <1>1, <1>2 DEF Typed, Locals
<1>8. \A i \in D : \A s \in Held(i)' : s = Nil \/ s \in Held(i)
  BY <1>1, <1>3, <1>7, HeldAfter
<1>9. AllGood' /\ Apart'
  <2>1. ASSUME NEW i \in D, NEW s \in Held(i)', s # Nil
        PROVE  /\ \E t \in Held(i) : s.array = t.array /\ s.len <= t.len
               /\ s.array # 0 => heap'[s.array] = heap[s.array]
               /\ s.len \in Nat
    BY <1>1, <1>8, <2>1, HeldTyped
  <2> QED BY <1>6, <2>1, SlicesStay
<1>10. Collected'
  <2>1. ASSUME NEW a \in Arrays, heap[a] # <<>> PROVE Pointed(a)'
    <3>0. PICK i \in D : \E s \in Held(i) : s.array = a
      BY <2>1 DEF Collected, Pointed
    <3>1. PICK s \in Held(i) : s.array = a
      BY <3>0
    <3>2. s # Nil
      BY <3>1, ThrottlesTyped DEF Nil
    <3>3. s \in Held(i)'
      BY <1>0, <1>2, <1>7, <3>2 DEF Held, History
    <3> QED BY <3>1, <3>3 DEF Pointed
  <2> QED BY <1>1, <2>1 DEF Collected
<1>11. Progress(r)'
  <2>1. slice.len \in Nat
    BY <1>4 DEF Slices
  <2> QED BY <1>7, <2>1 DEF Progress
<1>12. ASSUME NEW q \in Requests PROVE Progress(q)'
  BY <1>6, <1>7, <1>11, ProgressStays
<1> QED BY <1>5, <1>9, <1>10, <1>12

\* Where nothing but the place in a slice changes, the slices are what they were.
LEMMA SameSlices ==
    ASSUME Typed, UNCHANGED cache, NEW r \in Requests, \A q \in Requests \ {r} : req'[q] = req[q],
           req'[r].slice = req[r].slice, req'[r].i = req[r].i, NEW i \in D
    PROVE  Held(i)' = Held(i)
<1>1. \A q \in Requests : req'[q].slice = req[q].slice /\ req'[q].i = req[q].i
  OBVIOUS
<1> QED BY <1>1 DEF Held, History

LEMMA ScanA ==
    ASSUME InvA, NEW r \in Requests, Scan(r) PROVE InvA'
<1> USE DEF InvA
<1> DEFINE i == req[r].i
           time == heap[req[r].slice.array][req[r].scan + 1]
           keeps == Recent(r, time)
<1>1. i \in D /\ req[r].slice \in Held(i) /\ req[r] \in Locals
  BY HeldBy
<1>2. req[r].scan + 1 \in 1..req[r].slice.len /\ req[r].kept <= req[r].scan
  BY <1>1 DEF Scan, Progress, Locals, Slices
<1>3. time \in Times /\ InLog(passed[i], time)
  BY <1>1, <1>2, InSlice DEF AllGood
<1>4. /\ req' = [req EXCEPT ![r].scan = @ + 1, ![r].hand = IF keeps THEN time ELSE 0, ![r].at = IF keeps THEN "keep" ELSE "scan"]
      /\ UNCHANGED <<clock, cache, heap, passed, promise, disturbed>>
  BY DEF Scan, Fresh, Recent, T, Window
<1>5. /\ \A q \in Requests \ {r} : req'[q] = req[q]
      /\ req'[r] \in Locals /\ req'[r].slice = req[r].slice /\ req'[r].i = i /\ req'[r].now = req[r].now
      /\ req'[r].scan = req[r].scan + 1 /\ req'[r].kept = req[r].kept
      /\ \/ req'[r].at = "keep" /\ req'[r].hand = time /\ keeps
         \/ req'[r].at = "scan"
  <2> DEFINE hand == IF keeps THEN time ELSE 0
             at == IF keeps THEN "keep" ELSE "scan"
             scan == req[r].scan + 1
             now == [req[r] EXCEPT !.scan = scan, !.hand = hand, !.at = at]
  <2>1. req' = [req EXCEPT ![r] = now]
    BY <1>4 DEF Typed
  <2>0. hand \in Times /\ at \in Places /\ (\/ at = "keep" /\ hand = time /\ keeps
                                            \/ at = "scan")
    BY <1>3, ThrottlesTyped DEF Places
  <2>5. scan \in Nat
    BY <1>1 DEF Locals
  <2> HIDE DEF hand, at, keeps, time, scan
  <2>2. now \in Locals
    BY <1>1, <2>0, <2>5 DEF Locals
  <2>3. /\ now.slice = req[r].slice /\ now.i = i /\ now.now = req[r].now
        /\ now.scan = scan /\ now.kept = req[r].kept
        /\ \/ now.at = "keep" /\ now.hand = time /\ keeps
           \/ now.at = "scan"
    BY <1>1, <2>0 DEF Locals
  <2> HIDE DEF now
  <2>4. req'[r] = now /\ \A q \in Requests \ {r} : req'[q] = req[q]
    BY <2>1 DEF Typed
  <2> QED BY <2>2, <2>3, <2>4 DEF scan
<1> HIDE DEF time
<1>6. Typed'
  BY <1>4, <1>5 DEF Typed
<1>7. PassedStays
  BY <1>4, NoPass
<1>8. \A j \in D : Held(j)' = Held(j)
  BY <1>4, <1>5, SameSlices
<1>9. AllGood' /\ Apart' /\ Collected'
  BY <1>4, <1>8 DEF AllGood, Apart, Collected, Pointed, Good, Room, Elements
<1>10. Progress(r)'
  <2>1. req[r].kept > 0 => \E j \in DOMAIN passed[i] : Recent(r, passed[i][j])
    BY DEF Progress
  <2>2. Window(i)' = Window(i) /\ req'[r].now = req[r].now
    BY <1>5 DEF Window
  <2>3. req[r].scan \in Nat /\ req[r].kept \in Nat /\ req[r].slice.len \in Nat
    BY <1>1 DEF Locals, Slices
  <2>4. UNCHANGED passed
    BY <1>4
  <2>5. req'[r].kept > 0 => \E j \in DOMAIN passed'[req'[r].i] : Recent(r, passed[i][j])'
    BY <1>5, <2>1, <2>2, <2>4 DEF Recent
  <2>6. req'[r].at = "keep" => InLog(passed'[req'[r].i], req'[r].hand) /\ Recent(r, req[r].hand)'
    BY <1>3, <1>5, <2>2, <2>4 DEF Recent
  <2> QED BY <1>2, <1>5, <2>3, <2>4, <2>5, <2>6 DEF Progress, Recent
<1>11. ASSUME NEW q \in Requests PROVE Progress(q)'
  BY <1>5, <1>7, <1>10, ProgressStays
<1> QED BY <1>6, <1>9, <1>11

\* An element is written into an array.
LEMMA WrittenArray ==
    ASSUME Typed, NEW a \in Arrays, NEW p \in 1..Len(heap[a]), NEW time \in Times
    PROVE  LET h == [heap EXCEPT ![a][p] = time] IN
           /\ h \in [Arrays -> Seq(Times)] /\ Len(h[a]) = Len(heap[a]) /\ h[a] # <<>> /\ heap[a] # <<>>
           /\ \A b \in Arrays \ {a} : h[b] = heap[b]
           /\ \A j \in 1..Len(heap[a]) : h[a][j] = IF j = p THEN time ELSE heap[a][j]
<1> DEFINE new == [heap[a] EXCEPT ![p] = time]
           h == [heap EXCEPT ![a][p] = time]
<1>1. heap[a] \in Seq(Times)
  BY DEF Typed
<1>2. new \in Seq(Times) /\ Len(new) = Len(heap[a]) /\ \A j \in 1..Len(heap[a]) : new[j] = IF j = p THEN time ELSE heap[a][j]
  BY <1>1
<1>3. h = [heap EXCEPT ![a] = new]
  BY DEF Typed
<1>4. new # <<>> /\ heap[a] # <<>>
  BY <1>1, <1>2
<1> HIDE DEF new, h
<1>5. h[a] = new /\ h \in [Arrays -> Seq(Times)] /\ \A b \in Arrays \ {a} : h[b] = heap[b]
  BY <1>2, <1>3 DEF Typed
<1> QED BY <1>2, <1>4, <1>5 DEF h

\* What a throttle writes into an array of its slices are times at which it let pass.
LEMMA WritesGood ==
    ASSUME Typed, AllGood, Apart, NEW i \in D, NEW t \in Held(i), t.array \in Arrays,
           NEW p \in 1..Len(heap[t.array]), NEW time \in Times, InLog(passed'[i], time), PassedStays,
           heap' = [heap EXCEPT ![t.array][p] = time],
           NEW j \in D, NEW s \in Held(j)
    PROVE  Good(j, s)'
<1> DEFINE a == t.array
<1>1. /\ Len(heap'[a]) = Len(heap[a]) /\ heap'[a] # <<>> /\ heap[a] # <<>>
      /\ \A b \in Arrays \ {a} : heap'[b] = heap[b]
      /\ \A k \in 1..Len(heap[a]) : heap'[a][k] = IF k = p THEN time ELSE heap[a][k]
  BY WrittenArray
<1>2. Good(j, s) /\ s.len \in Nat /\ s.array \in 0..MaxArrays /\ (s.array # 0 => s.array \in Arrays)
  BY HeldTyped DEF AllGood
<1>3. s.array = a => i = j
  BY ThrottlesTyped DEF Apart
<1>4. Room(s)'
  BY <1>1, <1>2, ThrottlesTyped DEF Good, Room, Elements
<1>5. ASSUME NEW k \in 1..s.len PROVE InLog(passed'[j], heap'[s.array][k])
  <2>1. s.array \in Arrays /\ k \in 1..Len(heap[s.array]) /\ InLog(passed[j], heap[s.array][k])
    BY <1>2, InSlice
  <2>2. InLog(passed'[j], heap[s.array][k])
    BY <2>1 DEF PassedStays
  <2> QED BY <1>1, <1>3, <2>1, <2>2
<1> QED BY <1>2, <1>4, <1>5 DEF Good, Limit

LEMMA KeepA ==
    ASSUME InvA, NEW r \in Requests, Keep(r) PROVE InvA'
<1> USE DEF InvA
<1> DEFINE i == req[r].i
           a == req[r].slice.array
           p == req[r].kept + 1
           now == [req[r] EXCEPT !.at = "scan", !.kept = p, !.hand = 0]
<1>1. i \in D /\ req[r].slice \in Held(i) /\ req[r] \in Locals
  BY HeldBy
<1>2. /\ p \in 1..req[r].slice.len /\ p <= req[r].scan /\ req[r].scan <= req[r].slice.len
      /\ InLog(passed[i], req[r].hand) /\ Recent(r, req[r].hand) /\ req[r].hand \in Times /\ p \in Nat
  BY <1>1 DEF Keep, Progress, Locals, Slices
<1>3. a \in Arrays /\ p \in 1..Len(heap[a])
  BY <1>1, <1>2, InSlice DEF AllGood
<1>4. heap' = [heap EXCEPT ![a][p] = req[r].hand] /\ UNCHANGED <<clock, cache, passed, promise, disturbed>>
  BY DEF Keep
<1>5. /\ \A q \in Requests \ {r} : req'[q] = req[q]
      /\ req'[r] \in Locals /\ req'[r].slice = req[r].slice /\ req'[r].i = i /\ req'[r].now = req[r].now
      /\ req'[r].scan = req[r].scan /\ req'[r].kept = p /\ req'[r].at = "scan"
      /\ req' \in [Requests -> Locals]
  <2>1. req' = [req EXCEPT ![r] = now]
    BY DEF Keep, Typed
  <2>2. now \in Locals
    BY <1>1, <1>2, ThrottlesTyped DEF Locals, Places
  <2>3. now.slice = req[r].slice /\ now.i = i /\ now.now = req[r].now /\ now.scan = req[r].scan /\ now.kept = p /\ now.at = "scan"
    BY <1>1 DEF Locals
  <2> HIDE DEF now
  <2> QED BY <2>1, <2>2, <2>3 DEF Typed
<1>6. /\ heap' \in [Arrays -> Seq(Times)]
      /\ \A b \in Arrays : heap'[b] # <<>> => heap[b] # <<>>
  BY <1>2, <1>3, <1>4, WrittenArray
<1>7. Typed'
  BY <1>4, <1>5, <1>6 DEF Typed
<1>8. PassedStays
  BY <1>4, NoPass
<1>9. \A j \in D : Held(j)' = Held(j)
  BY <1>4, <1>5, SameSlices
<1>10. ASSUME NEW j \in D, NEW s \in Held(j) PROVE Good(j, s)'
  <2>1. InLog(passed'[i], req[r].hand)
    BY <1>2, <1>4
  <2> HIDE DEF i, p
  <2> QED BY <1>1, <1>2, <1>3, <1>4, <1>8, <2>1, WritesGood
<1>11. AllGood'
  BY <1>9, <1>10 DEF AllGood
<1>12. Apart' /\ Collected'
  BY <1>6, <1>9 DEF Apart, Collected, Pointed
<1>13. Progress(r)'
  <2>1. \E j \in DOMAIN passed[i] : Recent(r, passed[i][j])
    BY <1>2 DEF InLog
  <2>2. \E j \in DOMAIN passed'[req'[r].i] : Recent(r, passed[i][j])'
    BY <1>4, <1>5, <2>1 DEF Recent
  <2> HIDE DEF p
  <2> QED BY <1>2, <1>4, <1>5, <2>2 DEF Progress, Recent
<1>14. ASSUME NEW q \in Requests PROVE Progress(q)'
  BY <1>5, <1>8, <1>13, ProgressStays
<1> QED BY <1>7, <1>11, <1>12, <1>14

LEMMA RefuseA ==
    ASSUME InvA, NEW r \in Requests, Refuse(r) PROVE InvA'
<1> USE DEF InvA
<1> DEFINE i == req[r].i
           slice == [req[r].slice EXCEPT !.len = req[r].kept]
           now == [req[r] EXCEPT !.slice = slice, !.at = "store", !.ok = FALSE]
<1>1. i \in D /\ req[r].slice \in Held(i) /\ req[r] \in Locals
  BY HeldBy
<1>2. slice \in Slices /\ slice.array = req[r].slice.array /\ slice.len = req[r].kept /\ slice.len <= req[r].slice.len /\ slice.len \in Nat
  BY <1>1 DEF Refuse, Trimmed, Progress, Locals, Slices
<1> HIDE DEF slice
<1>3. UNCHANGED <<clock, cache, heap, passed, promise, disturbed>>
  BY DEF Refuse
<1>4. /\ \A q \in Requests \ {r} : req'[q] = req[q]
      /\ req'[r].slice = slice /\ req'[r].i = i /\ req'[r].now = req[r].now
      /\ req'[r].scan = req[r].scan /\ req'[r].kept = req[r].kept /\ req'[r].at = "store"
      /\ req' \in [Requests -> Locals]
  <2>1. req' = [req EXCEPT ![r] = now]
    BY DEF Refuse, Typed, slice
  <2>2. now \in Locals
    BY <1>1, <1>2 DEF Locals, Places
  <2>3. now.slice = slice /\ now.i = i /\ now.now = req[r].now /\ now.scan = req[r].scan /\ now.kept = req[r].kept /\ now.at = "store"
    BY <1>1 DEF Locals
  <2> HIDE DEF now
  <2> QED BY <2>1, <2>2, <2>3 DEF Typed
<1>5. Typed'
  BY <1>3, <1>4 DEF Typed
<1>6. PassedStays
  BY <1>3, NoPass
<1>7. ASSUME NEW j \in D, NEW s \in Held(j)'
      PROVE  s.len \in Nat /\ \E t \in Held(j) : s.array = t.array /\ s.len <= t.len
  <2>1. CASE s \in Held(j)
    BY <2>1, HeldTyped
  <2>2. CASE s = slice /\ j = i
    BY <1>1, <1>2, <2>2
  <2> QED BY <1>3, <1>4, <1>7, <2>1, <2>2, HeldAfter
<1>8. AllGood' /\ Apart'
  BY <1>3, <1>6, <1>7, SlicesStay
<1>9. Collected'
  <2>1. ASSUME NEW j \in D, NEW s \in Held(j) PROVE Pointed(s.array)'
    <3>1. CASE s \in Held(j)'
      BY <3>1 DEF Pointed
    <3>2. CASE s = req[r].slice /\ j = i
      <4>1. slice \in Held(i)'
        BY <1>4 DEF Held
      <4> QED BY <1>1, <1>2, <1>4, <3>2, <4>1 DEF Pointed
    <3> QED BY <1>3, <1>4, <3>1, <3>2 DEF Held, History
  <2>2. \A b \in Arrays : Pointed(b) => Pointed(b)'
    BY <2>1 DEF Pointed
  <2> QED BY <1>3, <2>2 DEF Collected
<1>10. Progress(r)'
  <2>1. req[r].kept > 0 => \E j \in DOMAIN passed[i] : Recent(r, passed[i][j])
    BY DEF Progress
  <2>2. req[r].kept <= req[r].scan
    BY DEF Progress
  <2> QED BY <1>3, <1>4, <2>1, <2>2 DEF Progress, Recent
<1>11. ASSUME NEW q \in Requests PROVE Progress(q)'
  BY <1>4, <1>6, <1>10, ProgressStays
<1> QED BY <1>5, <1>8, <1>9, <1>11

\* What the collector frees nobody holds.
LEMMA FreedGood ==
    ASSUME Typed, AllGood, Apart, PassedStays, Typed', heap' = Freed(heap),
           \A i \in D : \A s \in Held(i)' : s = Nil \/ s \in Held(i)
    PROVE  AllGood' /\ Apart' /\ Collected'
<1>1. \A a \in Arrays : heap'[a] = IF Pointed(a)' THEN heap[a] ELSE <<>>
  BY FreedHeap
<1>2. ASSUME NEW i \in D, NEW s \in Held(i)', s # Nil
      PROVE  /\ \E t \in Held(i) : s.array = t.array /\ s.len <= t.len
             /\ s.array # 0 => heap'[s.array] = heap[s.array]
             /\ s.len \in Nat
  <2>1. s \in Held(i) /\ s.len \in Nat /\ (s.array # 0 => s.array \in Arrays)
    BY <1>2, HeldTyped
  <2>2. Pointed(s.array)'
    BY <1>2 DEF Pointed
  <2> QED BY <1>1, <2>1, <2>2
<1>3. AllGood' /\ Apart'
  BY <1>2, SlicesStay
<1> QED BY <1>1, <1>3 DEF Collected

LEMMA StoreA ==
    ASSUME InvA, NEW r \in Requests, Store(r) PROVE InvA'
<1> USE DEF InvA
<1> DEFINE i == req[r].i
           entry == [slice |-> req[r].slice, expires |-> clock + Lifetime(r)]
           next == IF ~req[r].ok THEN Ask(i, TRUE) ELSE IF i < Len(Throttles) THEN Ask(i + 1, FALSE) ELSE Idle
<1>1. i \in D /\ req[r].slice \in Held(i) /\ req[r] \in Locals /\ Throttles[i].key \in Keys
  BY HeldBy, ThrottlesTyped
<1>2. entry \in [slice : Slices, expires : Int]
  <2>1. clock \in Int /\ Lifetime(r) \in Int /\ req[r].slice \in Slices
    BY <1>1, ThrottlesTyped DEF Typed, Times, Lifetime, T, Window, Locals
  <2> QED BY <2>1
<1>3. next \in Locals /\ next.slice = Nil /\ next.scan = 0 /\ next.kept = 0 /\ next.at \in {"idle", "get"}
  <2>1. i + 1 \in D \/ ~(i < Len(Throttles))
    BY <1>1, ThrottlesTyped
  <2>2. clock \in Times /\ TRUE \in BOOLEAN /\ FALSE \in BOOLEAN
    BY DEF Typed
  <2>3. CASE ~req[r].ok
    BY <1>1, <2>2, <2>3, AskTyped
  <2>4. CASE req[r].ok /\ i < Len(Throttles)
    BY <2>1, <2>2, <2>4, AskTyped
  <2>5. CASE req[r].ok /\ ~(i < Len(Throttles))
    BY <1>1, <2>2, <2>5, AskTyped
  <2> QED BY <2>3, <2>4, <2>5
<1>4. /\ cache' = [cache EXCEPT ![Throttles[i].key] = entry] /\ req' = [req EXCEPT ![r] = next]
      /\ UNCHANGED <<clock, passed>> /\ heap' = Freed(heap)
      /\ promise' \in [D -> Nat] /\ disturbed' \in {"no", "overlap", "slip"}
  BY DEF Store, T, Kept, Typed, D
<1> HIDE DEF entry, next
<1>5. /\ \A q \in Requests \ {r} : req'[q] = req[q]
      /\ req'[r] = next /\ req' \in [Requests -> Locals] /\ cache' \in [Keys -> [slice : Slices, expires : Int]]
      /\ cache'[Throttles[i].key] = entry /\ \A k \in Keys : k # Throttles[i].key => cache'[k] = cache[k]
  BY <1>1, <1>2, <1>3, <1>4 DEF Typed
<1>6. heap' \in [Arrays -> Seq(Times)]
  BY <1>4 DEF Freed, Typed
<1>7. Typed'
  BY <1>4, <1>5, <1>6 DEF Typed
<1>8. PassedStays
  BY <1>4, NoPass
<1>9. ASSUME NEW j \in D, NEW s \in Held(j)' PROVE s = Nil \/ s \in Held(j)
  <2>1. CASE s = History(j)'
    <3>1. History(j)' = IF Throttles[j].key = Throttles[i].key THEN req[r].slice ELSE History(j)
      BY <1>5, ThrottlesTyped DEF History, entry
    <3>2. Throttles[j].key = Throttles[i].key => j = i
      BY <1>1, KeysDiffer DEF D
    <3> QED BY <1>1, <2>1, <3>1, <3>2 DEF Held
  <2>2. CASE \E q \in Requests : req'[q].i = j /\ s = req'[q].slice
    BY <1>3, <1>5, <2>2 DEF Held
  <2> QED BY <1>9, <2>1, <2>2 DEF Held
<1>10. AllGood' /\ Apart' /\ Collected'
  BY <1>4, <1>7, <1>8, <1>9, FreedGood
<1>11. Progress(r)'
  BY <1>3, <1>5 DEF Progress
<1>12. ASSUME NEW q \in Requests PROVE Progress(q)'
  BY <1>5, <1>8, <1>11, ProgressStays
<1> QED BY <1>7, <1>10, <1>12

\* Rounded up to seconds, the time is not shorter.
LEMMA RoundedUp ==
    ASSUME NEW ticks \in Nat, ticks > 0
    PROVE  Second * Seconds(ticks) \in Nat /\ Second * Seconds(ticks) >= ticks
<1> DEFINE n == ticks + Second - 1
           q == n \div Second
<1>1. Second \in Nat /\ Second > 0 /\ n \in Nat
  BY ThrottlesTyped
<1>2. q \in Nat /\ Second * q + (n % Second) = n /\ n % Second < Second /\ n % Second \in Nat
  BY <1>1
<1>3. Second * q \in Nat
  BY <1>1, <1>2
<1>4. Second * q > n - Second
  BY <1>1, <1>2, <1>3
<1> QED BY <1>1, <1>3, <1>4 DEF Seconds

\* The oldest of a full history, and what is left of its window.
Remaining(r) == Window(req[r].i) - (req[r].now - heap[req[r].slice.array][1])

LEMMA TellPromise ==
    ASSUME InvA, NEW r \in Requests, Tell(r)
    PROVE  \/ promise' = promise
           \/ /\ disturbed = "no" /\ req[r].kept >= Limit(req[r].i) /\ Remaining(r) \in Nat
              /\ promise' = [promise EXCEPT ![req[r].i] = req[r].now + Second * Seconds(Remaining(r))]
              /\ Second * Seconds(Remaining(r)) \in Nat /\ Second * Seconds(Remaining(r)) >= Remaining(r)
<1> USE DEF InvA
<1> DEFINE i == req[r].i
           remaining == IF req[r].kept < T(r).limit THEN 0 ELSE T(r).window - (req[r].now - heap[req[r].slice.array][1])
<1>1. promise' = IF remaining <= 0 \/ disturbed # "no" THEN promise
                 ELSE [promise EXCEPT ![i] = req[r].now + Second * Seconds(remaining)]
  BY DEF Tell
<1>2. i \in D /\ req[r].slice \in Held(i) /\ req[r] \in Locals
  BY HeldBy
<1>3. CASE ~(remaining <= 0 \/ disturbed # "no")
  <2>1. ~(req[r].kept < T(r).limit) /\ disturbed = "no"
    BY <1>3
  <2>2. remaining = Remaining(r)
    BY <2>1 DEF Remaining, T, Window
  <2>3. req[r].kept >= Limit(i)
    BY <1>2, <2>1, ThrottlesTyped DEF Limit, T, Locals
  <2>4. 1 \in 1..req[r].slice.len
    BY <1>2, <2>3, ThrottlesTyped DEF Tell, Trimmed, Progress, Locals, Slices
  <2>5. heap[req[r].slice.array][1] \in Times
    BY <1>2, <2>4, InSlice DEF AllGood
  <2>6. Remaining(r) \in Int
    BY <1>2, <2>5, ThrottlesTyped, SMTT(30) DEF Remaining, Locals, Times
  <2>7. Remaining(r) \in Nat /\ Remaining(r) > 0
    BY <1>3, <2>2, <2>6
  <2> QED BY <1>1, <1>3, <2>1, <2>2, <2>3, <2>7, RoundedUp
<1> QED BY <1>1, <1>3

LEMMA TellA ==
    ASSUME InvA, NEW r \in Requests, Tell(r) PROVE InvA'
<1> USE DEF InvA
<1>1. /\ req' = [req EXCEPT ![r] = Idle] /\ UNCHANGED <<clock, cache, passed, disturbed>> /\ heap' = Freed(heap)
  BY DEF Tell
<1>2. Idle \in Locals /\ Idle.slice = Nil /\ Idle.scan = 0 /\ Idle.kept = 0 /\ Idle.at = "idle"
  BY AskTyped, ThrottlesTyped DEF Typed
<1>3. promise' \in [D -> Nat]
  <2> DEFINE told == req[r].now + Second * Seconds(Remaining(r))
  <2>1. promise' = promise \/ (promise' = [promise EXCEPT ![req[r].i] = told] /\ Second * Seconds(Remaining(r)) \in Nat)
    BY TellPromise
  <2>2. req[r].now \in Nat
    BY HeldBy, ThrottlesTyped DEF Locals
  <2>3. Second * Seconds(Remaining(r)) \in Nat => told \in Nat
    BY <2>2
  <2> HIDE DEF told
  <2> QED BY <2>1, <2>3 DEF Typed
<1>4. /\ \A q \in Requests \ {r} : req'[q] = req[q]
      /\ req'[r] = Idle /\ req' \in [Requests -> Locals]
  BY <1>1, <1>2 DEF Typed
<1>5. Typed'
  <2>1. heap' \in [Arrays -> Seq(Times)]
    BY <1>1 DEF Freed, Typed
  <2> QED BY <1>1, <1>3, <1>4, <2>1 DEF Typed
<1>6. PassedStays
  BY <1>1, NoPass
<1>7. ASSUME NEW j \in D, NEW s \in Held(j)' PROVE s = Nil \/ s \in Held(j)
  BY <1>1, <1>2, <1>4, HeldAfter
<1>8. AllGood' /\ Apart' /\ Collected'
  BY <1>1, <1>5, <1>6, <1>7, FreedGood
<1>9. Progress(r)'
  BY <1>2, <1>4 DEF Progress
<1>10. ASSUME NEW q \in Requests PROVE Progress(q)'
  BY <1>4, <1>6, <1>9, ProgressStays
<1> QED BY <1>5, <1>8, <1>10

\* The array that a pass is written into, in place or new, and what else changes.
Appended(r, h, b) ==
    LET n == req[r].kept IN
    /\ h \in [Arrays -> Seq(Times)] /\ b \in Arrays
    /\ n + 1 <= Len(h[b]) /\ h[b] # <<>>
    /\ \A j \in 1..n : h[b][j] = heap[req[r].slice.array][j]
    /\ h[b][n + 1] = req[r].now
    /\ \A c \in Arrays \ {b} : h[c] = heap[c]
    /\ \/ heap[b] = <<>>
       \/ /\ b = req[r].slice.array /\ Len(h[b]) = Len(heap[b])
          /\ \A j \in 1..Len(heap[b]) : h[b][j] = IF j = n + 1 THEN req[r].now ELSE heap[b][j]

LEMMA GrantStep ==
    ASSUME InvA, NEW r \in Requests, Grant(r)
    PROVE  \E h, b :
              /\ Appended(r, h, b) /\ heap' = Freed(h)
              /\ req' = [req EXCEPT ![r].slice = [array |-> b, len |-> req[r].kept + 1], ![r].at = "store", ![r].ok = TRUE]
<1> USE DEF InvA
<1> DEFINE a == req[r].slice.array
           n == req[r].kept
           old == Elements(a)
           new == CHOOSE b \in Arrays : heap[b] = <<>>
           grown == [j \in 1..(IF n = 0 THEN 1 ELSE 2 * n) |-> IF j <= n THEN old[j] ELSE IF j = n + 1 THEN req[r].now ELSE 0]
           full == n = Len(old)
           h1 == [heap EXCEPT ![new] = grown]
           h2 == [heap EXCEPT ![a][n + 1] = req[r].now]
<1>1. /\ req' = [req EXCEPT ![r].slice = [array |-> IF full THEN new ELSE a, len |-> n + 1], ![r].at = "store", ![r].ok = TRUE]
      /\ heap' = Freed(IF full THEN h1 ELSE h2)
  BY DEF Grant, Remains
<1>2. req[r].i \in D /\ req[r].slice \in Held(req[r].i) /\ req[r] \in Locals
  BY HeldBy
<1>3. n \in Nat /\ req[r].now \in Times /\ req[r].slice.len \in Nat /\ n <= req[r].slice.len
  BY <1>2 DEF Locals, Slices, Progress, Grant, Trimmed
<1>4. /\ a \in 0..MaxArrays /\ (a # 0 => a \in Arrays /\ heap[a] \in Seq(Times))
      /\ req[r].slice.len <= Len(old) /\ (a = 0 => Len(old) = 0)
  BY <1>2, HeldTyped DEF AllGood, Good, Room, Elements
<1>5. Len(old) \in Nat /\ (a # 0 => old = heap[a])
  BY <1>4 DEF Elements
<1>6. CASE full
  <2>1. new \in Arrays /\ heap[new] = <<>>
    BY NewArray
  <2>2. ASSUME NEW j \in 1..n PROVE old[j] = heap[a][j] /\ old[j] \in Times
    <3>1. a # 0
      BY <1>3, <1>4, <2>2
    <3> QED BY <1>3, <1>4, <1>5, <2>2, <3>1
  <2> DEFINE m == IF n = 0 THEN 1 ELSE 2 * n
  <2>3. m \in Nat /\ n + 1 <= m
    BY <1>3
  <2> HIDE DEF m, new, old
  <2>4. \A j \in 1..m : grown[j] = (IF j <= n THEN old[j] ELSE IF j = n + 1 THEN req[r].now ELSE 0) /\ grown[j] \in Times
    <3>1. ASSUME NEW j \in 1..m PROVE (IF j <= n THEN old[j] ELSE IF j = n + 1 THEN req[r].now ELSE 0) \in Times
      BY <1>3, <2>2, <2>3, <3>1, ThrottlesTyped
    <3> QED BY <3>1 DEF m
  <2>5. grown \in Seq(Times) /\ Len(grown) = m
    <3>1. grown \in [1..m -> Times]
      BY <2>4 DEF m
    <3> HIDE DEF grown
    <3> QED BY <2>3, <3>1
  <2>6. \A j \in 1..n : grown[j] = heap[a][j]
    BY <1>3, <2>2, <2>3, <2>4
  <2>7. grown[n + 1] = req[r].now
    BY <1>3, <2>3, <2>4
  <2>8. grown # <<>>
    BY <2>3, <2>5, <1>3
  <2> HIDE DEF grown
  <2>9. h1 \in [Arrays -> Seq(Times)] /\ h1[new] = grown /\ \A c \in Arrays \ {new} : h1[c] = heap[c]
    BY <2>1, <2>5 DEF Typed
  <2> HIDE DEF h1
  <2>10. Appended(r, h1, new)
    BY <2>1, <2>3, <2>5, <2>6, <2>7, <2>8, <2>9 DEF Appended
  <2>11. heap' = Freed(h1) /\ req' = [req EXCEPT ![r].slice = [array |-> new, len |-> n + 1], ![r].at = "store", ![r].ok = TRUE]
    BY <1>1, <1>6
  <2> QED BY <2>10, <2>11
<1>7. CASE ~full
  <2>1. n + 1 \in 1..Len(old) /\ a \in Arrays /\ old = heap[a]
    BY <1>3, <1>4, <1>5, <1>7
  <2>2. /\ h2 \in [Arrays -> Seq(Times)] /\ Len(h2[a]) = Len(heap[a]) /\ h2[a] # <<>>
        /\ \A b \in Arrays \ {a} : h2[b] = heap[b]
        /\ \A j \in 1..Len(heap[a]) : h2[a][j] = IF j = n + 1 THEN req[r].now ELSE heap[a][j]
    BY <1>3, <2>1, WrittenArray
  <2> HIDE DEF h2
  <2>3. \A j \in 1..n : j \in 1..Len(heap[a]) /\ j # n + 1
    BY <1>3, <1>5, <2>1
  <2>4. Appended(r, h2, a)
    BY <1>3, <1>5, <2>1, <2>2, <2>3, SMTT(60) DEF Appended
  <2>5. heap' = Freed(h2) /\ req' = [req EXCEPT ![r].slice = [array |-> a, len |-> n + 1], ![r].at = "store", ![r].ok = TRUE]
    BY <1>1, <1>7
  <2> QED BY <2>4, <2>5
<1> QED BY <1>6, <1>7

\* The log of the throttle that lets pass, and of the others.
LEMMA GrantPasses ==
    ASSUME Typed, NEW r \in Requests, Grant(r)
    PROVE  /\ passed' \in [D -> Seq(Times)] /\ PassedStays
           /\ passed'[req[r].i] = Noted(passed[req[r].i], req[r].now) /\ InLog(passed'[req[r].i], req[r].now)
           /\ \A j \in D \ {req[r].i} : passed'[j] = passed[j]
<1> DEFINE i == req[r].i
           log == passed[i]
           noted == Noted(log, req[r].now)
<1>1. i \in D /\ req[r].now \in Times /\ log \in Seq(Times)
  BY HeldBy DEF Typed, Locals
<1>2. passed' = [passed EXCEPT ![i] = noted]
  BY DEF Grant
<1>3. noted \in Seq(Times) /\ InLog(noted, req[r].now) /\ \A time : InLog(log, time) => InLog(noted, time)
  <2>1. CASE noted = log /\ \E j \in DOMAIN log : log[j] = req[r].now
    BY <1>1, <2>1 DEF InLog
  <2>2. CASE noted = Append(log, req[r].now)
    <3>1. noted \in Seq(Times) /\ Len(noted) = Len(log) + 1 /\ noted[Len(log) + 1] = req[r].now
          /\ \A j \in 1..Len(log) : noted[j] = log[j]
      BY <1>1, <2>2
    <3>2. DOMAIN noted = 1..(Len(log) + 1) /\ DOMAIN log = 1..Len(log) /\ Len(log) \in Nat
      BY <1>1, <3>1
    <3> QED BY <3>1, <3>2 DEF InLog
  <2> QED BY <2>1, <2>2 DEF Noted
<1> HIDE DEF noted
<1>4. passed'[i] = noted /\ passed' \in [D -> Seq(Times)] /\ \A j \in D \ {i} : passed'[j] = passed[j]
  BY <1>1, <1>2, <1>3 DEF Typed
<1>5. PassedStays
  BY <1>3, <1>4 DEF PassedStays
<1> QED BY <1>3, <1>4, <1>5 DEF noted

LEMMA GrantA ==
    ASSUME InvA, NEW r \in Requests, Grant(r) PROVE InvA'
<1> USE DEF InvA
<1> DEFINE i == req[r].i
           n == req[r].kept
<1>1. PICK h, b : /\ Appended(r, h, b) /\ heap' = Freed(h)
                  /\ req' = [req EXCEPT ![r].slice = [array |-> b, len |-> n + 1], ![r].at = "store", ![r].ok = TRUE]
  BY GrantStep
<1> DEFINE slice == [array |-> b, len |-> n + 1]
           now == [req[r] EXCEPT !.slice = slice, !.at = "store", !.ok = TRUE]
<1>2. i \in D /\ req[r].slice \in Held(i) /\ req[r] \in Locals /\ n \in Nat /\ n <= req[r].slice.len /\ req[r].slice.len \in Nat
      /\ n = req[r].kept /\ n < Limit(i) /\ Limit(i) \in Nat
  BY HeldBy, ThrottlesTyped DEF Grant, Trimmed, Progress, Locals, Slices, T, Limit
<1>3. slice \in Slices /\ slice.array = b /\ slice.len = n + 1 /\ b \in Arrays
  BY <1>1, <1>2, ThrottlesTyped, SMTT(30) DEF Slices, Appended, Arrays
<1> HIDE DEF slice
<1>4. /\ \A q \in Requests \ {r} : req'[q] = req[q]
      /\ req'[r].slice = slice /\ req'[r].i = i /\ req'[r].now = req[r].now
      /\ req'[r].scan = req[r].scan /\ req'[r].kept = n /\ req'[r].at = "store"
      /\ req' \in [Requests -> Locals]
  <2>1. req' = [req EXCEPT ![r] = now]
    BY <1>1 DEF Typed, slice
  <2>2. now \in Locals
    BY <1>2, <1>3 DEF Locals, Places
  <2>3. now.slice = slice /\ now.i = i /\ now.now = req[r].now /\ now.scan = req[r].scan /\ now.kept = n /\ now.at = "store"
    BY <1>2 DEF Locals
  <2> HIDE DEF now
  <2> QED BY <2>1, <2>2, <2>3 DEF Typed
<1>5. UNCHANGED <<clock, cache, disturbed>> /\ promise' = [promise EXCEPT ![i] = 0]
  BY DEF Grant
<1>6. passed' \in [D -> Seq(Times)] /\ PassedStays /\ InLog(passed'[i], req[r].now)
  BY GrantPasses
<1>7. Typed'
  <2>1. heap' \in [Arrays -> Seq(Times)]
    BY <1>1 DEF Freed, Appended
  <2>2. promise' \in [D -> Nat]
    BY <1>2, <1>5 DEF Typed
  <2> QED BY <1>4, <1>5, <1>6, <2>1, <2>2 DEF Typed
<1>8. \A a \in Arrays : heap'[a] = IF Pointed(a)' THEN h[a] ELSE <<>>
  BY <1>1, <1>7, FreedHeap
<1>9. ASSUME NEW j \in D, NEW s \in Held(j)' PROVE s \in Held(j) \/ (s = slice /\ j = i)
  BY <1>4, <1>5, <1>9, HeldAfter
<1>10. ASSUME NEW j \in D, NEW s \in Held(j), s.array = b
       PROVE  j = i /\ b = req[r].slice.array /\ Len(h[b]) = Len(heap[b])
              /\ \A k \in 1..Len(heap[b]) : h[b][k] = IF k = n + 1 THEN req[r].now ELSE heap[b][k]
  <2>1. heap[b] # <<>>
    BY <1>3, <1>10, ThrottlesTyped DEF AllGood, Good, Room
  <2>2. b = req[r].slice.array /\ Len(h[b]) = Len(heap[b])
        /\ \A k \in 1..Len(heap[b]) : h[b][k] = IF k = n + 1 THEN req[r].now ELSE heap[b][k]
    BY <1>1, <2>1 DEF Appended
  <2>3. j = i
    <3>1. \A s2 \in Held(i) : j # i /\ s.array = s2.array => s.array = 0
      BY <1>2, <1>10 DEF Apart
    <3>2. s.array = req[r].slice.array /\ s.array # 0
      BY <1>3, <1>10, <2>2, ThrottlesTyped
    <3> QED BY <1>2, <3>1, <3>2
  <2> QED BY <2>2, <2>3
<1>11. ASSUME NEW j \in D, NEW s \in Held(j)' PROVE Good(j, s)'
  <2>0. s.array # 0 => s.array \in Arrays /\ heap'[s.array] = h[s.array]
    <3>1. s.array \in 0..MaxArrays
      BY <1>3, <1>9, <1>11, HeldTyped, ThrottlesTyped DEF Arrays
    <3>2. s.array # 0 => s.array \in Arrays
      BY <3>1, ThrottlesTyped DEF Arrays
    <3>3. Pointed(s.array)'
      BY <1>11 DEF Pointed
    <3> QED BY <1>8, <3>2, <3>3
  <2>1. CASE s = slice /\ j = i
    <3>1. heap'[b] = h[b] /\ b # 0
      BY <1>3, <2>0, <2>1, ThrottlesTyped
    <3>2. Room(s)'
      BY <1>1, <1>3, <2>1, <3>1, ThrottlesTyped DEF Room, Elements, Appended
    <3>3. ASSUME NEW k \in 1..s.len PROVE InLog(passed'[j], heap'[s.array][k])
      <4>1. CASE k = n + 1
        BY <1>1, <1>3, <1>6, <2>1, <3>1, <4>1 DEF Appended
      <4>2. CASE k # n + 1
        <5>1. k \in 1..n /\ k \in 1..req[r].slice.len
          BY <1>2, <1>3, <2>1, <3>3, <4>2
        <5>2. InLog(passed[i], heap[req[r].slice.array][k])
          BY <1>2, <5>1, InSlice DEF AllGood
        <5>3. heap'[s.array][k] = heap[req[r].slice.array][k]
          BY <1>1, <1>3, <2>1, <3>1, <5>1 DEF Appended
        <5> QED BY <1>2, <1>6, <2>1, <5>2, <5>3 DEF PassedStays
      <4> QED BY <4>1, <4>2
    <3>4. s.len <= Limit(j)'
      BY <1>2, <1>3, <2>1 DEF Limit
    <3> QED BY <3>2, <3>3, <3>4 DEF Good
  <2>2. CASE s \in Held(j)
    <3>1. Good(j, s) /\ s.len \in Nat
      BY <2>2, HeldTyped DEF AllGood
    <3>2. CASE s.array # b
      <4>1. s.array # 0 => heap'[s.array] = heap[s.array]
        BY <1>1, <2>0, <3>2 DEF Appended
      <4>2. Room(s)'
        BY <3>1, <4>1 DEF Good, Room, Elements
      <4>3. ASSUME NEW k \in 1..s.len PROVE InLog(passed'[j], heap'[s.array][k])
        <5>1. s.array \in Arrays /\ InLog(passed[j], heap[s.array][k])
          BY <2>2, <3>1, <4>3, InSlice
        <5> QED BY <1>6, <4>1, <5>1, ThrottlesTyped DEF PassedStays
      <4> QED BY <3>1, <4>2, <4>3 DEF Good, Limit
    <3>3. CASE s.array = b
      <4>1. j = i /\ Len(h[b]) = Len(heap[b])
            /\ \A k \in 1..Len(heap[b]) : h[b][k] = IF k = n + 1 THEN req[r].now ELSE heap[b][k]
        BY <1>10, <2>2, <3>3
      <4>2. heap'[b] = h[b] /\ b # 0
        BY <1>3, <2>0, <3>3, ThrottlesTyped
      <4>3. Room(s)'
        BY <1>1, <3>1, <3>3, <4>1, <4>2 DEF Good, Room, Elements, Appended
      <4>4. ASSUME NEW k \in 1..s.len PROVE InLog(passed'[j], heap'[s.array][k])
        <5>1. k \in 1..Len(heap[b]) /\ InLog(passed[j], heap[b][k])
          BY <2>2, <3>1, <3>3, <4>4, InSlice
        <5> QED BY <1>6, <3>3, <4>1, <4>2, <5>1 DEF PassedStays
      <4> QED BY <3>1, <4>3, <4>4 DEF Good, Limit
    <3> QED BY <3>2, <3>3
  <2> QED BY <1>9, <1>11, <2>1, <2>2
<1>12. AllGood'
  BY <1>11 DEF AllGood
<1>13. Apart'
  <2> SUFFICES ASSUME NEW j \in D, NEW k \in D, NEW s \in Held(j)', NEW t \in Held(k)', j # k, s.array = t.array
               PROVE  s.array = 0
    BY DEF Apart
  <2>1. s \in Held(j) \/ (s = slice /\ j = i)
    BY <1>9
  <2>2. t \in Held(k) \/ (t = slice /\ k = i)
    BY <1>9
  <2>3. CASE s \in Held(j) /\ t \in Held(k)
    BY <2>3 DEF Apart
  <2>4. CASE s = slice /\ j = i /\ t \in Held(k)
    BY <1>3, <1>10, <2>4
  <2>5. CASE t = slice /\ k = i /\ s \in Held(j)
    BY <1>3, <1>10, <2>5
  <2> QED BY <2>1, <2>2, <2>3, <2>4, <2>5
<1>14. Collected'
  BY <1>8 DEF Collected
<1>15. Progress(r)'
  <2>1. req[r].kept > 0 => \E j \in DOMAIN passed[i] : Recent(r, passed[i][j])
    BY DEF Progress
  <2>2. req[r].kept > 0 => \E j \in DOMAIN passed'[i] : Recent(r, passed'[i][j])
    <3> SUFFICES ASSUME NEW j \in DOMAIN passed[i], Recent(r, passed[i][j])
                 PROVE  \E k \in DOMAIN passed'[i] : Recent(r, passed'[i][k])
      BY <2>1
    <3>1. InLog(passed'[i], passed[i][j])
      BY <1>2, <1>6 DEF PassedStays, InLog
    <3> QED BY <3>1 DEF InLog
  <2>3. req[r].kept <= req[r].scan
    BY DEF Progress
  <2> QED BY <1>4, <2>2, <2>3 DEF Progress, Recent
<1>16. ASSUME NEW q \in Requests PROVE Progress(q)'
  BY <1>4, <1>6, <1>15, ProgressStays
<1> QED BY <1>7, <1>12, <1>13, <1>14, <1>16

LEMMA InitA ==
    ASSUME Init PROVE InvA
<1>1. Typed
  <2>1. Idle \in Locals
    BY ThrottlesTyped DEF Idle, Nil, Locals, Places, Slices
  <2>2. Nil \in Slices
    BY ThrottlesTyped DEF Nil, Slices
  <2> QED BY <2>1, <2>2, ThrottlesTyped DEF Init, Typed, D
<1>2. Idle.slice = Nil /\ Idle.at = "idle" /\ Idle.scan = 0 /\ Idle.kept = 0
  BY DEF Idle
<1>3. \A i \in D : \A s \in Held(i) : s = Nil
  BY <1>2, ThrottlesTyped DEF Init, Held, History
<1>4. AllGood /\ Apart
  BY <1>1, <1>3, NilGood DEF AllGood, Apart, Nil
<1>5. Collected
  BY DEF Init, Collected
<1>6. \A r \in Requests : Progress(r)
  BY <1>2 DEF Init, Progress
<1> QED BY <1>1, <1>4, <1>5, <1>6 DEF InvA

LEMMA InvAHolds == Spec => []InvA
<1>1. InvA /\ [Next]_vars => InvA'
  <2> SUFFICES ASSUME InvA, [Next]_vars PROVE InvA'
    OBVIOUS
  <2>1. ASSUME NEW r \in Requests, Arrive(r) \/ Get(r) \/ Scan(r) \/ Keep(r) \/ Grant(r) \/ Refuse(r) \/ Store(r) \/ Tell(r)
        PROVE  InvA'
    BY <2>1, ArriveA, GetA, ScanA, KeepA, GrantA, RefuseA, StoreA, TellA
  <2>2. CASE UNCHANGED vars
    BY <2>2 DEF vars, InvA, Typed, AllGood, Apart, Collected, Pointed, Good, Room, Elements, Held, History, Progress, Recent
  <2> QED BY <2>1, <2>2, TickA DEF Next
<1> QED BY <1>1, InitA, PTL DEF Spec

\* Every slice lies in its array and no history outgrows its limit, however requests
\* write into the arrays they share (throttles.go:190, 137).
THEOREM TypeCorrect == Spec => []TypeOK
<1>1. InvA => TypeOK
  <2> SUFFICES ASSUME InvA PROVE TypeOK
    OBVIOUS
  <2>1. \A i \in D : Within(History(i)) /\ History(i).len <= Limit(i)
    <3> SUFFICES ASSUME NEW i \in D PROVE Within(History(i)) /\ History(i).len <= Limit(i)
      OBVIOUS
    <3>1. History(i) \in Held(i)
      BY DEF Held
    <3> QED BY <3>1, HeldTyped DEF InvA, AllGood, Good, Room, Within
  <2>2. \A r \in Requests : Within(req[r].slice)
    BY HeldBy, HeldTyped DEF InvA, AllGood, Good, Room, Within
  <2> QED BY <2>1, <2>2 DEF TypeOK, InvA, Typed, Progress, D, History, Limit
<1> QED BY <1>1, InvAHolds, PTL

\* A throttle refuses only a client that it let pass within the window, whatever
\* other requests do to the arrays it reads (throttles.go:134).
THEOREM RefusesOnlyTheRecentAlways == Spec => RefusesOnlyTheRecent
<1>1. ASSUME InvA, NEW r \in Requests, Refuse(r)
      PROVE  \E j \in DOMAIN passed[req[r].i] : req[r].now - passed[req[r].i][j] < T(r).window
  <2>1. req[r].kept > 0
    BY <1>1, HeldBy, ThrottlesTyped DEF InvA, Refuse, T, Limit, Locals
  <2>2. PICK j \in DOMAIN passed[req[r].i] : Recent(r, passed[req[r].i][j])
    BY <1>1, <2>1 DEF InvA, Progress
  <2>3. Recent(r, passed[req[r].i][j]) <=> req[r].now - passed[req[r].i][j] < T(r).window
    BY DEF Recent, Window, T
  <2> QED BY <2>2, <2>3
<1> DEFINE Step == \A r \in Requests : Refuse(r) =>
                      \E j \in DOMAIN passed[req[r].i] : req[r].now - passed[req[r].i][j] < T(r).window
<1>2. InvA => Step
  BY <1>1
<1>3. RefusesOnlyTheRecent <=> [][Step]_vars
  BY DEF RefusesOnlyTheRecent
<1> HIDE DEF Step
<1> QED BY <1>2, <1>3, InvAHolds, PTL

-----------------------------------------------------------------------------
(* One request at a time.                                                  *)

\* The last k passes of the first e are covered by the first k times of h, and those
\* before them have left the window.
Cover(log, h, k, e, now, window) ==
    /\ k <= e
    /\ \A j \in 1..k : log[e - k + j] <= h[j]
    /\ \A j \in 1..(e - k) : now - log[j] >= window

Sorted(log) == \A j, k \in DOMAIN log : j <= k => log[j] <= log[k]

Alone == \A r, s \in Requests : req[r].at # "idle" /\ req[s].at # "idle" => r = s

InOrder ==
    /\ \A i \in D : Sorted(passed[i]) /\ \A j \in DOMAIN passed[i] : passed[i][j] <= clock
    /\ \A r \in Requests : req[r].at # "idle" =>
          /\ req[r].now <= clock
          /\ \A j \in DOMAIN passed[req[r].i] : passed[req[r].i][j] <= req[r].now

\* The history in the cache covers what passed, unless the request that stores is about to.
Covered(i, s) == Cover(passed[i], Elements(s.array), s.len, Len(passed[i]), clock, Window(i))
Storing(i) == \E r \in Requests : req[r].at = "store" /\ req[r].i = i
Stored(i) ==
    /\ Covered(i, History(i))
    /\ \A j \in DOMAIN passed[i] : passed[i][j] + Window(i) <= cache[Throttles[i].key].expires

\* What is trimmed of a history covers what passed up to where the scan is.
Looked(r) == IF req[r].at = "keep" THEN req[r].scan - 1 ELSE req[r].scan
Trims(r) ==
    LET i == req[r].i
        log == passed[i]
        h == Elements(req[r].slice.array)
        behind == Len(log) - req[r].slice.len
    IN /\ req[r].slice = Nil \/ req[r].slice = History(i)
       /\ behind >= 0
       /\ Cover(log, h, req[r].kept, behind + Looked(r), clock, Window(i))
       /\ \A j \in 1..req[r].kept : Recent(r, h[j])
       /\ \A j \in (req[r].scan + 1)..req[r].slice.len : log[behind + j] <= h[j]
       /\ req[r].at = "keep" => log[behind + req[r].scan] <= req[r].hand

Counts ==
    /\ Alone /\ InOrder
    /\ \A i \in D : Storing(i) \/ Stored(i)
    /\ \A r \in Requests :
          /\ req[r].at \in {"scan", "keep"} => Trims(r)
          /\ req[r].at = "store" => Covered(req[r].i, req[r].slice)

InvS == disturbed # "overlap" => Counts

\* Time passes.
LEMMA CoverLater ==
    ASSUME NEW log \in Seq(Nat), NEW h, NEW k \in Nat, NEW e \in 0..Len(log), NEW now \in Nat, NEW later \in Nat,
           NEW window \in Nat, now <= later, Cover(log, h, k, e, now, window)
    PROVE  Cover(log, h, k, e, later, window)
<1>1. ASSUME NEW j \in 1..(e - k) PROVE later - log[j] >= window
  <2>1. now - log[j] >= window
    BY DEF Cover
  <2>2. log[j] \in Nat
    BY DEF Cover
  <2> QED BY <2>1, <2>2
<1> QED BY <1>1 DEF Cover

\* The same times elsewhere.
LEMMA CoverSame ==
    ASSUME NEW log, NEW h, NEW g, NEW k, NEW e, NEW now, NEW window,
           \A j \in 1..k : g[j] = h[j], Cover(log, h, k, e, now, window)
    PROVE  Cover(log, g, k, e, now, window)
BY DEF Cover

\* A time that has left the window is not kept.
LEMMA CoverDrop ==
    ASSUME NEW log \in Seq(Nat), Sorted(log), NEW h, NEW k \in Nat, NEW e \in 0..Len(log), NEW now \in Nat,
           NEW clk \in Nat, NEW window \in Nat, now <= clk,
           Cover(log, h, k, e, clk, window), \A j \in 1..k : h[j] \in Nat /\ now - h[j] < window,
           e < Len(log), now - log[e + 1] >= window
    PROVE  Cover(log, h, k, e + 1, clk, window)
<1>0. k <= e /\ \A j \in 1..Len(log) : log[j] \in Nat
  BY DEF Cover
<1>1. ASSUME NEW j \in 1..k PROVE log[e + 1 - k + j] <= h[j]
  <2>1. e + 1 - k + j \in 1..Len(log) /\ e + 1 \in 1..Len(log) /\ e + 1 - k + j <= e + 1
    BY <1>0
  <2>2. log[e + 1 - k + j] <= log[e + 1]
    BY <2>1, SMTT(30) DEF Sorted
  <2>3. log[e + 1 - k + j] \in Nat /\ log[e + 1] \in Nat
    BY <1>0, <2>1
  <2>4. h[j] \in Nat /\ now - h[j] < window
    BY <1>1
  <2>5. now - log[e + 1] >= window
    OBVIOUS
  <2>6. \A a, b, c \in Nat : a <= b /\ now - c < window /\ now - b >= window => a <= c
    OBVIOUS
  <2> QED BY <2>2, <2>3, <2>4, <2>5, <2>6, Zenon
<1>2. ASSUME NEW j \in 1..(e + 1 - k) PROVE clk - log[j] >= window
  <2>1. j \in 1..Len(log) /\ e + 1 \in 1..Len(log) /\ j <= e + 1
    BY <1>0
  <2>2. log[j] <= log[e + 1] /\ log[j] \in Nat /\ log[e + 1] \in Nat /\ now - log[e + 1] >= window
    BY <1>0, <2>1, SMTT(30) DEF Sorted
  <2>3. \A a, b \in Nat : a <= b /\ now - b >= window => clk - a >= window
    OBVIOUS
  <2> QED BY <2>2, <2>3, Zenon
<1> QED BY <1>0, <1>1, <1>2 DEF Cover

\* A time in the window is.
LEMMA CoverKeep ==
    ASSUME NEW log \in Seq(Nat), NEW h, NEW g, NEW k \in Nat, NEW e \in 0..Len(log), NEW now, NEW window,
           Cover(log, h, k, e, now, window), \A j \in 1..k : g[j] = h[j], log[e + 1] <= g[k + 1]
    PROVE  Cover(log, g, k + 1, e + 1, now, window)
<1>0. k <= e
  BY DEF Cover
<1>1. ASSUME NEW j \in 1..(k + 1) PROVE log[(e + 1) - (k + 1) + j] <= g[j]
  <2>1. CASE j = k + 1
    BY <2>1
  <2>2. CASE j # k + 1
    <3>1. j \in 1..k /\ (e + 1) - (k + 1) + j = e - k + j
      BY <2>2
    <3> QED BY <3>1 DEF Cover
  <2> QED BY <2>1, <2>2
<1>2. (e + 1) - (k + 1) = e - k
  OBVIOUS
<1> QED BY <1>0, <1>1, <1>2 DEF Cover

\* A request passes, and its time is written behind the others.
LEMMA CoverPass ==
    ASSUME NEW log \in Seq(Nat), NEW h, NEW g, NEW k \in Nat, NEW time \in Nat, NEW now \in Nat, NEW window \in Nat,
           Cover(log, h, k, Len(log), now, window), \A j \in 1..k : g[j] = h[j], g[k + 1] = time
    PROVE  Cover(Append(log, time), g, k + 1, Len(log) + 1, now, window)
<1> DEFINE longer == Append(log, time)
<1>1. /\ longer \in Seq(Nat) /\ Len(longer) = Len(log) + 1 /\ longer[Len(log) + 1] = time
      /\ \A j \in 1..Len(log) : longer[j] = log[j]
  OBVIOUS
<1> HIDE DEF longer
<1>0. k <= Len(log) /\ Len(log) \in Nat
  BY DEF Cover
<1>2. ASSUME NEW j \in 1..k PROVE longer[Len(log) - k + j] <= h[j]
  <2>1. Len(log) - k + j \in 1..Len(log) /\ log[Len(log) - k + j] <= h[j]
    BY <1>0 DEF Cover
  <2> QED BY <1>1, <2>1
<1>3. ASSUME NEW j \in 1..(Len(log) - k) PROVE now - longer[j] >= window
  <2>1. j \in 1..Len(log) /\ now - log[j] >= window
    BY <1>0 DEF Cover
  <2> QED BY <1>1, <2>1
<1>4. Cover(longer, h, k, Len(log), now, window)
  BY <1>0, <1>2, <1>3 DEF Cover
<1>5. longer[Len(log) + 1] <= g[k + 1] /\ Len(log) \in 0..Len(longer)
  BY <1>0, <1>1
<1>6. Cover(longer, g, k + 1, Len(log) + 1, now, window)
  BY <1>1, <1>4, <1>5, CoverKeep
<1> QED BY <1>6 DEF longer

\* The trim moves a time to the front of the array that the cache still holds.
LEMMA CoverMove ==
    ASSUME NEW log \in Seq(Nat), Sorted(log), NEW h, NEW g, NEW n \in Nat, NEW p \in 1..n, NEW q \in p..n,
           NEW now, NEW window, NEW hand \in Nat,
           Cover(log, h, n, Len(log), now, window), log[Len(log) - n + q] <= hand,
           \A j \in 1..n : g[j] = IF j = p THEN hand ELSE h[j]
    PROVE  Cover(log, g, n, Len(log), now, window)
<1>0. n <= Len(log) /\ \A j \in 1..Len(log) : log[j] \in Nat
  BY DEF Cover
<1>1. ASSUME NEW j \in 1..n PROVE log[Len(log) - n + j] <= g[j]
  <2>1. CASE j = p
    <3>1. Len(log) - n + p \in 1..Len(log) /\ Len(log) - n + q \in 1..Len(log) /\ Len(log) - n + p <= Len(log) - n + q
      BY <1>0
    <3>2. log[Len(log) - n + p] <= log[Len(log) - n + q]
      BY <3>1 DEF Sorted
    <3> QED BY <1>0, <2>1, <3>1, <3>2
  <2>2. CASE j # p
    BY <2>2 DEF Cover
  <2> QED BY <2>1, <2>2
<1> QED BY <1>0, <1>1 DEF Cover

\* No more than the limit of those that passed are in the window.
LEMMA CoverRate ==
    ASSUME NEW log \in Seq(Nat), NEW h, NEW k \in Nat, NEW now \in Nat, NEW window \in Nat, NEW limit \in Nat,
           Cover(log, h, k, Len(log), now, window), k <= limit
    PROVE  Cardinality({j \in DOMAIN log : now - log[j] < window}) <= limit
<1> DEFINE last == (Len(log) - k + 1)..Len(log)
           within == {j \in DOMAIN log : now - log[j] < window}
<1>0. k <= Len(log) /\ Len(log) \in Nat /\ DOMAIN log = 1..Len(log) /\ \A j \in 1..Len(log) : log[j] \in Nat
  BY DEF Cover
<1>1. IsFiniteSet(last) /\ Cardinality(last) = k
  <2>1. Len(log) - k + 1 \in Int /\ Len(log) \in Int /\ Len(log) - k + 1 <= Len(log) + 1
    BY <1>0
  <2>2. IsFiniteSet(last) /\ Cardinality(last) = IF Len(log) - k + 1 > Len(log) THEN 0 ELSE Len(log) - (Len(log) - k + 1) + 1
    BY <2>1, FS_Interval
  <2> QED BY <1>0, <2>2
<1>2. within \subseteq last
  <2> SUFFICES ASSUME NEW j \in 1..Len(log), now - log[j] < window PROVE j \in last
    BY <1>0
  <2>1. ~(j \in 1..(Len(log) - k))
    BY <1>0 DEF Cover
  <2> QED BY <1>0, <2>1
<1> HIDE DEF within, last
<1>3. IsFiniteSet(within) /\ Cardinality(within) <= Cardinality(last)
  BY <1>1, <1>2, FS_Subset
<1> QED BY <1>1, <1>3, FS_CardinalityType DEF within

\* What each step changes.
Others(r) == \A q \in Requests \ {r} : req'[q] = req[q]

LEMMA ArriveStep ==
    ASSUME InvA, NEW r \in Requests, Arrive(r)
    PROVE  /\ req[r].at = "idle" /\ Others(r) /\ UNCHANGED <<clock, cache, heap, passed>>
           /\ req'[r].at = "get" /\ req'[r].i = 1 /\ ~req'[r].waiting /\ req'[r].now = clock
           /\ disturbed' # "overlap" => disturbed' = disturbed /\ \A q \in Requests : req[q].at = "idle"
           /\ promise' = Kept(promise)
<1>1. Ask(1, FALSE).at = "get" /\ Ask(1, FALSE).i = 1 /\ ~Ask(1, FALSE).waiting /\ Ask(1, FALSE).now = clock
  BY ThrottlesTyped, AskTyped DEF InvA, Typed
<1>2. req'[r] = Ask(1, FALSE) /\ Others(r)
  BY DEF Arrive, InvA, Typed, Others
<1> QED BY <1>1, <1>2 DEF Arrive

LEMMA GetStep ==
    ASSUME InvA, NEW r \in Requests, Get(r)
    PROVE  /\ Others(r) /\ UNCHANGED <<clock, cache, heap, passed, promise, disturbed>>
           /\ req[r].at = "get" /\ req'[r].at = "scan" /\ req'[r].i = req[r].i /\ req'[r].waiting = req[r].waiting
           /\ req'[r].now = req[r].now /\ req'[r].scan = 0 /\ req'[r].kept = 0
           /\ req'[r].slice = IF clock > cache[Throttles[req[r].i].key].expires THEN Nil ELSE History(req[r].i)
<1> DEFINE slice == IF clock > cache[Throttles[req[r].i].key].expires THEN Nil ELSE History(req[r].i)
<1>1. /\ req' = [req EXCEPT ![r].at = "scan", ![r].slice = slice]
      /\ UNCHANGED <<clock, cache, heap, passed, promise, disturbed>> /\ req[r].at = "get"
  BY DEF Get, T, History
<1> HIDE DEF slice
<1>2. req[r].scan = 0 /\ req[r].kept = 0
  BY <1>1 DEF InvA, Progress
<1>3. Others(r)
  BY <1>1 DEF InvA, Typed, Others
<1>4. /\ req'[r].at = "scan" /\ req'[r].i = req[r].i /\ req'[r].waiting = req[r].waiting /\ req'[r].now = req[r].now
      /\ req'[r].scan = req[r].scan /\ req'[r].kept = req[r].kept /\ req'[r].slice = slice
  BY <1>1 DEF InvA, Typed, Locals
<1> QED BY <1>1, <1>2, <1>3, <1>4 DEF slice

LEMMA ScanStep ==
    ASSUME InvA, NEW r \in Requests, Scan(r)
    PROVE  /\ Others(r) /\ UNCHANGED <<clock, cache, heap, passed, promise, disturbed>>
           /\ req[r].at = "scan" /\ req[r].scan < req[r].slice.len
           /\ req'[r].i = req[r].i /\ req'[r].waiting = req[r].waiting /\ req'[r].slice = req[r].slice
           /\ req'[r].now = req[r].now /\ req'[r].scan = req[r].scan + 1 /\ req'[r].kept = req[r].kept
           /\ LET time == Elements(req[r].slice.array)[req[r].scan + 1] IN
              /\ time \in Times
              /\ \/ Recent(r, time) /\ req'[r].at = "keep" /\ req'[r].hand = time
                 \/ ~Recent(r, time) /\ req'[r].at = "scan"
<1> DEFINE time == heap[req[r].slice.array][req[r].scan + 1]
           fresh == Fresh(time, req[r].now, T(r).window)
<1>1. /\ req' = [req EXCEPT ![r].scan = @ + 1, ![r].hand = IF fresh THEN time ELSE 0, ![r].at = IF fresh THEN "keep" ELSE "scan"]
      /\ UNCHANGED <<clock, cache, heap, passed, promise, disturbed>> /\ req[r].at = "scan" /\ req[r].scan < req[r].slice.len
  BY DEF Scan
<1>2. req[r].scan + 1 \in 1..req[r].slice.len
  BY <1>1, HeldBy, HeldTyped DEF InvA, Locals
<1>3. Good(req[r].i, req[r].slice)
  BY HeldBy DEF InvA, AllGood
<1>4. Elements(req[r].slice.array) = heap[req[r].slice.array] /\ time \in Times
  BY <1>2, <1>3, HeldBy, InSlice DEF InvA
<1>5. fresh <=> Recent(r, time)
  BY DEF Fresh, Recent, T, Window
<1> HIDE DEF fresh, time
<1>6. Others(r)
  BY <1>1 DEF InvA, Typed, Others
<1>7. /\ req'[r].i = req[r].i /\ req'[r].waiting = req[r].waiting /\ req'[r].slice = req[r].slice
      /\ req'[r].now = req[r].now /\ req'[r].scan = req[r].scan + 1 /\ req'[r].kept = req[r].kept
      /\ req'[r].hand = (IF fresh THEN time ELSE 0) /\ req'[r].at = (IF fresh THEN "keep" ELSE "scan")
  BY <1>1 DEF InvA, Typed, Locals
<1>8. time = Elements(req[r].slice.array)[req[r].scan + 1]
  BY <1>4 DEF time
<1> QED BY <1>1, <1>4, <1>5, <1>6, <1>7, <1>8

LEMMA KeepStep ==
    ASSUME InvA, NEW r \in Requests, Keep(r)
    PROVE  /\ Others(r) /\ UNCHANGED <<clock, cache, passed, promise, disturbed>>
           /\ req[r].at = "keep" /\ req'[r].at = "scan" /\ req'[r].i = req[r].i /\ req'[r].waiting = req[r].waiting
           /\ req'[r].slice = req[r].slice /\ req'[r].now = req[r].now
           /\ req'[r].scan = req[r].scan /\ req'[r].kept = req[r].kept + 1
           /\ req[r].slice.array \in Arrays /\ \A a \in Arrays \ {req[r].slice.array} : heap'[a] = heap[a]
           /\ \A j \in 1..req[r].slice.len :
                 heap'[req[r].slice.array][j] = IF j = req[r].kept + 1 THEN req[r].hand ELSE heap[req[r].slice.array][j]
<1>1. /\ req' = [req EXCEPT ![r].at = "scan", ![r].kept = @ + 1, ![r].hand = 0]
      /\ heap' = [heap EXCEPT ![req[r].slice.array][req[r].kept + 1] = req[r].hand]
      /\ UNCHANGED <<clock, cache, passed, promise, disturbed>> /\ req[r].at = "keep"
  BY DEF Keep
<1>2. req[r].kept + 1 \in 1..req[r].slice.len /\ req[r].slice.len \in Nat /\ req[r].hand \in Times
  BY <1>1, HeldBy, HeldTyped DEF InvA, Locals, Progress
<1>3. Good(req[r].i, req[r].slice)
  BY HeldBy DEF InvA, AllGood
<1>4. /\ req[r].slice.array \in Arrays /\ heap[req[r].slice.array] \in Seq(Times)
      /\ req[r].kept + 1 \in 1..Len(heap[req[r].slice.array]) /\ req[r].slice.len <= Len(heap[req[r].slice.array])
  BY <1>2, <1>3, HeldBy, InSlice DEF InvA, Good, Room
<1>5. /\ \A a \in Arrays \ {req[r].slice.array} : heap'[a] = heap[a]
      /\ \A j \in 1..Len(heap[req[r].slice.array]) :
            heap'[req[r].slice.array][j] = IF j = req[r].kept + 1 THEN req[r].hand ELSE heap[req[r].slice.array][j]
  BY <1>1, <1>2, <1>4, WrittenArray, SMTT(30) DEF InvA
<1>6. \A j \in 1..req[r].slice.len : j \in 1..Len(heap[req[r].slice.array])
  BY <1>2, <1>4
<1>7. Others(r)
  BY <1>1 DEF InvA, Typed, Others
<1>8. /\ req'[r].at = "scan" /\ req'[r].i = req[r].i /\ req'[r].waiting = req[r].waiting
      /\ req'[r].slice = req[r].slice /\ req'[r].now = req[r].now
      /\ req'[r].scan = req[r].scan /\ req'[r].kept = req[r].kept + 1
  BY <1>1 DEF InvA, Typed, Locals
<1> QED BY <1>1, <1>4, <1>5, <1>6, <1>7, <1>8

LEMMA RefuseStep ==
    ASSUME InvA, NEW r \in Requests, Refuse(r)
    PROVE  /\ Others(r) /\ UNCHANGED <<clock, cache, heap, passed, promise, disturbed>>
           /\ req[r].at = "scan" /\ ~req[r].waiting /\ req[r].scan = req[r].slice.len /\ req[r].kept >= Limit(req[r].i)
           /\ req'[r].at = "store" /\ req'[r].i = req[r].i /\ ~req'[r].waiting /\ ~req'[r].ok
           /\ req'[r].now = req[r].now /\ req'[r].slice.array = req[r].slice.array /\ req'[r].slice.len = req[r].kept
<1>1. /\ req' = [req EXCEPT ![r].slice.len = req[r].kept, ![r].at = "store", ![r].ok = FALSE]
      /\ UNCHANGED <<clock, cache, heap, passed, promise, disturbed>>
      /\ req[r].at = "scan" /\ ~req[r].waiting /\ req[r].scan = req[r].slice.len /\ req[r].kept >= Limit(req[r].i)
  BY DEF Refuse, Trimmed, T, Limit
<1>2. Others(r)
  BY <1>1 DEF InvA, Typed, Others
<1> DEFINE now == [[req[r] EXCEPT !.slice = [req[r].slice EXCEPT !.len = req[r].kept]] EXCEPT !.at = "store", !.ok = FALSE]
<1>3. req[r] \in Locals /\ req[r].slice \in Slices
  BY HeldBy DEF InvA, Locals
<1>4. req'[r] = now
  BY <1>1, <1>3 DEF InvA, Typed, Locals
<1>5. /\ now.at = "store" /\ now.i = req[r].i /\ now.waiting = req[r].waiting /\ ~now.ok
      /\ now.now = req[r].now /\ now.slice.array = req[r].slice.array /\ now.slice.len = req[r].kept
  BY <1>3 DEF Locals, Slices
<1> HIDE DEF now
<1> QED BY <1>1, <1>2, <1>4, <1>5

LEMMA StoreStep ==
    ASSUME InvA, NEW r \in Requests, Store(r)
    PROVE  /\ Others(r) /\ UNCHANGED <<clock, passed>> /\ heap' = Freed(heap) /\ req[r].at = "store"
           /\ cache'[Throttles[req[r].i].key].slice = req[r].slice
           /\ cache'[Throttles[req[r].i].key].expires = clock + Window(req[r].i)
           /\ \A j \in D \ {req[r].i} : cache'[Throttles[j].key] = cache[Throttles[j].key]
           /\ req'[r].at \in {"idle", "get"}
           /\ req'[r].at = "get" => req'[r].now = clock
           /\ req[r].ok => req'[r].at = "idle" \/ ~req'[r].waiting
           /\ ~req[r].ok => req'[r].at = "get" /\ req'[r].waiting /\ req'[r].i = req[r].i
           /\ disturbed' = IF disturbed = "no" /\ ~req[r].ok /\ clock # req[r].now THEN "slip" ELSE disturbed
           /\ promise' = Kept(promise)
<1> DEFINE i == req[r].i
           entry == [slice |-> req[r].slice, expires |-> clock + Lifetime(r)]
           next == IF ~req[r].ok THEN Ask(i, TRUE) ELSE IF i < Len(Throttles) THEN Ask(i + 1, FALSE) ELSE Idle
<1>1. i \in D /\ Throttles[i].key \in Keys
  BY HeldBy, ThrottlesTyped DEF InvA
<1>2. /\ cache' = [cache EXCEPT ![Throttles[i].key] = entry] /\ req' = [req EXCEPT ![r] = next]
      /\ UNCHANGED <<clock, passed>> /\ heap' = Freed(heap) /\ req[r].at = "store" /\ promise' = Kept(promise)
      /\ disturbed' = IF disturbed = "no" /\ ~req[r].ok /\ clock # req[r].now THEN "slip" ELSE disturbed
  BY DEF Store, T
<1>3. /\ next.at \in {"idle", "get"}
      /\ next.at = "get" => next.now = clock
      /\ req[r].ok => next.at = "idle" \/ ~next.waiting
      /\ ~req[r].ok => next.at = "get" /\ next.waiting /\ next.i = i
  <2>1. i + 1 \in D \/ ~(i < Len(Throttles))
    BY <1>1, ThrottlesTyped
  <2>2. clock \in Times /\ TRUE \in BOOLEAN /\ FALSE \in BOOLEAN
    BY DEF InvA, Typed
  <2>3. CASE ~req[r].ok
    BY <1>1, <2>2, <2>3, AskTyped
  <2>4. CASE req[r].ok /\ i < Len(Throttles)
    BY <2>1, <2>2, <2>4, AskTyped
  <2>5. CASE req[r].ok /\ ~(i < Len(Throttles))
    BY <1>1, <2>2, <2>5, AskTyped
  <2> QED BY <2>3, <2>4, <2>5
<1> HIDE DEF next
<1>4. Others(r) /\ req'[r] = next
  BY <1>2 DEF InvA, Typed, Others
<1>5. cache'[Throttles[i].key] = entry /\ \A k \in Keys : k # Throttles[i].key => cache'[k] = cache[k]
  BY <1>1, <1>2 DEF InvA, Typed
<1>6. \A j \in D \ {i} : cache'[Throttles[j].key] = cache[Throttles[j].key]
  BY <1>1, <1>5, KeysDiffer, ThrottlesTyped DEF D
<1>7. entry.slice = req[r].slice /\ entry.expires = clock + Window(i)
  BY DEF Lifetime, T, Window
<1> HIDE DEF entry
<1>8. cache'[Throttles[i].key].slice = req[r].slice
  BY <1>5, <1>7
<1> QED BY <1>2, <1>3, <1>4, <1>5, <1>6, <1>7, <1>8

LEMMA TellStep ==
    ASSUME InvA, NEW r \in Requests, Tell(r)
    PROVE  /\ Others(r) /\ UNCHANGED <<clock, cache, passed, disturbed>> /\ heap' = Freed(heap)
           /\ req[r].at = "scan" /\ req[r].scan = req[r].slice.len /\ req[r].waiting /\ req'[r].at = "idle"
<1>1. /\ req' = [req EXCEPT ![r] = Idle] /\ UNCHANGED <<clock, cache, passed, disturbed>> /\ heap' = Freed(heap)
      /\ req[r].at = "scan" /\ req[r].scan = req[r].slice.len /\ req[r].waiting
  BY DEF Tell, Trimmed
<1>2. Others(r) /\ req'[r] = Idle
  BY <1>1 DEF InvA, Typed, Others
<1> QED BY <1>1, <1>2 DEF Idle

\* The collector leaves what is pointed to.
LEMMA ElementsStay ==
    ASSUME InvA', NEW h, heap' = Freed(h), NEW i \in D, NEW s \in Held(i)', s.array # 0
    PROVE  s.array \in Arrays /\ Elements(s.array)' = h[s.array]
<1>1. s.array \in Arrays
  <2>1. s \in Slices
    BY ThrottlesTyped DEF Held, History, InvA, Typed, Locals
  <2> QED BY <2>1 DEF Slices, Arrays
<1>2. Pointed(s.array)'
  BY DEF Pointed
<1>3. heap'[s.array] = h[s.array]
  BY <1>1, <1>2, FreedHeap DEF InvA
<1> QED BY <1>1, <1>3 DEF Elements

LEMMA GrantEffect ==
    ASSUME InvA, InvA', NEW r \in Requests, Grant(r)
    PROVE  /\ Others(r) /\ UNCHANGED <<clock, cache, disturbed>> /\ promise' = [promise EXCEPT ![req[r].i] = 0]
           /\ req[r].at = "scan" /\ ~req[r].waiting /\ req[r].scan = req[r].slice.len /\ req[r].kept < Limit(req[r].i)
           /\ req'[r].at = "store" /\ req'[r].i = req[r].i /\ ~req'[r].waiting /\ req'[r].ok
           /\ req'[r].now = req[r].now /\ req'[r].slice.len = req[r].kept + 1
           /\ \A j \in 1..req[r].kept : heap'[req'[r].slice.array][j] = Elements(req[r].slice.array)[j]
           /\ heap'[req'[r].slice.array][req[r].kept + 1] = req[r].now /\ req'[r].slice.array # 0
           /\ \A i \in D \ {req[r].i} : History(i).array # 0 => heap'[History(i).array] = heap[History(i).array]
<1>1. PICK h, b : /\ Appended(r, h, b) /\ heap' = Freed(h)
                  /\ req' = [req EXCEPT ![r].slice = [array |-> b, len |-> req[r].kept + 1], ![r].at = "store", ![r].ok = TRUE]
  BY GrantStep
<1> DEFINE slice == [array |-> b, len |-> req[r].kept + 1]
           now == [req[r] EXCEPT !.slice = slice, !.at = "store", !.ok = TRUE]
<1>2. req[r] \in Locals /\ req[r].i \in D /\ req[r].slice \in Held(req[r].i)
  BY HeldBy DEF InvA
<1>3. /\ UNCHANGED <<clock, cache, disturbed>> /\ promise' = [promise EXCEPT ![req[r].i] = 0]
      /\ req[r].at = "scan" /\ ~req[r].waiting /\ req[r].scan = req[r].slice.len /\ req[r].kept < Limit(req[r].i)
  BY DEF Grant, Trimmed, T, Limit
<1>4. Others(r) /\ req'[r] = now
  BY <1>1 DEF InvA, Typed, Others
<1>5. /\ now.at = "store" /\ now.i = req[r].i /\ now.waiting = req[r].waiting /\ now.ok /\ now.now = req[r].now
      /\ now.slice.array = b /\ now.slice.len = req[r].kept + 1
  BY <1>2 DEF Locals
<1> HIDE DEF now
<1>6. b \in Arrays /\ b # 0
  BY <1>1, ThrottlesTyped DEF Appended
<1>7. heap'[b] = h[b]
  <2>1. req'[r].slice \in Held(req[r].i)' /\ req'[r].i \in D
    BY <1>2, <1>4, <1>5 DEF Held
  <2>2. Pointed(b)'
    BY <1>4, <1>5, <2>1 DEF Pointed
  <2> QED BY <1>1, <1>6, <2>2, FreedHeap DEF InvA
<1>8. ASSUME NEW j \in 1..req[r].kept PROVE heap'[b][j] = Elements(req[r].slice.array)[j]
  <2>1. j \in 1..req[r].slice.len
    BY <1>2, <1>3, <1>8 DEF Locals, Slices, InvA, Progress
  <2>2. Elements(req[r].slice.array) = heap[req[r].slice.array]
    BY <1>2, <2>1, InSlice DEF InvA, AllGood
  <2> QED BY <1>1, <1>7, <1>8, <2>2 DEF Appended
<1>9. heap'[b][req[r].kept + 1] = req[r].now
  BY <1>1, <1>7 DEF Appended
<1>10. ASSUME NEW i \in D \ {req[r].i}, History(i).array # 0 PROVE heap'[History(i).array] = heap[History(i).array]
  <2>1. History(i) \in Held(i) /\ History(i).array \in Arrays
    <3>1. History(i) \in Held(i)
      BY DEF Held
    <3> QED BY <1>10, <3>1, HeldTyped DEF InvA
  <2>2. heap[History(i).array] # <<>>
    BY <1>10, <2>1 DEF InvA, AllGood, Good, Room
  <2>3. History(i).array # b
    <3>1. CASE heap[b] = <<>>
      BY <2>2, <3>1
    <3>2. CASE b = req[r].slice.array
      BY <1>2, <1>6, <1>10, <2>1, <3>2 DEF InvA, Apart
    <3> QED BY <1>1, <3>1, <3>2 DEF Appended
  <2>4. ASSUME NEW a \in Arrays, a = History(i).array PROVE heap'[a] = h[a]
    <3>1. History(i)' \in Held(i)' /\ History(i)' = History(i)
      BY <1>3 DEF Held, History
    <3>2. Pointed(a)'
      BY <2>4, <3>1 DEF Pointed
    <3> QED BY <1>1, <3>2, FreedHeap DEF InvA
  <2>5. heap'[History(i).array] = h[History(i).array]
    BY <2>1, <2>4
  <2> QED BY <1>1, <2>1, <2>3, <2>5 DEF Appended
<1> QED BY <1>3, <1>4, <1>5, <1>6, <1>8, <1>9, <1>10

LEMMA LogTyped ==
    ASSUME Typed, NEW i \in D
    PROVE  /\ passed[i] \in Seq(Nat) /\ Len(passed[i]) \in Nat /\ DOMAIN passed[i] = 1..Len(passed[i])
           /\ \A j \in 1..Len(passed[i]) : passed[i][j] \in Nat
           /\ Window(i) \in Nat /\ Window(i) > 0 /\ clock \in Nat /\ History(i).len \in Nat
<1>1. passed[i] \in Seq(Times) /\ \A t \in Times : t \in Nat
  BY ThrottlesTyped DEF Typed
<1>2. History(i).len \in Nat
  BY HeldTyped DEF Held
<1>3. clock \in Nat /\ Window(i) \in Nat /\ Window(i) > 0
  BY <1>1, ThrottlesTyped DEF Typed
<1>4. DOMAIN passed[i] = 1..Len(passed[i]) /\ Len(passed[i]) \in Nat /\ \A j \in 1..Len(passed[i]) : passed[i][j] \in Nat
  BY <1>1
<1>5. passed[i] \in Seq(Nat)
  <2>1. passed[i] \in [1..Len(passed[i]) -> Nat]
    BY <1>1, <1>4
  <2> QED BY <1>4, <2>1
<1> QED BY <1>2, <1>3, <1>4, <1>5

LEMMA OnlyOne ==
    ASSUME Alone, NEW r \in Requests, req[r].at # "idle"
    PROVE  /\ \A q \in Requests \ {r} : req[q].at = "idle"
           /\ \A i : Storing(i) <=> req[r].at = "store" /\ req[r].i = i
BY DEF Alone, Storing

\* What is in the cache covers what passed for as long as neither is written.
LEMMA StoredStays ==
    ASSUME Typed, Typed', NEW i \in D, Stored(i), clock <= clock',
           cache'[Throttles[i].key] = cache[Throttles[i].key], passed'[i] = passed[i],
           History(i).array # 0 => \A j \in 1..History(i).len : heap'[History(i).array][j] = heap[History(i).array][j]
    PROVE  Stored(i)'
<1>1. History(i)' = History(i)
  BY DEF History
<1> DEFINE s == History(i)
<1>2. ASSUME NEW j \in 1..s.len PROVE Elements(s.array)'[j] = Elements(s.array)[j]
  BY <1>1, <1>2 DEF Elements
<1>3. Cover(passed[i], Elements(s.array), s.len, Len(passed[i]), clock, Window(i))
  BY DEF Stored, Covered
<1>4. Cover(passed[i], Elements(s.array)', s.len, Len(passed[i]), clock, Window(i))
  BY <1>2, <1>3, CoverSame
<1>5. clock \in Nat /\ clock' \in Nat
  BY ThrottlesTyped DEF Typed
<1>6. Cover(passed[i], Elements(s.array)', s.len, Len(passed[i]), clock', Window(i))
  BY <1>4, <1>5, LogTyped, CoverLater
<1>7. Covered(i, History(i))'
  BY <1>1, <1>6 DEF Covered, Window
<1>8. \A j \in DOMAIN passed'[i] : passed'[i][j] + Window(i) <= cache'[Throttles[i].key].expires
  BY DEF Stored
<1> QED BY <1>7, <1>8 DEF Stored, Window

\* The order of the logs, when a request that was alone makes a step.
LEMMA OrderStays ==
    ASSUME Typed, Counts, NEW r \in Requests, Others(r), clock' = clock, passed' = passed,
           \A q \in Requests \ {r} : req[q].at = "idle",
           req'[r].at # "idle" =>
              /\ req'[r].i \in D
              /\ req'[r].now = clock \/ (req[r].at # "idle" /\ req'[r].now = req[r].now /\ req'[r].i = req[r].i)
    PROVE  Alone' /\ InOrder'
<1>1. Alone'
  BY DEF Others, Alone
<1>2. ASSUME NEW q \in Requests, req'[q].at # "idle"
      PROVE  req'[q].now <= clock' /\ \A j \in DOMAIN passed'[req'[q].i] : passed'[req'[q].i][j] <= req'[q].now
  <2>1. q = r
    BY <1>2 DEF Others
  <2>2. clock \in Nat
    BY ThrottlesTyped DEF Typed
  <2>3. CASE req'[r].now = clock
    BY <1>2, <2>1, <2>2, <2>3 DEF Counts, InOrder
  <2>4. CASE req[r].at # "idle" /\ req'[r].now = req[r].now /\ req'[r].i = req[r].i
    BY <2>1, <2>4 DEF Counts, InOrder
  <2> QED BY <1>2, <2>1, <2>3, <2>4
<1>3. \A i \in D : Sorted(passed'[i]) /\ \A j \in DOMAIN passed'[i] : passed'[i][j] <= clock'
  BY DEF Counts, InOrder
<1>4. InOrder'
  BY <1>2, <1>3 DEF InOrder
<1> QED BY <1>1, <1>4

LEMMA TrimsBy ==
    ASSUME NEW r \in Requests, NEW i, NEW log, NEW h, NEW s, NEW kept, NEW scan, NEW looked, NEW now,
           req'[r].i = i, passed'[i] = log, req'[r].slice = s, Elements(s.array)' = h,
           req'[r].kept = kept, req'[r].scan = scan, Looked(r)' = looked, req'[r].now = now,
           s = Nil \/ s = History(i)', Len(log) - s.len >= 0,
           Cover(log, h, kept, Len(log) - s.len + looked, clock', Window(i)),
           \A j \in 1..kept : now - h[j] < Window(i),
           \A j \in (scan + 1)..s.len : log[Len(log) - s.len + j] <= h[j],
           req'[r].at = "keep" => log[Len(log) - s.len + scan] <= req'[r].hand
    PROVE  Trims(r)'
<1>1. Elements(req[r].slice.array)' = h /\ History(req[r].i)' = History(i)' /\ Window(req[r].i)' = Window(i)
  BY DEF Elements, History, Window
<1>2. \A time : Recent(r, time)' <=> now - time < Window(i)
  BY <1>1 DEF Recent, Window
<1> QED BY <1>1, <1>2 DEF Trims

LEMMA TickS ==
    ASSUME InvA, InvA', Counts, Tick PROVE Counts'
<1>1. clock' = clock + 1 /\ UNCHANGED <<cache, heap, req, passed, promise, disturbed>> /\ clock \in Nat /\ clock' \in Nat
  BY ThrottlesTyped DEF Tick, InvA, Typed
<1>2. Alone' /\ \A i : Storing(i)' <=> Storing(i)
  BY <1>1 DEF Counts, Alone, Storing
<1>3. InOrder'
  <2>1. ASSUME NEW i \in D PROVE Sorted(passed'[i]) /\ \A j \in DOMAIN passed'[i] : passed'[i][j] <= clock'
    BY <1>1, LogTyped DEF Counts, InOrder, InvA
  <2>2. ASSUME NEW r \in Requests, req'[r].at # "idle"
        PROVE  req'[r].now <= clock' /\ \A j \in DOMAIN passed'[req'[r].i] : passed'[req'[r].i][j] <= req'[r].now
    <3>1. req[r].now \in Nat
      BY HeldBy, ThrottlesTyped DEF InvA, Locals
    <3> QED BY <1>1, <2>2, <3>1 DEF Counts, InOrder
  <2> QED BY <2>1, <2>2 DEF InOrder
<1>4. ASSUME NEW i \in D PROVE Storing(i)' \/ Stored(i)'
  BY <1>1, <1>2, StoredStays DEF Counts, InvA
<1>5. ASSUME NEW r \in Requests, req[r].at \in {"scan", "keep"} PROVE Trims(r)'
  <2> DEFINE i == req[r].i
             s == req[r].slice
             e == Len(passed[i]) - s.len + Looked(r)
  <2>1. Trims(r) /\ i \in D /\ s.len \in Nat /\ req[r].kept \in Nat /\ req[r].scan \in Nat
    BY <1>5, HeldBy DEF Counts, InvA, Locals, Slices
  <2>2. e \in 0..Len(passed[i])
    <3>1. Looked(r) \in 0..s.len
      BY <1>5, <2>1 DEF Looked, InvA, Progress
    <3>2. Len(passed[i]) - s.len >= 0 /\ Len(passed[i]) \in Nat
      BY <2>1, LogTyped DEF Trims, InvA
    <3> QED BY <2>1, <3>1, <3>2, SMTT(30)
  <2>3. Cover(passed[i], Elements(s.array), req[r].kept, e, clock', Window(i))
    BY <1>1, <2>1, <2>2, LogTyped, CoverLater DEF Trims, InvA
  <2> QED BY <1>1, <2>1, <2>3 DEF Trims, Looked, Elements, Recent, History, Window
<1>6. ASSUME NEW r \in Requests, req[r].at = "store" PROVE Covered(req[r].i, req[r].slice)'
  <2> DEFINE i == req[r].i
             s == req[r].slice
  <2>1. Covered(i, s) /\ i \in D /\ s.len \in Nat
    BY <1>6, HeldBy DEF Counts, InvA, Locals, Slices
  <2>2. Cover(passed[i], Elements(s.array), s.len, Len(passed[i]), clock', Window(i))
    BY <1>1, <2>1, LogTyped, CoverLater DEF Covered, InvA
  <2> QED BY <1>1, <2>2 DEF Covered, Elements, Window
<1> QED BY <1>1, <1>2, <1>3, <1>4, <1>5, <1>6 DEF Counts

LEMMA ArriveS ==
    ASSUME InvA, InvA', Counts, NEW r \in Requests, Arrive(r), disturbed' # "overlap" PROVE Counts'
<1>1. /\ Others(r) /\ UNCHANGED <<clock, cache, heap, passed>> /\ \A q \in Requests : req[q].at = "idle"
      /\ req'[r].at = "get" /\ req'[r].i = 1 /\ req'[r].now = clock
  BY ArriveStep
<1>2. Alone' /\ InOrder'
  BY <1>1, ThrottlesTyped, OrderStays DEF InvA
<1>3. ASSUME NEW i \in D PROVE Stored(i)'
  BY <1>1, StoredStays, LogTyped DEF Counts, InvA, Storing
<1>4. ASSUME NEW q \in Requests PROVE req'[q].at \in {"idle", "get"}
  BY <1>1 DEF Others
<1> QED BY <1>2, <1>3, <1>4 DEF Counts

LEMMA GetS ==
    ASSUME InvA, InvA', Counts, NEW r \in Requests, Get(r) PROVE Counts'
<1> DEFINE i == req[r].i
           L == Len(passed[i])
<1>1. /\ Others(r) /\ UNCHANGED <<clock, cache, heap, passed, promise, disturbed>>
      /\ req[r].at = "get" /\ req'[r].at = "scan" /\ req'[r].i = i
      /\ req'[r].now = req[r].now /\ req'[r].scan = 0 /\ req'[r].kept = 0
      /\ req'[r].slice = IF clock > cache[Throttles[i].key].expires THEN Nil ELSE History(i)
  BY GetStep
<1>2. i \in D /\ (\A q \in Requests \ {r} : req[q].at = "idle") /\ \A j : ~Storing(j)
  BY <1>1, HeldBy, OnlyOne DEF InvA, Counts
<1>3. Alone' /\ InOrder'
  BY <1>1, <1>2, OrderStays DEF InvA
<1>4. ASSUME NEW j \in D PROVE Stored(j)'
  BY <1>1, <1>2, StoredStays, LogTyped DEF Counts, InvA
<1>5. /\ L \in Nat /\ \A j \in 1..L : passed[i][j] \in Nat
      /\ Window(i) \in Nat /\ clock \in Nat /\ DOMAIN passed[i] = 1..L /\ History(i).len \in Nat
  BY <1>2, LogTyped DEF InvA
<1>6. Stored(i)
  BY <1>2 DEF Counts
<1> HIDE DEF L
<1>7. CASE clock > cache[Throttles[i].key].expires
  <2>1. ASSUME NEW j \in 1..L PROVE clock - passed[i][j] >= Window(i)
    <3>1. passed[i][j] + Window(i) <= cache[Throttles[i].key].expires /\ cache[Throttles[i].key].expires \in Int
      BY <1>2, <1>5, <1>6, ThrottlesTyped DEF Stored, InvA, Typed
    <3> QED BY <1>5, <1>7, <3>1, SMTT(30)
  <2>2. Cover(passed[i], <<>>, 0, L, clock, Window(i))
    BY <1>5, <2>1 DEF Cover
  <2>3. req'[r].slice = Nil /\ Nil.len = 0 /\ Nil.array = 0 /\ Looked(r)' = 0
    BY <1>1, <1>7 DEF Nil, Looked
  <2>4. Trims(r)'
    <3>1. Elements(Nil.array)' = <<>> /\ L - Nil.len + 0 = L /\ L - Nil.len >= 0
      BY <1>5, <2>3 DEF Elements
    <3>2. Cover(passed[i], <<>>, 0, L - Nil.len + 0, clock', Window(i))
      BY <1>1, <2>2, <3>1
    <3>3. /\ \A j \in 1..0 : req[r].now - <<>>[j] < Window(i)
          /\ \A j \in (0 + 1)..Nil.len : passed[i][L - Nil.len + j] <= <<>>[j]
      BY <2>3
    <3> QED BY <1>1, <2>3, <3>1, <3>2, <3>3, TrimsBy DEF L
  <2> QED BY <1>1, <1>2, <1>3, <1>4, <2>4 DEF Counts, Others
<1>8. CASE ~(clock > cache[Throttles[i].key].expires)
  <2>1. ASSUME NEW s, s = History(i), NEW h, h = Elements(s.array) PROVE Trims(r)'
    <3>1. req'[r].slice = s /\ Looked(r)' = 0 /\ s = History(i)' /\ Elements(s.array)' = h
      BY <1>1, <1>8, <2>1 DEF Looked, History, Elements
    <3>2. s.len \in Nat /\ s.len <= L /\ (\A j \in 1..s.len : passed[i][L - s.len + j] <= h[j])
          /\ \A j \in 1..(L - s.len) : clock - passed[i][j] >= Window(i)
      BY <1>5, <1>6, <2>1 DEF Stored, Covered, Cover, L
    <3>3. Cover(passed[i], h, 0, L - s.len + 0, clock, Window(i)) /\ L - s.len >= 0
      BY <1>5, <3>2 DEF Cover
    <3>4. /\ \A j \in 1..0 : req[r].now - h[j] < Window(i)
          /\ \A j \in (0 + 1)..s.len : passed[i][L - s.len + j] <= h[j]
      BY <3>2
    <3>5. clock' = clock /\ passed'[i] = passed[i] /\ req'[r].at # "keep"
      BY <1>1
    <3> QED BY <1>1, <3>1, <3>3, <3>4, <3>5, TrimsBy DEF L
  <2>2. Trims(r)'
    BY <2>1
  <2> QED BY <1>1, <1>2, <1>3, <1>4, <2>2 DEF Counts, Others
<1> QED BY <1>7, <1>8

\* What is known of a request that trims.
LEMMA Trimming ==
    ASSUME InvA, Counts, NEW r \in Requests, req[r].at \in {"scan", "keep"},
           NEW i, i = req[r].i, NEW s, s = req[r].slice, NEW h, h = Elements(s.array), NEW log, log = passed[i]
    PROVE  /\ i \in D /\ s \in Held(i) /\ s.len \in Nat /\ req[r].kept \in Nat /\ req[r].scan \in Nat
           /\ req[r].now \in Nat /\ req[r].now <= clock /\ req[r].kept <= Looked(r) /\ req[r].scan <= s.len
           /\ log \in Seq(Nat) /\ Len(log) \in Nat /\ Sorted(log) /\ Window(i) \in Nat /\ clock \in Nat
           /\ s = Nil \/ s = History(i)
           /\ Len(log) - s.len \in Nat
           /\ Cover(log, h, req[r].kept, Len(log) - s.len + Looked(r), clock, Window(i))
           /\ \A j \in 1..s.len : h[j] \in Nat
           /\ \A j \in 1..req[r].kept : req[r].now - h[j] < Window(i)
           /\ \A j \in (req[r].scan + 1)..s.len : log[Len(log) - s.len + j] <= h[j]
           /\ req[r].at = "keep" => log[Len(log) - s.len + req[r].scan] <= req[r].hand
           /\ (\A q \in Requests \ {r} : req[q].at = "idle") /\ \A j : ~Storing(j)
<1>1. i \in D /\ s \in Held(i) /\ req[r] \in Locals
  BY HeldBy DEF InvA
<1>2. s.len \in Nat /\ req[r].kept \in Nat /\ req[r].scan \in Nat /\ req[r].now \in Nat
  BY <1>1, HeldTyped, ThrottlesTyped DEF InvA, Locals
<1>3. Trims(r) /\ Sorted(log) /\ req[r].now <= clock
  BY <1>1 DEF Counts, InOrder
<1>4. /\ s = Nil \/ s = History(i)
      /\ Len(log) - s.len >= 0
      /\ Cover(log, h, req[r].kept, Len(log) - s.len + Looked(r), clock, Window(i))
      /\ \A j \in 1..req[r].kept : Recent(r, h[j])
      /\ \A j \in (req[r].scan + 1)..s.len : log[Len(log) - s.len + j] <= h[j]
      /\ req[r].at = "keep" => log[Len(log) - s.len + req[r].scan] <= req[r].hand
  BY <1>3 DEF Trims
<1>5. log \in Seq(Nat) /\ Len(log) \in Nat /\ Window(i) \in Nat /\ clock \in Nat
  BY <1>1, LogTyped DEF InvA
<1>6. \A j \in 1..s.len : h[j] \in Nat
  BY <1>1, InSlice, ThrottlesTyped DEF InvA, AllGood
<1>7. req[r].kept <= Looked(r) /\ req[r].scan <= s.len
  BY <1>2 DEF Looked, InvA, Progress
<1>8. \A j \in 1..req[r].kept : req[r].now - h[j] < Window(i)
  BY <1>4 DEF Recent
<1>9. (\A q \in Requests \ {r} : req[q].at = "idle") /\ \A j : ~Storing(j)
  BY OnlyOne DEF Counts
<1>10. Len(log) - s.len \in Nat
  BY <1>2, <1>4, <1>5
<1> QED BY <1>1, <1>2, <1>3, <1>4, <1>5, <1>6, <1>7, <1>8, <1>9, <1>10

\* The scan looks at the next time of a history.
LEMMA CoverScan ==
    ASSUME NEW log \in Seq(Nat), Sorted(log), NEW h, NEW len \in Nat, NEW n \in Nat, NEW k \in Nat, NEW now \in Nat,
           NEW clk \in Nat, NEW w \in Nat, now <= clk, n < len, k <= n, Len(log) - len \in Nat,
           Cover(log, h, k, Len(log) - len + n, clk, w), \A j \in 1..len : h[j] \in Nat,
           \A j \in 1..k : now - h[j] < w, \A j \in (n + 1)..len : log[Len(log) - len + j] <= h[j]
    PROVE  /\ log[Len(log) - len + (n + 1)] <= h[n + 1]
           /\ \A j \in (n + 1 + 1)..len : log[Len(log) - len + j] <= h[j]
           /\ ~(now - h[n + 1] < w) => Cover(log, h, k, Len(log) - len + (n + 1), clk, w)
<1> DEFINE e == Len(log) - len + n
<1>1. /\ e \in 0..Len(log) /\ e < Len(log) /\ e + 1 = Len(log) - len + (n + 1)
      /\ n + 1 \in 1..len /\ n + 1 \in (n + 1)..len
  OBVIOUS
<1> HIDE DEF e
<1>2. e + 1 \in 1..Len(log)
  BY <1>1
<1>3. log[e + 1] <= h[n + 1] /\ log[e + 1] \in Nat /\ h[n + 1] \in Nat
  <2>1. log[Len(log) - len + (n + 1)] <= h[n + 1]
    BY <1>1, Zenon
  <2>2. log[e + 1] \in Nat
    BY <1>2
  <2>3. h[n + 1] \in Nat
    BY <1>1, Zenon
  <2> QED BY <1>1, <2>1, <2>2, <2>3, Zenon
<1>4. ASSUME ~(now - h[n + 1] < w) PROVE Cover(log, h, k, e + 1, clk, w)
  <2>1. now - log[e + 1] >= w
    <3>1. \A a, b \in Nat : a <= b /\ ~(now - b < w) => now - a >= w
      OBVIOUS
    <3> QED BY <1>3, <1>4, <3>1, Zenon
  <2>2. \A j \in 1..k : h[j] \in Nat /\ now - h[j] < w
    OBVIOUS
  <2>3. Cover(log, h, k, e, clk, w)
    BY DEF e
  <2> QED BY <1>1, <2>1, <2>2, <2>3, CoverDrop
<1>5. \A j \in (n + 1 + 1)..len : log[Len(log) - len + j] <= h[j]
  OBVIOUS
<1> QED BY <1>1, <1>3, <1>4, <1>5

LEMMA ScanS ==
    ASSUME InvA, InvA', Counts, NEW r \in Requests, Scan(r) PROVE Counts'
<1> SUFFICES ASSUME NEW i, i = req[r].i, NEW s, s = req[r].slice, NEW h, h = Elements(s.array), NEW log, log = passed[i],
                    NEW n, n = req[r].scan, NEW k, k = req[r].kept, NEW now, now = req[r].now, NEW w, w = Window(i)
             PROVE  Counts'
  OBVIOUS
<1>1. /\ Others(r) /\ UNCHANGED <<clock, cache, heap, passed, promise, disturbed>>
      /\ req[r].at = "scan" /\ n < s.len /\ req'[r].at \in {"scan", "keep"}
      /\ req'[r].i = i /\ req'[r].slice = s
      /\ req'[r].now = now /\ req'[r].scan = n + 1 /\ req'[r].kept = k
      /\ \/ Recent(r, h[n + 1]) /\ req'[r].at = "keep" /\ req'[r].hand = h[n + 1]
         \/ ~Recent(r, h[n + 1]) /\ req'[r].at = "scan"
  BY ScanStep
<1>2. /\ i \in D /\ s.len \in Nat /\ k \in Nat /\ n \in Nat /\ now \in Nat /\ now <= clock /\ k <= Looked(r)
      /\ log \in Seq(Nat) /\ Len(log) \in Nat /\ w \in Nat /\ clock \in Nat /\ Len(log) - s.len \in Nat
  BY <1>1, Trimming
<1>3. Looked(r) = n
  BY <1>1 DEF Looked
<1>4. Sorted(log) /\ (s = Nil \/ s = History(i))
  BY <1>1, Trimming
<1>5. Cover(log, h, k, Len(log) - s.len + n, clock, w)
  <2>1. Cover(log, h, k, Len(log) - s.len + Looked(r), clock, Window(i))
    BY <1>1, Trimming, SMTT(30)
  <2> QED BY <1>3, <2>1
<1>6. \A j \in 1..s.len : h[j] \in Nat
  BY <1>1, Trimming
<1>7. \A j \in 1..k : now - h[j] < w
  BY <1>1, Trimming
<1>8. \A j \in (n + 1)..s.len : log[Len(log) - s.len + j] <= h[j]
  BY <1>1, Trimming
<1>9. (\A q \in Requests \ {r} : req[q].at = "idle") /\ \A j : ~Storing(j)
  BY <1>1, OnlyOne DEF Counts
<1>10. Alone' /\ InOrder'
  BY <1>1, <1>2, <1>9, OrderStays DEF InvA
<1>11. ASSUME NEW j \in D PROVE Stored(j)'
  BY <1>1, <1>9, StoredStays, LogTyped DEF Counts, InvA
<1>13. /\ log[Len(log) - s.len + (n + 1)] <= h[n + 1]
       /\ \A j \in (n + 1 + 1)..s.len : log[Len(log) - s.len + j] <= h[j]
       /\ ~(now - h[n + 1] < w) => Cover(log, h, k, Len(log) - s.len + (n + 1), clock, w)
  <2>1. n < s.len /\ k <= n /\ Len(log) - s.len \in Nat
    BY <1>1, <1>2, <1>3
  <2> QED BY <1>2, <1>4, <1>5, <1>6, <1>7, <1>8, <2>1, CoverScan, ZenonT(40)
<1>16. Recent(r, h[n + 1]) <=> now - h[n + 1] < w
  BY DEF Recent
<1>17. Trims(r)'
  <2>0. Len(log) - s.len >= 0 /\ Elements(s.array)' = h /\ (s = Nil \/ s = History(i)')
    BY <1>1, <1>2, <1>4 DEF Elements, History
  <2>1. CASE Recent(r, h[n + 1])
    <3>1. req'[r].at = "keep" /\ req'[r].hand = h[n + 1] /\ Looked(r)' = n
      BY <1>1, <1>2, <2>1 DEF Looked
    <3>2. log[Len(log) - s.len + (n + 1)] <= req'[r].hand /\ Cover(log, h, k, Len(log) - s.len + n, clock', w)
      BY <1>1, <1>5, <1>13, <3>1
    <3> QED BY <1>1, <1>7, <1>13, <2>0, <3>1, <3>2, TrimsBy
  <2>2. CASE ~Recent(r, h[n + 1])
    <3>1. Looked(r)' = n + 1 /\ req'[r].at = "scan"
      BY <1>1, <2>2 DEF Looked
    <3>2. Cover(log, h, k, Len(log) - s.len + (n + 1), clock', w)
      BY <1>1, <1>13, <1>16, <2>2
    <3> QED BY <1>1, <1>7, <1>13, <2>0, <3>1, <3>2, TrimsBy, SMTT(60)
  <2> QED BY <2>1, <2>2
<1> QED BY <1>1, <1>9, <1>10, <1>11, <1>17 DEF Counts, Others

LEMMA RefuseS ==
    ASSUME InvA, InvA', Counts, NEW r \in Requests, Refuse(r) PROVE Counts'
<1> SUFFICES ASSUME NEW i, i = req[r].i, NEW s, s = req[r].slice, NEW h, h = Elements(s.array), NEW log, log = passed[i]
             PROVE  Counts'
  OBVIOUS
<1>1. /\ Others(r) /\ UNCHANGED <<clock, cache, heap, passed, promise, disturbed>>
      /\ req[r].at = "scan" /\ req[r].scan = s.len
      /\ req'[r].at = "store" /\ req'[r].i = i
      /\ req'[r].now = req[r].now /\ req'[r].slice.array = s.array /\ req'[r].slice.len = req[r].kept
  BY RefuseStep
<1>2. /\ i \in D /\ s.len \in Nat /\ Len(log) \in Nat
      /\ Cover(log, h, req[r].kept, Len(log) - s.len + s.len, clock, Window(i))
      /\ (\A q \in Requests \ {r} : req[q].at = "idle") /\ \A j : ~Storing(j)
  <2>1. Looked(r) = s.len
    BY <1>1 DEF Looked
  <2> QED BY <1>1, <2>1, Trimming
<1>3. Alone' /\ InOrder'
  BY <1>1, <1>2, OrderStays DEF InvA
<1>4. ASSUME NEW j \in D PROVE Stored(j)'
  BY <1>1, <1>2, StoredStays, LogTyped DEF Counts, InvA
<1>5. Covered(req[r].i, req[r].slice)'
  <2>1. Elements(req[r].slice.array)' = h /\ passed'[i] = log /\ Len(log) - s.len + s.len = Len(log)
    BY <1>1, <1>2 DEF Elements
  <2> QED BY <1>1, <1>2, <2>1 DEF Covered, Window
<1> QED BY <1>1, <1>2, <1>3, <1>4, <1>5 DEF Counts, Others

LEMMA TellS ==
    ASSUME InvA, InvA', Counts, NEW r \in Requests, Tell(r) PROVE Counts'
<1>1. /\ Others(r) /\ UNCHANGED <<clock, cache, passed, disturbed>> /\ heap' = Freed(heap)
      /\ req[r].at = "scan" /\ req'[r].at = "idle"
  BY TellStep
<1>2. (\A q \in Requests \ {r} : req[q].at = "idle") /\ \A j : ~Storing(j)
  BY <1>1, OnlyOne DEF Counts
<1>3. Alone' /\ InOrder'
  BY <1>1, <1>2, OrderStays DEF InvA
<1>4. ASSUME NEW j \in D PROVE Stored(j)'
  <2>1. History(j)' = History(j) /\ History(j)' \in Held(j)'
    BY <1>1 DEF History, Held
  <2>2. History(j).array # 0 => heap'[History(j).array] = heap[History(j).array]
    <3>1. ASSUME NEW s \in Held(j)', s.array # 0 PROVE heap'[s.array] = heap[s.array]
      BY <1>1, <3>1, ElementsStay DEF Elements
    <3> QED BY <2>1, <3>1
  <2> QED BY <1>1, <1>2, <2>2, StoredStays, LogTyped DEF Counts, InvA
<1> QED BY <1>1, <1>2, <1>3, <1>4 DEF Counts, Others

\* The trim writes a time that it keeps.
LEMMA CoverWrite ==
    ASSUME NEW log \in Seq(Nat), NEW h, NEW g, NEW len \in Nat, NEW n \in Nat, NEW k \in Nat, NEW now, NEW clk, NEW w,
           NEW hand, n <= len, k < n, Len(log) - len \in Nat,
           Cover(log, h, k, Len(log) - len + (n - 1), clk, w), log[Len(log) - len + n] <= hand, now - hand < w,
           \A j \in 1..k : now - h[j] < w, \A j \in (n + 1)..len : log[Len(log) - len + j] <= h[j],
           \A j \in 1..len : g[j] = IF j = k + 1 THEN hand ELSE h[j]
    PROVE  /\ Cover(log, g, k + 1, Len(log) - len + n, clk, w)
           /\ \A j \in 1..(k + 1) : now - g[j] < w
           /\ \A j \in (n + 1)..len : log[Len(log) - len + j] <= g[j]
<1> DEFINE e == Len(log) - len + (n - 1)
<1>1. e \in 0..Len(log) /\ e + 1 = Len(log) - len + n /\ k + 1 \in 1..len
  OBVIOUS
<1>2. g[k + 1] = hand /\ \A j \in 1..k : g[j] = h[j]
  <2>1. \A j \in 1..k : j \in 1..len /\ j # k + 1
    OBVIOUS
  <2> QED BY <1>1, <2>1, Zenon
<1>3. Cover(log, h, k, e, clk, w)
  OBVIOUS
<1> HIDE DEF e
<1>4. log[e + 1] <= g[k + 1]
  BY <1>1, <1>2
<1>5. Cover(log, g, k + 1, e + 1, clk, w)
  BY <1>1, <1>2, <1>3, <1>4, CoverKeep
<1>6. ASSUME NEW j \in 1..(k + 1) PROVE now - g[j] < w
  <2>1. j = k + 1 \/ j \in 1..k
    OBVIOUS
  <2> QED BY <1>2, <2>1, Zenon
<1>7. ASSUME NEW j \in (n + 1)..len PROVE log[Len(log) - len + j] <= g[j]
  <2>1. j \in 1..len /\ j # k + 1
    OBVIOUS
  <2> QED BY <2>1, Zenon
<1> QED BY <1>1, <1>5, <1>6, <1>7

LEMMA KeepS ==
    ASSUME InvA, InvA', Counts, NEW r \in Requests, Keep(r) PROVE Counts'
<1>a. SUFFICES ASSUME NEW i, i = req[r].i, NEW s, s = req[r].slice, NEW h, h = Elements(s.array), NEW log, log = passed[i],
                    NEW n, n = req[r].scan, NEW k, k = req[r].kept, NEW now, now = req[r].now, NEW w, w = Window(i),
                    NEW hand, hand = req[r].hand, NEW g, g = Elements(s.array)'
             PROVE  Counts'
  OBVIOUS
<1>1. /\ Others(r) /\ UNCHANGED <<clock, cache, passed, promise, disturbed>>
      /\ req[r].at = "keep" /\ req'[r].at = "scan" /\ req'[r].i = i /\ req'[r].slice = s /\ req'[r].now = now
      /\ req'[r].scan = n /\ req'[r].kept = k + 1
      /\ s.array \in Arrays /\ (\A a \in Arrays \ {s.array} : heap'[a] = heap[a])
      /\ \A j \in 1..s.len : heap'[s.array][j] = IF j = k + 1 THEN hand ELSE heap[s.array][j]
  BY <1>a, KeepStep
<1>0. s.len \in Nat /\ k \in Nat /\ n \in Nat /\ n <= s.len
  BY <1>a, <1>1, Trimming
<1>2. /\ i \in D /\ s \in Held(i) /\ now \in Nat /\ now <= clock
      /\ log \in Seq(Nat) /\ Len(log) \in Nat /\ w \in Nat /\ clock \in Nat /\ Len(log) - s.len \in Nat
  BY <1>a, <1>1, Trimming
<1>3. k < n /\ now - hand < w /\ hand \in Nat
  BY <1>a, <1>1, HeldBy, ThrottlesTyped DEF InvA, Progress, Recent, Locals
<1>4. Sorted(log) /\ (s = Nil \/ s = History(i))
  BY <1>a, <1>1, Trimming
<1>5. Cover(log, h, k, Len(log) - s.len + (n - 1), clock, w)
  <2>1. Cover(log, h, k, Len(log) - s.len + Looked(r), clock, Window(i))
    BY <1>a, <1>1, Trimming
  <2>2. Looked(r) = n - 1
    BY <1>a, <1>1 DEF Looked
  <2> QED BY <1>a, <2>1, <2>2
<1>6. log[Len(log) - s.len + n] <= hand
  BY <1>a, <1>1, Trimming
<1>7. \A j \in 1..k : now - h[j] < w
  BY <1>a, <1>1, Trimming
<1>8. \A j \in (n + 1)..s.len : log[Len(log) - s.len + j] <= h[j]
  BY <1>a, <1>1, Trimming
<1>9. (\A q \in Requests \ {r} : req[q].at = "idle") /\ \A j : ~Storing(j)
  BY <1>a, <1>1, OnlyOne DEF Counts
<1>10. Alone' /\ InOrder'
  BY <1>a, <1>1, <1>2, <1>9, OrderStays DEF InvA
<1>11. s.array # 0 /\ h = heap[s.array] /\ g = heap'[s.array]
  BY <1>a, <1>1, ThrottlesTyped DEF Elements
<1>12. \A j \in 1..s.len : g[j] = IF j = k + 1 THEN hand ELSE h[j]
  BY <1>a, <1>1, <1>11
<1>13. /\ Cover(log, g, k + 1, Len(log) - s.len + n, clock, w)
       /\ \A j \in 1..(k + 1) : now - g[j] < w
       /\ \A j \in (n + 1)..s.len : log[Len(log) - s.len + j] <= g[j]
  BY <1>0, <1>2, <1>3, <1>5, <1>6, <1>7, <1>8, <1>12, CoverWrite, ZenonT(40)
<1>14. Trims(r)'
  <2>1. Len(log) - s.len >= 0 /\ (s = Nil \/ s = History(i)') /\ Looked(r)' = n /\ clock' = clock /\ passed'[i] = log
    BY <1>a, <1>1, <1>2, <1>4 DEF Looked, History
  <2> QED BY <1>a, <1>1, <1>13, <2>1, TrimsBy
<1>15. s = History(i)
  BY <1>a, <1>4, <1>11 DEF Nil
<1>16. Stored(i)'
  <2>1. Stored(i)
    BY <1>a, <1>2, <1>9 DEF Counts
  <2>2. Cover(log, h, s.len, Len(log), clock, w)
    BY <1>a, <1>15, <2>1 DEF Stored, Covered
  <2>3. k + 1 \in 1..s.len /\ n \in (k + 1)..s.len
    BY <1>0, <1>3
  <2>4. Cover(log, g, s.len, Len(log), clock, w)
    BY <1>0, <1>2, <1>3, <1>4, <1>6, <1>12, <2>2, <2>3, CoverMove
  <2>5. History(i)' = s /\ Elements(History(i).array)' = g
    <3>1. History(i)' = s
      BY <1>a, <1>1, <1>15 DEF History
    <3> QED BY <1>a, <3>1 DEF Elements
  <2>6. Covered(i, History(i))'
    BY <1>a, <1>1, <2>4, <2>5 DEF Covered, Window
  <2> QED BY <1>a, <1>1, <2>1, <2>6 DEF Stored, Window
<1>17. ASSUME NEW j \in D, j # i PROVE Stored(j)'
  <2>1. History(j) \in Held(j)
    BY <1>a DEF Held
  <2>2. History(j).array # 0 => History(j).array \in Arrays /\ History(j).array # s.array
    BY <1>a, <1>2, <1>17, <2>1, HeldTyped DEF InvA, Apart
  <2>3. History(j).array # 0 => heap'[History(j).array] = heap[History(j).array]
    BY <1>a, <1>1, <2>2
  <2> QED BY <1>a, <1>1, <1>9, <2>3, StoredStays, LogTyped DEF Counts, InvA
<1> QED BY <1>a, <1>1, <1>9, <1>10, <1>14, <1>16, <1>17 DEF Counts, Others

LEMMA StoreS ==
    ASSUME InvA, InvA', Counts, NEW r \in Requests, Store(r) PROVE Counts'
<1>a. SUFFICES ASSUME NEW i, i = req[r].i, NEW s, s = req[r].slice PROVE Counts'
  OBVIOUS
<1>1. /\ Others(r) /\ UNCHANGED <<clock, passed>> /\ heap' = Freed(heap) /\ req[r].at = "store"
      /\ cache'[Throttles[i].key].slice = s /\ cache'[Throttles[i].key].expires = clock + Window(i)
      /\ \A j \in D \ {i} : cache'[Throttles[j].key] = cache[Throttles[j].key]
      /\ req'[r].at \in {"idle", "get"}
      /\ req'[r].at = "get" => req'[r].now = clock
  BY <1>a, StoreStep
<1>2. (\A q \in Requests \ {r} : req[q].at = "idle") /\ (\A j : Storing(j) <=> j = i) /\ i \in D
  BY <1>a, <1>1, OnlyOne, HeldBy DEF Counts, InvA
<1>3. Alone' /\ InOrder'
  <2>1. req'[r].i \in D
    BY <1>a DEF InvA, Typed, Locals
  <2> QED BY <1>1, <1>2, <2>1, OrderStays DEF InvA
<1>4. ASSUME NEW j \in D, NEW t \in Held(j)', t.array # 0 PROVE heap'[t.array] = heap[t.array]
  BY <1>a, <1>1, <1>4, ElementsStay DEF Elements
<1>5. Stored(i)'
  <2>1. Covered(i, s)
    BY <1>a, <1>1 DEF Counts
  <2>2. History(i)' = s /\ History(i)' \in Held(i)'
    BY <1>a, <1>1 DEF History, Held
  <2>3. Elements(s.array)' = Elements(s.array)
    BY <1>a, <1>2, <1>4, <2>2 DEF Elements
  <2>4. Elements(History(i).array)' = Elements(s.array)
    BY <1>a, <2>2, <2>3 DEF Elements
  <2>5. Covered(i, History(i))'
    BY <1>a, <1>1, <2>1, <2>2, <2>4 DEF Covered, Window
  <2>6. \A j \in DOMAIN passed[i] : passed[i][j] + Window(i) <= clock + Window(i)
    <3>1. \A j \in DOMAIN passed[i] : passed[i][j] <= clock /\ passed[i][j] \in Nat
      BY <1>a, <1>2, LogTyped DEF Counts, InOrder, InvA
    <3>2. clock \in Nat /\ Window(i) \in Nat
      BY <1>a, <1>2, LogTyped DEF InvA
    <3> QED BY <1>a, <3>1, <3>2
  <2> QED BY <1>a, <1>1, <2>5, <2>6 DEF Stored, Window
<1>6. ASSUME NEW j \in D, j # i PROVE Stored(j)'
  <2>1. History(j)' = History(j) /\ History(j)' \in Held(j)'
    BY <1>a, <1>1, <1>6 DEF History, Held
  <2>2. History(j).array # 0 => heap'[History(j).array] = heap[History(j).array]
    BY <1>a, <1>4, <2>1
  <2>3. Stored(j) /\ clock <= clock'
    BY <1>a, <1>1, <1>2, <1>6, LogTyped DEF Counts, InvA
  <2>4. cache'[Throttles[j].key] = cache[Throttles[j].key] /\ passed'[j] = passed[j]
    BY <1>a, <1>1, <1>6
  <2> QED BY <2>2, <2>3, <2>4, StoredStays DEF InvA
<1> QED BY <1>a, <1>1, <1>2, <1>3, <1>5, <1>6 DEF Counts, Others

LEMMA SortedPass ==
    ASSUME NEW log \in Seq(Nat), Sorted(log), NEW time \in Nat, \A j \in DOMAIN log : log[j] <= time,
           NEW clk \in Nat, time <= clk
    PROVE  /\ Sorted(Append(log, time))
           /\ \A j \in DOMAIN Append(log, time) : Append(log, time)[j] <= time /\ Append(log, time)[j] <= clk
<1> DEFINE longer == Append(log, time)
           L == Len(log)
<1>1. /\ DOMAIN longer = 1..(L + 1) /\ longer[L + 1] = time /\ L \in Nat /\ DOMAIN log = 1..L
      /\ \A j \in 1..L : longer[j] = log[j] /\ log[j] \in Nat
  OBVIOUS
<1> HIDE DEF longer, L
<1>2. ASSUME NEW j \in DOMAIN longer PROVE longer[j] \in Nat /\ longer[j] <= time /\ longer[j] <= clk
  <2>1. j \in 1..L \/ j = L + 1
    BY <1>1
  <2>2. CASE j \in 1..L
    <3>1. longer[j] = log[j] /\ log[j] \in Nat /\ log[j] <= time
      BY <1>1, <2>2
    <3> QED BY <3>1
  <2>3. CASE j = L + 1
    BY <1>1, <2>3
  <2> QED BY <2>1, <2>2, <2>3
<1>3. ASSUME NEW j \in DOMAIN longer, NEW m \in DOMAIN longer, j <= m PROVE longer[j] <= longer[m]
  <2>1. CASE m = L + 1
    BY <1>1, <1>2, <2>1
  <2>2. CASE m # L + 1
    <3>1. j \in 1..L /\ m \in 1..L
      BY <1>1, <1>3, <2>2
    <3>2. log[j] <= log[m]
      BY <1>1, <1>3, <3>1 DEF Sorted
    <3> QED BY <1>1, <3>1, <3>2
  <2> QED BY <2>1, <2>2
<1> QED BY <1>2, <1>3 DEF longer, Sorted

LEMMA GrantS ==
    ASSUME InvA, InvA', Counts, NEW r \in Requests, Grant(r), disturbed # "overlap" PROVE Counts'
<1>a. SUFFICES ASSUME NEW i, i = req[r].i, NEW s, s = req[r].slice, NEW h, h = Elements(s.array), NEW log, log = passed[i],
                    NEW k, k = req[r].kept, NEW now, now = req[r].now, NEW w, w = Window(i),
                    NEW t, t = req'[r].slice, NEW g, g = heap'[t.array]
             PROVE  Counts'
  OBVIOUS
<1>1. /\ Others(r) /\ UNCHANGED <<clock, cache, disturbed>>
      /\ req[r].at = "scan" /\ req[r].scan = s.len
      /\ req'[r].at = "store" /\ req'[r].i = i /\ req'[r].now = now /\ t.len = k + 1
      /\ \A j \in 1..k : g[j] = h[j]
      /\ g[k + 1] = now /\ t.array # 0
      /\ \A j \in D \ {i} : History(j).array # 0 => heap'[History(j).array] = heap[History(j).array]
  BY <1>a, GrantEffect
<1>2. passed'[i] = Append(log, now) /\ \A j \in D \ {i} : passed'[j] = passed[j]
  BY <1>a, GrantPasses DEF Noted, InvA
<1>3. /\ i \in D /\ s.len \in Nat /\ k \in Nat /\ now \in Nat /\ now <= clock
      /\ log \in Seq(Nat) /\ Len(log) \in Nat /\ w \in Nat /\ clock \in Nat
  BY <1>a, <1>1, Trimming
<1>4. Sorted(log) /\ (\A q \in Requests \ {r} : req[q].at = "idle") /\ \A j : ~Storing(j)
  BY <1>a, <1>1, Trimming
<1>5. Cover(log, h, k, Len(log), clock, w)
  <2>1. Cover(log, h, k, Len(log) - s.len + Looked(r), clock, Window(i))
    BY <1>a, <1>1, Trimming
  <2>2. Looked(r) = s.len /\ Len(log) - s.len + s.len = Len(log)
    BY <1>a, <1>1, <1>3 DEF Looked
  <2> QED BY <1>a, <2>1, <2>2
<1>6. Covered(req[r].i, req[r].slice)'
  <2>1. Cover(Append(log, now), g, k + 1, Len(log) + 1, clock, w)
    <3>1. (\A j \in 1..k : g[j] = h[j]) /\ g[k + 1] = now
      BY <1>a, <1>1
    <3> QED BY <1>3, <1>5, <3>1, CoverPass
  <2>2. Len(Append(log, now)) = Len(log) + 1
    BY <1>a, <1>3
  <2>3. Elements(req[r].slice.array)' = g
    BY <1>a, <1>1 DEF Elements
  <2> QED BY <1>a, <1>1, <1>2, <2>1, <2>2, <2>3 DEF Covered, Window
<1>7. \A j \in DOMAIN log : log[j] <= now
  BY <1>a, <1>1 DEF Counts, InOrder
<1>8. /\ Sorted(passed'[i]) /\ \A j \in DOMAIN passed'[i] : passed'[i][j] <= now /\ passed'[i][j] <= clock
  <2>1. /\ Sorted(Append(log, now))
        /\ \A j \in DOMAIN Append(log, now) : Append(log, now)[j] <= now /\ Append(log, now)[j] <= clock
    BY <1>3, <1>4, <1>7, SortedPass
  <2> QED BY <1>a, <1>2, <2>1
<1>9. Alone'
  BY <1>a, <1>1, <1>4 DEF Others, Alone
<1>10. InOrder'
  <2>1. ASSUME NEW j \in D PROVE Sorted(passed'[j]) /\ \A m \in DOMAIN passed'[j] : passed'[j][m] <= clock'
    BY <1>a, <1>1, <1>2, <1>8, ZenonT(40) DEF Counts, InOrder
  <2>2. ASSUME NEW q \in Requests, req'[q].at # "idle"
        PROVE  req'[q].now <= clock' /\ \A m \in DOMAIN passed'[req'[q].i] : passed'[req'[q].i][m] <= req'[q].now
    <3>1. q = r
      BY <1>a, <1>4, <2>2, <1>1 DEF Others
    <3> QED BY <1>a, <1>1, <1>3, <1>8, <3>1
  <2> QED BY <1>a, <2>1, <2>2 DEF InOrder
<1>11. ASSUME NEW j \in D PROVE Storing(j)' \/ Stored(j)'
  <2>1. CASE j = i
    BY <1>a, <1>1, <2>1 DEF Storing
  <2>2. CASE j # i
    BY <1>a, <1>1, <1>2, <1>4, <2>2, StoredStays, LogTyped, SMTT(60) DEF Counts, InvA
  <2> QED BY <1>a, <2>1, <2>2
<1> QED BY <1>a, <1>1, <1>4, <1>6, <1>9, <1>10, <1>11 DEF Counts, Others

LEMMA InitS ==
    ASSUME Init PROVE Counts
<1>1. InvA
  BY InitA
<1>2. \A r \in Requests : req[r].at = "idle"
  BY DEF Init, Idle
<1>3. \A i \in D : passed[i] = <<>> /\ History(i) = Nil
  BY ThrottlesTyped DEF Init, History, D
<1>4. Alone /\ InOrder
  BY <1>2, <1>3 DEF Alone, InOrder, Sorted
<1>5. ASSUME NEW i \in D PROVE Stored(i)
  <2>1. Cover(<<>>, <<>>, 0, 0, clock, Window(i))
    BY DEF Cover
  <2> QED BY <1>3, <2>1 DEF Stored, Covered, Nil, Elements
<1> QED BY <1>2, <1>4, <1>5 DEF Counts

LEMMA InvSHolds == Spec => []InvS
<1>1. InvA /\ InvA' /\ InvS /\ [Next]_vars => InvS'
  <2> SUFFICES ASSUME InvA, InvA', InvS, [Next]_vars, disturbed' # "overlap" PROVE Counts'
    BY DEF InvS
  <2>1. ASSUME NEW r \in Requests, Arrive(r) PROVE Counts'
    <3>1. disturbed # "overlap"
      BY <2>1, ArriveStep
    <3> QED BY <2>1, <3>1, ArriveS DEF InvS
  <2>2. ASSUME NEW r \in Requests, Get(r) \/ Scan(r) \/ Keep(r) \/ Refuse(r) \/ Tell(r) PROVE Counts'
    <3>1. disturbed' = disturbed
      BY <2>2 DEF Get, Scan, Keep, Refuse, Tell
    <3> QED BY <2>2, <3>1, GetS, ScanS, KeepS, RefuseS, TellS DEF InvS
  <2>3. ASSUME NEW r \in Requests, Grant(r) PROVE Counts'
    <3>1. disturbed' = disturbed
      BY <2>3, GrantEffect
    <3> QED BY <2>3, <3>1, GrantS DEF InvS
  <2>4. ASSUME NEW r \in Requests, Store(r) PROVE Counts'
    <3>1. disturbed # "overlap"
      BY <2>4 DEF Store
    <3> QED BY <2>4, <3>1, StoreS DEF InvS
  <2>5. CASE Tick
    BY <2>5, TickS DEF InvS, Tick
  <2>6. CASE UNCHANGED vars
    BY <2>6, SMTT(60) DEF vars, InvS, Counts, Alone, InOrder, Storing, Stored, Covered, Trims, Looked, Recent, Elements, History, Window
  <2> QED BY <2>1, <2>2, <2>3, <2>4, <2>5, <2>6 DEF Next
<1>2. Init => InvS
  BY InitS DEF InvS
<1> QED BY <1>1, <1>2, InvAHolds, PTL DEF Spec

\* A client that sends one request at a time is let pass no more often than the limit
\* within a window (throttles.go:125), whatever the trims in between do to the array
\* that the cache holds, and although the clock moves while they run.
THEOREM NeverOverRateAlways == Spec => []NeverOverRate
<1>1. InvA /\ InvS => NeverOverRate
  <2> SUFFICES ASSUME InvA, Counts, NEW i \in D
               PROVE  Cardinality({j \in DOMAIN passed[i] : clock - passed[i][j] < Throttles[i].window}) <= Throttles[i].limit
    BY DEF NeverOverRate, InvS, D
  <2>1. PICK s \in Held(i) : Covered(i, s)
    <3>1. CASE Storing(i)
      BY <3>1, HeldBy DEF Counts, Storing, InvA
    <3>2. CASE ~Storing(i)
      BY <3>2 DEF Counts, Stored, Held
    <3> QED BY <3>1, <3>2
  <2>2. s.len \in Nat /\ s.len <= Limit(i) /\ Limit(i) \in Nat
    BY HeldTyped, ThrottlesTyped DEF InvA, AllGood, Good
  <2>3. Cardinality({j \in DOMAIN passed[i] : clock - passed[i][j] < Window(i)}) <= Limit(i)
    BY <2>1, <2>2, LogTyped, CoverRate DEF InvA, Covered
  <2> QED BY <2>3 DEF Window, Limit
<1> QED BY <1>1, InvAHolds, InvSHolds, PTL

-----------------------------------------------------------------------------
(* While nothing disturbs it, a history holds exactly what passed last.    *)

Match(log, h, k, e) == \A j \in 1..k : log[e - k + j] = h[j]
Ahead(log, h, n, len) == \A j \in (n + 1)..len : log[Len(log) - len + j] = h[j]
Young(h, k, now, w) == \A j \in 1..k : now - h[j] < w
Exactly(i, s) == Match(passed[i], Elements(s.array), s.len, Len(passed[i]))
AllRecent(r, s) == \A j \in 1..s.len : Recent(r, Elements(s.array)[j])

\* An AllowRequest of the throttle is at its trim, which moves times in the array of
\* the cache, or about to store what it has trimmed.
Allowing(i) == \E r \in Requests : req[r].at \in {"scan", "keep", "store"} /\ req[r].i = i /\ ~req[r].waiting

TrimsExactly(r) ==
    LET log == passed[req[r].i]
        h == Elements(req[r].slice.array)
        behind == Len(log) - req[r].slice.len
    IN /\ Match(log, h, req[r].kept, behind + Looked(r))
       /\ Ahead(log, h, req[r].scan, req[r].slice.len)
       /\ req[r].at = "keep" => log[behind + req[r].scan] = req[r].hand

\* A Wait looks at the times for which its AllowRequest was refused, at the same time.
Waits(r) ==
    /\ AllRecent(r, History(req[r].i)) /\ History(req[r].i).len = Limit(req[r].i)
    /\ req[r].at \in {"scan", "keep"} => req[r].kept = Looked(r)

Precise ==
    /\ \A i \in D : Allowing(i) \/ Exactly(i, History(i))
    /\ \A r \in Requests :
          /\ req[r].at \in {"scan", "keep"} => TrimsExactly(r)
          /\ req[r].at = "store" => Exactly(req[r].i, req[r].slice)
          /\ req[r].at = "store" /\ ~req[r].ok => AllRecent(r, req[r].slice) /\ req[r].slice.len = Limit(req[r].i)
          /\ req[r].at # "idle" /\ req[r].waiting => Waits(r)

\* Until the time promised, the oldest of the last passes is in the window.
Oldest(i) == passed[i][Len(passed[i]) - Limit(i) + 1]
Promises ==
    \A i \in D : promise[i] > 0 =>
       disturbed = "no" /\ Len(passed[i]) >= Limit(i) /\ Oldest(i) + Window(i) <= promise[i]

InvE == (disturbed = "no" => Precise) /\ Promises

LEMMA MatchKeep ==
    ASSUME NEW log, NEW h, NEW g, NEW k \in Nat, NEW e \in Nat,
           Match(log, h, k, e), \A j \in 1..k : g[j] = h[j], log[e + 1] = g[k + 1]
    PROVE  Match(log, g, k + 1, e + 1)
<1>1. ASSUME NEW j \in 1..(k + 1) PROVE log[(e + 1) - (k + 1) + j] = g[j]
  <2>1. CASE j = k + 1
    <3>1. (e + 1) - (k + 1) + j = e + 1
      BY <2>1
    <3> QED BY <2>1, <3>1
  <2>2. CASE j # k + 1
    <3>1. j \in 1..k /\ (e + 1) - (k + 1) + j = e - k + j
      BY <2>2
    <3> QED BY <3>1 DEF Match
  <2> QED BY <2>1, <2>2
<1> QED BY <1>1 DEF Match

LEMMA MatchPass ==
    ASSUME NEW log \in Seq(Nat), NEW h, NEW g, NEW k \in Nat, NEW time \in Nat, k <= Len(log),
           Match(log, h, k, Len(log)), \A j \in 1..k : g[j] = h[j], g[k + 1] = time
    PROVE  Match(Append(log, time), g, k + 1, Len(log) + 1)
<1> DEFINE longer == Append(log, time)
<1>1. Len(log) \in Nat /\ longer[Len(log) + 1] = time /\ \A j \in 1..Len(log) : longer[j] = log[j]
  OBVIOUS
<1> HIDE DEF longer
<1>2. ASSUME NEW j \in 1..k PROVE longer[Len(log) - k + j] = h[j]
  <2>1. Len(log) - k + j \in 1..Len(log) /\ log[Len(log) - k + j] = h[j]
    BY <1>1 DEF Match
  <2> QED BY <1>1, <2>1
<1>3. Match(longer, h, k, Len(log))
  BY <1>2 DEF Match
<1>4. longer[Len(log) + 1] = g[k + 1]
  BY <1>1
<1>5. Match(longer, g, k + 1, Len(log) + 1)
  BY <1>1, <1>3, <1>4, MatchKeep
<1> QED BY <1>5 DEF longer

\* Nothing is dropped behind a time that is kept.
Onward(log, h, len, n, k, now, w) ==
    /\ log[Len(log) - len + (n + 1)] = h[n + 1]
    /\ Ahead(log, h, n + 1, len)
    /\ k = 0 \/ Fresh(h[n + 1], now, w)

LEMMA MatchScan ==
    ASSUME NEW log \in Seq(Nat), Sorted(log), NEW h, NEW len \in Nat, NEW n \in Nat, NEW k \in Nat, NEW now \in Nat,
           NEW w \in Nat, n < len, k <= n, Len(log) - len \in Nat,
           Match(log, h, k, Len(log) - len + n), Young(h, k, now, w),
           Ahead(log, h, n, len)
    PROVE  Onward(log, h, len, n, k, now, w)
<1> DEFINE e == Len(log) - len + n
<1>1. /\ e \in 0..Len(log) /\ e < Len(log) /\ e + 1 = Len(log) - len + (n + 1) /\ n + 1 \in (n + 1)..len
      /\ k <= e
  OBVIOUS
<1>2. Match(log, h, k, e)
  OBVIOUS
<1> HIDE DEF e
<1>3. log[Len(log) - len + (n + 1)] = h[n + 1]
  BY <1>1, Zenon DEF Ahead
<1>4. ASSUME k # 0 PROVE Fresh(h[n + 1], now, w)
  <2>1. 1 \in 1..k /\ e - k + 1 \in 1..Len(log) /\ e + 1 \in 1..Len(log) /\ e - k + 1 <= e + 1
    BY <1>1, <1>4, SMTT(30)
  <2>2. log[e - k + 1] <= log[e + 1] /\ log[e - k + 1] \in Nat /\ log[e + 1] \in Nat
    BY <2>1, SMTT(30) DEF Sorted
  <2>3. log[e - k + 1] = h[1] /\ now - h[1] < w /\ log[e + 1] = h[n + 1]
    BY <1>1, <1>2, <1>3, <2>1 DEF Match, Young
  <2>4. \A a, b \in Nat : a <= b /\ now - a < w => now - b < w
    OBVIOUS
  <2>5. now - h[n + 1] < w
    BY <2>2, <2>3, <2>4, Zenon
  <2> QED BY <2>5 DEF Fresh
<1>5. Ahead(log, h, n + 1, len)
  BY DEF Ahead
<1> QED BY <1>3, <1>4, <1>5 DEF Onward

Wrote(g, h, n, time, len) == \A j \in 1..len : g[j] = IF j = n THEN time ELSE h[j]

LEMMA MatchWrite ==
    ASSUME NEW log \in Seq(Nat), NEW h, NEW g, NEW len \in Nat, NEW n \in Nat, NEW k \in Nat, NEW hand,
           n <= len, k < n, Len(log) - len \in Nat,
           Match(log, h, k, Len(log) - len + (n - 1)), log[Len(log) - len + n] = hand,
           Ahead(log, h, n, len), Wrote(g, h, k + 1, hand, len)
    PROVE  /\ Match(log, g, k + 1, Len(log) - len + n)
           /\ Ahead(log, g, n, len)
<1> DEFINE e == Len(log) - len + (n - 1)
<1>1. e \in Nat /\ e + 1 = Len(log) - len + n /\ k + 1 \in 1..len
  OBVIOUS
<1>2. g[k + 1] = hand /\ \A j \in 1..k : g[j] = h[j]
  <2>1. \A j \in 1..k : j \in 1..len /\ j # k + 1
    OBVIOUS
  <2> QED BY <1>1, <2>1, Zenon DEF Wrote
<1>3. Match(log, h, k, e)
  OBVIOUS
<1> HIDE DEF e
<1>4. log[e + 1] = g[k + 1]
  BY <1>1, <1>2
<1>5. Match(log, g, k + 1, e + 1)
  BY <1>1, <1>2, <1>3, <1>4, MatchKeep
<1>7. ASSUME NEW j \in (n + 1)..len PROVE log[Len(log) - len + j] = g[j]
  <2>1. j \in 1..len /\ j # k + 1
    OBVIOUS
  <2>2. log[Len(log) - len + j] = h[j]
    BY DEF Ahead
  <2> QED BY <2>1, <2>2, Zenon DEF Wrote
<1>8. Ahead(log, g, n, len)
  BY <1>7 DEF Ahead
<1> QED BY <1>1, <1>5, <1>8

\* The cache holds what it held for as long as neither it nor its array is written.
LEMMA ExactlyStays ==
    ASSUME NEW i \in D, Exactly(i, History(i)),
           cache'[Throttles[i].key] = cache[Throttles[i].key], passed'[i] = passed[i],
           History(i).array # 0 => \A j \in 1..History(i).len : heap'[History(i).array][j] = heap[History(i).array][j]
    PROVE  Exactly(i, History(i))'
<1>1. History(i)' = History(i)
  BY DEF History
<1> DEFINE s == History(i)
<1>2. ASSUME NEW j \in 1..s.len PROVE Elements(s.array)'[j] = Elements(s.array)[j]
  BY <1>1, <1>2 DEF Elements
<1> QED BY <1>1, <1>2 DEF Exactly, Match

LEMMA TrimsExactlyBy ==
    ASSUME NEW r \in Requests, NEW i, NEW log, NEW h, NEW s, NEW kept, NEW scan, NEW looked,
           req'[r].i = i, passed'[i] = log, req'[r].slice = s, Elements(s.array)' = h,
           req'[r].kept = kept, req'[r].scan = scan, Looked(r)' = looked,
           Match(log, h, kept, Len(log) - s.len + looked),
           Ahead(log, h, scan, s.len),
           req'[r].at = "keep" => log[Len(log) - s.len + scan] = req'[r].hand
    PROVE  TrimsExactly(r)'
<1>1. Elements(req[r].slice.array)' = h
  BY DEF Elements
<1> QED BY <1>1 DEF TrimsExactly

\* Only the request that makes a step may be about to.
LEMMA OnlyAllowing ==
    ASSUME Alone, NEW r \in Requests, req[r].at # "idle"
    PROVE  \A i : Allowing(i) <=> req[r].at \in {"scan", "keep", "store"} /\ req[r].i = i /\ ~req[r].waiting
BY DEF Alone, Allowing

LEMMA GetE ==
    ASSUME InvA, Counts, Precise, NEW r \in Requests, Get(r) PROVE Precise'
<1>a. SUFFICES ASSUME NEW i, i = req[r].i, NEW s, s = History(i), NEW h, h = Elements(s.array), NEW log, log = passed[i]
               PROVE  Precise'
  OBVIOUS
<1>1. /\ Others(r) /\ UNCHANGED <<clock, cache, heap, passed, promise, disturbed>>
      /\ req[r].at = "get" /\ req'[r].at = "scan" /\ req'[r].i = i /\ req'[r].waiting = req[r].waiting
      /\ req'[r].now = req[r].now /\ req'[r].scan = 0 /\ req'[r].kept = 0
      /\ req'[r].slice = Nil \/ req'[r].slice = s
  BY <1>a, GetStep
<1>2. (\A q \in Requests \ {r} : req[q].at = "idle") /\ (\A j : ~Allowing(j)) /\ i \in D
  BY <1>a, <1>1, HeldBy, OnlyOne, OnlyAllowing DEF InvA, Counts
<1>3. ASSUME NEW j \in D PROVE Exactly(j, History(j))'
  BY <1>1, <1>2, ExactlyStays DEF Precise
<1>4. Len(log) \in Nat /\ s.len \in Nat
  BY <1>a, <1>2, LogTyped DEF InvA
<1>5. Looked(r)' = 0
  BY <1>1 DEF Looked
<1>6. TrimsExactly(r)'
  <2>1. CASE req'[r].slice = Nil
    <3>1. Nil.len = 0 /\ Elements(Nil.array)' = <<>>
      BY DEF Nil, Elements
    <3>2. /\ Match(log, <<>>, 0, Len(log) - Nil.len + 0)
          /\ Ahead(log, <<>>, 0, Nil.len)
      BY <1>4, <3>1 DEF Match, Ahead
    <3> QED BY <1>a, <1>1, <1>5, <2>1, <3>1, <3>2, TrimsExactlyBy
  <2>2. CASE req'[r].slice = s
    <3>1. Match(log, h, s.len, Len(log))
      BY <1>a, <1>2 DEF Precise, Exactly
    <3>2. Ahead(log, h, 0, s.len)
      BY <1>4, <3>1 DEF Match, Ahead
    <3>3. Match(log, h, 0, Len(log) - s.len + 0)
      BY DEF Match
    <3>4. Elements(s.array)' = h /\ passed'[i] = log
      BY <1>a, <1>1 DEF Elements
    <3> QED BY <1>1, <1>5, <2>2, <3>2, <3>3, <3>4, TrimsExactlyBy
  <2> QED BY <1>1, <2>1, <2>2
<1>7. req'[r].waiting => Waits(r)'
  <2>1. req[r].waiting => Waits(r)
    BY <1>1 DEF Precise
  <2>2. History(req[r].i)' = History(req[r].i)
    BY <1>a, <1>1 DEF History
  <2>3. AllRecent(r, History(req[r].i))' <=> AllRecent(r, History(req[r].i))
    BY <1>a, <1>1, <2>2 DEF AllRecent, Recent, Elements, Window
  <2> QED BY <1>a, <1>1, <1>5, <2>1, <2>2, <2>3 DEF Waits, Limit
<1> QED BY <1>1, <1>2, <1>3, <1>6, <1>7 DEF Precise, Others

LEMMA ScanE ==
    ASSUME InvA, Counts, Precise, NEW r \in Requests, Scan(r) PROVE Precise'
<1>t. req[r].scan \in Nat /\ req[r].kept \in Nat /\ req[r].now \in Nat
  BY HeldBy, ThrottlesTyped DEF InvA, Locals
<1>a. SUFFICES ASSUME NEW i, i = req[r].i, NEW s, s = req[r].slice, NEW h, h = Elements(s.array), NEW log, log = passed[i],
                      NEW n \in Nat, n = req[r].scan, NEW k \in Nat, k = req[r].kept, NEW now \in Nat, now = req[r].now, NEW w, w = Window(i)
               PROVE  Precise'
  BY <1>t
<1>1. /\ Others(r) /\ UNCHANGED <<clock, cache, heap, passed, promise, disturbed>>
      /\ req[r].at = "scan" /\ n < s.len /\ req'[r].at \in {"scan", "keep"}
      /\ req'[r].i = i /\ req'[r].waiting = req[r].waiting /\ req'[r].slice = s
      /\ req'[r].now = now /\ req'[r].scan = n + 1 /\ req'[r].kept = k
      /\ \/ Recent(r, h[n + 1]) /\ req'[r].at = "keep" /\ req'[r].hand = h[n + 1]
         \/ ~Recent(r, h[n + 1]) /\ req'[r].at = "scan"
  BY <1>a, ScanStep
<1>2. /\ i \in D /\ s.len \in Nat /\ k \in Nat /\ n \in Nat /\ now \in Nat /\ k <= Looked(r)
      /\ log \in Seq(Nat) /\ Len(log) \in Nat /\ w \in Nat /\ Len(log) - s.len \in Nat
  BY <1>a, <1>1, Trimming
<1>3. Looked(r) = n
  BY <1>a, <1>1 DEF Looked
<1>4. Sorted(log) /\ (s = Nil \/ s = History(i)) /\ \A j \in 1..k : now - h[j] < w
  BY <1>a, <1>1, Trimming, SMTT(30)
<1>5. Match(log, h, k, Len(log) - s.len + n) /\ Ahead(log, h, n, s.len)
  BY <1>a, <1>1, <1>3 DEF Precise, TrimsExactly
<1>6. (\A q \in Requests \ {r} : req[q].at = "idle") /\ \A j : Allowing(j) <=> j = i /\ ~req[r].waiting
  BY <1>a, <1>1, OnlyOne, OnlyAllowing DEF Counts
<1>7. ASSUME NEW j \in D PROVE Allowing(j)' \/ Exactly(j, History(j))'
  <2>1. CASE Allowing(j)
    BY <1>1, <1>6, <2>1 DEF Allowing
  <2>2. CASE ~Allowing(j)
    BY <1>1, <2>2, ExactlyStays DEF Precise
  <2> QED BY <2>1, <2>2
<1>8. /\ log[Len(log) - s.len + (n + 1)] = h[n + 1]
      /\ Ahead(log, h, n + 1, s.len)
      /\ k = 0 \/ Fresh(h[n + 1], now, w)
  <2>1. n < s.len /\ k <= n
    BY <1>1, <1>2, <1>3
  <2>2. now \in Nat /\ w \in Nat /\ n \in Nat /\ k \in Nat /\ s.len \in Nat /\ log \in Seq(Nat) /\ Len(log) - s.len \in Nat
    BY <1>2
  <2>3. Sorted(log)
    BY <1>4
  <2>4. Young(h, k, now, w)
    BY <1>4 DEF Young
  <2>5. Onward(log, h, s.len, n, k, now, w)
    BY <1>5, <2>1, <2>2, <2>3, <2>4, MatchScan
  <2> QED BY <2>5 DEF Onward
<1>9. Recent(r, h[n + 1]) <=> Fresh(h[n + 1], now, w)
  BY <1>a DEF Recent, Fresh
<1>10. Elements(s.array)' = h /\ passed'[i] = log
  BY <1>a, <1>1 DEF Elements
<1>11. TrimsExactly(r)'
  <2>1. CASE Recent(r, h[n + 1])
    <3>1. req'[r].at = "keep" /\ req'[r].hand = h[n + 1]
      BY <1>1, <2>1
    <3>2. Looked(r)' = n
      BY <1>1, <1>2, <3>1 DEF Looked
    <3>3. Match(log, h, k, Len(log) - s.len + n) /\ log[Len(log) - s.len + (n + 1)] = req'[r].hand
      BY <1>5, <1>8, <3>1
    <3> QED BY <1>1, <1>8, <1>10, <3>2, <3>3, TrimsExactlyBy
  <2>2. CASE ~Recent(r, h[n + 1])
    <3>1. req'[r].at = "scan" /\ k = 0
      BY <1>1, <1>8, <1>9, <2>2
    <3>2. Looked(r)' = n + 1
      BY <1>1, <3>1 DEF Looked
    <3>3. Match(log, h, k, Len(log) - s.len + (n + 1))
      BY <3>1 DEF Match
    <3> QED BY <1>1, <1>8, <1>10, <3>1, <3>2, <3>3, TrimsExactlyBy
  <2> QED BY <2>1, <2>2
<1>12. req[r].waiting => Waits(r)'
  <2>1. SUFFICES ASSUME req[r].waiting PROVE Waits(r)'
    OBVIOUS
  <2>2. AllRecent(r, History(i)) /\ History(i).len = Limit(i) /\ k = n
    BY <1>a, <1>1, <1>3, <2>1 DEF Precise, Waits
  <2>3. s = History(i)
    BY <1>1, <1>2, <1>4 DEF Nil
  <2>4. Recent(r, h[n + 1])
    <3>1. n + 1 \in 1..s.len
      BY <1>1, <1>2
    <3> QED BY <1>a, <2>2, <2>3, <3>1 DEF AllRecent
  <2>5. req'[r].at = "keep" /\ req'[r].kept = Looked(r)'
    BY <1>1, <1>2, <2>2, <2>4 DEF Looked
  <2>6. History(req[r].i)' = History(i)
    BY <1>1 DEF History
  <2>7. AllRecent(r, History(req[r].i))'
    BY <1>a, <1>1, <2>2, <2>6 DEF AllRecent, Recent, Elements, Window
  <2> QED BY <1>1, <2>2, <2>5, <2>6, <2>7 DEF Waits, Limit
<1> QED BY <1>1, <1>6, <1>7, <1>11, <1>12 DEF Precise, Others

LEMMA KeepE ==
    ASSUME InvA, Counts, Precise, NEW r \in Requests, Keep(r) PROVE Precise'
<1>a. SUFFICES ASSUME NEW i, i = req[r].i, NEW s, s = req[r].slice, NEW h, h = Elements(s.array), NEW log, log = passed[i],
                      NEW n, n = req[r].scan, NEW k, k = req[r].kept, NEW now, now = req[r].now, NEW w, w = Window(i),
                      NEW hand, hand = req[r].hand, NEW g, g = Elements(s.array)'
               PROVE  Precise'
  OBVIOUS
<1>1. /\ Others(r) /\ UNCHANGED <<clock, cache, passed, promise, disturbed>>
      /\ req[r].at = "keep" /\ req'[r].at = "scan" /\ req'[r].i = i /\ req'[r].waiting = req[r].waiting
      /\ req'[r].slice = s /\ req'[r].now = now /\ req'[r].scan = n /\ req'[r].kept = k + 1
      /\ s.array \in Arrays /\ (\A a \in Arrays \ {s.array} : heap'[a] = heap[a])
      /\ \A j \in 1..s.len : heap'[s.array][j] = IF j = k + 1 THEN hand ELSE heap[s.array][j]
  BY <1>a, KeepStep
<1>0. s.len \in Nat /\ k \in Nat /\ n \in Nat /\ n <= s.len
  BY <1>a, <1>1, Trimming
<1>2. i \in D /\ s \in Held(i) /\ log \in Seq(Nat) /\ Len(log) \in Nat /\ Len(log) - s.len \in Nat
  BY <1>a, <1>1, Trimming
<1>3. k < n /\ Recent(r, hand)
  BY <1>a, <1>1, HeldBy DEF InvA, Progress
<1>4. s.array # 0 /\ h = heap[s.array] /\ g = heap'[s.array] /\ s = History(i)
  <2>1. s = Nil \/ s = History(i)
    BY <1>a, <1>1, Trimming
  <2> QED BY <1>a, <1>1, <2>1, ThrottlesTyped DEF Elements, Nil
<1>5. Looked(r) = n - 1 /\ Looked(r)' = n
  BY <1>a, <1>1 DEF Looked
<1>6. /\ Match(log, h, k, Len(log) - s.len + (n - 1)) /\ log[Len(log) - s.len + n] = hand
      /\ Ahead(log, h, n, s.len)
  BY <1>a, <1>1, <1>5 DEF Precise, TrimsExactly
<1>7. \A j \in 1..s.len : g[j] = IF j = k + 1 THEN hand ELSE h[j]
  BY <1>1, <1>4
<1>8. /\ Match(log, g, k + 1, Len(log) - s.len + n)
      /\ Ahead(log, g, n, s.len)
  <2>1. Wrote(g, h, k + 1, hand, s.len)
    BY <1>7 DEF Wrote
  <2> QED BY <1>0, <1>2, <1>3, <1>6, <2>1, MatchWrite
<1>9. TrimsExactly(r)'
  <2>1. Elements(s.array)' = g /\ passed'[i] = log /\ req'[r].at # "keep"
    BY <1>a, <1>1
  <2> QED BY <1>1, <1>5, <1>8, <2>1, TrimsExactlyBy
<1>10. (\A q \in Requests \ {r} : req[q].at = "idle") /\ \A j : Allowing(j) <=> j = i /\ ~req[r].waiting
  BY <1>a, <1>1, OnlyOne, OnlyAllowing DEF Counts
<1>11. History(i)' = s /\ Elements(History(i).array)' = g
  <2>1. History(i)' = s
    BY <1>1, <1>4 DEF History
  <2> QED BY <1>a, <2>1 DEF Elements
<1>12. ASSUME req[r].waiting PROVE Exactly(i, History(i))' /\ Waits(r)'
  <2>1. AllRecent(r, s) /\ s.len = Limit(i) /\ k = n - 1
    BY <1>a, <1>1, <1>4, <1>5, <1>12 DEF Precise, Waits
  <2>2. Match(log, h, s.len, Len(log))
    BY <1>a, <1>2, <1>4, <1>10, <1>12 DEF Precise, Exactly
  <2>3. Match(log, g, s.len, Len(log))
    <3>1. \A j \in 1..s.len : log[Len(log) - s.len + j] = g[j]
      <4>1. \A j \in 1..s.len : j = k + 1 => j = n
        BY <1>0, <2>1
      <4> QED BY <1>6, <1>7, <2>2, <4>1, Zenon DEF Match
    <3> QED BY <3>1 DEF Match
  <2>4. Exactly(i, History(i))'
    BY <1>a, <1>1, <1>11, <2>3 DEF Exactly
  <2>5. \A j \in 1..s.len : Recent(r, g[j])
    BY <1>a, <1>3, <1>7, <2>1 DEF AllRecent
  <2>6. AllRecent(r, History(req[r].i))'
    <3>1. History(req[r].i)' = s /\ Elements(History(req[r].i).array)' = g
      BY <1>1, <1>11 DEF History, Elements
    <3>2. \A time : Recent(r, time)' <=> Recent(r, time)
      BY <1>a, <1>1 DEF Recent, Window
    <3> QED BY <2>5, <3>1, <3>2 DEF AllRecent
  <2>7. req'[r].kept = Looked(r)'
    BY <1>0, <1>1, <1>5, <2>1
  <2>8. History(req[r].i)'.len = Limit(req[r].i)'
    BY <1>1, <1>11, <2>1 DEF History, Limit
  <2> QED BY <2>4, <2>6, <2>7, <2>8 DEF Waits
<1>13. ASSUME NEW j \in D PROVE Allowing(j)' \/ Exactly(j, History(j))'
  <2>1. CASE j = i
    BY <1>1, <1>12, <2>1 DEF Allowing
  <2>2. CASE j # i
    <3>1. History(j) \in Held(j)
      BY DEF Held
    <3>2. History(j).array # 0 => History(j).array \in Arrays /\ History(j).array # s.array
      BY <1>2, <2>2, <3>1, HeldTyped DEF InvA, Apart
    <3>3. History(j).array # 0 => heap'[History(j).array] = heap[History(j).array]
      BY <1>1, <3>2
    <3> QED BY <1>1, <1>10, <2>2, <3>3, ExactlyStays DEF Precise
  <2> QED BY <2>1, <2>2
<1> QED BY <1>1, <1>9, <1>10, <1>12, <1>13 DEF Precise, Others

LEMMA TickE ==
    ASSUME Precise, Tick PROVE Precise'
BY ZenonT(40) DEF Tick, Precise, Allowing, Exactly, TrimsExactly, AllRecent, Recent, Waits, Looked, History, Elements, Limit, Window

LEMMA ArriveE ==
    ASSUME InvA, Precise, NEW r \in Requests, Arrive(r), disturbed' # "overlap" PROVE Precise'
<1>1. /\ Others(r) /\ UNCHANGED <<clock, cache, heap, passed>> /\ \A q \in Requests : req[q].at = "idle"
      /\ req'[r].at = "get" /\ ~req'[r].waiting
  BY ArriveStep
<1>2. \A q \in Requests : req'[q].at \in {"idle", "get"} /\ (req'[q].at = "get" => ~req'[q].waiting)
  BY <1>1 DEF Others
<1>3. \A j : ~Allowing(j)
  BY <1>1 DEF Allowing
<1>4. ASSUME NEW j \in D PROVE Exactly(j, History(j))'
  BY <1>1, <1>3, ExactlyStays DEF Precise
<1> QED BY <1>2, <1>4 DEF Precise

LEMMA RefuseE ==
    ASSUME InvA, Counts, Precise, NEW r \in Requests, Refuse(r)
    PROVE  /\ Precise'
           /\ req[r].kept = Limit(req[r].i) /\ req[r].slice.len = Limit(req[r].i)
<1>a. SUFFICES ASSUME NEW i, i = req[r].i, NEW s, s = req[r].slice, NEW h, h = Elements(s.array), NEW log, log = passed[i],
                      NEW k, k = req[r].kept
               PROVE  Precise' /\ k = Limit(i) /\ s.len = Limit(i)
  OBVIOUS
<1>1. /\ Others(r) /\ UNCHANGED <<clock, cache, heap, passed, promise, disturbed>>
      /\ req[r].at = "scan" /\ ~req[r].waiting /\ req[r].scan = s.len /\ k >= Limit(i)
      /\ req'[r].at = "store" /\ req'[r].i = i /\ ~req'[r].waiting /\ ~req'[r].ok
      /\ req'[r].now = req[r].now /\ req'[r].slice.array = s.array /\ req'[r].slice.len = k
  BY <1>a, RefuseStep
<1>2. i \in D /\ s.len \in Nat /\ k \in Nat /\ k <= Looked(r) /\ Len(log) \in Nat /\ s \in Held(i)
  BY <1>a, <1>1, Trimming
<1>3. Looked(r) = s.len /\ Len(log) - s.len + s.len = Len(log)
  BY <1>a, <1>1, <1>2 DEF Looked
<1>4. Limit(i) \in Nat /\ s.len <= Limit(i)
  BY <1>2, ThrottlesTyped DEF InvA, AllGood, Good
<1>5. k = Limit(i) /\ s.len = Limit(i)
  BY <1>1, <1>2, <1>3, <1>4
<1>6. Match(log, h, k, Len(log))
  BY <1>a, <1>1, <1>3 DEF Precise, TrimsExactly
<1>7. \A j \in 1..k : Recent(r, h[j])
  BY <1>a, <1>1 DEF Counts, Trims
<1>8. Elements(req[r].slice.array)' = h
  BY <1>a, <1>1 DEF Elements
<1>9. Exactly(req[r].i, req[r].slice)'
  BY <1>a, <1>1, <1>6, <1>8 DEF Exactly
<1>10. AllRecent(r, req[r].slice)'
  <2>1. \A time : Recent(r, time)' <=> Recent(r, time)
    BY <1>a, <1>1 DEF Recent, Window
  <2> QED BY <1>1, <1>7, <1>8, <2>1 DEF AllRecent
<1>11. (\A q \in Requests \ {r} : req[q].at = "idle") /\ \A j : Allowing(j) <=> j = i
  BY <1>a, <1>1, OnlyOne, OnlyAllowing DEF Counts
<1>12. ASSUME NEW j \in D PROVE Allowing(j)' \/ Exactly(j, History(j))'
  <2>1. CASE j = i
    BY <1>1, <2>1 DEF Allowing
  <2>2. CASE j # i
    BY <1>1, <1>11, <2>2, ExactlyStays DEF Precise
  <2> QED BY <2>1, <2>2
<1>13. req'[r].slice.len = Limit(req[r].i)'
  BY <1>1, <1>5 DEF Limit
<1>14. Precise'
  BY <1>1, <1>9, <1>10, <1>11, <1>12, <1>13 DEF Precise, Others
<1> QED BY <1>5, <1>14

LEMMA GrantE ==
    ASSUME InvA, InvA', Counts, Precise, NEW r \in Requests, Grant(r), disturbed # "overlap" PROVE Precise'
<1>a. SUFFICES ASSUME NEW i, i = req[r].i, NEW s, s = req[r].slice, NEW h, h = Elements(s.array), NEW log, log = passed[i],
                      NEW k, k = req[r].kept, NEW now, now = req[r].now,
                      NEW t, t = req'[r].slice, NEW g, g = heap'[t.array]
               PROVE  Precise'
  OBVIOUS
<1>1. /\ Others(r) /\ UNCHANGED <<clock, cache, disturbed>>
      /\ req[r].at = "scan" /\ ~req[r].waiting /\ req[r].scan = s.len
      /\ req'[r].at = "store" /\ req'[r].i = i /\ ~req'[r].waiting /\ req'[r].ok /\ t.len = k + 1
      /\ \A j \in 1..k : g[j] = h[j]
      /\ g[k + 1] = now /\ t.array # 0
      /\ \A j \in D \ {i} : History(j).array # 0 => heap'[History(j).array] = heap[History(j).array]
  BY <1>a, GrantEffect
<1>2. passed'[i] = Append(log, now) /\ \A j \in D \ {i} : passed'[j] = passed[j]
  BY <1>a, GrantPasses DEF Noted, InvA
<1>3. k \in Nat /\ now \in Nat /\ log \in Seq(Nat) /\ Len(log) \in Nat /\ s.len \in Nat
  BY <1>a, <1>1, Trimming
<1>4. Looked(r) = s.len /\ Len(log) - s.len + s.len = Len(log)
  BY <1>a, <1>1, <1>3 DEF Looked
<1>5. Match(log, h, k, Len(log))
  BY <1>a, <1>1, <1>4 DEF Precise, TrimsExactly
<1>6. k <= Len(log)
  <2>1. Cover(log, h, k, Len(log) - s.len + Looked(r), clock, Window(i))
    BY <1>a, <1>1, Trimming
  <2> QED BY <1>4, <2>1 DEF Cover
<1>7. Exactly(req[r].i, req[r].slice)'
  <2>0. (\A j \in 1..k : g[j] = h[j]) /\ g[k + 1] = now
    BY <1>1
  <2>1. Match(Append(log, now), g, k + 1, Len(log) + 1)
    BY <1>3, <1>5, <1>6, <2>0, MatchPass
  <2>2. Len(Append(log, now)) = Len(log) + 1
    BY <1>3
  <2>3. Elements(req[r].slice.array)' = g
    BY <1>a, <1>1 DEF Elements
  <2> QED BY <1>a, <1>1, <1>2, <2>1, <2>2, <2>3, SMTT(60) DEF Exactly
<1>8. (\A q \in Requests \ {r} : req[q].at = "idle") /\ \A j : Allowing(j) <=> j = i
  BY <1>a, <1>1, OnlyOne, OnlyAllowing DEF Counts
<1>9. ASSUME NEW j \in D PROVE Allowing(j)' \/ Exactly(j, History(j))'
  <2>1. CASE j = i
    BY <1>1, <2>1 DEF Allowing
  <2>2. CASE j # i
    BY <1>1, <1>2, <1>8, <2>2, ExactlyStays DEF Precise
  <2> QED BY <2>1, <2>2
<1> QED BY <1>1, <1>7, <1>8, <1>9 DEF Precise, Others

LEMMA StoreE ==
    ASSUME InvA, InvA', Counts, Precise, NEW r \in Requests, Store(r), disturbed' = "no" PROVE Precise'
<1>a. SUFFICES ASSUME NEW i, i = req[r].i, NEW s, s = req[r].slice PROVE Precise'
  OBVIOUS
<1>1. /\ Others(r) /\ UNCHANGED <<clock, passed>> /\ heap' = Freed(heap) /\ req[r].at = "store"
      /\ cache'[Throttles[i].key].slice = s
      /\ \A j \in D \ {i} : cache'[Throttles[j].key] = cache[Throttles[j].key]
      /\ req'[r].at \in {"idle", "get"}
      /\ req'[r].at = "get" => req'[r].now = clock
      /\ req[r].ok => req'[r].at = "idle" \/ ~req'[r].waiting
      /\ ~req[r].ok => req'[r].at = "get" /\ req'[r].waiting /\ req'[r].i = i
      /\ disturbed' = IF disturbed = "no" /\ ~req[r].ok /\ clock # req[r].now THEN "slip" ELSE disturbed
  BY <1>a, StoreStep
<1>2. (\A q \in Requests \ {r} : req[q].at = "idle") /\ (\A j : Allowing(j) => j = i) /\ i \in D
  BY <1>a, <1>1, OnlyOne, OnlyAllowing, HeldBy DEF Counts, InvA
<1>3. ~req[r].ok => req[r].now = clock
  BY <1>1
<1>4. ASSUME NEW j \in D, NEW t \in Held(j)', t.array # 0 PROVE heap'[t.array] = heap[t.array]
  BY <1>1, <1>4, ElementsStay DEF Elements
<1>5. History(i)' = s /\ Elements(History(i).array)' = Elements(s.array)
  <2>1. History(i)' = s /\ History(i)' \in Held(i)'
    BY <1>1 DEF History, Held
  <2> QED BY <1>2, <1>4, <2>1 DEF Elements
<1>6. Exactly(i, History(i))'
  BY <1>a, <1>1, <1>5 DEF Precise, Exactly
<1>7. ASSUME NEW j \in D, j # i PROVE Exactly(j, History(j))'
  <2>1. History(j)' = History(j) /\ History(j)' \in Held(j)'
    BY <1>1, <1>7 DEF History, Held
  <2>2. History(j).array # 0 => heap'[History(j).array] = heap[History(j).array]
    BY <1>4, <2>1
  <2>3. Exactly(j, History(j)) /\ cache'[Throttles[j].key] = cache[Throttles[j].key] /\ passed'[j] = passed[j]
    BY <1>1, <1>2, <1>7 DEF Precise
  <2> QED BY <2>2, <2>3, ExactlyStays
<1>8. ASSUME ~req[r].ok PROVE Waits(r)'
  <2>1. AllRecent(r, s) /\ s.len = Limit(i)
    BY <1>a, <1>1, <1>8 DEF Precise
  <2>2. req'[r].at = "get" /\ req'[r].i = i /\ req'[r].now = req[r].now
    BY <1>1, <1>3, <1>8
  <2>3. \A time : Recent(r, time)' <=> Recent(r, time)
    BY <1>a, <2>2 DEF Recent, Window
  <2>4. History(req[r].i)' = s /\ Elements(History(req[r].i).array)' = Elements(s.array)
    BY <1>5, <2>2 DEF History, Elements
  <2>5. AllRecent(r, History(req[r].i))'
    BY <2>1, <2>3, <2>4 DEF AllRecent
  <2> QED BY <2>1, <2>2, <2>4, <2>5 DEF Waits, Limit
<1> QED BY <1>1, <1>2, <1>6, <1>7, <1>8 DEF Precise, Others

LEMMA TellE ==
    ASSUME InvA, InvA', Counts, Precise, NEW r \in Requests, Tell(r) PROVE Precise'
<1>1. /\ Others(r) /\ UNCHANGED <<clock, cache, passed, disturbed>> /\ heap' = Freed(heap)
      /\ req[r].at = "scan" /\ req[r].waiting /\ req'[r].at = "idle"
  BY TellStep
<1>2. (\A q \in Requests \ {r} : req[q].at = "idle") /\ \A j : ~Allowing(j)
  BY <1>1, OnlyOne, OnlyAllowing DEF Counts
<1>3. ASSUME NEW j \in D PROVE Exactly(j, History(j))'
  <2>1. History(j)' = History(j) /\ History(j)' \in Held(j)'
    BY <1>1 DEF History, Held
  <2>2. History(j).array # 0 => heap'[History(j).array] = heap[History(j).array]
    <3>1. ASSUME NEW s \in Held(j)', s.array # 0 PROVE heap'[s.array] = heap[s.array]
      BY <1>1, <3>1, ElementsStay DEF Elements
    <3> QED BY <2>1, <3>1
  <2> QED BY <1>1, <1>2, <2>2, ExactlyStays DEF Precise
<1> QED BY <1>1, <1>2, <1>3 DEF Precise, Others

\* The oldest of the last passes is the first time of a history that is trimmed and full.
First(r) == heap[req[r].slice.array][1]

LEMMA OldestKept ==
    ASSUME InvA, Counts, Precise, NEW r \in Requests, req[r].at = "scan", req[r].scan = req[r].slice.len,
           req[r].kept >= Limit(req[r].i)
    PROVE  /\ Len(passed[req[r].i]) >= Limit(req[r].i)
           /\ Oldest(req[r].i) = First(r) /\ First(r) \in Nat /\ req[r].now - First(r) < Window(req[r].i)
<1>a. SUFFICES ASSUME NEW i, i = req[r].i, NEW s, s = req[r].slice, NEW h, h = Elements(s.array), NEW log, log = passed[i],
                      NEW k, k = req[r].kept
               PROVE  /\ Len(log) >= Limit(i)
                      /\ Oldest(i) = First(r) /\ First(r) \in Nat /\ req[r].now - First(r) < Window(i)
  OBVIOUS
<1>1. /\ i \in D /\ s \in Held(i) /\ s.len \in Nat /\ k \in Nat /\ k <= Looked(r) /\ req[r].now \in Nat
      /\ log \in Seq(Nat) /\ Len(log) \in Nat /\ Len(log) - s.len \in Nat
      /\ \A j \in 1..s.len : h[j] \in Nat
      /\ \A j \in 1..k : req[r].now - h[j] < Window(i)
  <2>1. req[r].at \in {"scan", "keep"}
    OBVIOUS
  <2>2. /\ i \in D /\ s \in Held(i) /\ s.len \in Nat /\ req[r].kept \in Nat /\ req[r].kept <= Looked(r)
        /\ req[r].now \in Nat /\ log \in Seq(Nat) /\ Len(log) \in Nat /\ Len(log) - s.len \in Nat
        /\ \A j \in 1..s.len : h[j] \in Nat
        /\ \A j \in 1..req[r].kept : req[r].now - h[j] < Window(i)
    BY <1>a, <2>1, Trimming, ZenonT(90)
  <2> QED BY <1>a, <2>2, Zenon
<1>2. Looked(r) = s.len /\ Len(log) - s.len + s.len = Len(log)
  BY <1>a, <1>1 DEF Looked
<1>3. Limit(i) \in Nat /\ Limit(i) > 0 /\ s.len <= Limit(i) /\ k >= Limit(i)
  BY <1>a, <1>1, ThrottlesTyped DEF InvA, AllGood, Good
<1>4. k = Limit(i) /\ s.len = Limit(i) /\ Len(log) >= Limit(i)
  BY <1>1, <1>2, <1>3
<1>5. Match(log, h, k, Len(log))
  BY <1>a, <1>2 DEF Precise, TrimsExactly
<1>6. 1 \in 1..k /\ 1 \in 1..s.len
  BY <1>3, <1>4
<1>7. Oldest(i) = h[1]
  BY <1>a, <1>4, <1>5, <1>6 DEF Match, Oldest
<1>8. s.array # 0
  BY <1>1, <1>4, <1>3 DEF InvA, AllGood, Good, Room, Elements
<1>9. First(r) = h[1]
  BY <1>a, <1>8 DEF First, Elements
<1> QED BY <1>1, <1>4, <1>6, <1>7, <1>9

LEMMA PromisesKept ==
    ASSUME Promises, passed' = passed, \A i \in D : promise'[i] > 0 => disturbed' = "no" /\ promise'[i] = promise[i]
    PROVE  Promises'
BY DEF Promises, Oldest, Limit, Window

LEMMA GrantP ==
    ASSUME InvA, Promises, NEW r \in Requests, Grant(r) PROVE Promises'
<1>1. /\ req[r].i \in D /\ disturbed' = disturbed
      /\ promise' = [promise EXCEPT ![req[r].i] = 0]
      /\ passed' = [passed EXCEPT ![req[r].i] = Noted(@, req[r].now)]
  BY HeldBy DEF InvA, Grant
<1>2. promise'[req[r].i] = 0 /\ \A j \in D \ {req[r].i} : promise'[j] = promise[j] /\ passed'[j] = passed[j]
  BY <1>1 DEF InvA, Typed
<1> QED BY <1>1, <1>2 DEF Promises, Oldest, Limit, Window

LEMMA TellP ==
    ASSUME InvA, InvS, disturbed = "no" => Precise, Promises, NEW r \in Requests, Tell(r) PROVE Promises'
<1>a. SUFFICES ASSUME NEW i, i = req[r].i, NEW wait, wait = Second * Seconds(Remaining(r)) PROVE Promises'
  OBVIOUS
<1>1. /\ passed' = passed /\ disturbed' = disturbed
      /\ req[r].at = "scan" /\ req[r].scan = req[r].slice.len
  BY DEF Tell, Trimmed
<1>2. CASE promise' = promise
  BY <1>1, <1>2, PromisesKept DEF Promises
<1>3. CASE promise' # promise
  <2>1. /\ disturbed = "no" /\ req[r].kept >= Limit(i)
        /\ promise' = [promise EXCEPT ![i] = req[r].now + wait]
        /\ wait \in Nat /\ wait >= Remaining(r)
    BY <1>a, <1>3, TellPromise
  <2>2. Counts /\ Precise
    BY <2>1 DEF InvS
  <2>3. Len(passed[i]) >= Limit(i) /\ Oldest(i) = First(r) /\ First(r) \in Nat
    BY <1>a, <1>1, <2>1, <2>2, OldestKept
  <2>4. i \in D /\ Window(i) \in Nat /\ req[r].now \in Nat
    BY <1>a, HeldBy, ThrottlesTyped DEF InvA, Locals
  <2>5. Remaining(r) = Window(i) - (req[r].now - First(r))
    BY <1>a DEF Remaining, First
  <2>6. Oldest(i) + Window(i) <= req[r].now + wait
    BY <2>1, <2>3, <2>4, <2>5
  <2>7. promise'[i] = req[r].now + wait /\ \A j \in D \ {i} : promise'[j] = promise[j]
    BY <2>1, <2>4 DEF InvA, Typed
  <2>8. ASSUME NEW j \in D, promise'[j] > 0
        PROVE  Len(passed[j]) >= Limit(j) /\ Oldest(j) + Window(j) <= promise'[j]
    <3>1. CASE j = i
      BY <2>3, <2>6, <2>7, <3>1
    <3>2. CASE j # i
      BY <2>7, <2>8, <3>2 DEF Promises
    <3> QED BY <3>1, <3>2
  <2> QED BY <1>1, <2>1, <2>8 DEF Promises, Oldest, Limit, Window
<1> QED BY <1>2, <1>3

LEMMA InitE ==
    ASSUME Init PROVE InvE
<1>1. \A r \in Requests : req[r].at = "idle"
  BY DEF Init, Idle
<1>2. \A i \in D : passed[i] = <<>> /\ History(i) = Nil /\ promise[i] = 0
  BY ThrottlesTyped DEF Init, History, D
<1>3. ASSUME NEW i \in D PROVE Exactly(i, History(i))
  BY <1>2 DEF Exactly, Match, Nil
<1> QED BY <1>1, <1>2, <1>3 DEF InvE, Precise, Promises

LEMMA InvEHolds == Spec => []InvE
<1>1. InvA /\ InvA' /\ InvS /\ InvE /\ [Next]_vars => InvE'
  <2> SUFFICES ASSUME InvA, InvA', InvS, InvE, [Next]_vars PROVE InvE'
    OBVIOUS
  <2>0. Promises /\ (disturbed = "no" => Counts /\ Precise)
    BY DEF InvE, InvS
  <2>1. ASSUME NEW r \in Requests, Arrive(r) PROVE InvE'
    <3>1. passed' = passed /\ promise' = Kept(promise) /\ (disturbed' = "no" => disturbed = "no")
      BY <2>1, ArriveStep
    <3>2. Promises'
      <4>1. \A i \in D : promise'[i] > 0 => disturbed' = "no" /\ promise'[i] = promise[i]
        BY <3>1 DEF Kept, D
      <4> QED BY <2>0, <3>1, <4>1, PromisesKept
    <3>3. disturbed' = "no" => Precise'
      BY <2>0, <2>1, <3>1, ArriveE
    <3> QED BY <3>2, <3>3 DEF InvE
  <2>2. ASSUME NEW r \in Requests, Get(r) \/ Scan(r) \/ Keep(r) \/ Refuse(r) PROVE InvE'
    <3>1. disturbed' = disturbed /\ passed' = passed /\ promise' = promise
      BY <2>2 DEF Get, Scan, Keep, Refuse
    <3>2. Promises'
      BY <2>0, <3>1, PromisesKept DEF Promises
    <3> QED BY <2>0, <2>2, <3>1, <3>2, GetE, ScanE, KeepE, RefuseE DEF InvE
  <2>3. ASSUME NEW r \in Requests, Grant(r) PROVE InvE'
    <3>1. disturbed' = disturbed
      BY <2>3 DEF Grant
    <3>2. disturbed' = "no" => Precise'
      BY <2>0, <2>3, <3>1, GrantE
    <3> QED BY <2>0, <2>3, <3>2, GrantP DEF InvE
  <2>4. ASSUME NEW r \in Requests, Store(r) PROVE InvE'
    <3>1. passed' = passed /\ promise' = Kept(promise) /\ (disturbed' = "no" => disturbed = "no")
      BY <2>4 DEF Store
    <3>2. Promises'
      <4>1. \A i \in D : promise'[i] > 0 => disturbed' = "no" /\ promise'[i] = promise[i]
        BY <3>1 DEF Kept, D
      <4> QED BY <2>0, <3>1, <4>1, PromisesKept
    <3>3. disturbed' = "no" => Precise'
      BY <2>0, <2>4, <3>1, StoreE
    <3> QED BY <3>2, <3>3 DEF InvE
  <2>5. ASSUME NEW r \in Requests, Tell(r) PROVE InvE'
    <3>1. disturbed' = disturbed
      BY <2>5 DEF Tell
    <3> QED BY <2>0, <2>5, <3>1, TellE, TellP DEF InvE
  <2>6. CASE Tick
    <3>1. disturbed' = disturbed /\ passed' = passed /\ promise' = promise
      BY <2>6 DEF Tick
    <3>2. Promises'
      BY <2>0, <3>1, PromisesKept DEF Promises
    <3> QED BY <2>0, <2>6, <3>1, <3>2, TickE DEF InvE
  <2>7. CASE UNCHANGED vars
    <3>1. disturbed' = disturbed /\ passed' = passed /\ promise' = promise
      BY <2>7 DEF vars
    <3>2. Precise => Precise'
      BY <2>7, ZenonT(40) DEF vars, Precise, Allowing, Exactly, TrimsExactly, AllRecent, Recent, Waits, Looked, History, Elements, Limit, Window
    <3>3. Promises'
      BY <2>0, <3>1, PromisesKept DEF Promises
    <3> QED BY <2>0, <3>1, <3>2, <3>3 DEF InvE
  <2> QED BY <2>1, <2>2, <2>3, <2>4, <2>5, <2>6, <2>7 DEF Next
<1>2. Init => InvE
  BY InitE
<1> QED BY <1>1, <1>2, InvAHolds, InvSHolds, PTL DEF Spec

\* Retry-After is honest (throttles.go:157, api_views.go:206): who comes again when it
\* told to, one request at a time, is not refused by the same throttle, although the
\* seconds are whole and the refused request has trimmed the array in the cache.
THEOREM RetryAfterIsHonestAlways == Spec => RetryAfterIsHonest
<1>1. ASSUME InvA, InvS, InvE, NEW r \in Requests, Refuse(r)
      PROVE  promise[req[r].i] = 0 \/ req[r].now < promise[req[r].i]
  <2> DEFINE i == req[r].i
  <2>1. i \in D /\ promise[i] \in Nat
    <3>1. Typed /\ i \in D
      BY <1>1, HeldBy DEF InvA
    <3> QED BY <3>1 DEF Typed
  <2> SUFFICES ASSUME promise[i] # 0 PROVE req[r].now < promise[i]
    OBVIOUS
  <2>2. disturbed = "no" /\ Oldest(i) + Window(i) <= promise[i]
    BY <2>1, <1>1 DEF InvE, Promises
  <2>3. Counts /\ Precise
    BY <1>1, <2>2 DEF InvS, InvE
  <2>4. req[r].at = "scan" /\ req[r].scan = req[r].slice.len /\ req[r].kept >= Limit(i)
    BY <1>1, RefuseStep
  <2>5. Oldest(i) = First(r) /\ First(r) \in Nat /\ req[r].now - First(r) < Window(i)
    BY <1>1, <2>3, <2>4, OldestKept
  <2>6. req[r].now \in Nat /\ Window(i) \in Nat
    BY <1>1, HeldBy, ThrottlesTyped DEF InvA, Locals
  <2> HIDE DEF i
  <2> QED BY <2>1, <2>2, <2>5, <2>6
<1> DEFINE Step == \A r \in Requests : Refuse(r) => promise[req[r].i] = 0 \/ req[r].now < promise[req[r].i]
<1>2. InvA /\ InvS /\ InvE => Step
  BY <1>1
<1>3. RetryAfterIsHonest <=> [][Step]_vars
  BY DEF RetryAfterIsHonest
<1> HIDE DEF Step
<1> QED BY <1>2, <1>3, InvAHolds, InvSHolds, InvEHolds, PTL
=============================================================================
