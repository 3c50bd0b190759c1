-------------------------- MODULE OrmClients_proofs --------------------------
(***************************************************************************)
(* That querysets are immutable although their slices share a heap, for    *)
(* any chain of calls and in any program of clients; that no call but      *)
(* Aggregate keeps a connection, whatever the database replies; and that   *)
(* GetOrCreate makes one row of what is unique.                            *)
(***************************************************************************)
EXTENDS OrmClients, FiniteSetTheorems, TLAPS

-----------------------------------------------------------------------------
(* Sequences, whatever they hold.                                          *)

IsSeq(h) == h \in Seq({h[i] : i \in DOMAIN h})

LEMMA SeqIsSeq ==
    ASSUME NEW S, NEW h \in Seq(S) PROVE IsSeq(h)
<1> DEFINE R == {h[i] : i \in DOMAIN h}
<1>1. DOMAIN h = 1..Len(h) /\ Len(h) \in Nat /\ h = [i \in 1..Len(h) |-> h[i]]
  OBVIOUS
<1>2. \A i \in 1..Len(h) : h[i] \in R
  BY <1>1
<1>3. h \in [1..Len(h) -> R]
  BY <1>1, <1>2
<1>4. h \in Seq(R)
  BY <1>1, <1>3
<1> QED BY <1>4 DEF IsSeq

LEMMA AppendLengthens ==
    ASSUME NEW h, IsSeq(h), NEW x
    PROVE  /\ IsSeq(Append(h, x))
           /\ Len(h) \in Nat
           /\ Len(Append(h, x)) = Len(h) + 1
           /\ \A i \in 1..Len(h) : Append(h, x)[i] = h[i]
<1> DEFINE S == {h[i] : i \in DOMAIN h} \union {x}
<1>1. h \in Seq(S) /\ x \in S
  BY DEF IsSeq
<1>2. Append(h, x) \in Seq(S)
  BY <1>1
<1> HIDE DEF S
<1>3. IsSeq(Append(h, x))
  BY <1>2, SeqIsSeq
<1> QED BY <1>1, <1>3

LEMMA ConcatLengthens ==
    ASSUME NEW h, IsSeq(h), NEW g, IsSeq(g)
    PROVE  /\ IsSeq(h \o g)
           /\ Len(h) \in Nat
           /\ Len(h \o g) = Len(h) + Len(g)
           /\ \A i \in 1..Len(h) : (h \o g)[i] = h[i]
<1> DEFINE S == {h[i] : i \in DOMAIN h} \union {g[i] : i \in DOMAIN g}
<1>1. h \in Seq(S) /\ g \in Seq(S)
  BY DEF IsSeq
<1>2. h \o g \in Seq(S)
  BY <1>1
<1> HIDE DEF S
<1>3. IsSeq(h \o g)
  BY <1>2, SeqIsSeq
<1> QED BY <1>1, <1>3

LEMMA FunctionIsSeq ==
    ASSUME NEW f, NEW n \in Nat, f = [i \in 1..n |-> f[i]]
    PROVE  IsSeq(f) /\ Len(f) = n
<1> DEFINE S == {f[i] : i \in 1..n}
<1>1. f \in [1..n -> S]
  OBVIOUS
<1>2. f \in Seq(S) /\ Len(f) = n
  BY <1>1
<1> HIDE DEF S
<1>3. IsSeq(f)
  BY <1>2, SeqIsSeq
<1> QED BY <1>2, <1>3

LEMMA SameDomainIsSeq ==
    ASSUME NEW h, IsSeq(h), NEW g, g = [i \in DOMAIN h |-> g[i]]
    PROVE  IsSeq(g) /\ Len(g) = Len(h)
<1>1. DOMAIN h = 1..Len(h) /\ Len(h) \in Nat
  BY DEF IsSeq
<1>2. g = [i \in 1..Len(h) |-> g[i]]
  BY <1>1
<1> QED BY <1>1, <1>2, FunctionIsSeq
-----------------------------------------------------------------------------
(* The heap.  Every slice of a queryset lies in an array that there is; a  *)
(* call writes into arrays only that are younger than it, so that what the *)
(* older querysets hold stays.                                             *)

Placed(qs, low, high) ==
    /\ "slice" \in DOMAIN qs
    /\ DOMAIN qs.slice = Kinds
    /\ \A k \in Kinds : qs.slice[k].arr \in low..high

HeapInv ==
    /\ IsSeq(heap) /\ Len(heap) >= 1
    /\ IsSeq(sets)
    /\ \A q \in DOMAIN sets : Placed(sets[q], 1, Len(heap))

\* A method in the making that began with heap h leaves what was there.
Extends(m, h) ==
    /\ m = [heap |-> m.heap, qs |-> m.qs]
    /\ IsSeq(m.heap) /\ Len(h) <= Len(m.heap)
    /\ \A i \in 1..Len(h) : m.heap[i] = h[i]

\* The slices of a clone are new arrays.
LEMMA CloneIsNew ==
    ASSUME NEW h, IsSeq(h), NEW qs, Placed(qs, 1, Len(h))
    PROVE  /\ Extends(Clone(h, qs), h)
           /\ Placed(Clone(h, qs).qs, Len(h) + 1, Len(Clone(h, qs).heap))
<1> DEFINE copies == [i \in 1..7 |-> LET k == CHOOSE kind \in Kinds : Place[kind] = i IN Elems(h, qs.slice[k])]
           made == Clone(h, qs)
<1>1. copies = [i \in 1..7 |-> copies[i]] /\ 7 \in Nat
  OBVIOUS
<1>2. made.heap = h \o copies /\ made = [heap |-> made.heap, qs |-> made.qs]
  BY DEF Clone
<1>3. made.qs = [qs EXCEPT !.slice = [k \in Kinds |-> [arr |-> Len(h) + Place[k], len |-> qs.slice[k].len]]]
  BY DEF Clone
<1> HIDE DEF copies, made
<1>4. IsSeq(copies) /\ Len(copies) = 7
  BY <1>1, FunctionIsSeq
<1>5. /\ IsSeq(made.heap) /\ Len(h) \in Nat /\ Len(made.heap) = Len(h) + 7
      /\ \A i \in 1..Len(h) : made.heap[i] = h[i]
  <2>1. IsSeq(h \o copies) /\ Len(h) \in Nat /\ Len(h \o copies) = Len(h) + Len(copies)
    BY <1>4, ConcatLengthens
  <2>2. \A i \in 1..Len(h) : (h \o copies)[i] = h[i]
    BY <1>4, ConcatLengthens
  <2> QED BY <1>2, <1>4, <2>1, <2>2
<1>6. \A k \in Kinds : Place[k] \in 1..7
  BY DEF Kinds, Place
<1>7. made.qs.slice = [k \in Kinds |-> [arr |-> Len(h) + Place[k], len |-> qs.slice[k].len]] /\ "slice" \in DOMAIN made.qs
  BY <1>3 DEF Placed
<1>8. \A k \in Kinds : made.qs.slice[k].arr \in (Len(h) + 1)..Len(made.heap)
  BY <1>5, <1>6, <1>7
<1> QED BY <1>2, <1>5, <1>7, <1>8 DEF Extends, Placed, made

\* append writes into the clone's own array, or into one that is newer still.
LEMMA AppendToKeeps ==
    ASSUME NEW h, IsSeq(h), NEW m, Extends(m, h), Placed(m.qs, Len(h) + 1, Len(m.heap)),
           NEW kind \in Kinds, NEW cells
    PROVE  /\ Extends(AppendTo(m, kind, cells), h)
           /\ Placed(AppendTo(m, kind, cells).qs, 1, Len(AppendTo(m, kind, cells).heap))
<1> DEFINE s == m.qs.slice[kind]
           cap == Len(m.heap[s.arr])
           need == s.len + Len(cells)
           wide == IF 2 * cap < need THEN need ELSE 2 * cap
           cell(old, i) == IF i <= s.len THEN m.heap[s.arr][i] ELSE IF i <= need THEN cells[i - s.len] ELSE old
           inPlace == [i \in 1..cap |-> cell(m.heap[s.arr][i], i)]
           grown == [i \in 1..wide |-> cell(Blank, i)]
           made == AppendTo(m, kind, cells)
<1>1. Len(h) \in Nat /\ Len(m.heap) \in Nat
  BY DEF Extends, IsSeq
<1>2. s.arr \in (Len(h) + 1)..Len(m.heap) /\ s.arr \in 1..Len(m.heap) /\ \A i \in 1..Len(h) : i # s.arr
  BY <1>1 DEF Placed
<1>3. CASE need <= cap
  <2>1. made = [heap |-> [m.heap EXCEPT ![s.arr] = inPlace], qs |-> [m.qs EXCEPT !.slice[kind] = [arr |-> s.arr, len |-> need]]]
    BY <1>3 DEF AppendTo
  <2> HIDE DEF inPlace, made, s, need
  <2>2. /\ IsSeq(made.heap) /\ Len(made.heap) = Len(m.heap)
        /\ \A i \in 1..Len(m.heap) : i # s.arr => made.heap[i] = m.heap[i]
    <3> DEFINE new == [m.heap EXCEPT ![s.arr] = inPlace]
    <3>1. IsSeq(m.heap)
      BY DEF Extends
    <3>4. new = [m.heap EXCEPT ![s.arr] = inPlace]
      OBVIOUS
    <3>5. new = [i \in DOMAIN m.heap |-> new[i]] /\ \A i \in DOMAIN m.heap : i # s.arr => new[i] = m.heap[i]
      OBVIOUS
    <3> HIDE DEF new
    <3>6. IsSeq(new) /\ Len(new) = Len(m.heap)
      BY <3>1, <3>5, SameDomainIsSeq
    <3>7. DOMAIN m.heap = 1..Len(m.heap)
      BY <3>1 DEF IsSeq
    <3>2. IsSeq(new) /\ Len(new) = Len(m.heap) /\ \A i \in 1..Len(m.heap) : i # s.arr => new[i] = m.heap[i]
      BY <3>5, <3>6, <3>7
    <3>3. made.heap = new
      BY <2>1, <3>4
    <3> QED BY <3>2, <3>3
  <2>3. Extends(made, h)
    BY <1>1, <1>2, <2>1, <2>2 DEF Extends
  <2>4. Placed(made.qs, 1, Len(made.heap))
    BY <1>1, <1>2, <2>1, <2>2 DEF Placed
  <2> QED BY <2>3, <2>4 DEF made
<1>4. CASE ~(need <= cap)
  <2>1. made = [heap |-> Append(m.heap, grown), qs |-> [m.qs EXCEPT !.slice[kind] = [arr |-> Len(m.heap) + 1, len |-> need]]]
    BY <1>4 DEF AppendTo
  <2> HIDE DEF grown, made, s, need
  <2>2. /\ IsSeq(made.heap) /\ Len(made.heap) = Len(m.heap) + 1
        /\ \A i \in 1..Len(m.heap) : made.heap[i] = m.heap[i]
    BY <2>1, AppendLengthens DEF Extends
  <2>3. Extends(made, h)
    BY <1>1, <2>1, <2>2 DEF Extends
  <2>4. Placed(made.qs, 1, Len(made.heap))
    BY <1>1, <2>1, <2>2 DEF Placed
  <2> QED BY <2>3, <2>4 DEF made
<1> QED BY <1>3, <1>4

LEMMA ReverseKeeps ==
    ASSUME NEW h, IsSeq(h), NEW m, Extends(m, h), Placed(m.qs, Len(h) + 1, Len(m.heap))
    PROVE  /\ Extends(Reverse(m), h)
           /\ Placed(Reverse(m).qs, 1, Len(Reverse(m).heap))
<1> DEFINE s == m.qs.slice["orderBy"]
           turned == [i \in DOMAIN m.heap[s.arr] |-> IF i <= s.len THEN Flip(m.heap[s.arr][i]) ELSE m.heap[s.arr][i]]
           made == Reverse(m)
<1>1. Len(h) \in Nat /\ Len(m.heap) \in Nat /\ "orderBy" \in Kinds
  BY DEF Extends, IsSeq, Kinds
<1>2. s.arr \in 1..Len(m.heap) /\ \A i \in 1..Len(h) : i # s.arr
  BY <1>1 DEF Placed
<1>3. CASE s.len = 0
  <2>1. made = [heap |-> Append(m.heap, DefaultOrdering),
                qs |-> [m.qs EXCEPT !.slice["orderBy"] = [arr |-> Len(m.heap) + 1, len |-> Len(DefaultOrdering)]]]
    BY <1>3 DEF Reverse
  <2> HIDE DEF made, s
  <2>2. /\ IsSeq(made.heap) /\ Len(made.heap) = Len(m.heap) + 1
        /\ \A i \in 1..Len(m.heap) : made.heap[i] = m.heap[i]
    BY <2>1, AppendLengthens DEF Extends
  <2>3. Extends(made, h)
    BY <1>1, <2>1, <2>2 DEF Extends
  <2>4. Placed(made.qs, 1, Len(made.heap))
    BY <1>1, <2>1, <2>2, SMTT(30) DEF Placed
  <2> QED BY <2>3, <2>4 DEF made
<1>4. CASE s.len # 0
  <2>1. made = [m EXCEPT !.heap = [m.heap EXCEPT ![s.arr] = turned]]
    BY <1>4 DEF Reverse
  <2> HIDE DEF made, turned
  <2>2. made = [heap |-> [m.heap EXCEPT ![s.arr] = turned], qs |-> m.qs]
    BY <2>1 DEF Extends
  <2> HIDE DEF s
  <2>3. /\ IsSeq(made.heap) /\ Len(made.heap) = Len(m.heap)
        /\ \A i \in 1..Len(m.heap) : i # s.arr => made.heap[i] = m.heap[i]
    <3> DEFINE new == [m.heap EXCEPT ![s.arr] = turned]
    <3>1. IsSeq(m.heap)
      BY DEF Extends
    <3>4. new = [m.heap EXCEPT ![s.arr] = turned]
      OBVIOUS
    <3>5. new = [i \in DOMAIN m.heap |-> new[i]] /\ \A i \in DOMAIN m.heap : i # s.arr => new[i] = m.heap[i]
      OBVIOUS
    <3> HIDE DEF new
    <3>6. IsSeq(new) /\ Len(new) = Len(m.heap)
      BY <3>1, <3>5, SameDomainIsSeq
    <3>7. DOMAIN m.heap = 1..Len(m.heap)
      BY <3>1 DEF IsSeq
    <3>2. IsSeq(new) /\ Len(new) = Len(m.heap) /\ \A i \in 1..Len(m.heap) : i # s.arr => new[i] = m.heap[i]
      BY <3>5, <3>6, <3>7
    <3>3. made.heap = new
      BY <2>2, <3>4
    <3> QED BY <3>2, <3>3
  <2>4. Extends(made, h)
    BY <1>1, <1>2, <2>2, <2>3 DEF Extends
  <2>5. Placed(made.qs, 1, Len(made.heap))
    BY <1>1, <2>2, <2>3 DEF Placed
  <2> QED BY <2>4, <2>5 DEF made
<1> QED BY <1>3, <1>4

\* The other methods change what is no slice, or drop one.
LEMMA SetKeeps ==
    ASSUME NEW h, NEW m, Extends(m, h), NEW low, NEW high, Placed(m.qs, low, high), NEW plain
    PROVE  /\ Extends(Set(m, plain), h) /\ Set(m, plain).heap = m.heap
           /\ Placed(Set(m, plain).qs, low, high)
<1>1. Set(m, plain) = [heap |-> m.heap, qs |-> [m.qs EXCEPT !.plain = plain]]
  BY DEF Set, Extends
<1> QED BY <1>1 DEF Extends, Placed

LEMMA DroppedKeeps ==
    ASSUME NEW h, IsSeq(h), Len(h) >= 1, NEW m, Extends(m, h), Placed(m.qs, 1, Len(m.heap)), NEW kind \in Kinds
    PROVE  /\ Extends(Dropped(m, kind), h)
           /\ Placed(Dropped(m, kind).qs, 1, Len(Dropped(m, kind).heap))
<1>1. Dropped(m, kind) = [heap |-> m.heap, qs |-> [m.qs EXCEPT !.slice[kind] = [arr |-> 1, len |-> 0]]]
  BY DEF Dropped, Extends
<1>2. 1 \in 1..Len(m.heap)
  BY DEF Extends, IsSeq
<1> QED BY <1>1, <1>2 DEF Extends, Placed

\* What every method makes of its clone.
LEMMA ChangeKeeps ==
    ASSUME NEW h, IsSeq(h), Len(h) >= 1, NEW m, Extends(m, h), Placed(m.qs, Len(h) + 1, Len(m.heap)),
           NEW step, step.op \in Methods
    PROVE  /\ Extends(Change(m, step), h)
           /\ Placed(Change(m, step).qs, 1, Len(Change(m, step).heap))
<1> DEFINE plain == m.qs.plain
<1> USE DEF Methods
<1>0. Len(h) \in Nat /\ Len(m.heap) \in Nat
  BY DEF IsSeq, Extends
<1>p. Placed(m.qs, 1, Len(m.heap))
  BY <1>0 DEF Placed
<1>1. CASE step.op \in Appending
  <2>1. step.op \in Kinds
    BY <1>1 DEF Appending, Kinds
  <2>2. Change(m, step) = AppendTo(m, step.op, step.cells)
    <3>1. step.op \notin {"reverse", "limit", "offset", "distinct", "only", "defer", "select", "values",
                          "forUpdate", "none", "using", "all"}
      BY <1>1 DEF Appending
    <3> QED BY <1>1, <3>1 DEF Change
  <2> QED BY <2>1, <2>2, AppendToKeeps
<1>2. CASE step.op = "reverse"
  <2>1. Change(m, step) = Reverse(m)
    BY <1>2, Zenon DEF Change, Appending
  <2> QED BY <2>1, ReverseKeeps
<1>3. CASE step.op \in {"limit", "offset", "distinct", "select", "values", "forUpdate", "none", "using"}
  <2>1. PICK some : Change(m, step) = Set(m, some)
    BY <1>3, Zenon DEF Change, Appending
  <2> QED BY <1>p, <2>1, SetKeeps
<1>4. CASE step.op = "only"
  <2> DEFINE set == Set(m, [plain EXCEPT !.only = step.fields])
  <2>1. Change(m, step) = Dropped(set, "deferFields") /\ "deferFields" \in Kinds
    BY <1>4, Zenon DEF Change, Appending, Kinds
  <2>2. Extends(set, h) /\ set.heap = m.heap /\ Placed(set.qs, 1, Len(m.heap))
    BY <1>p, SetKeeps
  <2> HIDE DEF set
  <2>3. Placed(set.qs, 1, Len(set.heap))
    BY <2>2
  <2> QED BY <2>1, <2>2, <2>3, DroppedKeeps
<1>5. CASE step.op = "defer"
  <2> DEFINE set == Set(m, [plain EXCEPT !.only = <<>>])
  <2>1. Change(m, step) = AppendTo(set, "deferFields", step.cells) /\ "deferFields" \in Kinds
    BY <1>5, Zenon DEF Change, Appending, Kinds
  <2>2. Extends(set, h) /\ Placed(set.qs, Len(h) + 1, Len(set.heap))
    BY SetKeeps, SMTT(30)
  <2> HIDE DEF set
  <2> QED BY <2>1, <2>2, AppendToKeeps
<1>6. CASE step.op = "all"
  <2>1. Change(m, step) = m
    BY <1>6, Zenon DEF Change, Appending
  <2> QED BY <1>p, <2>1
<1> QED BY <1>1, <1>2, <1>3, <1>4, <1>5, <1>6

LEMMA HeapInit == Init => HeapInv
<1> SUFFICES ASSUME Init PROVE HeapInv
  OBVIOUS
<1>1. IsSeq(heap) /\ Len(heap) = 1
  <2>1. heap = [i \in 1..1 |-> heap[i]]
    BY DEF Init
  <2> QED BY <2>1, FunctionIsSeq
<1>2. IsSeq(sets) /\ Len(sets) = 1 /\ sets[1] = NewBaseQuerySet
  <2>1. sets = [i \in 1..1 |-> sets[i]] /\ sets[1] = NewBaseQuerySet
    BY DEF Init
  <2> QED BY <2>1, FunctionIsSeq
<1>3. Placed(NewBaseQuerySet, 1, 1)
  BY DEF Placed, NewBaseQuerySet
<1>4. DOMAIN sets = {1}
  BY DEF Init
<1> QED BY <1>1, <1>2, <1>3, <1>4 DEF HeapInv

LEMMA CallKeeps ==
    ASSUME HeapInv, NEW q \in DOMAIN sets, NEW step \in Steps, Call(q, step)
    PROVE  /\ HeapInv'
           /\ Len(heap) <= Len(heap')
           /\ \A i \in 1..Len(heap) : heap'[i] = heap[i]
           /\ \A i \in DOMAIN sets : i \in DOMAIN sets' /\ sets'[i] = sets[i]
<1> DEFINE cl == Clone(heap, sets[q])
           made == Change(cl, step)
<1>0. step.op \in Methods
  BY QuerySetsAssumption
<1>1. heap' = made.heap /\ sets' = Append(sets, made.qs)
  BY Zenon DEF Call
<1>2. IsSeq(heap) /\ Len(heap) >= 1 /\ IsSeq(sets) /\ Placed(sets[q], 1, Len(heap))
  BY DEF HeapInv
<1>3. Extends(cl, heap) /\ Placed(cl.qs, Len(heap) + 1, Len(cl.heap))
  BY <1>2, CloneIsNew
<1> HIDE DEF cl
<1>4. Extends(made, heap) /\ Placed(made.qs, 1, Len(made.heap))
  BY <1>0, <1>2, <1>3, ChangeKeeps
<1> HIDE DEF made
<1>5. IsSeq(heap') /\ Len(heap) <= Len(heap') /\ \A i \in 1..Len(heap) : heap'[i] = heap[i]
  BY <1>1, <1>4 DEF Extends
<1>6. /\ IsSeq(sets') /\ Len(sets) \in Nat /\ Len(sets') = Len(sets) + 1
      /\ \A i \in 1..Len(sets) : sets'[i] = sets[i]
  BY <1>1, <1>2, AppendLengthens
<1>7. DOMAIN sets = 1..Len(sets) /\ DOMAIN sets' = 1..Len(sets') /\ Len(heap) \in Nat /\ Len(heap') \in Nat
  <2>1. \A h : IsSeq(h) => DOMAIN h = 1..Len(h) /\ Len(h) \in Nat
    BY DEF IsSeq
  <2> QED BY <1>2, <1>5, <1>6, <2>1
<1>8. sets'[Len(sets) + 1] = made.qs
  <2>1. sets \in Seq({sets[i] : i \in DOMAIN sets} \union {made.qs})
    BY <1>2 DEF IsSeq
  <2> QED BY <1>1, <2>1
<1>9. ASSUME NEW i \in DOMAIN sets' PROVE Placed(sets'[i], 1, Len(heap'))
  <2>1. CASE i \in DOMAIN sets
    <3>1. Placed(sets[i], 1, Len(heap)) /\ sets'[i] = sets[i]
      BY <1>6, <1>7, <2>1 DEF HeapInv
    <3> QED BY <1>5, <1>7, <3>1 DEF Placed
  <2>2. CASE i = Len(sets) + 1
    BY <1>1, <1>4, <1>8, <2>2
  <2> QED BY <1>6, <1>7, <2>1, <2>2
<1> QED BY <1>2, <1>5, <1>6, <1>7, <1>9 DEF HeapInv

LEMMA SetsStay ==
    ASSUME HeapInv, UNCHANGED qsvars PROVE HeapInv'
BY DEF HeapInv, qsvars, Placed, IsSeq

\* The older querysets read what they have read before.
LEMMA CallIsImmutable ==
    ASSUME HeapInv, NEW q \in DOMAIN sets, NEW step \in Steps, Call(q, step), NEW old \in DOMAIN sets
    PROVE  Contents(old)' = Contents(old)
<1>1. sets'[old] = sets[old] /\ \A i \in 1..Len(heap) : heap'[i] = heap[i]
  BY CallKeeps
<1>2. ASSUME NEW k \in Kinds PROVE Elems(heap', sets[old].slice[k]) = Elems(heap, sets[old].slice[k])
  <2>1. sets[old].slice[k].arr \in 1..Len(heap)
    BY DEF HeapInv, Placed
  <2>2. heap'[sets[old].slice[k].arr] = heap[sets[old].slice[k].arr]
    BY <1>1, <2>1
  <2> QED BY <2>2 DEF Elems
<1>3. [k \in Kinds |-> Elems(heap', sets[old].slice[k])] = [k \in Kinds |-> Elems(heap, sets[old].slice[k])]
  BY <1>2
<1> QED BY <1>1, <1>3 DEF Contents

LEMMA HeapInvAlways == Spec => []HeapInv
<1>1. HeapInv /\ [Next]_qsvars => HeapInv'
  BY CallKeeps, SetsStay DEF Next
<1> QED BY HeapInit, <1>1, PTL DEF Spec

\* Making a queryset from another changes nothing that any queryset made before
\* holds (queryset.go:53-79), whatever the chain of calls.
THEOREM QuerySetsAreImmutableAlways == Spec => QuerySetsAreImmutable
<1>1. HeapInv /\ [Next]_qsvars => [\A q \in DOMAIN sets : Contents(q)' = Contents(q)]_qsvars
  BY CallIsImmutable DEF Next
<1> QED BY <1>1, HeapInvAlways, PTL DEF Spec, QuerySetsAreImmutable

\* No client touches a queryset: a program with clients implements QuerySets
\* (queryset.go:279-381; First, Last and Get change a clone of their own).
THEOREM ClientsImplementQuerySets == ormSpec => Spec
<1>1. ormInit => Init
  BY DEF ormInit
<1>2. [ormNext]_vars => [Next]_qsvars
  <2> SUFFICES ASSUME [ormNext]_vars PROVE [Next]_qsvars
    OBVIOUS
  <2>1. CASE \E q \in DOMAIN sets, step \in Steps : Extend(q, step)
    BY <2>1 DEF Extend, Next
  <2>2. CASE UNCHANGED vars
    BY <2>2 DEF vars, program
  <2>3. CASE \E c \in Clients :
              \/ ReadCalls(c) \/ GetOrCreate(c) \/ Scan(c) \/ ScanFails(c) \/ Count(c) \/ Aggregate(c)
    BY <2>3 DEF ReadCalls, GetOrCreate, Select, SelectNothing, Scan, ScanFails, Count, Aggregate, program
  <2>4. CASE \E c \in Clients :
              \/ \E values \in Assigned : Update(c, values)
              \/ \E updates \in Computed : UpdateExpr(c, updates)
              \/ Delete(c)
              \/ \E records \in Creates : StartCreate(c, records)
              \/ Insert(c) \/ InsertFails(c)
    BY <2>4 DEF Update, UpdateExpr, Delete, Write, StartCreate, Insert, InsertFails, program
  <2> QED BY <2>1, <2>2, <2>3, <2>4 DEF ormNext
<1> QED BY <1>1, <1>2, PTL DEF ormSpec, Spec

\* What any client reads from a queryset is what its chain put there, whatever the
\* others have called in the meantime.
THEOREM QuerySetsAreImmutableForClients == ormSpec => QuerySetsAreImmutable
BY ClientsImplementQuerySets, QuerySetsAreImmutableAlways, PTL
-----------------------------------------------------------------------------
(* The connections.  A client that holds rows asked for them with one of   *)
(* five calls, and whatever the rows are, each of these ends or goes on to *)
(* an INSERT when it has read them.                                        *)

Scanning(calls) == {c \in Clients : calls[c].at = "scan"}

ReadKinds == {"first", "last", "all", "get", "getOrCreate"}

WellMade(x) == "at" \in DOMAIN x /\ (x.at = "scan" => x.kind \in ReadKinds)

PoolInv ==
    /\ free \in Nat /\ leaked \in Nat
    /\ DOMAIN call = Clients
    /\ \A c \in Clients : WellMade(call[c])
    /\ free + Cardinality(Scanning(call)) + leaked = Connections

\* Only the call of client c is another one than before.
OnlyOf(c, before, after) ==
    DOMAIN after = Clients /\ \A d \in Clients : d # c => after[d] = before[d]

LEMMA ScanningIsFinite ==
    ASSUME NEW calls
    PROVE  IsFiniteSet(Scanning(calls)) /\ Cardinality(Scanning(calls)) \in Nat
<1>1. Scanning(calls) \subseteq Clients
  BY DEF Scanning
<1> QED BY <1>1, OrmAssumption, FS_Subset, FS_CardinalityType

LEMMA ScanningStays ==
    ASSUME NEW before, NEW after, NEW c \in Clients, OnlyOf(c, before, after),
           before[c].at = "scan" <=> after[c].at = "scan"
    PROVE  Cardinality(Scanning(after)) = Cardinality(Scanning(before))
<1>1. Scanning(after) = Scanning(before)
  BY DEF Scanning, OnlyOf
<1> QED BY <1>1

LEMMA ScanningBegins ==
    ASSUME NEW before, NEW after, NEW c \in Clients, OnlyOf(c, before, after),
           before[c].at # "scan", after[c].at = "scan"
    PROVE  Cardinality(Scanning(after)) = Cardinality(Scanning(before)) + 1
<1>1. Scanning(after) = Scanning(before) \union {c} /\ c \notin Scanning(before)
  BY DEF Scanning, OnlyOf
<1> QED BY <1>1, ScanningIsFinite, FS_AddElement

LEMMA ScanningEnds ==
    ASSUME NEW before, NEW after, NEW c \in Clients, OnlyOf(c, before, after),
           before[c].at = "scan", after[c].at # "scan"
    PROVE  Cardinality(Scanning(after)) + 1 = Cardinality(Scanning(before))
<1>1. Scanning(before) = Scanning(after) \union {c} /\ c \notin Scanning(after)
  BY DEF Scanning, OnlyOf
<1> QED BY <1>1, ScanningIsFinite, FS_AddElement

\* What follows from the rows is never another scan (queryset.go:383-440).
LEMMA AnsweredEndsTheScan ==
    ASSUME NEW kind \in ReadKinds, NEW found, NEW todo
    PROVE  Answered(kind, found, todo).at # "scan"
<1>1. found = <<>> => Len(found) # 1
  OBVIOUS
<1>2. CASE kind = "all"
  BY <1>2, Zenon DEF Answered
<1>3. CASE kind = "get" /\ Len(found) # 1
  BY <1>3 DEF Answered
<1>4. CASE kind = "get" /\ Len(found) = 1
  BY <1>1, <1>4 DEF Answered
<1>5. CASE kind = "getOrCreate"
  BY <1>5 DEF Answered
<1>6. CASE kind \in {"first", "last"}
  BY <1>6 DEF Answered
<1> QED BY <1>2, <1>3, <1>4, <1>5, <1>6 DEF ReadKinds

\* Whatever ends a call, only that call is another one.
LEMMA DoneEnds ==
    ASSUME NEW c \in Clients, NEW how, DOMAIN call = Clients, WellMade(call[c])
    PROVE  OnlyOf(c, call, Done(c, how)) /\ WellMade(Done(c, how)[c]) /\ Done(c, how)[c].at = "done"
BY DEF Done, OnlyOf, WellMade

LEMMA PoolInit == ormInit => PoolInv
<1> SUFFICES ASSUME ormInit PROVE PoolInv
  OBVIOUS
<1>1. Scanning(call) = {}
  BY DEF ormInit, Scanning, Idle
<1>2. Cardinality(Scanning(call)) = 0
  BY <1>1, FS_EmptySet
<1>3. \A c \in Clients : WellMade(call[c])
  BY DEF ormInit, WellMade, Idle
<1>4. free = Connections /\ leaked = 0 /\ DOMAIN call = Clients
  BY DEF ormInit
<1> QED BY <1>2, <1>3, <1>4, OrmAssumption DEF PoolInv

\* The three ways a step can be with the pool.
LEMMA PoolStays ==
    ASSUME PoolInv, NEW c \in Clients, OnlyOf(c, call, call'), WellMade(call'[c]),
           free' = free, leaked' = leaked, call[c].at # "scan", call'[c].at # "scan"
    PROVE  PoolInv'
<1>1. Cardinality(Scanning(call')) = Cardinality(Scanning(call))
  BY ScanningStays
<1>2. DOMAIN call' = Clients /\ \A d \in Clients : WellMade(call'[d])
  BY DEF PoolInv, OnlyOf
<1> QED BY <1>1, <1>2 DEF PoolInv

LEMMA PoolGives ==
    ASSUME PoolInv, NEW c \in Clients, OnlyOf(c, call, call'), WellMade(call'[c]),
           free > 0, free' = free - 1, leaked' = leaked, call[c].at # "scan", call'[c].at = "scan"
    PROVE  PoolInv'
<1>1. Cardinality(Scanning(call')) = Cardinality(Scanning(call)) + 1
  BY ScanningBegins
<1>2. DOMAIN call' = Clients /\ \A d \in Clients : WellMade(call'[d])
  BY DEF PoolInv, OnlyOf
<1>3. Cardinality(Scanning(call)) \in Nat
  BY ScanningIsFinite
<1> QED BY <1>1, <1>2, <1>3, OrmAssumption DEF PoolInv

LEMMA PoolTakes ==
    ASSUME PoolInv, NEW c \in Clients, OnlyOf(c, call, call'), WellMade(call'[c]),
           free' = free + 1, leaked' = leaked, call[c].at = "scan", call'[c].at # "scan"
    PROVE  PoolInv'
<1>1. Cardinality(Scanning(call')) + 1 = Cardinality(Scanning(call))
  BY ScanningEnds
<1>2. DOMAIN call' = Clients /\ \A d \in Clients : WellMade(call'[d])
  BY DEF PoolInv, OnlyOf
<1>3. Cardinality(Scanning(call)) \in Nat /\ Cardinality(Scanning(call')) \in Nat
  BY ScanningIsFinite
<1> QED BY <1>1, <1>2, <1>3, OrmAssumption DEF PoolInv

\* Reading.
LEMMA SelectKeepsThePool ==
    ASSUME PoolInv, NEW c \in Clients, NEW kind \in ReadKinds, NEW lookups, NEW todo, NEW want,
           Select(c, kind, lookups, todo, want)
    PROVE  PoolInv'
<1> DEFINE results == Selects(Env, Meta, Asked(kind, Newest, lookups), rows)
<1>1. call[c].at = "idle" /\ free > 0 /\ leaked' = leaked /\ Query(c, kind, results, todo, want)
  BY Zenon DEF Select, Calls
<1> HIDE DEF results
<1>2. CASE results = {}
  <2>1. call' = Done(c, "error") /\ free' = free
    BY <1>1, <1>2 DEF Query
  <2> QED BY <1>1, <2>1, DoneEnds, PoolStays DEF PoolInv
<1>3. CASE results # {}
  <2> DEFINE Asking(found) == [Idle EXCEPT !.at = "scan", !.kind = kind, !.found = found, !.todo = todo, !.want = want]
  <2>1. \E found \in results : call' = [call EXCEPT ![c] = Asking(found)]
    BY <1>1, <1>3, Zenon DEF Query
  <2>2. free' = free - 1
    BY <1>1, <1>3, Zenon DEF Query
  <2>3. \A found : Asking(found).at = "scan" /\ WellMade(Asking(found))
    BY DEF Idle, WellMade
  <2> HIDE DEF Asking
  <2>4. PICK found \in results : call' = [call EXCEPT ![c] = Asking(found)]
    BY <2>1
  <2>5. OnlyOf(c, call, call') /\ call'[c] = Asking(found)
    BY <2>4 DEF OnlyOf, PoolInv
  <2> QED BY <1>1, <2>2, <2>3, <2>5, PoolGives
<1> QED BY <1>2, <1>3

LEMMA SelectNothingKeepsThePool ==
    ASSUME PoolInv, NEW c \in Clients, NEW kind \in ReadKinds, NEW typed, NEW todo, NEW want,
           SelectNothing(c, kind, typed, todo, want)
    PROVE  PoolInv'
<1> DEFINE next == Answered(kind, <<>>, todo)
           ended == [Idle EXCEPT !.at = next.at, !.kind = kind, !.answer = next.answer, !.todo = todo, !.want = want]
<1>1. call[c].at = "idle" /\ leaked' = leaked /\ free' = free
  BY Zenon DEF SelectNothing, Calls
<1>2. (\E how : call' = Done(c, how)) \/ call' = [call EXCEPT ![c] = ended]
  BY Zenon DEF SelectNothing
<1>3. next.at # "scan"
  BY AnsweredEndsTheScan
<1> HIDE DEF next
<1>4. ended.at = next.at /\ WellMade(ended)
  BY <1>3 DEF Idle, WellMade
<1> HIDE DEF ended
<1>5. CASE \E how : call' = Done(c, how)
  BY <1>1, <1>5, DoneEnds, PoolStays DEF PoolInv
<1>6. CASE call' = [call EXCEPT ![c] = ended]
  <2>1. OnlyOf(c, call, call') /\ call'[c] = ended
    BY <1>6 DEF OnlyOf, PoolInv
  <2> QED BY <1>1, <1>3, <1>4, <2>1, PoolStays
<1> QED BY <1>2, <1>5, <1>6

LEMMA ScanKeepsThePool ==
    ASSUME PoolInv, NEW c \in Clients, Scan(c) PROVE PoolInv'
<1> DEFINE next == Answered(call[c].kind, call[c].found, call[c].todo)
<1>1. call[c].at = "scan" /\ free' = free + 1 /\ leaked' = leaked
  BY Zenon DEF Scan
<1>2. call' = [call EXCEPT ![c].at = next.at, ![c].answer = next.answer, ![c].found = <<>>]
  BY Zenon DEF Scan
<1>3. WellMade(call[c])
  BY DEF PoolInv
<1>4. next.at # "scan"
  BY <1>1, <1>3, AnsweredEndsTheScan DEF WellMade
<1> HIDE DEF next
<1>5. OnlyOf(c, call, call') /\ WellMade(call'[c]) /\ call'[c].at = next.at
  BY <1>2, <1>3, <1>4 DEF OnlyOf, WellMade, PoolInv
<1> QED BY <1>1, <1>4, <1>5, PoolTakes

LEMMA ScanFailsKeepsThePool ==
    ASSUME PoolInv, NEW c \in Clients, ScanFails(c) PROVE PoolInv'
<1>1. call[c].at = "scan" /\ free' = free + 1 /\ leaked' = leaked
  BY DEF ScanFails
<1>2. call' = [call EXCEPT ![c].at = "done", ![c].answer.how = "error", ![c].found = <<>>]
  BY DEF ScanFails
<1>3. WellMade(call[c])
  BY DEF PoolInv
<1>5. OnlyOf(c, call, call') /\ WellMade(call'[c]) /\ call'[c].at = "done"
  BY <1>2, <1>3 DEF OnlyOf, WellMade, PoolInv
<1> QED BY <1>1, <1>5, PoolTakes

\* An answer that is given at once, with a number in it or not.
LEMMA OkEnds ==
    ASSUME NEW c \in Clients, NEW how, NEW n, DOMAIN call = Clients, WellMade(call[c]),
           NEW after, after = [Done(c, how) EXCEPT ![c].answer.n = n]
    PROVE  OnlyOf(c, call, after) /\ WellMade(after[c]) /\ after[c].at = "done"
<1> DEFINE ended == Done(c, how)
<1>1. OnlyOf(c, call, ended) /\ WellMade(ended[c]) /\ ended[c].at = "done"
  BY DoneEnds
<1>2. after = [ended EXCEPT ![c].answer.n = n]
  OBVIOUS
<1> HIDE DEF ended
<1> QED BY <1>1, <1>2 DEF OnlyOf, WellMade

LEMMA CountKeepsThePool ==
    ASSUME PoolInv, NEW c \in Clients, Count(c) PROVE PoolInv'
<1> DEFINE reply == Counts(Env, Meta, Newest, rows)
<1>1. call[c].at = "idle" /\ free' = free /\ leaked' = leaked /\ call' = Counted(c, reply)
  BY Zenon DEF Count, Calls
<1> HIDE DEF reply
<1>2. (\E how : call' = Done(c, how)) \/ call' = [Done(c, "ok") EXCEPT ![c].answer.n = reply.n]
  BY <1>1, Zenon DEF Counted
<1> QED BY <1>1, <1>2, DoneEnds, OkEnds, PoolStays DEF PoolInv

\* The connection of an Aggregate goes to those that nobody gives back.
LEMMA AggregateKeepsThePool ==
    ASSUME PoolInv, NEW c \in Clients, Aggregate(c) PROVE PoolInv'
<1>1. call[c].at = "idle" /\ free > 0 /\ free' = free - 1 /\ leaked' = leaked + 1 /\ call' = Done(c, "error")
  BY DEF Aggregate, Calls
<1>2. OnlyOf(c, call, call') /\ WellMade(call'[c]) /\ call'[c].at = "done"
  BY <1>1, DoneEnds DEF PoolInv
<1>3. Cardinality(Scanning(call')) = Cardinality(Scanning(call))
  BY <1>1, <1>2, ScanningStays
<1>4. DOMAIN call' = Clients /\ \A d \in Clients : WellMade(call'[d])
  BY <1>2 DEF PoolInv, OnlyOf
<1>5. Cardinality(Scanning(call)) \in Nat
  BY ScanningIsFinite
<1> QED BY <1>1, <1>3, <1>4, <1>5, OrmAssumption DEF PoolInv

\* Writing.
LEMMA WriteKeepsThePool ==
    ASSUME PoolInv, NEW c \in Clients, NEW reply, Write(c, reply) PROVE PoolInv'
<1>1. call[c].at = "idle" /\ free' = free /\ leaked' = leaked
  BY Zenon DEF Write, Calls
<1>2. (\E how : call' = Done(c, how)) \/ call' = [Done(c, "ok") EXCEPT ![c].answer.n = reply.n]
  BY Zenon DEF Write
<1> QED BY <1>1, <1>2, DoneEnds, OkEnds, PoolStays DEF PoolInv

LEMMA StartCreateKeepsThePool ==
    ASSUME PoolInv, NEW c \in Clients, NEW records, StartCreate(c, records) PROVE PoolInv'
<1> DEFINE asked == [Idle EXCEPT !.at = "insert", !.kind = "create", !.todo = records]
<1>1. call[c].at = "idle" /\ free' = free /\ leaked' = leaked
  BY DEF StartCreate, Calls
<1>2. call' = Done(c, "error") \/ call' = [call EXCEPT ![c] = asked]
  BY Zenon DEF StartCreate
<1>3. asked.at = "insert" /\ WellMade(asked)
  BY DEF Idle, WellMade
<1> HIDE DEF asked
<1>4. CASE call' = [call EXCEPT ![c] = asked]
  BY <1>1, <1>3, <1>4, PoolStays DEF OnlyOf, PoolInv
<1> QED BY <1>1, <1>2, <1>4, DoneEnds, PoolStays DEF PoolInv

LEMMA InsertKeepsThePool ==
    ASSUME PoolInv, NEW c \in Clients, Insert(c) PROVE PoolInv'
<1>1. call[c].at = "insert" /\ free' = free /\ leaked' = leaked
  BY Zenon DEF Insert
<1>2. \/ call' = Done(c, "error")
      \/ \E answer : call' = [call EXCEPT ![c].at = "done", ![c].answer = answer]
      \/ \E rest, answer : call' = [call EXCEPT ![c].todo = rest, ![c].answer = answer]
  BY Zenon DEF Insert
<1>3. WellMade(call[c]) /\ DOMAIN call = Clients
  BY DEF PoolInv
<1>4. ASSUME NEW answer, call' = [call EXCEPT ![c].at = "done", ![c].answer = answer] PROVE PoolInv'
  <2>1. OnlyOf(c, call, call') /\ WellMade(call'[c]) /\ call'[c].at = "done"
    BY <1>3, <1>4 DEF OnlyOf, WellMade
  <2> QED BY <1>1, <2>1, PoolStays
<1>5. ASSUME NEW rest, NEW answer, call' = [call EXCEPT ![c].todo = rest, ![c].answer = answer] PROVE PoolInv'
  <2>1. OnlyOf(c, call, call') /\ WellMade(call'[c]) /\ call'[c].at = "insert"
    BY <1>1, <1>3, <1>5 DEF OnlyOf, WellMade
  <2> QED BY <1>1, <2>1, PoolStays
<1> QED BY <1>1, <1>2, <1>3, <1>4, <1>5, DoneEnds, PoolStays, ZenonT(40)

LEMMA InsertFailsKeepsThePool ==
    ASSUME PoolInv, NEW c \in Clients, InsertFails(c) PROVE PoolInv'
<1>1. call[c].at = "insert" /\ free' = free /\ leaked' = leaked /\ call' = Done(c, "error")
  BY Zenon DEF InsertFails
<1> QED BY <1>1, DoneEnds, PoolStays DEF PoolInv

LEMMA PoolUntouched ==
    ASSUME PoolInv, UNCHANGED <<free, leaked, call>> PROVE PoolInv'
<1>1. Scanning(call') = Scanning(call)
  BY DEF Scanning
<1> QED BY <1>1 DEF PoolInv

\* What a client does, by kinds.
LEMMA ReadingKeepsThePool ==
    ASSUME PoolInv, NEW c \in Clients,
           ReadCalls(c) \/ GetOrCreate(c) \/ Scan(c) \/ ScanFails(c) \/ Count(c) \/ Aggregate(c)
    PROVE  PoolInv'
<1>1. CASE ReadCalls(c)
  <2>1. {"first", "last", "all"} \subseteq ReadKinds /\ "get" \in ReadKinds /\ {"first", "get", "all"} \subseteq ReadKinds
    BY DEF ReadKinds
  <2>2. \/ \E kind \in ReadKinds : Select(c, kind, <<>>, <<>>, <<>>)
        \/ \E w \in Wanted : Select(c, "get", w.lookups, <<>>, <<>>)
        \/ \E kind \in ReadKinds, typed \in BOOLEAN : SelectNothing(c, kind, typed, <<>>, <<>>)
    BY <1>1, <2>1 DEF ReadCalls
  <2> QED BY <2>1, <2>2, SelectKeepsThePool, SelectNothingKeepsThePool
<1>2. CASE GetOrCreate(c)
  <2>1. "getOrCreate" \in ReadKinds
    BY DEF ReadKinds
  <2>2. \E todo, want, lookups :
            Select(c, "getOrCreate", lookups, todo, want) \/ SelectNothing(c, "getOrCreate", FALSE, todo, want)
    BY <1>2, Zenon DEF GetOrCreate
  <2> QED BY <2>1, <2>2, SelectKeepsThePool, SelectNothingKeepsThePool
<1> QED BY <1>1, <1>2, ScanKeepsThePool, ScanFailsKeepsThePool, CountKeepsThePool, AggregateKeepsThePool

LEMMA WritingKeepsThePool ==
    ASSUME PoolInv, NEW c \in Clients,
           \/ \E values \in Assigned : Update(c, values)
           \/ \E updates \in Computed : UpdateExpr(c, updates)
           \/ Delete(c)
           \/ \E records \in Creates : StartCreate(c, records)
           \/ Insert(c) \/ InsertFails(c)
    PROVE  PoolInv'
<1>1. ASSUME \/ \E values \in Assigned : Update(c, values)
             \/ \E updates \in Computed : UpdateExpr(c, updates)
             \/ Delete(c)
      PROVE  \E reply : Write(c, reply)
  BY <1>1, Zenon DEF Update, UpdateExpr, Delete
<1> QED BY <1>1, WriteKeepsThePool, StartCreateKeepsThePool, InsertKeepsThePool, InsertFailsKeepsThePool

LEMMA PoolInvAlways == ormSpec => []PoolInv
<1>1. PoolInv /\ [ormNext]_vars => PoolInv'
  <2> SUFFICES ASSUME PoolInv, [ormNext]_vars PROVE PoolInv'
    OBVIOUS
  <2>1. CASE \E q \in DOMAIN sets, step \in Steps : Extend(q, step)
    BY <2>1, PoolUntouched DEF Extend, dbvars
  <2>2. CASE UNCHANGED vars
    BY <2>2, PoolUntouched DEF vars, dbvars
  <2>3. CASE \E c \in Clients :
              \/ ReadCalls(c) \/ GetOrCreate(c) \/ Scan(c) \/ ScanFails(c) \/ Count(c) \/ Aggregate(c)
    BY <2>3, ReadingKeepsThePool
  <2>4. CASE \E c \in Clients :
              \/ \E values \in Assigned : Update(c, values)
              \/ \E updates \in Computed : UpdateExpr(c, updates)
              \/ Delete(c)
              \/ \E records \in Creates : StartCreate(c, records)
              \/ Insert(c) \/ InsertFails(c)
    BY <2>4, WritingKeepsThePool
  <2> QED BY <2>1, <2>2, <2>3, <2>4, Zenon DEF ormNext
<1> QED BY PoolInit, <1>1, PTL DEF ormSpec

\* A connection is in the pool, or holds the rows of a call that will close them,
\* or has been lost to an Aggregate, whatever the database replies to any of the
\* statements and whether the rows can be scanned or not.
THEOREM OnlyAggregateKeepsOneAlways == ormSpec => []OnlyAggregateKeepsOne
<1>1. PoolInv => OnlyAggregateKeepsOne
  BY DEF PoolInv, OnlyAggregateKeepsOne, Scanning
<1> QED BY PoolInvAlways, <1>1, PTL
-----------------------------------------------------------------------------
(* GetOrCreate.  As long as nothing is updated or deleted, the table only  *)
(* grows, and never by a value that an index has: what a GetOrCreate has   *)
(* found or inserted is still there when it has ended, and whoever asks    *)
(* for the same value afterwards is refused an INSERT.                     *)

IsGetOrCreate(x) == x.kind = "getOrCreate"
HasRow(x) == IsGetOrCreate(x) /\ x.at = "done" /\ x.answer.how = "ok"

\* What a client is doing, whatever the table holds.
CallMade(x) ==
    /\ DOMAIN x = DOMAIN Idle /\ DOMAIN x.answer = DOMAIN NoAnswer
    /\ x.at = "idle" => x.kind = "none"
    /\ (IsGetOrCreate(x) /\ x.at \in {"scan", "insert"}) =>
           \E w \in Wanted : x.want = w.lookups /\ x.todo = <<ValuesOf(w)>>

\* The row that a GetOrCreate is about to return, or has returned, is in the table.
RowStands(x, table) ==
    /\ (IsGetOrCreate(x) /\ x.at = "scan" /\ x.found # <<>>) => x.found[1] \in table /\ Fits(x.found[1], x.want)
    /\ HasRow(x) => \E r \in table : r[PKColumn(Meta)] = x.answer.id /\ Fits(r, x.want)

\* The indexes have been met.
Unique(table) ==
    \A a, b \in table : \A col \in UniqueColumns : a[col] # Null /\ a[col] = b[col] => a = b

Rivals(x, y) ==
    HasRow(x) /\ HasRow(y) /\ x.want = y.want /\ \E i \in DOMAIN x.want : Identifies(x.want[i])

OneRowInv ==
    /\ models = Registered
    /\ DOMAIN call = Clients
    /\ \A c \in Clients : CallMade(call[c])
    /\ ~disturbed =>
          /\ Unique(rows)
          /\ \A c \in Clients : RowStands(call[c], rows)
          /\ \A c, d \in Clients :
                (c # d /\ Rivals(call[c], call[d])) => ~(call[c].answer.created /\ call[d].answer.created)

LEMMA OneRowInit == ormInit => OneRowInv
<1> SUFFICES ASSUME ormInit PROVE OneRowInv
  OBVIOUS
<1>1. models = Registered /\ rows \in Tables /\ call = [c \in Clients |-> Idle]
  BY DEF ormInit
<1>2. UniqueColumns = UniqueOf(Registered.models[Model])
  BY <1>1 DEF UniqueColumns, Meta
<1>3. Unique(rows)
  BY <1>1, <1>2, TablesAssumption DEF Unique
<1>4. DOMAIN call = Clients /\ \A c \in Clients : call[c] = Idle
  BY <1>1
<1>5. Idle.kind = "none" /\ Idle.answer = NoAnswer /\ Idle.at = "idle"
  BY DEF Idle
<1>6. CallMade(Idle) /\ RowStands(Idle, rows) /\ ~HasRow(Idle)
  BY <1>5 DEF CallMade, RowStands, HasRow, IsGetOrCreate
<1> QED BY <1>1, <1>3, <1>4, <1>6 DEF OneRowInv, Rivals

\* A step that disturbs nothing, adds to the table what its indexes allow, and ends
\* the call of one client with a row that is its own: found, or not yet there.
LEMMA OneRowStays ==
    ASSUME OneRowInv, NEW c \in Clients, OnlyOf(c, call, call'), models' = models,
           CallMade(call'[c]),
           ~disturbed' => /\ ~disturbed
                          /\ rows \subseteq rows'
                          /\ Unique(rows')
                          /\ RowStands(call'[c], rows')
                          /\ \A d \in Clients : (d # c /\ Rivals(call'[c], call[d])) => ~call'[c].answer.created
    PROVE  OneRowInv'
<1>1. Meta' = Meta /\ UniqueColumns' = UniqueColumns
  BY DEF Meta, UniqueColumns
<1>2. \A l : Identifies(l)' <=> Identifies(l)
  BY <1>1 DEF Identifies
<1>3. \A r, l : Names(r, l)' <=> Names(r, l)
  BY <1>1 DEF Names
<1>4. Unique(rows)' <=> Unique(rows')
  BY <1>1 DEF Unique
<1>5. ASSUME NEW r, NEW want PROVE Fits(r, want)' <=> Fits(r, want)
  BY <1>2, <1>3, Zenon DEF Fits
<1>6. ASSUME NEW d \in Clients PROVE RowStands(call[d], rows)' <=> RowStands(call'[d], rows')
  BY <1>1, <1>5 DEF RowStands
<1>7. ASSUME NEW d \in Clients, NEW e \in Clients PROVE Rivals(call[d], call[e])' <=> Rivals(call'[d], call'[e])
  BY <1>2 DEF Rivals
<1>8. ASSUME NEW x, NEW y, Rivals(x, y) PROVE Rivals(y, x)
  BY <1>8, Zenon DEF Rivals
<1>9. DOMAIN call' = Clients /\ \A d \in Clients : d # c => call'[d] = call[d]
  BY DEF OnlyOf
<1>10. models' = Registered /\ \A d \in Clients : CallMade(call'[d])
  BY <1>9 DEF OneRowInv
<1>11. ASSUME ~disturbed'
       PROVE  /\ Unique(rows')
              /\ \A d \in Clients : RowStands(call'[d], rows')
              /\ \A d, e \in Clients :
                    (d # e /\ Rivals(call'[d], call'[e])) => ~(call'[d].answer.created /\ call'[e].answer.created)
  <2>1. /\ Unique(rows') /\ rows \subseteq rows' /\ RowStands(call'[c], rows')
        /\ \A d \in Clients : (d # c /\ Rivals(call'[c], call[d])) => ~call'[c].answer.created
    BY <1>11
  <2>2. /\ \A d \in Clients : RowStands(call[d], rows)
        /\ \A d, e \in Clients :
              (d # e /\ Rivals(call[d], call[e])) => ~(call[d].answer.created /\ call[e].answer.created)
    BY <1>11 DEF OneRowInv
  <2>3. ASSUME NEW d \in Clients PROVE RowStands(call'[d], rows')
    <3>1. CASE d = c
      BY <2>1, <3>1
    <3>2. CASE d # c
      <4>1. call'[d] = call[d] /\ RowStands(call[d], rows)
        BY <1>9, <2>2, <3>2
      <4> QED BY <2>1, <4>1 DEF RowStands
    <3> QED BY <3>1, <3>2
  <2>4. ASSUME NEW d \in Clients, NEW e \in Clients, d # e, Rivals(call'[d], call'[e])
        PROVE  ~(call'[d].answer.created /\ call'[e].answer.created)
    <3>1. CASE d = c
      BY <1>9, <2>1, <2>4, <3>1, Zenon
    <3>2. CASE e = c
      BY <1>8, <1>9, <2>1, <2>4, <3>2, Zenon
    <3>3. CASE d # c /\ e # c
      BY <1>9, <2>2, <2>4, <3>3, Zenon
    <3> QED BY <3>1, <3>2, <3>3
  <2> QED BY <2>1, <2>3, <2>4
<1> QED BY <1>4, <1>6, <1>7, <1>9, <1>10, <1>11 DEF OneRowInv

\* The table is as it was, and the call of a client is not a GetOrCreate with a row.
LEMMA OneRowUnmoved ==
    ASSUME OneRowInv, NEW c \in Clients, OnlyOf(c, call, call'), models' = models,
           rows' = rows, disturbed' = disturbed, CallMade(call'[c]),
           ~disturbed => RowStands(call'[c], rows),
           HasRow(call'[c]) => ~call'[c].answer.created
    PROVE  OneRowInv'
<1>1. ASSUME ~disturbed'
      PROVE  /\ ~disturbed
             /\ rows \subseteq rows'
             /\ Unique(rows')
             /\ RowStands(call'[c], rows')
             /\ \A d \in Clients : (d # c /\ Rivals(call'[c], call[d])) => ~call'[c].answer.created
  BY <1>1 DEF OneRowInv, Rivals
<1> QED BY <1>1, OneRowStays

LEMMA DoneIs ==
    ASSUME OneRowInv, NEW c \in Clients, NEW how
    PROVE  /\ OnlyOf(c, call, Done(c, how))
           /\ Done(c, how)[c] = [call[c] EXCEPT !.at = "done", !.answer.how = how]
BY DEF Done, OnlyOf, OneRowInv

\* A call that ends at once, and is not a GetOrCreate that has its row.
LEMMA DoneIsHarmless ==
    ASSUME OneRowInv, NEW c \in Clients, NEW how, how # "ok" \/ ~IsGetOrCreate(call[c])
    PROVE  /\ OnlyOf(c, call, Done(c, how)) /\ CallMade(Done(c, how)[c])
           /\ RowStands(Done(c, how)[c], rows) /\ ~HasRow(Done(c, how)[c])
<1> DEFINE x == [call[c] EXCEPT !.at = "done", !.answer.how = how]
<1>1. CallMade(call[c])
  BY DEF OneRowInv
<1>2. /\ x.at = "done" /\ x.answer.how = how /\ x.kind = call[c].kind
      /\ DOMAIN x = DOMAIN Idle /\ DOMAIN x.answer = DOMAIN NoAnswer
  BY <1>1 DEF CallMade, Idle, NoAnswer
<1>3. Done(c, how)[c] = x /\ OnlyOf(c, call, Done(c, how))
  BY DoneIs
<1> HIDE DEF x
<1>4. ~HasRow(x)
  BY <1>2 DEF HasRow, IsGetOrCreate
<1>5. CallMade(x) /\ RowStands(x, rows)
  BY <1>2, <1>4 DEF CallMade, RowStands
<1> QED BY <1>3, <1>4, <1>5

LEMMA DoneKeepsOneRow ==
    ASSUME OneRowInv, NEW c \in Clients, NEW how, how # "ok" \/ ~IsGetOrCreate(call[c]),
           call' = Done(c, how), models' = models, rows' = rows, disturbed' = disturbed
    PROVE  OneRowInv'
<1>1. /\ OnlyOf(c, call, call') /\ CallMade(call'[c])
      /\ RowStands(call'[c], rows) /\ ~HasRow(call'[c])
  BY DoneIsHarmless
<1> QED BY <1>1, OneRowUnmoved

\* An idle client is at no GetOrCreate.
LEMMA IdleIsFree ==
    ASSUME OneRowInv, NEW c \in Clients, call[c].at = "idle"
    PROVE  ~IsGetOrCreate(call[c])
BY DEF OneRowInv, CallMade, IsGetOrCreate

\* What follows from the rows, for a GetOrCreate and for the other calls.
LEMMA AnsweredGetOrCreate ==
    ASSUME NEW found, NEW todo
    PROVE  LET next == Answered("getOrCreate", found, todo) IN
           /\ found = <<>> => next = [at |-> "insert", answer |-> NoAnswer]
           /\ found # <<>> => next = [at |-> "done",
                                      answer |-> [NoAnswer EXCEPT !.how = "ok", !.id = found[1][PKColumn(Meta)]]]
<1>1. CASE found = <<>>
  BY <1>1 DEF Answered
<1>2. CASE found # <<>>
  BY <1>2 DEF Answered
<1> QED BY <1>1, <1>2

LEMMA AnsweredIsAnAnswer ==
    ASSUME NEW kind \in ReadKinds, NEW found, NEW todo
    PROVE  LET next == Answered(kind, found, todo) IN
           next.at \in {"done", "insert"} /\ DOMAIN next.answer = DOMAIN NoAnswer
<1>1. found = <<>> => Len(found) # 1
  OBVIOUS
<1>2. CASE kind = "all"
  BY <1>2 DEF Answered, NoAnswer
<1>3. CASE kind = "get" /\ Len(found) # 1
  BY <1>3 DEF Answered, NoAnswer
<1>4. CASE kind = "get" /\ Len(found) = 1
  BY <1>1, <1>4 DEF Answered, NoAnswer
<1>5. CASE kind = "getOrCreate"
  BY <1>5 DEF Answered, NoAnswer
<1>6. CASE kind \in {"first", "last"}
  BY <1>6 DEF Answered, NoAnswer
<1> QED BY <1>2, <1>3, <1>4, <1>5, <1>6 DEF ReadKinds

LEMMA SelectKeepsOneRow ==
    ASSUME OneRowInv, NEW c \in Clients, NEW kind, NEW lookups, NEW todo, NEW want,
           Select(c, kind, lookups, todo, want),
           kind = "getOrCreate" =>
               \E w \in Wanted : lookups = w.lookups /\ want = w.lookups /\ todo = <<ValuesOf(w)>>,
           GetOrCreateGoesByTheKey
    PROVE  OneRowInv'
<1> DEFINE results == Selects(Env, Meta, Asked(kind, Newest, lookups), rows)
<1>1. /\ Calls(c) /\ call[c].at = "idle" /\ Newest.plain.db
      /\ Query(c, kind, results, todo, want) /\ models' = models /\ rows' = rows /\ disturbed' = disturbed
  BY Zenon DEF Select, Calls, program
<1>2. ASSUME NEW found \in results, kind = "getOrCreate", found # <<>>
      PROVE  found[1] \in rows /\ Fits(found[1], want)
  <2>1. PICK w \in Wanted : lookups = w.lookups /\ want = w.lookups
    BY <1>2
  <2>2. found \in Selects(Env, Meta, Asked("getOrCreate", Newest, w.lookups), rows)
    BY <1>2, <2>1
  <2>3. found[1] \in rows /\ Fits(found[1], w.lookups)
    BY <1>1, <1>2, <2>2, Zenon DEF GetOrCreateGoesByTheKey
  <2> QED BY <2>1, <2>3
<1> HIDE DEF results
<1>3. CASE results = {}
  <2>1. call' = Done(c, "error")
    BY <1>1, <1>3 DEF Query
  <2> QED BY <1>1, <2>1, DoneKeepsOneRow
<1>4. CASE results # {}
  <2>1. PICK found \in results :
            call' = [call EXCEPT ![c] = [Idle EXCEPT !.at = "scan", !.kind = kind, !.found = found, !.todo = todo, !.want = want]]
    BY <1>1, <1>4, Zenon DEF Query
  <2> DEFINE x == [Idle EXCEPT !.at = "scan", !.kind = kind, !.found = found, !.todo = todo, !.want = want]
  <2>2. /\ DOMAIN x = DOMAIN Idle /\ x.at = "scan" /\ x.kind = kind /\ x.found = found
        /\ x.todo = todo /\ x.want = want /\ x.answer = NoAnswer
    BY DEF Idle
  <2>3. OnlyOf(c, call, call') /\ call'[c] = x
    BY <2>1 DEF OnlyOf, OneRowInv
  <2> HIDE DEF x
  <2>4. CallMade(x)
    BY <2>2 DEF CallMade, IsGetOrCreate
  <2>5. ~HasRow(x)
    BY <2>2 DEF HasRow
  <2>6. RowStands(x, rows)
    BY <1>2, <2>2, <2>5 DEF RowStands, IsGetOrCreate
  <2> QED BY <1>1, <2>3, <2>4, <2>5, <2>6, OneRowUnmoved
<1> QED BY <1>3, <1>4

LEMMA SelectNothingKeepsOneRow ==
    ASSUME OneRowInv, NEW c \in Clients, NEW kind \in ReadKinds, NEW typed, NEW todo, NEW want,
           SelectNothing(c, kind, typed, todo, want),
           kind = "getOrCreate" => \E w \in Wanted : want = w.lookups /\ todo = <<ValuesOf(w)>>
    PROVE  OneRowInv'
<1> DEFINE next == Answered(kind, <<>>, todo)
           x == [Idle EXCEPT !.at = next.at, !.kind = kind, !.answer = next.answer, !.todo = todo, !.want = want]
<1>1. /\ call[c].at = "idle" /\ models' = models /\ rows' = rows /\ disturbed' = disturbed
      /\ call' = Done(c, "panic") \/ call' = Done(c, "error") \/ call' = [call EXCEPT ![c] = x]
  BY Zenon DEF SelectNothing, Calls, program
<1>2. next.at \in {"done", "insert"} /\ DOMAIN next.answer = DOMAIN NoAnswer
  BY AnsweredIsAnAnswer
<1>3. ASSUME kind = "getOrCreate" PROVE next.at = "insert"
  <2>1. Answered("getOrCreate", <<>>, todo) = [at |-> "insert", answer |-> NoAnswer]
    BY AnsweredGetOrCreate
  <2> QED BY <1>3, <2>1
<1> HIDE DEF next
<1>4. /\ DOMAIN x = DOMAIN Idle /\ x.at = next.at /\ x.kind = kind /\ x.answer = next.answer
      /\ x.todo = todo /\ x.want = want
  BY DEF Idle
<1> HIDE DEF x
<1>5. CallMade(x) /\ ~HasRow(x) /\ RowStands(x, rows)
  BY <1>2, <1>3, <1>4 DEF CallMade, HasRow, RowStands, IsGetOrCreate
<1>6. CASE call' = [call EXCEPT ![c] = x]
  <2>1. OnlyOf(c, call, call') /\ call'[c] = x
    BY <1>6 DEF OnlyOf, OneRowInv
  <2> QED BY <1>1, <1>5, <2>1, OneRowUnmoved
<1> QED BY <1>1, <1>6, DoneKeepsOneRow

LEMMA ScanKeepsOneRow ==
    ASSUME OneRowInv, NEW c \in Clients, call[c].kind \in ReadKinds, Scan(c) PROVE OneRowInv'
<1> DEFINE next == Answered(call[c].kind, call[c].found, call[c].todo)
           x == [call[c] EXCEPT !.at = next.at, !.answer = next.answer, !.found = <<>>]
<1>1. /\ call[c].at = "scan" /\ models' = models /\ rows' = rows /\ disturbed' = disturbed
      /\ call' = [call EXCEPT ![c].at = next.at, ![c].answer = next.answer, ![c].found = <<>>]
  BY Zenon DEF Scan, program
<1>2. CallMade(call[c]) /\ (~disturbed => RowStands(call[c], rows)) /\ DOMAIN call = Clients
  BY DEF OneRowInv
<1>3. next.at \in {"done", "insert"} /\ DOMAIN next.answer = DOMAIN NoAnswer
  BY AnsweredIsAnAnswer
<1>4. IsGetOrCreate(call[c]) =>
          /\ call[c].found = <<>> => next = [at |-> "insert", answer |-> NoAnswer]
          /\ call[c].found # <<>> =>
                 next = [at |-> "done", answer |-> [NoAnswer EXCEPT !.how = "ok", !.id = call[c].found[1][PKColumn(Meta)]]]
  BY AnsweredGetOrCreate DEF IsGetOrCreate
<1> HIDE DEF next
<1>5. OnlyOf(c, call, call') /\ call'[c] = x
  BY <1>1, <1>2 DEF OnlyOf
<1>6. /\ DOMAIN x = DOMAIN Idle /\ x.at = next.at /\ x.kind = call[c].kind /\ x.answer = next.answer
      /\ x.todo = call[c].todo /\ x.want = call[c].want
  BY <1>2 DEF CallMade, Idle
<1> HIDE DEF x
<1>7. CallMade(x)
  BY <1>1, <1>2, <1>3, <1>6, SMTT(30) DEF CallMade, IsGetOrCreate
<1>8. ASSUME HasRow(x)
      PROVE  /\ ~x.answer.created
             /\ ~disturbed => \E r \in rows : r[PKColumn(Meta)] = x.answer.id /\ Fits(r, x.want)
  <2>1. IsGetOrCreate(call[c]) /\ next.at = "done"
    BY <1>6, <1>8 DEF HasRow, IsGetOrCreate
  <2>2. call[c].found # <<>>
    BY <1>4, <2>1
  <2>3. x.answer = [NoAnswer EXCEPT !.how = "ok", !.id = call[c].found[1][PKColumn(Meta)]]
    BY <1>4, <1>6, <2>1, <2>2
  <2>4. ~x.answer.created /\ x.answer.id = call[c].found[1][PKColumn(Meta)]
    BY <2>3 DEF NoAnswer
  <2>5. ~disturbed => call[c].found[1] \in rows /\ Fits(call[c].found[1], x.want)
    BY <1>1, <1>2, <1>6, <2>1, <2>2 DEF RowStands
  <2> QED BY <2>4, <2>5
<1>9. ~disturbed => RowStands(x, rows)
  BY <1>3, <1>6, <1>8 DEF RowStands
<1> QED BY <1>1, <1>5, <1>7, <1>8, <1>9, OneRowUnmoved

LEMMA ScanFailsKeepsOneRow ==
    ASSUME OneRowInv, NEW c \in Clients, ScanFails(c) PROVE OneRowInv'
<1> DEFINE x == [call[c] EXCEPT !.at = "done", !.answer.how = "error", !.found = <<>>]
<1>1. /\ models' = models /\ rows' = rows /\ disturbed' = disturbed
      /\ call' = [call EXCEPT ![c].at = "done", ![c].answer.how = "error", ![c].found = <<>>]
  BY Zenon DEF ScanFails, program
<1>2. CallMade(call[c]) /\ DOMAIN call = Clients
  BY DEF OneRowInv
<1>3. OnlyOf(c, call, call') /\ call'[c] = x
  BY <1>1, <1>2 DEF OnlyOf
<1>4. DOMAIN x = DOMAIN Idle /\ DOMAIN x.answer = DOMAIN NoAnswer /\ x.at = "done" /\ x.answer.how = "error"
  BY <1>2 DEF CallMade, Idle, NoAnswer
<1> HIDE DEF x
<1>5. CallMade(x) /\ ~HasRow(x) /\ RowStands(x, rows)
  BY <1>4 DEF CallMade, HasRow, RowStands
<1> QED BY <1>1, <1>3, <1>5, OneRowUnmoved

\* An answer that is given at once is none of a GetOrCreate.
LEMMA AtOnceIsHarmless ==
    ASSUME OneRowInv, NEW c \in Clients, ~IsGetOrCreate(call[c]), NEW n,
           NEW after, after = [Done(c, "ok") EXCEPT ![c].answer.n = n]
    PROVE  OnlyOf(c, call, after) /\ CallMade(after[c]) /\ ~HasRow(after[c]) /\ RowStands(after[c], rows)
<1> DEFINE x == [call[c] EXCEPT !.at = "done", !.answer.how = "ok", !.answer.n = n]
<1>1. CallMade(call[c]) /\ DOMAIN call = Clients
  BY DEF OneRowInv
<1>2. OnlyOf(c, call, after) /\ after[c] = x
  BY <1>1 DEF Done, OnlyOf
<1>3. DOMAIN x = DOMAIN Idle /\ DOMAIN x.answer = DOMAIN NoAnswer /\ x.at = "done" /\ x.kind = call[c].kind
  BY <1>1 DEF CallMade, Idle, NoAnswer
<1> HIDE DEF x
<1> QED BY <1>2, <1>3 DEF CallMade, HasRow, RowStands, IsGetOrCreate

LEMMA CountKeepsOneRow ==
    ASSUME OneRowInv, NEW c \in Clients, Count(c) PROVE OneRowInv'
<1> DEFINE reply == Counts(Env, Meta, Newest, rows)
<1>1. /\ call[c].at = "idle" /\ models' = models /\ rows' = rows /\ disturbed' = disturbed
      /\ call' = Counted(c, reply)
  BY Zenon DEF Count, Calls, program
<1> HIDE DEF reply
<1>2. (\E how : how # "ok" /\ call' = Done(c, how)) \/ call' = [Done(c, "ok") EXCEPT ![c].answer.n = reply.n]
  BY <1>1 DEF Counted
<1>3. ~IsGetOrCreate(call[c])
  BY <1>1, IdleIsFree
<1>4. CASE \E how : how # "ok" /\ call' = Done(c, how)
  BY <1>1, <1>4, DoneKeepsOneRow
<1>5. CASE call' = [Done(c, "ok") EXCEPT ![c].answer.n = reply.n]
  BY <1>1, <1>3, <1>5, AtOnceIsHarmless, OneRowUnmoved
<1> QED BY <1>2, <1>4, <1>5

LEMMA AggregateKeepsOneRow ==
    ASSUME OneRowInv, NEW c \in Clients, Aggregate(c) PROVE OneRowInv'
BY DoneKeepsOneRow DEF Aggregate, program

\* An UPDATE or a DELETE disturbs, or fails.
LEMMA WriteKeepsOneRow ==
    ASSUME OneRowInv, NEW c \in Clients, NEW reply, Write(c, reply) PROVE OneRowInv'
<1>1. call[c].at = "idle" /\ models' = models
  BY Zenon DEF Write, Calls, program
<1>2. \/ rows' = rows /\ disturbed' = disturbed /\ (call' = Done(c, "error") \/ call' = Done(c, "panic"))
      \/ disturbed' = TRUE /\ call' = [Done(c, "ok") EXCEPT ![c].answer.n = reply.n]
  BY DEF Write
<1>3. ~IsGetOrCreate(call[c])
  BY <1>1, IdleIsFree
<1>4. CASE disturbed' = TRUE /\ call' = [Done(c, "ok") EXCEPT ![c].answer.n = reply.n]
  <2>1. OnlyOf(c, call, call') /\ CallMade(call'[c])
    BY <1>3, <1>4, AtOnceIsHarmless
  <2> QED BY <1>1, <1>4, <2>1, OneRowStays
<1> QED BY <1>1, <1>2, <1>4, DoneKeepsOneRow

LEMMA StartCreateKeepsOneRow ==
    ASSUME OneRowInv, NEW c \in Clients, NEW records, StartCreate(c, records) PROVE OneRowInv'
<1> DEFINE x == [Idle EXCEPT !.at = "insert", !.kind = "create", !.todo = records]
<1>1. /\ models' = models /\ rows' = rows /\ disturbed' = disturbed
      /\ call' = Done(c, "error") \/ call' = [call EXCEPT ![c] = x]
  BY Zenon DEF StartCreate, program
<1>2. DOMAIN x = DOMAIN Idle /\ x.at = "insert" /\ x.kind = "create" /\ x.answer = NoAnswer
  BY DEF Idle
<1> HIDE DEF x
<1>3. CallMade(x) /\ ~HasRow(x) /\ RowStands(x, rows)
  BY <1>2 DEF CallMade, HasRow, RowStands, IsGetOrCreate
<1>4. CASE call' = [call EXCEPT ![c] = x]
  <2>1. OnlyOf(c, call, call') /\ call'[c] = x
    BY <1>4 DEF OnlyOf, OneRowInv
  <2> QED BY <1>1, <1>3, <2>1, OneRowUnmoved
<1> QED BY <1>1, <1>4, DoneKeepsOneRow

\* An INSERT that the indexes allow leaves them met.
LEMMA InsertsIsUnique ==
    ASSUME NEW row, Unique(rows), ~Violates(row) PROVE Unique(rows \union {row})
BY DEF Unique, Violates

LEMMA InsertsGrows ==
    ASSUME NEW row, Inserts(row), OneRowInv, ~disturbed
    PROVE  rows \subseteq rows' /\ Unique(rows')
<1>1. rows' = rows \/ (~Violates(row) /\ rows' = rows \union {row})
  BY DEF Inserts
<1>2. Unique(rows)
  BY DEF OneRowInv
<1> QED BY <1>1, <1>2, InsertsIsUnique

\* The INSERT of a GetOrCreate is of the row that it wanted; if the table has a row
\* of another GetOrCreate for the same value, it is refused (queryset.go:425-440).
LEMMA InsertKeepsOneRow ==
    ASSUME OneRowInv, GetOrCreateGoesByTheKey, NEW c \in Clients, Insert(c) PROVE OneRowInv'
<1> DEFINE row == NewRow(Meta, Head(call[c].todo), nextId)
           rest == Tail(call[c].todo)
           now == [call[c].answer EXCEPT !.n = @ + 1, !.id = row[PKColumn(Meta)], !.created = TRUE]
           ended == [call[c] EXCEPT !.at = "done", !.answer = [now EXCEPT !.how = "ok"]]
           going == [call[c] EXCEPT !.todo = rest, !.answer = now]
<1>1. /\ call[c].at = "insert" /\ Inserts(row) /\ models' = models /\ disturbed' = disturbed
      /\ \/ call' = Done(c, "error")
         \/ ~Violates(row) /\ rest = <<>> /\ call' = [call EXCEPT ![c].at = "done", ![c].answer = [now EXCEPT !.how = "ok"]]
         \/ rest # <<>> /\ call' = [call EXCEPT ![c].todo = rest, ![c].answer = now]
  BY Zenon DEF Insert, program
<1>2. CallMade(call[c]) /\ DOMAIN call = Clients
  BY DEF OneRowInv
<1>3. ASSUME IsGetOrCreate(call[c])
      PROVE  rest = <<>> /\ Fits(row, call[c].want)
  <2>1. PICK w \in Wanted : call[c].want = w.lookups /\ call[c].todo = <<ValuesOf(w)>>
    BY <1>1, <1>2, <1>3 DEF CallMade
  <2> DEFINE v == ValuesOf(w)
  <2>2. call[c].todo = <<v>>
    BY <2>1
  <2> HIDE DEF v
  <2>3. Head(call[c].todo) = v /\ Tail(call[c].todo) = <<>>
    BY <2>2
  <2>4. row = NewRow(Meta, ValuesOf(w), nextId) /\ rest = <<>>
    BY <2>3 DEF v
  <2>5. Fits(NewRow(Meta, ValuesOf(w), nextId), w.lookups)
    BY Zenon DEF GetOrCreateGoesByTheKey
  <2>6. Fits(NewRow(Meta, ValuesOf(w), nextId), call[c].want)
    BY <2>1, <2>5
  <2> HIDE DEF row, rest
  <2> QED BY <2>4, <2>6
<1> HIDE DEF row
<1>4. /\ now.id = row[PKColumn(Meta)] /\ now.created = TRUE /\ DOMAIN now = DOMAIN NoAnswer
  BY <1>2 DEF CallMade, NoAnswer
<1> HIDE DEF now, rest
<1>5. ~disturbed => rows \subseteq rows' /\ Unique(rows')
  BY <1>1, InsertsGrows
<1>6. CASE call' = Done(c, "error")
  <2>1. /\ OnlyOf(c, call, call') /\ CallMade(call'[c]) /\ RowStands(call'[c], rows) /\ ~HasRow(call'[c])
    BY <1>6, DoneIsHarmless
  <2>2. ~disturbed => RowStands(call'[c], rows')
    BY <1>5, <2>1 DEF RowStands
  <2>3. \A d \in Clients : ~Rivals(call'[c], call[d])
    BY <2>1 DEF Rivals
  <2> QED BY <1>1, <1>5, <2>1, <2>2, <2>3, OneRowStays
<1>7. CASE rest # <<>> /\ call' = [call EXCEPT ![c].todo = rest, ![c].answer = now]
  <2>1. OnlyOf(c, call, call') /\ call'[c] = going
    BY <1>2, <1>7 DEF OnlyOf
  <2>2. DOMAIN going = DOMAIN Idle /\ going.at = "insert" /\ going.kind = call[c].kind /\ going.answer = now
    BY <1>1, <1>2 DEF CallMade, Idle
  <2> HIDE DEF going
  <2>3. ~IsGetOrCreate(going)
    BY <1>3, <1>7, <2>2 DEF IsGetOrCreate
  <2>4. CallMade(going) /\ RowStands(going, rows')
    BY <1>4, <2>2, <2>3 DEF CallMade, RowStands, HasRow
  <2>5. \A d \in Clients : ~Rivals(going, call[d])
    BY <2>3 DEF Rivals, HasRow
  <2> QED BY <1>1, <1>5, <2>1, <2>4, <2>5, OneRowStays
<1>8. CASE ~Violates(row) /\ rest = <<>> /\ call' = [call EXCEPT ![c].at = "done", ![c].answer = [now EXCEPT !.how = "ok"]]
  <2>1. OnlyOf(c, call, call') /\ call'[c] = ended
    BY <1>2, <1>8 DEF OnlyOf
  <2>2. /\ DOMAIN ended = DOMAIN Idle /\ ended.at = "done" /\ ended.kind = call[c].kind /\ ended.want = call[c].want
        /\ ended.answer = [now EXCEPT !.how = "ok"]
    BY <1>1, <1>2 DEF CallMade, Idle
  <2>3. DOMAIN ended.answer = DOMAIN NoAnswer /\ ended.answer.id = row[PKColumn(Meta)]
    BY <1>4, <2>2 DEF NoAnswer
  <2> HIDE DEF ended
  <2>4. CallMade(ended)
    BY <2>2, <2>3 DEF CallMade
  <2>5. IsGetOrCreate(ended) => Fits(row, ended.want)
    BY <1>3, <2>2 DEF IsGetOrCreate
  <2>6. row \in rows'
    BY <1>1, <1>8 DEF Inserts
  <2>7. RowStands(ended, rows')
    BY <2>2, <2>3, <2>5, <2>6 DEF RowStands, HasRow
  <2>8. ASSUME ~disturbed, NEW d \in Clients, d # c, Rivals(ended, call[d]) PROVE FALSE
    <3>1. PICK r \in rows : Fits(r, call[d].want)
      BY <2>8 DEF OneRowInv, RowStands, Rivals
    <3>2. PICK i \in DOMAIN ended.want : Identifies(ended.want[i])
      BY <2>8 DEF Rivals
    <3>3. Names(r, ended.want[i]) /\ Names(row, ended.want[i])
      BY <2>5, <2>8, <3>1, <3>2 DEF Fits, Rivals, HasRow
    <3> DEFINE col == DBColumnForField(Meta, ended.want[i].field)
    <3>4. col \in UniqueColumns /\ ended.want[i].values[1] # Null
      BY <3>2 DEF Identifies
    <3>5. row[col] # Null /\ r[col] = row[col]
      BY <3>3, <3>4 DEF Names
    <3> HIDE DEF col
    <3> QED BY <1>8, <3>4, <3>5 DEF Violates
  <2> QED BY <1>1, <1>5, <2>1, <2>4, <2>7, <2>8, OneRowStays
<1> QED BY <1>1, <1>6, <1>7, <1>8

LEMMA InsertFailsKeepsOneRow ==
    ASSUME OneRowInv, NEW c \in Clients, InsertFails(c) PROVE OneRowInv'
<1> DEFINE row == NewRow(Meta, Head(call[c].todo), nextId)
<1>1. /\ rows' = rows \/ Inserts(row)
      /\ call' = Done(c, "error") /\ models' = models /\ disturbed' = disturbed
  BY Zenon DEF InsertFails, program
<1> HIDE DEF row
<1>2. ~disturbed => rows \subseteq rows' /\ Unique(rows')
  BY <1>1, InsertsGrows DEF OneRowInv
<1>3. /\ OnlyOf(c, call, call') /\ CallMade(call'[c]) /\ RowStands(call'[c], rows) /\ ~HasRow(call'[c])
  BY <1>1, DoneIsHarmless
<1>4. ~disturbed => RowStands(call'[c], rows')
  BY <1>2, <1>3 DEF RowStands
<1>5. \A d \in Clients : ~Rivals(call'[c], call[d])
  BY <1>3 DEF Rivals
<1> QED BY <1>1, <1>2, <1>3, <1>4, <1>5, OneRowStays

LEMMA OneRowUntouched ==
    ASSUME OneRowInv, UNCHANGED <<models, rows, call, disturbed>> PROVE OneRowInv'
BY DEF OneRowInv, Unique, UniqueColumns, RowStands, Rivals, Fits, Identifies, Names, Meta

LEMMA ReadingKeepsOneRow ==
    ASSUME OneRowInv, PoolInv, GetOrCreateGoesByTheKey, NEW c \in Clients,
           ReadCalls(c) \/ GetOrCreate(c) \/ Scan(c) \/ ScanFails(c) \/ Count(c) \/ Aggregate(c)
    PROVE  OneRowInv'
<1>1. CASE ReadCalls(c)
  <2>1. {"first", "last", "all", "get"} \subseteq ReadKinds \ {"getOrCreate"}
    BY DEF ReadKinds
  <2>2. \/ \E lookups : \E kind \in ReadKinds \ {"getOrCreate"} : Select(c, kind, lookups, <<>>, <<>>)
        \/ \E kind \in ReadKinds \ {"getOrCreate"}, typed \in BOOLEAN : SelectNothing(c, kind, typed, <<>>, <<>>)
    BY <1>1, <2>1 DEF ReadCalls
  <2> QED BY <2>2, SelectKeepsOneRow, SelectNothingKeepsOneRow
<1>2. CASE GetOrCreate(c)
  <2>1. "getOrCreate" \in ReadKinds
    BY DEF ReadKinds
  <2>2. PICK w \in Wanted :
            \/ Select(c, "getOrCreate", w.lookups, <<ValuesOf(w)>>, w.lookups)
            \/ SelectNothing(c, "getOrCreate", FALSE, <<ValuesOf(w)>>, w.lookups)
    BY <1>2, Zenon DEF GetOrCreate
  <2> QED BY <2>1, <2>2, SelectKeepsOneRow, SelectNothingKeepsOneRow, Zenon
<1>3. CASE Scan(c)
  <2>1. call[c].kind \in ReadKinds
    BY <1>3 DEF Scan, PoolInv, WellMade
  <2> QED BY <1>3, <2>1, ScanKeepsOneRow
<1> QED BY <1>1, <1>2, <1>3, ScanFailsKeepsOneRow, CountKeepsOneRow, AggregateKeepsOneRow

LEMMA WritingKeepsOneRow ==
    ASSUME OneRowInv, GetOrCreateGoesByTheKey, NEW c \in Clients,
           \/ \E values \in Assigned : Update(c, values)
           \/ \E updates \in Computed : UpdateExpr(c, updates)
           \/ Delete(c)
           \/ \E records \in Creates : StartCreate(c, records)
           \/ Insert(c) \/ InsertFails(c)
    PROVE  OneRowInv'
<1>1. ASSUME \/ \E values \in Assigned : Update(c, values)
             \/ \E updates \in Computed : UpdateExpr(c, updates)
             \/ Delete(c)
      PROVE  \E reply : Write(c, reply)
  BY <1>1, Zenon DEF Update, UpdateExpr, Delete
<1> QED BY <1>1, WriteKeepsOneRow, StartCreateKeepsOneRow, InsertKeepsOneRow, InsertFailsKeepsOneRow

\* For any number of clients on any queryset of any chain: if the statements of a
\* GetOrCreate go by the unique field (which is the database's part and the
\* compiler's, not this program's), two that wanted the same row and have one have
\* the same one, and only one of them has created it, however the calls and those of
\* others have met, as long as no row has been updated or deleted.
THEOREM OneRowIsCreatedAlways == ormSpec /\ []GetOrCreateGoesByTheKey => []OneRowIsCreated
<1>1. OneRowInv /\ PoolInv /\ GetOrCreateGoesByTheKey /\ [ormNext]_vars => OneRowInv'
  <2> SUFFICES ASSUME OneRowInv, PoolInv, GetOrCreateGoesByTheKey, [ormNext]_vars PROVE OneRowInv'
    OBVIOUS
  <2>1. CASE \E q \in DOMAIN sets, step \in Steps : Extend(q, step)
    BY <2>1, OneRowUntouched DEF Extend, dbvars
  <2>2. CASE UNCHANGED vars
    BY <2>2, OneRowUntouched DEF vars, dbvars, program
  <2>3. CASE \E c \in Clients :
              \/ ReadCalls(c) \/ GetOrCreate(c) \/ Scan(c) \/ ScanFails(c) \/ Count(c) \/ Aggregate(c)
    BY <2>3, ReadingKeepsOneRow
  <2>4. CASE \E c \in Clients :
              \/ \E values \in Assigned : Update(c, values)
              \/ \E updates \in Computed : UpdateExpr(c, updates)
              \/ Delete(c)
              \/ \E records \in Creates : StartCreate(c, records)
              \/ Insert(c) \/ InsertFails(c)
    BY <2>4, WritingKeepsOneRow
  <2> QED BY <2>1, <2>2, <2>3, <2>4, Zenon DEF ormNext
<1>2. OneRowInv => OneRowIsCreated
  <2> SUFFICES ASSUME OneRowInv, ~disturbed, NEW c \in Clients, NEW d \in Clients, c # d,
                      HasRow(call[c]), HasRow(call[d]), call[c].want = call[d].want,
                      NEW i \in DOMAIN call[c].want, Identifies(call[c].want[i])
               PROVE  /\ call[c].answer.id = call[d].answer.id
                      /\ ~(call[c].answer.created /\ call[d].answer.created)
    BY Zenon DEF OneRowIsCreated, HasRow, IsGetOrCreate
  <2>1. PICK r \in rows : r[PKColumn(Meta)] = call[c].answer.id /\ Fits(r, call[c].want)
    BY DEF OneRowInv, RowStands
  <2>2. PICK s \in rows : s[PKColumn(Meta)] = call[d].answer.id /\ Fits(s, call[c].want)
    BY DEF OneRowInv, RowStands
  <2> DEFINE col == DBColumnForField(Meta, call[c].want[i].field)
  <2>3. col \in UniqueColumns /\ r[col] # Null /\ r[col] = s[col]
    BY <2>1, <2>2 DEF Fits, Names, Identifies
  <2> HIDE DEF col
  <2>4. r = s
    BY <2>3 DEF OneRowInv, Unique
  <2>5. Rivals(call[c], call[d])
    BY DEF Rivals
  <2> QED BY <2>1, <2>2, <2>4, <2>5 DEF OneRowInv
<1>3. ormSpec => []PoolInv
  BY PoolInvAlways
<1> QED BY OneRowInit, <1>1, <1>2, <1>3, PTL DEF ormSpec
=============================================================================
