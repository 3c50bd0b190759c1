------------------------------ MODULE QuerySets ------------------------------
(***************************************************************************)
(* Chains of querysets (orm/queryset.go).  Every method of the chain       *)
(* clones the queryset and changes the clone.  The clauses are Go slices,  *)
(* so they are modelled as slices here: an array in a heap and a length.   *)
(* An append writes into the array if there is room in it, and whoever     *)
(* shares the array sees that.                                             *)
(*                                                                         *)
(* A clause is a value of its own here; what it means is a matter of       *)
(* SqlCompiler.                                                            *)
(***************************************************************************)
EXTENDS Integers, Sequences

CONSTANTS
    Steps,            \* the calls a chain is made of, see Apply
    MaxSets,          \* bound: how many querysets a program makes
    DefaultOrdering,  \* the default ordering of the model, reversed already
    Blank             \* a cell of an array that has not been written

\* The methods of the chain that take cells, and all of them.
Appending == {"filters", "exclude", "orderBy", "annotations", "selectRelated", "prefetchRelated"}
Methods == Appending \union {"reverse", "limit", "offset", "distinct", "only", "defer", "select",
                             "values", "forUpdate", "none", "using", "all"}

ASSUME QuerySetsAssumption == MaxSets \in Nat /\ \A step \in Steps : step.op \in Methods

VARIABLES
    heap,   \* heap[a]: an array, a sequence as long as its capacity
    sets,   \* the querysets made so far
    chain   \* history: chain[q], the calls that queryset q was made with

qsvars == <<heap, sets, chain>>

Kinds == {"filters", "exclude", "orderBy", "annotations", "selectRelated", "prefetchRelated", "deferFields"}

\* Conditions, the cells of filters and exclude.  A lookup is [field, op, values, sub];
\* sub is the number of a queryset, 0 for none.
Q(lookups) == [connector |-> "AND", negated |-> FALSE, children |-> <<>>, lookups |-> lookups]
QAnd(children) == [connector |-> "AND", negated |-> FALSE, children |-> children, lookups |-> <<>>]
QOr(children) == [connector |-> "OR", negated |-> FALSE, children |-> children, lookups |-> <<>>]
QNot(child) == [connector |-> "AND", negated |-> TRUE, children |-> <<child>>, lookups |-> <<>>]

\* What a queryset keeps beside its slices.
PlainFields ==
    [limit |-> -1, offset |-> 0, distinct |-> FALSE, only |-> <<>>, select |-> <<>>,
     values |-> <<>>, lock |-> {}, noop |-> FALSE, db |-> TRUE]

Elems(h, s) == [i \in 1..s.len |-> h[s.arr][i]]

\* NewBaseQuerySet
NewBaseQuerySet == [slice |-> [k \in Kinds |-> [arr |-> 1, len |-> 0]], plain |-> PlainFields]

Init ==
    /\ heap = <<<<>>>>
    /\ sets = <<NewBaseQuerySet>>
    /\ chain = <<<<>>>>
-----------------------------------------------------------------------------
(* A method in the making: the heap and the new queryset.                  *)

\* append of several cells.  An array without room is replaced by one of twice
\* the capacity, or of what is needed if that is more.
AppendTo(m, kind, cells) ==
    LET s == m.qs.slice[kind]
        cap == Len(m.heap[s.arr])
        need == s.len + Len(cells)
        wide == IF 2 * cap < need THEN need ELSE 2 * cap
        cell(old, i) == IF i <= s.len THEN m.heap[s.arr][i] ELSE IF i <= need THEN cells[i - s.len] ELSE old
    IN  IF need <= cap
        THEN [heap |-> [m.heap EXCEPT ![s.arr] = [i \in 1..cap |-> cell(m.heap[s.arr][i], i)]],
              qs |-> [m.qs EXCEPT !.slice[kind] = [arr |-> s.arr, len |-> need]]]
        ELSE [heap |-> Append(m.heap, [i \in 1..wide |-> cell(Blank, i)]),
              qs |-> [m.qs EXCEPT !.slice[kind] = [arr |-> Len(m.heap) + 1, len |-> need]]]

\* Mutant of Clone: the clone has the slices of the original.
ShallowClone(h, qs) == [heap |-> h, qs |-> qs]

Place == [filters |-> 1, exclude |-> 2, orderBy |-> 3, annotations |-> 4, selectRelated |-> 5,
          prefetchRelated |-> 6, deferFields |-> 7]

\* clone: append([]T(nil), s...) of every slice, an array just as long as the slice.
Clone(h, qs) ==
    [heap |-> h \o [i \in 1..7 |-> LET k == CHOOSE kind \in Kinds : Place[kind] = i IN Elems(h, qs.slice[k])],
     qs |-> [qs EXCEPT !.slice = [k \in Kinds |-> [arr |-> Len(h) + Place[k], len |-> qs.slice[k].len]]]]

Set(m, plain) == [m EXCEPT !.qs.plain = plain]

Flip(f) == [f EXCEPT !.desc = ~@]

\* Reverse: the default ordering reversed, or each element changed in place.
Reverse(m) ==
    LET s == m.qs.slice["orderBy"] IN
    IF s.len = 0
    THEN [heap |-> Append(m.heap, DefaultOrdering),
          qs |-> [m.qs EXCEPT !.slice["orderBy"] = [arr |-> Len(m.heap) + 1, len |-> Len(DefaultOrdering)]]]
    ELSE [m EXCEPT !.heap[s.arr] = [i \in DOMAIN @ |-> IF i <= s.len THEN Flip(@[i]) ELSE @[i]]]

\* Dropping a slice: Only forgets what Defer said.
Dropped(m, kind) == [m EXCEPT !.qs.slice[kind] = [arr |-> 1, len |-> 0]]

\* What each method does to its clone.
Change(m, step) ==
    LET plain == m.qs.plain IN
    CASE step.op \in Appending -> AppendTo(m, step.op, step.cells)
      [] step.op = "reverse" -> Reverse(m)
      [] step.op = "limit" -> Set(m, [plain EXCEPT !.limit = step.n])
      [] step.op = "offset" -> Set(m, [plain EXCEPT !.offset = step.n])
      [] step.op = "distinct" -> Set(m, [plain EXCEPT !.distinct = TRUE])
      [] step.op = "only" -> Dropped(Set(m, [plain EXCEPT !.only = step.fields]), "deferFields")
      [] step.op = "defer" -> AppendTo(Set(m, [plain EXCEPT !.only = <<>>]), "deferFields", step.cells)
      [] step.op = "select" -> Set(m, [plain EXCEPT !.select = step.fields])
      [] step.op = "values" -> Set(m, [plain EXCEPT !.values = step.fields])
      [] step.op = "forUpdate" -> Set(m, [plain EXCEPT !.lock = @ \union {"forUpdate"} \union step.opts])
      [] step.op = "none" -> Set(m, [plain EXCEPT !.noop = TRUE])
      [] step.op = "using" -> Set(m, [plain EXCEPT !.db = step.db])
      [] step.op = "all" -> m

\* A call of a method on queryset q.
Call(q, step) ==
    LET made == Change(Clone(heap, sets[q]), step) IN
    /\ Len(sets) < MaxSets
    /\ heap' = made.heap
    /\ sets' = Append(sets, made.qs)
    /\ chain' = Append(chain, Append(chain[q], step))

Next == \E q \in DOMAIN sets, step \in Steps : Call(q, step)

Spec == Init /\ [][Next]_qsvars
-----------------------------------------------------------------------------
(* What a queryset holds, and what it should hold.                         *)

\* The queryset with its slices read.
Contents(q) == [plain |-> sets[q].plain, clause |-> [k \in Kinds |-> Elems(heap, sets[q].slice[k])]]

\* The queryset type is called immutable (README.md, "Immutable typed query
\* builders"; queryset.go clones in every method): making a queryset from
\* another changes nothing that any queryset made before holds.
QuerySetsAreImmutable == [][\A q \in DOMAIN sets : Contents(q)' = Contents(q)]_qsvars
=============================================================================
