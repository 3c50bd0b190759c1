--------------------------- MODULE AtomicTx_proofs ---------------------------
(***************************************************************************)
(* Proofs about AtomicTx, for any number of goroutines, aliases and        *)
(* connections, and any nesting.                                           *)
(*                                                                         *)
(* The inductive invariant IInv says who holds what: only the top call of  *)
(* a goroutine is not in its callback; a call past its mutex holds it; a   *)
(* goroutine has at most one such call per alias; a transaction is known   *)
(* under one alias, in whatever context it is.                             *)
(***************************************************************************)
EXTENDS AtomicTx, SequenceTheorems, TLAPS

Level(t) == 1 .. Len(stack[t])

\* Only the top call can be elsewhere than in its callback.
LowerInBody ==
    \A t \in Threads : /\ Len(stack[t]) <= MaxDepth
                       /\ \A i \in Level(t) : i < Len(stack[t]) => stack[t][i].at = "body"

\* A call past the mutex holds it, and who holds it is in such a call.
Held ==
    \A t \in Threads : \A i \in Level(t) :
        stack[t][i].at # "lock" => lock[stack[t][i].alias] = t

HeldByCall ==
    \A a \in Aliases : \A t \in Threads : lock[a] = t =>
        \E i \in Level(t) : stack[t][i].alias = a /\ stack[t][i].at # "lock"

\* Of two nested calls for one alias the inner one is still waiting.
InnerWaits ==
    \A t \in Threads : \A i, j \in Level(t) :
        i < j /\ stack[t][i].alias = stack[t][j].alias => stack[t][j].at = "lock"

\* The transaction a call began is open, and one in its callback has a
\* transaction for its alias.
HasTx ==
    \A t \in Threads : \A i \in Level(t) :
        /\ stack[t][i].own => stack[t][i].at \in {"body", "query"} /\ stack[t][i].ctx.tx \in open
        /\ stack[t][i].at \in {"body", "query"} => stack[t][i].ctx.alias = stack[t][i].alias

\* The contexts that are in use.
InUse(c) ==
    \/ c = Background
    \/ \E t \in Threads : base[t] = c
    \/ \E t \in Threads : \E i \in Level(t) : stack[t][i].ctx = c

OneAlias == \A c, d \in Contexts : InUse(c) /\ InUse(d) /\ c.tx = d.tx => c.alias = d.alias

OpenHeld ==
    Panics \/ \A x \in open :
        \E t \in Threads : \E i \in Level(t) : stack[t][i].own /\ stack[t][i].ctx.tx = x

IInv ==
    /\ TypeOK
    /\ LowerInBody
    /\ Held
    /\ HeldByCall
    /\ InnerWaits
    /\ HasTx
    /\ OneAlias
    /\ OpenHeld
-----------------------------------------------------------------------------
(* The three things that a step does to a stack.                           *)

Others(t) == \A u \in Threads : u # t => stack'[u] = stack[u]

Pushed(t, f) ==
    /\ Others(t)
    /\ Len(stack'[t]) = Len(stack[t]) + 1
    /\ \A i \in Level(t) : stack'[t][i] = stack[t][i]
    /\ stack'[t][Len(stack[t]) + 1] = f

Replaced(t, f) ==
    /\ Others(t)
    /\ Len(stack[t]) > 0
    /\ Len(stack'[t]) = Len(stack[t])
    /\ \A i \in Level(t) : i < Len(stack[t]) => stack'[t][i] = stack[t][i]
    /\ stack'[t][Len(stack[t])] = f

Cut(t, k) ==
    /\ Others(t)
    /\ k \in Nat
    /\ k < Len(stack[t])
    /\ Len(stack'[t]) = k
    /\ \A i \in 1 .. k : stack'[t][i] = stack[t][i]

LEMMA StackFacts ==
    ASSUME TypeOK
    PROVE  \A t \in Threads : /\ stack[t] \in Seq(Frames)
                              /\ Len(stack[t]) \in Nat
                              /\ stack[t] # <<>> => Len(stack[t]) \in Level(t)
                              /\ \A i \in Level(t) : stack[t][i] \in Frames
  BY EmptySeq, LenProperties, ElementOfSeq DEF TypeOK, Level

LEMMA PushFacts ==
    ASSUME TypeOK, NEW t \in Threads, NEW f \in Frames,
           stack' = [stack EXCEPT ![t] = Append(@, f)]
    PROVE  stack' \in [Threads -> Seq(Frames)] /\ Pushed(t, f)
  <1>1. stack[t] \in Seq(Frames)
    BY DEF TypeOK
  <1>2. stack'[t] = Append(stack[t], f) /\ Others(t)
    BY DEF TypeOK, Others
  <1>3. stack'[t] \in Seq(Frames)
    BY <1>1, <1>2, AppendProperties
  <1>4. stack' \in [Threads -> Seq(Frames)]
    BY <1>3 DEF TypeOK
  <1>5. Pushed(t, f)
    BY <1>1, <1>2, AppendProperties DEF Pushed, Level
  <1> QED BY <1>4, <1>5

LEMMA ReplaceFacts ==
    ASSUME TypeOK, NEW t \in Threads, NEW f \in Frames, stack[t] # <<>>, SetTop(t, f)
    PROVE  stack' \in [Threads -> Seq(Frames)] /\ Replaced(t, f)
  <1>1. stack[t] \in Seq(Frames) /\ Len(stack[t]) \in 1 .. Len(stack[t])
    BY StackFacts DEF Level
  <1> DEFINE n == Len(stack[t])
  <1>2. stack'[t] = [stack[t] EXCEPT ![n] = f] /\ Others(t)
    BY DEF TypeOK, SetTop, Depth, Others
  <1>3. stack'[t] \in Seq(Frames) /\ Len(stack'[t]) = n
    BY <1>1, <1>2, ExceptSeq
  <1>4. \A j \in 1 .. n : stack'[t][j] = IF j = n THEN f ELSE stack[t][j]
    BY <1>1, <1>2, ExceptSeq
  <1>5. stack' \in [Threads -> Seq(Frames)]
    BY <1>3 DEF TypeOK, SetTop
  <1>6. Replaced(t, f)
    BY <1>1, <1>2, <1>3, <1>4 DEF Replaced, Level
  <1> QED BY <1>5, <1>6

LEMMA CutFacts ==
    ASSUME TypeOK, NEW t \in Threads, NEW k \in Nat, k < Len(stack[t]),
           stack' = [stack EXCEPT ![t] = SubSeq(@, 1, k)]
    PROVE  stack' \in [Threads -> Seq(Frames)] /\ Cut(t, k)
  <1>1. /\ stack[t] \in Seq(Frames)
        /\ Len(stack[t]) \in Nat
        /\ \A i \in 1 .. k : stack[t][i] \in Frames
    BY StackFacts DEF Level
  <1>2. stack'[t] = SubSeq(stack[t], 1, k) /\ Others(t)
    BY DEF TypeOK, Others
  <1>3. /\ SubSeq(stack[t], 1, k) \in Seq(Frames)
        /\ Len(SubSeq(stack[t], 1, k)) = IF 1 <= k THEN k - 1 + 1 ELSE 0
        /\ \A i \in 1 .. k - 1 + 1 : SubSeq(stack[t], 1, k)[i] = stack[t][1 + i - 1]
    BY <1>1, SubSeqProperties
  <1>4. Len(stack'[t]) = k /\ \A i \in 1 .. k : stack'[t][i] = stack[t][i]
    BY <1>2, <1>3
  <1>5. stack' \in [Threads -> Seq(Frames)]
    BY <1>2, <1>3 DEF TypeOK
  <1> QED BY <1>2, <1>4, <1>5 DEF Cut
-----------------------------------------------------------------------------
(* What the three kinds of steps preserve.                                 *)

TypeStack ==
    /\ stack \in [Threads -> Seq(Frames)]
    /\ \A t \in Threads : \A i \in Level(t) :
          stack[t][i].own => stack[t][i].ctx \in [alias : {stack[t][i].alias}, tx : TxIds]

LEMMA TypeParts ==
    TypeOK <=> /\ lock \in [Aliases -> Threads \union {None}]
               /\ TypeStack
               /\ base \in [Threads -> Contexts]
               /\ open \subseteq TxIds
  BY DEF TypeOK, TypeStack, Level, Depth

\* The calls of a goroutine that are past their mutexes, when its top one is.
LEMMA AllEntered ==
    ASSUME IInv, NEW t \in Threads, stack[t] # <<>>, Top(t).at # "lock"
    PROVE  \A i \in Level(t) : /\ stack[t][i].at # "lock"
                               /\ lock[stack[t][i].alias] = t
                               /\ \A j \in Level(t) : stack[t][i].alias = stack[t][j].alias => i = j
  <1>1. \A i \in Level(t) : stack[t][i].at # "lock"
    BY StackFacts DEF IInv, LowerInBody, Top, Depth, Level
  <1> QED BY <1>1, StackFacts DEF IInv, Held, InnerWaits, Level

\* Calls end: those above level k, whose mutexes are unlocked.
LEMMA CutKeeps ==
    ASSUME IInv, NEW t \in Threads, NEW k \in Nat, stack[t] # <<>>, Top(t).at # "lock",
           Cut(t, k), stack' \in [Threads -> Seq(Frames)],
           lock' = [a \in Aliases |-> IF \E i \in k + 1 .. Len(stack[t]) : stack[t][i].alias = a
                                     THEN None ELSE lock[a]],
           base' = base
    PROVE  /\ lock' \in [Aliases -> Threads \union {None}]
           /\ TypeStack' /\ LowerInBody' /\ Held' /\ HeldByCall' /\ InnerWaits' /\ OneAlias'
  <1>1. \A u \in Threads : /\ Len(stack[u]) \in Nat /\ Len(stack'[u]) \in Nat
                           /\ Len(stack'[u]) <= Len(stack[u])
                           /\ Len(stack'[u]) = Len(stack[u]) \/ (u = t /\ Len(stack'[u]) = k)
                           /\ Level(u)' \subseteq Level(u)
                           /\ \A i \in Level(u)' : stack'[u][i] = stack[u][i]
    BY StackFacts DEF IInv, Cut, Others, Level
  <1>2. \A u \in Threads : \A i \in Level(u) : stack[u][i].alias \in Aliases
    BY StackFacts DEF IInv, Frames
  <1>3. lock' \in [Aliases -> Threads \union {None}]
    BY DEF IInv, TypeOK
  <1>4. TypeStack'
    BY <1>1, TypeParts DEF IInv, TypeStack
  <1>5. LowerInBody'
    <2> SUFFICES ASSUME NEW u \in Threads
                 PROVE  /\ Len(stack'[u]) <= MaxDepth
                        /\ \A i \in Level(u)' : i < Len(stack'[u]) => stack'[u][i].at = "body"
      BY DEF LowerInBody
    <2>1. Len(stack'[u]) <= MaxDepth
      BY <1>1, BoundsAssumption DEF IInv, LowerInBody
    <2>2. \A i \in Level(u)' : i < Len(stack'[u]) => stack[u][i].at = "body"
      BY <1>1 DEF IInv, LowerInBody, Level
    <2> QED BY <1>1, <2>1, <2>2
  <1>6. Held'
    <2> SUFFICES ASSUME NEW u \in Threads, NEW i \in Level(u)', stack'[u][i].at # "lock"
                 PROVE  lock'[stack'[u][i].alias] = u
      BY DEF Held
    <2> DEFINE a == stack[u][i].alias
    <2>1. i \in Level(u) /\ stack'[u][i] = stack[u][i] /\ a \in Aliases /\ lock[a] = u
      BY <1>1, <1>2 DEF IInv, Held
    <2>2. ~ \E j \in k + 1 .. Len(stack[t]) : stack[t][j].alias = a
      <3> SUFFICES ASSUME NEW j \in k + 1 .. Len(stack[t]), stack[t][j].alias = a
                   PROVE  FALSE
        OBVIOUS
      <3>1. j \in Level(t)
        BY <1>1 DEF Level
      <3>2. lock[a] = t
        BY <3>1, AllEntered
      <3>3. u = t /\ i \in Level(t) /\ stack[t][i].alias = stack[t][j].alias
        BY <2>1, <3>2
      <3>4. i = j
        BY <3>1, <3>3, AllEntered
      <3> QED BY <3>3, <3>4, <1>1 DEF Cut, Level
    <2> QED BY <2>1, <2>2
  <1>7. HeldByCall'
    <2> SUFFICES ASSUME NEW a \in Aliases, NEW u \in Threads, lock'[a] = u
                 PROVE  \E i \in Level(u)' : stack'[u][i].alias = a /\ stack'[u][i].at # "lock"
      BY DEF HeldByCall
    <2>1. lock[a] = u /\ ~ \E j \in k + 1 .. Len(stack[t]) : stack[t][j].alias = a
      BY NoneAssumption
    <2>2. PICK i \in Level(u) : stack[u][i].alias = a /\ stack[u][i].at # "lock"
      BY <2>1 DEF IInv, HeldByCall
    <2>3. i \in Level(u)'
      BY <1>1, <2>1, <2>2 DEF Level
    <2> QED BY <1>1, <2>2, <2>3
  <1>8. InnerWaits'
    BY <1>1 DEF IInv, InnerWaits
  <1>9. OneAlias'
    <2>1. \A c : InUse(c)' => InUse(c)
      BY <1>1 DEF InUse
    <2> QED BY <2>1 DEF IInv, OneAlias
  <1> QED BY <1>3, <1>4, <1>5, <1>6, <1>7, <1>8, <1>9

\* Some transactions are closed: none of those that the remaining calls began.
LEMMA CloseKeeps ==
    ASSUME IInv, NEW t \in Threads, NEW k \in Nat, Cut(t, k), open' \subseteq open,
           \A u \in Threads : \A i \in Level(u)' :
               stack[u][i].own => stack[u][i].ctx.tx \notin open \ open'
    PROVE  open' \subseteq TxIds /\ HasTx'
  <1>1. \A u \in Threads : \A i \in Level(u)' : i \in Level(u) /\ stack'[u][i] = stack[u][i]
    BY StackFacts DEF IInv, Cut, Others, Level
  <1> QED BY <1>1 DEF IInv, HasTx, TypeOK

\* Two calls that are past their mutexes have different aliases, so two that
\* began a transaction began different ones.
LEMMA DifferentCalls ==
    ASSUME IInv, NEW t \in Threads, NEW u \in Threads, NEW i \in Level(t), NEW j \in Level(u),
           stack[t][i].at # "lock", stack[u][j].at # "lock", stack[t][i].alias = stack[u][j].alias
    PROVE  t = u /\ i = j
  <1>1. t = u
    BY DEF IInv, Held
  <1> QED BY <1>1, StackFacts DEF IInv, InnerWaits, Level

LEMMA DifferentTx ==
    ASSUME IInv, NEW t \in Threads, NEW u \in Threads, NEW i \in Level(t), NEW j \in Level(u),
           stack[t][i].own, stack[u][j].own, stack[t][i].ctx.tx = stack[u][j].ctx.tx
    PROVE  t = u /\ i = j
  <1>1. /\ stack[t][i] \in Frames /\ stack[u][j] \in Frames
        /\ stack[t][i].at \in {"body", "query"} /\ stack[u][j].at \in {"body", "query"}
        /\ stack[t][i].ctx.alias = stack[t][i].alias /\ stack[u][j].ctx.alias = stack[u][j].alias
    BY StackFacts DEF IInv, HasTx
  <1>2. stack[t][i].ctx.alias = stack[u][j].ctx.alias
    BY <1>1 DEF IInv, OneAlias, InUse, Frames
  <1>3. /\ stack[t][i].at # "lock" /\ stack[u][j].at # "lock"
        /\ stack[t][i].alias = stack[u][j].alias
    BY <1>1, <1>2
  <1> QED BY <1>3, DifferentCalls

\* The top call of a stack changes, but neither its alias nor how it holds the mutex.
LEMMA ReplaceKeeps ==
    ASSUME IInv, NEW t \in Threads, NEW f \in Frames, stack[t] # <<>>, Replaced(t, f),
           f.alias = Top(t).alias, f.at # "lock",
           lock' = [lock EXCEPT ![f.alias] = t],
           Top(t).at = "lock" => lock[f.alias] = None,
           f.own => f.ctx \in [alias : {f.alias}, tx : TxIds],
           stack' \in [Threads -> Seq(Frames)]
    PROVE  /\ lock' \in [Aliases -> Threads \union {None}]
           /\ TypeStack' /\ LowerInBody' /\ Held' /\ HeldByCall' /\ InnerWaits'
  <1> DEFINE n == Len(stack[t])
  <1>1. /\ n \in Level(t) /\ Top(t) = stack[t][n] /\ f.alias \in Aliases
        /\ \A u \in Threads : Len(stack'[u]) = Len(stack[u]) /\ Len(stack[u]) \in Nat
    BY StackFacts DEF IInv, Replaced, Others, Top, Depth, Frames
  <1>2. \A u \in Threads : \A i \in Level(u) : (u # t \/ i # n) => stack'[u][i] = stack[u][i]
    BY <1>1 DEF Replaced, Others, Level
  <1>3. stack'[t][n] = f
    BY DEF Replaced
  <1>4. \A u \in Threads : Level(u)' = Level(u)
    BY <1>1 DEF Level
  <1>5. \A u \in Threads : \A i \in Level(u) : stack'[u][i].alias = stack[u][i].alias
    BY <1>1, <1>2, <1>3
  <1>6. \A u \in Threads : \A i \in Level(u) :
            stack[u][i].at # "lock" => (lock[stack[u][i].alias] = u /\ stack'[u][i].at # "lock")
    BY <1>1, <1>2, <1>3 DEF IInv, Held
  <1>7. \A u \in Threads : \A i \in Level(u) :
            stack[u][i].at # "lock" /\ stack[u][i].alias = f.alias => u = t
    <2> SUFFICES ASSUME NEW u \in Threads, NEW i \in Level(u),
                        stack[u][i].at # "lock", stack[u][i].alias = f.alias
                 PROVE  u = t
      OBVIOUS
    <2>1. CASE Top(t).at = "lock"
      BY <1>6, <2>1, NoneAssumption
    <2>2. CASE Top(t).at # "lock"
      BY <1>1, <1>6, <2>2
    <2> QED BY <2>1, <2>2
  <1>8. lock' \in [Aliases -> Threads \union {None}]
    BY <1>1 DEF IInv, TypeOK
  <1>9. TypeStack'
    BY <1>1, <1>2, <1>3, <1>4, TypeParts, SMTT(30) DEF IInv, TypeStack
  <1>10. LowerInBody'
    BY <1>1, <1>2, <1>4 DEF IInv, LowerInBody
  <1>11. Held'
    <2> SUFFICES ASSUME NEW u \in Threads, NEW i \in Level(u), stack'[u][i].at # "lock"
                 PROVE  lock'[stack[u][i].alias] = u
      BY <1>4, <1>5 DEF Held
    <2>1. stack[u][i].alias \in Aliases
      BY StackFacts DEF IInv, Frames
    <2>2. CASE u = t /\ i = n
      BY <1>1, <2>1, <2>2 DEF IInv, TypeOK
    <2>3. CASE u # t \/ i # n
      BY <1>2, <1>6, <1>7, <2>1, <2>3 DEF IInv, TypeOK
    <2> QED BY <2>2, <2>3
  <1>12. HeldByCall'
    <2> SUFFICES ASSUME NEW a \in Aliases, NEW u \in Threads, lock'[a] = u
                 PROVE  \E i \in Level(u) : stack'[u][i].alias = a /\ stack'[u][i].at # "lock"
      BY <1>4 DEF HeldByCall
    <2>1. CASE a = f.alias
      BY <1>1, <1>3, <2>1 DEF IInv, TypeOK
    <2>2. CASE a # f.alias
      <3>1. PICK i \in Level(u) : stack[u][i].alias = a /\ stack[u][i].at # "lock"
        BY <2>2 DEF IInv, HeldByCall, TypeOK
      <3> QED BY <1>5, <1>6, <3>1
    <2> QED BY <2>1, <2>2
  <1>13. InnerWaits'
    <2> SUFFICES ASSUME NEW u \in Threads, NEW i \in Level(u), NEW j \in Level(u), i < j,
                        stack[u][i].alias = stack[u][j].alias
                 PROVE  stack'[u][j].at = "lock"
      BY <1>4, <1>5 DEF InnerWaits
    <2>1. stack[u][j].at = "lock"
      BY DEF IInv, InnerWaits
    <2>2. i < Len(stack[u]) /\ stack[u][i].at = "body"
      BY <1>1 DEF IInv, LowerInBody, Level
    <2>3. CASE u = t /\ j = n
      BY <1>1, <1>6, <2>1, <2>2, <2>3, NoneAssumption
    <2>4. CASE u # t \/ j # n
      BY <1>2, <2>1, <2>4
    <2> QED BY <2>3, <2>4
  <1> QED BY <1>8, <1>9, <1>10, <1>11, <1>12, <1>13
-----------------------------------------------------------------------------
(* Every action preserves the invariant.                                   *)

LEMMA CallStep ==
    ASSUME IInv, NEW t \in Threads, NEW a \in Aliases, Call(t, a)
    PROVE  IInv'
  <1> DEFINE f == [alias |-> a, at |-> "lock", own |-> FALSE, ctx |-> Ctx(t)]
             n == Len(stack[t])
  <1>1. n \in Nat /\ n + 1 <= MaxDepth /\ (stack[t] # <<>> => n \in Level(t) /\ Top(t) = stack[t][n] /\ Top(t).at = "body")
    BY StackFacts, BoundsAssumption DEF IInv, Call, Depth, Top, InCode
  <1>2. Ctx(t) \in Contexts /\ InUse(Ctx(t))
    <2>1. CASE stack[t] = <<>>
      BY <2>1 DEF IInv, TypeOK, Ctx, InUse
    <2>2. CASE stack[t] # <<>>
      BY <1>1, <2>2, StackFacts DEF IInv, Ctx, InUse, Frames
    <2> QED BY <2>1, <2>2
  <1>3. f \in Frames
    BY <1>2 DEF Frames
  <1>4. stack' \in [Threads -> Seq(Frames)] /\ Pushed(t, f)
    BY <1>3, PushFacts DEF IInv, Call
  <1>5. UNCHANGED <<lock, base, open>>
    BY DEF Call
  <1> HIDE DEF f
  <1>6. f.alias = a /\ f.at = "lock" /\ ~f.own /\ f.ctx = Ctx(t)
    BY DEF f
  <1>7. \A u \in Threads : /\ Len(stack[u]) \in Nat
                           /\ Len(stack'[u]) = IF u = t THEN Len(stack[u]) + 1 ELSE Len(stack[u])
    BY <1>4, StackFacts DEF IInv, Pushed, Others
  <1>8. \A u \in Threads : \A i \in Level(u)' :
            \/ i \in Level(u) /\ stack'[u][i] = stack[u][i]
            \/ u = t /\ i = n + 1 /\ stack'[u][i] = f
    BY <1>4, <1>7 DEF Pushed, Others, Level
  <1>9. \A u \in Threads : \A i \in Level(u) : i \in Level(u)' /\ stack'[u][i] = stack[u][i]
    BY <1>4, <1>7 DEF Pushed, Others, Level
  <1>10. TypeOK'
    <2>1. TypeStack'
      BY <1>4, <1>6, <1>8, TypeParts DEF IInv, TypeStack
    <2> QED BY <2>1, <1>5 DEF IInv, TypeOK, TypeStack, Level, Depth
  <1>11. LowerInBody'
    <2>1. \A u \in Threads : Len(stack'[u]) <= MaxDepth
      BY <1>1, <1>7 DEF IInv, LowerInBody
    <2>2. ASSUME NEW u \in Threads, NEW i \in Level(u)', i < Len(stack'[u])
          PROVE  stack'[u][i].at = "body"
      <3>1. i \in Level(u) /\ stack'[u][i] = stack[u][i]
        BY <1>7, <1>8, <2>2
      <3>2. CASE i < Len(stack[u])
        BY <3>1, <3>2 DEF IInv, LowerInBody
      <3>3. CASE u = t /\ i = n
        BY <1>1, <3>1, <3>3 DEF Level
      <3> QED BY <1>7, <2>2, <3>1, <3>2, <3>3 DEF Level
    <2> QED BY <2>1, <2>2 DEF LowerInBody
  <1>12. Held'
    BY <1>5, <1>6, <1>8 DEF IInv, Held
  <1>13. HeldByCall'
    <2> SUFFICES ASSUME NEW b \in Aliases, NEW u \in Threads, lock[b] = u
                 PROVE  \E i \in Level(u)' : stack'[u][i].alias = b /\ stack'[u][i].at # "lock"
      BY <1>5 DEF HeldByCall
    <2>1. PICK i \in Level(u) : stack[u][i].alias = b /\ stack[u][i].at # "lock"
      BY DEF IInv, HeldByCall
    <2> QED BY <2>1, <1>9
  <1>14. InnerWaits'
    <2> SUFFICES ASSUME NEW u \in Threads, NEW i \in Level(u)', NEW j \in Level(u)', i < j,
                        stack'[u][i].alias = stack'[u][j].alias
                 PROVE  stack'[u][j].at = "lock"
      BY DEF InnerWaits
    <2>1. CASE j \in Level(u) /\ stack'[u][j] = stack[u][j]
      <3>1. i \in Level(u) /\ stack'[u][i] = stack[u][i]
        BY <1>7, <1>9, <2>1 DEF Level
      <3> QED BY <2>1, <3>1 DEF IInv, InnerWaits
    <2>2. CASE stack'[u][j] = f
      BY <1>6, <2>2
    <2> QED BY <1>8, <2>1, <2>2
  <1>15. HasTx'
    BY <1>5, <1>6, <1>8 DEF IInv, HasTx
  <1>16. OneAlias'
    <2>1. \A c : InUse(c)' => InUse(c)
      BY <1>2, <1>5, <1>6, <1>8 DEF InUse
    <2> QED BY <2>1 DEF IInv, OneAlias
  <1>17. OpenHeld'
    BY <1>5, <1>9 DEF IInv, OpenHeld
  <1> QED BY <1>10, <1>11, <1>12, <1>13, <1>14, <1>15, <1>16, <1>17 DEF IInv

\* The steps of the top call that leave its transaction and its context alone.
LEMMA MoveStep ==
    ASSUME IInv, NEW t \in Threads, NEW label \in {"locked", "body", "query"}, stack[t] # <<>>,
           SetTop(t, [Top(t) EXCEPT !.at = label]),
           lock' = [lock EXCEPT ![Top(t).alias] = t],
           Top(t).at = "lock" => lock[Top(t).alias] = None,
           Top(t).own => label # "locked",
           label # "locked" => Top(t).ctx.alias = Top(t).alias,
           UNCHANGED <<base, open>>
    PROVE  IInv'
  <1> DEFINE f == [Top(t) EXCEPT !.at = label]
             n == Len(stack[t])
  <1>1. n \in Level(t) /\ Top(t) = stack[t][n] /\ Top(t) \in Frames
    BY StackFacts DEF IInv, Top, Depth
  <1>2. f \in Frames /\ f.alias = Top(t).alias /\ f.at = label /\ f.own = Top(t).own /\ f.ctx = Top(t).ctx
    BY <1>1 DEF Frames
  <1>3. stack' \in [Threads -> Seq(Frames)] /\ Replaced(t, f)
    BY <1>2, ReplaceFacts DEF IInv
  <1> HIDE DEF f
  <1>4. f.own => f.ctx \in [alias : {f.alias}, tx : TxIds]
    <2>1. stack[t][n].own => stack[t][n].ctx \in [alias : {stack[t][n].alias}, tx : TxIds]
      BY <1>1, TypeParts DEF IInv, TypeStack
    <2> QED BY <1>1, <1>2, <2>1
  <1>5. /\ lock' \in [Aliases -> Threads \union {None}]
        /\ TypeStack' /\ LowerInBody' /\ Held' /\ HeldByCall' /\ InnerWaits'
    BY <1>2, <1>3, <1>4, ReplaceKeeps
  <1>6. \A u \in Threads : Len(stack'[u]) = Len(stack[u]) /\ Len(stack[u]) \in Nat /\ Level(u)' = Level(u)
    BY <1>3, StackFacts DEF IInv, Replaced, Others, Level
  <1>7. \A u \in Threads : \A i \in Level(u) :
            \/ stack'[u][i] = stack[u][i]
            \/ u = t /\ i = n /\ stack'[u][i] = f
    BY <1>3, <1>6 DEF Replaced, Others, Level
  <1>8. \A u \in Threads : \A i \in Level(u) :
            stack'[u][i].own = stack[u][i].own /\ stack'[u][i].ctx = stack[u][i].ctx
    BY <1>1, <1>2, <1>7
  <1>9. HasTx'
    <2> SUFFICES ASSUME NEW u \in Threads, NEW i \in Level(u)
                 PROVE  /\ stack'[u][i].own => stack'[u][i].at \in {"body", "query"} /\ stack'[u][i].ctx.tx \in open
                        /\ stack'[u][i].at \in {"body", "query"} => stack'[u][i].ctx.alias = stack'[u][i].alias
      BY <1>6 DEF HasTx
    <2>1. CASE stack'[u][i] = stack[u][i]
      BY <2>1 DEF IInv, HasTx
    <2>2. CASE u = t /\ i = n /\ stack'[u][i] = f
      BY <1>1, <1>2, <2>2 DEF IInv, HasTx
    <2> QED BY <1>7, <2>1, <2>2
  <1>10. OneAlias'
    <2>1. \A c : InUse(c)' => InUse(c)
      BY <1>6, <1>8 DEF InUse
    <2> QED BY <2>1 DEF IInv, OneAlias
  <1>11. OpenHeld'
    BY <1>6, <1>8 DEF IInv, OpenHeld
  <1>12. TypeOK'
    BY <1>5 DEF IInv, TypeOK, TypeStack, Level, Depth
  <1> QED BY <1>5, <1>9, <1>10, <1>11, <1>12 DEF IInv

LEMMA BeginStep ==
    ASSUME IInv, NEW t \in Threads, NEW x \in TxIds, Begin(t, x)
    PROVE  IInv'
  <1> DEFINE a == Top(t).alias
             c == [alias |-> a, tx |-> x]
             f == [Top(t) EXCEPT !.at = "body", !.own = TRUE, !.ctx = c]
             n == Len(stack[t])
  <1>1. n \in Level(t) /\ Top(t) = stack[t][n] /\ Top(t) \in Frames /\ stack[t] # <<>> /\ Top(t).at = "locked"
    BY StackFacts DEF IInv, Top, Depth, Begin, At
  <1>2. c \in Contexts /\ c \in [alias : {a}, tx : TxIds] /\ c.alias = a /\ c.tx = x
    BY <1>1 DEF Frames, Contexts
  <1>3. f \in Frames /\ f.alias = a /\ f.at = "body" /\ f.own /\ f.ctx = c
    BY <1>1, <1>2 DEF Frames
  <1>4. stack' \in [Threads -> Seq(Frames)] /\ Replaced(t, f)
    BY <1>1, <1>3, ReplaceFacts DEF IInv, Begin
  <1>5. lock' = lock /\ base' = base /\ open' = open \union {x} /\ Unused(x)
    BY DEF Begin
  <1> HIDE DEF f, c
  <1>6. lock' = [lock EXCEPT ![f.alias] = t]
    <2>1. lock[a] = t
      BY <1>1 DEF IInv, Held
    <2> QED BY <1>3, <1>5, <2>1 DEF IInv, TypeOK
  <1>7. /\ lock' \in [Aliases -> Threads \union {None}]
        /\ TypeStack' /\ LowerInBody' /\ Held' /\ HeldByCall' /\ InnerWaits'
    BY <1>1, <1>2, <1>3, <1>4, <1>6, ReplaceKeeps
  <1>8. \A u \in Threads : Len(stack'[u]) = Len(stack[u]) /\ Len(stack[u]) \in Nat /\ Level(u)' = Level(u)
    BY <1>4, StackFacts DEF IInv, Replaced, Others, Level
  <1>9. \A u \in Threads : \A i \in Level(u) :
            \/ stack'[u][i] = stack[u][i] /\ (u # t \/ i # n)
            \/ u = t /\ i = n /\ stack'[u][i] = f
    BY <1>4, <1>8 DEF Replaced, Others, Level
  <1>10. HasTx'
    <2> SUFFICES ASSUME NEW u \in Threads, NEW i \in Level(u)
                 PROVE  /\ stack'[u][i].own => stack'[u][i].at \in {"body", "query"} /\ stack'[u][i].ctx.tx \in open'
                        /\ stack'[u][i].at \in {"body", "query"} => stack'[u][i].ctx.alias = stack'[u][i].alias
      BY <1>8 DEF HasTx
    <2>1. CASE stack'[u][i] = stack[u][i]
      BY <1>5, <2>1 DEF IInv, HasTx
    <2>2. CASE stack'[u][i] = f
      BY <1>2, <1>3, <1>5, <2>2
    <2> QED BY <1>9, <2>1, <2>2
  <1>11. OneAlias'
    <2>1. \A d : InUse(d)' => InUse(d) \/ d = c
      BY <1>3, <1>5, <1>8, <1>9 DEF InUse
    <2>2. \A d : InUse(d) => d.tx # x
      BY <1>5, NoneAssumption DEF InUse, Unused, Background, Level, Depth
    <2> SUFFICES ASSUME NEW d \in Contexts, NEW e \in Contexts, InUse(d)', InUse(e)', d.tx = e.tx
                 PROVE  d.alias = e.alias
      BY DEF OneAlias
    <2>3. CASE InUse(d) /\ InUse(e)
      BY <2>3 DEF IInv, OneAlias
    <2> QED BY <1>2, <2>1, <2>2, <2>3
  <1>12. OpenHeld'
    <2>1. \A y \in open' : y = x \/ y \in open
      BY <1>5
    <2>2. ~stack[t][n].own
      BY <1>1 DEF IInv, HasTx
    <2>3. stack'[t][n].own /\ stack'[t][n].ctx.tx = x /\ n \in Level(t)'
      BY <1>1, <1>2, <1>3, <1>4, <1>8 DEF Replaced
    <2>4. ASSUME NEW u \in Threads, NEW i \in Level(u), stack[u][i].own
          PROVE  i \in Level(u)' /\ stack'[u][i] = stack[u][i]
      BY <1>8, <1>9, <2>2, <2>4
    <2> QED BY <2>1, <2>3, <2>4 DEF IInv, OpenHeld
  <1>13. TypeOK'
    BY <1>5, <1>7 DEF IInv, TypeOK, TypeStack, Level, Depth
  <1> QED BY <1>7, <1>10, <1>11, <1>12, <1>13 DEF IInv

\* A call ends without a transaction of its own, or with it closed.
LEMMA PopStep ==
    ASSUME IInv, NEW t \in Threads, stack[t] # <<>>, Top(t).at # "lock", Pop(t), base' = base,
           open' = IF Top(t).own THEN open \ {Top(t).ctx.tx} ELSE open
    PROVE  IInv'
  <1> DEFINE n == Len(stack[t])
             k == n - 1
  <1>1. n \in Level(t) /\ Top(t) = stack[t][n] /\ k \in Nat /\ k < n
    BY StackFacts DEF IInv, Top, Depth, Level
  <1>2. stack' = [stack EXCEPT ![t] = SubSeq(@, 1, k)]
    BY DEF Pop
  <1>3. stack' \in [Threads -> Seq(Frames)] /\ Cut(t, k)
    BY <1>1, <1>2, CutFacts DEF IInv
  <1>4. \A i : i \in k + 1 .. n <=> i = n
    BY <1>1
  <1>5. lock' = [a \in Aliases |-> IF \E i \in k + 1 .. n : stack[t][i].alias = a THEN None ELSE lock[a]]
    <2>1. \A a \in Aliases : (\E i \in k + 1 .. n : stack[t][i].alias = a) <=> a = stack[t][n].alias
      BY <1>4
    <2>2. lock' = [lock EXCEPT ![stack[t][n].alias] = None] /\ lock \in [Aliases -> Threads \union {None}]
      BY <1>1 DEF IInv, TypeOK, Pop
    <2>3. lock' = [a \in Aliases |-> IF a = stack[t][n].alias THEN None ELSE lock[a]]
      BY <2>2
    <2> QED BY <2>1, <2>3
  <1>6. /\ lock' \in [Aliases -> Threads \union {None}]
        /\ TypeStack' /\ LowerInBody' /\ Held' /\ HeldByCall' /\ InnerWaits' /\ OneAlias'
    BY <1>1, <1>3, <1>5, CutKeeps
  <1>7. \A u \in Threads : \A i \in Level(u)' : i \in Level(u) /\ (u # t \/ i # n)
    BY <1>1, <1>3, StackFacts DEF IInv, Cut, Others, Level
  <1>8. \A u \in Threads : \A i \in Level(u)' : stack[u][i].own => stack[u][i].ctx.tx \notin open \ open'
    <2> SUFFICES ASSUME NEW u \in Threads, NEW i \in Level(u)', stack[u][i].own, Top(t).own,
                        stack[u][i].ctx.tx = Top(t).ctx.tx
                 PROVE  FALSE
      OBVIOUS
    <2> QED BY <1>1, <1>7, DifferentTx
  <1>9. open' \subseteq TxIds /\ HasTx'
    BY <1>1, <1>3, <1>8, CloseKeeps
  <1>10. OpenHeld'
    <2> SUFFICES ASSUME ~Panics, NEW x \in open'
                 PROVE  \E u \in Threads : \E i \in Level(u)' : stack'[u][i].own /\ stack'[u][i].ctx.tx = x
      BY DEF OpenHeld
    <2>0. PICK u \in Threads : \E i \in Level(u) : stack[u][i].own /\ stack[u][i].ctx.tx = x
      BY DEF IInv, OpenHeld
    <2>1. PICK i \in Level(u) : stack[u][i].own /\ stack[u][i].ctx.tx = x
      BY <2>0
    <2>2. u # t \/ i # n
      BY <1>1, <2>1
    <2>3. CASE u # t
      BY <1>3, <2>1, <2>3 DEF Cut, Others, Level
    <2>4. CASE u = t
      <3>1. i \in 1 .. k
        BY <1>1, <2>2, <2>4 DEF Level
      <3> QED BY <1>3, <2>1, <2>4, <3>1 DEF Cut, Level
    <2> QED BY <2>3, <2>4
  <1>11. TypeOK'
    BY <1>3, <1>6, <1>9 DEF IInv, TypeOK, TypeStack, Level, Depth
  <1> QED BY <1>6, <1>9, <1>10, <1>11 DEF IInv

LEMMA PanicStep ==
    ASSUME IInv, NEW t \in Threads, NEW k \in 0 .. MaxDepth, Panic(t, k)
    PROVE  IInv'
  <1>1. k \in Nat /\ stack[t] # <<>> /\ Top(t).at # "lock" /\ k < Len(stack[t])
    BY BoundsAssumption DEF Panic, At, Depth
  <1>2. stack' \in [Threads -> Seq(Frames)] /\ Cut(t, k)
    BY <1>1, CutFacts DEF IInv, Panic
  <1>3. /\ lock' \in [Aliases -> Threads \union {None}]
        /\ TypeStack' /\ LowerInBody' /\ Held' /\ HeldByCall' /\ InnerWaits' /\ OneAlias'
    BY <1>1, <1>2, CutKeeps DEF Panic, Depth
  <1>4. open' = open /\ base' = base /\ Panics
    BY DEF Panic
  <1>5. HasTx'
    BY <1>1, <1>2, <1>4, CloseKeeps
  <1>6. TypeOK'
    BY <1>3, <1>4 DEF IInv, TypeOK, TypeStack, Level, Depth
  <1> QED BY <1>3, <1>4, <1>5, <1>6 DEF IInv, OpenHeld

\* Starting a goroutine with the context of another, and forgetting it.
LEMMA BaseStep ==
    ASSUME IInv, NEW u \in Threads, NEW c \in Contexts, InUse(c),
           base' = [base EXCEPT ![u] = c], UNCHANGED <<lock, stack, open>>
    PROVE  IInv'
  <1>1. TypeOK'
    BY DEF IInv, TypeOK, Depth
  <1>2. OneAlias'
    <2>1. \A d : InUse(d)' => InUse(d)
      BY DEF InUse, Level, IInv, TypeOK
    <2> QED BY <2>1 DEF IInv, OneAlias
  <1>3. LowerInBody' /\ Held' /\ HeldByCall' /\ InnerWaits' /\ HasTx' /\ OpenHeld'
    BY DEF IInv, LowerInBody, Held, HeldByCall, InnerWaits, HasTx, OpenHeld, Level
  <1> QED BY <1>1, <1>2, <1>3 DEF IInv

LEMMA InitHolds == Init => IInv
  <1> SUFFICES ASSUME Init PROVE IInv
    OBVIOUS
  <1>1. \A t \in Threads : stack[t] = <<>> /\ Len(stack[t]) = 0 /\ Level(t) = {}
    BY DEF Init, Level
  <1>2. TypeOK
    BY <1>1, EmptySeq, NoneAssumption DEF Init, TypeOK, Contexts, Background, Depth
  <1>3. LowerInBody /\ Held /\ InnerWaits /\ HasTx
    BY <1>1, BoundsAssumption DEF LowerInBody, Held, InnerWaits, HasTx
  <1>4. HeldByCall
    BY NoneAssumption DEF Init, HeldByCall
  <1>5. OneAlias
    BY <1>1 DEF Init, OneAlias, InUse
  <1>6. OpenHeld
    BY DEF Init, OpenHeld
  <1> QED BY <1>2, <1>3, <1>4, <1>5, <1>6 DEF IInv

LEMMA NextKeeps == IInv /\ [Next]_vars => IInv'
  <1> SUFFICES ASSUME IInv, [Next]_vars PROVE IInv'
    OBVIOUS
  <1>1. ASSUME NEW t \in Threads, Step(t)
        PROVE  IInv'
    <2>1. stack[t] # <<>> => /\ Top(t) \in Frames
                             /\ Top(t).at # "lock" => lock[Top(t).alias] = t
                             /\ Top(t).own => Top(t).at \in {"body", "query"}
                             /\ Top(t).at \in {"body", "query"} => Top(t).ctx.alias = Top(t).alias
      BY StackFacts DEF IInv, Top, Depth, Held, HasTx
    <2>2. stack[t] # <<>> /\ Top(t).at # "lock" => lock = [lock EXCEPT ![Top(t).alias] = t]
      BY <2>1 DEF IInv, TypeOK
    <2>3. stack[t] # <<>> => Top(t).ctx \in Contexts /\ InUse(Top(t).ctx)
      BY <2>1, StackFacts DEF IInv, Top, Depth, InUse, Frames
    <2>4. CASE \E a \in Aliases : Call(t, a)
      BY <2>4, CallStep
    <2>5. CASE Acquire(t)
      BY <2>1, <2>5, MoveStep DEF Acquire, At
    <2>6. CASE SavepointSet(t)
      BY <2>2, <2>6, MoveStep DEF SavepointSet, At
    <2>7. CASE SavepointFails(t)
      BY <2>1, <2>7, PopStep DEF SavepointFails, At
    <2>8. CASE \E x \in TxIds : Begin(t, x)
      BY <2>8, BeginStep
    <2>9. CASE BeginFails(t)
      BY <2>1, <2>9, PopStep DEF BeginFails, At
    <2>10. CASE Query(t)
      BY <2>1, <2>2, <2>10, MoveStep DEF Query, At
    <2>11. CASE Answer(t)
      BY <2>1, <2>2, <2>11, MoveStep DEF Answer, At
    <2>12. CASE Finish(t)
      BY <2>12, PopStep DEF Finish, At
    <2>13. CASE \E k \in 0 .. MaxDepth : Panic(t, k)
      BY <2>13, PanicStep
    <2>14. CASE \E u \in Threads \ {t} : Spawn(t, u)
      BY <2>3, <2>14, BaseStep DEF Spawn, At, Ctx
    <2>15. CASE Exit(t)
      <3>1. Background \in Contexts /\ InUse(Background)
        BY DEF Background, Contexts, InUse
      <3> QED BY <3>1, <2>15, BaseStep DEF Exit
    <2> QED BY <1>1, <2>4, <2>5, <2>6, <2>7, <2>8, <2>9, <2>10, <2>11, <2>12, <2>13, <2>14, <2>15 DEF Step
  <1>2. CASE UNCHANGED vars
    BY <1>2 DEF vars, IInv, TypeOK, LowerInBody, Held, HeldByCall, InnerWaits, HasTx, OneAlias, InUse,
                OpenHeld, Level, Depth
  <1> QED BY <1>1, <1>2 DEF Next

\* The invariant holds in every reachable state.
THEOREM Invariance == Spec => []IInv
  BY InitHolds, NextKeeps, PTL DEF Spec
-----------------------------------------------------------------------------
(* The theorems.                                                           *)

\* Type correctness, for any number of goroutines, aliases and connections.
THEOREM TypeCorrect == Spec => []TypeOK
  <1>1. IInv => TypeOK
    BY DEF IInv
  <1> QED BY <1>1, Invariance, PTL

\* What a call in Entered is.
LEMMA EnteredFacts ==
    ASSUME IInv, NEW c \in Entered
    PROVE  /\ c = <<c[1], c[2]>> /\ c[1] \in Threads /\ c[2] \in Level(c[1])
           /\ Frame(c) = stack[c[1]][c[2]] /\ Frame(c).at # "lock"
  BY StackFacts DEF IInv, Entered, Frame, Depth, Level

LEMMA IsEntered ==
    ASSUME IInv, NEW t \in Threads, NEW i \in Level(t), stack[t][i].at # "lock"
    PROVE  <<t, i>> \in Entered /\ Frame(<<t, i>>) = stack[t][i]
  <1>1. i \in 1 .. MaxDepth
    BY StackFacts, BoundsAssumption DEF IInv, LowerInBody, Level
  <1> QED BY <1>1, StackFacts DEF IInv, Entered, Frame, Depth, Level

\* Two calls of AtomicUsing for one alias are never both past the mutex.
THEOREM OneCallPerAliasAlways == Spec => []OneCallPerAlias
  <1>1. IInv => OneCallPerAlias
    <2> SUFFICES ASSUME IInv, NEW c \in Entered, NEW d \in Entered, Frame(c).alias = Frame(d).alias
                 PROVE  c = d
      BY DEF OneCallPerAlias
    <2>1. c[1] = d[1] /\ c[2] = d[2]
      BY EnteredFacts, DifferentCalls
    <2> QED BY <2>1, EnteredFacts
  <1> QED BY <1>1, Invariance, PTL

\* Whatever way calls end, panics included, a mutex is held exactly by the
\* goroutine that is in a call past it.
THEOREM MutexIsHeldAlways == Spec => []MutexIsHeldByItsCall
  <1>1. IInv => MutexIsHeldByItsCall
    <2> SUFFICES ASSUME IInv, NEW a \in Aliases, NEW t \in Threads
                 PROVE  lock[a] = t <=> \E c \in Entered : c[1] = t /\ Frame(c).alias = a
      BY DEF MutexIsHeldByItsCall
    <2>1. ASSUME lock[a] = t
          PROVE  \E c \in Entered : c[1] = t /\ Frame(c).alias = a
      <3>1. PICK i \in Level(t) : stack[t][i].alias = a /\ stack[t][i].at # "lock"
        BY <2>1 DEF IInv, HeldByCall
      <3>2. <<t, i>> \in Entered /\ Frame(<<t, i>>).alias = a
        BY <3>1, IsEntered
      <3>3. <<t, i>>[1] = t
        OBVIOUS
      <3> QED BY <3>2, <3>3
    <2>2. ASSUME NEW c \in Entered, c[1] = t, Frame(c).alias = a
          PROVE  lock[a] = t
      BY <2>2, EnteredFacts DEF IInv, Held
    <2> QED BY <2>1, <2>2
  <1> QED BY <1>1, Invariance, PTL

\* A savepoint is only ever set in a transaction that no call in progress has.
THEOREM SavepointIsOrphanAlways == Spec => []SavepointIsOrphan
  <1>1. IInv => SavepointIsOrphan
    <2> SUFFICES ASSUME IInv, NEW c \in Entered, NEW d \in Entered, Frame(c).at \in {"body", "query"},
                        ~Frame(c).own, Frame(d).own, Frame(c).ctx.tx = Frame(d).ctx.tx
                 PROVE  FALSE
      BY DEF SavepointIsOrphan
    <2> DEFINE e == stack[c[1]][c[2]]
               f == stack[d[1]][d[2]]
    <2>1. /\ c[1] \in Threads /\ c[2] \in Level(c[1]) /\ Frame(c) = e
          /\ d[1] \in Threads /\ d[2] \in Level(d[1]) /\ Frame(d) = f
      BY EnteredFacts
    <2>2. e.ctx.alias = e.alias /\ f.ctx.alias = f.alias
      BY <2>1 DEF IInv, HasTx
    <2>3. e.ctx \in Contexts /\ f.ctx \in Contexts /\ InUse(e.ctx) /\ InUse(f.ctx)
      BY <2>1, StackFacts DEF IInv, InUse, Frames
    <2>4. e.alias = f.alias
      BY <2>1, <2>2, <2>3 DEF IInv, OneAlias
    <2>5. c[1] = d[1] /\ c[2] = d[2]
      BY <2>1, <2>4, EnteredFacts, DifferentCalls
    <2> QED BY <2>1, <2>5
  <1> QED BY <1>1, Invariance, PTL

\* Without panics an open transaction always belongs to a call in progress.
THEOREM OpenIsOwnedAlways == Spec => []OpenIsOwned
  <1>1. IInv => OpenIsOwned
    <2> SUFFICES ASSUME IInv, ~Panics, NEW x \in open
                 PROVE  \E c \in Entered : Frame(c).own /\ Frame(c).ctx.tx = x
      BY DEF OpenIsOwned
    <2>1. PICK t \in Threads : \E i \in Level(t) : stack[t][i].own /\ stack[t][i].ctx.tx = x
      BY DEF IInv, OpenHeld
    <2>2. PICK i \in Level(t) : stack[t][i].own /\ stack[t][i].ctx.tx = x
      BY <2>1
    <2>3. <<t, i>> \in Entered /\ Frame(<<t, i>>) = stack[t][i]
      BY <2>2, IsEntered DEF IInv, HasTx
    <2> QED BY <2>2, <2>3
  <1> QED BY <1>1, Invariance, PTL

\* A call nested in one for the same alias makes no step, ever.
THEOREM NestedNeverReturns == Spec => NestedCallNeverReturns
  <1>1. IInv /\ [Next]_vars => [\A t \in Threads : Nested(t) => stack'[t] = stack[t]]_vars
    <2> SUFFICES ASSUME IInv, NEW u \in Threads, Step(u), NEW t \in Threads, Nested(t)
                 PROVE  stack'[t] = stack[t]
      BY DEF Next
    <2>1. PICK i \in 1 .. Depth(t) - 1 : stack[t][i].alias = Top(t).alias
      BY DEF Nested
    <2>2. /\ i \in Level(t) /\ Len(stack[t]) \in Level(t) /\ i < Len(stack[t])
          /\ stack[t] # <<>> /\ Top(t) = stack[t][Len(stack[t])]
      BY StackFacts DEF IInv, Depth, Level, Top
    <2>3. Top(t).at = "lock"
      BY <2>1, <2>2 DEF IInv, InnerWaits
    <2>4. stack[t][i].at # "lock" /\ lock[Top(t).alias] = t /\ t # None
      BY <2>1, <2>2, NoneAssumption DEF IInv, LowerInBody, Held
    <2>5. CASE u = t
      BY <2>2, <2>3, <2>4, <2>5 DEF Step, Call, InCode, Acquire, At, SavepointSet, SavepointFails, Begin,
             BeginFails, Query, Answer, Finish, Panic, Spawn, Exit
    <2>6. CASE u # t
      BY <2>6 DEF IInv, TypeOK, Step, Call, Acquire, SavepointSet, SavepointFails, Begin,
             BeginFails, Query, Answer, Finish, Panic, Spawn, Exit, SetTop, Pop
    <2> QED BY <2>5, <2>6
  <1> QED BY <1>1, Invariance, PTL DEF Spec, NestedCallNeverReturns
=============================================================================
