------------------------------ MODULE AtomicTx ------------------------------
(***************************************************************************)
(* orm/tx.go: AtomicUsing, called by goroutines (Threads) for database     *)
(* aliases, on the connection pool of one DB.                              *)
(*                                                                         *)
(* There is one mutex per alias in the whole process, and AtomicUsing      *)
(* locks it before it asks its context for a transaction.  A call nested   *)
(* in the callback of another is a frame on top of it.  The callback gets  *)
(* a context that carries the alias and the transaction of the innermost   *)
(* call that began one; a goroutine it starts inherits the context and may *)
(* outlive the call.  Statements of a callback that go through the DB (as  *)
(* those of auth/users.go do) take a second connection of the pool.        *)
(*                                                                         *)
(* The unlocking (a deferred call) is part of the step that ends a call:   *)
(* nothing else happens in between.  The fields tx and level of a layer    *)
(* are left out: they only give savepoints their names.                    *)
(***************************************************************************)
EXTENDS Integers, Sequences, FiniteSets

CONSTANTS
    Threads,      \* goroutines
    Aliases,      \* database aliases
    TxIds,        \* names for transactions
    None,         \* no thread, no alias, no transaction
    MaxConns,     \* size of the pool
    MaxDepth,     \* bound on the nesting of calls
    Nests,        \* pairs <<a, b>>: callbacks for a call AtomicUsing for b
    Escapes,      \* TRUE if callbacks start goroutines with their context
    Panics        \* TRUE if callbacks panic

ASSUME NoneAssumption == None \notin Threads \union Aliases \union TxIds
ASSUME BoundsAssumption == MaxConns \in Nat /\ MaxDepth \in Nat

VARIABLES
    lock,      \* lock[a]: the thread that holds the mutex of a's layer, or None
    stack,     \* stack[t]: the calls of AtomicUsing that t is in, outermost first
    base,      \* base[t]: the context t was started with
    open       \* the transactions that are open, each with a connection

vars == <<lock, stack, base, open>>

Contexts == [alias : Aliases \union {None}, tx : TxIds \union {None}]
Background == [alias |-> None, tx |-> None]

\* at: where the call is; own: it began its transaction; ctx: the context its
\* callback gets.
Frames == [alias : Aliases, at : {"lock", "locked", "body", "query"}, own : BOOLEAN, ctx : Contexts]

Depth(t) == Len(stack[t])
Top(t) == stack[t][Depth(t)]

\* The context of the code that t is executing.
Ctx(t) == IF stack[t] = <<>> THEN base[t] ELSE Top(t).ctx

\* t is in the code of a callback, or outside every call.
InCode(t) == stack[t] # <<>> => Top(t).at = "body"

FreeConnection == Cardinality(open) < MaxConns

SetTop(t, frame) == stack' = [stack EXCEPT ![t][Depth(t)] = frame]

\* The top call of t ends and unlocks its layer.
Pop(t) ==
    /\ stack' = [stack EXCEPT ![t] = SubSeq(@, 1, Len(@) - 1)]
    /\ lock' = [lock EXCEPT ![Top(t).alias] = None]

At(t, label) == stack[t] # <<>> /\ Top(t).at = label
-----------------------------------------------------------------------------
Init ==
    /\ lock = [a \in Aliases |-> None]
    /\ stack = [t \in Threads |-> <<>>]
    /\ base = [t \in Threads |-> Background]
    /\ open = {}

\* AtomicUsing(ctx, db, a, fn) up to layer.mu.Lock().
Call(t, a) ==
    /\ InCode(t)
    /\ Depth(t) < MaxDepth
    /\ \A i \in 1 .. Depth(t) : <<stack[t][i].alias, a>> \in Nests
    /\ stack' = [stack EXCEPT ![t] = Append(@, [alias |-> a, at |-> "lock", own |-> FALSE, ctx |-> Ctx(t)])]
    /\ UNCHANGED <<lock, base, open>>

\* Mutant of Acquire: the layer is a lock that its holder may take again.
AcquireReentrant(t) ==
    /\ At(t, "lock")
    /\ lock[Top(t).alias] \in {None, t}
    /\ lock' = [lock EXCEPT ![Top(t).alias] = t]
    /\ SetTop(t, [Top(t) EXCEPT !.at = "locked"])
    /\ UNCHANGED <<base, open>>

Acquire(t) ==
    /\ At(t, "lock")
    /\ lock[Top(t).alias] = None
    /\ lock' = [lock EXCEPT ![Top(t).alias] = t]
    /\ SetTop(t, [Top(t) EXCEPT !.at = "locked"])
    /\ UNCHANGED <<base, open>>

\* txFromContext finds a transaction for the alias: a savepoint in it, which
\* is an error if the transaction is over.
SavepointSet(t) ==
    /\ At(t, "locked")
    /\ Top(t).ctx.alias = Top(t).alias
    /\ Top(t).ctx.tx \in open
    /\ SetTop(t, [Top(t) EXCEPT !.at = "body"])
    /\ UNCHANGED <<lock, base, open>>

SavepointFails(t) ==
    /\ At(t, "locked")
    /\ Top(t).ctx.alias = Top(t).alias
    /\ Pop(t)
    /\ UNCHANGED <<base, open>>

\* A transaction that no thread has heard of.
Unused(x) ==
    /\ x \notin open
    /\ \A t \in Threads : /\ base[t].tx # x
                          /\ \A i \in 1 .. Depth(t) : stack[t][i].ctx.tx # x

\* It finds none: a new transaction, on a connection of its own.
Begin(t, x) ==
    /\ At(t, "locked")
    /\ Top(t).ctx.alias # Top(t).alias
    /\ FreeConnection
    /\ Unused(x)
    /\ open' = open \union {x}
    /\ SetTop(t, [Top(t) EXCEPT !.at = "body", !.own = TRUE, !.ctx = [alias |-> Top(t).alias, tx |-> x]])
    /\ UNCHANGED <<lock, base>>

\* Mutant of BeginFails: the layer stays locked.
BeginFailsLocked(t) ==
    /\ At(t, "locked")
    /\ Top(t).ctx.alias # Top(t).alias
    /\ stack' = [stack EXCEPT ![t] = SubSeq(@, 1, Len(@) - 1)]
    /\ UNCHANGED <<lock, base, open>>

BeginFails(t) ==
    /\ At(t, "locked")
    /\ Top(t).ctx.alias # Top(t).alias
    /\ Pop(t)
    /\ UNCHANGED <<base, open>>

\* A callback sends a statement through the DB and waits for a connection ...
Query(t) ==
    /\ At(t, "body")
    /\ SetTop(t, [Top(t) EXCEPT !.at = "query"])
    /\ UNCHANGED <<lock, base, open>>

\* ... which it gives back when it has the answer.
Answer(t) ==
    /\ At(t, "query")
    /\ FreeConnection
    /\ SetTop(t, [Top(t) EXCEPT !.at = "body"])
    /\ UNCHANGED <<lock, base, open>>

\* Mutant of Finish: after an error the transaction is neither rolled back nor
\* committed.
FinishOpen(t) ==
    /\ At(t, "body")
    /\ open' \in {open, open \ {Top(t).ctx.tx}}
    /\ Pop(t)
    /\ UNCHANGED base

\* The callback returns.  A call that began a transaction commits it or rolls
\* it back, which gives the connection back even if it is an error; one with
\* a savepoint leaves the transaction as it is.
Finish(t) ==
    /\ At(t, "body")
    /\ open' = IF Top(t).own THEN open \ {Top(t).ctx.tx} ELSE open
    /\ Pop(t)
    /\ UNCHANGED base

\* The callback panics, and something outside its k+1st call recovers: the
\* deferred calls unlock the layers, and nothing ends the transactions.
Panic(t, k) ==
    /\ Panics
    /\ At(t, "body")
    /\ k < Depth(t)
    /\ stack' = [stack EXCEPT ![t] = SubSeq(@, 1, k)]
    /\ lock' = [a \in Aliases |-> IF \E i \in k + 1 .. Depth(t) : stack[t][i].alias = a
                                  THEN None ELSE lock[a]]
    /\ UNCHANGED <<base, open>>

\* A callback of t starts the goroutine u.
Spawn(t, u) ==
    /\ Escapes
    /\ At(t, "body")
    /\ stack[u] = <<>>
    /\ base[u] = Background
    /\ base' = [base EXCEPT ![u] = Ctx(t)]
    /\ UNCHANGED <<lock, stack, open>>

\* A goroutine that a callback started ends, and another one takes its name.
Exit(u) ==
    /\ stack[u] = <<>>
    /\ base[u] # Background
    /\ base' = [base EXCEPT ![u] = Background]
    /\ UNCHANGED <<lock, stack, open>>

Step(t) ==
    \/ \E a \in Aliases : Call(t, a)
    \/ Acquire(t)
    \/ SavepointSet(t)
    \/ SavepointFails(t)
    \/ \E x \in TxIds : Begin(t, x)
    \/ BeginFails(t)
    \/ Query(t)
    \/ Answer(t)
    \/ Finish(t)
    \/ \E k \in 0 .. MaxDepth : Panic(t, k)
    \/ \E u \in Threads \ {t} : Spawn(t, u)
    \/ Exit(t)

Next == \E t \in Threads : Step(t)

Spec == Init /\ [][Next]_vars

\* Neither a mutex nor the pool lets a goroutine starve, statements get an
\* answer, and a callback does not run, or call AtomicUsing, forever.
FairSpec ==
    /\ Spec
    /\ \A t \in Threads :
          /\ SF_vars(Acquire(t))
          /\ SF_vars(SavepointSet(t) \/ SavepointFails(t) \/ BeginFails(t) \/ \E x \in TxIds : Begin(t, x))
          /\ SF_vars(Answer(t))
          /\ \A d \in 1 .. MaxDepth : SF_vars(Depth(t) = d /\ Finish(t))
-----------------------------------------------------------------------------
(* Properties.                                                             *)

TypeOK ==
    /\ lock \in [Aliases -> Threads \union {None}]
    /\ stack \in [Threads -> Seq(Frames)]
    /\ base \in [Threads -> Contexts]
    /\ open \subseteq TxIds
    /\ \A t \in Threads : \A i \in 1 .. Depth(t) :
          stack[t][i].own => stack[t][i].ctx \in [alias : {stack[t][i].alias}, tx : TxIds]

\* The calls that have the mutex of their layer, as pairs <<thread, level>>.
Entered == {c \in Threads \X (1 .. MaxDepth) :
               c[2] <= Depth(c[1]) /\ stack[c[1]][c[2]].at # "lock"}

Frame(c) == stack[c[1]][c[2]]

\* Atomic is a critical section of the process: two calls for the same alias,
\* in the same goroutine or in two, are never both past the mutex, so that two
\* requests never have a transaction for the same alias at the same time.
OneCallPerAlias ==
    \A c, d \in Entered : Frame(c).alias = Frame(d).alias => c = d

\* Every way out of a call unlocks the mutex it locked and no other: a mutex
\* is locked exactly while a call for its alias is past it.
MutexIsHeldByItsCall ==
    \A a \in Aliases, t \in Threads :
        lock[a] = t <=> \E c \in Entered : c[1] = t /\ Frame(c).alias = a

\* What that means for a call nested in one for the same alias: it waits for
\* a mutex that only its own goroutine could unlock, and never gets on.
Nested(t) == \E i \in 1 .. Depth(t) - 1 : stack[t][i].alias = Top(t).alias

NestedCallNeverReturns == [][\A t \in Threads : Nested(t) => stack'[t] = stack[t]]_vars

\* The transaction of a savepoint is never that of a call which is still in
\* progress: it was left open by a panic, and nobody will commit it.
SavepointIsOrphan ==
    \A c, d \in Entered :
        Frame(c).at \in {"body", "query"} /\ ~Frame(c).own /\ Frame(d).own
            => Frame(c).ctx.tx # Frame(d).ctx.tx

\* Unless a callback panicked, every open transaction belongs to a call that
\* is in progress: an error on any path gives the connection back.
OpenIsOwned ==
    Panics \/ \A x \in open : \E c \in Entered : Frame(c).own /\ Frame(c).ctx.tx = x

\* Every call ends if nobody panics, calls are nested for different aliases
\* and always in the same order, and the pool has a connection more than there
\* are aliases.
EveryCallEnds == \A t \in Threads : []<>(stack[t] = <<>>)
=============================================================================
