----------------------- MODULE SchemaMigration_proofs -----------------------
(***************************************************************************)
(* SchemaMigration adds data to the control of MigrationExecutor and takes *)
(* no step that the control does not allow: it implements it, so that what *)
(* is proved of the executor holds with any migrations, any project state  *)
(* and any database that accepts or refuses statements.  What the schema   *)
(* is depends on the migrations: for those that have been rehearsed, one   *)
(* process after another, it is proved for all processes at once.          *)
(***************************************************************************)
EXTENDS SchemaMigration, MigrationExecutor_proofs

\* Each step of SchemaMigration is one of MigrationExecutor or leaves its
\* variables alone.
LEMMA DataStep == ASSUME [SchemaNext]_allVars PROVE [Next]_vars
  <1>1. CASE UNCHANGED allVars
    BY <1>1 DEF allVars
  <1>2. ASSUME NEW p \in Migrators, Enter(p)
        PROVE  Next
    BY <1>2 DEF Enter, Next
  <1>3. ASSUME NEW p \in Migrators, Restart(p)
        PROVE  [Next]_vars
    BY <1>3 DEF Restart, Next
  <1>4. ASSUME NEW p \in Migrators, Work(p)
        PROVE  [Next]_vars
    <2>1. ASSUME NEW reply \in Replies, Ensure(p, reply)
          PROVE  Next
      BY <2>1 DEF Ensure, Next, Step
    <2>2. ASSUME NEW reply \in Replies, Execute(p, reply)
          PROVE  Next
      <3>1. PICK r \in Replies, done \in BOOLEAN : RunStatement(p, done, r)
        BY <2>2 DEF Execute, Replies
      <3> QED BY <3>1 DEF Next, Step
    <2>3. ASSUME NEW reply \in Replies, WriteRecord(p, reply)
          PROVE  Next
      BY <2>3 DEF WriteRecord, Next, Step
    <2>4. CASE BeginMigration(p)
      BY <2>4 DEF BeginMigration, Next, Step
    <2>5. CASE BeginOp(p)
      BY <2>5 DEF BeginOp, Next, Step
    <2>6. CASE Reject(p)
      BY <2>6 DEF Reject, Next, Step
    <2>7. CASE BookkeepingRefused(p)
      BY <2>7 DEF BookkeepingRefused, Next, Step
    <2>8. CASE Local(p)
      BY <2>8 DEF Local, Next, Step
    <2>9. CASE Leave(p)
      BY <2>9 DEF Leave, Next, Step
    <2> QED BY <1>4, <2>1, <2>2, <2>3, <2>4, <2>5, <2>6, <2>7, <2>8, <2>9 DEF Work
  <1> QED BY <1>1, <1>2, <1>3, <1>4 DEF SchemaNext

\* The migrations with their data implement the executor without it.
THEOREM ControlRefinement == SchemaSpec => Spec
  <1>1. SchemaInit => Init
    BY DEF SchemaInit
  <1>2. [SchemaNext]_allVars => [Next]_vars
    BY DataStep
  <1> QED BY <1>1, <1>2, PTL DEF SchemaSpec, Spec

\* A recorded migration has had every one of its operations executed by one
\* process in one go, whatever its operations and the database are.
THEOREM RecordedRanWithData == SchemaSpec => []RecordedRan
  BY ControlRefinement, RecordedRanAlways, PTL

\* No migration is recorded twice, whatever the database accepts.
THEOREM OneRowEachWithData == SchemaSpec => []OneRowEach
  BY ControlRefinement, OneRowEachAlways, PTL

\* If only ApplyAll is called, what is half-done belongs to one migration,
\* the first that is not recorded.
THEOREM DamageAtFrontierWithData ==
    ASSUME Calls \subseteq {"ApplyAll"}
    PROVE  SchemaSpec => []DamageAtFrontier
  BY ControlRefinement, DamageAtFrontierAlways, PTL

\* Without Reverse, an ApplyAll that returns no error leaves every migration
\* recorded.
THEOREM SuccessIsCompleteWithData ==
    ASSUME NoReverse
    PROVE  SchemaSpec => []SuccessIsComplete
  BY ControlRefinement, SuccessIsCompleteAlways, PTL
-----------------------------------------------------------------------------
(* Processes that call ApplyAll stay on a script that has been rehearsed.  *)

\* Process p, in the middle of a migration, is past the first i statements of the
\* script: between two operations, or with the rest of one to send.
At(r, p, i) ==
    /\ op[p] \in Places(cur[p])
    /\ \/ /\ queue[p] = <<>>
          /\ i = r.starts[cur[p]][op[p]]
          /\ st[p] = r.states[cur[p]][op[p]]
       \/ /\ op[p] # NumOps[cur[p]]
          /\ i \in r.starts[cur[p]][op[p]] .. r.starts[cur[p]][op[p] + 1] - 1
          /\ queue[p] = SubSeq(r.script, i + 1, r.starts[cur[p]][op[p] + 1])
          /\ st[p] = r.states[cur[p]][op[p] + 1]

\* Of the n statements that have taken effect, p is past some, in a migration that
\* is recorded or the next to be.
OnScript(r, n, f, p) ==
    /\ st[p].heap = PristineHeap(Migrations)
    /\ pc[p] # "run" => queue[p] = <<>>
    /\ pc[p] = "run" => cur[p] <= f /\ \E i \in 0 .. n : At(r, p, i)
    /\ pc[p] = "record" => cur[p] <= f /\ Begin(r, cur[p] + 1) <= n

\* The first n statements of the script have taken effect and f is the first
\* migration that is not recorded.
Spot(r, n, f) ==
    /\ f \in 1 .. Last + 1
    /\ n \in Begin(r, f) .. Begin(r, f + 1)
    /\ Recorded = 1 .. f - 1
    /\ db \in r.dbs[n]
    /\ n # Begin(r, f) => f \in touched

Plan(r, n, f) ==
    /\ Spot(r, n, f)
    /\ DOMAIN st = Migrators /\ DOMAIN queue = Migrators
    /\ \A p \in Migrators : OnScript(r, n, f, p)

\* A step of another process.
Same(q) ==
    /\ pc'[q] = pc[q] /\ cur'[q] = cur[q] /\ op'[q] = op[q]
    /\ st'[q] = st[q] /\ queue'[q] = queue[q]

\* A step after which no more statements have taken effect.
Quiet == rows' = rows /\ db' = db /\ touched' = touched

\* The rest of a script, from statement i + 1 to statement j: its head, its tail
\* and its length.
LEMMA RestOfScript ==
  ASSUME NEW S, NEW script \in Seq(S), NEW i \in Nat, NEW j \in 0 .. Len(script)
  PROVE  /\ i < j => /\ SubSeq(script, i + 1, j) # <<>>
                     /\ Len(SubSeq(script, i + 1, j)) = j - i
                     /\ Head(SubSeq(script, i + 1, j)) = script[i + 1]
                     /\ Tail(SubSeq(script, i + 1, j)) = SubSeq(script, i + 2, j)
         /\ i >= j => SubSeq(script, i + 1, j) = <<>>
  <1> DEFINE rest == SubSeq(script, i + 1, j)
  <1>1. CASE i >= j
    <2>1. SubSeq(script, i + 1, j) \in Seq(S) /\ Len(SubSeq(script, i + 1, j)) = 0
      BY <1>1
    <2> QED BY <1>1, <2>1
  <1>2. CASE i < j
    <2>1. rest \in Seq(S) /\ Len(rest) = j - i
      BY <1>2
    <2>2. \A k \in 1 .. j - i : rest[k] = script[i + k]
      BY <1>2
    <2>3. rest # <<>> /\ Head(rest) = script[i + 1]
      BY <1>2, <2>1, <2>2
    <2>4. Tail(rest) = SubSeq(script, i + 2, j)
      <3>1. Tail(rest) \in Seq(S) /\ Len(Tail(rest)) = j - i - 1
        BY <1>2, <2>1, <2>3
      <3>2. \A k \in 1 .. j - i - 1 : Tail(rest)[k] = script[i + 1 + k]
        BY <1>2, <2>1, <2>2, <2>3
      <3>3. SubSeq(script, i + 2, j) \in Seq(S) /\ Len(SubSeq(script, i + 2, j)) = j - i - 1
        BY <1>2
      <3>4. \A k \in 1 .. j - i - 1 : SubSeq(script, i + 2, j)[k] = script[i + 1 + k]
        BY <1>2
      <3> QED BY <3>1, <3>2, <3>3, <3>4
    <2> QED BY <1>2, <2>1, <2>3, <2>4
  <1> QED BY <1>1, <1>2

\* The places of a script that has been rehearsed: they are numbers, the migrations
\* begin one after another, and an operation lies within its migration.
Ordered(r) ==
    /\ Len(r.script) \in Nat
    /\ \A k \in 1 .. Last + 2 : Begin(r, k) \in 0 .. Len(r.script)
    /\ \A k, m \in 1 .. Last + 2 : k <= m => Begin(r, k) <= Begin(r, m)
    /\ \A m \in Mig : \A o \in Places(m) :
          /\ r.starts[m][o] \in 0 .. Len(r.script)
          /\ Begin(r, m) <= r.starts[m][o] /\ r.starts[m][o] <= Begin(r, m + 1)
    /\ \A m \in Mig :
          /\ r.starts[m][0] = Begin(r, m) /\ r.starts[m][NumOps[m]] = Begin(r, m + 1)
          /\ \A o \in Places(m) \ {NumOps[m]} : r.starts[m][o] <= r.starts[m][o + 1]

LEMMA PlacesAreNumbers ==
  ASSUME NEW m \in Mig
  PROVE  /\ NumOps[m] \in Nat /\ 0 \in Places(m) /\ NumOps[m] \in Places(m)
         /\ \A o \in Places(m) \ {NumOps[m]} : o \in Nat /\ o + 1 \in Places(m)
  BY NumOpsAssumption DEF Places

LEMMA OrderOfScript ==
  ASSUME NEW r, InOrder(r)
  PROVE  Ordered(r)
  <1>1. Len(r.script) \in Nat
    BY DEF InOrder
  <1>2. ASSUME NEW m \in Mig
        PROVE  Begin(r, m) = r.starts[m][0] /\ m + 1 \in 1 .. Last + 2
    <2>1. m \in Nat /\ m >= 1 /\ m <= Last /\ ~(m > Last)
      BY LastAssumption DEF Mig
    <2> QED BY <2>1, LastAssumption DEF Begin
  <1>3. ASSUME NEW k \in 1 .. Last + 2, k \notin Mig
        PROVE  Begin(r, k) = Len(r.script)
    <2>1. k > Last
      BY <1>3, LastAssumption DEF Mig
    <2> QED BY <2>1 DEF Begin
  <1>4. ASSUME NEW m \in Mig, NEW o \in Places(m)
        PROVE  r.starts[m][o] \in 0 .. Len(r.script)
    BY <1>4 DEF InOrder
  <1>5. ASSUME NEW m \in Mig, NEW k \in Mig, NEW o \in Places(m), NEW i \in Places(k),
               m < k \/ (m = k /\ o <= i)
        PROVE  r.starts[m][o] <= r.starts[k][i]
    BY <1>5 DEF InOrder
  <1>6. \A k \in 1 .. Last + 2 : Begin(r, k) \in 0 .. Len(r.script)
    BY <1>1, <1>2, <1>3, <1>4, PlacesAreNumbers
  <1>7. ASSUME NEW k \in 1 .. Last + 2, NEW m \in 1 .. Last + 2, k <= m
        PROVE  Begin(r, k) <= Begin(r, m)
    <2>1. CASE m \notin Mig
      BY <1>1, <1>3, <1>6, <2>1
    <2>2. CASE m \in Mig
      <3>1. k \in Mig
        BY <1>7, <2>2, LastAssumption DEF Mig
      <3>2. 0 \in Places(k) /\ 0 \in Places(m) /\ (k < m \/ (k = m /\ 0 <= 0))
        BY <1>7, <2>2, <3>1, PlacesAreNumbers
      <3> QED BY <1>2, <1>5, <2>2, <3>1, <3>2
    <2> QED BY <2>1, <2>2
  <1>8. ASSUME NEW m \in Mig
        PROVE  r.starts[m][NumOps[m]] = Begin(r, m + 1)
    BY DEF InOrder
  <1>9. ASSUME NEW m \in Mig, NEW o \in Places(m)
        PROVE  Begin(r, m) <= r.starts[m][o] /\ r.starts[m][o] <= Begin(r, m + 1)
    <2>1. 0 <= o /\ o <= NumOps[m]
      BY PlacesAreNumbers DEF Places
    <2>2. r.starts[m][0] <= r.starts[m][o]
      BY <1>5, <2>1, PlacesAreNumbers
    <2>3. r.starts[m][o] <= r.starts[m][NumOps[m]]
      BY <1>5, <2>1, PlacesAreNumbers
    <2> QED BY <1>2, <1>8, <2>2, <2>3
  <1>10. ASSUME NEW m \in Mig, NEW o \in Places(m) \ {NumOps[m]}
         PROVE  r.starts[m][o] <= r.starts[m][o + 1]
    <2>1. o + 1 \in Places(m) /\ o <= o + 1
      BY PlacesAreNumbers
    <2> QED BY <1>5, <2>1
  <1> QED BY <1>1, <1>2, <1>4, <1>6, <1>7, <1>8, <1>9, <1>10 DEF Ordered

\* What is used of the executor's own invariants.
ControlOK == Safe /\ LoopOK /\ RecordedPrefix /\ OnlyApplyAll /\ DamageAtFrontier

LEMMA ControlOKAlways ==
  ASSUME Calls \subseteq {"ApplyAll"}
  PROVE  SchemaSpec => []ControlOK
  <1>1. NoReverse
    BY DEF NoReverse
  <1>2. Safe /\ LoopOK /\ RecordedPrefix /\ OnlyApplyAll /\ DamageAtFrontier => ControlOK
    BY DEF ControlOK
  <1> QED BY <1>1, <1>2, ControlRefinement, LoopAlways, OnlyApplyAllAlways, PTL

LEMMA ControlOKMeans ==
  ASSUME ControlOK
  PROVE  /\ DOMAIN pc = Migrators /\ DOMAIN call = Migrators /\ DOMAIN snap = Migrators
         /\ DOMAIN cur = Migrators /\ DOMAIN op = Migrators /\ DOMAIN rows = Mig
         /\ touched \subseteq Mig
         /\ \A m \in Mig : rows[m] \in Nat
         /\ \A p \in Migrators :
              /\ call[p] = "ApplyAll" /\ op[p] \in Nat
              /\ pc[p] \in {"run", "record", "unrecord"} => cur[p] \in Mig
              /\ pc[p] \in {"loop", "run", "record"} => \A k \in 1 .. cur[p] - 1 : k \in Recorded
  BY DEF ControlOK, Safe, TypeOK, CurrentOK, OnlyApplyAll, LoopOK

\* A step of p leaves the other processes where they are.
OnlyBy(p) ==
    /\ DOMAIN st' = Migrators /\ DOMAIN queue' = Migrators
    /\ \A q \in Migrators \ {p} : Same(q)

LEMMA OthersStay ==
  ASSUME NEW p \in Migrators,
         Enter(p) \/ Work(p) \/ Restart(p),
         DOMAIN pc = Migrators, DOMAIN cur = Migrators, DOMAIN op = Migrators,
         DOMAIN st = Migrators, DOMAIN queue = Migrators
  PROVE  OnlyBy(p)
  <1> USE DEF OnlyBy, Same
  <1>1. CASE Enter(p)
    BY <1>1 DEF Enter, Start, StartApplyAll, StartOne, Goto, dataVars
  <1>2. CASE Restart(p)
    BY <1>2 DEF Restart, Crash, Forget, vars
  <1>3. ASSUME NEW reply \in Replies, Ensure(p, reply)
        PROVE  OnlyBy(p)
    BY <1>3 DEF Ensure, EnsureTable, EnsureIndex, Goto, BuildState
  <1>4. ASSUME NEW reply \in Replies, Execute(p, reply)
        PROVE  OnlyBy(p)
    BY <1>4 DEF Execute, RunStatement, Goto
  <1>5. ASSUME NEW reply \in Replies, WriteRecord(p, reply)
        PROVE  OnlyBy(p)
    BY <1>5 DEF WriteRecord, Record, Unrecord, Goto, dataVars
  <1>6. CASE BeginMigration(p)
    BY <1>6 DEF BeginMigration, BeginApply, Goto, BuildState
  <1>7. CASE BeginOp(p)
    BY <1>7 DEF BeginOp, Refused, EndOp, vars
  <1>8. CASE Reject(p)
    BY <1>8 DEF Reject, Refused, EndOp, vars
  <1>9. CASE BookkeepingRefused(p)
    BY <1>9 DEF BookkeepingRefused, Refused, dataVars
  <1>10. CASE Local(p)
    BY <1>10 DEF Local, ReadApplied, SkipApplied, FinishApplyAll, OpsDone, Goto, dataVars
  <1>11. CASE Leave(p)
    BY <1>11 DEF Leave, Return, Forget
  <1> QED BY <1>1, <1>2, <1>3, <1>4, <1>5, <1>6, <1>7, <1>8, <1>9, <1>10, <1>11 DEF Work

\* A process that stays where it is stays on the script, however far the others get.
LEMMA OnScriptKept ==
  ASSUME NEW r, NEW q, NEW n \in Nat, NEW f \in Nat, NEW n2 \in Nat, NEW f2 \in Nat,
         n <= n2, f <= f2, Begin(r, cur[q] + 1) \in Nat, cur[q] \in Nat,
         OnScript(r, n, f, q), Same(q)
  PROVE  OnScript(r, n2, f2, q)'
  <1>1. \A i : At(r, q, i) => At(r, q, i)'
    BY DEF At, Same
  <1>2. \A i \in 0 .. n : i \in 0 .. n2
    OBVIOUS
  <1>3. cur[q] <= f => cur'[q] <= f2
    BY DEF Same
  <1>4. Begin(r, cur[q] + 1) <= n => Begin(r, cur'[q] + 1) <= n2
    BY DEF Same
  <1> QED BY <1>1, <1>2, <1>3, <1>4 DEF OnScript, Same

\* So a step of p keeps the plan if it brings the database and p itself further.
LEMMA PlanKept ==
  ASSUME NEW r, Ordered(r), ControlOK, NEW n, NEW f, Plan(r, n, f), NEW n2 \in Nat, NEW f2 \in Nat,
         n <= n2, f <= f2,
         NEW p \in Migrators, Enter(p) \/ Work(p) \/ Restart(p),
         Spot(r, n2, f2)', OnScript(r, n2, f2, p)'
  PROVE  Plan(r, n2, f2)'
  <1>1. n \in Nat /\ f \in Nat
    BY LastAssumption DEF Plan, Spot, Ordered
  <1>2. ASSUME NEW q \in Migrators, q # p
        PROVE  OnScript(r, n2, f2, q)'
    <2>1. Same(q)
      BY <1>2, OthersStay, ControlOKMeans DEF Plan, OnlyBy
    <2>2. OnScript(r, n, f, q)
      BY DEF Plan
    <2>3. cur[q] \in 1 .. Last + 1 /\ cur[q] \in Nat /\ cur[q] + 1 \in 1 .. Last + 2
      BY LastAssumption DEF ControlOK, Safe, TypeOK
    <2>4. Begin(r, cur[q] + 1) \in Nat
      BY <2>3 DEF Ordered
    <2> QED BY <1>1, <2>1, <2>2, <2>3, <2>4, OnScriptKept
  <1>3. DOMAIN st' = Migrators /\ DOMAIN queue' = Migrators
    BY OthersStay, ControlOKMeans DEF Plan, OnlyBy
  <1> QED BY <1>2, <1>3 DEF Plan

\* In particular a quiet step of p, if p stays on the script.
LEMMA QuietKept ==
  ASSUME NEW r, Ordered(r), ControlOK, NEW n, NEW f, Plan(r, n, f),
         NEW p \in Migrators, Enter(p) \/ Work(p) \/ Restart(p), Quiet, OnScript(r, n, f, p)'
  PROVE  Plan(r, n, f)'
  <1>1. n \in Nat /\ f \in Nat /\ n <= n /\ f <= f
    BY LastAssumption DEF Plan, Spot, Ordered
  <1>2. Spot(r, n, f)'
    BY DEF Plan, Spot, Quiet, Recorded
  <1> QED BY <1>1, <1>2, PlanKept

\* A process that is idle, fails, returns or only talks to django_migrations has
\* nothing of the script to send.
LEMMA NoScriptNeeded ==
  ASSUME NEW r, NEW n, NEW f, NEW p,
         st'[p].heap = PristineHeap(Migrations), pc'[p] \notin {"run", "record"}, queue'[p] = <<>>
  PROVE  OnScript(r, n, f, p)'
  BY DEF OnScript

LEMMA HeapOfNew ==
  ASSUME NEW heap
  PROVE  NewProjectState(heap).heap = heap
  BY DEF NewProjectState

LEMMA EnterOnScript ==
  ASSUME NEW r, NEW n, NEW f, ControlOK, Plan(r, n, f), NEW p \in Migrators, Enter(p)
  PROVE  Quiet /\ OnScript(r, n, f, p)'
  <1>1. pc[p] = "idle" /\ pc'[p] = "ensure" /\ st' = st /\ queue' = queue /\ Quiet
    BY ControlOKMeans DEF Enter, Start, StartApplyAll, StartOne, Goto, dataVars, Quiet
  <1>2. OnScript(r, n, f, p)
    BY DEF Plan
  <1> QED BY <1>1, <1>2, NoScriptNeeded DEF OnScript

LEMMA RestartOnScript ==
  ASSUME NEW r, NEW n, NEW f, ControlOK, Plan(r, n, f), NEW p \in Migrators, Restart(p)
  PROVE  Quiet /\ OnScript(r, n, f, p)'
  <1>1. pc'[p] = "idle" /\ st'[p] = Fresh0 /\ queue'[p] = <<>> /\ Quiet
    BY ControlOKMeans DEF Restart, Crash, Forget, vars, Quiet, Plan
  <1>2. Fresh0.heap = PristineHeap(Migrations)
    BY HeapOfNew DEF Fresh0
  <1> QED BY <1>1, <1>2, NoScriptNeeded

LEMMA EnsureOnScript ==
  ASSUME NEW r, NEW n, NEW f, ControlOK, Plan(r, n, f), NEW p \in Migrators,
         NEW reply \in Replies, Ensure(p, reply)
  PROVE  Quiet /\ OnScript(r, n, f, p)'
  <1>1. call[p] = "ApplyAll" /\ DOMAIN pc = Migrators
    BY ControlOKMeans
  <1>2. pc[p] # "run" /\ pc'[p] \in {"index", "read", "failed"} /\ queue' = queue /\ Quiet
    BY <1>1 DEF Ensure, EnsureTable, EnsureIndex, Goto, After, Quiet, Replies
  <1>3. st' = st
    BY <1>2 DEF Ensure
  <1>4. OnScript(r, n, f, p)
    BY DEF Plan
  <1> QED BY <1>2, <1>3, <1>4, NoScriptNeeded DEF OnScript

LEMMA LeaveOnScript ==
  ASSUME NEW r, NEW n, NEW f, ControlOK, Plan(r, n, f), NEW p \in Migrators, Leave(p)
  PROVE  Quiet /\ OnScript(r, n, f, p)'
  <1>1. OnScript(r, n, f, p)
    BY DEF Plan
  <1>2. pc[p] # "run" /\ pc'[p] = "idle" /\ queue' = queue /\ Quiet
    BY ControlOKMeans DEF Leave, Return, Forget, Quiet
  <1>3. st'[p].heap = st[p].heap
    BY HeapOfNew DEF Leave, Plan
  <1> QED BY <1>1, <1>2, <1>3, NoScriptNeeded DEF OnScript

LEMMA BookkeepingRefusedOnScript ==
  ASSUME NEW r, NEW n, NEW f, ControlOK, Plan(r, n, f), NEW p \in Migrators, BookkeepingRefused(p)
  PROVE  Quiet /\ OnScript(r, n, f, p)'
  <1>1. OnScript(r, n, f, p)
    BY DEF Plan
  <1>2. pc[p] # "run" /\ pc'[p] = "failed" /\ st' = st /\ queue' = queue /\ Quiet
    BY ControlOKMeans DEF BookkeepingRefused, Refused, dataVars, Quiet
  <1> QED BY <1>1, <1>2, NoScriptNeeded DEF OnScript

\* applyOne starts with the project state that the rehearsal has there.
LEMMA BeginMigrationOnScript ==
  ASSUME NEW r, Rehearsed(r), Ordered(r), NEW n, NEW f, ControlOK, Plan(r, n, f),
         NEW p \in Migrators, BeginMigration(p)
  PROVE  Quiet /\ OnScript(r, n, f, p)'
  <1>1. /\ pc[p] = "loop" /\ pc'[p] = "run" /\ cur' = cur /\ cur[p] \in Mig /\ op'[p] = 0
        /\ queue' = queue /\ Quiet
    BY ControlOKMeans DEF BeginMigration, BeginApply, Goto, Quiet
  <1>2. OnScript(r, n, f, p) /\ Spot(r, n, f)
    BY DEF Plan
  <1>3. st'[p] = StateBefore(st[p].heap, Migrations, cur[p])
    BY DEF BeginMigration, BuildState, Plan
  <1>4. cur[p] \in Nat /\ cur[p] - 1 + 1 = cur[p] /\ cur[p] >= 1
    BY <1>1, LastAssumption DEF Mig
  <1>5. st'[p] = r.states[cur[p]][0] /\ r.states[cur[p]][0].heap = PristineHeap(Migrations)
    <2>1. r.states[cur[p]][0] = Intended(cur[p] - 1)
      BY <1>1 DEF Rehearsed, KeepsToScript
    <2>2. 0 \in Places(cur[p])
      BY <1>1, PlacesAreNumbers
    <2> QED BY <1>1, <1>2, <1>3, <1>4, <2>1, <2>2 DEF Intended, OnScript, Rehearsed, KeepsToScript
  <1>6. cur[p] <= f
    <2>1. \A k \in 1 .. cur[p] - 1 : k \in 1 .. f - 1
      BY <1>1, <1>2, ControlOKMeans DEF Spot
    <2>2. f \in Nat /\ f >= 1
      BY <1>2, LastAssumption DEF Spot
    <2>3. cur[p] = 1 \/ cur[p] - 1 \in 1 .. cur[p] - 1
      BY <1>4
    <2> QED BY <1>4, <2>1, <2>2, <2>3
  <1>7. r.starts[cur[p]][0] \in 0 .. n
    <2>1. r.starts[cur[p]][0] = Begin(r, cur[p])
      BY <1>1 DEF Ordered
    <2>2. /\ cur[p] \in 1 .. Last + 2 /\ f \in 1 .. Last + 2 /\ f + 1 \in 1 .. Last + 2
      BY <1>1, <1>2, LastAssumption DEF Spot, Mig
    <2>3. Begin(r, cur[p]) <= Begin(r, f) /\ Begin(r, cur[p]) \in Nat /\ Begin(r, f) \in Nat
             /\ Begin(r, f + 1) \in Nat
      BY <1>6, <2>2 DEF Ordered
    <2>4. n \in Begin(r, f) .. Begin(r, f + 1)
      BY <1>2 DEF Spot
    <2> QED BY <2>1, <2>3, <2>4
  <1>8. At(r, p, r.starts[cur[p]][0])'
    <2>1. queue'[p] = <<>>
      BY <1>1, <1>2 DEF OnScript
    <2>2. 0 \in Places(cur[p])
      BY <1>1, PlacesAreNumbers
    <2> QED BY <1>1, <1>5, <2>1, <2>2 DEF At
  <1>9. (\E i \in 0 .. n : At(r, p, i))'
    BY <1>1, <1>7, <1>8
  <1> QED BY <1>1, <1>5, <1>6, <1>9 DEF OnScript

\* A process that has executed the operations of a migration is past all of it.
LEMMA LocalOnScript ==
  ASSUME NEW r, Ordered(r), NEW n, NEW f, ControlOK, Plan(r, n, f), NEW p \in Migrators, Local(p)
  PROVE  Quiet /\ OnScript(r, n, f, p)'
  <1>1. OnScript(r, n, f, p)
    BY DEF Plan
  <1>2. st' = st /\ queue' = queue /\ Quiet
    BY DEF Local, ReadApplied, SkipApplied, FinishApplyAll, OpsDone, dataVars, Quiet
  <1>3. CASE ReadApplied(p) \/ SkipApplied(p) \/ FinishApplyAll(p)
    <2>1. pc[p] # "run" /\ pc'[p] \notin {"run", "record"}
      BY <1>3, ControlOKMeans DEF ReadApplied, SkipApplied, FinishApplyAll, Goto
    <2> QED BY <1>1, <1>2, <2>1, NoScriptNeeded DEF OnScript
  <1>4. CASE OpsDone(p)
    <2>1. /\ pc[p] = "run" /\ pc'[p] = "record" /\ cur' = cur /\ cur[p] \in Mig
          /\ call[p] = "ApplyAll" /\ ~OpsLeft(p)
      BY <1>4, ControlOKMeans DEF OpsDone, Goto
    <2>2. PICK i \in 0 .. n : At(r, p, i)
      BY <1>1, <2>1 DEF OnScript
    <2>3. op[p] = NumOps[cur[p]]
      <3>1. op[p] \in 0 .. NumOps[cur[p]] /\ NumOps[cur[p]] \in Nat /\ ~(op[p] < NumOps[cur[p]])
        BY <2>1, <2>2, PlacesAreNumbers DEF At, Places, OpsLeft
      <3> QED BY <3>1
    <2>4. queue[p] = <<>> /\ i = Begin(r, cur[p] + 1)
      BY <2>1, <2>2, <2>3 DEF At, Ordered
    <2>5. Begin(r, cur[p] + 1) <= n
      <3>1. n \in Nat
        BY LastAssumption DEF Plan, Spot, Ordered
      <3> QED BY <2>4, <3>1
    <2> QED BY <1>1, <1>2, <2>1, <2>4, <2>5 DEF OnScript
  <1> QED BY <1>3, <1>4, <1>1 DEF Local

LEMMA RestOfRehearsal ==
  ASSUME NEW r, Rehearsed(r), NEW i \in Nat, NEW j \in 0 .. Len(r.script)
  PROVE  /\ i < j => /\ SubSeq(r.script, i + 1, j) # <<>>
                     /\ Len(SubSeq(r.script, i + 1, j)) = j - i
                     /\ Head(SubSeq(r.script, i + 1, j)) = r.script[i + 1]
                     /\ Tail(SubSeq(r.script, i + 1, j)) = SubSeq(r.script, i + 2, j)
         /\ i >= j => SubSeq(r.script, i + 1, j) = <<>>
  <1> DEFINE S == {r.script[k] : k \in DOMAIN r.script}
  <1>1. r.script \in Seq(S)
    BY DEF Rehearsed, InOrder
  <1> HIDE DEF S
  <1> QED BY <1>1, RestOfScript

\* The operation that a process begins is the one that the rehearsal has there.
LEMMA BeginOpKeepsPlace ==
  ASSUME NEW r, Rehearsed(r), Ordered(r), ControlOK, NEW p \in Migrators,
         DOMAIN st = Migrators, DOMAIN queue = Migrators, BeginOp(p), NEW i, At(r, p, i)
  PROVE  /\ Quiet /\ pc' = pc /\ cur' = cur /\ At(r, p, i)'
         /\ st'[p].heap = PristineHeap(Migrations)
  <1> DEFINE m == cur[p]
             o == op[p]
             after == r.states[m][o + 1]
  <1>1. /\ pc[p] = "run" /\ m \in Mig /\ call[p] = "ApplyAll" /\ o \in Nat /\ queue[p] = <<>>
        /\ DOMAIN op = Migrators
    BY ControlOKMeans DEF BeginOp
  <1>2. o \in Places(m) /\ o < NumOps[m]
    BY <1>1 DEF At, BeginOp, OpsLeft
  <1>3. NumOps[m] \in Nat /\ o # NumOps[m] /\ o + 1 \in Places(m)
    BY <1>1, <1>2, PlacesAreNumbers
  <1>4. /\ StateForwards(r.states[m][o], Migrations[m][o + 1]) = Ok(after)
        /\ Statements(after, Migrations[m][o + 1]) = SubSeq(r.script, r.starts[m][o] + 1, r.starts[m][o + 1])
        /\ after.heap = PristineHeap(Migrations)
    BY <1>1, <1>2, <1>3 DEF Rehearsed, KeepsToScript
  <1>5. CurrentOp(p) = Migrations[m][o + 1]
    BY <1>1 DEF CurrentOp
  <1>6. /\ r.starts[m][o] \in Nat /\ r.starts[m][o + 1] \in 0 .. Len(r.script)
        /\ r.starts[m][o] <= r.starts[m][o + 1]
    BY <1>1, <1>2, <1>3 DEF Ordered
  <1>7. st[p] = r.states[m][o] /\ i = r.starts[m][o]
    <2>1. CASE i \in r.starts[m][o] .. r.starts[m][o + 1] - 1
               /\ queue[p] = SubSeq(r.script, i + 1, r.starts[m][o + 1])
      <3>1. i \in Nat /\ i < r.starts[m][o + 1]
        BY <1>6, <2>1
      <3>2. SubSeq(r.script, i + 1, r.starts[m][o + 1]) # <<>>
        BY <1>6, <3>1, RestOfRehearsal
      <3> QED BY <1>1, <2>1, <3>2
    <2> QED BY <2>1 DEF At
  <1>8. Ok(after).ok /\ Ok(after).st = after
    BY DEF Ok
  <1> DEFINE todo == Statements(after, Migrations[m][o + 1])
  <1>9. /\ st'[p] = after /\ db' = db
        /\ \/ todo = <<>> /\ EndOp(p) /\ UNCHANGED queue
           \/ todo # <<>> /\ queue' = [queue EXCEPT ![p] = todo] /\ UNCHANGED vars
    BY <1>4, <1>5, <1>7, <1>8 DEF BeginOp
  <1>10. CASE todo = <<>>
    <2>1. EndOp(p) /\ queue' = queue
      BY <1>9, <1>10
    <2>2. /\ op'[p] = o + 1 /\ pc' = pc /\ cur' = cur /\ rows' = rows /\ touched' = touched
      BY <1>1, <2>1 DEF EndOp, NextOp
    <2>3. r.starts[m][o] = r.starts[m][o + 1]
      <3>1. ~(r.starts[m][o] < r.starts[m][o + 1])
        BY <1>4, <1>6, <1>10, RestOfRehearsal
      <3> QED BY <1>6, <3>1
    <2> QED BY <1>1, <1>3, <1>4, <1>7, <1>9, <2>1, <2>2, <2>3 DEF At, Quiet
  <1>11. CASE todo # <<>>
    <2>1. queue'[p] = todo /\ vars' = vars
      BY <1>9, <1>11
    <2>2. op' = op /\ pc' = pc /\ cur' = cur /\ rows' = rows /\ touched' = touched
      BY <2>1 DEF vars
    <2>3. r.starts[m][o] < r.starts[m][o + 1]
      <3>1. ~(r.starts[m][o] >= r.starts[m][o + 1])
        BY <1>4, <1>6, <1>11, RestOfRehearsal
      <3> QED BY <1>6, <3>1
    <2>4. i \in r.starts[m][o] .. r.starts[m][o + 1] - 1
      BY <1>6, <1>7, <2>3
    <2> QED BY <1>2, <1>3, <1>4, <1>7, <1>9, <2>1, <2>2, <2>4 DEF At, Quiet
  <1> QED BY <1>10, <1>11

LEMMA BeginOpOnScript ==
  ASSUME NEW r, Rehearsed(r), Ordered(r), NEW n, NEW f, ControlOK, Plan(r, n, f),
         NEW p \in Migrators, BeginOp(p)
  PROVE  Quiet /\ OnScript(r, n, f, p)'
  <1>1. pc[p] = "run" /\ OnScript(r, n, f, p)
    BY DEF BeginOp, Plan
  <1>2. PICK i \in 0 .. n : At(r, p, i)
    BY <1>1 DEF OnScript
  <1>3. /\ Quiet /\ pc' = pc /\ cur' = cur /\ At(r, p, i)'
        /\ st'[p].heap = PristineHeap(Migrations)
    BY <1>2, BeginOpKeepsPlace DEF Plan
  <1>4. (\E k \in 0 .. n : At(r, p, k))'
    BY <1>2, <1>3
  <1> QED BY <1>1, <1>3, <1>4 DEF OnScript

\* What a process that is past i statements has to send is statement i + 1 and
\* what follows it.
LEMMA Sending ==
  ASSUME NEW r, Rehearsed(r), Ordered(r), ControlOK, NEW p \in Migrators, pc[p] = "run",
         queue[p] # <<>>, NEW i, At(r, p, i)
  PROVE  /\ cur[p] \in Mig /\ op[p] \in Nat /\ op[p] + 1 \in Places(cur[p]) /\ op[p] # NumOps[cur[p]]
         /\ i \in Nat /\ r.starts[cur[p]][op[p] + 1] \in 0 .. Len(r.script)
         /\ r.starts[cur[p]][op[p]] <= i /\ i < r.starts[cur[p]][op[p] + 1]
         /\ r.starts[cur[p]][op[p] + 1] <= Begin(r, cur[p] + 1) /\ Begin(r, cur[p]) <= i
         /\ Head(queue[p]) = r.script[i + 1] /\ ~r.script[i + 1].ign
         /\ Len(queue[p]) = r.starts[cur[p]][op[p] + 1] - i
         /\ Tail(queue[p]) = SubSeq(r.script, i + 2, r.starts[cur[p]][op[p] + 1])
         /\ st[p] = r.states[cur[p]][op[p] + 1]
  <1> DEFINE m == cur[p]
             o == op[p]
             j == r.starts[m][o + 1]
  <1>1. m \in Mig /\ o \in Nat
    BY ControlOKMeans
  <1>2. /\ o \in Places(m) /\ o # NumOps[m] /\ i \in r.starts[m][o] .. j - 1
        /\ queue[p] = SubSeq(r.script, i + 1, j) /\ st[p] = r.states[m][o + 1]
    BY DEF At
  <1>3. o + 1 \in Places(m)
    BY <1>1, <1>2, PlacesAreNumbers
  <1>4. /\ r.starts[m][o] \in Nat /\ j \in 0 .. Len(r.script) /\ j <= Begin(r, m + 1)
        /\ Begin(r, m) <= r.starts[m][o] /\ Len(r.script) \in Nat
    BY <1>1, <1>2, <1>3 DEF Ordered
  <1>5. Begin(r, m) \in Nat
    <2>1. m \in 1 .. Last + 2
      BY <1>1, LastAssumption DEF Mig
    <2> QED BY <2>1 DEF Ordered
  <1>6. i \in Nat /\ r.starts[m][o] <= i /\ i < j /\ Begin(r, m) <= i /\ i + 1 \in 1 .. Len(r.script)
    BY <1>2, <1>4, <1>5
  <1>7. ~r.script[i + 1].ign
    BY <1>6 DEF Rehearsed, OncePerStatement
  <1>8. /\ Len(queue[p]) = j - i /\ Head(queue[p]) = r.script[i + 1]
        /\ Tail(queue[p]) = SubSeq(r.script, i + 2, j)
    <2>1. i \in Nat /\ j \in 0 .. Len(r.script) /\ i < j
      BY <1>4, <1>6
    <2>2. /\ Len(SubSeq(r.script, i + 1, j)) = j - i
          /\ Head(SubSeq(r.script, i + 1, j)) = r.script[i + 1]
          /\ Tail(SubSeq(r.script, i + 1, j)) = SubSeq(r.script, i + 2, j)
      BY <2>1, RestOfRehearsal
    <2> QED BY <1>2, <2>2
  <1> QED BY <1>1, <1>2, <1>3, <1>4, <1>6, <1>7, <1>8

\* No error is ignored: a process whose statement is refused has failed.
LEMMA RejectOnScript ==
  ASSUME NEW r, Rehearsed(r), Ordered(r), NEW n, NEW f, ControlOK, Plan(r, n, f),
         NEW p \in Migrators, Reject(p)
  PROVE  Quiet /\ OnScript(r, n, f, p)'
  <1>1. queue[p] # <<>> /\ OnScript(r, n, f, p)
    BY DEF Reject, Plan
  <1>2. pc[p] = "run"
    BY <1>1 DEF OnScript
  <1>3. PICK i \in 0 .. n : At(r, p, i)
    BY <1>1, <1>2 DEF OnScript
  <1>4. Head(queue[p]) = r.script[i + 1] /\ ~r.script[i + 1].ign
    BY <1>1, <1>2, <1>3, Sending
  <1>5. Refused(p) /\ queue'[p] = <<>> /\ st' = st /\ db' = db
    BY <1>4 DEF Reject, Plan
  <1>6. pc'[p] = "failed" /\ Quiet
    BY <1>5, ControlOKMeans DEF Refused, Quiet
  <1> QED BY <1>1, <1>5, <1>6, NoScriptNeeded DEF OnScript

\* A statement that takes effect is one that has before, or the next of the script.
LEMMA ExecuteOnScript ==
  ASSUME NEW r, Rehearsed(r), Ordered(r), NEW n, NEW f, ControlOK, Plan(r, n, f),
         NEW p \in Migrators, NEW reply \in Replies, Execute(p, reply),
         NEW i \in 0 .. n, At(r, p, i), NEW n2, n2 = IF i = n THEN n + 1 ELSE n
  PROVE  /\ n2 \in Nat /\ n <= n2
         /\ Spot(r, n2, f)' /\ OnScript(r, n2, f, p)'
         /\ cur' = cur /\ touched' = touched \union {cur[p]}
         /\ reply = "ok" => pc'[p] = "run" /\ At(r, p, i + 1)'
  <1> DEFINE m == cur[p]
             o == op[p]
             j == r.starts[m][o + 1]
  <1>1. queue[p] # <<>> /\ OnScript(r, n, f, p) /\ Spot(r, n, f) /\ DOMAIN queue = Migrators
    BY DEF Execute, Plan
  <1>2. pc[p] = "run" /\ m <= f
    BY <1>1 DEF OnScript
  <1>s. /\ m \in Mig /\ o \in Nat /\ o + 1 \in Places(m) /\ o # NumOps[m]
        /\ i \in Nat /\ j \in 0 .. Len(r.script)
        /\ r.starts[m][o] <= i /\ i < j
        /\ j <= Begin(r, m + 1) /\ Begin(r, m) <= i
        /\ Head(queue[p]) = r.script[i + 1] /\ ~r.script[i + 1].ign
        /\ Len(queue[p]) = j - i
        /\ Tail(queue[p]) = SubSeq(r.script, i + 2, j)
        /\ st[p] = r.states[m][o + 1]
    BY <1>1, <1>2, Sending, Zenon
  <1>3. /\ m \in Mig /\ o \in Nat /\ i \in Nat /\ j \in 0 .. Len(r.script)
        /\ r.starts[m][o] <= i /\ i < j /\ j <= Begin(r, m + 1)
        /\ Len(queue[p]) = j - i
    BY <1>s
  <1>4. /\ Accepts(db, r.script[i + 1]) /\ db' = Effect(db, r.script[i + 1])
        /\ RunStatement(p, Len(queue[p]) = 1, reply)
        /\ queue'[p] = IF pc'[p] = "run" THEN Tail(queue[p]) ELSE <<>>
        /\ st' = st
    BY <1>1, <1>s DEF Execute
  <1>5. /\ pc'[p] = After(reply, "run") /\ cur' = cur /\ rows' = rows
        /\ touched' = touched \union {m}
        /\ op'[p] = IF Len(queue[p]) = 1 THEN o + 1 ELSE o
    BY <1>4, ControlOKMeans DEF RunStatement, Goto, NextOp
  <1>6. /\ f \in Nat /\ m \in Nat /\ f \in 1 .. Last + 2 /\ f + 1 \in 1 .. Last + 2
        /\ m \in 1 .. Last + 2 /\ m + 1 \in 1 .. Last + 2
    <2>1. f \in 1 .. Last + 1 /\ m \in 1 .. Last
      BY <1>1, <1>3 DEF Spot, Mig
    <2> QED BY <2>1, LastAssumption
  <1>7. /\ Begin(r, f) \in Nat /\ Begin(r, f + 1) \in 0 .. Len(r.script) /\ Len(r.script) \in Nat
        /\ Begin(r, m + 1) \in Nat
        /\ m + 1 <= f => Begin(r, m + 1) <= Begin(r, f)
    BY <1>6 DEF Ordered
  <1>8. n \in Begin(r, f) .. Begin(r, f + 1) /\ n \in 0 .. Len(r.script) /\ n \in Nat
    BY <1>1, <1>7 DEF Spot
  <1>9. i = n => m = f
    <2>1. SUFFICES ASSUME i = n, m + 1 <= f
                   PROVE  FALSE
      BY <1>2, <1>6
    <2>2. n < Begin(r, m + 1) /\ Begin(r, m + 1) <= Begin(r, f) /\ Begin(r, f) <= n
      <3>1. i < j /\ j <= Begin(r, m + 1) /\ j \in Nat
        BY <1>3, <1>7
      <3> QED BY <1>7, <1>8, <2>1, <3>1
    <2> QED BY <1>7, <1>8, <2>2
  <1>10. n2 \in Nat /\ n <= n2 /\ i + 1 \in 0 .. n2
    BY <1>3, <1>8
  <1>11. db' \in r.dbs[n2]
    <2>1. db \in r.dbs[n] /\ i + 1 \in 1 .. Len(r.script) /\ i + 1 <= n + 1
      BY <1>1, <1>3, <1>8 DEF Spot
    <2>2. db' \in r.dbs[IF i + 1 = n + 1 THEN i + 1 ELSE n]
      BY <1>4, <1>8, <2>1 DEF Rehearsed, OncePerStatement
    <2> QED BY <1>3, <1>8, <2>2
  <1>12. Spot(r, n2, f)'
    <2>1. n2 \in Begin(r, f) .. Begin(r, f + 1)
      <3>1. CASE i = n
        <4>1. n2 = n + 1 /\ n < j /\ j \in 0 .. Len(r.script) /\ j <= Begin(r, f + 1)
          BY <1>3, <1>9, <3>1
        <4> QED BY <1>7, <1>8, <4>1
      <3>2. CASE i # n
        BY <1>8, <3>2
      <3> QED BY <3>1, <3>2
    <2>2. n2 # Begin(r, f) => f \in touched'
      <3>1. CASE i = n
        BY <1>5, <1>9, <3>1
      <3>2. CASE i # n
        BY <1>1, <1>5, <3>2 DEF Spot
      <3> QED BY <3>1, <3>2
    <2> QED BY <1>1, <1>5, <1>11, <2>1, <2>2 DEF Spot, Recorded
  <1>13. ASSUME reply = "ok"
         PROVE  pc'[p] = "run" /\ At(r, p, i + 1)'
    <2>1. pc'[p] = "run" /\ queue'[p] = SubSeq(r.script, i + 2, j)
      BY <1>s, <1>4, <1>5, <1>13 DEF After
    <2>2. CASE Len(queue[p]) = 1
      <3>0. i \in Nat /\ j \in 0 .. Len(r.script) /\ j - i = 1 /\ Len(r.script) \in Nat
        BY <1>3, <1>7, <2>2
      <3>1. j = i + 1 /\ op'[p] = o + 1 /\ i + 1 >= j /\ i + 1 \in Nat
        BY <3>0, <1>5, <2>2
      <3>2. SubSeq(r.script, (i + 1) + 1, j) = <<>>
        BY <1>3, <3>1, RestOfRehearsal
      <3>3. (i + 1) + 1 = i + 2
        BY <1>3
      <3>4. queue'[p] = <<>>
        BY <2>1, <3>2, <3>3
      <3> QED BY <1>s, <1>4, <1>5, <2>1, <3>1, <3>4 DEF At
    <2>3. CASE Len(queue[p]) # 1
      <3>1. op'[p] = o /\ o \in Places(m)
        BY <1>5, <2>3 DEF At
      <3>2. r.starts[m][o] \in Nat
        BY <1>3, <3>1 DEF Ordered
      <3>3. i + 1 \in r.starts[m][o] .. j - 1 /\ (i + 1) + 1 = i + 2
        <4>1. i \in Nat /\ j \in 0 .. Len(r.script) /\ i < j /\ j - i # 1 /\ Len(r.script) \in Nat
              /\ r.starts[m][o] <= i
          BY <1>3, <1>7, <2>3
        <4> QED BY <3>2, <4>1
      <3> QED BY <1>s, <1>4, <1>5, <2>1, <3>1, <3>3 DEF At
    <2> QED BY <2>1, <2>2, <2>3
  <1>14. OnScript(r, n2, f, p)'
    <2>1. st'[p].heap = PristineHeap(Migrations)
      BY <1>s, <1>4 DEF Rehearsed, KeepsToScript
    <2>2. CASE reply = "ok"
      <3>1. (\E k \in 0 .. n2 : At(r, p, k))'
        BY <1>10, <1>13, <2>2
      <3> QED BY <1>2, <1>5, <1>13, <2>1, <2>2, <3>1 DEF OnScript
    <2>3. CASE reply # "ok"
      <3>1. pc'[p] = "failed" /\ queue'[p] = <<>>
        BY <1>4, <1>5, <2>3 DEF After
      <3> QED BY <2>1, <3>1, NoScriptNeeded
    <2> QED BY <2>2, <2>3
  <1> QED BY <1>5, <1>10, <1>12, <1>13, <1>14

\* A migration is recorded when all of the script up to its end has taken effect.
LEMMA WriteRecordOnScript ==
  ASSUME NEW r, Ordered(r), NEW n, NEW f, ControlOK, Plan(r, n, f),
         NEW p \in Migrators, NEW reply \in Replies, WriteRecord(p, reply)
  PROVE  /\ cur[p] = f /\ f \in Mig /\ n \in Nat /\ f + 1 \in Nat /\ touched' = touched
         /\ Spot(r, n, f + 1)' /\ OnScript(r, n, f + 1, p)'
  <1>1. Safe /\ LoopOK /\ RecordedPrefix
    BY DEF ControlOK
  <1>2. Record(p, reply) /\ db' = db /\ st' = st /\ queue' = queue
    BY <1>1, NoUnrecord DEF WriteRecord, dataVars
  <1>3. cur[p] \in Mig /\ Recorded = 1 .. cur[p] - 1 /\ Recorded' = 1 .. cur[p]
    BY <1>1, <1>2, RecordExtends
  <1>4. Spot(r, n, f) /\ OnScript(r, n, f, p)
    BY DEF Plan
  <1>5. cur[p] = f
    <2>1. f \in Nat /\ f >= 1 /\ cur[p] \in Nat /\ cur[p] >= 1 /\ 1 .. f - 1 = 1 .. cur[p] - 1
      BY <1>3, <1>4, LastAssumption DEF Spot, Mig
    <2>2. f < cur[p] => f \in 1 .. cur[p] - 1 /\ f \notin 1 .. f - 1
      BY <2>1
    <2>3. cur[p] < f => cur[p] \in 1 .. f - 1 /\ cur[p] \notin 1 .. cur[p] - 1
      BY <2>1
    <2> QED BY <2>1, <2>2, <2>3
  <1>6. pc[p] = "record" /\ pc'[p] \in {"loop", "failed"} /\ touched' = touched
    BY <1>2, ControlOKMeans DEF Record, Goto, After
  <1>7. f \in Nat /\ f + 1 \in 1 .. Last + 1 /\ f + 1 \in 1 .. Last + 2 /\ f + 1 + 1 \in 1 .. Last + 2
           /\ f + 1 <= f + 1 + 1 /\ f \in 1 .. Last + 2
    BY <1>3, <1>5, LastAssumption DEF Mig
  <1>8. /\ Begin(r, f) \in Nat /\ Begin(r, f + 1) \in Nat /\ Begin(r, f + 1 + 1) \in Nat
        /\ Begin(r, f + 1) <= Begin(r, f + 1 + 1)
    BY <1>7 DEF Ordered
  <1>9. n = Begin(r, f + 1)
    <2>1. n \in Begin(r, f) .. Begin(r, f + 1) /\ Begin(r, f + 1) <= n
      BY <1>4, <1>5, <1>6 DEF Spot, OnScript
    <2> QED BY <1>8, <2>1
  <1>10. n \in Begin(r, f + 1) .. Begin(r, f + 1 + 1)
    BY <1>8, <1>9
  <1>11. 1 .. f = 1 .. f + 1 - 1
    BY <1>7
  <1>12. Spot(r, n, f + 1)'
    BY <1>2, <1>3, <1>4, <1>5, <1>7, <1>9, <1>10, <1>11 DEF Spot
  <1>13. OnScript(r, n, f + 1, p)'
    BY <1>2, <1>4, <1>6, NoScriptNeeded DEF OnScript
  <1> QED BY <1>3, <1>5, <1>6, <1>7, <1>8, <1>9, <1>12, <1>13

\* Every other step is a quiet one.
LEMMA OtherStepsOnScript ==
  ASSUME NEW r, Rehearsed(r), Ordered(r), NEW n, NEW f, ControlOK, Plan(r, n, f),
         NEW p \in Migrators, Enter(p) \/ Work(p) \/ Restart(p),
         \A reply \in Replies : ~Execute(p, reply) /\ ~WriteRecord(p, reply)
  PROVE  Quiet /\ OnScript(r, n, f, p)'
  BY EnterOnScript, RestartOnScript, EnsureOnScript, LeaveOnScript, BookkeepingRefusedOnScript,
     BeginMigrationOnScript, LocalOnScript, BeginOpOnScript, RejectOnScript, Zenon DEF Work

OnPlan(r) == \E n, f : Plan(r, n, f)

LEMMA PlanInit ==
  ASSUME NEW r, Rehearsed(r), Ordered(r), SchemaInit
  PROVE  OnPlan(r)
  <1>1. Begin(r, 1) = 0 /\ EmptyDB \in r.dbs[0]
    BY DEF Rehearsed, InOrder, OncePerStatement
  <1>2. 1 \in 1 .. Last + 1 /\ 1 + 1 \in 1 .. Last + 2
    BY LastAssumption
  <1>3. 0 \in Begin(r, 1) .. Begin(r, 1 + 1)
    <2>1. Begin(r, 1 + 1) \in Nat
      BY <1>2 DEF Ordered
    <2> QED BY <1>1, <2>1
  <1>4. Recorded = 1 .. 1 - 1
    BY DEF SchemaInit, Init, Recorded
  <1>5. Spot(r, 0, 1)
    BY <1>1, <1>2, <1>3, <1>4 DEF Spot, SchemaInit
  <1>6. \A p \in Migrators : OnScript(r, 0, 1, p)
    BY HeapOfNew DEF OnScript, SchemaInit, Init, Fresh0
  <1>7. DOMAIN st = Migrators /\ DOMAIN queue = Migrators
    BY DEF SchemaInit
  <1> QED BY <1>5, <1>6, <1>7 DEF OnPlan, Plan

\* The inductive step: whatever process moves, the plan is kept.
LEMMA PlanStep ==
  ASSUME NEW r, Rehearsed(r), Ordered(r), ControlOK, OnPlan(r), [SchemaNext]_allVars
  PROVE  OnPlan(r)'
  <1>1. PICK n, f : Plan(r, n, f)
    BY DEF OnPlan
  <1>2. n \in Nat /\ f \in Nat
    BY <1>1, LastAssumption DEF Plan, Spot, Ordered
  <1>3. CASE UNCHANGED allVars
    <2>1. Plan(r, n, f)'
      BY <1>1, <1>3 DEF allVars, vars, dataVars, Plan, Spot, Recorded, OnScript, At
    <2> QED BY <2>1 DEF OnPlan
  <1>4. ASSUME NEW p \in Migrators, Enter(p) \/ Work(p) \/ Restart(p)
        PROVE  OnPlan(r)'
    <2>1. ASSUME NEW reply \in Replies, Execute(p, reply)
          PROVE  OnPlan(r)'
      <3>1. queue[p] # <<>> /\ OnScript(r, n, f, p)
        BY <1>1, <2>1 DEF Execute, Plan
      <3>2. PICK i \in 0 .. n : At(r, p, i)
        BY <3>1 DEF OnScript
      <3>3. PICK n2 : n2 = IF i = n THEN n + 1 ELSE n
        OBVIOUS
      <3>4. n2 \in Nat /\ n <= n2 /\ Spot(r, n2, f)' /\ OnScript(r, n2, f, p)'
        BY <1>1, <2>1, <3>2, <3>3, ExecuteOnScript
      <3>5. Plan(r, n2, f)'
        BY <1>1, <1>2, <1>4, <3>4, PlanKept
      <3> QED BY <3>5 DEF OnPlan
    <2>2. ASSUME NEW reply \in Replies, WriteRecord(p, reply)
          PROVE  OnPlan(r)'
      <3>1. f + 1 \in Nat /\ f <= f + 1 /\ n <= n /\ Spot(r, n, f + 1)' /\ OnScript(r, n, f + 1, p)'
        BY <1>1, <1>2, <2>2, WriteRecordOnScript
      <3>2. Plan(r, n, f + 1)'
        BY <1>1, <1>2, <1>4, <3>1, PlanKept
      <3> QED BY <3>2 DEF OnPlan
    <2>3. CASE \A reply \in Replies : ~Execute(p, reply) /\ ~WriteRecord(p, reply)
      <3>1. Quiet /\ OnScript(r, n, f, p)'
        BY <1>1, <1>4, <2>3, OtherStepsOnScript
      <3>2. Plan(r, n, f)'
        BY <1>1, <1>4, <3>1, QuietKept
      <3> QED BY <3>2 DEF OnPlan
    <2> QED BY <2>1, <2>2, <2>3
  <1> QED BY <1>3, <1>4 DEF SchemaNext

\* Whatever processes that call ApplyAll do, in whatever order, wherever they crash,
\* fail or lose an answer: if each statement of the migrations can be repeated or is
\* refused the second time, the schema is what the records say, unless a migration
\* is half-done.
THEOREM SchemaMatchesRecordsAlways ==
  ASSUME Calls \subseteq {"ApplyAll"}, NEW r, Rehearsed(r)
  PROVE  SchemaSpec => []SchemaMatchesRecords
  <1>1. Ordered(r)
    BY OrderOfScript DEF Rehearsed
  <1>2. SchemaInit => OnPlan(r)
    BY <1>1, PlanInit
  <1>3. ControlOK /\ OnPlan(r) /\ [SchemaNext]_allVars => OnPlan(r)'
    BY <1>1, PlanStep
  <1>4. OnPlan(r) => SchemaMatchesRecords
    <2>1. SUFFICES ASSUME NEW n, NEW f, Spot(r, n, f), touched \subseteq Recorded
                   PROVE  \E k \in 0 .. Last : Recorded = 1 .. k /\ ActualSchema(db) = ExpectedSchema(Intended(k))
      BY DEF OnPlan, Plan, SchemaMatchesRecords
    <2>2. f \in 1 .. Last + 1 /\ Recorded = 1 .. f - 1 /\ db \in r.dbs[n]
      BY <2>1 DEF Spot
    <2>3. f - 1 \in 0 .. Last /\ f \notin 1 .. f - 1
      BY <2>2, LastAssumption
    <2>4. n = Begin(r, f)
      BY <2>1, <2>2, <2>3 DEF Spot
    <2>5. ActualSchema(db) = ExpectedSchema(Intended(f - 1))
      BY <2>2, <2>4 DEF Rehearsed, OncePerStatement
    <2> QED BY <2>2, <2>3, <2>5
  <1>5. SchemaSpec => []ControlOK
    BY ControlOKAlways
  <1> QED BY <1>2, <1>3, <1>4, <1>5, PTL DEF SchemaSpec
-----------------------------------------------------------------------------
(* Without crashes and outside faults somebody is always at the front.     *)

\* Process p has the next statement of the script to send, or the record to write.
Leads(r, n, p) == pc[p] = "record" \/ (pc[p] = "run" /\ At(r, p, n))

\* A migration that has been touched and is not recorded is in somebody's hands.
Front(r, n, f) == f \in touched => \E p \in Migrators : cur[p] = f /\ Leads(r, n, p)

LEMMA LeadsKept ==
  ASSUME NEW r, NEW n, NEW q, Same(q), Leads(r, n, q)
  PROVE  cur'[q] = cur[q] /\ Leads(r, n, q)'
  BY DEF Same, Leads, At

\* Nothing stops a process at the front: it cannot crash, its statement is accepted
\* and so is its record.
LEMMA LeaderGoesOn ==
  ASSUME NEW r, Rehearsed(r), Plays(r), Ordered(r), Faults = {}, ControlOK,
         NEW n, NEW f, Plan(r, n, f), NEW p \in Migrators, cur[p] = f, Leads(r, n, p),
         Enter(p) \/ Work(p) \/ Restart(p),
         \A reply \in Replies : ~Execute(p, reply) /\ ~WriteRecord(p, reply)
  PROVE  cur'[p] = cur[p] /\ Leads(r, n, p)'
  <1>1. pc[p] \in {"run", "record"} /\ (pc[p] = "run" => At(r, p, n))
    BY DEF Leads
  <1>2. /\ DOMAIN pc = Migrators /\ DOMAIN st = Migrators /\ DOMAIN queue = Migrators
        /\ call[p] = "ApplyAll"
    BY ControlOKMeans DEF Plan
  <1>3. ~Enter(p) /\ ~Restart(p) /\ ~BeginMigration(p) /\ ~Leave(p)
    BY <1>1 DEF Enter, Start, StartApplyAll, StartOne, Goto, Restart, BeginMigration, BeginApply,
                Leave, Return
  <1>4. \A reply \in Replies : ~Ensure(p, reply)
    BY <1>1 DEF Ensure, EnsureTable, EnsureIndex, Goto
  <1>5. ~Reject(p)
    <2>1. SUFFICES ASSUME Reject(p)
                   PROVE  FALSE
      OBVIOUS
    <2>2. queue[p] # <<>> /\ pc[p] = "run"
      BY <1>1, <2>1 DEF Reject, Plan, OnScript
    <2>3. At(r, p, n)
      BY <1>1, <2>2
    <2>4. /\ Head(queue[p]) = r.script[n + 1] /\ cur[p] \in Mig /\ op[p] + 1 \in Places(cur[p])
          /\ n \in Nat /\ n < r.starts[cur[p]][op[p] + 1]
          /\ r.starts[cur[p]][op[p] + 1] \in 0 .. Len(r.script)
      BY <2>2, <2>3, Sending
    <2>5. PICK k \in 1 .. Len(r.script) : k = n + 1 /\ k - 1 = n
      <3>1. Len(r.script) \in Nat
        BY DEF Ordered
      <3> QED BY <2>4, <3>1
    <2>6. Accepts(db, r.script[k])
      <3>1. db \in r.dbs[k - 1]
        BY <2>5 DEF Plan, Spot
      <3> QED BY <3>1 DEF Plays
    <2> QED BY <2>1, <2>4, <2>5, <2>6 DEF Reject
  <1>6. ~BookkeepingRefused(p)
    <2>1. SUFFICES ASSUME BookkeepingRefused(p)
                   PROVE  FALSE
      OBVIOUS
    <2>2. pc[p] = "record" /\ rows[f] > 0
      BY <1>1, <2>1 DEF BookkeepingRefused
    <2>3. f \in Mig
      BY <2>2, ControlOKMeans
    <2>4. f \in 1 .. f - 1
      BY <2>2, <2>3 DEF Plan, Spot, Recorded
    <2>5. f \in Nat
      BY <2>3, LastAssumption DEF Mig
    <2> QED BY <2>4, <2>5
  <1>7. CASE Local(p)
    <2>1. OpsDone(p)
      BY <1>1, <1>7 DEF Local, ReadApplied, SkipApplied, FinishApplyAll, Goto
    <2>2. pc'[p] = "record" /\ cur' = cur
      BY <1>2, <2>1 DEF OpsDone, Goto
    <2> QED BY <2>2 DEF Leads
  <1>8. CASE BeginOp(p)
    <2>1. pc[p] = "run"
      BY <1>8 DEF BeginOp
    <2>2. At(r, p, n)
      BY <1>1, <2>1
    <2>3. pc' = pc /\ cur' = cur /\ At(r, p, n)'
      BY <1>2, <1>8, <2>2, BeginOpKeepsPlace
    <2> QED BY <2>1, <2>3 DEF Leads
  <1> QED BY <1>3, <1>4, <1>5, <1>6, <1>7, <1>8 DEF Work

OnPlanWithFront(r) == \E n, f : Plan(r, n, f) /\ Front(r, n, f)

LEMMA FrontInit ==
  ASSUME NEW r, Rehearsed(r), Ordered(r), SchemaInit
  PROVE  OnPlanWithFront(r)
  <1>1. PICK n, f : Plan(r, n, f)
    BY PlanInit DEF OnPlan
  <1>2. touched = {}
    BY DEF SchemaInit, Init
  <1> QED BY <1>1, <1>2 DEF OnPlanWithFront, Front

\* The statement that moves the front is sent by the process that is there then.
LEMMA FrontExecute ==
  ASSUME NEW r, Rehearsed(r), Plays(r), Ordered(r), Faults = {}, ControlOK,
         NEW n, NEW f, Plan(r, n, f), Front(r, n, f),
         NEW p \in Migrators, NEW reply \in Replies, Execute(p, reply)
  PROVE  OnPlanWithFront(r)'
  <1>1. queue[p] # <<>> /\ OnScript(r, n, f, p) /\ Spot(r, n, f)
    BY DEF Execute, Plan
  <1>2. pc[p] = "run" /\ cur[p] <= f /\ \E k \in 0 .. n : At(r, p, k)
    BY <1>1 DEF OnScript
  <1>3. n \in Nat /\ f \in Nat
    BY <1>1, LastAssumption DEF Spot, Ordered
  <1>4. reply = "ok"
    BY DEF Execute, Replies
  <1>5. Work(p)
    BY DEF Work
  <1>6. ASSUME NEW i \in 0 .. n, At(r, p, i), NEW n2, n2 = IF i = n THEN n + 1 ELSE n
        PROVE  /\ Plan(r, n2, f)' /\ cur' = cur /\ touched' = touched \union {cur[p]}
               /\ pc'[p] = "run" /\ At(r, p, i + 1)'
    <2>1. /\ n2 \in Nat /\ n <= n2 /\ Spot(r, n2, f)' /\ OnScript(r, n2, f, p)'
          /\ cur' = cur /\ touched' = touched \union {cur[p]}
          /\ pc'[p] = "run" /\ At(r, p, i + 1)'
      BY <1>4, <1>6, ExecuteOnScript
    <2>2. f <= f
      BY <1>3
    <2>3. Plan(r, n2, f)'
      BY <1>3, <1>5, <2>1, <2>2, PlanKept
    <2> QED BY <2>1, <2>3
  <1>7. CASE At(r, p, n)
    <2>1. n \in 0 .. n
      BY <1>3
    <2>2. PICK n2 : n2 = IF n = n THEN n + 1 ELSE n
      OBVIOUS
    <2>3. /\ Plan(r, n2, f)' /\ cur' = cur /\ touched' = touched \union {cur[p]}
          /\ pc'[p] = "run" /\ At(r, p, n + 1)'
      BY <1>6, <1>7, <2>1, <2>2
    <2>4. n2 = n + 1
      BY <2>2
    <2>5. Leads(r, n2, p)'
      BY <2>3, <2>4 DEF Leads
    <2>6. cur'[p] = f
      <3>1. /\ cur[p] \in Mig /\ op[p] + 1 \in Places(cur[p])
            /\ n < r.starts[cur[p]][op[p] + 1]
            /\ r.starts[cur[p]][op[p] + 1] <= Begin(r, cur[p] + 1)
        BY <1>1, <1>2, <1>7, Sending, Zenon
      <3>2. /\ cur[p] \in Nat /\ cur[p] + 1 \in 1 .. Last + 2 /\ f \in 1 .. Last + 2
            /\ f + 1 \in 1 .. Last + 2
        <4>1. cur[p] \in 1 .. Last /\ f \in 1 .. Last + 1
          BY <1>1, <3>1 DEF Mig, Spot
        <4> QED BY <4>1, LastAssumption
      <3>3. /\ Begin(r, cur[p] + 1) \in Nat /\ Begin(r, f) \in Nat /\ Begin(r, f + 1) \in Nat
            /\ r.starts[cur[p]][op[p] + 1] \in 0 .. Len(r.script) /\ Len(r.script) \in Nat
            /\ cur[p] + 1 <= f => Begin(r, cur[p] + 1) <= Begin(r, f)
        BY <3>1, <3>2 DEF Ordered
      <3>4. n \in Begin(r, f) .. Begin(r, f + 1)
        BY <1>1 DEF Spot
      <3>5. r.starts[cur[p]][op[p] + 1] \in Nat
        BY <3>1, <3>2 DEF Ordered
      <3>6. ~(cur[p] + 1 <= f)
        BY <1>3, <3>1, <3>3, <3>4, <3>5
      <3>7. cur[p] = f
        BY <1>2, <1>3, <3>2, <3>6
      <3> QED BY <2>3, <3>7
    <2> QED BY <2>3, <2>5, <2>6 DEF OnPlanWithFront, Front
  <1>8. CASE ~At(r, p, n)
    <2>1. PICK i \in 0 .. n : At(r, p, i)
      BY <1>2
    <2>2. i # n /\ i < n
      BY <1>3, <1>8, <2>1
    <2>3. PICK n2 : n2 = IF i = n THEN n + 1 ELSE n
      OBVIOUS
    <2>4. n2 = n
      BY <2>2, <2>3
    <2>5. Plan(r, n, f)' /\ cur' = cur /\ touched' = touched \union {cur[p]}
      BY <1>6, <2>1, <2>3, <2>4
    <2>6. f \in touched' => f \in touched
      <3>1. SUFFICES ASSUME cur[p] = f
                     PROVE  f \in touched
        BY <2>5
      <3>2. cur[p] \in Mig /\ Begin(r, cur[p]) <= i
        BY <1>1, <1>2, <2>1, Sending, Zenon
      <3>3. Begin(r, f) \in Nat
        <4>1. f \in 1 .. Last
          BY <3>1, <3>2 DEF Mig
        <4>2. f \in 1 .. Last + 2
          BY <4>1, LastAssumption
        <4> QED BY <4>2 DEF Ordered
      <3>4. n # Begin(r, f)
        BY <1>3, <2>1, <2>2, <3>1, <3>2, <3>3
      <3> QED BY <1>1, <3>4 DEF Spot
    <2>7. ASSUME NEW q \in Migrators, cur[q] = f, Leads(r, n, q)
          PROVE  cur'[q] = f /\ Leads(r, n, q)'
      <3>1. q # p
        BY <1>2, <1>8, <2>7 DEF Leads
      <3>2. Same(q)
        BY <1>5, <3>1, OthersStay, ControlOKMeans DEF Plan, OnlyBy
      <3> QED BY <2>7, <3>2, LeadsKept
    <2>8. Front(r, n, f)'
      BY <2>6, <2>7 DEF Front
    <2> QED BY <2>5, <2>8 DEF OnPlanWithFront
  <1> QED BY <1>7, <1>8

\* When a migration is recorded, nobody has touched the next one.
LEMMA FrontRecord ==
  ASSUME NEW r, Ordered(r), ControlOK, NEW n, NEW f, Plan(r, n, f),
         NEW p \in Migrators, NEW reply \in Replies, WriteRecord(p, reply)
  PROVE  OnPlanWithFront(r)'
  <1>1. /\ f \in Mig /\ n \in Nat /\ f + 1 \in Nat /\ touched' = touched
        /\ Spot(r, n, f + 1)' /\ OnScript(r, n, f + 1, p)'
    BY WriteRecordOnScript
  <1>2. f \in Nat /\ f <= f + 1 /\ n <= n /\ f >= 1
    BY <1>1, LastAssumption DEF Mig
  <1>3. Plan(r, n, f + 1)'
    BY <1>1, <1>2, PlanKept DEF Work
  <1>4. f + 1 \notin touched
    <2>1. SUFFICES ASSUME f + 1 \in touched
                   PROVE  FALSE
      OBVIOUS
    <2>2. Recorded = 1 .. f - 1
      BY DEF Plan, Spot
    <2>3. PICK m \in touched \ Recorded : m = f + 1
      <3>1. f + 1 \notin 1 .. f - 1
        BY <1>2
      <3> QED BY <2>1, <2>2, <3>1
    <2>4. 1 .. m - 1 \subseteq Recorded
      BY DEF ControlOK, DamageAtFrontier
    <2>5. f \in 1 .. m - 1 /\ f \notin 1 .. f - 1
      BY <1>2, <2>3
    <2> QED BY <2>2, <2>4, <2>5
  <1>5. Front(r, n, f + 1)'
    BY <1>1, <1>4 DEF Front
  <1> QED BY <1>3, <1>5 DEF OnPlanWithFront

LEMMA FrontStep ==
  ASSUME NEW r, Rehearsed(r), Plays(r), Ordered(r), Faults = {}, ControlOK,
         OnPlanWithFront(r), [SchemaNext]_allVars
  PROVE  OnPlanWithFront(r)'
  <1>1. PICK n, f : Plan(r, n, f) /\ Front(r, n, f)
    BY DEF OnPlanWithFront
  <1>2. CASE UNCHANGED allVars
    <2>1. Plan(r, n, f)'
      BY <1>1, <1>2 DEF allVars, vars, dataVars, Plan, Spot, Recorded, OnScript, At
    <2>2. Front(r, n, f)'
      BY <1>1, <1>2 DEF allVars, vars, dataVars, Front, Leads, At
    <2> QED BY <2>1, <2>2 DEF OnPlanWithFront
  <1>3. ASSUME NEW p \in Migrators, Enter(p) \/ Work(p) \/ Restart(p)
        PROVE  OnPlanWithFront(r)'
    <2>1. ASSUME NEW reply \in Replies, Execute(p, reply)
          PROVE  OnPlanWithFront(r)'
      BY <1>1, <2>1, FrontExecute
    <2>2. ASSUME NEW reply \in Replies, WriteRecord(p, reply)
          PROVE  OnPlanWithFront(r)'
      BY <1>1, <2>2, FrontRecord
    <2>3. CASE \A reply \in Replies : ~Execute(p, reply) /\ ~WriteRecord(p, reply)
      <3>1. Quiet /\ OnScript(r, n, f, p)'
        BY <1>1, <1>3, <2>3, OtherStepsOnScript
      <3>2. Plan(r, n, f)'
        BY <1>1, <1>3, <3>1, QuietKept
      <3>3. ASSUME NEW q \in Migrators, cur[q] = f, Leads(r, n, q)
            PROVE  cur'[q] = f /\ Leads(r, n, q)'
        <4>1. CASE q = p
          BY <1>1, <1>3, <2>3, <3>3, <4>1, LeaderGoesOn
        <4>2. CASE q # p
          <5>1. Same(q)
            BY <1>1, <1>3, <4>2, OthersStay, ControlOKMeans DEF Plan, OnlyBy
          <5> QED BY <3>3, <5>1, LeadsKept
        <4> QED BY <4>1, <4>2
      <3>4. touched' = touched
        BY <3>1 DEF Quiet
      <3>5. Front(r, n, f)'
        BY <1>1, <3>3, <3>4 DEF Front
      <3> QED BY <3>2, <3>5 DEF OnPlanWithFront
    <2> QED BY <2>1, <2>2, <2>3
  <1> QED BY <1>2, <1>3 DEF SchemaNext

\* Processes that race each other may fail, but if nothing else goes wrong and the
\* migrations are of the kind above, then whenever all of them are done no migration
\* is left half-applied.
THEOREM RaceLeavesNoDamageAlways ==
  ASSUME Calls \subseteq {"ApplyAll"}, Faults = {}, NEW r, Rehearsed(r), Plays(r)
  PROVE  SchemaSpec => []RaceLeavesNoDamage
  <1>1. Ordered(r)
    BY OrderOfScript DEF Rehearsed
  <1>2. SchemaInit => OnPlanWithFront(r)
    BY <1>1, FrontInit
  <1>3. ControlOK /\ OnPlanWithFront(r) /\ [SchemaNext]_allVars => OnPlanWithFront(r)'
    BY <1>1, FrontStep
  <1>4. ControlOK /\ OnPlanWithFront(r) => RaceLeavesNoDamage
    <2>1. SUFFICES ASSUME ControlOK, NEW n, NEW f, Plan(r, n, f), Front(r, n, f),
                          \A p \in Migrators : pc[p] \in {"idle", "succeeded", "failed"},
                          NEW m \in touched, m \notin Recorded
                   PROVE  FALSE
      BY DEF OnPlanWithFront, RaceLeavesNoDamage
    <2>2. f \notin touched
      BY <2>1 DEF Front, Leads
    <2>3. f \in 1 .. Last + 1 /\ Recorded = 1 .. f - 1
      BY <2>1 DEF Plan, Spot
    <2>4. m \in 1 .. Last /\ 1 .. m - 1 \subseteq Recorded
      BY <2>1, ControlOKMeans DEF Mig, ControlOK, DamageAtFrontier
    <2>5. m = f
      <3>1. m \in Nat /\ f \in Nat /\ m >= 1 /\ f >= 1 /\ m \notin 1 .. f - 1
        BY <2>1, <2>3, <2>4, LastAssumption
      <3>2. f < m => f \in 1 .. m - 1 /\ f \notin 1 .. f - 1
        BY <3>1
      <3>3. ~(f < m)
        BY <2>3, <2>4, <3>2
      <3> QED BY <3>1, <3>3
    <2> QED BY <2>1, <2>2, <2>5
  <1>5. SchemaSpec => []ControlOK
    BY ControlOKAlways
  <1> QED BY <1>2, <1>3, <1>4, <1>5, PTL DEF SchemaSpec
=============================================================================
