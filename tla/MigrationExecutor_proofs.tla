---------------------- MODULE MigrationExecutor_proofs ----------------------
(***************************************************************************)
(* Proofs about MigrationExecutor for any number of processes, migrations  *)
(* and operations.                                                         *)
(***************************************************************************)
EXTENDS MigrationExecutor, TLAPS

\* The argument of the method, or the position of the loop, is a migration
\* wherever the code uses it as one, and the labels belong to their methods.
CurrentOK ==
    \A p \in Migrators :
        /\ pc[p] \in {"run", "record", "unrecord"} => cur[p] \in Mig
        /\ call[p] # "ApplyAll" => cur[p] \in Mig
        /\ pc[p] \in {"read", "loop", "record"} => call[p] = "ApplyAll"
        /\ pc[p] = "unrecord" => call[p] = "Reverse"

\* Every process past EnsureMigrationTable finds the unique index in place.
IndexOK ==
    \A p \in Migrators :
        pc[p] \in {"read", "loop", "run", "record", "unrecord"} => table = "indexed"

RanOK == \A p \in Migrators : pc[p] = "record" => cur[p] \in ran

\* What the rows of django_migrations satisfy, whatever methods are called.
RowsOK == IndexOK /\ OneRowEach /\ RanOK /\ RecordedRan

Safe == TypeOK /\ CurrentOK /\ RowsOK

LEMMA SafeInit == Init => Safe
  BY LastAssumption
  DEF Init, Mig, Safe, TypeOK, Labels, AllCalls, CurrentOK, RowsOK, IndexOK, OneRowEach,
      RanOK, RecordedRan, Recorded

LEMMA TypeStep ==
  ASSUME TypeOK, CurrentOK, [Next]_vars
  PROVE  TypeOK' /\ CurrentOK'
  <1> USE LastAssumption, NumOpsAssumption, CallsAssumption
      DEF TypeOK, CurrentOK, Labels, AllCalls, Recorded
  <1>1. CASE UNCHANGED vars
    BY <1>1 DEF vars
  <1>2. ASSUME NEW p \in Migrators, Start(p)
        PROVE  TypeOK' /\ CurrentOK'
    <2>1. CASE StartApplyAll(p)
      BY <2>1 DEF StartApplyAll, Goto
    <2>2. ASSUME NEW c \in AllCalls \ {"ApplyAll"}, NEW m \in Mig, StartOne(p, c, m)
          PROVE  TypeOK' /\ CurrentOK'
      <3>1. m \in 1 .. Last + 1
        BY DEF Mig
      <3>2. QED
        BY <2>2, <3>1 DEF StartOne, Goto
    <2>3. QED
      BY <1>2, <2>1, <2>2 DEF Start
  <1>3. ASSUME NEW p \in Migrators, Crash(p)
        PROVE  TypeOK' /\ CurrentOK'
    BY <1>3 DEF Crash, Forget
  <1>4. ASSUME NEW p \in Migrators, Step(p)
        PROVE  TypeOK' /\ CurrentOK'
    <2>1. ASSUME NEW reply \in Replies, EnsureTable(p, reply)
          PROVE  TypeOK' /\ CurrentOK'
      BY <2>1 DEF EnsureTable, Goto, After
    <2>2. ASSUME NEW reply \in Replies, EnsureIndex(p, reply)
          PROVE  TypeOK' /\ CurrentOK'
      BY <2>2 DEF EnsureIndex, Goto, After
    <2>3. ASSUME NEW reply \in Replies, NEW done \in BOOLEAN, RunStatement(p, done, reply)
          PROVE  TypeOK' /\ CurrentOK'
      <3>1. cur[p] \in Mig /\ NextOp(p) \in Nat
        BY <2>3 DEF RunStatement, Goto, OpsLeft, NextOp
      <3>2. op' \in [Migrators -> Nat]
        BY <2>3, <3>1 DEF RunStatement
      <3>3. QED
        BY <2>3, <3>1, <3>2 DEF RunStatement, Goto, After
    <2>4. ASSUME NEW reply \in Replies, Record(p, reply)
          PROVE  TypeOK' /\ CurrentOK'
      <3>1. cur[p] \in Mig /\ cur[p] + 1 \in 1 .. Last + 1
        BY <2>4 DEF Record, Goto, Mig
      <3>2. cur' \in [Migrators -> 1 .. Last + 1] /\ rows' \in [Mig -> Nat]
        BY <2>4, <3>1 DEF Record
      <3>3. QED
        BY <2>4, <3>1, <3>2 DEF Record, Goto, After
    <2>5. ASSUME NEW reply \in Replies, Unrecord(p, reply)
          PROVE  TypeOK' /\ CurrentOK'
      BY <2>5 DEF Unrecord, Goto, After
    <2>6. CASE ReadApplied(p)
      BY <2>6 DEF ReadApplied, Goto
    <2>7. CASE SkipApplied(p)
      <3>1. call[p] = "ApplyAll" /\ pc[p] = "loop" /\ cur[p] + 1 \in 1 .. Last + 1
        BY <2>7 DEF SkipApplied, Mig
      <3>2. cur' \in [Migrators -> 1 .. Last + 1]
        BY <2>7, <3>1 DEF SkipApplied
      <3>3. QED
        BY <2>7, <3>1, <3>2 DEF SkipApplied
    <2>8. CASE BeginApply(p)
      BY <2>8 DEF BeginApply, Goto
    <2>9. CASE FinishApplyAll(p)
      BY <2>9 DEF FinishApplyAll, Goto
    <2>10. CASE EndOp(p)
      <3>1. cur[p] \in Mig /\ NextOp(p) \in Nat
        BY <2>10 DEF EndOp, OpsLeft, NextOp
      <3>2. op' \in [Migrators -> Nat]
        BY <2>10, <3>1 DEF EndOp
      <3>3. QED
        BY <2>10, <3>2 DEF EndOp
    <2>11. CASE OpsDone(p)
      BY <2>11 DEF OpsDone, Goto
    <2>12. CASE Refused(p)
      BY <2>12 DEF Refused
    <2>13. CASE Return(p)
      BY <2>13 DEF Return, Forget
    <2>14. QED
      BY <1>4, <2>1, <2>2, <2>3, <2>4, <2>5, <2>6, <2>7, <2>8, <2>9, <2>10, <2>11,
         <2>12, <2>13 DEF Step
  <1>5. QED
    BY <1>1, <1>2, <1>3, <1>4 DEF Next

LEMMA RowsStep ==
  ASSUME Safe, [Next]_vars
  PROVE  RowsOK'
  <1> USE DEF Safe, RowsOK, TypeOK, CurrentOK, IndexOK, OneRowEach, RanOK, RecordedRan,
              Recorded
  <1>1. CASE UNCHANGED vars
    BY <1>1 DEF vars
  <1>2. ASSUME NEW p \in Migrators, Start(p)
        PROVE  RowsOK'
    BY <1>2 DEF Start, StartApplyAll, StartOne, Goto
  <1>3. ASSUME NEW p \in Migrators, Crash(p)
        PROVE  RowsOK'
    BY <1>3 DEF Crash, Forget
  <1>4. ASSUME NEW p \in Migrators, Step(p)
        PROVE  RowsOK'
    <2>1. ASSUME NEW reply \in Replies, EnsureTable(p, reply)
          PROVE  RowsOK'
      BY <2>1 DEF EnsureTable, Goto, After
    <2>2. ASSUME NEW reply \in Replies, EnsureIndex(p, reply)
          PROVE  RowsOK'
      BY <2>2 DEF EnsureIndex, Goto, After
    <2>3. ASSUME NEW reply \in Replies, NEW done \in BOOLEAN, RunStatement(p, done, reply)
          PROVE  RowsOK'
      BY <2>3 DEF RunStatement, Goto, After
    <2>4. ASSUME NEW reply \in Replies, Record(p, reply)
          PROVE  RowsOK'
      BY <2>4 DEF Record, Goto, After
    <2>5. ASSUME NEW reply \in Replies, Unrecord(p, reply)
          PROVE  RowsOK'
      BY <2>5 DEF Unrecord, Goto, After
    <2>6. CASE ReadApplied(p)
      BY <2>6 DEF ReadApplied, Goto
    <2>7. CASE SkipApplied(p)
      BY <2>7 DEF SkipApplied
    <2>8. CASE BeginApply(p)
      BY <2>8 DEF BeginApply, Goto
    <2>9. CASE FinishApplyAll(p)
      BY <2>9 DEF FinishApplyAll, Goto
    <2>10. CASE EndOp(p)
      BY <2>10 DEF EndOp
    <2>11. CASE OpsDone(p)
      BY <2>11 DEF OpsDone, Goto
    <2>12. CASE Refused(p)
      BY <2>12 DEF Refused
    <2>13. CASE Return(p)
      BY <2>13 DEF Return, Forget
    <2>14. QED
      BY <1>4, <2>1, <2>2, <2>3, <2>4, <2>5, <2>6, <2>7, <2>8, <2>9, <2>10, <2>11, <2>12, <2>13 DEF Step
  <1>5. QED
    BY <1>1, <1>2, <1>3, <1>4 DEF Next

\* What holds of every behaviour: types, the unique row of a migration, and
\* that only a migration whose operations have all been executed is recorded.
THEOREM SafeAlways == Spec => []Safe
  <1>1. Safe /\ [Next]_vars => Safe'
    BY TypeStep, RowsStep DEF Safe
  <1>2. QED
    BY SafeInit, <1>1, PTL DEF Spec

\* TypeOK is an invariant of the executor (migrations/executor.go), for any
\* number of processes, migrations and operations.
THEOREM TypeCorrect == Spec => []TypeOK
  <1>1. Safe => TypeOK
    BY DEF Safe
  <1>2. QED
    BY SafeAlways, <1>1, PTL

\* No migration ever has two rows in django_migrations: the unique index that
\* EnsureMigrationTable creates is in place before any process records.
THEOREM OneRowEachAlways == Spec => []OneRowEach
  <1>1. Safe => OneRowEach
    BY DEF Safe, RowsOK
  <1>2. QED
    BY SafeAlways, <1>1, PTL

\* A recorded migration has had all its operations executed in one go by some
\* process, whatever crashed, raced or lost its answers.
THEOREM RecordedRanAlways == Spec => []RecordedRan
  <1>1. Safe => RecordedRan
    BY DEF Safe, RowsOK
  <1>2. QED
    BY SafeAlways, <1>1, PTL
-----------------------------------------------------------------------------
(* Without Reverse the records are a prefix of the migrations.             *)

NoReverse == "Reverse" \notin Calls

\* A process never believes more applied than is recorded, and ApplyAll has
\* the record of every migration its loop has left behind.
LoopOK ==
    /\ \A p \in Migrators : call[p] # "Reverse"
    /\ \A p \in Migrators : snap[p] \subseteq Recorded
    /\ \A p \in Migrators :
          call[p] = "ApplyAll" /\ pc[p] \in {"loop", "run", "record", "succeeded"} =>
             \A k \in 1 .. cur[p] - 1 : k \in Recorded
    /\ \A p \in Migrators :
          call[p] = "ApplyAll" /\ pc[p] = "succeeded" => cur[p] \notin Mig

RecordedPrefix == \A m \in Recorded : \A k \in 1 .. m - 1 : k \in Recorded

LEMMA LoopInit == Init => LoopOK /\ RecordedPrefix
  BY DEF Init, LoopOK, RecordedPrefix, Recorded, Mig

LEMMA LoopStep ==
  ASSUME NoReverse, Safe, LoopOK, [Next]_vars
  PROVE  LoopOK'
  <1> USE DEF NoReverse, Safe, RowsOK, TypeOK, CurrentOK, LoopOK, Recorded
  <1>1. CASE UNCHANGED vars
    BY <1>1 DEF vars
  <1>2. ASSUME NEW p \in Migrators, Start(p)
        PROVE  LoopOK'
    BY <1>2 DEF Start, StartApplyAll, StartOne, Goto, AllCalls
  <1>3. ASSUME NEW p \in Migrators, Crash(p)
        PROVE  LoopOK'
    BY <1>3 DEF Crash, Forget
  <1>4. ASSUME NEW p \in Migrators, Step(p)
        PROVE  LoopOK'
    <2>1. ASSUME NEW reply \in Replies, EnsureTable(p, reply)
          PROVE  LoopOK'
      BY <2>1 DEF EnsureTable, Goto, After
    <2>2. ASSUME NEW reply \in Replies, EnsureIndex(p, reply)
          PROVE  LoopOK'
      BY <2>2 DEF EnsureIndex, Goto, After
    <2>3. ASSUME NEW reply \in Replies, NEW done \in BOOLEAN, RunStatement(p, done, reply)
          PROVE  LoopOK'
      BY <2>3 DEF RunStatement, Goto, After
    <2>4. ASSUME NEW reply \in Replies, Record(p, reply)
          PROVE  LoopOK'
      BY <2>4 DEF Record, Goto, After
    <2>5. ASSUME NEW reply \in Replies, Unrecord(p, reply)
          PROVE  LoopOK'
      BY <2>5 DEF Unrecord, Goto, After
    <2>6. CASE ReadApplied(p)
      BY <2>6 DEF ReadApplied, Goto
    <2>7. CASE SkipApplied(p)
      BY <2>7 DEF SkipApplied
    <2>8. CASE BeginApply(p)
      BY <2>8 DEF BeginApply, Goto
    <2>9. CASE FinishApplyAll(p)
      BY <2>9 DEF FinishApplyAll, Goto
    <2>10. CASE EndOp(p)
      BY <2>10 DEF EndOp
    <2>11. CASE OpsDone(p)
      BY <2>11 DEF OpsDone, Goto, AllCalls
    <2>12. CASE Refused(p)
      BY <2>12 DEF Refused
    <2>13. CASE Return(p)
      BY <2>13 DEF Return, Forget
    <2>14. QED
      BY <1>4, <2>1, <2>2, <2>3, <2>4, <2>5, <2>6, <2>7, <2>8, <2>9, <2>10, <2>11, <2>12, <2>13 DEF Step
  <1>5. QED
    BY <1>1, <1>2, <1>3, <1>4 DEF Next

\* Only Record and Unrecord change the rows of django_migrations.
LEMMA RowsUnchanged ==
  ASSUME [Next]_vars,
         \A p \in Migrators, reply \in Replies : ~Record(p, reply) /\ ~Unrecord(p, reply)
  PROVE  rows' = rows
  BY DEF Next, vars, Start, StartApplyAll, StartOne, Crash, Forget, Step, EnsureTable,
         EnsureIndex, RunStatement, ReadApplied, SkipApplied, BeginApply, FinishApplyAll,
         EndOp, OpsDone, Refused, Return

\* Without Reverse no process deletes a record.
LEMMA NoUnrecord ==
  ASSUME Safe, LoopOK, NEW p \in Migrators, NEW reply \in Replies, Unrecord(p, reply)
  PROVE  FALSE
  BY DEF Safe, CurrentOK, LoopOK, Unrecord, Goto

\* The step that records migration k finds exactly 1 .. k - 1 recorded.
LEMMA RecordExtends ==
  ASSUME Safe, LoopOK, RecordedPrefix,
         NEW p \in Migrators, NEW reply \in Replies, Record(p, reply)
  PROVE  /\ cur[p] \in Mig
         /\ Recorded = 1 .. cur[p] - 1
         /\ Recorded' = 1 .. cur[p]
  <1> DEFINE k == cur[p]
  <1>1. k \in Mig /\ call[p] = "ApplyAll" /\ pc[p] = "record" /\ table = "indexed"
    BY DEF Safe, RowsOK, CurrentOK, IndexOK, Record, Goto
  <1>2. k \notin Recorded
    BY <1>1 DEF Record, Recorded
  <1>3. \A j \in 1 .. k - 1 : j \in Recorded
    BY <1>1 DEF LoopOK
  <1>4. \A j \in Recorded : j \in 1 .. k - 1
    <2>1. SUFFICES ASSUME NEW j \in Recorded, j \notin 1 .. k - 1
                   PROVE  FALSE
      OBVIOUS
    <2>2. j \in Nat /\ k \in Nat /\ j # k /\ j >= 1 /\ k >= 1
      BY <1>1, <1>2, LastAssumption DEF Recorded, Mig
    <2>3. k \in 1 .. j - 1
      BY <2>1, <2>2
    <2>4. QED
      BY <1>2, <2>3 DEF RecordedPrefix
  <1>5. Recorded = 1 .. k - 1
    BY <1>3, <1>4
  <1>6. Recorded' = Recorded \union {k}
    BY <1>1, <1>2 DEF Safe, TypeOK, Record, Recorded
  <1>7. 1 .. k = (1 .. k - 1) \union {k}
    BY <1>1, LastAssumption DEF Mig
  <1>8. QED
    BY <1>1, <1>5, <1>6, <1>7

LEMMA PrefixStep ==
  ASSUME Safe, LoopOK, RecordedPrefix, [Next]_vars
  PROVE  RecordedPrefix' /\ [Ledger!Next]_Recorded
  <1>1. CASE \E p \in Migrators, reply \in Replies : Record(p, reply)
    <2>1. PICK p \in Migrators, reply \in Replies : Record(p, reply)
      BY <1>1
    <2>2. cur[p] \in Mig /\ Recorded = 1 .. cur[p] - 1 /\ Recorded' = 1 .. cur[p]
      BY <2>1, RecordExtends
    <2>3. RecordedPrefix'
      BY <2>2, LastAssumption DEF RecordedPrefix, Mig
    <2>4. Ledger!Next
      BY <2>2 DEF Ledger!Next, Ledger!Record, Ledger!Prefix, Mig
    <2>5. QED
      BY <2>3, <2>4
  <1>2. CASE ~ \E p \in Migrators, reply \in Replies : Record(p, reply)
    <2>1. rows' = rows
      BY <1>2, NoUnrecord, RowsUnchanged
    <2>2. QED
      BY <2>1 DEF RecordedPrefix, Recorded
  <1>3. QED
    BY <1>1, <1>2

\* The inductive invariant behind the theorems of this section.
LEMMA LoopAlways ==
  ASSUME NoReverse
  PROVE  Spec => [](Safe /\ LoopOK /\ RecordedPrefix)
  <1>1. Init => Safe /\ LoopOK /\ RecordedPrefix
    BY SafeInit, LoopInit
  <1>2. Safe /\ LoopOK /\ RecordedPrefix /\ [Next]_vars
          => (Safe /\ LoopOK /\ RecordedPrefix)'
    BY TypeStep, RowsStep, LoopStep, PrefixStep DEF Safe
  <1>3. QED
    BY <1>1, <1>2, PTL DEF Spec

\* As long as nobody calls Reverse, the executor implements MigrationLedger:
\* the records are a prefix of the migrations in name order and grow by one.
THEOREM LedgerRefinement ==
  ASSUME NoReverse
  PROVE  Spec => LedgerSpec
  <1>1. Init => Ledger!Init
    BY DEF Init, Ledger!Init, Recorded, Mig
  <1>2. Safe /\ LoopOK /\ RecordedPrefix /\ [Next]_vars => [Ledger!Next]_Recorded
    BY PrefixStep
  <1>3. QED
    BY <1>1, <1>2, LoopAlways, PTL DEF Spec, LedgerSpec, Ledger!Spec

\* When ApplyAll returns no error every registered migration is recorded, even
\* if its query of the applied migrations failed or lost rows on the way.
THEOREM SuccessIsCompleteAlways ==
  ASSUME NoReverse
  PROVE  Spec => []SuccessIsComplete
  <1>1. Safe /\ LoopOK => SuccessIsComplete
    <2>1. SUFFICES ASSUME Safe, LoopOK, NEW p \in Migrators,
                          pc[p] = "succeeded", call[p] = "ApplyAll"
                   PROVE  Recorded = Mig
      BY DEF SuccessIsComplete
    <2>2. cur[p] = Last + 1
      <3>1. cur[p] \in 1 .. Last + 1
        BY <2>1 DEF Safe, TypeOK
      <3>2. cur[p] \notin 1 .. Last
        BY <2>1 DEF LoopOK, Mig
      <3>3. QED
        BY <3>1, <3>2, LastAssumption
    <2>3. \A k \in 1 .. cur[p] - 1 : k \in Recorded
      BY <2>1 DEF LoopOK
    <2>4. QED
      BY <2>2, <2>3, LastAssumption DEF Recorded, Mig
  <1>2. QED
    BY <1>1, LoopAlways, PTL

\* A migration is touched for the first time by a process that runs it.
LEMMA TouchedByRun ==
  ASSUME [Next]_vars, NEW m \in touched' \ touched
  PROVE  \E q \in Migrators : pc[q] = "run" /\ m = cur[q]
  BY DEF Next, vars, Start, StartApplyAll, StartOne, Crash, Forget, Step, EnsureTable,
         EnsureIndex, RunStatement, Goto, ReadApplied, SkipApplied, BeginApply,
         FinishApplyAll, EndOp, OpsDone, Record, Unrecord, Refused, Return

OnlyApplyAll == \A p \in Migrators : call[p] = "ApplyAll"

\* With ApplyAll as the only method called, every process is in it, and what it
\* leaves half-done is the first unrecorded migration.
LEMMA OnlyApplyAllAlways ==
  ASSUME Calls \subseteq {"ApplyAll"}
  PROVE  Spec => [](OnlyApplyAll /\ DamageAtFrontier)
  <1> DEFINE DInv == OnlyApplyAll /\ DamageAtFrontier
  <1>1. NoReverse
    BY DEF NoReverse
  <1>2. Init => DInv
    BY DEF Init, OnlyApplyAll, DamageAtFrontier
  <1>3. ASSUME Safe, LoopOK, RecordedPrefix, DInv, [Next]_vars
        PROVE  DInv'
    <2>1. OnlyApplyAll'
      BY <1>3 DEF OnlyApplyAll, Next, vars, Start, StartApplyAll, StartOne, Crash, Forget, Step,
                  EnsureTable, EnsureIndex, RunStatement, ReadApplied, SkipApplied,
                  BeginApply, FinishApplyAll, EndOp, OpsDone, Record, Unrecord, Refused,
                  Return, Safe, TypeOK
    <2>2. Recorded \subseteq Recorded'
      BY <1>3, PrefixStep DEF Ledger!Next, Ledger!Record, Ledger!Prefix
    <2>3. \A m \in touched' \ touched : 1 .. m - 1 \subseteq Recorded
      <3>1. ASSUME NEW m \in touched' \ touched
            PROVE  \E q \in Migrators : pc[q] = "run" /\ m = cur[q]
        BY <1>3, <3>1, TouchedByRun
      <3>2. ASSUME NEW q \in Migrators, pc[q] = "run"
            PROVE  1 .. cur[q] - 1 \subseteq Recorded
        BY <1>3, <3>2 DEF LoopOK, OnlyApplyAll
      <3>3. QED
        BY <3>1, <3>2
    <2>4. DamageAtFrontier'
      <3>1. SUFFICES ASSUME NEW m \in touched' \ Recorded'
                     PROVE  1 .. m - 1 \subseteq Recorded
        BY <2>2 DEF DamageAtFrontier
      <3>2. CASE m \in touched
        BY <1>3, <2>2, <3>2 DEF DamageAtFrontier
      <3>3. QED
        BY <2>3, <3>1, <3>2
    <2>5. QED
      BY <2>1, <2>4
  <1>4. QED
    BY <1>1, <1>2, <1>3, LoopAlways, PTL DEF Spec

\* With ApplyAll as the only method called, the statements of at most one
\* unrecorded migration have touched the schema: the first unrecorded one.
THEOREM DamageAtFrontierAlways ==
  ASSUME Calls \subseteq {"ApplyAll"}
  PROVE  Spec => []DamageAtFrontier
  BY OnlyApplyAllAlways, PTL
=============================================================================
