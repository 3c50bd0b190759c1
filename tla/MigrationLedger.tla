-------------------------- MODULE MigrationLedger --------------------------
(***************************************************************************)
(* What the table django_migrations promises to whoever reads it: the      *)
(* migrations of one application are recorded one at a time, in the order  *)
(* of their names, and a record is never withdrawn.  Migrations are        *)
(* numbered 1 .. Last in name order.  MigrationExecutor implements this    *)
(* specification as long as nobody calls Reverse.                          *)
(***************************************************************************)
EXTENDS Naturals

CONSTANT Last       \* number of registered migrations of the application

VARIABLE ledger     \* the set of recorded migrations

Prefix(k) == 1 .. k

Init == ledger = {}

Record(k) ==
    /\ ledger = Prefix(k - 1)
    /\ ledger' = Prefix(k)

Next == \E k \in 1 .. Last : Record(k)

Spec == Init /\ [][Next]_ledger
=============================================================================
