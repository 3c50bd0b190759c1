------------------------ MODULE MCMigrationExecutor ------------------------
(* Instances of MigrationExecutor for TLC. *)
EXTENDS MigrationExecutor, TLC

CONSTANTS p1, p2

MCMigrators == {p1, p2}
MCNumOps == <<1, 2, 0>>      \* the last migration has no operations
MCSymmetry == Permutations(MCMigrators)
=============================================================================
