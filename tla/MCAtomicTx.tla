----------------------------- MODULE MCAtomicTx -----------------------------
(* Instances of AtomicTx for TLC. *)
EXTENDS AtomicTx, TLC

CONSTANTS t1, t2, a1, a2, x1, x2, x3, x4

MCTwo == {t1, t2}
MCAliases == {a1, a2}
MCTx == {x1, x2, x3, x4}
MCAnyNests == MCAliases \X MCAliases
MCOrdered == {<<a1, a2>>}
MCSymmetry == Permutations(MCTwo) \union Permutations(MCTx) \union Permutations(MCAliases)
=============================================================================
