----------------------------- MODULE MCSessions -----------------------------
(* Instances of Sessions for TLC. *)
EXTENDS Sessions, TLC

CONSTANTS r1, r2, b1, b2, k1, k2
MCRequests == {r1, r2}
MCBrowsers == {b1, b2}
MCKeys == {k1, k2}
MCSymmetry == Permutations(MCRequests) \union Permutations(MCBrowsers) \union Permutations(MCKeys)
=============================================================================
