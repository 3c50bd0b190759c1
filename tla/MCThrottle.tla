----------------------------- MODULE MCThrottle -----------------------------
(* Instances of Throttle for TLC. *)
EXTENDS Throttle, TLC

CONSTANTS r1, r2
MCRequests == {r1, r2}
MCSymmetry == Permutations(MCRequests)

\* Two requests a second; a second is two ticks, so that a remaining half is
\* rounded up.
MCThrottles == << [key |-> "anon", limit |-> 2, window |-> 2] >>
=============================================================================
