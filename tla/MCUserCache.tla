----------------------------- MODULE MCUserCache -----------------------------
(* Small instances of UserCache for TLC.                                     *)
EXTENDS UserCache, TLC

CONSTANTS r1, r2, r3

ThreeRequests == {r1, r2, r3}
\* Nothing tells requests apart.
Symmetry == Permutations(Requests)
=============================================================================
