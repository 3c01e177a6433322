--------------------------- MODULE MCAccessControl ---------------------------
(* Small instances of AccessControl for TLC.                                 *)
EXTENDS AccessControl, TLC

CONSTANTS u1, u2, r1, r2

TwoUsers == {u1, u2}
OneFounder == {u1}
TwoRequests == {r1, r2}
\* Nothing tells requests apart.
Symmetry == Permutations(Requests)
=============================================================================
