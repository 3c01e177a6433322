------------------------------ MODULE MCAvatars ------------------------------
(* Small instances of Avatars for TLC.                                       *)
EXTENDS Avatars, TLC

CONSTANTS u1, u2, r1, r2, r3, r4

TwoUsers == {u1, u2}
FourRequests == {r1, r2, r3, r4}
\* Nothing tells users or requests apart.
Symmetry == Permutations(Users) \cup Permutations(Requests)
=============================================================================
