----------------------------- MODULE MCTransfers -----------------------------
(* Small instances of Transfers for TLC.                                     *)
EXTENDS Transfers, TLC

CONSTANTS u1, u2, u3, r1, r2, w1

TwoUsers == {u1, u2}
ThreeUsers == {u1, u2, u3}
OneUser == {u1}
OneRequest == {r1}
TwoRequests == {r1, r2}
OneReset == {w1}
SmallAmounts == {0, 1, 2}
UnitAmount == {1}
NoFaults == {}
RedisFault == {"redis"}
LiveFaults == {"crash"}

\* Requests are interchangeable, and so are accounts outside a liveness run.
RequestSymmetry == Permutations(Requests)
=============================================================================
