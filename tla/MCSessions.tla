----------------------------- MODULE MCSessions -----------------------------
(* A small instance of Sessions for TLC.                                     *)
EXTENDS Sessions

CONSTANTS u1, r1, r2, r3

OneUser == {u1}
ThreeRequests == {r1, r2, r3}
=============================================================================
