----------------------------- MODULE MCResetQueue -----------------------------
(* Small instances of ResetQueue for TLC.                                    *)
EXTENDS ResetQueue

CONSTANTS j1, j2, j3

ThreeJobs == {j1, j2, j3}
=============================================================================
