--------------------------- MODULE MCWaitTracker ---------------------------
(* Small instances of WaitTracker for TLC.                                 *)
EXTENDS WaitTracker, TLC

MainSymmetry == Permutations(Mains)
=============================================================================
