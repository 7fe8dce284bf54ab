-------------------------- MODULE MCLeaderElection --------------------------
(* Values for checking LeaderElection with TLC. *)
EXTENDS LeaderElection

CONSTANTS m1, m2

MCMains == {m1, m2}

\* One main may be started again, the other only once.
OneRestarts == [m \in MCMains |-> IF m = m1 THEN 2 ELSE 1]
=============================================================================
