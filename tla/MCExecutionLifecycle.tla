------------------------ MODULE MCExecutionLifecycle ------------------------
(* Small instances of ExecutionLifecycle for TLC. *)
EXTENDS ExecutionLifecycle, TLC

CONSTANTS e1, e2, e3, r1, r2, r3

MCModeProduction == [e \in Executions |-> "webhook"]
MCLimitOne == [production |-> 1, evaluation |-> -1]

RunSymmetry == Permutations(Runs)
=============================================================================
