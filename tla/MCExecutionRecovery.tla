------------------------ MODULE MCExecutionRecovery ------------------------
(* A small instance of ExecutionRecovery for TLC: of two executions, one is
   too much for the memory.                                                  *)
EXTENDS ExecutionRecovery

CONSTANTS e1, e2
=============================================================================
