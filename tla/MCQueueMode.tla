---------------------------- MODULE MCQueueMode ----------------------------
(* A small instance of QueueMode for TLC: two mains that compete for the
   leadership, one of which starts an execution, and a worker.               *)
EXTENDS QueueMode

CONSTANTS m1, m2, w1, e1, k1
=============================================================================
