---------------------------- MODULE MCWorkerPool ----------------------------
(* Constants for the model-checking run of WorkerPool. *)
EXTENDS WorkerPool

\* One partition is touched up to three times, the other once.
BusyAndQuiet ==
    LET busy == CHOOSE k \in Keys : TRUE
    IN  [k \in Keys |-> IF k = busy THEN 3 ELSE 1]
=============================================================================
