------------------------- MODULE MCProgressStreaming -------------------------
(* Constants for the model-checking run of ProgressStreaming. *)
EXTENDS ProgressStreaming

CONSTANTS r1, r2

FirstHasMoreSteps == [r \in Requests |-> IF r = r1 THEN 2 ELSE 1]

AllWaitForFirst == [c \in Subscribers |-> r1]
=============================================================================
