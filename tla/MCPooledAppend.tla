--------------------------- MODULE MCPooledAppend ---------------------------
(* Symmetry for the model-checking run of PooledAppend. *)
EXTENDS PooledAppend, TLC

SymmetricTasksAndFiles ==
    Permutations(Tasks) \cup Permutations(Paths \ {ActiveFile})
=============================================================================
