--------------------------- MODULE MCCachedStream ---------------------------
(* Constants for the model-checking run of CachedStream. *)
EXTENDS CachedStream

OnlyAny == {[kind |-> "any", version |-> 0]}
=============================================================================
