---------------------------- MODULE MCEventStream ----------------------------
(* Constants for the model-checking runs of EventReader. *)
EXTENDS EventReader, TLC

AnyVersion == [kind |-> "any", version |-> 0]
NoStream   == [kind |-> "no_stream", version |-> 0]
Exact(v)   == [kind |-> "exact", version |-> v]

SizeExpectations == {AnyVersion, NoStream, Exact(2)}
OnlyAny == {AnyVersion}

AllEvents == 1..8
OneWorkflow == {1, 2, 4, 5, 7}
EventsAndWorkflow == {AllEvents, OneWorkflow}
EventsOnly == {AllEvents}

SymmetricCallers == Permutations(Procs)
=============================================================================
