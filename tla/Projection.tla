----------------------------- MODULE Projection -----------------------------
(* What a pool of event handlers promises about the partitions it follows:   *)
(* the events of each are projected one by one, in version order, each once, *)
(* and none is left behind unless the pool stops with an error.  A pool that *)
(* stops need not stop at once.                                              *)
EXTENDS Naturals, Sequences

CONSTANT Keys

VARIABLES
    appended,       \* per partition: the version of its last event
    projected,      \* per partition: the versions projected, in order
    failed          \* the pool has given up

vars == <<appended, projected, failed>>

Init ==
    /\ appended = [k \in Keys |-> 0]
    /\ projected = [k \in Keys |-> <<>>]
    /\ failed = FALSE

Publish(k) ==
    /\ appended' = [appended EXCEPT ![k] = @ + 1]
    /\ UNCHANGED <<projected, failed>>

Project(k) ==
    /\ Len(projected[k]) < appended[k]
    /\ projected' = [projected EXCEPT ![k] = Append(@, Len(@) + 1)]
    /\ UNCHANGED <<appended, failed>>

Fail == failed' = TRUE /\ UNCHANGED <<appended, projected>>

Next == Fail \/ \E k \in Keys : Publish(k) \/ Project(k)

SafeSpec == Init /\ [][Next]_vars

Spec == SafeSpec /\ \A k \in Keys : WF_vars(~failed /\ Project(k))
=============================================================================
