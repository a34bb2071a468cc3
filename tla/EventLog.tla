------------------------------ MODULE EventLog ------------------------------
(* What a partition promises to the callers of EventStream::append: one log  *)
(* whose events carry the versions 1, 2, 3, ... and on which every append    *)
(* takes effect at one instant between its invocation and its return.  Files,*)
(* rotation, the catalog and crashes are invisible here.                     *)
EXTENDS Integers

CONSTANTS Procs, Null

VARIABLES
    length,     \* the version of the last event, 0 when the log is empty
    call,       \* call[p]: the append p is waiting for, or Null
    outcome     \* outcome[p]: how the last append of p ended

vars == <<length, call, outcome>>

ExpectationKinds == {"any", "no_stream", "exact"}

Request ==
    [expected : [kind : ExpectationKinds, version : Nat], count : Nat]

(* ExpectedVersion against the version of the last event. *)
Meets(expected, version) ==
    \/ expected.kind = "any"
    \/ (expected.kind = "no_stream" /\ version = 0)
    \/ (expected.kind = "exact" /\ expected.version # 0 /\ expected.version = version)

Init ==
    /\ length = 0
    /\ call = [p \in Procs |-> Null]
    /\ outcome = [p \in Procs |-> "none"]

Invoke(p) ==
    /\ call[p] = Null
    /\ call'[p] \in Request
    /\ call' = [call EXCEPT ![p] = call'[p]]
    /\ outcome' = [outcome EXCEPT ![p] = "none"]
    /\ UNCHANGED length

Return(p, o) ==
    /\ call[p] # Null
    /\ call' = [call EXCEPT ![p] = Null]
    /\ outcome' = [outcome EXCEPT ![p] = o]

(* The batch lands right behind the last event, whose version the caller     *)
(* expected.                                                                 *)
Append(p) ==
    /\ Return(p, "appended")
    /\ call[p].count > 0
    /\ Meets(call[p].expected, length)
    /\ length' = length + call[p].count

(* IncorrectEventVersion is only ever returned when it is true. *)
Refuse(p) ==
    /\ Return(p, "conflict")
    /\ ~Meets(call[p].expected, length)
    /\ UNCHANGED length

(* An empty batch and a failed operation leave no trace. *)
ReturnEmpty(p) == Return(p, "empty") /\ call[p].count = 0 /\ UNCHANGED length

Fail(p) == Return(p, "error") /\ UNCHANGED length

(* A crash forgets the calls, never an event. *)
Crash ==
    /\ call' = [p \in Procs |-> Null]
    /\ outcome' = [p \in Procs |-> "none"]
    /\ UNCHANGED length

Next ==
    \/ \E p \in Procs :
        Invoke(p) \/ Append(p) \/ Refuse(p) \/ ReturnEmpty(p) \/ Fail(p)
    \/ Crash

Spec == Init /\ [][Next]_vars
=============================================================================
