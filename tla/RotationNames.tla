---------------------------- MODULE RotationNames ----------------------------
(* The names a partition runs through as its active file is replaced, for    *)
(* every rotation policy in Windows: when the clock enters another window    *)
(* and, at any time, because the file has grown (rotate_partition with       *)
(* determine_new_partition_info).  The clock that callers hand in never runs *)
(* back here; EventStream drops that simplification.                         *)
EXTENDS Rotation

CONSTANTS
    Windows,        \* window lengths, in ticks
    MaxClock        \* bound on the clock

VARIABLES window, now, active

vars == <<window, now, active>>

\* Windows are whole multiples of the precision their label has.  The code
\* does not demand it; others make two windows share a name.
ASSUME RotationNamesAssumption ==
    /\ Windows \subseteq Nat \ {0} /\ MaxClock \in Nat
    /\ \A w \in Windows : w % LabelUnit(w) = 0

Init ==
    /\ window \in Windows
    /\ now = 0
    /\ active = [name |-> GeneratePartitionName(0, window, 0), start |-> 0]

Advance ==
    /\ now < MaxClock
    /\ now' = now + 1
    /\ UNCHANGED <<window, active>>

RotatePartition ==
    LET info == DetermineNewPartitionInfo(window, active.start, active.name.ordinal, now)
    IN  /\ info # Null
        /\ active' = info
        /\ UNCHANGED <<window, now>>

Next == Advance \/ RotatePartition

Spec == Init /\ [][Next]_vars

(* Every new active file has a name that sorts behind the one before, hence  *)
(* behind all earlier ones: no file is used twice, and the order by which a  *)
(* rebuild of the catalog picks the active file among empty ones is right.   *)
NamesSortByAge ==
    [][active' # active => NameBefore(active.name, active'.name)]_vars

(* A restart reads from the name what the process had in memory: the start   *)
(* of the window and an ordinal the pattern of six digits admits.            *)
RestartRestoresPartition ==
    /\ ParsePartitionName(active.name).start = active.start
    /\ active.name.ordinal \in 0..MaxOverflowOrdinal
=============================================================================
