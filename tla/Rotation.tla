------------------------------ MODULE Rotation ------------------------------
(* The rotation policy of an event stream (rotation.rs): how a point in time *)
(* selects a time window, how a window and an overflow ordinal name an event *)
(* file, and when the active file is due for replacement.                    *)
(*                                                                           *)
(* Time is counted in ticks.  Minute, Hour and Day are the lengths, in       *)
(* ticks, of the calendar units the code truncates a label to.  A file name  *)
(* keeps what the text `events_<label>[_<ordinal>].db` tells apart: the      *)
(* precision of the label, the instant it denotes and the ordinal.  Ordinal  *)
(* 0 is the code's None: parse_partition_name rejects a written zero.        *)
EXTENDS Integers

CONSTANTS
    Minute, Hour, Day,      \* label precisions, in ticks
    MaxOverflowOrdinal,     \* MAX_OVERFLOW_ORDINAL, 999_999 in the code
    Null                    \* None, SQL NULL

ASSUME RotationAssumption ==
    /\ {Minute, Hour, Day} \subseteq Nat \ {0}
    /\ Hour % Minute = 0 /\ Day % Hour = 0
    /\ MaxOverflowOrdinal \in Nat \ {0}
    /\ Null \notin Int

(* The start of the window that contains now.  The code divides by window    *)
(* without a check: a window below one millisecond panics.                   *)
FloorToWindowMs(now, window) == (now \div window) * window

LabelUnit(window) ==
    IF window >= Day THEN Day ELSE IF window >= Hour THEN Hour ELSE Minute

(* Mutant: windows of minutes are labelled like windows of hours. *)
LabelWithoutMinutes(start, window) ==
    FloorToWindowMs(start, IF window >= Day THEN Day ELSE Hour)

(* label_for drops everything below the precision the window calls for. *)
LabelFor(start, window) == FloorToWindowMs(start, LabelUnit(window))

GeneratePartitionName(start, window, ordinal) ==
    [unit |-> LabelUnit(window), label |-> LabelFor(start, window), ordinal |-> ordinal]

(* What a name denotes once the process that chose it is gone. *)
ParsePartitionName(name) == [start |-> name.label, ordinal |-> name.ordinal]

(* The text order of two names of one precision: `.` sorts before `_`, and   *)
(* labels and ordinals are zero padded.                                      *)
NameBefore(a, b) ==
    \/ a.label < b.label
    \/ (a.label = b.label /\ a.ordinal < b.ordinal)

(* Mutants: the ordinal may reach one past the maximum; it wraps around. *)
NextOrdinalPastMax(ordinal) ==
    IF ordinal <= MaxOverflowOrdinal THEN ordinal + 1 ELSE Null

NextOrdinalWrapping(ordinal) ==
    IF ordinal < MaxOverflowOrdinal THEN ordinal + 1 ELSE 1

GetNextOrdinal(ordinal) ==
    IF ordinal < MaxOverflowOrdinal THEN ordinal + 1 ELSE Null

ShouldRotateBySize(maxBytes, size) == maxBytes # Null /\ size >= maxBytes

ShouldRotate(window, maxBytes, size, start, now) ==
    \/ FloorToWindowMs(now, window) # start
    \/ ShouldRotateBySize(maxBytes, size)

(* The file a rotation at time now moves to, from a file of the window that  *)
(* begins at start: the next ordinal in the same window, the unsuffixed base *)
(* file in another one; Null when the ordinals are used up.                  *)
DetermineNewPartitionInfo(window, start, ordinal, now) ==
    LET newStart == FloorToWindowMs(now, window)
        next     == IF newStart = start THEN GetNextOrdinal(ordinal) ELSE 0
    IN  IF next = Null THEN Null
        ELSE [name |-> GeneratePartitionName(newStart, window, next), start |-> newStart]
=============================================================================
