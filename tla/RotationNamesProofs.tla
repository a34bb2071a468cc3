------------------------- MODULE RotationNamesProofs -------------------------
(* Theorems about RotationNames, for every window and every clock.           *)
EXTENDS RotationNames, WindowProofs

(* The active file is named for the window it was created in, which is not   *)
(* later than that of the clock.                                             *)
IInv ==
    /\ window \in Windows /\ now \in Nat
    /\ active \in [name : [unit : {LabelUnit(window)}, label : Nat, ordinal : 0..MaxOverflowOrdinal],
                   start : Nat]
    /\ active.name.label = active.start
    /\ active.start <= FloorToWindowMs(now, window)

LEMMA WindowNow ==
    ASSUME NEW w \in Windows, NEW t \in Nat
    PROVE  /\ FloorToWindowMs(t, w) \in Nat
           /\ LabelFor(FloorToWindowMs(t, w), w) = FloorToWindowMs(t, w)
BY FloorIsBelow, LabelIsExact, RotationNamesAssumption

LEMMA InitNamed == Init => IInv
<1>. SUFFICES ASSUME Init PROVE IInv
  OBVIOUS
<1>1. FloorToWindowMs(0, window) = 0 /\ LabelFor(0, window) = 0
  BY FloorInFirstWindow, WindowNow, RotationNamesAssumption DEF Init
<1>2. MaxOverflowOrdinal \in Nat
  BY RotationAssumption
<1>. QED BY <1>1, <1>2 DEF Init, IInv, GeneratePartitionName

(* A rotation moves to a name behind the active one.                         *)
LEMMA RotationMovesOn ==
    ASSUME IInv, RotatePartition
    PROVE  IInv' /\ NameBefore(active.name, active'.name)
<1>. DEFINE start == FloorToWindowMs(now, window)
            ordinal == active.name.ordinal
            next == IF start = active.start THEN GetNextOrdinal(ordinal) ELSE 0
<1>1. start \in Nat /\ LabelFor(start, window) = start /\ active.start <= start
  BY WindowNow DEF IInv
<1>2. ordinal \in 0..MaxOverflowOrdinal /\ MaxOverflowOrdinal \in Nat /\ Null \notin Int
  BY RotationAssumption DEF IInv
<1>3. /\ DetermineNewPartitionInfo(window, active.start, ordinal, now) =
            IF next = Null THEN Null
            ELSE [name |-> GeneratePartitionName(start, window, next), start |-> start]
      /\ DetermineNewPartitionInfo(window, active.start, ordinal, now) # Null
  BY DEF DetermineNewPartitionInfo, RotatePartition
<1>4. /\ next # Null
      /\ active' = [name |-> GeneratePartitionName(start, window, next), start |-> start]
  BY <1>3 DEF RotatePartition
<1>5. /\ next \in 0..MaxOverflowOrdinal
      /\ start = active.start => ordinal < next
  BY <1>2, <1>4 DEF GetNextOrdinal
<1>. HIDE DEF start, next
<1>6. /\ active'.name.label = start /\ active'.name.ordinal = next /\ active'.start = start
      /\ active'.name.unit = LabelUnit(window)
  BY <1>1, <1>4 DEF GeneratePartitionName
<1>7. NameBefore(active.name, active'.name)
  BY <1>1, <1>5, <1>6 DEF NameBefore, IInv
<1>8. active' \in [name : [unit : {LabelUnit(window)}, label : Nat, ordinal : 0..MaxOverflowOrdinal],
                   start : Nat]
  BY <1>1, <1>4, <1>5 DEF GeneratePartitionName
<1>9. UNCHANGED <<window, now>>
  BY DEF RotatePartition
<1>. QED BY <1>1, <1>6, <1>7, <1>8, <1>9 DEF IInv, start

LEMMA StepNamed == IInv /\ [Next]_vars => IInv'
<1>. SUFFICES ASSUME IInv, [Next]_vars PROVE IInv'
  OBVIOUS
<1>1. CASE Advance
  <2>1. now \in Nat /\ now' = now + 1 /\ window \in Nat \ {0} /\ UNCHANGED <<window, active>>
    BY <1>1, RotationNamesAssumption DEF Advance, IInv
  <2>2. FloorToWindowMs(now, window) <= FloorToWindowMs(now', window)
    BY <2>1, FloorIsMonotone
  <2>3. FloorToWindowMs(now, window) \in Nat /\ FloorToWindowMs(now', window) \in Nat
    BY <2>1, FloorIsBelow
  <2>4. active.start <= FloorToWindowMs(now', window)
    BY <2>2, <2>3 DEF IInv
  <2>. QED BY <2>1, <2>4 DEF IInv
<1>2. CASE RotatePartition
  BY <1>2, RotationMovesOn
<1>3. CASE UNCHANGED vars
  BY <1>3 DEF vars, IInv
<1>. QED BY <1>1, <1>2, <1>3 DEF Next

LEMMA Named == Spec => []IInv
BY InitNamed, StepNamed, PTL DEF Spec

(* parse_partition_name gives back the start and the ordinal that            *)
(* generate_partition_name was given, for every window of whole label units. *)
THEOREM NamesRestorePartitions == Spec => []RestartRestoresPartition
<1>1. IInv => RestartRestoresPartition
  BY DEF IInv, RestartRestoresPartition, ParsePartitionName
<1>. QED BY <1>1, Named, PTL

(* determine_new_partition_info never names a file that was active before:   *)
(* each name sorts behind the last.                                          *)
THEOREM LaterNamesSortBehind == Spec => NamesSortByAge
<1>1. IInv /\ [Next]_vars => [active' # active => NameBefore(active.name, active'.name)]_vars
  BY RotationMovesOn DEF Next, Advance
<1>. QED BY <1>1, Named, PTL DEF Spec, NamesSortByAge

=============================================================================
