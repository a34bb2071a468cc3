SPECIFICATION Spec
CONSTANTS
  Minute = 2  Hour = 6  Day = 12
  MaxOverflowOrdinal = 3
  Null = Null
  Windows = {2, 4, 6, 12, 24}
  MaxClock = 49
INVARIANT RestartRestoresPartition
PROPERTY NamesSortByAge
CHECK_DEADLOCK FALSE
