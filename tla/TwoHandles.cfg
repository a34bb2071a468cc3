SPECIFICATION SpecCached
CONSTANTS
  Minute = 1  Hour = 2  Day = 4
  MaxOverflowOrdinal = 1
  Null = Null
  Procs = {p1, p2}
  Handles = {h1, h2}
  Keys = {k1, k2}
  Partition = k1
  StoreLimits = {1}
  Window = 1
  MaxBytes = 1
  FileSizes = {0, 1}
  Expectations <- OnlyAny
  BatchSizes = {1}
  MaxClock = 0
  MaxCalls = 2
  MaxFaults = 0
  Faults = {}
  MaxOutages = 0
  Outages = {}
INVARIANT VersionsUnique
CHECK_DEADLOCK FALSE
