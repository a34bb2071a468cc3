SPECIFICATION SpecReader
CONSTANTS
  Minute = 1  Hour = 2  Day = 4
  MaxOverflowOrdinal = 1
  Null = Null
  Procs = {p1, p2}
  Handles = {h1}
  Readers = {}
  Window = 1
  MaxBytes = 1
  FileSizes = {0, 1}
  Expectations <- OnlyAny
  BatchSizes = {1}
  Follows <- EventsOnly
  Limits = {1, 2}
  MaxClock = 2
  MaxCalls = 3
  MaxFaults = 1
  Faults = {"error", "abandon"}
  MaxOutages = 0
  Outages = {}
SYMMETRY SymmetricCallers
INVARIANTS VersionsUnique
PROPERTIES VersionsAscend
CHECK_DEADLOCK FALSE
