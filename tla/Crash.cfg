SPECIFICATION SpecReader
CONSTANTS
  Minute = 1  Hour = 2  Day = 4
  MaxOverflowOrdinal = 2
  Null = Null
  Procs = {p1, p2}
  Handles = {h1}
  Readers = {r1}
  Window = 1
  MaxBytes = 1
  FileSizes = {0, 1}
  Expectations <- OnlyAny
  BatchSizes = {1, 2}
  Follows <- EventsOnly
  Limits = {2}
  MaxClock = 0
  MaxCalls = 3
  MaxFaults = 0
  Faults = {}
  MaxOutages = 2
  Outages = {"crash"}
SYMMETRY SymmetricCallers
INVARIANTS VersionsUnique Gapless CurrentVersionIsLast RangesDescribeFiles HandledInOrder
PROPERTIES IsOneLog
