SPECIFICATION SpecReader
CONSTANTS
  Minute = 1  Hour = 2  Day = 4
  MaxOverflowOrdinal = 1
  Null = Null
  Procs = {p1, p2}
  Handles = {h1}
  Readers = {r1}
  Window = 1
  MaxBytes = 1
  FileSizes = {0, 1}
  Expectations <- OnlyAny
  BatchSizes = {1}
  Follows <- EventsOnly
  Limits = {1}
  MaxClock = 0
  MaxCalls = 2
  MaxFaults = 1
  Faults = {"error"}
  MaxOutages = 0
  Outages = {}
INVARIANT CommittedIsReachable
