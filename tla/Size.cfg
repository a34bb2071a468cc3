SPECIFICATION LiveSpecReader
CONSTANTS
  Minute = 1  Hour = 2  Day = 4
  MaxOverflowOrdinal = 1
  Null = Null
  Procs = {p1, p2}
  Handles = {h1}
  Readers = {r1}
  Window = 1
  MaxBytes = 1
  FileSizes = {0, 1}
  Expectations <- SizeExpectations
  BatchSizes = {0, 2}
  Follows <- EventsAndWorkflow
  Limits = {1}
  MaxClock = 0
  MaxCalls = 2
  MaxFaults = 0
  Faults = {}
  MaxOutages = 1
  Outages = {"shutdown", "damage"}
INVARIANTS TypeOK RangesDescribeFiles CommittedIsReachable OneUnsealedRange RotationTargetIsNew HandledInOrder
PROPERTIES SealedFilesDoNotGrow IsOneLog CallsReturn PartitionOpens EventsAreHandled
