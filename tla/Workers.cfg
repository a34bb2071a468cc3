CONSTANTS
    Keys = {k1, k2}
    StoreLimits = {1, 2}
    Null = Null
    Tasks = {t1, t2, t3}
    ReadLimit = 2
    ChannelCapacity = 1
    MaxAppends <- BusyAndQuiet
    MaxFaults = 1
SPECIFICATION Spec
INVARIANTS TypeOK CacheWithinLimit OneHandlerPerPartition NothingLeftBehind
PROPERTIES IsProjection MainReturns
