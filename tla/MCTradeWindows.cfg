\* Two threads, two groups; windows of three trades are saturated.
CONSTANTS
    GroupCount = 2
    Workers = {1, 2}
    LastSecond = 2
    TradeCounts <- BySecond
    Partitions <- VolumeParts
    PageSize = 1
    MaximumOffset = 2
    MinimumWindow = 0
    Attempts = 2
    MaxRequests = 4
    MaxFaults = 2
SPECIFICATION FairTradeSpec
CHECK_DEADLOCK FALSE
INVARIANTS CompleteIsExact
PROPERTIES Collects
