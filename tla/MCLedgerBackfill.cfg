\* Every chain of seven blocks with timestamps 0 .. 3.
CONSTANTS
    LastBlock = 6
    Stamps <- Ascending
    FillCounts <- Densities
    WindowStart = 1
    WindowEnd = 3
    InitialSpan = 4
    MinimumSpan = 1
    MaximumSpan = 4
    TargetLogs = 4
    MaxChunks = 2
    MaxStops = 3
SPECIFICATION FairSpec
CHECK_DEADLOCK FALSE
INVARIANTS StateIsTrue
PROPERTIES Completes
