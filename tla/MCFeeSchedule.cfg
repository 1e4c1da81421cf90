\* Every receipt of the instance; stops at any step, rounds with and without a seed.
CONSTANTS
    Tape <- TwoMarkets
    Decided = {1, 4, 6}
    DayLength = 4
    Latency = 1
    Wait = 1
    Boundaries = {1, 6}
    FirstFee = 1
    Cutover = 6
    TxTime <- Times
    Market <- Listing
    Known = {"p", "q", "t"}
    Receipts <- SomeReceipts
    Infos <- SomeInfos
    PerSegment = 2
    WaveSize = 2
    MaxRounds = 3
    MaxStops = 1
    None = None
SPECIFICATION FairSpec
CHECK_DEADLOCK FALSE
INVARIANTS FillsQualified Genuine StopsAreNeutral
PROPERTIES Qualifies
