\* Every kind of fault, late batches included.
CONSTANTS
    r1 = r1
    r2 = r2
    Records = {r1,r2}
    LastDay = 3
    PartCount = 2
    Attempts = 2
    Faults = {"late", "busy", "cut", "down", "crash"}
    MaxFaults = 2
SPECIFICATION FairSpec
CHECK_DEADLOCK FALSE
INVARIANTS ReleasesAreComplete
PROPERTIES NothingTakenBack Archives PublishedOrObstructed
