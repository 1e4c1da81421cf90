SPECIFICATION FairSpec
CONSTANTS
    Epochs = 4
    Batches = 2
    Patience = 2
    Contracts = {c1, c2}
    MaxScore = 2
    MaxKills = 1
    MaxPauses = 1
    MaxReruns = 1
    None = None
    c1 = c1
    c2 = c2
INVARIANTS TrainingIsExact
PROPERTIES Finishes
CHECK_DEADLOCK FALSE
