SPECIFICATION FairSpec
CONSTANTS
    Scopes <- ThreeScopes
    GroupSize = 2
    Limits = {2, 3}
    Workers = 2
    DayLength = 10
    EarlyMaximum = 2
    Stride = 2
    Heartbeat = 10
    Atlases <- SomeAtlases
    Splits <- TwoSplits
    LabelSplits <- Train
    MaxStops = 2
INVARIANTS StreamExact DecisionsAreOnePass
PROPERTIES ComponentsSealed SameCommandCompletes
CHECK_DEADLOCK FALSE
