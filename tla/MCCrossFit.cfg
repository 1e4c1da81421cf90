SPECIFICATION NetEdgeSpec
CONSTANTS
    PackDays = 2
    MaxEdits = 1
    MaxHalts = 2
    Nothing = Nothing
    Seeds = {1}
    Folds = 3
    Epochs = 3
    Patience = 1
    MaxStops = 3
    NoFit = NoFit
INVARIANTS ResultsBelongTogether OffsetsFit
PROPERTIES TrainingBegins
CHECK_DEADLOCK FALSE
