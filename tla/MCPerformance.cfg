\* Four seconds after the start, equity above and below the initial cash.
CONSTANTS
    InitialCash = 2
    LastSecond = 4
    Equities = {0, 1, 2, 3}
    Pnls <- TwoSided
    MaxClosed = 2
SPECIFICATION RecordSpec
INVARIANTS PeakIsCurveMaximum DrawdownIsWorstLoss
PROPERTIES CompactionKeepsFigures
