\* Two markets over two days with a gap, two stops at any step.
CONSTANTS
    Conditions = {1, 2}
    DayStarts <- Starts
    DayEnds <- Ends
    AfterLast = 5
    MaxStops = 2
SPECIFICATION FairSpec
CHECK_DEADLOCK FALSE
INVARIANTS ResumesExactly AuditIsComplete
PROPERTIES ConcludesUnlessTorn
