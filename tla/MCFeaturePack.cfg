\* Three streamed days, three stops at any step, commands over ever more days and fewer.
CONSTANTS
    StreamDays <- ThreeDays
    DayLength = 3
    Resolutions <- SomeResolutions
    ActorDates <- SomeActors
    Limits = {2, 3}
    MaxStops = 3
SPECIFICATION FairFeatureSpec
CHECK_DEADLOCK FALSE
INVARIANTS FeaturesCausal
PROPERTIES FinishesUnlessTorn
