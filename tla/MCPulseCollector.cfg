\* Two markets in chunks of one, a queue and a batch that both fill up.
CONSTANTS
    t1 = t1
    t2 = t2
    Tokens = {t1, t2}
    BatchSize = 1
    QueueSize = 2
    WriterBatch = 2
    MaxItems = 2
SPECIFICATION CollectorSpec
CHECK_DEADLOCK FALSE
INVARIANTS SubscriptionsAgree QueueSurvivesStop
PROPERTIES StopEnds
