SPECIFICATION FairSpec
CONSTANTS
    Event = {1, 2}
    MaxBatch = 2
    QueueCapacity = 1
    RetryBudget = 2
    InitialBackoff = 1
    MaxBackoff = 2
    MaxAnswered = 2
    Timeout = 1
    MaxStray = 1
    RefusedWrites = {TRUE, FALSE}
    Fleets <- Fleet
    Rollouts <- AnyRollout
INVARIANTS
    LossIsCounted
PROPERTIES
    KeepsLedger
    BilledInTime
    EventsSettle
    ShutdownEnds
CHECK_DEADLOCK FALSE
