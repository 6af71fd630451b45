SPECIFICATION Spec
CONSTANTS
    Event = {1, 2, 3}
    MaxBatch = 2
    QueueCapacity = 2
    RetryBudget = 2
    InitialBackoff = 1
    MaxBackoff = 2
    MaxAnswered = 2
    Timeout = 1
    MaxStray = 1
    RefusedWrites = {FALSE}
    Fleets <- OneKind
    Rollouts <- Rolling
INVARIANTS
    BilledOnce
CHECK_DEADLOCK FALSE
