SPECIFICATION FairSpec
CONSTANTS
    c1 = c1
    c2 = c2
    c3 = c3
    Command = {c1, c2, c3}
    Window = 3
    Budget = 2
    ProbeBudget = 2
    MaxOpenings = 4
    MaxFaults = 2
INVARIANTS
    OnePing
    OneCallerPays
PROPERTIES
    ClosesOnFreshEvidence
    Recovers
CHECK_DEADLOCK FALSE
