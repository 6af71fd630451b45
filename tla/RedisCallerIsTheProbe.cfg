SPECIFICATION Spec
CONSTANTS
    c1 = c1
    c2 = c2
    c3 = c3
    Command = {c1, c2}
    Window = 3
    Budget = 2
    ProbeBudget = 2
    MaxOpenings = 3
    MaxFaults = 2
PROPERTIES
    NoCallerIsTheProbe
CHECK_DEADLOCK FALSE
