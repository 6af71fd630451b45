SPECIFICATION Spec
CONSTANTS
    env = env
    catalog = catalog
    k1 = k1
    price = price
    good = good
    better = better
    bad = bad
    Absent = Absent
    NoRow = NoRow
    NoFile = NoFile
    Key <- Managed
    Prefix <- TwoPrefixes
    Global <- Catalog
    MayRefuse = {}
    Under <- ManagedUnder
    Val <- GoodBad
    Builds <- GoodBuild
    CacheEnabled = TRUE
    MaxRev = 3
    MaxBatch = 2
    MaxPending = 2
    MaxFaults = 0
CHECK_DEADLOCK FALSE
PROPERTIES
    WritesCommitInOrder
