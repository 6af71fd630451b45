SPECIFICATION FairSpec
CONSTANTS
    env = env
    catalog = catalog
    k1 = k1
    price = price
    good = good
    better = better
    bad = bad
    Absent = Absent
    NoRow = NoRow
    NoFile = NoFile
    Key <- Shared
    Prefix <- TwoPrefixes
    Global <- Catalog
    MayRefuse <- Catalog
    Under <- SharedUnder
    Val <- GoodBad
    Builds <- GoodBuild
    CacheEnabled = TRUE
    MaxRev = 3
    MaxBatch = 1
    MaxPending = 2
    MaxFaults = 2
CHECK_DEADLOCK FALSE
INVARIANTS
    LoadMatchesReads
PROPERTIES
    Converges
    CacheConverges
