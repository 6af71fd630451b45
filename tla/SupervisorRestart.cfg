SPECIFICATION Spec
CONSTANTS
    env = env
    catalog = catalog
    k1 = k1
    price = price
    good = good
    better = better
    bad = bad
    Absent = Absent
    NoRow = NoRow
    NoFile = NoFile
    Key <- Managed
    Prefix <- TwoPrefixes
    Global <- Catalog
    MayRefuse <- Catalog
    Under <- ManagedUnder
    Val <- GoodBetter
    Builds <- Downgrade
    CacheEnabled = TRUE
    MaxRev = 3
    MaxBatch = 2
    MaxPending = 2
    MaxFaults = 2
CHECK_DEADLOCK FALSE
INVARIANTS
    ClaimsAreOfAPrefix
    FilesAreExplained
    DrainedCacheIsCurrent
PROPERTIES
    CacheNeverRollsBack
