SPECIFICATION Spec
CONSTANTS
    env = env
    catalog = catalog
    k1 = k1
    price = price
    good = good
    better = better
    bad = bad
    Absent = Absent
    NoRow = NoRow
    NoFile = NoFile
    Key <- Managed
    Prefix <- TwoPrefixes
    Global <- Catalog
    MayRefuse <- Catalog
    Under <- ManagedUnder
    Val <- GoodBad
    Builds <- GoodBuild
    CacheEnabled = FALSE
    MaxRev = 4
    MaxBatch = 2
    MaxPending = 1
    MaxFaults = 2
CHECK_DEADLOCK FALSE
INVARIANTS
    TypeOK
    ServedIsExplained
    ViewIsEffective
    ReadRevisionIsHonest
    WatchesLeaveNoGap
    PinDiesWithWatchedKey
PROPERTIES
    KeepsLastKnownGood
    ObservedNeverRegresses
    RefusalIsNotDeletion
