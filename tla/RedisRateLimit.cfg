SPECIFICATION FairSpec
CONSTANTS
    r1 = r1
    r2 = r2
    r3 = r3
    gw1 = gw1
    gw2 = gw2
    Redis = Redis
    Replica = {gw1, gw2}
    Request = {r1, r2, r3}
    Home <- TwoReplicas
    RequestLimit = 2
    TokenLimit = 1
    Concurrency = 1
    Window = 1
    ConcTtl = 2
    Cost <- SomeCost
    MaxFaults = 1
INVARIANTS
    ClusterConcurrency
    NeverFailsClosed
    NoSilentLeak
    TokensAreCounted
PROPERTIES
    SlotsReturn
