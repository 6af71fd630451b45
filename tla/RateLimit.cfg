SPECIFICATION FairSpec
CONSTANTS
    r1 = r1
    r2 = r2
    r3 = r3
    apiKey = apiKey
    model = model
    rpm = rpm
    rpd = rpd
    tpm = tpm
    Unlimited = Unlimited
    Request = {r1, r2}
    Key = {apiKey, model}
    Layers <- TwoKeys
    TokenDims <- TokensByMinute
    RequestDims <- ByMinuteAndDay
    PeekDims <- ReportedDims
    Window <- Windows
    Limit <- PairLimits
    Concurrency <- PairConcurrency
    MaxTokens = 1
    MaxTime = 5
    MaxLag = 1
INVARIANTS
    CountsAreAdmitted
    LimitPerWipe
    OvershootIsBounded
    HoldsAreCounted
    WithinConcurrency
PROPERTIES
    RefusedForCause
    KeepsPolicy
    ForgetsOnlyEarly
    SlotsReturn
