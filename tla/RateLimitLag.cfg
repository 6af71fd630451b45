SPECIFICATION Spec
CONSTANTS
    r1 = r1
    r2 = r2
    r3 = r3
    apiKey = apiKey
    model = model
    rpm = rpm
    rpd = rpd
    tpm = tpm
    Unlimited = Unlimited
    Request = {r1, r2, r3}
    Key = {apiKey, model}
    Layers <- ThreeRequests
    TokenDims <- TokensByMinute
    RequestDims <- ByMinute
    PeekDims <- ReportedDims
    Window <- Windows
    Limit <- SmallLimits
    Concurrency <- SmallConcurrency
    MaxTokens = 1
    MaxTime = 3
    MaxLag = 1
INVARIANTS
    RequestsPerWindow
