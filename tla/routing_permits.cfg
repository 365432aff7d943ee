CONSTANTS
    r1 = r1  r2 = r2  r3 = r3  b1 = b1  b2 = b2
    NoBackend = NoBackend
    Requests <- ThreeRequests
    Backends <- TwoBackends
    MaxInflight = 1
    MaxRetries = 1
    Streaming <- None
    Listing <- Third
    OtherSkips = TRUE
    FailureThreshold = 2
    DegradationThreshold = 1
    CountCap = 2
    ResetTimeout = 1
    MaxBackoffMultiplier = 1
    BackoffEscalation = 0
    AgeCap = 1
    CooldownByKind <- NoCooldowns
SPECIFICATION RoutingSpec
INVARIANTS BreakerShape PermitsExact LoadBounded RoutingTypeOK
SYMMETRY RequestSymmetry
