CONSTANTS
    r1 = r1  r2 = r2  r3 = r3  b1 = b1  b2 = b2
    NoBackend = NoBackend
    Requests <- ThreeRequests
    Backends <- OneBackend
    MaxInflight = 2
    MaxRetries = 0
    Streaming <- Second
    Listing <- Third
    OtherSkips = FALSE
    FailureThreshold = 3
    DegradationThreshold = 1
    CountCap = 3
    ResetTimeout = 2
    MaxBackoffMultiplier = 2
    BackoffEscalation = 1
    AgeCap = 4
    CooldownByKind <- NoCooldowns
SPECIFICATION RoutingFairSpec
PROPERTIES AlwaysProbed Recovers
