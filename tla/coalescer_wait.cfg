SPECIFICATION FairSpec
CONSTANTS
    r1 = r1
    r2 = r2
    r3 = r3
    r4 = r4
    k1 = k1
    k2 = k2
    k3 = k3
    NoEntry = NoEntry
    Requests = {r1, r2, r3, r4}
    Keys = {k1, k2, k3}
    KeyOf <- ThreeKeys
    MaxInflight = 2
    NumShards = 2
    ShardOf <- TwoShards
    Workers = 3
    MaxMarks = 1
CHECK_DEADLOCK FALSE
INVARIANTS LeadersBounded
PROPERTIES AcquireReturns
