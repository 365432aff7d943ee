SPECIFICATION Spec
CONSTANTS
    r1 = r1
    r2 = r2
    r3 = r3
    r4 = r4
    k1 = k1
    k2 = k2
    k3 = k3
    NoEntry = NoEntry
    Requests = {r1, r2, r3, r4}
    Keys = {k1}
    KeyOf <- SameKey
    MaxInflight = 2
    NumShards = 1
    ShardOf <- OneShard
    Workers = 3
    MaxMarks = 2
CHECK_DEADLOCK FALSE
SYMMETRY Interchangeable
INVARIANTS TypeOK OneLeaderPerKey SlotsExact NoOrphanEntry FailureSeen
PROPERTIES ImplementsPromise
