SPECIFICATION PhaseSpec
CONSTANTS
    r1 = r1
    r2 = r2
    r3 = r3
    k1 = k1
    k2 = k2
    NoEntry = NoEntry
    Legacy = Legacy
    LegacyPossible = TRUE
    EmptyErrors = TRUE
    Requests = {r1, r2, r3}
    Keys = {k1, k2}
    KeyOf <- TwoKeys
    MaxInflight = 1
CHECK_DEADLOCK FALSE
INVARIANTS PhaseTypeOK ServedIsFinished
