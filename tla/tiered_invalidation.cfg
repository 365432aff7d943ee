CONSTANTS
    g1 = g1  g2 = g2  k1 = k1  k2 = k2  t1 = t1  t2 = t2  t3 = t3  i1 = i1  i2 = i2
    NoGateway = NoGateway
    Gateways <- TwoGateways
    Keys <- OneKey
    Tasks <- TwoTasks
    Ids <- OneId
    Ttls <- ShortAndLong
    MaxTtl = 2
    Lag = 1
SPECIFICATION TieredSpec
INVARIANTS TieredTypeOK AgeBounded PurgedEverywhere InvalidationHolds OneFullScan
SYMMETRY TieredSymmetry
