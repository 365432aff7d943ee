SPECIFICATION PolicySpec
CONSTANTS
  Gateways = {g1}
  Keys = {k1}
  Policies = {p1, p2}
  Default = p1
  Savers = {s1, s2}
  MaxVersion = 3
  MaxFaults = 0
CHECK_DEADLOCK FALSE
INVARIANT KeysKept
