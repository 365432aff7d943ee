SPECIFICATION Spec
CONSTANTS
  Keys = {k1}
  Requests = {r1, r2, r3}
  Managers = {m1}
  Cap = 2
  MaxPools = 3
  MaxInflight = 3
SYMMETRY Interchangeable
CHECK_DEADLOCK FALSE
INVARIANTS KeyPoolTypeOK KeyCap InflightCovers
