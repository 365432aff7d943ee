SPECIFICATION FairSpec
CONSTANTS
  Requests = {r1, r2}
  IdemKeys = {i1, i2, i3}
  MaxAttempts = 2
  AttemptWindow = 1
  Lockout = 2
  Window = 2
  MaxEntries = 1
INVARIANTS GateTypeOK AttemptsBounded SavedIsThere StoreBounded
PROPERTY LockoutEnds
