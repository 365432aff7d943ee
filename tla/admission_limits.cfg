CONSTANTS
    r1 = r1  r2 = r2  r3 = r3  m1 = m1  m2 = m2  NoSlot = NoSlot
    s1 = s1  s2 = s2  s3 = s3  u1 = u1  u2 = u2
    Requests <- TwoRequests
    Managers <- TwoManagers
    Slots <- TwoSlots
    UserSlots <- TwoUserSlots
    Names <- TwoNames
    Limits = {1}
    MaxLimit = 1
    UserLimit = 1
    Permits = 1
    MaxKeys = 2
SPECIFICATION AdmissionSpec
INVARIANTS AdmissionTypeOK NothingLost KeyLimit NoSlotLeft
SYMMETRY AdmissionSymmetry
CHECK_DEADLOCK FALSE
