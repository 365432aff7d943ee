CONSTANTS
    c1 = c1  c2 = c2
    Callers <- TwoCallers
    LockSteps <- ThreeSteps
    Cooldowns <- ShortAndLong
    Levels <- BothLevels
    MaxNow = 5
SPECIFICATION LockoutSpec
INVARIANTS LockoutTypeOK 
SYMMETRY CallerSymmetry
