--------------------------- MODULE MCModelLockout ---------------------------
(* Instances of ModelLockout for TLC: three backoff steps, the two levels    *)
(* the callers pass, and base cooldowns below and above every step.          *)
EXTENDS ModelLockout, TLC

CONSTANTS c1, c2

OneCaller == {c1}
TwoCallers == {c1, c2}
ThreeSteps == <<1, 2, 4>>
ShortAndLong == {1, 5}
BothLevels == {1, 4}
CallerSymmetry == Permutations(Callers)
=============================================================================
