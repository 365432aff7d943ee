---------------------------- MODULE MCAdmission -----------------------------
(* Instances of Admission for TLC: limits of one, so that two requests       *)
(* already compete, and two names to rename the key with.                    *)
EXTENDS Admission, TLC

CONSTANTS r1, r2, r3, m1, m2, s1, s2, s3, u1, u2

TwoRequests == {r1, r2}
ThreeRequests == {r1, r2, r3}
OneManager == {m1}
TwoManagers == {m1, m2}
TwoSlots == {s1, s2}
ThreeSlots == {s1, s2, s3}
TwoUserSlots == {u1, u2}
TwoNames == {"a", "b"}
AdmissionSymmetry == Permutations(Requests) \cup Permutations(Managers)
                       \cup Permutations(Slots) \cup Permutations(UserSlots)
=============================================================================
