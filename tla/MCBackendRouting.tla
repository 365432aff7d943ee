-------------------------- MODULE MCBackendRouting --------------------------
(* Instances of BackendRouting for TLC.                                      *)
EXTENDS BackendRouting, TLC

CONSTANTS r1, r2, r3, b1, b2

\* cooldown_by_kind is empty in the default configuration, the only one in use.
NoCooldowns == [k \in {} |-> 0]

OneRequest == {r1}
TwoRequests == {r1, r2}
ThreeRequests == {r1, r2, r3}
OneBackend == {b1}
TwoBackends == {b1, b2}
\* r1 and r2 differ in nothing where there are no streams.
RequestSymmetry == Permutations({r1, r2})
None == {}
Second == {r2}
Third == {r3}
=============================================================================
