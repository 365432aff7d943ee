--------------------------- MODULE MCTieredCache ----------------------------
(* Instances of TieredCache for TLC: two gateways, and times to live of one  *)
(* and two ticks, so that entries expire while lookups are under way.        *)
EXTENDS TieredCache, TLC

CONSTANTS g1, g2, k1, k2, t1, t2, t3, i1, i2

OneKey == {k1}
TwoKeys == {k1, k2}
TwoGateways == {g1, g2}
TwoTasks == {t1, t2}
ThreeTasks == {t1, t2, t3}
OneId == {i1}
TwoIds == {i1, i2}
ShortAndLong == {1, 2}
TieredSymmetry == Permutations(Gateways) \cup Permutations(Keys)
                    \cup Permutations(Tasks) \cup Permutations(Ids)
=============================================================================
