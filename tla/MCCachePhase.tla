--------------------------- MODULE MCCachePhase ---------------------------
(* Small instances of the cache phase for TLC. *)
EXTENDS CachePhase, TLC

CONSTANTS r1, r2, r3, k1, k2

SameKey == [r \in Requests |-> k1]
TwoKeys == [r \in Requests |-> IF r = r3 THEN k2 ELSE k1]

Interchangeable == Permutations(Requests)
=============================================================================
