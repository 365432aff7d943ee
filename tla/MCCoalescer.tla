---------------------------- MODULE MCCoalescer ----------------------------
(* Small instances of the coalescer for TLC. *)
EXTENDS Coalescer, TLC

CONSTANTS r1, r2, r3, r4, k1, k2, k3

\* Everybody asks for one key; or two ask for one key and the others for two more.
SameKey   == [r \in Requests |-> k1]
ThreeKeys == [r \in Requests |-> CASE r \in {r1, r2} -> k1 [] r = r3 -> k2 [] OTHER -> k3]

\* All keys in one shard, or one key apart from the others.
OneShard  == [k \in Keys |-> 1]
TwoShards == [k \in Keys |-> IF k = k1 THEN 1 ELSE 2]

Interchangeable == Permutations(Requests)
=============================================================================
