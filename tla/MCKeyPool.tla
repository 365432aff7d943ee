----------------------------- MODULE MCKeyPool -----------------------------
(* Small instances of the key pool for TLC. *)
EXTENDS KeyPool, TLC

Interchangeable == Permutations(Requests)
=============================================================================
