---------------------------- MODULE MCTTLCache -----------------------------
(* Small instances of TTLCache: one key more than fits. *)
EXTENDS TTLCache, TLC

CONSTANTS k1, k2, k3, v1, v2

ThreeKeys == {k1, k2, k3}
TwoValues == {v1, v2}

CacheSymmetry == Permutations(ThreeKeys) \cup Permutations(TwoValues)
=============================================================================
