------------------------ MODULE MCObjectCacheStorage ------------------------
(* ObjectCacheStorage on a small instance. *)
EXTENDS ObjectCacheStorage, TLC

CONSTANTS t1, t2, a, b

StorageSymmetry == Permutations(Threads) \cup Permutations(Tags)
=============================================================================
