-------------------------- MODULE MCDiskCacheReader --------------------------
(* Instances of DiskCacheReader for TLC. *)
EXTENDS DiskCacheReader, TLC

CONSTANTS t1, t2, n1, n2

Symmetric == Permutations({t1, t2}) \cup Permutations({n1, n2})

\* LRU eviction: two blocks whose accesses have equal timestamps, and one block
\* with time passing.
Evicting ==
  [policy |-> "lru_sp", validation |-> FALSE, mem_cache |-> FALSE,
   blocks |-> Blocks, temps |-> 1, versions |-> 1, ticks |-> 0]
EvictingLater == [Evicting EXCEPT !.blocks = LongNames, !.ticks = MaxClock]

\* The default policy and validation, on one block of a file that changes: two
\* stores at a time, or one store and the in-memory layer.
Validating ==
  [policy |-> "creation_timestamp", validation |-> TRUE, mem_cache |-> FALSE,
   blocks |-> LongNames, temps |-> 2, versions |-> MaxVersion, ticks |-> MaxClock]
Layered == [Validating EXCEPT !.mem_cache = TRUE, !.temps = 1]

AllSettings == {Evicting, EvictingLater, Validating, Layered}
OnlyValidating == {Validating}
==============================================================================
