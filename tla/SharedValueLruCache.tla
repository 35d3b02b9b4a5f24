------------------------ MODULE SharedValueLruCache ------------------------
(***************************************************************************)
(* The LRU cache with shared values of                                     *)
(* src/utils/include/shared_value_lru_cache.hpp, as operators on the value *)
(* of one cache object.                                                    *)
(*                                                                         *)
(* A cache is a record: lru_list is the sequence of keys, most recently    *)
(* used first; entry_map maps a key to its value and its age.  The code    *)
(* keeps the time of insertion and compares `now - timestamp` with the     *)
(* timeout; the model keeps that difference, the age, which saturates just *)
(* above the timeout.                                                      *)
(***************************************************************************)
EXTENDS LruLists, Functions

CONSTANTS
  MaxEntries,   \* max_entries: 0 means that the number of entries is not limited
  Timeout       \* timeout_millisec, in clock ticks: 0 means that entries never expire

ASSUME LruAssumption == MaxEntries \in Nat /\ Timeout \in Nat

EmptyCache == [lru_list |-> <<>>, entry_map |-> <<>>]

Cached(c) == DOMAIN c.entry_map

Expired(c, k) == Timeout > 0 /\ c.entry_map[k].age > Timeout

\* One step of the steady clock, seen by the entries of a cache.
Aged(c) ==
  [c EXCEPT !.entry_map =
     [k \in Cached(c) |->
        [c.entry_map[k] EXCEPT !.age = IF @ > Timeout THEN @ ELSE @ + 1]]]

\* DeleteImpl, for the keys of a set.
Without(c, K) ==
  [lru_list  |-> Erased(c.lru_list, K),
   entry_map |-> Restrict(c.entry_map, Cached(c) \ K)]

InsertFront(c, k, v) ==
  [lru_list  |-> <<k>> \o c.lru_list,
   entry_map |-> [j \in Cached(c) \cup {k} |->
                    IF j = k THEN [value |-> v, age |-> 0] ELSE c.entry_map[j]]]

\* The least recently used entry leaves when there is one entry too many.
EvictOverflow(c) ==
  IF MaxEntries > 0 /\ Len(c.lru_list) > MaxEntries
  THEN [lru_list  |-> SubSeq(c.lru_list, 1, Len(c.lru_list) - 1),
        entry_map |-> Restrict(c.entry_map, Cached(c) \ {c.lru_list[Len(c.lru_list)]})]
  ELSE c

\* Fault: the entry that is replaced keeps its place in the list.
LruPutTwice(c, k, v) == EvictOverflow(InsertFront(c, k, v))

\* Put: an entry of the same key is replaced.
LruPut(c, k, v) == EvictOverflow(InsertFront(Without(c, {k}), k, v))

LruDelete(c, k) == Without(c, {k})

LruHit(c, k) == k \in Cached(c) /\ ~Expired(c, k)

\* What Get leaves behind: a hit moves to the front, an expired entry is gone.
LruGet(c, k) ==
  IF LruHit(c, k)
  THEN [c EXCEPT !.lru_list = <<k>> \o Erased(@, {k})]
  ELSE Without(c, {k})

\* Clear(start_key, key_filter): the scan of the ordered map stops at the first
\* key that the filter rejects.
LruClearFrom(c, start, F) ==
  LET run == {k \in Cached(c) :
                k >= start /\ \A j \in Cached(c) : start <= j /\ j <= k => j \in F}
  IN  Without(c, run)

-----------------------------------------------------------------------------
(* What every operation preserves. *)

LruWellFormed(c) ==
  /\ Range(c.lru_list) = Cached(c)
  /\ Len(c.lru_list) = Cardinality(Cached(c))
  /\ MaxEntries > 0 => Len(c.lru_list) <= MaxEntries
=============================================================================
