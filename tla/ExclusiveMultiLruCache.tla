----------------------- MODULE ExclusiveMultiLruCache -----------------------
(***************************************************************************)
(* The LRU cache of exclusive values of                                    *)
(* src/utils/include/exclusive_multi_lru_cache.hpp, as operators on the    *)
(* value of one cache object.  Several values may have the same key, and a *)
(* value leaves the cache when it is looked up.                            *)
(*                                                                         *)
(* entry_map maps a key to the queue of its entries, oldest first.         *)
(* lru_list is the list of nodes, newest first; the code keeps a list      *)
(* iterator in every entry, the model tells the nodes apart by their value *)
(* (an exclusive value is in the cache at most once).                      *)
(***************************************************************************)
EXTENDS LruLists, Functions

CONSTANTS
  MaxEntries,   \* max_entries: 0 means that the number of entries is not limited
  Timeout       \* timeout_millisec, in clock ticks: 0 means that entries never expire

ASSUME MultiLruAssumption == MaxEntries \in Nat /\ Timeout \in Nat

EmptyMultiCache == [lru_list |-> <<>>, entry_map |-> <<>>, total_entries_num |-> 0]

Stored(c) == DOMAIN c.entry_map

\* The values cached under the keys of a set.
ValuesOf(c, K) == UNION {{e.value : e \in Range(c.entry_map[k])} : k \in K \cap Stored(c)}

AllValues(c) == ValuesOf(c, Stored(c))

Stale(e) == Timeout > 0 /\ e.age > Timeout

\* One step of the steady clock.  The age of a stale entry does not matter.
OlderEntry(e) == [e EXCEPT !.age = IF e.age > Timeout THEN e.age ELSE e.age + 1]

Older(c) ==
  [c EXCEPT !.entry_map =
     [k \in Stored(c) |-> [n \in DOMAIN c.entry_map[k] |-> OlderEntry(c.entry_map[k][n])]]]

\* lru_list.erase of the nodes of these values.
Unlinked(c, V) == Kept(c.lru_list, {i \in DOMAIN c.lru_list : c.lru_list[i].value \notin V})

\* Fault: the node at the back of the list leaves, not the entry's own node.
DeleteLastNodes(c, k, n) ==
  LET queue == c.entry_map[k]
      rest  == SubSeq(queue, n + 1, Len(queue))
  IN  [lru_list  |-> SubSeq(c.lru_list, 1, Len(c.lru_list) - n),
       entry_map |-> IF rest = <<>> THEN Restrict(c.entry_map, Stored(c) \ {k})
                                    ELSE [c.entry_map EXCEPT ![k] = rest],
       total_entries_num |-> c.total_entries_num - n]

\* The first n entries of a key leave: DeleteFirstEntry, n times.
DeleteFirstEntries(c, k, n) ==
  LET queue == c.entry_map[k]
      gone  == {queue[m].value : m \in 1 .. n}
      rest  == SubSeq(queue, n + 1, Len(queue))
  IN  [lru_list  |-> Unlinked(c, gone),
       entry_map |-> IF rest = <<>> THEN Restrict(c.entry_map, Stored(c) \ {k})
                                    ELSE [c.entry_map EXCEPT ![k] = rest],
       total_entries_num |-> c.total_entries_num - n]

Enqueue(c, k, v) ==
  [lru_list  |-> <<[key |-> k, value |-> v]>> \o c.lru_list,
   entry_map |-> [j \in Stored(c) \cup {k} |->
                    LET queue == IF j \in Stored(c) THEN c.entry_map[j] ELSE <<>>
                    IN  IF j = k THEN Append(queue, [value |-> v, age |-> 0]) ELSE queue],
   total_entries_num |-> c.total_entries_num + 1]

\* Put: the cache afterwards, and the value evicted to make room, if any.
MultiPut(c, k, v) ==
  LET d     == Enqueue(c, k, v)
      stale == d.lru_list[Len(d.lru_list)].key
  IN  IF MaxEntries > 0 /\ d.total_entries_num > MaxEntries
      THEN [cache |-> DeleteFirstEntries(d, stale, 1), evicted |-> {d.entry_map[stale][1].value}]
      ELSE [cache |-> d, evicted |-> {}]

\* GetAndPop: the stale entries at the front of the key's queue are evicted and
\* the next entry, if there is one, is the target.
MultiGetAndPop(c, k) ==
  IF k \notin Stored(c)
  THEN [cache |-> c, evicted |-> {}, target |-> {}]
  ELSE LET queue  == c.entry_map[k]
           n      == Cardinality({m \in DOMAIN queue : \A i \in 1 .. m : Stale(queue[i])})
           target == IF n < Len(queue) THEN {queue[n + 1].value} ELSE {}
       IN  [cache   |-> DeleteFirstEntries(c, k, n + Cardinality(target)),
            evicted |-> {queue[m].value : m \in 1 .. n},
            target  |-> target]

\* ClearAndGetValues(start_key, key_filter): the keys it removes.  The scan stops
\* at the first key that the filter rejects.
ClearedKeys(c, start, F) ==
  {k \in Stored(c) : k >= start /\ \A j \in Stored(c) : start <= j /\ j <= k => j \in F}

MultiClear(c, K) ==
  [lru_list  |-> Unlinked(c, ValuesOf(c, K)),
   entry_map |-> Restrict(c.entry_map, Stored(c) \ K),
   total_entries_num |-> c.total_entries_num - Cardinality(ValuesOf(c, K))]

\* Verify.
Verify(c) ==
  /\ \A k \in Stored(c) : c.entry_map[k] # <<>>
  /\ c.total_entries_num = Cardinality(AllValues(c))
  /\ c.total_entries_num = Len(c.lru_list)

-----------------------------------------------------------------------------

\* The queue of a key is the LRU list restricted to the key, in the other
\* direction.  Put relies on it: it looks the victim up by the key of the list's
\* last node and evicts the first entry of that key's queue.
MultiLruConsistent(c) ==
  /\ Verify(c)
  /\ MaxEntries > 0 => c.total_entries_num <= MaxEntries
  /\ {node.key : node \in Range(c.lru_list)} = Stored(c)
  /\ \A k \in Stored(c) :
       LET nodes == Kept(c.lru_list, {i \in DOMAIN c.lru_list : c.lru_list[i].key = k})
           queue == c.entry_map[k]
       IN  /\ Len(nodes) = Len(queue)
           /\ \A n \in DOMAIN queue : nodes[Len(nodes) + 1 - n].value = queue[n].value
=============================================================================
