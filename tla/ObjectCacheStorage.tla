------------------------- MODULE ObjectCacheStorage -------------------------
(***************************************************************************)
(* ObjectCacheStorage (src/object_cache_data_cache_storage.cpp): data      *)
(* blocks live in DuckDB's object cache, which may evict them at any time, *)
(* and a map of metadata, under a mutex of its own, says which blocks      *)
(* there are and validates them.  The two are updated one after the other. *)
(* A block that loses its last reference reports its end to the map: the   *)
(* destructor calls OnEntryDestroyed.                                      *)
(*                                                                         *)
(* Every critical section, of the map or of the object cache, is a step.   *)
(***************************************************************************)
EXTENDS Integers, FiniteSets

CONSTANTS
  Threads,       \* callers of the storage
  Evictor,       \* the thread of DuckDB that evicts from the object cache
  Keys,          \* InMemCacheBlocks, as numbers: the map is ordered
  Tags,          \* version tags
  AnyTag,        \* the empty expected tag: no validation
  MaxBlocks,     \* bound on the blocks ever put
  SharedKeys,    \* the keys that are put when Puts of one key may overlap
  None

ASSUME StorageAssumption ==
  /\ Keys \subseteq Nat /\ IsFiniteSet(Keys)
  /\ Evictor \notin Threads /\ AnyTag \notin Tags /\ None \notin Nat /\ MaxBlocks \in Nat

Actors == Threads \cup {Evictor}

VARIABLES
  entries,       \* the metadata map
  cached,        \* the object cache: key -> id of its block, or None
  blocks,        \* every block made so far, by id (next_block_id is the next one)
  op,            \* what every actor is doing
  serial         \* are Puts of one key, and Take with anything else, kept apart?

vars == <<entries, cached, blocks, op, serial>>

(* An operation: where it is, its arguments and locals.  `keep` is a block the
   actor has a reference to, `dead` one whose destructor it has to run before it
   goes on, `before` (history) the blocks that a clear has to remove, `early`
   (history) that the block a Put made is already gone. *)
Idle == [at |-> "idle", key |-> None, id |-> None, tag |-> AnyTag,
         todo |-> {}, keep |-> None, dead |-> None, before |-> {}, early |-> FALSE]

Init ==
  /\ entries = [k \in {} |-> {}]
  /\ cached = [k \in Keys |-> None]
  /\ blocks = [i \in {} |-> {}]
  /\ op = [a \in Actors |-> Idle]
  /\ serial \in BOOLEAN

next_block_id == Cardinality(DOMAIN blocks)

Go(a, o) == op' = [op EXCEPT ![a] = o]

\* The first key of a list, which follows the order of the map.
NextOf(todo) == CHOOSE p \in todo : \A q \in todo : p[1] <= q[1]

\* The next operation of a thread: its destructors have run.
Ready(a, where) == op[a].at = where /\ op[a].dead = None

Putting(k) == \E t \in Threads : op[t].at \in {"put", "meta"} /\ op[t].key = k

Taking == \E t \in Threads : op[t].at \in {"take", "taken", "release"}

MayStart(t) == Ready(t, "idle") /\ (serial => ~Taking)

\* With the object cache c, has a reference to block i been the last one?  The
\* reference of actor a itself is the one that goes.
Last(i, c, a) ==
  /\ i # None
  /\ \A k \in Keys : c[k] # i
  /\ \A b \in Actors \ {a} : op[b].keep # i

Dying(i, c, a) == IF Last(i, c, a) THEN i ELSE None

-----------------------------------------------------------------------------
(* The destructor of a block, and OnEntryDestroyed. *)

\* Fault: the block is not compared with the entry's.
OnEntryDestroyedUnchecked(k, i) ==
  entries' = [j \in DOMAIN entries \ {k} |-> entries[j]]

\* "A newer block has replaced this one; preserve the new metadata."
OnEntryDestroyed(k, i) ==
  entries' = IF k \in DOMAIN entries /\ entries[k].id = i
             THEN [j \in DOMAIN entries \ {k} |-> entries[j]]
             ELSE entries

Destroy(a) ==
  LET i == op[a].dead IN
  /\ i # None
  /\ OnEntryDestroyed(blocks[i].key, i)
  /\ op' = [b \in Actors |->
              [op[b] EXCEPT !.dead = IF b = a THEN None ELSE @,
                            !.early = @ \/ (op[b].at = "meta" /\ op[b].id = i)]]
  /\ UNCHANGED <<cached, blocks, serial>>

-----------------------------------------------------------------------------
(* Put: the block goes into the object cache, then its metadata into the map. *)

Put(t, k, tag) ==
  /\ MayStart(t)
  /\ IF serial THEN ~Putting(k) ELSE k \in SharedKeys
  /\ next_block_id < MaxBlocks
  /\ blocks' = [j \in DOMAIN blocks \cup {next_block_id} |->
                  IF j = next_block_id THEN [key |-> k, tag |-> tag]
                                       ELSE blocks[j]]
  /\ Go(t, [Idle EXCEPT !.at = "put", !.key = k, !.id = next_block_id, !.tag = tag])
  /\ UNCHANGED <<entries, cached, serial>>

\* ObjectCache::Put replaces the block that was there.
PutBlock(t) ==
  /\ Ready(t, "put")
  /\ cached' = [cached EXCEPT ![op[t].key] = op[t].id]
  /\ Go(t, [op[t] EXCEPT !.at = "meta", !.dead = Dying(cached[op[t].key], cached', t)])
  /\ UNCHANGED <<entries, blocks, serial>>

PutMeta(t) ==
  /\ Ready(t, "meta")
  /\ entries' = [k \in DOMAIN entries \cup {op[t].key} |->
                   IF k = op[t].key
                   THEN [id |-> op[t].id, tag |-> op[t].tag, early |-> op[t].early]
                   ELSE entries[k]]
  /\ Go(t, Idle)
  /\ UNCHANGED <<cached, blocks, serial>>

-----------------------------------------------------------------------------
(* Get: the metadata is validated, then the block is fetched. *)

\* Fault: tags are not compared.
ValidateVersionTagAny(tag, expected) == TRUE

ValidateVersionTag(tag, expected) == expected = AnyTag \/ tag = expected

\* The entry may have timed out.
Get(t, k, expected, timedOut) ==
  /\ MayStart(t)
  /\ k \in DOMAIN entries
  /\ Go(t, IF ValidateVersionTag(entries[k].tag, expected) /\ ~timedOut
           THEN [Idle EXCEPT !.at = "fetch", !.key = k, !.id = entries[k].id, !.tag = expected]
           ELSE [Idle EXCEPT !.at = "delete", !.todo = {<<k, AnyTag>>}])
  /\ UNCHANGED <<entries, cached, blocks, serial>>

GetMiss(t, k) ==
  /\ MayStart(t)
  /\ k \notin DOMAIN entries
  /\ UNCHANGED vars

Fetch(t) ==
  /\ Ready(t, "fetch")
  /\ Go(t, IF cached[op[t].key] = None THEN Idle
           ELSE [op[t] EXCEPT !.at = "pinned", !.keep = cached[op[t].key]])
  /\ UNCHANGED <<entries, cached, blocks, serial>>

\* The caller is done with the PinnedBlock.
Unpin(t) ==
  /\ Ready(t, "pinned")
  /\ Go(t, [Idle EXCEPT !.dead = Dying(op[t].keep, cached, t)])
  /\ UNCHANGED <<entries, cached, blocks, serial>>

-----------------------------------------------------------------------------
(* Delete and the two Clears: the keys are looked up, then deleted one by one
   from the object cache; the metadata goes with the blocks. *)

\* The blocks of S that a clear which starts now has to remove: Put has returned.
Settled(S) == {cached[k] : k \in {j \in S : cached[j] # None /\ ~Putting(j)}}

StartDeleting(t, S, target) ==
  /\ MayStart(t)
  /\ S # {}
  /\ Go(t, [Idle EXCEPT !.at = "delete", !.todo = S \X {AnyTag}, !.before = Settled(target)])
  /\ UNCHANGED <<entries, cached, blocks, serial>>

Delete(t, k) == StartDeleting(t, {k} \cap DOMAIN entries, {k})

Clear(t) == StartDeleting(t, DOMAIN entries, Keys)

\* Fault: the range starts behind the start key.
ClearedFromAfter(start, F) ==
  {k \in DOMAIN entries : k > start /\ \A j \in DOMAIN entries : j \in start + 1 .. k => j \in F}

ClearedFrom(start, F) ==
  {k \in DOMAIN entries : k >= start /\ \A j \in DOMAIN entries : j \in start .. k => j \in F}

\* The filter accepts the blocks of one file, which follow each other.
ClearFrom(t, start, end) ==
  LET F == Keys \cap (start .. end)
  IN  StartDeleting(t, ClearedFrom(start, F), F)

DeleteNext(t) ==
  LET p == NextOf(op[t].todo)
      k == p[1]
  IN
  /\ Ready(t, "delete")
  /\ cached' = [cached EXCEPT ![k] = None]
  /\ Go(t, [op[t] EXCEPT !.todo = @ \ {p},
                         !.at = IF op[t].todo = {p} THEN "deleted" ELSE @,
                         !.dead = Dying(cached[k], cached', t)])
  /\ UNCHANGED <<entries, blocks, serial>>

DeleteReturn(t) ==
  /\ Ready(t, "deleted")
  /\ Go(t, Idle)
  /\ UNCHANGED <<entries, cached, blocks, serial>>

-----------------------------------------------------------------------------
(* Take: a snapshot of the metadata, then the blocks one by one, each emptied
   and deleted. *)

Take(t) ==
  /\ MayStart(t)
  /\ serial => \A u \in Threads : op[u] = Idle
  /\ DOMAIN entries # {}
  /\ Go(t, [Idle EXCEPT !.at = "take", !.todo = {<<k, entries[k].tag>> : k \in DOMAIN entries}])
  /\ UNCHANGED <<entries, cached, blocks, serial>>

\* The block is fetched and its data moved into the result, under the snapshot's
\* tag.
TakeBlock(t) ==
  LET p == NextOf(op[t].todo)
      k == p[1]
      i == cached[k]
  IN
  /\ Ready(t, "take")
  /\ op[t].todo # {}
  /\ Go(t, IF i = None THEN [op[t] EXCEPT !.todo = @ \ {p}]
           ELSE [op[t] EXCEPT !.todo = @ \ {p}, !.at = "taken",
                              !.key = k, !.tag = p[2], !.keep = i])
  /\ UNCHANGED <<entries, cached, blocks, serial>>

TakeDelete(t) ==
  LET k == op[t].key IN
  /\ Ready(t, "taken")
  /\ cached' = [cached EXCEPT ![k] = None]
  /\ Go(t, [op[t] EXCEPT !.at = "release",
                         !.dead = IF cached[k] = op[t].keep THEN None
                                  ELSE Dying(cached[k], cached', t)])
  /\ UNCHANGED <<entries, blocks, serial>>

\* The end of the loop's body drops the reference.
TakeRelease(t) ==
  /\ Ready(t, "release")
  /\ Go(t, [op[t] EXCEPT !.at = "take", !.keep = None, !.dead = Dying(op[t].keep, cached, t)])
  /\ UNCHANGED <<entries, cached, blocks, serial>>

TakeReturn(t) ==
  /\ Ready(t, "take")
  /\ op[t].todo = {}
  /\ Go(t, Idle)
  /\ UNCHANGED <<entries, cached, blocks, serial>>

-----------------------------------------------------------------------------
(* DuckDB evicts a block. *)

Evict(k) ==
  /\ Ready(Evictor, "idle")
  /\ cached[k] # None
  /\ cached' = [cached EXCEPT ![k] = None]
  /\ Go(Evictor, [Idle EXCEPT !.dead = Dying(cached[k], cached', Evictor)])
  /\ UNCHANGED <<entries, blocks, serial>>

Step(t) ==
  \/ PutBlock(t) \/ PutMeta(t)
  \/ Fetch(t) \/ Unpin(t)
  \/ DeleteNext(t) \/ DeleteReturn(t)
  \/ TakeBlock(t) \/ TakeDelete(t) \/ TakeRelease(t) \/ TakeReturn(t)

Call(t) ==
  \/ \E k \in Keys : GetMiss(t, k) \/ Delete(t, k) \/ \E tag \in Tags : Put(t, k, tag)
  \/ \E k \in Keys, expected \in Tags \cup {AnyTag}, timedOut \in BOOLEAN :
       Get(t, k, expected, timedOut)
  \/ \E start, end \in Keys : start <= end /\ ClearFrom(t, start, end)
  \/ Clear(t)
  \/ Take(t)

Next ==
  \/ \E t \in Threads : Step(t) \/ Call(t)
  \/ \E a \in Actors : Destroy(a)
  \/ \E k \in Keys : Evict(k)

Spec == Init /\ [][Next]_vars

-----------------------------------------------------------------------------
(* Properties. *)

\* Get validates the metadata and fetches the block in two steps.  What it pins is
\* the block it validated, with the expected tag, or one that was put since.
HitValid ==
  \A t \in Threads :
    LET o == op[t] IN
    serial /\ o.at = "pinned" =>
      /\ o.keep >= o.id
      /\ o.keep = o.id => o.tag \in {AnyTag, blocks[o.id].tag}

Ids == DOMAIN blocks

Locations == {"idle", "put", "meta", "fetch", "pinned", "delete", "deleted",
              "take", "taken", "release"}

Operation ==
  [at : Locations, key : Keys \cup {None}, id : Ids \cup {None}, tag : Tags \cup {AnyTag},
   todo : SUBSET (Keys \X (Tags \cup {AnyTag})), keep : Ids \cup {None},
   dead : Ids \cup {None}, before : SUBSET Ids, early : BOOLEAN]

\* The type invariant.  Block ids are not reused: the block that a key, an entry
\* or an operation names is one that was made for that key.
TypeOK ==
  /\ serial \in BOOLEAN
  /\ \E n \in 0 .. MaxBlocks : Ids = 0 .. n - 1
  /\ blocks \in [Ids -> [key : Keys, tag : Tags]]
  /\ cached \in [Keys -> Ids \cup {None}]
  /\ \A k \in Keys : cached[k] # None => blocks[cached[k]].key = k
  /\ DOMAIN entries \subseteq Keys
  /\ entries \in [DOMAIN entries -> [id : Ids, tag : Tags, early : BOOLEAN]]
  /\ \A k \in DOMAIN entries : blocks[entries[k].id] = [key |-> k, tag |-> entries[k].tag]
  /\ op \in [Actors -> Operation]

\* What an operation has at hand, depending on where it is.
OperationOK(o) ==
  /\ o.at \in {"put", "meta"} => /\ o.id # None
                                 /\ blocks[o.id] = [key |-> o.key, tag |-> o.tag]
  /\ o.at = "fetch" => /\ o.key # None /\ o.id # None
                       /\ o.tag \in {AnyTag, blocks[o.id].tag}
  /\ o.at = "pinned" => o.keep # None /\ o.id # None
  /\ o.at = "delete" => o.todo # {}
  /\ o.at = "deleted" => o.todo = {}
  /\ o.at \in {"taken", "release"} => o.key # None
  /\ o.keep # None => o.at \in {"pinned", "taken", "release"}
  /\ o.at = "idle" => o = [Idle EXCEPT !.dead = o.dead]

\* The reference to a block: its key in the object cache, or an actor that keeps it
\* or has yet to run its destructor.
Referenced(i) ==
  \/ \E k \in Keys : cached[k] = i
  \/ \E a \in Actors : op[a].keep = i \/ op[a].dead = i

\* A block that Put has not stored yet is known to nobody else.
NewBlocksUnseen ==
  \A t \in Threads : op[t].at = "put" =>
    LET i == op[t].id IN
    /\ ~Referenced(i)
    /\ \A k \in DOMAIN entries : entries[k].id # i
    /\ \A a \in Actors : i \notin op[a].before
    /\ \A a \in Actors \ {t} : op[a].at \in {"put", "meta"} => op[a].id # i

\* A destructor runs when nobody can reach the block any more.
DeadUnreachable ==
  \A a \in Actors : op[a].dead # None =>
    /\ \A k \in Keys : cached[k] # op[a].dead
    /\ \A b \in Actors : op[b].keep # op[a].dead

\* Metadata that no destructor has met belongs to a block whose destructor has
\* yet to run, whether Put has stored the metadata or is about to.
MetadataBacked ==
  /\ \A k \in DOMAIN entries : entries[k].early \/ Referenced(entries[k].id)
  /\ \A t \in Threads : op[t].at = "meta" => op[t].early \/ Referenced(op[t].id)

\* When Puts of a key are kept apart, the block of the object cache is the one
\* of the metadata or of the Put that is about to store it, and blocks are
\* replaced by later ones only.
PutsInOrder ==
  /\ \A t, u \in Threads :
       op[t].at \in {"put", "meta"} /\ op[u].at \in {"put", "meta"} /\ op[t].key = op[u].key => t = u
  /\ \A t \in Threads : op[t].at \in {"put", "meta"} =>
       (op[t].key \in DOMAIN entries => entries[op[t].key].id < op[t].id)
  /\ \A t \in Threads : op[t].at = "put" =>
       /\ cached[op[t].key] # None => cached[op[t].key] < op[t].id
       /\ \A u \in Threads : op[u].at = "fetch" /\ op[u].key = op[t].key => op[u].id < op[t].id
  /\ \A t \in Threads : op[t].at = "meta" => cached[op[t].key] \in {None, op[t].id}
  /\ \A k \in Keys : cached[k] # None =>
       \/ k \in DOMAIN entries /\ entries[k].id = cached[k]
       \/ \E t \in Threads : op[t].at = "meta" /\ op[t].key = k /\ op[t].id = cached[k]
  /\ \A t \in Threads : op[t].at = "fetch" /\ cached[op[t].key] # None =>
       op[t].id <= cached[op[t].key]

\* What a clear has to remove and has not removed yet is still on its list.
ClearsOnTheWay ==
  \A t \in Threads : op[t].at \in {"delete", "deleted"} =>
    \A k \in Keys : cached[k] \in op[t].before => \E p \in op[t].todo : p[1] = k

\* The inductive invariant of the storage.
StorageInv ==
  /\ TypeOK
  /\ \A a \in Actors : OperationOK(op[a])
  /\ op[Evictor].at = "idle"
  /\ NewBlocksUnseen
  /\ DeadUnreachable
  /\ MetadataBacked
  /\ serial => PutsInOrder /\ ClearsOnTheWay /\ HitValid

Quiet == \A a \in Actors : op[a] = Idle

\* "When a cache entry is evicted from object cache, it's also removed from
\* `entries` to keep consistency and avoid memory leak."  When nothing runs, the
\* map and the object cache name the same blocks, if Puts of one key did not
\* overlap.  There is one exception: the entry of a block that was destroyed
\* before Put had stored the metadata stays behind.
\* (StorageInv, from which the rest follows, is checked with it.)
QuietAgreement ==
  /\ StorageInv
  /\ serial /\ Quiet =>
       /\ \A k \in Keys : cached[k] # None => k \in DOMAIN entries /\ entries[k].id = cached[k]
       /\ \A k \in DOMAIN entries : cached[k] = entries[k].id \/ entries[k].early

\* A destruction callback that runs late does not erase the metadata of the block
\* that replaced the destroyed one: an entry goes only with its own block, also
\* when Puts overlap.
OwnDestruction ==
  [][\A k \in DOMAIN entries : k \notin DOMAIN entries' =>
       \E a \in Actors : op[a].dead = entries[k].id /\ op'[a].dead = None]_vars

\* A clear removes every block, of the keys it is for, whose Put had returned
\* when it started, whatever is evicted, put or deleted meanwhile.
ClearRemoves ==
  \A t \in Threads : serial /\ op[t].at = "deleted" =>
    op[t].before \cap {cached[k] : k \in Keys} = {}
=============================================================================
