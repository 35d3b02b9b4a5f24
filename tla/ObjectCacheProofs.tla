-------------------------- MODULE ObjectCacheProofs --------------------------
(***************************************************************************)
(* Proofs about ObjectCacheStorage, for any number of threads, keys, tags  *)
(* and blocks: every step of Get, Put, the deletes and the destructors     *)
(* preserves StorageInv, so it is inductive, and what the storage promises *)
(* of its metadata, its hits and its clears follows from it.               *)
(***************************************************************************)
EXTENDS ObjectCacheStorage, FiniteSetTheorems, WellFoundedInduction, TLAPS

\* Block ids are numbers.
LEMMA IdsAreNumbers == TypeOK => Ids \subseteq Nat /\ None \notin Ids
  BY StorageAssumption DEF TypeOK

\* What an operation has at hand.
LEMMA OperationTypes ==
  ASSUME StorageInv, NEW a \in Actors
  PROVE  /\ op[a] \in Operation
         /\ op[a].id \in Ids \cup {None} /\ op[a].key \in Keys \cup {None}
         /\ op[a].keep \in Ids \cup {None} /\ op[a].dead \in Ids \cup {None}
         /\ op[a].before \subseteq Ids
         /\ op[a].at \in {"put", "meta", "fetch"} => op[a].id \in Ids /\ op[a].key \in Keys
  <1>1. op[a] \in Operation
    BY Zenon DEF StorageInv, TypeOK
  <1>2. /\ op[a].id \in Ids \cup {None} /\ op[a].key \in Keys \cup {None}
        /\ op[a].keep \in Ids \cup {None} /\ op[a].dead \in Ids \cup {None}
        /\ op[a].before \subseteq Ids
    BY <1>1, Zenon DEF Operation
  <1>3. CASE op[a].at \in {"put", "meta"}
    <2>0. OperationOK(op[a])
      BY Zenon DEF StorageInv
    <2>1. op[a].id \in Ids /\ blocks[op[a].id] = [key |-> op[a].key, tag |-> op[a].tag]
      BY <1>2, <1>3, <2>0, Zenon DEF OperationOK
    <2>2. blocks[op[a].id].key \in Keys
      BY <2>1, Zenon DEF StorageInv, TypeOK
    <2> QED
      BY <1>1, <1>2, <1>3, <2>1, <2>2
  <1>4. CASE op[a].at = "fetch"
    BY <1>1, <1>2, <1>4, Zenon DEF StorageInv, OperationOK
  <1> QED
    BY <1>1, <1>2, <1>3, <1>4, Zenon

\* A reference that does not depend on actor a, when the object cache is c.
HeldElsewhere(i, c, a) ==
  (\E k \in Keys : c[k] = i) \/ \E b \in Actors \ {a} : op[b].keep = i

\* Steps of one actor that store nothing new: it drops keys of the set K from the
\* object cache, gives up or takes references, and goes on to o.
LEMMA ReleaseStep ==
  ASSUME StorageInv,
         NEW a \in Actors, NEW K \in SUBSET Keys, NEW o \in Operation,
         op' = [op EXCEPT ![a] = o],
         cached' = [k \in Keys |-> IF k \in K THEN None ELSE cached[k]],
         UNCHANGED <<entries, blocks, serial>>,
         op[a].at \notin {"put", "meta"}, o.at \notin {"put", "meta"}, op[a].dead = None,
         OperationOK(o),
         a = Evictor => o.at = "idle",
         o.keep # None => o.keep = op[a].keep \/ \E k \in Keys : cached[k] = o.keep,
         o.dead # None => /\ ~HeldElsewhere(o.dead, cached', a)
                          /\ o.keep # o.dead
                          /\ Referenced(o.dead),
         \A i \in Ids : i = op[a].keep \/ (\E k \in K : cached[k] = i) =>
           o.keep = i \/ o.dead = i \/ HeldElsewhere(i, cached', a),
         o.before \subseteq op[a].before \cup {cached[k] : k \in Keys},
         serial =>
           /\ o.at = "fetch" => o.key \in DOMAIN entries /\ entries[o.key].id = o.id
           /\ o.at = "pinned" => /\ o.keep >= o.id
                                 /\ o.keep = o.id => o.tag \in {AnyTag, blocks[o.id].tag}
           /\ o.at \in {"delete", "deleted"} =>
                \A k \in Keys \ K : cached[k] \in o.before => \E p \in o.todo : p[1] = k
  PROVE  StorageInv'
  <1> USE DEF StorageInv
  <1>1. /\ op'[a] = o
        /\ \A b \in Actors \ {a} : op'[b] = op[b]
        /\ \A k \in K : cached'[k] = None
        /\ \A k \in Keys \ K : cached'[k] = cached[k]
        /\ entries' = entries /\ blocks' = blocks /\ serial' = serial
        /\ Ids' = Ids /\ None \notin Ids
    BY StorageAssumption DEF TypeOK, Ids
  <1>2. TypeOK'
    BY <1>1 DEF TypeOK, Operation, Ids
  <1>3. \A b \in Actors : OperationOK(op[b])'
    BY <1>1 DEF OperationOK
  <1>4. op'[Evictor].at = "idle"
    BY <1>1, Zenon DEF Actors
  <1>5. \A i \in Ids : Referenced(i)' => Referenced(i)
    BY <1>1 DEF Referenced
  <1>6. \A i \in Ids : Referenced(i) => Referenced(i)'
    BY <1>1 DEF Referenced, HeldElsewhere
  <1>7. \A t \in Threads : t \in Actors
    BY Zenon DEF Actors
  <1>8. NewBlocksUnseen'
    BY <1>1, <1>5, <1>7 DEF NewBlocksUnseen, TypeOK, Operation, OperationOK, Referenced
  <1>9. DeadUnreachable'
    BY <1>1 DEF DeadUnreachable, HeldElsewhere
  <1>10. MetadataBacked'
    <2>1. \A k \in DOMAIN entries : entries[k].id \in Ids
      BY Zenon DEF TypeOK
    <2>2. \A t \in Threads : op'[t].at = "meta" => op'[t] = op[t] /\ op[t].id \in Ids
      BY <1>1, <1>7, OperationTypes
    <2> QED
      BY <1>1, <1>6, <2>1, <2>2, Zenon DEF MetadataBacked
  <1>11. ASSUME serial PROVE PutsInOrder'
    <2>1. PutsInOrder
      BY <1>11, Zenon
    <2>2. \A t \in Threads : op'[t].at \in {"put", "meta"} <=> op[t].at \in {"put", "meta"}
      BY <1>1, <1>7, Zenon
    <2>3. \A t \in Threads : op[t].at \in {"put", "meta"} =>
            /\ op'[t] = op[t] /\ op[t].id \in Ids /\ op[t].key \in Keys
      BY <1>1, <1>7, OperationTypes, Zenon
    <2>4. \A i \in Ids : i \in Nat
      BY DEF TypeOK
    <2>5. \A k \in Keys : cached'[k] # None => cached'[k] = cached[k] /\ cached[k] \in Ids
      BY <1>1 DEF TypeOK
    <2>6. /\ \A t, u \in Threads :
            op'[t].at \in {"put", "meta"} /\ op'[u].at \in {"put", "meta"} /\ op'[t].key = op'[u].key => t = u
          /\ \A t \in Threads : op'[t].at \in {"put", "meta"} =>
               (op'[t].key \in DOMAIN entries' => entries'[op'[t].key].id < op'[t].id)
      BY <1>1, <2>1, <2>2, <2>3 DEF PutsInOrder
    <2>7. \A t \in Threads : op'[t].at = "put" =>
            /\ cached'[op'[t].key] # None => cached'[op'[t].key] < op'[t].id
            /\ \A u \in Threads : op'[u].at = "fetch" /\ op'[u].key = op'[t].key =>
                 op'[u].id < op'[t].id
      BY <1>1, <1>7, <1>11, <2>1, <2>2, <2>3, <2>5, SMTT(30) DEF PutsInOrder
    <2>8. \A t \in Threads : op'[t].at = "meta" => cached'[op'[t].key] \in {None, op'[t].id}
      BY <1>1, <2>1, <2>2, <2>3, <2>5, SMTT(30) DEF PutsInOrder
    <2>9. \A k \in Keys : cached'[k] # None =>
            \/ k \in DOMAIN entries' /\ entries'[k].id = cached'[k]
            \/ \E t \in Threads : op'[t].at = "meta" /\ op'[t].key = k /\ op'[t].id = cached'[k]
      BY <1>1, <2>1, <2>2, <2>3, <2>5, SMTT(30) DEF PutsInOrder
    <2>10. \A t \in Threads : op'[t].at = "fetch" /\ cached'[op'[t].key] # None =>
             op'[t].id <= cached'[op'[t].key]
      <3> SUFFICES ASSUME NEW t \in Threads, op'[t].at = "fetch", cached'[op'[t].key] # None
                   PROVE  op'[t].id <= cached'[op'[t].key]
        BY Zenon
      <3>1. CASE t # a
        <4>1. op'[t] = op[t] /\ op[t].key \in Keys
          BY <1>1, <1>7, <3>1, OperationTypes
        <4> QED
          BY <2>1, <2>5, <4>1 DEF PutsInOrder
      <3>2. CASE t = a
        <4>1. /\ o.at = "fetch" /\ o.key \in Keys /\ o.key \in DOMAIN entries
              /\ entries[o.key].id = o.id /\ o.id \in Ids
          BY <1>1, <1>11, <3>2 DEF TypeOK, OperationOK, Operation
        <4>2. cached'[o.key] = cached[o.key] /\ cached[o.key] \in Ids
          BY <1>1, <2>5, <3>2, <4>1
        <4>3. entries[o.key].id = cached[o.key] \/ entries[o.key].id < cached[o.key]
          BY <2>1, <4>1, <4>2, <1>1, SMTT(30) DEF PutsInOrder
        <4> QED
          BY <1>1, <2>4, <3>2, <4>1, <4>2, <4>3
      <3> QED
        BY <3>1, <3>2, Zenon
    <2> QED
      BY <2>6, <2>7, <2>8, <2>9, <2>10, SMTT(30) DEF PutsInOrder
  <1>12. ASSUME serial PROVE ClearsOnTheWay'
    <2> SUFFICES ASSUME NEW t \in Threads, op'[t].at \in {"delete", "deleted"},
                        NEW k \in Keys, cached'[k] \in op'[t].before
                 PROVE  \E p \in op'[t].todo : p[1] = k
      BY Zenon DEF ClearsOnTheWay
    <2>1. op'[t] \in Operation /\ None \notin op'[t].before
      BY <1>1, <1>7, Zenon DEF TypeOK, Operation
    <2>2. k \in Keys \ K /\ cached'[k] = cached[k]
      BY <1>1, <2>1, Zenon
    <2> QED
      BY <1>1, <1>7, <1>12, <2>2 DEF ClearsOnTheWay
  <1>13. ASSUME serial PROVE HitValid'
    BY <1>1, <1>7, <1>13 DEF HitValid
  <1> QED
    BY <1>1, <1>2, <1>3, <1>4, <1>8, <1>9, <1>10, <1>11, <1>12, <1>13

\* The reference that an actor gives up is its own: the block dies unless it is
\* held elsewhere.
LEMMA DyingFacts ==
  ASSUME NEW a, NEW c, NEW i
  PROVE  /\ Dying(i, c, a) \in {i, None}
         /\ Dying(i, c, a) # None => ~HeldElsewhere(i, c, a)
         /\ i # None /\ Dying(i, c, a) = None => HeldElsewhere(i, c, a)
  BY Zenon DEF Dying, Last, HeldElsewhere

\* Steps that leave the object cache alone.
LEMMA MoveStep ==
  ASSUME StorageInv, NEW t \in Threads, NEW o \in Operation,
         op' = [op EXCEPT ![t] = o],
         UNCHANGED <<entries, cached, blocks, serial>>,
         op[t].at \notin {"put", "meta"}, o.at \notin {"put", "meta"}, op[t].dead = None,
         OperationOK(o),
         \/ op[t].keep \in {None, o.keep} /\ o.dead = None
         \/ o.keep = None /\ o.dead = Dying(op[t].keep, cached, t),
         o.keep # None => o.keep = op[t].keep \/ \E k \in Keys : cached[k] = o.keep,
         o.before \subseteq op[t].before \cup {cached[k] : k \in Keys},
         serial =>
           /\ o.at = "fetch" => o.key \in DOMAIN entries /\ entries[o.key].id = o.id
           /\ o.at = "pinned" => /\ o.keep >= o.id
                                 /\ o.keep = o.id => o.tag \in {AnyTag, blocks[o.id].tag}
           /\ o.at \in {"delete", "deleted"} =>
                \A k \in Keys : cached[k] \in o.before => \E p \in o.todo : p[1] = k
  PROVE  StorageInv'
  <1>1. t \in Actors /\ t # Evictor
    BY StorageAssumption, Zenon DEF Actors
  <1>2. PICK K \in SUBSET Keys : K = {}
    BY Zenon
  <1>6. cached' = [k \in Keys |-> IF k \in K THEN None ELSE cached[k]] /\ cached' = cached
    BY <1>2, Zenon DEF StorageInv, TypeOK
  <1>7. serial =>
           /\ o.at = "fetch" => o.key \in DOMAIN entries /\ entries[o.key].id = o.id
           /\ o.at = "pinned" => /\ o.keep >= o.id
                                 /\ o.keep = o.id => o.tag \in {AnyTag, blocks[o.id].tag}
           /\ o.at \in {"delete", "deleted"} =>
                \A k \in Keys \ K : cached[k] \in o.before => \E p \in o.todo : p[1] = k
    BY Zenon
  <1>3. None \notin Ids
    BY IdsAreNumbers, Zenon DEF StorageInv
  <1>4. o.dead # None => /\ ~HeldElsewhere(o.dead, cached', t)
                         /\ o.keep # o.dead
                         /\ Referenced(o.dead)
    <2> SUFFICES ASSUME o.dead # None
                 PROVE  /\ ~HeldElsewhere(o.dead, cached, t)
                        /\ o.keep = None
                        /\ o.dead = op[t].keep
      BY <1>1, <1>6, Zenon DEF Referenced
    <2> QED
      BY DyingFacts
  <1>5. \A i \in Ids : i = op[t].keep \/ (\E k \in K : cached[k] = i) =>
          o.keep = i \/ o.dead = i \/ HeldElsewhere(i, cached', t)
    BY <1>2, <1>3, <1>6, DyingFacts
  <1> QED
    BY <1>1, <1>4, <1>5, <1>6, <1>7, ReleaseStep, Zenon

\* Steps that drop one key from the object cache.
LEMMA DropStep ==
  ASSUME StorageInv, NEW a \in Actors, NEW o \in Operation, NEW k \in Keys,
         op' = [op EXCEPT ![a] = o],
         cached' = [cached EXCEPT ![k] = None],
         UNCHANGED <<entries, blocks, serial>>,
         op[a].at \notin {"put", "meta"}, o.at \notin {"put", "meta", "fetch", "pinned"},
         op[a].dead = None,
         OperationOK(o),
         a = Evictor => o.at = "idle",
         o.keep = op[a].keep,
         o.dead = IF cached[k] = op[a].keep THEN None ELSE Dying(cached[k], cached', a),
         o.before = op[a].before,
         serial =>
           (o.at \in {"delete", "deleted"} =>
              \A j \in Keys \ {k} : cached[j] \in o.before => \E p \in o.todo : p[1] = j)
  PROVE  StorageInv'
  <1>0. PICK K \in SUBSET Keys : K = {k}
    BY Zenon
  <1>1. cached' = [j \in Keys |-> IF j \in K THEN None ELSE cached[j]]
    BY <1>0, Zenon DEF StorageInv, TypeOK
  <1>2. None \notin Ids
    BY IdsAreNumbers, Zenon DEF StorageInv
  <1>3. o.dead # None => /\ ~HeldElsewhere(o.dead, cached', a)
                         /\ o.keep # o.dead
                         /\ Referenced(o.dead)
    <2> SUFFICES ASSUME o.dead # None
                 PROVE  /\ ~HeldElsewhere(o.dead, cached', a)
                        /\ o.keep # o.dead
                        /\ o.dead = cached[k]
      BY Zenon DEF Referenced
    <2> QED
      BY DyingFacts
  <1>4. \A i \in Ids : i = op[a].keep \/ (\E j \in K : cached[j] = i) =>
          o.keep = i \/ o.dead = i \/ HeldElsewhere(i, cached', a)
    BY <1>0, <1>2, DyingFacts
  <1>5. /\ o.before \subseteq op[a].before \cup {cached[j] : j \in Keys}
        /\ o.keep # None => o.keep = op[a].keep \/ \E j \in Keys : cached[j] = o.keep
    BY Zenon
  <1>6. serial =>
           /\ o.at = "fetch" => o.key \in DOMAIN entries /\ entries[o.key].id = o.id
           /\ o.at = "pinned" => /\ o.keep >= o.id
                                 /\ o.keep = o.id => o.tag \in {AnyTag, blocks[o.id].tag}
           /\ o.at \in {"delete", "deleted"} =>
                \A j \in Keys \ K : cached[j] \in o.before => \E p \in o.todo : p[1] = j
    BY <1>0, Zenon
  <1> QED
    BY <1>1, <1>3, <1>4, <1>5, <1>6, ReleaseStep, Zenon

-----------------------------------------------------------------------------
(* Reading and deleting. *)

\* An actor that does nothing.
LEMMA IdleOK == Idle \in Operation /\ OperationOK(Idle)
  BY Zenon DEF Idle, Operation, Locations, OperationOK

\* A thread that may start an operation has nothing left from the last one.
LEMMA StartsIdle ==
  ASSUME StorageInv, NEW a \in Actors, op[a].at = "idle", op[a].dead = None
  PROVE  /\ op[a] = Idle
         /\ op[a].keep = None /\ op[a].before = {}
  <1>1. op[a] = [Idle EXCEPT !.dead = op[a].dead]
    <2>1. OperationOK(op[a])
      BY Zenon DEF StorageInv
    <2> QED
      BY <2>1, Zenon DEF OperationOK
  <1> QED
    BY <1>1, Zenon DEF Idle

\* A list that is not empty has a first key.
LEMMA NextOfIn ==
  ASSUME NEW S \in SUBSET (Keys \X (Tags \cup {AnyTag})), S # {}
  PROVE  NextOf(S) \in S /\ NextOf(S)[1] \in Keys /\ NextOf(S)[2] \in Tags \cup {AnyTag}
  <1> DEFINE T == {p[1] : p \in S}
  <1>1. T \subseteq Nat /\ T # {}
    BY StorageAssumption, Zenon
  <1>2. PICK n \in T : \A m \in T : ~(<<m, n>> \in OpToRel(<, Nat))
    BY <1>1, NatLessThanWellFounded, WFMin, Zenon
  <1>3. \A m \in T : n <= m
    <2>1. \A x, y \in Nat : x < y => <<x, y>> \in OpToRel(<, Nat)
      <3>1. OpToRel(<, Nat) = {ss \in Nat \X Nat : ss[1] < ss[2]}
        BY Zenon DEF OpToRel
      <3>2. \A x, y \in Nat : x < y => <<x, y>> \in {ss \in Nat \X Nat : ss[1] < ss[2]}
        BY Zenon
      <3> QED
        BY <3>1, <3>2, Zenon
    <2> HIDE DEF T
    <2>2. n \in Nat /\ \A m \in T : m \in Nat
      BY <1>1, <1>2, Zenon
    <2>3. \A m \in T : ~(m < n)
      BY <1>2, <2>1, <2>2, Zenon
    <2> QED
      BY <2>2, <2>3
  <1>4. \E p \in S : \A q \in S : p[1] <= q[1]
    BY <1>3, Zenon
  <1> QED
    BY <1>4, Zenon DEF NextOf

\* Get validates the metadata, or starts to delete the entry.
LEMMA GetStep ==
  ASSUME StorageInv, NEW t \in Threads, NEW k \in Keys, NEW expected \in Tags \cup {AnyTag},
         NEW timedOut \in BOOLEAN, Get(t, k, expected, timedOut)
  PROVE  StorageInv'
  <1>1. t \in Actors /\ op[t] = Idle
    BY StartsIdle, Zenon DEF Get, MayStart, Ready, Actors
  <1>2. k \in DOMAIN entries /\ entries[k].id \in Ids /\ blocks[entries[k].id].tag = entries[k].tag
    <2>1. /\ k \in DOMAIN entries
          /\ entries[k] \in [id : Ids, tag : Tags, early : BOOLEAN]
          /\ blocks[entries[k].id] = [key |-> k, tag |-> entries[k].tag]
      BY Zenon DEF Get, StorageInv, TypeOK
    <2> QED
      BY <2>1
  <1>3. None \notin Ids /\ None \notin Keys
    BY IdsAreNumbers, StorageAssumption, Zenon DEF StorageInv
  <1>4. CASE ValidateVersionTag(entries[k].tag, expected) /\ ~timedOut
    <2> DEFINE o == [Idle EXCEPT !.at = "fetch", !.key = k, !.id = entries[k].id, !.tag = expected]
    <2>1. o \in Operation
      BY <1>2, Zenon DEF Idle, Operation, Locations
    <2>2. OperationOK(o)
      BY <1>2, <1>3, <1>4, Zenon DEF Idle, OperationOK, ValidateVersionTag
    <2>3. op' = [op EXCEPT ![t] = o] /\ UNCHANGED <<entries, cached, blocks, serial>>
      BY <1>4, Zenon DEF Get, Go
    <2>4. o.at = "fetch" /\ o.key = k /\ o.id = entries[k].id /\ o.keep = None /\ o.dead = None /\ o.before = {}
      BY Zenon DEF Idle
    <2>5. op[t].at = "idle" /\ op[t].keep = None /\ op[t].dead = None
      BY <1>1 DEF Idle
    <2> HIDE DEF o
    <2> QED
      BY <1>2, <2>1, <2>2, <2>3, <2>4, <2>5, MoveStep, Zenon
  <1>5. CASE ~(ValidateVersionTag(entries[k].tag, expected) /\ ~timedOut)
    <2> DEFINE o == [Idle EXCEPT !.at = "delete", !.todo = {<<k, AnyTag>>}]
    <2>0. <<k, AnyTag>> \in Keys \X (Tags \cup {AnyTag})
      BY Zenon
    <2>1. o \in Operation
      BY <2>0, Zenon DEF Idle, Operation, Locations
    <2>2. OperationOK(o)
      BY Zenon DEF Idle, OperationOK
    <2>3. op' = [op EXCEPT ![t] = o] /\ UNCHANGED <<entries, cached, blocks, serial>>
      BY <1>5, Zenon DEF Get, Go
    <2>4. o.at = "delete" /\ o.keep = None /\ o.dead = None /\ o.before = {}
      BY Zenon DEF Idle
    <2>5. op[t].at = "idle" /\ op[t].keep = None /\ op[t].dead = None
      BY <1>1 DEF Idle
    <2> HIDE DEF o
    <2> QED
      BY <2>1, <2>2, <2>3, <2>4, <2>5, MoveStep, Zenon
  <1> QED
    BY <1>4, <1>5, Zenon

\* The block that Fetch finds under the key is not older than the validated one.
LEMMA FetchStep ==
  ASSUME StorageInv, NEW t \in Threads, Fetch(t)
  PROVE  StorageInv'
  <1>1. t \in Actors /\ op[t] \in Operation /\ op[t].at = "fetch" /\ op[t].dead = None
    BY OperationTypes, Zenon DEF Fetch, Ready, Actors
  <1>2. OperationOK(op[t])
    BY <1>1, Zenon DEF StorageInv
  <1>3. /\ op[t].key \in Keys /\ op[t].id \in Ids /\ op[t].keep = None
        /\ op[t].tag \in {AnyTag, blocks[op[t].id].tag}
    BY <1>1, <1>2, OperationTypes, Zenon DEF OperationOK
  <1>4. None \notin Ids
    BY IdsAreNumbers, Zenon DEF StorageInv
  <1>5. CASE cached[op[t].key] = None
    <2>1. op' = [op EXCEPT ![t] = Idle] /\ UNCHANGED <<entries, cached, blocks, serial>>
      BY <1>5, Zenon DEF Fetch, Go
    <2>2. Idle.at = "idle" /\ Idle.keep = None /\ Idle.dead = None /\ Idle.before = {}
      BY Zenon DEF Idle
    <2> QED
      BY <1>1, <1>3, <2>1, <2>2, IdleOK, MoveStep, Zenon
  <1>6. CASE cached[op[t].key] # None
    <2> DEFINE o == [op[t] EXCEPT !.at = "pinned", !.keep = cached[op[t].key]]
    <2>1. op' = [op EXCEPT ![t] = o] /\ UNCHANGED <<entries, cached, blocks, serial>>
      BY <1>6, Zenon DEF Fetch, Go
    <2>2. cached[op[t].key] \in Ids
      BY <1>3, <1>6, Zenon DEF StorageInv, TypeOK
    <2>3. o \in Operation
      BY <1>1, <2>2, ZenonT(60) DEF Operation, Locations
    <2>4. /\ o.at = "pinned" /\ o.keep = cached[op[t].key] /\ o.dead = None /\ o.id = op[t].id
          /\ o.tag = op[t].tag /\ o.before = op[t].before
      BY <1>1, Zenon DEF Operation
    <2>5. OperationOK(o)
      BY <1>3, <1>4, <1>6, <2>4, Zenon DEF OperationOK
    <2>6. serial => o.id <= o.keep
      BY <1>1, <1>6, <2>4, Zenon DEF StorageInv, PutsInOrder
    <2>7. o.id \in Nat /\ o.keep \in Nat
      BY <1>3, <2>2, <2>4, IdsAreNumbers, Zenon DEF StorageInv
    <2> HIDE DEF o
    <2> QED
      BY <1>1, <1>3, <2>1, <2>3, <2>4, <2>5, <2>6, <2>7, MoveStep, Zenon
  <1> QED
    BY <1>5, <1>6, Zenon

\* The caller of Get drops its reference.
LEMMA UnpinStep ==
  ASSUME StorageInv, NEW t \in Threads, Unpin(t)
  PROVE  StorageInv'
  <1> DEFINE d == Dying(op[t].keep, cached, t)
             o == [Idle EXCEPT !.dead = d]
  <1>1. t \in Actors /\ op[t].at = "pinned" /\ op[t].dead = None
    BY Zenon DEF Unpin, Ready, Actors
  <1>2. d \in Ids \cup {None}
    BY <1>1, OperationTypes, DyingFacts, Zenon
  <1>3. op' = [op EXCEPT ![t] = o] /\ UNCHANGED <<entries, cached, blocks, serial>>
    BY Zenon DEF Unpin, Go
  <1> HIDE DEF d
  <1>4. o \in Operation /\ OperationOK(o)
    BY <1>2, Zenon DEF Idle, Operation, Locations, OperationOK
  <1>5. o.at = "idle" /\ o.keep = None /\ o.dead = d /\ o.before = {}
    BY Zenon DEF Idle
  <1> HIDE DEF o
  <1> QED
    BY <1>1, <1>3, <1>4, <1>5, MoveStep, Zenon DEF d

\* Delete returns, Take returns.
LEMMA ReturnStep ==
  ASSUME StorageInv, NEW t \in Threads, DeleteReturn(t) \/ TakeReturn(t)
  PROVE  StorageInv'
  <1>1. t \in Actors /\ op[t].at \in {"deleted", "take"} /\ op[t].dead = None
    BY Zenon DEF DeleteReturn, TakeReturn, Ready, Actors
  <1>2. op[t].keep = None
    <2>1. OperationOK(op[t])
      BY <1>1, Zenon DEF StorageInv
    <2> QED
      BY <1>1, <2>1, Zenon DEF OperationOK
  <1>3. op' = [op EXCEPT ![t] = Idle] /\ UNCHANGED <<entries, cached, blocks, serial>>
    BY Zenon DEF DeleteReturn, TakeReturn, Go
  <1>4. Idle.at = "idle" /\ Idle.keep = None /\ Idle.dead = None /\ Idle.before = {}
    BY Zenon DEF Idle
  <1> QED
    BY <1>1, <1>2, <1>3, <1>4, IdleOK, MoveStep, Zenon

\* Every settled block of the target is on the list of a clear, because its
\* metadata is in the map.
LEMMA StartDeletingStep ==
  ASSUME StorageInv, NEW t \in Threads, NEW S \in SUBSET Keys, NEW target \in SUBSET Keys,
         StartDeleting(t, S, target),
         target \cap DOMAIN entries \subseteq S
  PROVE  StorageInv'
  <1>0. PICK Q, B : Q = S \X {AnyTag} /\ B = Settled(target)
    BY Zenon
  <1> DEFINE o == [Idle EXCEPT !.at = "delete", !.todo = Q, !.before = B]
  <1>1. t \in Actors /\ op[t].at = "idle" /\ op[t].dead = None
    BY Zenon DEF StartDeleting, MayStart, Ready, Actors
  <1>2. op[t].keep = None
    BY <1>1, StartsIdle, Zenon
  <1>3. op' = [op EXCEPT ![t] = o] /\ UNCHANGED <<entries, cached, blocks, serial>>
    BY <1>0, Zenon DEF StartDeleting, Go
  <1>4. B \subseteq {cached[k] : k \in Keys} /\ B \subseteq Ids
    BY <1>0 DEF Settled, StorageInv, TypeOK
  <1>5. \A k \in S : <<k, AnyTag>> \in Q /\ <<k, AnyTag>>[1] = k
    BY <1>0, Zenon
  <1>6. Q \in SUBSET (Keys \X (Tags \cup {AnyTag})) /\ Q # {}
    <2>1. \A p \in Q : p \in Keys \X (Tags \cup {AnyTag})
      BY <1>0, Zenon
    <2>2. S # {}
      BY Zenon DEF StartDeleting
    <2> QED
      BY <1>5, <2>1, <2>2, Zenon
  <1>7. ASSUME serial, NEW k \in Keys, cached[k] \in B
        PROVE  \E p \in Q : p[1] = k
    <2>1. PICK j \in target : cached[k] = cached[j] /\ cached[j] # None /\ ~Putting(j)
      BY <1>0, <1>7, Zenon DEF Settled
    <2>2. j = k
      BY <2>1, Zenon DEF StorageInv, TypeOK
    <2>3. k \in DOMAIN entries
      BY <1>7, <2>1, <2>2, Zenon DEF StorageInv, PutsInOrder, Putting
    <2>4. k \in S
      BY <2>2, <2>3, Zenon
    <2> QED
      BY <1>5, <2>4, Zenon
  <1>8. o \in Operation
    BY <1>4, <1>6, Zenon DEF Idle, Operation, Locations
  <1>9. OperationOK(o)
    BY <1>6, Zenon DEF Idle, OperationOK
  <1>10. /\ o.at = "delete" /\ o.keep = None /\ o.dead = None
         /\ o.before = B /\ o.todo = Q
    BY Zenon DEF Idle
  <1> HIDE DEF o
  <1> QED
    BY <1>1, <1>2, <1>3, <1>4, <1>7, <1>8, <1>9, <1>10, MoveStep, Zenon

\* Delete and the two Clears start with the keys that the map has.
LEMMA DeleteCalls ==
  ASSUME StorageInv, NEW t \in Threads,
         \/ \E k \in Keys : Delete(t, k)
         \/ \E start, end \in Keys : start <= end /\ ClearFrom(t, start, end)
         \/ Clear(t)
  PROVE  StorageInv'
  <1>1. DOMAIN entries \subseteq Keys
    BY Zenon DEF StorageInv, TypeOK
  <1>2. ASSUME NEW k \in Keys, Delete(t, k) PROVE StorageInv'
    BY <1>2, StartDeletingStep, Zenon DEF Delete
  <1>3. CASE Clear(t)
    BY <1>1, <1>3, StartDeletingStep, Zenon DEF Clear
  <1>4. ASSUME NEW start \in Keys, NEW end \in Keys, start <= end, ClearFrom(t, start, end)
        PROVE  StorageInv'
    <2> DEFINE F == Keys \cap (start .. end)
    <2>1. Keys \subseteq Nat
      BY StorageAssumption, Zenon
    <2>2. ClearedFrom(start, F) \in SUBSET Keys
      BY <1>1, Zenon DEF ClearedFrom
    <2>3. F \cap DOMAIN entries \subseteq ClearedFrom(start, F)
      BY <1>1, <2>1 DEF ClearedFrom
    <2> QED
      BY <1>4, <2>2, <2>3, StartDeletingStep, Zenon DEF ClearFrom
  <1> QED
    BY <1>2, <1>3, <1>4, Zenon

\* The block of the next key goes, and the key leaves the list.
LEMMA DeleteNextStep ==
  ASSUME StorageInv, NEW t \in Threads, DeleteNext(t)
  PROVE  StorageInv'
  <1>1. t \in Actors /\ op[t].at = "delete" /\ op[t].dead = None /\ t # Evictor
    BY StorageAssumption, Zenon DEF DeleteNext, Ready, Actors
  <1>2. op[t].keep = None /\ op[t].todo # {} /\ op[t].todo \in SUBSET (Keys \X (Tags \cup {AnyTag}))
    <2>1. OperationOK(op[t])
      BY <1>1, Zenon DEF StorageInv
    <2>2. op[t].keep = None /\ op[t].todo # {}
      BY <1>1, <2>1, Zenon DEF OperationOK
    <2> QED
      BY <1>1, <2>2, OperationTypes, Zenon DEF Operation
  <1>3. PICK p \in op[t].todo : p = NextOf(op[t].todo)
    BY <1>2, NextOfIn, Zenon
  <1>4. PICK k \in Keys : k = p[1]
    BY <1>2, <1>3, NextOfIn, Zenon
  <1>5. PICK d \in Ids \cup {None} : d = Dying(cached[k], cached', t)
    <2>1. cached[k] \in Ids \cup {None}
      BY Zenon DEF StorageInv, TypeOK
    <2> QED
      BY <2>1, DyingFacts, Zenon
  <1>6. PICK at \in {"delete", "deleted"} : at = IF op[t].todo = {p} THEN "deleted" ELSE "delete"
    BY Zenon
  <1>7. PICK rest : rest = op[t].todo \ {p}
    BY Zenon
  <1> DEFINE o == [op[t] EXCEPT !.todo = rest, !.at = at, !.dead = d]
  <1>8. /\ op' = [op EXCEPT ![t] = o]
        /\ cached' = [cached EXCEPT ![k] = None]
        /\ UNCHANGED <<entries, blocks, serial>>
    BY <1>1, <1>3, <1>4, <1>5, <1>6, <1>7, Zenon DEF DeleteNext, Go
  <1>9. op[t] \in Operation /\ rest \in SUBSET (Keys \X (Tags \cup {AnyTag}))
    BY <1>1, <1>2, <1>7, OperationTypes, Zenon
  <1>10. o \in Operation
    <2>1. [op[t] EXCEPT !.todo = rest] \in Operation
      BY <1>9, Zenon DEF Operation
    <2>2. [[op[t] EXCEPT !.todo = rest] EXCEPT !.at = at] \in Operation
      BY <1>6, <2>1, ZenonT(60) DEF Operation, Locations
    <2>3. [[[op[t] EXCEPT !.todo = rest] EXCEPT !.at = at] EXCEPT !.dead = d] \in Operation
      BY <1>5, <2>2, Zenon DEF Operation
    <2> QED
      BY <2>3, Zenon
  <1>11. /\ o.at = at /\ o.keep = None /\ o.dead = d /\ o.todo = rest
         /\ o.before = op[t].before
    BY <1>2, <1>9, Zenon DEF Operation
  <1>12. at = "delete" => rest # {}
    BY <1>3, <1>6, <1>7, Zenon
  <1>13. at = "deleted" => rest = {}
    BY <1>6, <1>7, Zenon
  <1> HIDE DEF o
  <1>14. OperationOK(o)
    BY <1>6, <1>11, <1>12, <1>13, Zenon DEF OperationOK
  <1>15. o.dead = IF cached[k] = op[t].keep THEN None ELSE Dying(cached[k], cached', t)
    BY <1>2, <1>5, <1>11, Zenon DEF Dying, Last
  <1>16. ASSUME serial, NEW j \in Keys \ {k}, cached[j] \in o.before
         PROVE  \E q \in o.todo : q[1] = j
    <2>1. PICK q \in op[t].todo : q[1] = j
      BY <1>1, <1>11, <1>16, Zenon DEF StorageInv, ClearsOnTheWay
    <2> QED
      BY <1>4, <1>7, <1>11, <2>1, Zenon
  <1> QED
    BY <1>1, <1>2, <1>6, <1>8, <1>10, <1>11, <1>14, <1>15, <1>16, DropStep, Zenon

-----------------------------------------------------------------------------
(* Taking and evicting. *)

\* Take notes the keys and tags of the map.
LEMMA TakeStep ==
  ASSUME StorageInv, NEW t \in Threads, Take(t)
  PROVE  StorageInv'
  <1>1. t \in Actors /\ op[t] = Idle
    BY StartsIdle, Zenon DEF Take, MayStart, Ready, Actors
  <1>2. PICK Q : Q = {<<k, entries[k].tag>> : k \in DOMAIN entries}
    BY Zenon
  <1>3. Q \in SUBSET (Keys \X (Tags \cup {AnyTag}))
    BY <1>2 DEF StorageInv, TypeOK
  <1> DEFINE o == [Idle EXCEPT !.at = "take", !.todo = Q]
  <1>4. op' = [op EXCEPT ![t] = o] /\ UNCHANGED <<entries, cached, blocks, serial>>
    BY <1>2, Zenon DEF Take, Go
  <1>5. o \in Operation /\ OperationOK(o)
    BY <1>3, Zenon DEF Idle, Operation, Locations, OperationOK
  <1>6. o.at = "take" /\ o.keep = None /\ o.dead = None /\ o.before = {}
    BY Zenon DEF Idle
  <1>7. op[t].at = "idle" /\ op[t].keep = None /\ op[t].dead = None
    BY <1>1 DEF Idle
  <1> HIDE DEF o
  <1> QED
    BY <1>1, <1>4, <1>5, <1>6, <1>7, MoveStep, Zenon

\* Take pins the block of the next key.
LEMMA TakeBlockStep ==
  ASSUME StorageInv, NEW t \in Threads, TakeBlock(t)
  PROVE  StorageInv'
  <1>1. t \in Actors /\ op[t].at = "take" /\ op[t].dead = None /\ op[t].todo # {}
    BY Zenon DEF TakeBlock, Ready, Actors
  <1>2. op[t] \in Operation /\ op[t].todo \in SUBSET (Keys \X (Tags \cup {AnyTag}))
    BY <1>1, OperationTypes, Zenon DEF Operation
  <1>3. op[t].keep = None
    <2>1. OperationOK(op[t])
      BY <1>1, Zenon DEF StorageInv
    <2> QED
      BY <1>1, <2>1, Zenon DEF OperationOK
  <1>4. PICK p \in op[t].todo : p = NextOf(op[t].todo)
    BY <1>1, <1>2, NextOfIn, Zenon
  <1>5. PICK k \in Keys, tag \in Tags \cup {AnyTag} : k = p[1] /\ tag = p[2]
    BY <1>1, <1>2, <1>4, NextOfIn, Zenon
  <1>6. PICK rest \in SUBSET (Keys \X (Tags \cup {AnyTag})) : rest = op[t].todo \ {p}
    BY <1>2, Zenon
  <1>7. UNCHANGED <<entries, cached, blocks, serial>>
    BY Zenon DEF TakeBlock
  <1>8. CASE cached[k] = None
    <2> DEFINE o == [op[t] EXCEPT !.todo = rest]
    <2>1. op' = [op EXCEPT ![t] = o]
      BY <1>4, <1>5, <1>6, <1>8, Zenon DEF TakeBlock, Go
    <2>2. o \in Operation
      BY <1>2, Zenon DEF Operation
    <2>3. o.at = "take" /\ o.keep = None /\ o.dead = None /\ o.before = op[t].before
      BY <1>1, <1>2, <1>3, Zenon DEF Operation
    <2> HIDE DEF o
    <2>4. OperationOK(o)
      BY <2>3, Zenon DEF OperationOK
    <2> QED
      BY <1>1, <1>3, <1>7, <2>1, <2>2, <2>3, <2>4, MoveStep, Zenon
  <1>9. CASE cached[k] # None
    <2>1. PICK i \in Ids : i = cached[k] /\ i # None
      BY <1>9 DEF StorageInv, TypeOK
    <2> DEFINE o == [op[t] EXCEPT !.todo = rest, !.at = "taken", !.key = k, !.tag = tag, !.keep = i]
    <2>2. op' = [op EXCEPT ![t] = o]
      BY <1>4, <1>5, <1>6, <1>9, <2>1, Zenon DEF TakeBlock, Go
    <2>3. o \in Operation
      BY <1>2, <2>1, Zenon DEF Operation, Locations
    <2>4. o.at = "taken" /\ o.keep = i /\ o.dead = None /\ o.before = op[t].before /\ o.key = k
      BY <1>1, <1>2, <1>3, Zenon DEF Operation
    <2>5. k # None
      BY StorageAssumption, Zenon
    <2> HIDE DEF o
    <2>6. OperationOK(o)
      BY <2>4, <2>5, Zenon DEF OperationOK
    <2> QED
      BY <1>1, <1>3, <1>7, <2>1, <2>2, <2>3, <2>4, <2>6, MoveStep, Zenon
  <1> QED
    BY <1>8, <1>9, Zenon

\* Take deletes the key; it still has a reference.
LEMMA TakeDeleteStep ==
  ASSUME StorageInv, NEW t \in Threads, TakeDelete(t)
  PROVE  StorageInv'
  <1>1. t \in Actors /\ op[t].at = "taken" /\ op[t].dead = None /\ t # Evictor
    BY StorageAssumption, Zenon DEF TakeDelete, Ready, Actors
  <1>2. op[t] \in Operation /\ op[t].key \in Keys
    <2>1. OperationOK(op[t])
      BY <1>1, Zenon DEF StorageInv
    <2>2. op[t].key # None
      BY <1>1, <2>1, Zenon DEF OperationOK
    <2> QED
      BY <1>1, <2>2, OperationTypes, Zenon
  <1>3. PICK k \in Keys : k = op[t].key
    BY <1>2, Zenon
  <1>4. PICK d \in Ids \cup {None} :
          d = IF cached[k] = op[t].keep THEN None ELSE Dying(cached[k], cached', t)
    <2>1. cached[k] \in Ids \cup {None}
      BY Zenon DEF StorageInv, TypeOK
    <2> QED
      BY <2>1, DyingFacts, Zenon
  <1> DEFINE o == [op[t] EXCEPT !.at = "release", !.dead = d]
  <1>5. /\ op' = [op EXCEPT ![t] = o]
        /\ cached' = [cached EXCEPT ![k] = None]
        /\ UNCHANGED <<entries, blocks, serial>>
    BY <1>3, <1>4, Zenon DEF TakeDelete, Go
  <1>6. o \in Operation
    BY <1>2, <1>4, ZenonT(60) DEF Operation, Locations
  <1>7. /\ o.at = "release" /\ o.keep = op[t].keep /\ o.dead = d /\ o.key = k
        /\ o.before = op[t].before
    BY <1>2, <1>3, Zenon DEF Operation
  <1>8. k # None
    BY StorageAssumption, Zenon
  <1> HIDE DEF o
  <1>9. OperationOK(o)
    BY <1>7, <1>8, Zenon DEF OperationOK
  <1> QED
    BY <1>1, <1>4, <1>5, <1>6, <1>7, <1>9, DropStep, Zenon

\* Take drops its reference.
LEMMA TakeReleaseStep ==
  ASSUME StorageInv, NEW t \in Threads, TakeRelease(t)
  PROVE  StorageInv'
  <1>1. t \in Actors /\ op[t].at = "release" /\ op[t].dead = None
    BY Zenon DEF TakeRelease, Ready, Actors
  <1>2. op[t] \in Operation
    BY <1>1, OperationTypes, Zenon
  <1>3. PICK d \in Ids \cup {None} : d = Dying(op[t].keep, cached, t)
    BY <1>1, OperationTypes, DyingFacts, Zenon
  <1> DEFINE o == [op[t] EXCEPT !.at = "take", !.keep = None, !.dead = d]
  <1>4. op' = [op EXCEPT ![t] = o] /\ UNCHANGED <<entries, cached, blocks, serial>>
    BY <1>3, Zenon DEF TakeRelease, Go
  <1>5. o \in Operation
    BY <1>2, <1>3, Zenon DEF Operation, Locations
  <1>6. o.at = "take" /\ o.keep = None /\ o.dead = d /\ o.before = op[t].before
    BY <1>2, Zenon DEF Operation
  <1> HIDE DEF o
  <1>7. OperationOK(o)
    BY <1>6, Zenon DEF OperationOK
  <1> QED
    BY <1>1, <1>3, <1>4, <1>5, <1>6, <1>7, MoveStep, Zenon

\* The object cache evicts a block.
LEMMA EvictStep ==
  ASSUME StorageInv, NEW k \in Keys, Evict(k)
  PROVE  StorageInv'
  <1>1. Evictor \in Actors /\ op[Evictor].at = "idle" /\ op[Evictor].dead = None
    BY Zenon DEF Evict, Ready, Actors
  <1>2. op[Evictor].keep = None /\ op[Evictor].before = {}
    BY <1>1, StartsIdle, Zenon
  <1>3. PICK d \in Ids \cup {None} : d = Dying(cached[k], cached', Evictor)
    <2>1. cached[k] \in Ids \cup {None}
      BY Zenon DEF StorageInv, TypeOK
    <2> QED
      BY <2>1, DyingFacts, Zenon
  <1> DEFINE o == [Idle EXCEPT !.dead = d]
  <1>4. /\ op' = [op EXCEPT ![Evictor] = o]
        /\ cached' = [cached EXCEPT ![k] = None]
        /\ UNCHANGED <<entries, blocks, serial>>
    BY <1>3, Zenon DEF Evict, Go
  <1>5. o \in Operation /\ OperationOK(o)
    BY <1>3, Zenon DEF Idle, Operation, Locations, OperationOK
  <1>6. o.at = "idle" /\ o.keep = None /\ o.dead = d /\ o.before = {}
    BY Zenon DEF Idle
  <1>7. cached[k] # None
    BY Zenon DEF Evict
  <1> HIDE DEF o
  <1> QED
    BY <1>1, <1>2, <1>3, <1>4, <1>5, <1>6, <1>7, DropStep, Zenon

\* The id of the next block is new.
LEMMA NextBlockId ==
  ASSUME TypeOK, next_block_id < MaxBlocks
  PROVE  /\ next_block_id \in Nat /\ next_block_id \notin Ids
         /\ \A i \in Ids : i \in Nat /\ i < next_block_id
         /\ \E n \in 0 .. MaxBlocks : Ids \cup {next_block_id} = 0 .. n - 1
  <1>1. PICK n \in 0 .. MaxBlocks : Ids = 0 .. n - 1
    BY Zenon DEF TypeOK
  <1>2. Cardinality(0 .. n - 1) = n
    <2>1. 0 \in Int /\ n - 1 \in Int /\ n \in Nat
      BY <1>1, StorageAssumption
    <2>2. Cardinality(0 .. n - 1) = IF 0 > n - 1 THEN 0 ELSE n - 1 - 0 + 1
      BY <2>1, FS_Interval, Zenon
    <2> QED
      BY <2>1, <2>2
  <1>3. next_block_id = n
    BY <1>1, <1>2, Zenon DEF next_block_id, Ids
  <1>4. n \in Nat /\ n + 1 \in 0 .. MaxBlocks
    BY <1>3, StorageAssumption
  <1>5. Ids \cup {n} = 0 .. (n + 1) - 1
    BY <1>1, <1>4
  <1> QED
    BY <1>1, <1>3, <1>4, <1>5

\* Put makes a block under a new id.
LEMMA PutStep ==
  ASSUME StorageInv, NEW t \in Threads, NEW k \in Keys, NEW tag \in Tags, Put(t, k, tag)
  PROVE  StorageInv'
  <1>1. t \in Actors /\ t # Evictor /\ op[t] = Idle
    BY StartsIdle, StorageAssumption, Zenon DEF Put, MayStart, Ready, Actors
  <1>2. PICK n : n = next_block_id
    BY Zenon
  <1>3. /\ n \in Nat /\ n \notin Ids /\ n # None
        /\ \A i \in Ids : i \in Nat /\ i < n
        /\ \E m \in 0 .. MaxBlocks : Ids \cup {n} = 0 .. m - 1
    BY <1>2, NextBlockId, StorageAssumption, Zenon DEF Put, StorageInv
  <1> DEFINE o == [Idle EXCEPT !.at = "put", !.key = k, !.id = n, !.tag = tag]
  <1>4. /\ op' = [op EXCEPT ![t] = o]
        /\ blocks' = [j \in Ids \cup {n} |-> IF j = n THEN [key |-> k, tag |-> tag] ELSE blocks[j]]
        /\ entries' = entries /\ cached' = cached /\ serial' = serial
    BY <1>2, Zenon DEF Put, Go, Ids
  <1>5. /\ Ids' = Ids \cup {n}
        /\ blocks'[n] = [key |-> k, tag |-> tag]
        /\ \A i \in Ids : blocks'[i] = blocks[i]
    BY <1>3, <1>4, Zenon DEF Ids
  <1>6. /\ o.at = "put" /\ o.key = k /\ o.id = n /\ o.tag = tag
        /\ o.keep = None /\ o.dead = None /\ o.before = {}
    BY Zenon DEF Idle
  <1>7. op[t].at = "idle" /\ op[t].keep = None /\ op[t].dead = None /\ op[t].before = {}
    BY <1>1 DEF Idle
  <1>8. o \in Operation'
    BY <1>5, Zenon DEF Idle, Operation, Locations
  <1>9. OperationOK(o)'
    BY <1>3, <1>5, <1>6, Zenon DEF OperationOK
  <1> HIDE DEF o
  <1>10. op'[t] = o /\ \A a \in Actors \ {t} : op'[a] = op[a]
    BY <1>1, <1>4, Zenon DEF StorageInv, TypeOK
  <1>11. \A a \in Actors : op[a] \in Operation'
    <2>1. \A a \in Actors : op[a] \in Operation
      BY Zenon DEF StorageInv, TypeOK
    <2> QED
      BY <1>5, <2>1, Zenon DEF Operation
  <1>12. TypeOK'
    <2>1. op' \in [Actors -> Operation']
      BY <1>4, <1>8, <1>10, <1>11, Zenon DEF StorageInv, TypeOK
    <2>2. \E m \in 0 .. MaxBlocks : Ids' = 0 .. m - 1
      BY <1>3, <1>5, Zenon
    <2>3. blocks' \in [Ids' -> [key : Keys, tag : Tags]]
      BY <1>4, <1>5, Zenon DEF StorageInv, TypeOK
    <2>4. /\ cached' \in [Keys -> Ids' \cup {None}]
          /\ \A j \in Keys : cached'[j] # None => blocks'[cached'[j]].key = j
      BY <1>4, <1>5, Zenon DEF StorageInv, TypeOK
    <2>5. /\ DOMAIN entries' \subseteq Keys
          /\ entries' \in [DOMAIN entries' -> [id : Ids', tag : Tags, early : BOOLEAN]]
      BY <1>4, <1>5, Zenon DEF StorageInv, TypeOK
    <2>6. \A j \in DOMAIN entries' : blocks'[entries'[j].id] = [key |-> j, tag |-> entries'[j].tag]
      BY <1>4, <1>5, Zenon DEF StorageInv, TypeOK
    <2>7. serial' \in BOOLEAN
      BY <1>4, Zenon DEF StorageInv, TypeOK
    <2> QED
      BY <2>1, <2>2, <2>3, <2>4, <2>5, <2>6, <2>7, Zenon DEF TypeOK
  <1>13. \A a \in Actors : OperationOK(op[a])'
    <2> SUFFICES ASSUME NEW a \in Actors, a # t PROVE OperationOK(op[a])'
      BY <1>9, <1>10, Zenon
    <2>1. OperationOK(op[a]) /\ op[a].id \in Ids \cup {None}
      BY OperationTypes, Zenon DEF StorageInv
    <2>2. op'[a] = op[a] /\ op[a].id # None => blocks'[op[a].id] = blocks[op[a].id]
      BY <1>5, <1>10, <2>1, Zenon
    <2> QED
      BY <1>10, <2>1, <2>2, Zenon DEF OperationOK
  <1>14. \A i : i # None => (Referenced(i)' <=> Referenced(i))
    BY <1>1, <1>4, <1>6, <1>7, <1>10, Zenon DEF Referenced
  <1>15. \A a \in Actors : a # t =>
           /\ op[a].at \in {"put", "meta", "fetch", "pinned"} => op[a].id \in Ids
           /\ op[a].keep # n /\ op[a].dead # n /\ n \notin op[a].before
    <2> SUFFICES ASSUME NEW a \in Actors
                 PROVE  /\ op[a].at \in {"put", "meta", "fetch", "pinned"} => op[a].id \in Ids
                        /\ op[a].keep # n /\ op[a].dead # n /\ n \notin op[a].before
      BY Zenon
    <2>1. OperationOK(op[a])
      BY Zenon DEF StorageInv
    <2>2. op[a].at = "pinned" => op[a].id # None
      BY <2>1, Zenon DEF OperationOK
    <2> QED
      BY <1>3, <2>2, OperationTypes, Zenon
  <1>16. ~Referenced(n) /\ \A j \in DOMAIN entries : entries[j].id # n /\ entries[j].id \in Ids
    BY <1>1, <1>3, <1>7, <1>15 DEF Referenced, StorageInv, TypeOK
  <1>17. Threads \subseteq Actors
    BY Zenon DEF Actors
  <1>18. NewBlocksUnseen'
    <2> SUFFICES ASSUME NEW u \in Threads, op'[u].at = "put"
                 PROVE  /\ ~Referenced(op[u].id)'
                        /\ \A j \in DOMAIN entries' : entries'[j].id # op'[u].id
                        /\ \A a \in Actors : op'[u].id \notin op'[a].before
                        /\ \A a \in Actors \ {u} : op'[a].at \in {"put", "meta"} => op'[a].id # op'[u].id
      BY Zenon DEF NewBlocksUnseen
    <2>1. CASE u = t
      <3>1. op'[u].id = n
        BY <1>6, <1>10, <2>1, Zenon
      <3> QED
        BY <1>3, <1>4, <1>6, <1>10, <1>14, <1>15, <1>16, <2>1, <3>1
    <2>2. CASE u # t
      <3>1. op'[u] = op[u] /\ op[u].id \in Ids /\ op[u].id # None
        BY <1>3, <1>10, <1>15, <1>17, <2>2, IdsAreNumbers, Zenon DEF StorageInv
      <3>2. /\ ~Referenced(op[u].id)
            /\ \A j \in DOMAIN entries : entries[j].id # op[u].id
            /\ \A a \in Actors : op[u].id \notin op[a].before
            /\ \A a \in Actors \ {u} : op[a].at \in {"put", "meta"} => op[a].id # op[u].id
        BY <3>1, Zenon DEF StorageInv, NewBlocksUnseen
      <3> QED
        BY <1>3, <1>4, <1>6, <1>10, <1>14, <3>1, <3>2, Zenon
    <2> QED
      BY <2>1, <2>2, Zenon
  <1>19. DeadUnreachable'
    BY <1>4, <1>6, <1>10, <1>17, <1>1, <1>7 DEF DeadUnreachable, StorageInv
  <1>20. MetadataBacked'
    <2>1. None \notin Ids
      BY IdsAreNumbers, Zenon DEF StorageInv
    <2>2. \A j \in DOMAIN entries' : entries'[j].early \/ Referenced(entries[j].id)'
      BY <1>4, <1>14, <1>16, <2>1, Zenon DEF MetadataBacked, StorageInv
    <2>3. \A u \in Threads : op'[u].at = "meta" => op'[u].early \/ Referenced(op[u].id)'
      BY <1>6, <1>10, <1>14, <1>15, <1>17, <2>1, Zenon DEF MetadataBacked, StorageInv
    <2> QED
      BY <2>2, <2>3, Zenon DEF MetadataBacked
  <1>21. ASSUME serial PROVE PutsInOrder'
    <2>1. PutsInOrder /\ \A u \in Threads : op[u].at \in {"put", "meta"} => op[u].key # k
      BY <1>21, Zenon DEF StorageInv, Put, Putting
    <2>2. \A u \in Threads : u # t => op'[u] = op[u]
      BY <1>10, <1>17, Zenon
    <2>3. /\ cached[k] # None => cached[k] < n
          /\ k \in DOMAIN entries => entries[k].id < n
      BY <1>3, <1>16, Zenon DEF StorageInv, TypeOK
    <2>4. \A u \in Threads : op'[u].at = "fetch" => op'[u] = op[u] /\ op[u].id < n
      BY <1>3, <1>6, <1>10, <1>15, <1>17, Zenon
    <2> HIDE DEF StorageInv
    <2>5. \A u, v \in Threads :
            op'[u].at \in {"put", "meta"} /\ op'[v].at \in {"put", "meta"} /\ op'[u].key = op'[v].key => u = v
      BY <1>6, <1>10, <2>1, <2>2 DEF PutsInOrder
    <2>6. \A u \in Threads : op'[u].at \in {"put", "meta"} =>
            (op'[u].key \in DOMAIN entries' => entries'[op'[u].key].id < op'[u].id)
      BY <1>4, <1>6, <1>10, <2>1, <2>2, <2>3 DEF PutsInOrder
    <2>7. \A u \in Threads : op'[u].at = "put" =>
            /\ cached'[op'[u].key] # None => cached'[op'[u].key] < op'[u].id
            /\ \A v \in Threads : op'[v].at = "fetch" /\ op'[v].key = op'[u].key =>
                 op'[v].id < op'[u].id
      BY <1>4, <1>6, <1>10, <2>1, <2>2, <2>3, <2>4 DEF PutsInOrder
    <2>8. \A u \in Threads : op'[u].at = "meta" => cached'[op'[u].key] \in {None, op'[u].id}
      BY <1>4, <1>6, <1>10, <2>1, <2>2 DEF PutsInOrder
    <2>9. \A j \in Keys : cached'[j] # None =>
            \/ j \in DOMAIN entries' /\ entries'[j].id = cached'[j]
            \/ \E u \in Threads : op'[u].at = "meta" /\ op'[u].key = j /\ op'[u].id = cached'[j]
      BY <1>4, <1>7, <2>1, <2>2 DEF PutsInOrder
    <2>10. \A u \in Threads : op'[u].at = "fetch" /\ cached'[op'[u].key] # None =>
             op'[u].id <= cached'[op'[u].key]
      BY <1>4, <2>1, <2>4 DEF PutsInOrder
    <2> QED
      BY <2>5, <2>6, <2>7, <2>8, <2>9, <2>10, Zenon DEF PutsInOrder
  <1>22. ASSUME serial PROVE ClearsOnTheWay'
    <2>1. ClearsOnTheWay /\ cached' = cached
      BY <1>4, <1>22, Zenon DEF StorageInv
    <2>2. \A u \in Threads : op'[u].at \in {"delete", "deleted"} => op'[u] = op[u]
      BY <1>6, <1>10, <1>17, Zenon
    <2> QED
      BY <2>1, <2>2 DEF ClearsOnTheWay
  <1>23. ASSUME serial PROVE HitValid'
    BY <1>4, <1>5, <1>6, <1>10, <1>15, <1>17, <1>23 DEF HitValid, StorageInv
  <1>24. op'[Evictor].at = "idle"
    BY <1>1, <1>10, Zenon DEF StorageInv, Actors
  <1> QED
    BY <1>4, <1>12, <1>13, <1>18, <1>19, <1>20, <1>21, <1>22, <1>23, <1>24, Zenon DEF StorageInv

\* The new block takes the place of the one before it.
LEMMA PutBlockStep ==
  ASSUME StorageInv, NEW t \in Threads, PutBlock(t)
  PROVE  StorageInv'
  <1>1. t \in Actors /\ t # Evictor /\ op[t].at = "put" /\ op[t].dead = None
    BY StorageAssumption, Zenon DEF PutBlock, Ready, Actors
  <1>2. op[t] \in Operation /\ op[t].id \in Ids /\ op[t].key \in Keys
    BY <1>1, OperationTypes, Zenon
  <1>3. op[t].keep = None /\ blocks[op[t].id] = [key |-> op[t].key, tag |-> op[t].tag]
    <2>1. OperationOK(op[t])
      BY <1>1, Zenon DEF StorageInv
    <2> QED
      BY <1>1, <2>1, Zenon DEF OperationOK
  <1>4. PICK k \in Keys, i \in Ids : k = op[t].key /\ i = op[t].id
    BY <1>2, Zenon
  <1>5. PICK d \in Ids \cup {None} : d = Dying(cached[k], cached', t)
    <2>1. cached[k] \in Ids \cup {None}
      BY Zenon DEF StorageInv, TypeOK
    <2> QED
      BY <2>1, DyingFacts, Zenon
  <1> DEFINE o == [op[t] EXCEPT !.at = "meta", !.dead = d]
  <1>6. op' = [op EXCEPT ![t] = o] /\ cached' = [cached EXCEPT ![k] = i]
        /\ entries' = entries /\ blocks' = blocks /\ serial' = serial
    BY <1>4, <1>5, Zenon DEF PutBlock, Go
  <1>7. o \in Operation
    BY <1>2, <1>5, Zenon DEF Operation, Locations
  <1>8. /\ o.at = "meta" /\ o.keep = None /\ o.dead = d /\ o.key = k /\ o.id = i
        /\ o.before = op[t].before /\ o.tag = op[t].tag
    BY <1>2, <1>3, <1>4, Zenon DEF Operation
  <1> HIDE DEF o
  <1>9. /\ op'[t] = o /\ \A a \in Actors \ {t} : op'[a] = op[a]
        /\ cached'[k] = i /\ \A j \in Keys \ {k} : cached'[j] = cached[j]
        /\ Ids' = Ids /\ None \notin Ids
        /\ Threads \subseteq Actors
    BY <1>1, <1>4, <1>6, IdsAreNumbers, Zenon DEF StorageInv, TypeOK, Ids, Actors
  <1>10. /\ ~Referenced(i)
         /\ \A j \in DOMAIN entries : entries[j].id # i
         /\ \A a \in Actors : i \notin op[a].before
         /\ \A a \in Actors \ {t} : op[a].at \in {"put", "meta"} => op[a].id # i
    BY <1>1, <1>4, Zenon DEF StorageInv, NewBlocksUnseen
  <1>11. TypeOK'
    <2>1. op' \in [Actors -> Operation']
      <3>1. Operation' = Operation
        BY <1>9, Zenon DEF Operation
      <3> QED
        BY <1>6, <1>7, <3>1, Zenon DEF StorageInv, TypeOK
    <2>2. /\ cached' \in [Keys -> Ids' \cup {None}]
          /\ \A j \in Keys : cached'[j] # None => blocks'[cached'[j]].key = j
      BY <1>3, <1>4, <1>6, <1>9 DEF StorageInv, TypeOK
    <2> QED
      BY <1>6, <1>9, <2>1, <2>2, Zenon DEF StorageInv, TypeOK
  <1>12. \A a \in Actors : OperationOK(op[a])'
    <2>1. \A a \in Actors : OperationOK(op[a])
      BY Zenon DEF StorageInv
    <2>2. OperationOK(o)
      BY <1>3, <1>4, <1>8, <1>9, Zenon DEF OperationOK
    <2> QED
      BY <1>6, <1>9, <2>1, <2>2 DEF OperationOK
  <1>13. \A x \in Ids : x # i => (Referenced(x)' => Referenced(x))
    BY <1>5, <1>8, <1>9, DyingFacts DEF Referenced
  <1>14. \A x \in Ids : Referenced(x) => Referenced(x)'
    <2> SUFFICES ASSUME NEW x \in Ids, Referenced(x) PROVE Referenced(x)'
      BY Zenon
    <2>1. CASE x # cached[k]
      BY <1>1, <1>3, <1>9, <2>1 DEF Referenced
    <2>2. CASE x = cached[k] /\ d = None
      <3>1. HeldElsewhere(x, cached', t)
        BY <1>5, <1>9, <2>2, DyingFacts, Zenon
      <3> QED
        BY <1>9, <3>1, Zenon DEF HeldElsewhere, Referenced
    <2>3. CASE x = cached[k] /\ d # None
      BY <1>1, <1>5, <1>8, <1>9, <2>3, DyingFacts DEF Referenced
    <2> QED
      BY <2>1, <2>2, <2>3, Zenon
  <1>15. NewBlocksUnseen'
    <2> SUFFICES ASSUME NEW u \in Threads, op'[u].at = "put"
                 PROVE  /\ ~Referenced(op[u].id)'
                        /\ \A j \in DOMAIN entries' : entries'[j].id # op'[u].id
                        /\ \A a \in Actors : op'[u].id \notin op'[a].before
                        /\ \A a \in Actors \ {u} : op'[a].at \in {"put", "meta"} => op'[a].id # op'[u].id
      BY Zenon DEF NewBlocksUnseen
    <2>1. u # t /\ u \in Actors /\ op'[u] = op[u] /\ op[u].at = "put" /\ op[u].id \in Ids
      BY <1>8, <1>9, OperationTypes
    <2>2. /\ ~Referenced(op[u].id)
          /\ \A j \in DOMAIN entries : entries[j].id # op[u].id
          /\ \A a \in Actors : op[u].id \notin op[a].before
          /\ \A a \in Actors \ {u} : op[a].at \in {"put", "meta"} => op[a].id # op[u].id
      BY <2>1, Zenon DEF StorageInv, NewBlocksUnseen
    <2>3. op[u].id # i
      <3>1. t # u /\ op[t].at \in {"put", "meta"}
        BY <1>1, <2>1, Zenon
      <3> QED
        BY <1>1, <1>4, <2>2, <3>1, Zenon
    <2> QED
      BY <1>1, <1>4, <1>6, <1>8, <1>9, <1>13, <2>1, <2>2, <2>3
  <1>16. DeadUnreachable'
    <2>1. \A a \in Actors : op[a].dead # i /\ op[a].keep # i
      BY <1>10, Zenon DEF Referenced
    <2>2. d # None => ~HeldElsewhere(d, cached', t)
      BY <1>5, DyingFacts
    <2>3. \A a \in Actors : op[a].dead # None =>
            /\ \A j \in Keys : cached[j] # op[a].dead
            /\ \A b \in Actors : op[b].keep # op[a].dead
      BY Zenon DEF StorageInv, DeadUnreachable
    <2> QED
      BY <1>1, <1>8, <1>9, <2>1, <2>2, <2>3 DEF DeadUnreachable, HeldElsewhere
  <1>17. MetadataBacked'
    <2>1. \A j \in DOMAIN entries : entries[j].id \in Ids
      BY Zenon DEF StorageInv, TypeOK
    <2>2. \A j \in DOMAIN entries' : entries'[j].early \/ Referenced(entries[j].id)'
      BY <1>6, <1>14, <2>1, Zenon DEF StorageInv, MetadataBacked
    <2>3. Referenced(i)'
      BY <1>9, Zenon DEF Referenced
    <2>4. \A u \in Threads : u # t => op'[u] = op[u] /\ (op[u].at = "meta" => op[u].id \in Ids)
      BY <1>9, OperationTypes, Zenon
    <2>5. \A u \in Threads : op'[u].at = "meta" => op'[u].early \/ Referenced(op[u].id)'
      BY <1>8, <1>9, <1>14, <2>3, <2>4 DEF StorageInv, MetadataBacked
    <2> QED
      BY <2>2, <2>5, Zenon DEF MetadataBacked
  <1>18. ASSUME serial PROVE PutsInOrder'
    <2>1. PutsInOrder
      BY <1>18, Zenon DEF StorageInv
    <2>2. \A u \in Threads : u # t => op'[u] = op[u]
      BY <1>9, Zenon
    <2>3. \A u \in Threads : u # t /\ op[u].at \in {"put", "meta"} =>
            op[u].key # k /\ op[u].key \in Keys
      BY <1>1, <1>4, <1>9, <2>1, OperationTypes, Zenon DEF PutsInOrder
    <2>4. \A u \in Threads : op'[u].at = "fetch" => op'[u] = op[u] /\ op[u].key \in Keys /\ op[u].id \in Nat
      BY <1>8, <1>9, OperationTypes, IdsAreNumbers DEF StorageInv
    <2>5. \A u, v \in Threads :
            op'[u].at \in {"put", "meta"} /\ op'[v].at \in {"put", "meta"} /\ op'[u].key = op'[v].key => u = v
      <3>1. \A u \in Threads : op'[u].at \in {"put", "meta"} =>
              op[u].at \in {"put", "meta"} /\ op'[u].key = op[u].key
        BY <1>1, <1>4, <1>8, <1>9, <2>2, Zenon
      <3> QED
        BY <2>1, <3>1 DEF PutsInOrder
    <2>6. \A u \in Threads : op'[u].at \in {"put", "meta"} =>
            (op'[u].key \in DOMAIN entries' => entries'[op'[u].key].id < op'[u].id)
      BY <1>1, <1>4, <1>6, <1>8, <1>9, <2>1, <2>2, SMTT(30) DEF PutsInOrder
    <2>7. \A u \in Threads : op'[u].at = "put" =>
            /\ cached'[op'[u].key] # None => cached'[op'[u].key] < op'[u].id
            /\ \A v \in Threads : op'[v].at = "fetch" /\ op'[v].key = op'[u].key =>
                 op'[v].id < op'[u].id
      <3> SUFFICES ASSUME NEW u \in Threads, op'[u].at = "put"
                   PROVE  /\ cached'[op'[u].key] # None => cached'[op'[u].key] < op'[u].id
                          /\ \A v \in Threads : op'[v].at = "fetch" /\ op'[v].key = op'[u].key =>
                               op'[v].id < op'[u].id
        BY Zenon
      <3>1. u # t /\ op'[u] = op[u] /\ op[u].at = "put"
        BY <1>8, <1>9, <2>2, Zenon
      <3>2. cached'[op[u].key] = cached[op[u].key]
        BY <1>9, <2>3, <3>1, Zenon
      <3>3. /\ cached[op[u].key] # None => cached[op[u].key] < op[u].id
            /\ \A v \in Threads : op[v].at = "fetch" /\ op[v].key = op[u].key => op[v].id < op[u].id
        BY <2>1, <3>1, Zenon DEF PutsInOrder
      <3> QED
        BY <2>4, <3>1, <3>2, <3>3, Zenon
    <2>8. \A u \in Threads : op'[u].at = "meta" => cached'[op'[u].key] \in {None, op'[u].id}
      BY <1>8, <1>9, <2>1, <2>2, <2>3 DEF PutsInOrder
    <2>9. \A j \in Keys : cached'[j] # None =>
            \/ j \in DOMAIN entries' /\ entries'[j].id = cached'[j]
            \/ \E u \in Threads : op'[u].at = "meta" /\ op'[u].key = j /\ op'[u].id = cached'[j]
      BY <1>1, <1>6, <1>8, <1>9, <2>1, <2>2 DEF PutsInOrder
    <2>10. \A u \in Threads : op'[u].at = "fetch" /\ cached'[op'[u].key] # None =>
             op'[u].id <= cached'[op'[u].key]
      <3>1. i \in Nat
        BY IdsAreNumbers, Zenon DEF StorageInv
      <3>2. \A u \in Threads : op[u].at = "fetch" /\ op[u].key = k => op[u].id < i
        BY <1>1, <1>4, <2>1, Zenon DEF PutsInOrder
      <3>3. \A u \in Threads : op[u].at = "fetch" /\ cached[op[u].key] # None =>
              op[u].id <= cached[op[u].key]
        BY <2>1, Zenon DEF PutsInOrder
      <3> QED
        BY <1>9, <2>4, <3>1, <3>2, <3>3
    <2> QED
      BY <2>5, <2>6, <2>7, <2>8, <2>9, <2>10, Zenon DEF PutsInOrder
  <1>19. ASSUME serial PROVE ClearsOnTheWay'
    <2> SUFFICES ASSUME NEW u \in Threads, op'[u].at \in {"delete", "deleted"},
                        NEW j \in Keys, cached'[j] \in op'[u].before
                 PROVE  \E p \in op'[u].todo : p[1] = j
      BY Zenon DEF ClearsOnTheWay
    <2>1. u \in Actors /\ u # t /\ op'[u] = op[u]
      BY <1>8, <1>9, Zenon
    <2>2. cached'[j] = cached[j]
      BY <1>9, <1>10, <2>1, Zenon
    <2> QED
      BY <1>19, <2>1, <2>2 DEF ClearsOnTheWay, StorageInv
  <1>20. ASSUME serial PROVE HitValid'
    BY <1>6, <1>8, <1>9, <1>20 DEF HitValid, StorageInv
  <1>21. op'[Evictor].at = "idle"
    BY <1>1, <1>9, Zenon DEF StorageInv, Actors
  <1> QED
    BY <1>6, <1>11, <1>12, <1>15, <1>16, <1>17, <1>18, <1>19, <1>20, <1>21, Zenon DEF StorageInv

\* The metadata of the new block takes the place of the entry before it.
LEMMA PutMetaStep ==
  ASSUME StorageInv, NEW t \in Threads, PutMeta(t)
  PROVE  StorageInv'
  <1>1. t \in Actors /\ t # Evictor /\ op[t].at = "meta" /\ op[t].dead = None
    BY StorageAssumption, Zenon DEF PutMeta, Ready, Actors
  <1>2. /\ op[t].id \in Ids /\ op[t].key \in Keys
        /\ op[t].early \in BOOLEAN
    BY <1>1, OperationTypes, Zenon DEF Operation
  <1>3. op[t].keep = None /\ blocks[op[t].id] = [key |-> op[t].key, tag |-> op[t].tag]
    <2>1. OperationOK(op[t])
      BY <1>1, Zenon DEF StorageInv
    <2> QED
      BY <1>1, <2>1, Zenon DEF OperationOK
  <1>4. PICK k \in Keys, i \in Ids, tag \in Tags :
          k = op[t].key /\ i = op[t].id /\ tag = op[t].tag /\ blocks[i] = [key |-> k, tag |-> tag]
    <2>1. blocks[op[t].id].tag \in Tags
      BY <1>2, Zenon DEF StorageInv, TypeOK
    <2> QED
      BY <1>2, <1>3, <2>1
  <1> DEFINE e == [id |-> i, tag |-> tag, early |-> op[t].early]
  <1>5. /\ entries' = [j \in DOMAIN entries \cup {k} |-> IF j = k THEN e ELSE entries[j]]
        /\ op' = [op EXCEPT ![t] = Idle]
        /\ cached' = cached /\ blocks' = blocks /\ serial' = serial
    BY <1>4, Zenon DEF PutMeta, Go
  <1>6. /\ op'[t] = Idle /\ \A a \in Actors \ {t} : op'[a] = op[a]
        /\ DOMAIN entries' = DOMAIN entries \cup {k}
        /\ entries'[k].id = i /\ entries'[k].tag = tag /\ entries'[k].early = op[t].early
        /\ entries'[k] \in [id : Ids, tag : Tags, early : BOOLEAN]
        /\ \A j \in DOMAIN entries \ {k} : entries'[j] = entries[j]
        /\ Ids' = Ids /\ None \notin Ids
        /\ Threads \subseteq Actors
    BY <1>1, <1>2, <1>5, IdsAreNumbers, SMTT(30) DEF StorageInv, TypeOK, Ids, Actors
  <1>7. Idle.at = "idle" /\ Idle.keep = None /\ Idle.dead = None /\ Idle.before = {}
    BY Zenon DEF Idle
  <1> HIDE DEF e
  <1>8. TypeOK'
    <2>1. op' \in [Actors -> Operation']
      <3>1. Operation' = Operation
        BY <1>6, Zenon DEF Operation
      <3> QED
        BY <1>5, <3>1, IdleOK, Zenon DEF StorageInv, TypeOK
    <2>2. /\ DOMAIN entries' \subseteq Keys
          /\ entries' \in [DOMAIN entries' -> [id : Ids', tag : Tags, early : BOOLEAN]]
      BY <1>5, <1>6, Zenon DEF StorageInv, TypeOK
    <2>3. \A j \in DOMAIN entries' : blocks'[entries'[j].id] = [key |-> j, tag |-> entries'[j].tag]
      BY <1>4, <1>5, <1>6, Zenon DEF StorageInv, TypeOK
    <2> QED
      BY <1>5, <1>6, <2>1, <2>2, <2>3, Zenon DEF StorageInv, TypeOK
  <1>9. \A a \in Actors : OperationOK(op[a])'
    <2>1. \A a \in Actors : OperationOK(op[a])
      BY Zenon DEF StorageInv
    <2> QED
      BY <1>5, <1>6, <2>1, IdleOK DEF OperationOK
  <1>10. \A x \in Ids : Referenced(x)' <=> Referenced(x)
    <2>1. \A a \in Actors : op'[a].keep = op[a].keep /\ op'[a].dead = op[a].dead
      BY <1>1, <1>3, <1>6, <1>7, Zenon
    <2>2. cached' = cached
      BY <1>5, Zenon
    <2> QED
      BY <2>1, <2>2, Zenon DEF Referenced
  <1>11. NewBlocksUnseen'
    <2> SUFFICES ASSUME NEW u \in Threads, op'[u].at = "put"
                 PROVE  /\ ~Referenced(op[u].id)'
                        /\ \A j \in DOMAIN entries' : entries'[j].id # op'[u].id
                        /\ \A a \in Actors : op'[u].id \notin op'[a].before
                        /\ \A a \in Actors \ {u} :
                             op'[a].at \in {"put", "meta"} => op'[a].id # op'[u].id
      BY Zenon DEF NewBlocksUnseen
    <2>1. u # t /\ u \in Actors /\ op'[u] = op[u] /\ op[u].at = "put" /\ op[u].id \in Ids
      BY <1>6, <1>7, OperationTypes, Zenon
    <2>2. /\ ~Referenced(op[u].id)
          /\ \A j \in DOMAIN entries : entries[j].id # op[u].id
          /\ \A a \in Actors : op[u].id \notin op[a].before
          /\ \A a \in Actors \ {u} : op[a].at \in {"put", "meta"} => op[a].id # op[u].id
      BY <2>1, Zenon DEF StorageInv, NewBlocksUnseen
    <2>3. op[u].id # i
      BY <1>1, <1>4, <2>1, <2>2, Zenon
    <2> QED
      BY <1>6, <1>7, <1>10, <2>1, <2>2, <2>3, Zenon
  <1>12. DeadUnreachable'
    BY <1>1, <1>3, <1>5, <1>6, <1>7 DEF DeadUnreachable, StorageInv
  <1>13. MetadataBacked'
    <2>1. \A j \in DOMAIN entries : entries[j].id \in Ids
      BY Zenon DEF StorageInv, TypeOK
    <2>2. op[t].early \/ Referenced(i)
      BY <1>1, <1>4, Zenon DEF StorageInv, MetadataBacked
    <2>3. \A j \in DOMAIN entries' : entries'[j].early \/ Referenced(entries[j].id)'
      BY <1>6, <1>10, <2>1, <2>2, Zenon DEF StorageInv, MetadataBacked
    <2>4. \A u \in Threads : op'[u].at = "meta" => u # t /\ op'[u] = op[u] /\ op[u].id \in Ids
      BY <1>6, <1>7, OperationTypes, Zenon
    <2>5. \A u \in Threads : op'[u].at = "meta" => op'[u].early \/ Referenced(op[u].id)'
      BY <1>10, <2>4, Zenon DEF StorageInv, MetadataBacked
    <2> QED
      BY <2>3, <2>5, Zenon DEF MetadataBacked
  <1>14. ASSUME serial PROVE PutsInOrder'
    <2>1. PutsInOrder
      BY <1>14, Zenon DEF StorageInv
    <2>2. \A u \in Threads : op'[u].at # "idle" => u # t /\ op'[u] = op[u]
      BY <1>6, <1>7, Zenon
    <2>3. \A u \in Threads : u # t /\ op[u].at \in {"put", "meta"} => op[u].key # k
      BY <1>1, <1>4, <2>1, Zenon DEF PutsInOrder
    <2>4. cached[k] \in {None, i}
      BY <1>1, <1>4, <2>1, Zenon DEF PutsInOrder
    <2>5. \A u, v \in Threads :
            op'[u].at \in {"put", "meta"} /\ op'[v].at \in {"put", "meta"}
            /\ op'[u].key = op'[v].key => u = v
      BY <2>1, <2>2 DEF PutsInOrder
    <2>6. \A u \in Threads : op'[u].at \in {"put", "meta"} =>
            (op'[u].key \in DOMAIN entries' => entries'[op'[u].key].id < op'[u].id)
      BY <1>6, <2>1, <2>2, <2>3 DEF PutsInOrder
    <2>7. \A u \in Threads : op'[u].at = "put" =>
            /\ cached'[op'[u].key] # None => cached'[op'[u].key] < op'[u].id
            /\ \A v \in Threads : op'[v].at = "fetch" /\ op'[v].key = op'[u].key =>
                 op'[v].id < op'[u].id
      BY <1>5, <2>1, <2>2 DEF PutsInOrder
    <2>8. \A u \in Threads : op'[u].at = "meta" => cached'[op'[u].key] \in {None, op'[u].id}
      BY <1>5, <2>1, <2>2 DEF PutsInOrder
    <2>9. \A j \in Keys : cached'[j] # None =>
            \/ j \in DOMAIN entries' /\ entries'[j].id = cached'[j]
            \/ \E u \in Threads : op'[u].at = "meta" /\ op'[u].key = j /\ op'[u].id = cached'[j]
      <3>0. cached' = cached /\ k \in DOMAIN entries' /\ (cached[k] # None => entries'[k].id = cached[k])
        BY <1>5, <1>6, <2>4, Zenon
      <3> SUFFICES ASSUME NEW j \in Keys, j # k, cached[j] # None
                   PROVE  \/ j \in DOMAIN entries' /\ entries'[j].id = cached[j]
                          \/ \E u \in Threads : /\ op'[u].at = "meta" /\ op'[u].key = j
                                                 /\ op'[u].id = cached[j]
        BY <3>0, Zenon
      <3>1. CASE j \in DOMAIN entries /\ entries[j].id = cached[j]
        BY <1>6, <3>1, Zenon
      <3>2. ASSUME NEW u \in Threads, op[u].at = "meta", op[u].key = j, op[u].id = cached[j]
            PROVE  op'[u].at = "meta" /\ op'[u].key = j /\ op'[u].id = cached[j]
        BY <1>4, <1>6, <3>2, Zenon
      <3> QED
        BY <2>1, <3>1, <3>2 DEF PutsInOrder
    <2>10. \A u \in Threads : op'[u].at = "fetch" /\ cached'[op'[u].key] # None =>
             op'[u].id <= cached'[op'[u].key]
      BY <1>5, <2>1, <2>2, ZenonT(60) DEF PutsInOrder
    <2> QED
      BY <2>5, <2>6, <2>7, <2>8, <2>9, <2>10, Zenon DEF PutsInOrder
  <1>15. ASSUME serial PROVE ClearsOnTheWay'
    BY <1>5, <1>6, <1>7, <1>15 DEF ClearsOnTheWay, StorageInv
  <1>16. ASSUME serial PROVE HitValid'
    BY <1>5, <1>6, <1>7, <1>16 DEF HitValid, StorageInv
  <1>17. op'[Evictor].at = "idle"
    BY <1>1, <1>6, Zenon DEF StorageInv, Actors
  <1> QED
    BY <1>5, <1>8, <1>9, <1>11, <1>12, <1>13, <1>14, <1>15, <1>16, <1>17, Zenon DEF StorageInv

-----------------------------------------------------------------------------
(* Destructors. *)

\* What the destructor of block i removes is the entry of i.
LEMMA DestroyStep ==
  ASSUME StorageInv, NEW a \in Actors, Destroy(a)
  PROVE  StorageInv'
  <1>1. PICK i \in Ids : i = op[a].dead /\ i # None
    BY OperationTypes, Zenon DEF Destroy
  <1>2. PICK k \in Keys : k = blocks[i].key
    BY Zenon DEF StorageInv, TypeOK
  <1>3. /\ entries' = IF k \in DOMAIN entries /\ entries[k].id = i
                      THEN [j \in DOMAIN entries \ {k} |-> entries[j]]
                      ELSE entries
        /\ op' = [b \in Actors |->
                    [op[b] EXCEPT !.dead = IF b = a THEN None ELSE @,
                                  !.early = @ \/ (op[b].at = "meta" /\ op[b].id = i)]]
    BY <1>1, <1>2, Zenon DEF Destroy, OnEntryDestroyed
  <1>3a. cached' = cached /\ blocks' = blocks /\ serial' = serial
    BY Zenon DEF Destroy
  <1>4. \A j \in DOMAIN entries : entries[j].id = i => j = k
    <2> SUFFICES ASSUME NEW j \in DOMAIN entries, entries[j].id = i PROVE j = k
      BY Zenon
    <2>1. blocks[entries[j].id] = [key |-> j, tag |-> entries[j].tag]
      BY Zenon DEF StorageInv, TypeOK
    <2> QED
      BY <1>2, <2>1
  <1>5. /\ DOMAIN entries' = {j \in DOMAIN entries : entries[j].id # i}
        /\ \A j \in DOMAIN entries' : entries'[j] = entries[j]
        /\ entries' = [j \in DOMAIN entries' |-> entries'[j]]
    BY <1>3, <1>4, Zenon DEF StorageInv, TypeOK
  <1>6. \A b \in Actors : op[b] \in Operation
    BY Zenon DEF StorageInv, TypeOK
  <1>7. \A b \in Actors :
          /\ op'[b].at = op[b].at /\ op'[b].key = op[b].key /\ op'[b].id = op[b].id
          /\ op'[b].tag = op[b].tag /\ op'[b].todo = op[b].todo /\ op'[b].keep = op[b].keep
          /\ op'[b].before = op[b].before
          /\ b = a => op'[b].dead = None
          /\ b # a => op'[b].dead = op[b].dead
    BY <1>3, <1>6, Zenon DEF Operation
  <1>8. \A b \in Actors :
          /\ op'[b].early \in BOOLEAN
          /\ op[b].early \/ (op[b].at = "meta" /\ op[b].id = i) => op'[b].early
          /\ op[b].at = "idle" => op'[b].early = op[b].early
    BY <1>3, <1>6, Zenon DEF Operation
  <1>9. \A b \in Actors : op'[b] \in Operation
    <2> SUFFICES ASSUME NEW b \in Actors PROVE op'[b] \in Operation
      BY Zenon
    <2>1. PICK d \in Ids \cup {None}, y \in BOOLEAN : op'[b] = [op[b] EXCEPT !.dead = d, !.early = y]
      BY <1>3, <1>6, Zenon DEF Operation
    <2> QED
      BY <1>6, <2>1, Zenon DEF Operation
  <1>10. Ids' = Ids /\ None \notin Ids /\ Threads \subseteq Actors
    BY <1>3a, IdsAreNumbers, Zenon DEF StorageInv, Ids, Actors
  <1>11. TypeOK'
    <2>1. Operation' = Operation
      BY <1>10, Zenon DEF Operation
    <2>2. op' \in [Actors -> Operation']
      BY <1>3, <1>9, <2>1, Zenon
    <2>3. /\ DOMAIN entries' \subseteq Keys
          /\ entries' \in [DOMAIN entries' -> [id : Ids', tag : Tags, early : BOOLEAN]]
          /\ \A j \in DOMAIN entries' : blocks'[entries'[j].id] = [key |-> j, tag |-> entries'[j].tag]
      BY <1>3a, <1>5, <1>10, Zenon DEF StorageInv, TypeOK
    <2> QED
      BY <1>3a, <1>10, <2>2, <2>3, Zenon DEF StorageInv, TypeOK
  <1>12. \A b \in Actors : OperationOK(op[b])'
    <2> SUFFICES ASSUME NEW b \in Actors PROVE OperationOK(op[b])'
      BY Zenon
    <2>1. OperationOK(op[b])
      BY Zenon DEF StorageInv
    <2>2. op'[b].at = "idle" => op'[b] = [Idle EXCEPT !.dead = op'[b].dead]
      <3> SUFFICES ASSUME op[b].at = "idle" PROVE op'[b] = [Idle EXCEPT !.dead = op'[b].dead]
        BY <1>7, Zenon
      <3>1. op[b] = [Idle EXCEPT !.dead = op[b].dead]
        BY <2>1, Zenon DEF OperationOK
      <3>2. op[b].early = FALSE /\ op'[b].early = FALSE
        BY <1>8, <3>1, Zenon DEF Idle
      <3>3. PICK d : d = op'[b].dead /\ op'[b] = [op[b] EXCEPT !.dead = d, !.early = FALSE]
        BY <1>3, <1>6, <1>7, <3>2, Zenon DEF Operation
      <3>4. PICK c : op[b] = [Idle EXCEPT !.dead = c]
        BY <3>1, Zenon
      <3>5. [[Idle EXCEPT !.dead = c] EXCEPT !.dead = d] = [Idle EXCEPT !.dead = d]
        BY Zenon DEF Idle
      <3>6. [[Idle EXCEPT !.dead = d] EXCEPT !.early = FALSE] = [Idle EXCEPT !.dead = d]
        <4>1. PICK g : g = [Idle EXCEPT !.dead = d]
          BY Zenon
        <4>2. g.early = FALSE
          BY <4>1, Zenon DEF Idle
        <4>3. g = [x \in DOMAIN g |-> g[x]]
          BY <4>1, Zenon
        <4>4. [g EXCEPT !.early = g.early] = g
          BY <4>3, Zenon
        <4> QED
          BY <4>1, <4>2, <4>4, Zenon
      <3>7. op'[b] = [[op[b] EXCEPT !.dead = d] EXCEPT !.early = FALSE]
        BY <3>3, Zenon
      <3> QED
        BY <3>3, <3>4, <3>5, <3>6, <3>7, Zenon
    <2> QED
      BY <1>3a, <1>7, <2>1, <2>2, Zenon DEF OperationOK
  <1>13. \A x \in Ids : /\ Referenced(x)' => Referenced(x)
                        /\ Referenced(x) /\ x # i => Referenced(x)'
    BY <1>1, <1>3a, <1>7, <1>10 DEF Referenced
  <1>14. NewBlocksUnseen'
    <2> SUFFICES ASSUME NEW u \in Threads, op'[u].at = "put"
                 PROVE  /\ ~Referenced(op[u].id)'
                        /\ \A j \in DOMAIN entries' : entries'[j].id # op'[u].id
                        /\ \A b \in Actors : op'[u].id \notin op'[b].before
                        /\ \A b \in Actors \ {u} :
                             op'[b].at \in {"put", "meta"} => op'[b].id # op'[u].id
      BY Zenon DEF NewBlocksUnseen
    <2>1. u \in Actors /\ op'[u].id = op[u].id /\ op[u].at = "put" /\ op[u].id \in Ids
      BY <1>7, <1>10, OperationTypes, Zenon
    <2>2. /\ ~Referenced(op[u].id)
          /\ \A j \in DOMAIN entries : entries[j].id # op[u].id
          /\ \A b \in Actors : op[u].id \notin op[b].before
          /\ \A b \in Actors \ {u} : op[b].at \in {"put", "meta"} => op[b].id # op[u].id
      BY <2>1, Zenon DEF StorageInv, NewBlocksUnseen
    <2> QED
      BY <1>5, <1>7, <1>13, <2>1, <2>2
  <1>15. DeadUnreachable'
    BY <1>3a, <1>7 DEF DeadUnreachable, StorageInv
  <1>16. MetadataBacked'
    <2>1. \A j \in DOMAIN entries : entries[j].id \in Ids
      BY Zenon DEF StorageInv, TypeOK
    <2>2. \A j \in DOMAIN entries' : entries'[j].early \/ Referenced(entries[j].id)'
      BY <1>5, <1>13, <2>1, Zenon DEF StorageInv, MetadataBacked
    <2>3. \A u \in Threads : op[u].at = "meta" => u \in Actors /\ op[u].id \in Ids
      BY <1>10, OperationTypes, Zenon
    <2>4. \A u \in Threads : op'[u].at = "meta" => op'[u].early \/ Referenced(op[u].id)'
      BY <1>7, <1>8, <1>10, <1>13, <2>3, Zenon DEF StorageInv, MetadataBacked
    <2> QED
      BY <2>2, <2>4, Zenon DEF MetadataBacked
  <1>17. ASSUME serial PROVE PutsInOrder'
    <2>1. PutsInOrder
      BY <1>17, Zenon DEF StorageInv
    <2>2. \A j \in Keys : cached[j] # i
      BY <1>1, Zenon DEF StorageInv, DeadUnreachable
    <2>3. \A u \in Threads : op'[u].at = op[u].at /\ op'[u].key = op[u].key /\ op'[u].id = op[u].id
      BY <1>7, <1>10, Zenon
    <2> QED
      BY <1>3a, <1>5, <2>1, <2>2, <2>3 DEF PutsInOrder
  <1>18. ASSUME serial PROVE ClearsOnTheWay'
    <2>1. ClearsOnTheWay /\ cached' = cached
      BY <1>3a, <1>18, Zenon DEF StorageInv
    <2>2. \A u \in Threads : /\ op'[u].at = op[u].at /\ op'[u].before = op[u].before
                             /\ op'[u].todo = op[u].todo
      BY <1>7, <1>10, Zenon
    <2> QED
      BY <2>1, <2>2 DEF ClearsOnTheWay
  <1>19. ASSUME serial PROVE HitValid'
    <2>1. HitValid /\ blocks' = blocks /\ serial' = serial
      BY <1>3a, <1>19, Zenon DEF StorageInv
    <2>2. \A u \in Threads : /\ op'[u].at = op[u].at /\ op'[u].keep = op[u].keep
                             /\ op'[u].id = op[u].id /\ op'[u].tag = op[u].tag
      BY <1>7, <1>10, Zenon
    <2> QED
      BY <2>1, <2>2, Zenon DEF HitValid
  <1>20. op'[Evictor].at = "idle"
    BY <1>7, Zenon DEF StorageInv, Actors
  <1> QED
    BY <1>3a, <1>11, <1>12, <1>14, <1>15, <1>16, <1>17, <1>18, <1>19, <1>20, Zenon DEF StorageInv

-----------------------------------------------------------------------------
(* The theorems. *)

\* The storage starts empty.
LEMMA InitStorage == Init => StorageInv
  <1> SUFFICES ASSUME Init PROVE StorageInv
    BY Zenon
  <1>1. /\ DOMAIN entries = {} /\ Ids = {} /\ serial \in BOOLEAN
        /\ \A k \in Keys : cached[k] = None
        /\ \A a \in Actors : op[a] = Idle
        /\ Threads \subseteq Actors /\ Evictor \in Actors
    BY Zenon DEF Init, Ids, Actors
  <1>2. /\ Idle.at = "idle" /\ Idle.keep = None /\ Idle.dead = None
    BY Zenon DEF Idle
  <1>3. TypeOK
    <2>1. 0 \in 0 .. MaxBlocks /\ Ids = 0 .. 0 - 1
      BY <1>1, StorageAssumption
    <2>2. blocks \in [Ids -> [key : Keys, tag : Tags]]
      BY Zenon DEF Init, Ids
    <2>3. entries \in [DOMAIN entries -> [id : Ids, tag : Tags, early : BOOLEAN]]
      BY Zenon DEF Init
    <2>4. op \in [Actors -> Operation] /\ cached \in [Keys -> Ids \cup {None}]
      BY IdleOK, Zenon DEF Init
    <2> QED
      BY <1>1, <2>1, <2>2, <2>3, <2>4, Zenon DEF TypeOK
  <1>4. /\ \A a \in Actors : OperationOK(op[a])
        /\ op[Evictor].at = "idle"
    BY <1>1, <1>2, IdleOK, Zenon
  <1>5. NewBlocksUnseen /\ DeadUnreachable /\ MetadataBacked
    BY <1>1, <1>2, Zenon DEF NewBlocksUnseen, DeadUnreachable, MetadataBacked
  <1>6. PutsInOrder /\ ClearsOnTheWay /\ HitValid
    BY <1>1, <1>2, Zenon DEF PutsInOrder, ClearsOnTheWay, HitValid
  <1> QED
    BY <1>3, <1>4, <1>5, <1>6, Zenon DEF StorageInv

\* A step that changes nothing.
LEMMA StutterStep == StorageInv /\ UNCHANGED vars => StorageInv'
  BY SMTT(30)
     DEF StorageInv, vars, TypeOK, Ids, Operation, OperationOK, NewBlocksUnseen, Referenced,
         DeadUnreachable, MetadataBacked, PutsInOrder, ClearsOnTheWay, HitValid

\* Every step preserves the invariant.
LEMMA NextStep == StorageInv /\ [Next]_vars => StorageInv'
  <1> SUFFICES ASSUME StorageInv, [Next]_vars PROVE StorageInv'
    BY Zenon
  <1>1. CASE UNCHANGED vars
    BY <1>1, StutterStep, Zenon
  <1>2. ASSUME NEW t \in Threads, Step(t) PROVE StorageInv'
    BY <1>2, PutBlockStep, PutMetaStep, FetchStep, UnpinStep, DeleteNextStep, ReturnStep,
       TakeBlockStep, TakeDeleteStep, TakeReleaseStep, Zenon DEF Step
  <1>3. ASSUME NEW t \in Threads, Call(t) PROVE StorageInv'
    <2>1. ASSUME NEW k \in Keys, GetMiss(t, k) PROVE StorageInv'
      BY <2>1, StutterStep, Zenon DEF GetMiss
    <2>2. ASSUME NEW k \in Keys, NEW tag \in Tags, Put(t, k, tag) PROVE StorageInv'
      BY <2>2, PutStep, Zenon
    <2>3. ASSUME NEW k \in Keys, NEW expected \in Tags \cup {AnyTag}, NEW timedOut \in BOOLEAN,
                 Get(t, k, expected, timedOut)
          PROVE  StorageInv'
      BY <2>3, GetStep, Zenon
    <2>4. CASE \/ \E k \in Keys : Delete(t, k)
               \/ \E start, end \in Keys : start <= end /\ ClearFrom(t, start, end)
               \/ Clear(t)
      BY <2>4, DeleteCalls, Zenon
    <2>5. CASE Take(t)
      BY <2>5, TakeStep, Zenon
    <2> QED
      BY <1>3, <2>1, <2>2, <2>3, <2>4, <2>5, Zenon DEF Call
  <1>4. ASSUME NEW a \in Actors, Destroy(a) PROVE StorageInv'
    BY <1>4, DestroyStep, Zenon
  <1>5. ASSUME NEW k \in Keys, Evict(k) PROVE StorageInv'
    BY <1>5, EvictStep
  <1> QED
    BY <1>1, <1>2, <1>3, <1>4, <1>5, Zenon DEF Next

\* The invariant of the storage: a destructor runs when nobody can reach its block,
\* metadata is backed by a block or was overtaken by its destructor, and, when Puts
\* of a key are kept apart, blocks and metadata are replaced in the same order.
THEOREM StorageInvariant == Spec => []StorageInv
  BY InitStorage, NextStep, PTL DEF Spec

\* The map of metadata agrees with the object cache when nothing runs: the comment
\* on `entries` in object_cache_data_cache_storage.hpp, for Puts of one key that do
\* not overlap.
THEOREM Agreement == Spec => []QuietAgreement
  <1>1. StorageInv => QuietAgreement
    <2> SUFFICES ASSUME StorageInv, serial, Quiet
                 PROVE  /\ \A k \in Keys : cached[k] # None =>
                             k \in DOMAIN entries /\ entries[k].id = cached[k]
                        /\ \A k \in DOMAIN entries : cached[k] = entries[k].id \/ entries[k].early
      BY Zenon DEF QuietAgreement
    <2>1. \A a \in Actors : op[a].at = "idle" /\ op[a].keep = None /\ op[a].dead = None
      BY DEF Quiet, Idle
    <2>2. \A k \in Keys : cached[k] # None => k \in DOMAIN entries /\ entries[k].id = cached[k]
      BY <2>1, Zenon DEF StorageInv, PutsInOrder, Actors
    <2>3. ASSUME NEW k \in DOMAIN entries, ~entries[k].early PROVE cached[k] = entries[k].id
      <3>1. k \in Keys /\ entries[k].id \in Ids /\ entries[k].id # None
        BY IdsAreNumbers, Zenon DEF StorageInv, TypeOK
      <3>2. PICK j \in Keys : cached[j] = entries[k].id
        <4>1. MetadataBacked
          BY Zenon DEF StorageInv
        <4>2. Referenced(entries[k].id)
          BY <2>3, <4>1, Zenon DEF MetadataBacked
        <4> QED
          BY <2>1, <3>1, <4>2, Zenon DEF Referenced
      <3>3. blocks[entries[k].id].key = k
        <4>1. blocks[entries[k].id] = [key |-> k, tag |-> entries[k].tag]
          BY Zenon DEF StorageInv, TypeOK
        <4> QED
          BY <4>1
      <3>4. blocks[cached[j]].key = j
        BY <3>1, <3>2, Zenon DEF StorageInv, TypeOK
      <3> QED
        BY <3>2, <3>3, <3>4, Zenon
    <2> QED
      BY <2>2, <2>3, Zenon
  <1> QED
    BY <1>1, StorageInvariant, PTL

\* Get returns the block it validated or a later one, though it validates the
\* metadata and fetches the block in two steps.
THEOREM ValidHits == Spec => []HitValid
  <1>1. StorageInv => HitValid
    BY Zenon DEF StorageInv, HitValid
  <1> QED
    BY <1>1, StorageInvariant, PTL

\* Delete and the two Clears remove every block whose Put had returned.
THEOREM CompleteClears == Spec => []ClearRemoves
  <1>1. StorageInv => ClearRemoves
    <2> SUFFICES ASSUME StorageInv, NEW t \in Threads, serial, op[t].at = "deleted",
                        NEW k \in Keys, cached[k] \in op[t].before
                 PROVE  FALSE
      BY Zenon DEF ClearRemoves
    <2>1. OperationOK(op[t])
      BY Zenon DEF StorageInv, Actors
    <2>2. op[t].todo = {}
      BY <2>1, Zenon DEF OperationOK
    <2> QED
      BY <2>2, Zenon DEF StorageInv, ClearsOnTheWay
  <1> QED
    BY <1>1, StorageInvariant, PTL

\* OnEntryDestroyed erases the metadata of the destroyed block only, also when Puts
\* of a key overlap and destructors run late.
THEOREM OwnDestructions == Spec => OwnDestruction
  <1> DEFINE Own == \A k \in DOMAIN entries : k \notin DOMAIN entries' =>
                      \E a \in Actors : op[a].dead = entries[k].id /\ op'[a].dead = None
  <1>1. ASSUME StorageInv, [Next]_vars PROVE [Own]_vars
    <2> SUFFICES ASSUME Next PROVE Own
      BY <1>1, Zenon
    <2>1. ASSUME NEW t \in Threads, Step(t) \/ Call(t) PROVE DOMAIN entries \subseteq DOMAIN entries'
      BY <2>1, Zenon
         DEF Step, Call, PutBlock, PutMeta, Fetch, Unpin, DeleteNext, DeleteReturn, TakeBlock,
         TakeDelete, TakeRelease, TakeReturn, GetMiss, Delete, Put, Get, ClearFrom, Clear, Take,
         StartDeleting, vars
    <2>2. ASSUME NEW k \in Keys, Evict(k) PROVE entries' = entries
      BY <2>2, Zenon DEF Evict
    <2>3. ASSUME NEW a \in Actors, Destroy(a) PROVE Own
      <3>1. PICK i : i = op[a].dead
        BY Zenon
      <3>2. op'[a].dead = None
        <4>1. op[a] \in Operation
          BY <1>1, OperationTypes, Zenon
        <4> QED
          BY <2>3, <4>1, Zenon DEF Destroy, Operation
      <3>3. \A k \in DOMAIN entries : k \notin DOMAIN entries' => entries[k].id = i
        BY <2>3, <3>1, Zenon DEF Destroy, OnEntryDestroyed
      <3> QED
        BY <3>1, <3>2, <3>3, Zenon
    <2> QED
      BY <2>1, <2>2, <2>3, Zenon DEF Next
  <1> QED
    BY <1>1, StorageInvariant, PTL DEF Spec, OwnDestruction
==============================================================================
