----------------------- MODULE PolicyDataCacheStorage -----------------------
(***************************************************************************)
(* The byte-bounded in-memory storage (policy_data_cache_storage.cpp): the *)
(* entries are split into groups by file, each with its own replacement    *)
(* policy and its own share of the budget.  Every operation holds the      *)
(* storage's mutex from beginning to end, so each is one action.           *)
(***************************************************************************)
EXTENDS EvictionPolicy

LOCAL INSTANCE Functions
LOCAL INSTANCE FiniteSetsExt
LOCAL INSTANCE SequencesExt

CONSTANTS
  Keys,        \* InMemCacheBlocks, as numbers 10 * file + block
  BytesOf,     \* key -> the bytes its chunk occupies
  Tags,        \* version tags
  NoTag,       \* the empty expected_version_tag: no validation
  Configs,     \* the settings to check: the parameters of the constructor
  SizeLimit    \* 2^64: idx_t sums wrap around

ASSUME PolicyAssumption ==
  /\ Keys \subseteq Nat /\ BytesOf \in [Keys -> Nat \ {0}] /\ NoTag \notin Tags
  /\ SizeLimit \in Nat \ {0}

FileOf(k) == k \div 10

Policies == {"lru", "fifo", "clock", "mru"}

-----------------------------------------------------------------------------
(* ParseFilePolicySpec and the constructor. *)

\* The bytes of a group: a count, a percentage of the budget, or 0 if not given.
SizeIn(e, max_bytes) ==
  CASE e.unit = "none"    -> 0
    [] e.unit = "bytes"   -> e.size
    [] e.unit = "percent" -> (max_bytes * e.size) \div 100

EntryAccepted(e, max_bytes) ==
  /\ e.policy \in Policies
  /\ e.unit = "percent" => e.size \in 1 .. 100
  /\ e.unit # "none" => SizeIn(e, max_bytes) > 0

PolicyEntries(c) == IF c.per_file_scope THEN c.file_policies ELSE <<>>

ExplicitBytes(c) ==
  FoldLeft(LAMBDA sum, e : (sum + SizeIn(e, c.max_bytes)) % SizeLimit, 0, PolicyEntries(c))

\* What the groups without a size get each, the catch-all included.
Share(c) ==
  IF c.max_bytes = 0 THEN 0
  ELSE (c.max_bytes - ExplicitBytes(c))
         \div (1 + Len(SelectSeq(PolicyEntries(c), LAMBDA e : e.unit = "none")))

\* Otherwise the constructor throws, and there is no storage.
Accepted(c) ==
  /\ c.default_policy \in Policies
  /\ \A e \in ToSet(PolicyEntries(c)) : EntryAccepted(e, c.max_bytes)
  /\ c.max_bytes > 0 => ExplicitBytes(c) <= c.max_bytes

NewGroup(c, pattern, name, capacity) ==
  [pattern |-> pattern, name |-> name, bounded |-> c.max_bytes > 0,
   capacity_bytes |-> capacity, used_bytes |-> 0, entries |-> <<>>, policy |-> EmptyPolicy]

\* One group per entry, and the catch-all at the end.
GroupsOf(c) ==
  LET entries == PolicyEntries(c) IN
  [n \in 1 .. Len(entries) + 1 |->
     IF n > Len(entries) THEN NewGroup(c, {}, c.default_policy, Share(c))
     ELSE LET e == entries[n] IN
          NewGroup(c, e.pattern, e.policy,
                   IF e.unit = "none" THEN Share(c) ELSE SizeIn(e, c.max_bytes))]

VARIABLES config, groups

vars == <<config, groups>>

Init == config \in {c \in Configs : Accepted(c)} /\ groups = GroupsOf(config)

\* The first group whose pattern matches the path of the file.
GroupFor(f) ==
  Min({n \in DOMAIN groups : f \in groups[n].pattern} \cup {Len(groups)})

-----------------------------------------------------------------------------
(* Steps of the operations, on one group. *)

\* Fault: the policy is not told.
EraseUntold(g, k) ==
  IF k \notin DOMAIN g.entries THEN g
  ELSE [g EXCEPT !.used_bytes = @ - g.entries[k].bytes,
                 !.entries = Restrict(@, DOMAIN @ \ {k})]

\* An entry leaves, other than by eviction.
Erase(g, k) ==
  IF k \notin DOMAIN g.entries THEN g
  ELSE [g EXCEPT !.used_bytes = @ - g.entries[k].bytes,
                 !.entries = Restrict(@, DOMAIN @ \ {k}),
                 !.policy = OnErase(g.name, @, k)]

\* Fault: the bytes of the victim stay in the account.
EvictOneUncounted(g, pop) ==
  [g EXCEPT !.policy = pop.policy, !.entries = Restrict(@, DOMAIN @ \ pop.victim)]

\* One iteration of EvictToFit; a victim without an entry only leaves the policy.
EvictOne(g, pop) ==
  LET gone == pop.victim \cap DOMAIN g.entries IN
  [g EXCEPT !.policy = pop.policy,
            !.used_bytes = @ - MapThenSumSet(LAMBDA k : g.entries[k].bytes, gone),
            !.entries = Restrict(@, DOMAIN @ \ gone)]

\* Fault: one entry too many goes.
EvictToFitStrictly(g, needed) ==
  LET rounds[n \in 0 .. Len(g.policy.order)] ==
        IF n = 0 THEN [group |-> g, over |-> g.bounded]
        ELSE LET r == rounds[n - 1]
                 pop == PopVictim(r.group.name, r.group.policy)
             IN  IF ~r.over \/ r.group.used_bytes + needed < r.group.capacity_bytes THEN r
                 ELSE [group |-> EvictOne(r.group, pop), over |-> pop.victim # {}]
  IN  rounds[Len(g.policy.order)].group

\* Victims go until the new entry fits, or the policy has none.
EvictToFit(g, needed) ==
  LET rounds[n \in 0 .. Len(g.policy.order)] ==
        IF n = 0 THEN [group |-> g, over |-> g.bounded]
        ELSE LET r == rounds[n - 1]
                 pop == PopVictim(r.group.name, r.group.policy)
             IN  IF ~r.over \/ r.group.used_bytes + needed <= r.group.capacity_bytes THEN r
                 ELSE [group |-> EvictOne(r.group, pop), over |-> pop.victim # {}]
  IN  rounds[Len(g.policy.order)].group

Insert(g, k, tag) ==
  [g EXCEPT !.used_bytes = @ + BytesOf[k],
            !.entries = [j \in DOMAIN @ \cup {k} |->
                           IF j = k THEN [bytes |-> BytesOf[k], tag |-> tag, age |-> 0] ELSE @[j]],
            !.policy = OnInsert(g.name, @, k)]

\* Expired: the age is kept up to the timeout.
IsExpired(e) == config.timeout_millisec > 0 /\ e.age >= config.timeout_millisec

-----------------------------------------------------------------------------
(* The operations. *)

\* An entry larger than its whole group is not admitted; an older entry of the
\* same key stays.  Otherwise it replaces that entry.
Put(k, tag) ==
  LET n == GroupFor(FileOf(k))
      g == groups[n]
  IN  /\ groups' =
           IF g.bounded /\ BytesOf[k] > g.capacity_bytes THEN groups
           ELSE [groups EXCEPT ![n] = Insert(EvictToFit(Erase(g, k), BytesOf[k]), k, tag)]
      /\ UNCHANGED config

\* A hit is told to the policy.  An entry that is expired, or has another tag than
\* the expected one, leaves.
Get(k, expected) ==
  LET n == GroupFor(FileOf(k))
      g == groups[n]
  IN  /\ k \in DOMAIN g.entries
      /\ groups' =
           [groups EXCEPT ![n] =
              IF IsExpired(g.entries[k]) \/ expected \notin {NoTag, g.entries[k].tag}
              THEN Erase(g, k)
              ELSE [g EXCEPT !.policy = OnHit(g.name, @, k)]]
      /\ UNCHANGED config

Delete(k) ==
  /\ groups' = [groups EXCEPT ![GroupFor(FileOf(k))] = Erase(@, k)]
  /\ UNCHANGED config

Emptied(g) == [g EXCEPT !.used_bytes = 0, !.entries = <<>>, !.policy = EmptyPolicy]

Clear ==
  /\ groups' = [n \in DOMAIN groups |-> Emptied(groups[n])]
  /\ UNCHANGED config

Take ==
  /\ groups' = [n \in DOMAIN groups |-> Emptied(groups[n])]
  /\ UNCHANGED config

\* Clear(start_key, filter): the filter is applied to every entry.
ClearFile(f) ==
  LET matching == SetToSeq({k \in Keys : FileOf(k) = f}) IN
  /\ groups' = [n \in DOMAIN groups |-> FoldLeft(Erase, groups[n], matching)]
  /\ UNCHANGED config

Tick ==
  /\ config.timeout_millisec > 0
  /\ groups' = [n \in DOMAIN groups |->
       [groups[n] EXCEPT !.entries =
          [k \in DOMAIN @ |-> [@[k] EXCEPT !.age = Min({@ + 1, config.timeout_millisec})]]]]
  /\ UNCHANGED config

Next ==
  \/ \E k \in Keys : Delete(k) \/ \E tag \in Tags : Put(k, tag)
  \/ \E k \in Keys, expected \in Tags \cup {NoTag} : Get(k, expected)
  \/ \E k \in Keys : ClearFile(FileOf(k))
  \/ Clear
  \/ Take
  \/ Tick

Spec == Init /\ [][Next]_vars

-----------------------------------------------------------------------------
(* Properties. *)

\* The type invariant.  used_bytes never goes below zero.
TypeOK ==
  /\ config \in Configs
  /\ \A n \in DOMAIN groups :
       LET g == groups[n] IN
       /\ g.used_bytes \in Nat /\ g.capacity_bytes \in Nat
       /\ DOMAIN g.entries \subseteq Keys
       /\ \A k \in DOMAIN g.entries : /\ g.entries[k].tag \in Tags
                                      /\ g.entries[k].age \in 0 .. config.timeout_millisec

\* The storage and its policy agree on what is cached: every entry can be chosen
\* as a victim, every victim is an entry, and the hand of the clock points into
\* the ring.  So `while (used + needed > capacity)` can always go on.
PolicyTracksEntries ==
  TypeOK /\ \A n \in DOMAIN groups :
    LET g == groups[n] IN
    /\ PolicyWellFormed(g.name, g.policy)
    /\ Tracked(g.policy) = DOMAIN g.entries

BytesIn(g) == MapThenSumSet(LAMBDA k : g.entries[k].bytes, DOMAIN g.entries)

\* used_bytes is the sum of what the entries of the group occupy, through
\* replacement, eviction, expiry and version mismatches.
UsedBytesExact == \A n \in DOMAIN groups : groups[n].used_bytes = BytesIn(groups[n])

\* "Total budget across all groups": no group holds more than its capacity, and
\* together the groups hold no more than max_bytes.
WithinBudget ==
  config.max_bytes > 0 =>
    /\ \A n \in DOMAIN groups : BytesIn(groups[n]) <= groups[n].capacity_bytes
    /\ MapThenSumSet(LAMBDA n : BytesIn(groups[n]), DOMAIN groups) <= config.max_bytes

\* What a Put added to group n, and what it evicted to make room.  A Put of a key
\* that has an entry frees as much as it needs and evicts nothing.
Gained(n) == DOMAIN groups'[n].entries \ DOMAIN groups[n].entries
Victims(n) == IF Gained(n) = {} THEN {} ELSE DOMAIN groups[n].entries \ DOMAIN groups'[n].entries

\* Put evicts only as long as the new entry does not fit: with one of the victims
\* still there the group would be over its capacity.
NoNeedlessEviction ==
  [][\A n \in DOMAIN groups : Victims(n) # {} =>
       \E v \in Victims(n) : BytesIn(groups'[n]) + BytesOf[v] > groups[n].capacity_bytes]_vars

\* The clock's second chance: Put evicts an entry that was hit since the hand
\* passed it only after all the entries that were not.
ClockSparesReferenced ==
  [][\A n \in DOMAIN groups :
       LET referenced == groups[n].policy.referenced IN
       Victims(n) \cap referenced # {} =>
         DOMAIN groups'[n].entries \ Gained(n) \subseteq referenced]_vars
=============================================================================
