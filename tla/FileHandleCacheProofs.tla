------------------------ MODULE FileHandleCacheProofs ------------------------
(***************************************************************************)
(* Proofs about FileHandleCache, for any number of clients, keys, objects  *)
(* and handles.  First the pointers and the counters, as long as no clear  *)
(* overlaps the open of a file; what the caches hold plays no part in      *)
(* them.  Then the queues and the LRU list of a cache object.  Last, who   *)
(* owns an internal handle, in every interleaving.                         *)
(***************************************************************************)
EXTENDS FileHandleCache, LruListProofs

\* The wrappers that counter g counts under key k.
Counted(g, k) == {c \in Clients : counted[c] = g /\ key[c] = k}

Settled == ControlTypeOK /\ MembersSettled /\ \A c \in Clients : WrapperOK(c)

Inv == ~overlap =>
         Settled /\ \A g \in Objects, k \in Keys : counters[g][k] = Cardinality(Counted(g, k))

control == <<enable_file_handle_cache, overlap, members, counters, cache_reader_mutex,
             pc, key, captured_cache, captured_counter, counted>>

\* Null and NoKey are no object, no client and no key.
LEMMA Nulls == Null \notin Objects /\ Null \notin Clients /\ NoKey \notin Keys
  BY HandleAssumption, Zenon

\* Nobody has a wrapper at first.
LEMMA InitInv == Init => Inv
<1> SUFFICES ASSUME Init, ~overlap
             PROVE  Settled /\ \A g \in Objects, k \in Keys :
                                  counters[g][k] = Cardinality(Counted(g, k))
  BY Zenon DEF Inv
<1>1. Settled
  BY Nulls, Zenon
     DEF Init, Settled, ControlTypeOK, MembersSettled, WrapperOK, Opening, Clearing, Past
<1>2. ASSUME NEW g \in Objects, NEW k \in Keys
      PROVE  counters[g][k] = Cardinality(Counted(g, k))
  <2>1. Counted(g, k) = {}
    BY Nulls, Zenon DEF Init, Counted
  <2> QED
    BY <2>1, FS_EmptySet, Zenon DEF Init
<1> QED
  BY <1>1, <1>2, Zenon

\* A step that leaves the counters and what they count as it is keeps them exact.
LEMMA SameCount ==
  ASSUME \A g \in Objects, k \in Keys : counters[g][k] = Cardinality(Counted(g, k)),
         UNCHANGED counters,
         \A c \in Clients : counted'[c] = counted[c]
                            /\ (counted[c] # Null => key'[c] = key[c])
  PROVE  (\A g \in Objects, k \in Keys : counters[g][k] = Cardinality(Counted(g, k)))'
<1> SUFFICES ASSUME NEW g \in Objects, NEW k \in Keys
             PROVE  counters'[g][k] = Cardinality(Counted(g, k)')
  BY Zenon
<1>1. Counted(g, k)' = Counted(g, k)
  BY Nulls, Zenon DEF Counted
<1> QED
  BY <1>1, Zenon

\* The steps of one client that leave the counters alone.
LEMMA QuietSteps ==
  ASSUME Settled, ~overlap, NEW c \in Clients,
         \/ MakeCache(c) \/ Disable(c) \/ NullCache(c) \/ NullCounter(c) \/ Lookup(c)
         \/ CountMiss(c) \/ OpenInternal(c) \/ CaptureCache(c) \/ CaptureCounter(c)
         \/ StartClear(c)
  PROVE  Settled' /\ UNCHANGED <<counters, counted>>
         /\ \A d \in Clients : counted[d] # Null => key'[d] = key[d]
<1> USE Nulls
<1>1. CASE MakeCache(c)
  <2>1. /\ pc[c] = "init" /\ pc' = [pc EXCEPT ![c] = "counter"] /\ enable_file_handle_cache
        /\ file_handle_cache' \in Objects
        /\ file_handle_cache # Null => file_handle_cache' = file_handle_cache
        /\ UNCHANGED <<settings, in_use_file_handle_counter, counters, cache_reader_mutex, wrapper>>
    BY <1>1, Zenon DEF MakeCache, Go, Settled, ControlTypeOK
  <2>2. ControlTypeOK'
    BY <2>1, Zenon DEF Settled, ControlTypeOK, Opening, settings, wrapper
  <2>3. MembersSettled'
    BY <2>1 DEF Settled, ControlTypeOK, MembersSettled, Opening, Clearing, Past, settings, wrapper
  <2>4. \A d \in Clients : WrapperOK(d)'
    BY <2>1 DEF Settled, ControlTypeOK, MembersSettled, WrapperOK, Opening, Clearing, Past,
                settings, wrapper
  <2> QED
    BY <2>1, <2>2, <2>3, <2>4, Zenon DEF Settled, wrapper
<1>2. CASE Disable(c)
  <2>1. /\ pc[c] = "init" /\ ~enable_file_handle_cache
        /\ \/ file_handle_cache = Null /\ Go(c, "lookup") /\ cache_reader_mutex' = Null
           \/ file_handle_cache # Null /\ Go(c, "nullcache") /\ UNCHANGED cache_reader_mutex
        /\ UNCHANGED <<settings, members, counters, wrapper>>
    BY <1>2, Zenon DEF Disable
  <2>2. ControlTypeOK'
    BY <2>1, Zenon DEF Settled, ControlTypeOK, Opening, Clearing, settings, members, wrapper, Go
  <2>3. MembersSettled'
    BY <2>1 DEF Settled, ControlTypeOK, MembersSettled, Opening, Clearing, Past, settings, members,
                wrapper, Go
  <2>4. \A d \in Clients : WrapperOK(d)'
    BY <2>1 DEF Settled, ControlTypeOK, MembersSettled, WrapperOK, Opening, Clearing, Past,
                settings, members, wrapper, Go
  <2> QED
    BY <2>1, <2>2, <2>3, <2>4, Zenon DEF Settled, wrapper
<1>3. CASE NullCache(c)
  BY <1>3 DEF NullCache, Settled, ControlTypeOK, MembersSettled, WrapperOK, Opening, Clearing,
              Past, settings, wrapper, Go
<1>4. CASE NullCounter(c)
  BY <1>4 DEF NullCounter, Settled, ControlTypeOK, MembersSettled, WrapperOK, Opening, Clearing,
              Past, settings, wrapper, Go
<1>5. CASE Lookup(c)
  BY <1>5 DEF Lookup, Settled, ControlTypeOK, MembersSettled, WrapperOK, Opening, Clearing,
              Past, settings, members, Go
<1>6. CASE CountMiss(c)
  BY <1>6 DEF CountMiss, Settled, ControlTypeOK, MembersSettled, WrapperOK, Opening, Clearing,
              Past, settings, members, wrapper, Go
<1>7. CASE OpenInternal(c)
  <2>1. /\ pc[c] = "open" /\ counted[c] = Null /\ key[c] \in Keys
        /\ UNCHANGED <<settings, members, counters, cache_reader_mutex, captured_cache,
                       captured_counter, counted>>
    BY <1>7, Zenon DEF OpenInternal, Settled, ControlTypeOK, WrapperOK, Clearing
  <2>2. CASE Go(c, "count") /\ UNCHANGED key
    BY <2>1, <2>2 DEF Settled, ControlTypeOK, MembersSettled, WrapperOK, Opening, Clearing,
                      Past, settings, members, Go
  <2>3. CASE key' = [key EXCEPT ![c] = NoKey] /\ Go(c, "idle")
    BY <2>1, <2>3 DEF Settled, ControlTypeOK, MembersSettled, WrapperOK, Opening, Clearing,
                      Past, settings, members, Go
  <2> QED
    BY <1>7, <2>2, <2>3, Zenon DEF OpenInternal
<1>8. CASE CaptureCache(c)
  BY <1>8 DEF CaptureCache, Settled, ControlTypeOK, MembersSettled, WrapperOK, Opening, Clearing,
              Past, settings, members, Go
<1>9. CASE CaptureCounter(c)
  BY <1>9 DEF CaptureCounter, Settled, ControlTypeOK, MembersSettled, WrapperOK, Opening, Clearing,
              Past, settings, members, Go
<1>10. CASE StartClear(c)
  BY <1>10 DEF StartClear, MayChange, Settled, ControlTypeOK, MembersSettled, WrapperOK, Opening,
               Clearing, Past, settings, members, wrapper, Go
<1> QED
  BY <1>1, <1>2, <1>3, <1>4, <1>5, <1>6, <1>7, <1>8, <1>9, <1>10, Zenon

\* The other steps of the control: the mutex is taken, and the setting changes.
LEMMA OtherSteps ==
  ASSUME Settled, ~overlap,
         \/ \E c \in Clients, k \in Keys : OpenFile(c, k)
         \/ \E b \in BOOLEAN : SetEnabled(b)
         \/ UNCHANGED control
  PROVE  Settled' /\ UNCHANGED <<counters, counted>>
         /\ \A d \in Clients : counted[d] # Null => key'[d] = key[d]
<1> USE Nulls
<1>1. ASSUME NEW c \in Clients, NEW k \in Keys, OpenFile(c, k)
      PROVE  Settled' /\ UNCHANGED <<counters, counted>>
             /\ \A d \in Clients : counted[d] # Null => key'[d] = key[d]
  BY <1>1 DEF OpenFile, MayOpen, Settled, ControlTypeOK, MembersSettled, WrapperOK, Opening,
              Clearing, Past, settings, members, Go
<1>2. ASSUME NEW b \in BOOLEAN, SetEnabled(b)
      PROVE  Settled' /\ UNCHANGED <<counters, counted, key>>
  BY <1>2, Zenon
     DEF SetEnabled, MayChange, Settled, ControlTypeOK, MembersSettled, WrapperOK, Opening,
              Clearing, Past, members, wrapper
<1>3. CASE UNCHANGED control
  BY <1>3, Zenon DEF control, members, Settled, ControlTypeOK, MembersSettled, WrapperOK
<1> QED
  BY <1>1, <1>2, <1>3, Zenon

\* A counter is made in storage that nobody counts in.
LEMMA MakeCounterStep ==
  ASSUME Inv, ~overlap, NEW c \in Clients, MakeCounter(c)
  PROVE  Inv'
<1>1. Settled /\ \A g \in Objects, k \in Keys : counters[g][k] = Cardinality(Counted(g, k))
  BY Zenon DEF Inv
<1>2. Settled'
  <2>1. /\ in_use_file_handle_counter' \in Objects
        /\ in_use_file_handle_counter # Null =>
             in_use_file_handle_counter' = in_use_file_handle_counter
        /\ counters' \in [Objects -> [Keys -> Nat]]
    BY <1>1 DEF MakeCounter, Settled, ControlTypeOK
  <2>2. /\ UNCHANGED <<settings, file_handle_cache, wrapper>> /\ cache_reader_mutex' = Null
        /\ pc[c] = "counter" /\ Go(c, "lookup")
    BY Zenon DEF MakeCounter
  <2>3. cache_reader_mutex = c /\ enable_file_handle_cache /\ file_handle_cache # Null
    BY <1>1, <2>2, Zenon DEF Settled, MembersSettled
  <2>4. ControlTypeOK'
    BY <1>1, <2>1, <2>2, Zenon DEF Settled, ControlTypeOK, settings, wrapper, Go, Opening
  <2>5. MembersSettled'
    BY <1>1, <2>1, <2>2, <2>3, Nulls DEF Settled, ControlTypeOK, MembersSettled, settings,
                                         wrapper, Go, Opening, Clearing, Past
  <2>6. ASSUME NEW d \in Clients PROVE WrapperOK(d)'
    <3>1. WrapperOK(d) /\ (pc[d] \in Past => in_use_file_handle_counter # Null)
      BY <1>1, <2>3, Zenon DEF Settled, MembersSettled
    <3> QED
      BY <1>1, <2>1, <2>2, <3>1, Zenon
         DEF Settled, ControlTypeOK, WrapperOK, wrapper, Go, Past, Clearing
  <2> QED
    BY <2>4, <2>5, <2>6, Zenon DEF Settled
<1>3. UNCHANGED <<counted, key>>
  BY Zenon DEF MakeCounter, wrapper
<1>4. ASSUME NEW g \in Objects, NEW k \in Keys
      PROVE  counters'[g][k] = Cardinality(Counted(g, k)')
  <2>1. Counted(g, k)' = Counted(g, k)
    BY <1>3, Zenon DEF Counted
  <2>2. CASE counters'[g] = counters[g]
    BY <1>1, <2>1, <2>2, Zenon
  <2>3. CASE counters'[g] # counters[g]
    <3>1. FreeCounter(g) /\ counters'[g][k] = 0
      BY <1>1, <2>3 DEF MakeCounter, Settled, ControlTypeOK
    <3>2. Counted(g, k) = {}
      BY <3>1, Zenon DEF FreeCounter, Counted
    <3> QED
      BY <2>1, <3>1, <3>2, FS_EmptySet, Zenon
  <2> QED
    BY <2>2, <2>3, Zenon
<1> QED
  BY <1>2, <1>4, Zenon DEF Inv

\* A wrapper is counted once.
LEMMA CountStep ==
  ASSUME Inv, ~overlap, NEW c \in Clients, Count(c)
  PROVE  Inv'
<1>1. Settled /\ \A g \in Objects, k \in Keys : counters[g][k] = Cardinality(Counted(g, k))
  BY DEF Inv
<1>2. /\ pc[c] = "count" /\ counted[c] = Null /\ key[c] \in Keys
      /\ in_use_file_handle_counter \in Objects \cup {Null}
      /\ UNCHANGED <<settings, members, cache_reader_mutex, key, captured_cache, captured_counter>>
      /\ Go(c, "capture")
  BY <1>1, Zenon DEF Count, Settled, ControlTypeOK, WrapperOK, Clearing
<1>3. counters' \in [Objects -> [Keys -> Nat]] /\ counted' \in [Clients -> Objects \cup {Null}]
      /\ counted' = [counted EXCEPT ![c] = in_use_file_handle_counter]
  <2>1. CASE in_use_file_handle_counter = Null
    BY <1>1, <1>2, <2>1, Zenon DEF Count, Settled, ControlTypeOK
  <2>2. CASE in_use_file_handle_counter # Null
    <3> DEFINE g == in_use_file_handle_counter
    <3>1. counters' = [counters EXCEPT ![g] = [counters[g] EXCEPT ![key[c]] = counters[g][key[c]] + 1]]
          /\ counted' = [counted EXCEPT ![c] = g]
      BY <2>2, Zenon DEF Count, Increment, GetCount
    <3>2. g \in Objects /\ counters[g] \in [Keys -> Nat]
      BY <1>1, <1>2, <2>2, Zenon DEF Settled, ControlTypeOK
    <3>3. [counters[g] EXCEPT ![key[c]] = counters[g][key[c]] + 1] \in [Keys -> Nat]
      BY <1>2, <3>2
    <3> QED
      BY <1>1, <3>1, <3>2, <3>3, Zenon DEF Settled, ControlTypeOK
  <2> QED
    BY <2>1, <2>2, Zenon
<1>4. Settled'
  <2>1. ControlTypeOK'
    BY <1>1, <1>2, <1>3, Zenon DEF Settled, ControlTypeOK, Opening, settings, members, Go
  <2>2. MembersSettled'
    BY <1>1, <1>2, Nulls DEF Settled, ControlTypeOK, MembersSettled, Opening, Clearing, Past,
                             settings, members, Go
  <2>3. ASSUME NEW d \in Clients PROVE WrapperOK(d)'
    BY <1>1, <1>2, <1>3, Zenon DEF Settled, ControlTypeOK, WrapperOK, members, Go, Clearing
  <2> QED
    BY <2>1, <2>2, <2>3 DEF Settled
<1>5. ASSUME NEW g \in Objects, NEW k \in Keys
      PROVE  counters'[g][k] = Cardinality(Counted(g, k)')
  <2>1. CASE g = in_use_file_handle_counter /\ k = key[c]
    <3>1. Counted(g, k)' = Counted(g, k) \cup {c} /\ c \notin Counted(g, k)
      BY <1>1, <1>2, <1>3, <2>1, Nulls DEF Counted, Settled, ControlTypeOK
    <3>2. IsFiniteSet(Counted(g, k))
      BY HandleAssumption, FS_Subset, Zenon DEF Counted
    <3>3. Cardinality(Counted(g, k)') = Cardinality(Counted(g, k)) + 1
      BY <3>1, <3>2, FS_AddElement, Zenon
    <3>4. counters' = [counters EXCEPT ![g] = [counters[g] EXCEPT ![k] = counters[g][k] + 1]]
      BY <2>1, Nulls, Zenon DEF Count, Increment, GetCount
    <3>5. counters'[g][k] = counters[g][k] + 1
      BY <1>1, <3>4, Zenon DEF Settled, ControlTypeOK
    <3> QED
      BY <1>1, <3>3, <3>5, Zenon
  <2>2. CASE ~(g = in_use_file_handle_counter /\ k = key[c])
    <3>1. Counted(g, k)' = Counted(g, k)
      BY <1>1, <1>2, <1>3, <2>2, Nulls DEF Counted, Settled, ControlTypeOK
    <3>2. counters'[g][k] = counters[g][k]
      BY <1>1, <2>2, Nulls DEF Count, Increment, GetCount, Settled, ControlTypeOK
    <3> QED
      BY <1>1, <3>1, <3>2, Zenon
  <2> QED
    BY <2>1, <2>2, Zenon
<1> QED
  BY <1>4, <1>5 DEF Inv

\* A wrapper without a cache goes without being uncounted, as it was not counted.
LEMMA ReleaseStep ==
  ASSUME Inv, ~overlap, NEW c \in Clients, Release(c)
  PROVE  Inv'
<1>1. Settled /\ \A g \in Objects, k \in Keys : counters[g][k] = Cardinality(Counted(g, k))
  BY DEF Inv
<1>2. /\ pc[c] = "using" /\ WrapperOK(c)
      /\ UNCHANGED <<settings, members, counters, cache_reader_mutex, captured_cache,
                     captured_counter>>
  BY <1>1, Zenon DEF Release, Settled
<1>3. CASE captured_cache[c] = Null
  <2>1. /\ key' = [key EXCEPT ![c] = NoKey] /\ counted' = [counted EXCEPT ![c] = Null]
        /\ Go(c, "idle") /\ counted[c] = Null
    BY <1>2, <1>3, Zenon DEF Release, WrapperOK
  <2>2. UNCHANGED counted
    BY <1>1, <2>1, Zenon DEF Settled, ControlTypeOK
  <2>3. Settled'
    BY <1>1, <1>2, <2>1, <2>2, Nulls DEF Settled, ControlTypeOK, MembersSettled, WrapperOK,
                                         Opening, Clearing, Past, settings, members, Go
  <2>4. \A d \in Clients : counted[d] # Null => key'[d] = key[d]
    BY <1>1, <2>1, Zenon DEF Settled, ControlTypeOK
  <2> QED
    BY <1>1, <1>2, <2>2, <2>3, <2>4, SameCount, Zenon DEF Inv
<1>4. CASE captured_cache[c] # Null
  <2>1. Go(c, "uncount") /\ UNCHANGED <<key, counted>>
    BY <1>4, Zenon DEF Release
  <2>2. Settled'
    BY <1>1, <1>2, <1>4, <2>1, Nulls DEF Settled, ControlTypeOK, MembersSettled, WrapperOK,
                                         Opening, Clearing, Past, settings, members, Go
  <2> QED
    BY <1>1, <1>2, <2>1, <2>2, SameCount, Zenon DEF Inv
<1> QED
  BY <1>3, <1>4, Zenon

\* A wrapper with a cache is uncounted where it was counted.
LEMMA UncountStep ==
  ASSUME Inv, ~overlap, NEW c \in Clients, Uncount(c)
  PROVE  Inv'
<1> DEFINE g0 == captured_counter[c]
           k0 == key[c]
<1>1. Settled /\ \A g \in Objects, k \in Keys : counters[g][k] = Cardinality(Counted(g, k))
  BY DEF Inv
<1>2. /\ pc[c] = "uncount" /\ g0 # Null
      /\ counters' = [counters EXCEPT ![g0] = [counters[g0] EXCEPT ![k0] = counters[g0][k0] - 1]]
      /\ counters[g0][k0] > 0
      /\ captured_cache' = [captured_cache EXCEPT ![c] = Null]
      /\ captured_counter' = [captured_counter EXCEPT ![c] = Null]
      /\ counted' = [counted EXCEPT ![c] = Null]
      /\ key' = [key EXCEPT ![c] = NoKey]
      /\ Go(c, "idle")
      /\ UNCHANGED <<settings, members, cache_reader_mutex>>
  BY Zenon DEF Uncount, Decrement, GetCount
<1>3. g0 \in Objects /\ k0 \in Keys /\ counted[c] = g0 /\ counters[g0] \in [Keys -> Nat]
  BY <1>1, <1>2, Zenon DEF Settled, ControlTypeOK, WrapperOK, Clearing
<1>4. Settled'
  <2>1. [counters[g0] EXCEPT ![k0] = counters[g0][k0] - 1] \in [Keys -> Nat]
    BY <1>2, <1>3
  <2>2. ControlTypeOK'
    BY <1>1, <1>2, <1>3, <2>1, Zenon DEF Settled, ControlTypeOK, Opening, settings, members, Go
  <2>3. MembersSettled'
    BY <1>1, <1>2, Nulls DEF Settled, ControlTypeOK, MembersSettled, Opening, Clearing, Past,
                             settings, members, Go
  <2>4. ASSUME NEW d \in Clients PROVE WrapperOK(d)'
    BY <1>1, <1>2, Zenon DEF Settled, ControlTypeOK, WrapperOK, members, Go, Clearing
  <2> QED
    BY <2>2, <2>3, <2>4 DEF Settled
<1>5. ASSUME NEW g \in Objects, NEW k \in Keys
      PROVE  counters'[g][k] = Cardinality(Counted(g, k)')
  <2>1. CASE g = g0 /\ k = k0
    <3>1. Counted(g, k)' = Counted(g, k) \ {c} /\ c \in Counted(g, k)
      BY <1>1, <1>2, <1>3, <2>1, Nulls, Zenon DEF Counted, Settled, ControlTypeOK
    <3>2. IsFiniteSet(Counted(g, k))
      BY HandleAssumption, FS_Subset DEF Counted
    <3>3. Cardinality(Counted(g, k)') = Cardinality(Counted(g, k)) - 1
      BY <3>1, <3>2, FS_RemoveElement, Zenon
    <3>4. counters'[g][k] = counters[g][k] - 1
      BY <1>1, <1>2, <1>3, <2>1, Zenon DEF Settled, ControlTypeOK
    <3> QED
      BY <1>1, <3>3, <3>4, Zenon
  <2>2. CASE ~(g = g0 /\ k = k0)
    <3>1. Counted(g, k)' = Counted(g, k)
      BY <1>1, <1>2, <1>3, <2>2, Nulls, Zenon DEF Counted, Settled, ControlTypeOK
    <3>2. counters'[g][k] = counters[g][k]
      BY <1>1, <1>2, <1>3, <2>2, Zenon DEF Settled, ControlTypeOK
    <3> QED
      BY <1>1, <3>1, <3>2
  <2> QED
    BY <2>1, <2>2, Zenon
<1> QED
  BY <1>4, <1>5 DEF Inv

\* Every step keeps the invariant.
LEMMA NextInv == Inv /\ [Next]_vars => Inv'
<1> SUFFICES ASSUME Inv, [Next]_vars PROVE Inv'
  BY Zenon
<1>1. overlap' = overlap
  BY DEF Next, Step, vars, settings, MakeCache, MakeCounter, Disable, NullCache, NullCounter,
         Lookup, CountMiss, OpenInternal, Count, CaptureCache, CaptureCounter, Uncount,
         StartClear, Release, OpenFile, ClearPath, SetEnabled, Tick
<1>2. CASE overlap
  BY <1>1, <1>2, Zenon DEF Inv
<1>3. CASE ~overlap
  <2>1. Settled /\ \A g \in Objects, k \in Keys : counters[g][k] = Cardinality(Counted(g, k))
    BY <1>3, Zenon DEF Inv
  <2>2. ASSUME Settled', UNCHANGED <<counters, counted>>,
               \A d \in Clients : counted[d] # Null => key'[d] = key[d]
        PROVE  Inv'
    BY <2>1, <2>2, SameCount, Zenon DEF Inv
  <2>3. ASSUME NEW c \in Clients, Step(c) \/ StartClear(c) PROVE Inv'
    BY <1>3, <2>1, <2>2, <2>3, QuietSteps, MakeCounterStep, CountStep, UncountStep, Zenon DEF Step
  <2>4. ASSUME NEW c \in Clients, Release(c) PROVE Inv'
    BY <1>3, <2>4, ReleaseStep, Zenon
  <2>5. ASSUME NEW c \in Clients, NEW k \in Keys, OpenFile(c, k) PROVE Inv'
    BY <1>3, <2>1, <2>2, <2>5, OtherSteps, Zenon
  <2>6. ASSUME NEW b \in BOOLEAN, SetEnabled(b) PROVE Inv'
    BY <1>3, <2>1, <2>2, <2>6, OtherSteps, Zenon
  <2>7. CASE Tick \/ (\E k \in Keys : ClearPath(PathOf(k))) \/ UNCHANGED vars
    <3>1. UNCHANGED control
      BY <2>7, Zenon DEF control, vars, Tick, ClearPath, settings, members, wrapper
    <3> QED
      BY <1>3, <2>1, <2>2, <3>1, OtherSteps, Zenon
  <2> QED
    BY <2>3, <2>4, <2>5, <2>6, <2>7, Zenon DEF Next
<1> QED
  BY <1>2, <1>3, Zenon

\* The invariant holds of every behaviour.
LEMMA SpecInv == Spec => []Inv
  BY InitInv, NextInv, PTL DEF Spec

\* As long as no clear overlaps the open of a file, an in-use counter counts
\* exactly the wrappers that incremented it and have not been destroyed.
THEOREM CounterExactAlways == Spec => []CounterExact
<1>1. Inv => CounterExact
  BY Zenon DEF Inv, CounterExact, GetCount, Counted
<1> QED
  BY <1>1, SpecInv, PTL

\* As long as no clear overlaps the open of a file, the assertion of the
\* destructor callback and the precondition of Decrement hold, and a cache
\* miss finds the counter it asks.
THEOREM CallbackAssertionsAlways == Spec => []CallbackAssertions
<1>1. Inv => CallbackAssertions
  <2> SUFFICES ASSUME Inv, ~overlap PROVE CallbackAssertions
    BY Zenon DEF CallbackAssertions
  <2>1. Settled /\ \A g \in Objects, k \in Keys : counters[g][k] = Cardinality(Counted(g, k))
    BY Zenon DEF Inv
  <2>2. CaptureAsserted
    BY <2>1, Zenon DEF CaptureAsserted, Settled, WrapperOK
  <2>3. ASSUME NEW c \in Clients, pc[c] = "uncount"
        PROVE  captured_counter[c] # Null /\ GetCount(captured_counter[c], key[c]) > 0
    <3>1. /\ captured_counter[c] \in Objects /\ key[c] \in Keys
          /\ captured_counter[c] = counted[c]
      BY <2>1, <2>3, Zenon DEF Settled, ControlTypeOK, WrapperOK, Clearing
    <3> DEFINE S == Counted(captured_counter[c], key[c])
    <3>2. c \in S
      BY <3>1, Zenon DEF Counted
    <3>3. IsFiniteSet(S)
      BY HandleAssumption, FS_Subset, Zenon DEF Counted
    <3>4. Cardinality(S) \in Nat /\ Cardinality(S) # 0
      BY <3>2, <3>3, FS_CardinalityType, FS_EmptySet, Zenon
    <3> QED
      BY <2>1, <3>1, <3>4, Nulls DEF GetCount
  <2>4. ASSUME NEW c \in Clients, pc[c] = "missed" PROVE in_use_file_handle_counter # Null
    BY <2>1, <2>4, Zenon DEF Settled, MembersSettled, Past, Clearing, Opening
  <2> QED
    BY <2>1, <2>2, <2>3, <2>4, Zenon DEF CallbackAssertions, Settled
<1> QED
  BY <1>1, SpecInv, PTL

-----------------------------------------------------------------------------
(* The queues and the LRU list of a cache object. *)

Nodes == [key : Keys, value : Handles]

Queued == [value : Handles, age : Nat]

Linked(c) ==
  /\ c = [lru_list |-> c.lru_list, entry_map |-> c.entry_map,
          total_entries_num |-> c.total_entries_num]
  /\ Matches(Nodes, Queued, c.lru_list, c.entry_map)
  /\ c.total_entries_num = Cardinality(AllValues(c))

\* The values of some keys are those in their queues.
LEMMA InValuesOf ==
  ASSUME NEW c, NEW K, NEW h
  PROVE  h \in ValuesOf(c, K) <=> \E k \in K \cap Stored(c) : Has(c.entry_map[k], h)
<1>1. ASSUME NEW k PROVE h \in {e.value : e \in Range(c.entry_map[k])} <=> Has(c.entry_map[k], h)
  BY Zenon DEF Has, Range
<1> QED
  BY <1>1, Zenon DEF ValuesOf

\* The same for all the values of a cache.
LEMMA InAllValues ==
  ASSUME NEW c, NEW h
  PROVE  h \in AllValues(c) <=> \E k \in DOMAIN c.entry_map : Has(c.entry_map[k], h)
<1>1. h \in ValuesOf(c, Stored(c)) <=>
        \E k \in Stored(c) \cap Stored(c) : Has(c.entry_map[k], h)
  BY InValuesOf, Zenon
<1> QED
  BY <1>1, Zenon DEF AllValues, Stored

\* The values of the list are the values of the queues, as many as there are nodes.
LEMMA ListedValues ==
  ASSUME NEW c, Matches(Nodes, Queued, c.lru_list, c.entry_map)
  PROVE  /\ AllValues(c) = {c.lru_list[i].value : i \in DOMAIN c.lru_list}
         /\ AllValues(c) \subseteq Handles
         /\ IsFiniteSet(AllValues(c)) /\ Cardinality(AllValues(c)) = Len(c.lru_list)
         /\ Len(c.lru_list) \in Nat
<1> DEFINE L == c.lru_list
           S == {L[i].value : i \in DOMAIN L}
           f == [i \in DOMAIN L |-> L[i].value]
<1>1. L \in Seq(Nodes)
  BY Zenon DEF Matches, MatchTypes
<1>2. DOMAIN L = 1 .. Len(L) /\ Len(L) \in Nat /\ \A i \in DOMAIN L : L[i] \in Nodes
  BY <1>1
<1>3. AllValues(c) = S
  <2>1. ASSUME NEW h \in AllValues(c) PROVE h \in S
    <3>1. PICK k \in DOMAIN c.entry_map : Has(c.entry_map[k], h)
      BY InAllValues, Zenon
    <3>2. PICK n \in DOMAIN c.entry_map[k] : c.entry_map[k][n].value = h
      BY <3>1, Zenon DEF Has
    <3>3. PICK i \in DOMAIN L : L[i].value = h
      BY <3>2, Zenon DEF Matches, EntriesListed
    <3> QED
      BY <3>3, Zenon
  <2>2. ASSUME NEW i \in DOMAIN L PROVE L[i].value \in AllValues(c)
    <3>1. L[i].key \in DOMAIN c.entry_map /\ Has(c.entry_map[L[i].key], L[i].value)
      BY Zenon DEF Matches, NodesQueued
    <3> QED
      BY <3>1, InAllValues, Zenon
  <2> QED
    BY <2>1, <2>2, Zenon
<1>4. OneToOne(f, DOMAIN L, S)
  <2>1. f \in [DOMAIN L -> S] /\ \A i, j \in DOMAIN L : f[i] = f[j] => i = j
    BY Zenon DEF Matches, ValuesOnce
  <2>2. \A x \in S : \E i \in DOMAIN L : f[i] = x
    BY Zenon
  <2> HIDE DEF f, S
  <2> QED
    BY <2>1, <2>2, Zenon DEF OneToOne
<1>5. IsFiniteSet(DOMAIN L) /\ Cardinality(DOMAIN L) = Len(L)
  BY <1>2, Interval, Zenon
<1>6. IsFiniteSet(S) /\ Cardinality(S) = Len(L)
  <2> HIDE DEF S, f, L
  <2> QED
    BY <1>4, <1>5, SameCardinality, Zenon
<1>7. S \subseteq Handles
  BY <1>2, Zenon DEF Nodes
<1> QED
  BY <1>2, <1>3, <1>6, <1>7, Zenon

\* A new cache.
LEMMA EmptyLinked == Linked(EmptyMultiCache) /\ AllValues(EmptyMultiCache) = {}
<1> DEFINE c == EmptyMultiCache
<1>1. /\ c.lru_list = <<>> /\ c.entry_map = <<>> /\ c.total_entries_num = 0
      /\ c = [lru_list |-> <<>>, entry_map |-> <<>>, total_entries_num |-> 0]
  BY Zenon DEF EmptyMultiCache
<1>2. <<>> \in Seq(Nodes) /\ DOMAIN <<>> = {} /\ <<>> \in [{} -> Seq(Queued) \ {<<>>}]
  OBVIOUS
<1>3. Matches(Nodes, Queued, <<>>, <<>>)
  BY <1>2, Zenon DEF Matches, MatchTypes, ValuesOnce, NodesQueued, EntriesListed, QueuesOrdered
<1>4. AllValues(c) = {}
  BY <1>1, <1>2, InAllValues, Zenon
<1> QED
  BY <1>1, <1>3, <1>4, FS_EmptySet, Zenon DEF Linked

\* The cache after entries and their nodes left.
Reduced(c, N, V) ==
  [lru_list |-> Unlinked(c, V), entry_map |-> N,
   total_entries_num |-> c.total_entries_num - Cardinality(V)]

\* It has the other values.
LEMMA DeletedLinked ==
  ASSUME NEW c, Linked(c), NEW N, NEW V, V \subseteq AllValues(c),
         NEW d, Shrunk(Queued, c.entry_map, N, V, d)
  PROVE  Linked(Reduced(c, N, V)) /\ AllValues(Reduced(c, N, V)) = AllValues(c) \ V
<1> DEFINE M == c.entry_map
<1>1. PICK r : r = Reduced(c, N, V)
  BY Zenon
<1>2. /\ r.lru_list = Unlinked(c, V) /\ r.entry_map = N
      /\ r.total_entries_num = c.total_entries_num - Cardinality(V)
      /\ r = [lru_list |-> r.lru_list, entry_map |-> r.entry_map,
              total_entries_num |-> r.total_entries_num]
  BY <1>1, Zenon DEF Reduced
<1>3. Matches(Nodes, Queued, r.lru_list, r.entry_map)
  <2>1. Matches(Nodes, Queued, c.lru_list, c.entry_map)
    BY Zenon DEF Linked
  <2>2. Matches(Nodes, Queued,
                Kept(c.lru_list, {i \in DOMAIN c.lru_list : c.lru_list[i].value \notin V}), N)
    BY <2>1, DeletedMatches
  <2> QED
    BY <1>2, <2>2, Zenon DEF Unlinked
<1>4. ASSUME NEW h \in AllValues(r) PROVE h \in AllValues(c) /\ h \notin V
  <2>1. PICK k \in DOMAIN N : Has(N[k], h)
    BY <1>2, InAllValues, Zenon
  <2>2. PICK n \in DOMAIN N[k] : N[k][n].value = h
    BY <2>1, Zenon DEF Has
  <2>3. PICK a \in DOMAIN M[k] : N[k][n] = M[k][a]
    BY Zenon DEF Shrunk
  <2>4. k \in DOMAIN M /\ M[k][a].value = h
    BY <2>2, <2>3, Zenon DEF Shrunk
  <2>5. h \in AllValues(c)
    BY <2>4, InAllValues, Zenon DEF Has
  <2> QED
    BY <2>2, <2>5, Zenon DEF Shrunk
<1>5. ASSUME NEW h \in AllValues(c), h \notin V PROVE h \in AllValues(r)
  <2>1. PICK k \in DOMAIN M : Has(M[k], h)
    BY InAllValues, Zenon
  <2>2. PICK n \in DOMAIN M[k] : M[k][n].value = h
    BY <2>1, Zenon DEF Has
  <2>3. k \in DOMAIN N /\ \E m \in DOMAIN N[k] : N[k][m] = M[k][n]
    BY <1>5, <2>2, Zenon DEF Shrunk
  <2>4. k \in DOMAIN N /\ Has(N[k], h)
    BY <2>2, <2>3, Zenon DEF Has
  <2> QED
    BY <1>2, <2>4, InAllValues, Zenon
<1>6. AllValues(r) = AllValues(c) \ V
  BY <1>4, <1>5, Zenon
<1>7. r.total_entries_num = Cardinality(AllValues(r))
  <2>1. IsFiniteSet(AllValues(c)) /\ AllValues(c) \cap V = V
    BY ListedValues, Zenon DEF Linked
  <2>2. Cardinality(AllValues(c) \ V) = Cardinality(AllValues(c)) - Cardinality(V)
    BY <2>1, FS_Difference, Zenon
  <2> QED
    BY <1>2, <1>6, <2>2, Zenon DEF Linked
<1> QED
  BY <1>1, <1>2, <1>3, <1>6, <1>7, Zenon DEF Linked

\* ClearAndGetValues drops the entries of the keys it removes, and only those.
LEMMA ClearLinked ==
  ASSUME NEW c, Linked(c), NEW K
  PROVE  /\ Linked(MultiClear(c, K)) /\ AllValues(MultiClear(c, K)) = AllValues(c) \ ValuesOf(c, K)
         /\ ValuesOf(c, K) \subseteq AllValues(c)
<1> DEFINE M == c.entry_map
           N == Restrict(M, DOMAIN M \ K)
           V == ValuesOf(c, K)
           d == [k \in DOMAIN N |-> 0]
<1>1. DOMAIN N = DOMAIN M \ K /\ \A k \in DOMAIN N : N[k] = M[k] /\ k \notin K
  BY Zenon DEF Restrict
<1>2. Matches(Nodes, Queued, c.lru_list, M) /\ M \in [DOMAIN M -> Seq(Queued) \ {<<>>}]
  BY Zenon DEF Linked, Matches, MatchTypes
<1>3. ASSUME NEW h \in V PROVE h \in AllValues(c) /\ \E k \in DOMAIN M : k \in K /\ Has(M[k], h)
  <2>1. PICK k \in K \cap Stored(c) : Has(M[k], h)
    BY InValuesOf, Zenon
  <2>2. k \in DOMAIN M
    BY Zenon DEF Stored
  <2> QED
    BY <2>1, <2>2, InAllValues, Zenon
<1>4. ASSUME NEW k \in DOMAIN M, k \in K, NEW n \in DOMAIN M[k] PROVE M[k][n].value \in V
  BY <1>4, InValuesOf, Zenon DEF Stored, Has
<1>5. ASSUME NEW k \in DOMAIN M, k \notin K, NEW n \in DOMAIN M[k] PROVE M[k][n].value \notin V
  <2> SUFFICES ASSUME M[k][n].value \in V PROVE FALSE
    BY Zenon
  <2>1. PICK j \in DOMAIN M : j \in K /\ Has(M[j], M[k][n].value)
    BY <1>3, Zenon
  <2>2. PICK m \in DOMAIN M[j] : M[j][m].value = M[k][n].value
    BY <2>1, Zenon DEF Has
  <2>3. k = j
    BY <1>2, <2>2, EntryOnce
  <2> QED
    BY <1>5, <2>1, <2>3, Zenon
<1>6. MultiClear(c, K) = Reduced(c, N, V)
  BY Zenon DEF MultiClear, Reduced, Stored
<1> HIDE DEF N, V
<1>7. Shrunk(Queued, M, N, V, d)
  <2>1. DOMAIN N \subseteq DOMAIN M /\ N \in [DOMAIN N -> Seq(Queued) \ {<<>>}]
    <3>1. N = [k \in DOMAIN N |-> N[k]]
      BY <1>1, Zenon DEF N, Restrict
    <3>2. \A k \in DOMAIN N : N[k] \in Seq(Queued) \ {<<>>}
      BY <1>1, <1>2, Zenon
    <3> QED
      BY <1>1, <3>1, <3>2, Zenon
  <2>2. d \in [DOMAIN N -> Nat] /\ \A k \in DOMAIN N : d[k] = 0
    OBVIOUS
  <2> HIDE DEF d
  <2>3. ASSUME NEW k \in DOMAIN N, NEW n \in DOMAIN N[k]
        PROVE  n + d[k] \in DOMAIN M[k] /\ N[k][n] = M[k][n + d[k]] /\ N[k][n].value \notin V
    <3>1. k \in DOMAIN M /\ k \notin K /\ N[k] = M[k]
      BY <1>1, Zenon
    <3>2. M[k] \in Seq(Queued)
      BY <1>2, <3>1, Zenon
    <3>3. n + d[k] = n
      BY <2>2, <3>1, <3>2
    <3> QED
      BY <1>5, <3>1, <3>3, Zenon
  <2>4. ASSUME NEW k \in DOMAIN M, NEW n \in DOMAIN M[k], M[k][n].value \notin V
        PROVE  k \in DOMAIN N /\ \E m \in DOMAIN N[k] : N[k][m] = M[k][n]
    BY <1>1, <1>4, <2>4, Zenon
  <2> QED
    BY <2>1, <2>2, <2>3, <2>4, Zenon DEF Shrunk
<1>8. V \subseteq AllValues(c)
  BY <1>3, Zenon
<1> QED
  BY <1>6, <1>7, <1>8, DeletedLinked DEF V

\* The values of the first n entries of key k.
FirstOf(c, k, n) == {c.entry_map[k][m].value : m \in 1 .. n}

\* DeleteFirstEntry: the entries leave the queue and the map, their nodes the list.
LEMMA DeleteFirstLinked ==
  ASSUME NEW c, Linked(c), NEW k \in Stored(c), NEW n \in 0 .. Len(c.entry_map[k])
  PROVE  /\ Linked(DeleteFirstEntries(c, k, n))
         /\ AllValues(DeleteFirstEntries(c, k, n)) = AllValues(c) \ FirstOf(c, k, n)
         /\ FirstOf(c, k, n) \subseteq AllValues(c) /\ Cardinality(FirstOf(c, k, n)) = n
<1>v. PICK V : V = {c.entry_map[k][m].value : m \in 1 .. n} /\ V = FirstOf(c, k, n)
  BY Zenon DEF FirstOf
<1> DEFINE M == c.entry_map
           q == M[k]
           rest == SubSeq(q, n + 1, Len(q))
           N == IF rest = <<>> THEN Restrict(M, DOMAIN M \ {k}) ELSE [M EXCEPT ![k] = rest]
           d == [j \in DOMAIN N |-> IF j = k THEN n ELSE 0]
<1>1. Matches(Nodes, Queued, c.lru_list, M) /\ M \in [DOMAIN M -> Seq(Queued) \ {<<>>}] /\ k \in DOMAIN M
  BY Zenon DEF Linked, Matches, MatchTypes, Stored
<1>2. 1 .. n \subseteq DOMAIN q /\ Cardinality(V) = n
  BY <1>v, <1>1, FirstValues
<1>3. V \subseteq AllValues(c)
  <2>1. ASSUME NEW m \in 1 .. n PROVE Has(q, q[m].value)
    BY <1>2, Zenon DEF Has
  <2> QED
    BY <1>v, <1>1, <2>1, InAllValues, Zenon
<1>4. DeleteFirstEntries(c, k, n) = Reduced(c, N, V)
  BY <1>v, <1>2, Zenon DEF DeleteFirstEntries, Reduced, Stored
<1>5. q \in Seq(Queued)
  BY <1>1, Zenon
<1>6. rest \in Seq(Queued) /\ Rest(rest, q, n)
  BY <1>5, RestList, Zenon
<1> HIDE DEF rest
<1>8. /\ DOMAIN N \subseteq DOMAIN M /\ N = [j \in DOMAIN N |-> N[j]]
      /\ \A j \in DOMAIN M : j # k => j \in DOMAIN N /\ N[j] = M[j]
      /\ k \in DOMAIN N => rest # <<>> /\ N[k] = rest
      /\ rest # <<>> => k \in DOMAIN N
  <2>1. CASE rest = <<>>
    <3>1. N = [j \in DOMAIN M \ {k} |-> M[j]]
      BY <2>1, Zenon DEF Restrict
    <3> QED
      BY <2>1, <3>1, Zenon
  <2>2. CASE rest # <<>>
    <3>1. N = [j \in DOMAIN M |-> IF j = k THEN rest ELSE M[j]]
      BY <1>1, <2>2, Zenon
    <3> QED
      BY <1>1, <2>2, <3>1, Zenon
  <2> QED
    BY <2>1, <2>2, Zenon
<1> HIDE DEF N
<1>9. ASSUME NEW j \in DOMAIN M, NEW m \in DOMAIN M[j]
      PROVE  M[j][m].value \in V <=> j = k /\ m \in 1 .. n
  <2>1. ASSUME M[j][m].value \in V PROVE j = k /\ m \in 1 .. n
    <3>1. PICK i \in 1 .. n : M[j][m].value = M[k][i].value
      BY <1>v, <2>1, Zenon
    <3>2. i \in DOMAIN M[k]
      BY <1>2, <3>1, Zenon
    <3>3. j = k /\ m = i
      BY <1>1, <3>1, <3>2, EntryOnce
    <3> QED
      BY <3>3, Zenon
  <2> QED
    BY <1>v, <2>1, Zenon
<1>10. Shrunk(Queued, M, N, V, d)
  <2>1. N \in [DOMAIN N -> Seq(Queued) \ {<<>>}]
    <3>1. \A j \in DOMAIN N : N[j] \in Seq(Queued) \ {<<>>}
      BY <1>1, <1>6, <1>8, Zenon
    <3> QED
      BY <1>8, <3>1, Zenon
  <2>2. d \in [DOMAIN N -> Nat] /\ \A j \in DOMAIN N : d[j] = IF j = k THEN n ELSE 0
    <3>1. n \in Nat
      BY <1>5
    <3> QED
      BY <3>1
  <2> HIDE DEF d
  <2>3. ASSUME NEW j \in DOMAIN N, NEW m \in DOMAIN N[j]
        PROVE  m + d[j] \in DOMAIN M[j] /\ N[j][m] = M[j][m + d[j]] /\ N[j][m].value \notin V
    <3>1. CASE j = k
      <4>1. d[j] = n /\ N[j] = rest
        BY <1>8, <2>2, <3>1, Zenon
      <4>2. m + n \in DOMAIN q /\ rest[m] = q[m + n] /\ m + n \notin 1 .. n
        BY <1>6, <4>1, Zenon DEF Rest
      <4> QED
        BY <1>1, <1>9, <3>1, <4>1, <4>2, Zenon
    <3>2. CASE j # k
      <4>1. d[j] = 0 /\ j \in DOMAIN M /\ N[j] = M[j]
        BY <1>8, <2>2, <3>2, Zenon
      <4>2. M[j] \in Seq(Queued)
        BY <1>1, <4>1, Zenon
      <4>3. m + d[j] = m
        BY <4>1, <4>2
      <4> QED
        BY <1>9, <3>2, <4>1, <4>3, Zenon
    <3> QED
      BY <3>1, <3>2, Zenon
  <2>4. ASSUME NEW j \in DOMAIN M, NEW m \in DOMAIN M[j], M[j][m].value \notin V
        PROVE  j \in DOMAIN N /\ \E i \in DOMAIN N[j] : N[j][i] = M[j][m]
    <3>1. CASE j = k
      <4>1. PICK i \in DOMAIN rest : rest[i] = M[j][m]
        BY <1>6, <1>9, <2>4, <3>1, Zenon DEF Rest
      <4>2. j \in DOMAIN N /\ N[j] = rest
        BY <1>6, <1>8, <3>1, <4>1, Zenon DEF Rest
      <4> QED
        BY <4>1, <4>2, Zenon
    <3>2. CASE j # k
      BY <1>8, <3>2, Zenon
    <3> QED
      BY <3>1, <3>2, Zenon
  <2> QED
    BY <1>8, <2>1, <2>2, <2>3, <2>4, Zenon DEF Shrunk
<1> QED
  <2>1. PICK r : r = Reduced(c, N, V)
    BY Zenon
  <2>2. Linked(r) /\ AllValues(r) = AllValues(c) \ V
    BY <1>3, <1>10, <2>1, DeletedLinked, Zenon
  <2> QED
    BY <1>v, <1>2, <1>3, <1>4, <2>1, <2>2, Zenon

\* Put adds one value.
LEMMA EnqueueLinked ==
  ASSUME NEW c, Linked(c), NEW k \in Keys, NEW v \in Handles, v \notin AllValues(c)
  PROVE  Linked(Enqueue(c, k, v)) /\ AllValues(Enqueue(c, k, v)) = AllValues(c) \cup {v}
<1> DEFINE L == c.lru_list
           M == c.entry_map
           old == IF k \in DOMAIN M THEN M[k] ELSE <<>>
           N == [j \in DOMAIN M \cup {k} |->
                   LET queue == IF j \in DOMAIN M THEN M[j] ELSE <<>>
                   IN  IF j = k THEN Append(queue, [value |-> v, age |-> 0]) ELSE queue]
<1>1. PICK x : x = [key |-> k, value |-> v]
  BY Zenon
<1>2. x \in Nodes /\ x.key = k /\ x.value = v
  BY <1>1, Zenon DEF Nodes
<1>3. PICK e : e = [value |-> v, age |-> 0]
  BY Zenon
<1>4. e \in Queued /\ e.value = v
  <2>1. 0 \in Nat
    OBVIOUS
  <2> QED
    BY <1>3, <2>1, Zenon DEF Queued
<1>5. /\ Matches(Nodes, Queued, L, M) /\ L \in Seq(Nodes) /\ M \in [DOMAIN M -> Seq(Queued) \ {<<>>}]
      /\ AllValues(c) = {L[i].value : i \in DOMAIN L} /\ IsFiniteSet(AllValues(c))
      /\ c.total_entries_num = Cardinality(AllValues(c))
  BY ListedValues, Zenon DEF Linked, Matches, MatchTypes
<1>6. PICK K : K = <<x>> \o L
  BY Zenon
<1>7. K \in Seq(Nodes) /\ Front(K, x, L)
  BY <1>2, <1>5, <1>6, FrontPositions, Zenon
<1>8. old \in Seq(Queued) /\ (k \notin DOMAIN M => DOMAIN old = {})
  <2>1. <<>> \in Seq(Queued) /\ DOMAIN <<>> = {}
    OBVIOUS
  <2> QED
    BY <1>5, <2>1, Zenon
<1>9. Append(old, e) \in Seq(Queued) \ {<<>>} /\ Back(Append(old, e), e, old)
  <2> HIDE DEF old
  <2> QED
    BY <1>4, <1>8, BackPositions, Zenon
<1>10. N = [j \in DOMAIN M \cup {k} |-> IF j = k THEN Append(old, e) ELSE M[j]]
  BY <1>3, Zenon
<1>11. Enqueue(c, k, v) = [lru_list |-> K, entry_map |-> N,
                           total_entries_num |-> c.total_entries_num + 1]
  BY <1>1, <1>6, Zenon DEF Enqueue, Stored
<1> HIDE DEF N
<1>12. Grown(Queued, M, N, k, e)
  <2>1. /\ DOMAIN N = DOMAIN M \cup {k} /\ N[k] = Append(old, e)
        /\ \A j \in DOMAIN M : j # k => N[j] = M[j]
    BY <1>10, Zenon
  <2>2. N \in [DOMAIN N -> Seq(Queued) \ {<<>>}]
    <3>1. \A j \in DOMAIN N : N[j] \in Seq(Queued) \ {<<>>}
      BY <1>5, <1>9, <2>1, Zenon
    <3> QED
      BY <1>10, <3>1, Zenon
  <2>3. k \in DOMAIN M => old = M[k]
    BY Zenon
  <2> HIDE DEF old
  <2> QED
    BY <1>8, <1>9, <2>1, <2>2, <2>3, Zenon DEF Grown
<1>13. Matches(Nodes, Queued, K, N)
  <2>1. \A i \in DOMAIN L : L[i].value # x.value
    BY <1>2, <1>5, Zenon
  <2> QED
    BY <1>2, <1>4, <1>5, <1>7, <1>12, <2>1, EnqueuedMatches, Zenon
<1>14. PICK r : r = Enqueue(c, k, v)
  BY Zenon
<1>15. /\ r.lru_list = K /\ r.entry_map = N /\ r.total_entries_num = c.total_entries_num + 1
       /\ r = [lru_list |-> r.lru_list, entry_map |-> r.entry_map,
               total_entries_num |-> r.total_entries_num]
  <2>1. PICK t : t = c.total_entries_num + 1
    BY Zenon
  <2>2. r = [lru_list |-> K, entry_map |-> N, total_entries_num |-> t]
    BY <1>11, <1>14, <2>1, Zenon
  <2> QED
    BY <2>1, <2>2, Zenon
<1>16. AllValues(r) = {K[i].value : i \in DOMAIN K}
  BY <1>13, <1>15, ListedValues
<1>17. AllValues(r) = AllValues(c) \cup {v}
  <2>1. ASSUME NEW i \in DOMAIN K PROVE K[i].value \in AllValues(c) \cup {v}
    BY <1>2, <1>5, <1>7, Zenon DEF Front
  <2>2. ASSUME NEW i \in DOMAIN L PROVE L[i].value \in AllValues(r)
    BY <1>7, <1>16, Zenon DEF Front
  <2>3. v \in AllValues(r)
    BY <1>2, <1>7, <1>16, Zenon DEF Front
  <2> QED
    BY <1>5, <1>16, <2>1, <2>2, <2>3, Zenon
<1>18. r.total_entries_num = Cardinality(AllValues(r))
  <2>1. Cardinality(AllValues(c) \cup {v}) = Cardinality(AllValues(c)) + 1
    BY <1>5, FS_AddElement, Zenon
  <2> QED
    BY <1>5, <1>15, <1>17, <2>1, Zenon
<1> QED
  BY <1>13, <1>14, <1>15, <1>17, <1>18, Zenon DEF Linked

\* The number of entries is at most max_entries.
WithinLimit(c) == MaxEntries > 0 => c.total_entries_num <= MaxEntries

\* The number of entries is a number.
LEMMA EntriesNumber ==
  ASSUME NEW c, Linked(c)
  PROVE  c.total_entries_num \in Nat /\ IsFiniteSet(AllValues(c)) /\ AllValues(c) \subseteq Handles
         /\ c.total_entries_num = Cardinality(AllValues(c))
BY ListedValues, Zenon DEF Linked

\* Entries that leave do not exceed the limit.
LEMMA SmallerLimit ==
  ASSUME NEW c, Linked(c), WithinLimit(c), NEW r, Linked(r), AllValues(r) \subseteq AllValues(c)
  PROVE  WithinLimit(r)
<1>1. r.total_entries_num <= c.total_entries_num
  BY EntriesNumber, FS_Subset
<1>2. r.total_entries_num \in Nat /\ c.total_entries_num \in Nat
  BY EntriesNumber, Zenon
<1> QED
  BY <1>1, <1>2, MultiLruAssumption DEF WithinLimit

\* Put returns what it evicts to make room; the cache keeps the rest.
LEMMA PutLinked ==
  ASSUME NEW c, Linked(c), WithinLimit(c), NEW k \in Keys,
         NEW v \in Handles, v \notin AllValues(c), NEW res, res = MultiPut(c, k, v)
  PROVE  /\ Linked(res.cache) /\ WithinLimit(res.cache)
         /\ res.evicted \subseteq AllValues(c) \cup {v}
         /\ AllValues(res.cache) = (AllValues(c) \cup {v}) \ res.evicted
<1>1. PICK d : d = Enqueue(c, k, v)
  BY Zenon
<1>2. Linked(d) /\ AllValues(d) = AllValues(c) \cup {v}
  BY <1>1, EnqueueLinked, Zenon
<1>3. d.total_entries_num = c.total_entries_num + 1
  <2>1. PICK t : t = c.total_entries_num + 1
    BY Zenon
  <2> QED
    BY <1>1, <2>1, Zenon DEF Enqueue
<1>4. d.total_entries_num \in Nat /\ c.total_entries_num \in Nat
  BY <1>2, EntriesNumber, Zenon
<1>5. CASE ~ (MaxEntries > 0 /\ d.total_entries_num > MaxEntries)
  <2>1. res = [cache |-> d, evicted |-> {}]
    BY <1>1, <1>5, Zenon DEF MultiPut
  <2>2. res.cache = d /\ res.evicted = {}
    BY <2>1
  <2>3. WithinLimit(d)
    BY <1>4, <1>5, MultiLruAssumption DEF WithinLimit
  <2> QED
    BY <1>2, <2>2, <2>3, Zenon
<1>6. CASE MaxEntries > 0 /\ d.total_entries_num > MaxEntries
  <2> DEFINE L == d.lru_list
             M == d.entry_map
             stale == L[Len(L)].key
             q == M[stale]
             r == DeleteFirstEntries(d, stale, 1)
             V == {q[1].value}
  <2>1. res = [cache |-> r, evicted |-> V]
    BY <1>1, <1>6, Zenon DEF MultiPut
  <2>2. Matches(Nodes, Queued, L, M) /\ L \in Seq(Nodes) /\ Len(L) = d.total_entries_num
    BY <1>2, ListedValues, Zenon DEF Linked, Matches, MatchTypes
  <2>3. Len(L) \in DOMAIN L
    BY <1>3, <1>4, <2>2
  <2>4. stale \in DOMAIN M /\ q \in Seq(Queued) \ {<<>>}
    BY <2>2, <2>3, Zenon DEF Matches, MatchTypes, NodesQueued
  <2> HIDE DEF stale
  <2>5. 1 \in 0 .. Len(q)
    <3> HIDE DEF q
    <3>1. Len(q) \in Nat \ {0}
      BY <2>4, NotEmpty, Zenon
    <3> QED
      BY <3>1
  <2>6. V = FirstOf(d, stale, 1)
    <3>1. 1 .. 1 = {1}
      OBVIOUS
    <3> QED
      BY <3>1, Zenon DEF FirstOf
  <2>7. Linked(r) /\ AllValues(r) = AllValues(d) \ V /\ V \subseteq AllValues(d)
    <3>1. stale \in Stored(d)
      BY <2>4, Zenon DEF Stored
    <3> HIDE DEF V
    <3> QED
      BY <1>2, <2>5, <2>6, <3>1, DeleteFirstLinked, Zenon
  <2>8. r.total_entries_num = d.total_entries_num - 1
    <3>1. PICK t : t = d.total_entries_num - 1
      BY Zenon
    <3> QED
      BY <3>1, Zenon DEF DeleteFirstEntries
  <2>9. WithinLimit(r)
    <3> HIDE DEF r
    <3> QED
      BY <1>3, <1>4, <2>8, MultiLruAssumption DEF WithinLimit
  <2>10. res.cache = r /\ res.evicted = V
    BY <2>1
  <2> HIDE DEF r, V
  <2> QED
    BY <1>2, <2>7, <2>9, <2>10, Zenon
<1> QED
  BY <1>5, <1>6, Zenon

\* GetAndPop splits what it takes out into evicted values and the target.
LEMMA GetLinked ==
  ASSUME NEW c, Linked(c), WithinLimit(c), NEW k, NEW res, res = MultiGetAndPop(c, k)
  PROVE  /\ Linked(res.cache) /\ WithinLimit(res.cache)
         /\ res.evicted \subseteq AllValues(c) /\ res.target \subseteq AllValues(c)
         /\ res.target = {} \/ \E h \in AllValues(c) : res.target = {h} /\ h \notin res.evicted
         /\ AllValues(res.cache) = AllValues(c) \ (res.evicted \cup res.target)
<1>1. CASE k \notin Stored(c)
  <2>1. res = [cache |-> c, evicted |-> {}, target |-> {}]
    BY <1>1, Zenon DEF MultiGetAndPop
  <2>2. res.cache = c /\ res.evicted = {} /\ res.target = {}
    BY <2>1
  <2> QED
    BY <2>2, Zenon
<1>2. CASE k \in Stored(c)
  <2> DEFINE M == c.entry_map
             q == M[k]
             S == {m \in DOMAIN q : \A i \in 1 .. m : Stale(q[i])}
             n == Cardinality(S)
             evicted == {q[m].value : m \in 1 .. n}
             target == IF n < Len(q) THEN {q[n + 1].value} ELSE {}
             u == n + Cardinality(target)
             r == DeleteFirstEntries(c, k, u)
             V == FirstOf(c, k, u)
  <2>1. res = [cache |-> r, evicted |-> evicted, target |-> target]
    BY <1>2, Zenon DEF MultiGetAndPop
  <2>2. res.cache = r /\ res.evicted = evicted /\ res.target = target
    <3> HIDE DEF r, evicted, target
    <3> QED
      BY <2>1
  <2>3. Matches(Nodes, Queued, c.lru_list, M) /\ k \in DOMAIN M /\ q \in Seq(Queued)
    BY <1>2, Zenon DEF Linked, Matches, MatchTypes, Stored
  <2>4. n \in 0 .. Len(q)
    <3>1. S \in SUBSET (DOMAIN q)
      BY Zenon
    <3> HIDE DEF S
    <3>2. Len(q) \in Nat /\ DOMAIN q = 1 .. Len(q)
      BY <2>3
    <3>3. IsFiniteSet(DOMAIN q) /\ Cardinality(DOMAIN q) = Len(q)
      BY <3>2, Interval, Zenon
    <3>4. IsFiniteSet(S) /\ Cardinality(S) <= Len(q)
      BY <3>1, <3>3, FS_Subset, Zenon
    <3>5. Cardinality(S) \in Nat
      BY <3>4, FS_CardinalityType, Zenon
    <3> QED
      BY <3>2, <3>4, <3>5
  <2> HIDE DEF n
  <2>5. u \in 0 .. Len(q) /\ u = IF n < Len(q) THEN n + 1 ELSE n
    <3>1. Cardinality(target) = IF n < Len(q) THEN 1 ELSE 0
      BY FS_EmptySet, FS_Singleton, Zenon
    <3> HIDE DEF target
    <3> QED
      BY <2>3, <2>4, <3>1
  <2>6. V = evicted \cup target
    <3>1. CASE n < Len(q)
      <4>1. 1 .. u = (1 .. n) \cup {n + 1}
        BY <2>4, <2>5, <3>1
      <4> HIDE DEF u
      <4> QED
        BY <3>1, <4>1, Zenon DEF FirstOf
    <3>2. CASE ~ (n < Len(q))
      BY <2>5, <3>2, Zenon DEF FirstOf
    <3> QED
      BY <3>1, <3>2, Zenon
  <2>7. target = {} \/ \E h : target = {h} /\ h \notin evicted
    <3> SUFFICES ASSUME n < Len(q), q[n + 1].value \in evicted PROVE FALSE
      BY Zenon
    <3>1. PICK m \in 1 .. n : q[m].value = q[n + 1].value
      BY Zenon
    <3>2. m \in DOMAIN q /\ n + 1 \in DOMAIN q /\ m # n + 1
      BY <2>3, <2>4
    <3> QED
      BY <2>3, <3>1, <3>2, EntryOnce
  <2> HIDE DEF u
  <2>8. Linked(r) /\ AllValues(r) = AllValues(c) \ V /\ V \subseteq AllValues(c)
    BY <1>2, <2>5, DeleteFirstLinked, Zenon
  <2>9. WithinLimit(r)
    BY <2>8, SmallerLimit, Zenon
  <2> HIDE DEF r, V, evicted, target
  <2> QED
    BY <2>2, <2>6, <2>7, <2>8, <2>9, Zenon
<1> QED
  BY <1>1, <1>2, Zenon

\* The age of an entry changes, its value does not.
LEMMA OlderQueued ==
  ASSUME NEW e \in Queued
  PROVE  OlderEntry(e) \in Queued /\ OlderEntry(e).value = e.value
<1>1. e.age \in Nat
  BY Zenon DEF Queued
<1>2. PICK a \in Nat : a = IF e.age > Timeout THEN e.age ELSE e.age + 1
  BY <1>1
<1>3. OlderEntry(e) = [e EXCEPT !.age = a]
  BY <1>2, Zenon DEF OlderEntry
<1> QED
  BY <1>3, Zenon DEF Queued

\* One queue a clock step later.
LEMMA OlderQueue ==
  ASSUME NEW q \in Seq(Queued) \ {<<>>}, NEW p, p = [n \in DOMAIN q |-> OlderEntry(q[n])]
  PROVE  p \in Seq(Queued) \ {<<>>} /\ DOMAIN p = DOMAIN q /\ \A n \in DOMAIN q : p[n].value = q[n].value
<1>1. Len(q) \in Nat \ {0} /\ DOMAIN q = 1 .. Len(q) /\ \A n \in DOMAIN q : q[n] \in Queued
  <2>1. Len(q) \in Nat \ {0}
    BY NotEmpty, Zenon
  <2> QED
    BY <2>1
<1>2. DOMAIN p = DOMAIN q /\ \A n \in DOMAIN q : p[n] \in Queued /\ p[n].value = q[n].value
  BY <1>1, OlderQueued, Zenon
<1>3. p \in [1 .. Len(q) -> Queued]
  BY <1>1, <1>2, Zenon
<1>4. p \in Seq(Queued)
  BY <1>1, <1>3
<1>5. p # <<>>
  BY <1>1, <1>2
<1> QED
  BY <1>2, <1>4, <1>5, Zenon

\* The clock changes neither the entries nor their order.
LEMMA OlderLinked ==
  ASSUME NEW c, Linked(c)
  PROVE  /\ Linked(Older(c)) /\ AllValues(Older(c)) = AllValues(c)
         /\ WithinLimit(c) => WithinLimit(Older(c))
<1> DEFINE L == c.lru_list
           M == c.entry_map
           N == [k \in DOMAIN M |-> [n \in DOMAIN M[k] |-> OlderEntry(M[k][n])]]
<1>1. Matches(Nodes, Queued, L, M) /\ M \in [DOMAIN M -> Seq(Queued) \ {<<>>}]
  BY Zenon DEF Linked, Matches, MatchTypes
<1>2. SameValues(Queued, M, N)
  <2>1. ASSUME NEW k \in DOMAIN M
        PROVE  /\ N[k] \in Seq(Queued) \ {<<>>} /\ DOMAIN N[k] = DOMAIN M[k]
               /\ \A n \in DOMAIN M[k] : N[k][n].value = M[k][n].value
    <3>1. PICK q \in Seq(Queued) \ {<<>>} : q = M[k]
      BY <1>1, Zenon
    <3>2. PICK p : p = [n \in DOMAIN q |-> OlderEntry(q[n])]
      BY Zenon
    <3>3. p \in Seq(Queued) \ {<<>>} /\ DOMAIN p = DOMAIN q /\ \A n \in DOMAIN q : p[n].value = q[n].value
      BY <3>2, OlderQueue
    <3>4. N[k] = p
      BY <3>1, <3>2, Zenon
    <3> QED
      BY <3>1, <3>3, <3>4, Zenon
  <2>2. N \in [DOMAIN M -> Seq(Queued) \ {<<>>}] /\ DOMAIN N = DOMAIN M
    BY <2>1, Zenon
  <2> HIDE DEF N
  <2> QED
    BY <2>1, <2>2, Zenon DEF SameValues
<1>3. PICK r : r = Older(c)
  BY Zenon
<1>4. /\ r.lru_list = L /\ r.entry_map = N /\ r.total_entries_num = c.total_entries_num
      /\ r = [lru_list |-> r.lru_list, entry_map |-> r.entry_map,
              total_entries_num |-> r.total_entries_num]
  <2>1. r = [c EXCEPT !.entry_map = N]
    BY <1>3, Zenon DEF Older, Stored
  <2>2. c = [lru_list |-> L, entry_map |-> M, total_entries_num |-> c.total_entries_num]
    BY Zenon DEF Linked
  <2> HIDE DEF N
  <2>3. r = [lru_list |-> L, entry_map |-> N, total_entries_num |-> c.total_entries_num]
    BY <2>1, <2>2, Zenon
  <2> QED
    BY <2>3, Zenon
<1> HIDE DEF N
<1>5. ASSUME NEW k \in DOMAIN M, NEW h PROVE Has(N[k], h) <=> Has(M[k], h)
  BY <1>1, <1>2, SameMatches
<1>6. Matches(Nodes, Queued, L, N)
  BY <1>1, <1>2, SameMatches
<1>7. AllValues(r) = AllValues(c)
  <2>1. ASSUME NEW h PROVE h \in AllValues(r) <=> h \in AllValues(c)
    <3>1. DOMAIN N = DOMAIN M
      BY <1>2, Zenon DEF SameValues
    <3> QED
      BY <1>4, <1>5, <3>1, InAllValues, Zenon
  <2> QED
    BY <2>1, Zenon
<1>8. Linked(r)
  BY <1>4, <1>6, <1>7, Zenon DEF Linked
<1> QED
  BY <1>3, <1>4, <1>7, <1>8, Zenon DEF WithinLimit

\* A cache whose list and queues match, within the limit, is consistent.
LEMMA LinkedConsistent ==
  ASSUME NEW c, Linked(c), WithinLimit(c)
  PROVE  MultiLruConsistent(c) /\ Stored(c) \subseteq Keys
<1> DEFINE L == c.lru_list
           M == c.entry_map
<1>1. Matches(Nodes, Queued, L, M) /\ M \in [DOMAIN M -> Seq(Queued) \ {<<>>}]
  BY Zenon DEF Linked, Matches, MatchTypes
<1>2. Verify(c)
  BY <1>1, ListedValues, Zenon DEF Verify, Stored, Linked
<1>3. {node.key : node \in Range(L)} = DOMAIN M
  <2>1. ASSUME NEW node \in Range(L) PROVE node.key \in DOMAIN M
    BY <1>1, Zenon DEF Range, Matches, NodesQueued
  <2>2. ASSUME NEW k \in DOMAIN M PROVE \E node \in Range(L) : node.key = k
    <3>1. M[k] \in Seq(Queued) /\ Len(M[k]) \in Nat \ {0}
      BY <1>1, NotEmpty, Zenon
    <3>2. 1 \in DOMAIN M[k]
      BY <3>1
    <3>3. PICK i \in DOMAIN L : L[i].key = k
      BY <1>1, <3>2, Zenon DEF Matches, EntriesListed
    <3> QED
      BY <3>3, Zenon DEF Range
  <2> QED
    BY <2>1, <2>2, Zenon
<1>4. ASSUME NEW k \in DOMAIN M
      PROVE  LET nodes == Kept(L, {i \in DOMAIN L : L[i].key = k})
             IN  /\ Len(nodes) = Len(M[k])
                 /\ \A n \in DOMAIN M[k] : nodes[Len(nodes) + 1 - n].value = M[k][n].value
  <2> DEFINE nodes == Kept(L, {i \in DOMAIN L : L[i].key = k})
  <2>1. nodes = Kept(L, KeyNodes(L, k))
    BY Zenon DEF KeyNodes
  <2>2. /\ Len(Kept(L, KeyNodes(L, k))) = Len(M[k])
        /\ \A n \in DOMAIN M[k] :
             Kept(L, KeyNodes(L, k))[Len(M[k]) + 1 - n].value = M[k][n].value
    BY <1>1, NodesOfKey
  <2> HIDE DEF nodes
  <2>3. Len(nodes) = Len(M[k])
    BY <2>1, <2>2, Zenon
  <2>4. \A n \in DOMAIN M[k] : nodes[Len(nodes) + 1 - n].value = M[k][n].value
    <3>1. \A n \in DOMAIN M[k] : nodes[Len(M[k]) + 1 - n].value = M[k][n].value
      BY <2>1, <2>2, Zenon
    <3> QED
      BY <2>3, <3>1, Zenon
  <2> QED
    BY <2>3, <2>4, Zenon DEF nodes
<1>5. MultiLruConsistent(c)
  BY <1>2, <1>3, <1>4, Zenon DEF MultiLruConsistent, WithinLimit, Stored
<1>6. Stored(c) \subseteq Keys
  <2>1. L \in Seq(Nodes)
    BY <1>1, Zenon DEF Matches, MatchTypes
  <2>2. ASSUME NEW node \in Range(L) PROVE node.key \in Keys
    <3>1. \A i \in DOMAIN L : L[i] \in Nodes
      BY <2>1
    <3> QED
      BY <3>1, Zenon DEF Range, Nodes
  <2> QED
    BY <1>3, <2>2, Zenon DEF Stored
<1> QED
  BY <1>5, <1>6, Zenon

-----------------------------------------------------------------------------
(* Who owns an open handle. *)

\* Between the open of the internal handle, or the cache hit, and the destructor
\* callback the wrapper has the handle; from the capture to the end of the
\* callback it refers to a cache.
Holding == {"count", "capture", "capture2", "using"}
Capturing == {"capture2", "using", "uncount"}

Wrapped ==
  /\ ControlTypeOK /\ internal_file_handle \in [Clients -> Handles \cup {Null}]
  /\ \A c \in Clients :
       /\ internal_file_handle[c] = Null <=> pc[c] \notin Holding
       /\ pc[c] \notin {"idle"} \cup Clearing => key[c] \in Keys
       /\ pc[c] \notin Capturing => captured_cache[c] = Null

Stores ==
  /\ caches = [g \in Objects |-> caches[g]]
  /\ \A g \in Objects : Linked(caches[g]) /\ WithinLimit(caches[g])

\* A cache that nobody refers to has no entries.
FreeEmpty == \A g \in Objects : FreeCache(g) => AllValues(caches[g]) = {}

Values(cs) == [g \in Objects |-> AllValues(cs[g])]

\* H are the handles of the wrappers, V the values of the caches, O the open handles.
Owned(H, V, O) ==
  /\ \A c \in Clients : H[c] # Null => H[c] \in O
  /\ \A c, d \in Clients : H[c] = H[d] /\ H[c] # Null => c = d
  /\ \A g \in Objects : V[g] \subseteq O
  /\ \A g, e \in Objects : \A h \in V[g] : h \in V[e] => g = e
  /\ \A c \in Clients, g \in Objects : H[c] \notin V[g]
  /\ \A h \in O : (\E c \in Clients : H[c] = h) \/ (\E g \in Objects : h \in V[g])

HandleInv ==
  /\ Wrapped /\ Stores /\ FreeEmpty /\ opened \subseteq Handles
  /\ Owned(internal_file_handle, Values(caches), opened)

\* Function G is F with x at c.
Set1(G, F, D, c, x) == \A d \in D : G[d] = IF d = c THEN x ELSE F[d]

\* Values of cache g are closed: they leave the cache and the open handles.
LEMMA CloseOwned ==
  ASSUME NEW H, NEW V, NEW O, Owned(H, V, O), NEW g \in Objects, NEW X, X \subseteq V[g],
         NEW W, Set1(W, V, Objects, g, V[g] \ X)
  PROVE  Owned(H, W, O \ X)
<1>1. \A c \in Clients : H[c] # Null => H[c] \in O \ X
  BY Zenon DEF Owned
<1>2. \A c, d \in Clients : H[c] = H[d] /\ H[c] # Null => c = d
  BY Zenon DEF Owned
<1>3. \A e \in Objects : W[e] \subseteq V[e] /\ W[e] \cap X = {}
  BY Zenon DEF Owned, Set1
<1>4. \A e \in Objects : W[e] \subseteq O \ X
  BY <1>3, Zenon DEF Owned
<1>5. \A d, e \in Objects : \A h \in W[d] : h \in W[e] => d = e
  BY <1>3, Zenon DEF Owned
<1>6. \A c \in Clients, e \in Objects : H[c] \notin W[e]
  BY <1>3, Zenon DEF Owned
<1>7. ASSUME NEW h \in O \ X
      PROVE  (\E c \in Clients : H[c] = h) \/ (\E e \in Objects : h \in W[e])
  <2>1. CASE \E c \in Clients : H[c] = h
    BY <2>1, Zenon
  <2>2. CASE \E e \in Objects : h \in V[e]
    BY <2>2, Zenon DEF Set1
  <2> QED
    BY <2>1, <2>2, Zenon DEF Owned
<1> QED
  BY <1>1, <1>2, <1>4, <1>5, <1>6, <1>7, Zenon DEF Owned

\* A value moves from a cache to a wrapper.
LEMMA TakeOwned ==
  ASSUME NEW H, NEW V, NEW O, Owned(H, V, O), Null \notin O, NEW g \in Objects, NEW h \in V[g],
         NEW c \in Clients, H[c] = Null,
         NEW W, Set1(W, V, Objects, g, V[g] \ {h}), NEW G, Set1(G, H, Clients, c, h)
  PROVE  Owned(G, W, O)
<1>1. h \in O
  BY Zenon DEF Owned
<1>2. \A d \in Clients : G[d] # Null => G[d] \in O
  BY <1>1, Zenon DEF Owned, Set1
<1>3. \A d, e \in Clients : G[d] = G[e] /\ G[d] # Null => d = e
  BY DEF Owned, Set1
<1>4. \A e \in Objects : W[e] \subseteq V[e] /\ h \notin W[e]
  BY Zenon DEF Owned, Set1
<1>5. \A e \in Objects : W[e] \subseteq O
  BY <1>4, Zenon DEF Owned
<1>6. \A d, e \in Objects : \A x \in W[d] : x \in W[e] => d = e
  BY <1>4, Zenon DEF Owned
<1>7. \A d \in Clients, e \in Objects : G[d] \notin W[e]
  BY <1>4 DEF Owned, Set1
<1>8. ASSUME NEW x \in O
      PROVE  (\E d \in Clients : G[d] = x) \/ (\E e \in Objects : x \in W[e])
  <2>1. CASE x = h
    BY <2>1, Zenon DEF Set1
  <2>2. CASE x # h /\ \E d \in Clients : H[d] = x
    BY <2>2, Zenon DEF Set1
  <2>4. CASE x # h /\ \E e \in Objects : x \in V[e]
    BY <2>4, Zenon DEF Set1
  <2> QED
    BY <2>1, <2>2, <2>4, Zenon DEF Owned
<1> QED
  BY <1>2, <1>3, <1>5, <1>6, <1>7, <1>8, Zenon DEF Owned

\* The handle of a wrapper moves to a cache.
LEMMA GiveOwned ==
  ASSUME NEW H, NEW V, NEW O, Owned(H, V, O), Null \notin O, NEW g \in Objects,
         NEW c \in Clients, H[c] # Null,
         NEW W, Set1(W, V, Objects, g, V[g] \cup {H[c]}), NEW G, Set1(G, H, Clients, c, Null)
  PROVE  Owned(G, W, O)
<1> DEFINE h == H[c]
<1>1. h \in O
  BY Zenon DEF Owned
<1>2. \A d \in Clients : G[d] # Null => G[d] \in O
  BY Zenon DEF Owned, Set1
<1>3. \A d, e \in Clients : G[d] = G[e] /\ G[d] # Null => d = e
  BY Zenon DEF Owned, Set1
<1>4. \A e \in Objects : W[e] \subseteq O
  BY <1>1 DEF Owned, Set1
<1>5. \A d, e \in Objects : \A x \in W[d] : x \in W[e] => d = e
  BY DEF Owned, Set1
<1>6. \A d \in Clients, e \in Objects : G[d] \notin W[e]
  <2> SUFFICES ASSUME NEW d \in Clients, NEW e \in Objects, G[d] \in W[e] PROVE FALSE
    BY Zenon
  <2>1. G[d] \in O
    BY <1>4, Zenon
  <2>2. d # c /\ G[d] = H[d]
    BY <2>1, Zenon DEF Set1
  <2>3. H[d] # H[c]
    BY <2>2, Zenon DEF Owned
  <2> QED
    BY <2>2, <2>3 DEF Owned, Set1
<1>7. ASSUME NEW x \in O
      PROVE  (\E d \in Clients : G[d] = x) \/ (\E e \in Objects : x \in W[e])
  <2>1. CASE x = h
    BY <2>1, Zenon DEF Set1
  <2>2. CASE x # h /\ \E d \in Clients : H[d] = x
    BY <2>2, Zenon DEF Set1
  <2>3. CASE \E e \in Objects : x \in V[e]
    BY <2>3, Zenon DEF Set1
  <2> QED
    BY <2>1, <2>2, <2>3, Zenon DEF Owned
<1> QED
  BY <1>2, <1>3, <1>4, <1>5, <1>6, <1>7, Zenon DEF Owned

\* A wrapper opens a handle, or the handle goes with its wrapper.
LEMMA OpenOwned ==
  ASSUME NEW H, NEW V, NEW O, Owned(H, V, O), NEW c \in Clients, H[c] = Null,
         Null \notin O, NEW h, h \notin O, h # Null, NEW G, Set1(G, H, Clients, c, h)
  PROVE  Owned(G, V, O \cup {h})
<1>1. \A d \in Clients : G[d] # Null => G[d] \in O \cup {h}
  BY Zenon DEF Owned, Set1
<1>2. \A d, e \in Clients : G[d] = G[e] /\ G[d] # Null => d = e
  BY DEF Owned, Set1
<1>3. \A d \in Clients, e \in Objects : G[d] \notin V[e]
  BY DEF Owned, Set1
<1>4. ASSUME NEW x \in O \cup {h}
      PROVE  (\E d \in Clients : G[d] = x) \/ (\E e \in Objects : x \in V[e])
  <2>1. CASE x = h
    BY <2>1, Zenon DEF Set1
  <2>2. CASE x # Null /\ \E d \in Clients : H[d] = x
    BY <2>2, Zenon DEF Set1
  <2> QED
    BY <2>1, <2>2, Zenon DEF Owned
<1> QED
  BY <1>1, <1>2, <1>3, <1>4, Zenon DEF Owned

\* A handle that was not put into a cache is destroyed with its wrapper.
LEMMA DropOwned ==
  ASSUME NEW H, NEW V, NEW O, Owned(H, V, O), NEW c \in Clients, H[c] # Null,
         NEW G, Set1(G, H, Clients, c, Null), Null \notin O
  PROVE  Owned(G, V, O \ {H[c]})
<1>1. \A d \in Clients : G[d] # Null => G[d] \in O \ {H[c]}
  BY Zenon DEF Owned, Set1
<1>2. \A d, e \in Clients : G[d] = G[e] /\ G[d] # Null => d = e
  BY Zenon DEF Owned, Set1
<1>3. \A e \in Objects : V[e] \subseteq O \ {H[c]}
  BY DEF Owned
<1>4. \A d \in Clients, e \in Objects : G[d] \notin V[e]
  BY DEF Owned, Set1
<1>5. ASSUME NEW x \in O \ {H[c]}
      PROVE  (\E d \in Clients : G[d] = x) \/ (\E e \in Objects : x \in V[e])
  BY Zenon DEF Owned, Set1
<1> QED
  BY <1>1, <1>2, <1>3, <1>4, <1>5, Zenon DEF Owned

\* Cache g is replaced by r.
LEMMA Replaced ==
  ASSUME Stores, NEW g \in Objects, NEW r, Linked(r), WithinLimit(r),
         caches' = [caches EXCEPT ![g] = r]
  PROVE  /\ Stores' /\ Set1(Values(caches'), Values(caches), Objects, g, AllValues(r))
         /\ \A e \in Objects : AllValues(caches'[e]) = IF e = g THEN AllValues(r)
                                                                 ELSE AllValues(caches[e])
<1>1. caches' = [e \in Objects |-> IF e = g THEN r ELSE caches[e]]
  BY Zenon DEF Stores
<1>2. \A e \in Objects : caches'[e] = IF e = g THEN r ELSE caches[e]
  BY <1>1, Zenon
<1>3. caches' = [e \in Objects |-> caches'[e]]
  BY <1>1, Zenon
<1>4. \A e \in Objects : Linked(caches'[e]) /\ WithinLimit(caches'[e])
  BY <1>2, Zenon DEF Stores
<1>5. \A e \in Objects : AllValues(caches'[e]) = IF e = g THEN AllValues(r) ELSE AllValues(caches[e])
  <2>1. caches'[g] = r /\ \A e \in Objects : e # g => caches'[e] = caches[e]
    BY <1>2, Zenon
  <2>2. AllValues(caches'[g]) = AllValues(r)
    BY <2>1, Zenon
  <2>3. ASSUME NEW e \in Objects, e # g PROVE AllValues(caches'[e]) = AllValues(caches[e])
    BY <2>1, <2>3, Zenon
  <2> QED
    BY <2>2, <2>3, Zenon
<1>6. Stores'
  BY <1>3, <1>4, Zenon DEF Stores
<1>7. Set1(Values(caches'), Values(caches), Objects, g, AllValues(r))
  BY <1>5, Zenon DEF Set1, Values
<1> QED
  BY <1>5, <1>6, <1>7, Zenon

\* Null is no handle.
LEMMA OpenHandles ==
  ASSUME opened \subseteq Handles
  PROVE  Null \notin opened /\ Null \notin Handles
BY HandleAssumption, Zenon

\* A step that leaves the handles where they are.
LEMMA SameHandles ==
  ASSUME HandleInv, Wrapped', UNCHANGED <<caches, opened, internal_file_handle>>,
         \A e \in Objects : FreeCache(e)' => FreeCache(e)
  PROVE  HandleInv'
<1>1. Stores' /\ FreeEmpty'
  BY Zenon DEF HandleInv, Stores, FreeEmpty
<1> QED
  BY <1>1, Zenon DEF HandleInv

\* A step that closes values X of cache g.
LEMMA ClosedHandles ==
  ASSUME HandleInv, Wrapped', NEW g \in Objects, NEW r, Linked(r), WithinLimit(r),
         NEW X, X \subseteq AllValues(caches[g]), AllValues(r) = AllValues(caches[g]) \ X,
         caches' = [caches EXCEPT ![g] = r], opened' = opened \ X,
         UNCHANGED internal_file_handle,
         \A e \in Objects : FreeCache(e)' => FreeCache(e) \/ (e = g /\ AllValues(r) = {})
  PROVE  HandleInv'
<1>1. /\ Stores' /\ Set1(Values(caches'), Values(caches), Objects, g, AllValues(r))
      /\ \A e \in Objects : AllValues(caches'[e]) = IF e = g THEN AllValues(r)
                                                              ELSE AllValues(caches[e])
  BY Replaced, Zenon DEF HandleInv
<1>2. FreeEmpty'
  BY <1>1, Zenon DEF HandleInv, FreeEmpty
<1>3. opened' \subseteq Handles
  BY Zenon DEF HandleInv
<1>4. Owned(internal_file_handle, Values(caches'), opened \ X)
  <2>1. Values(caches)[g] = AllValues(caches[g])
    BY Zenon DEF Values
  <2>2. X \subseteq Values(caches)[g]
        /\ Set1(Values(caches'), Values(caches), Objects, g, Values(caches)[g] \ X)
    BY <1>1, <2>1, Zenon
  <2>3. Owned(internal_file_handle, Values(caches), opened)
    BY Zenon DEF HandleInv
  <2> QED
    BY <2>2, <2>3, CloseOwned
<1> QED
  BY <1>1, <1>2, <1>3, <1>4, Zenon DEF HandleInv

\* A step that empties cache g and closes what was in it.
LEMMA EmptiedCache ==
  ASSUME HandleInv, Wrapped', NEW g \in Objects,
         caches' = [caches EXCEPT ![g] = EmptyMultiCache], opened' = opened \ AllValues(caches[g]),
         UNCHANGED internal_file_handle,
         \A e \in Objects : FreeCache(e)' => FreeCache(e) \/ e = g
  PROVE  HandleInv'
<1>1. Linked(EmptyMultiCache) /\ AllValues(EmptyMultiCache) = {}
  BY EmptyLinked, Zenon
<1>2. WithinLimit(EmptyMultiCache)
  <2>1. EmptyMultiCache.total_entries_num = 0
    BY Zenon DEF EmptyMultiCache
  <2> QED
    BY <2>1, MultiLruAssumption DEF WithinLimit
<1>3. AllValues(EmptyMultiCache) = AllValues(caches[g]) \ AllValues(caches[g])
  BY <1>1, Zenon
<1>4. PICK r : r = EmptyMultiCache
  BY Zenon
<1>5. PICK X : X = AllValues(caches[g])
  BY Zenon
<1> QED
  BY <1>1, <1>2, <1>3, <1>4, <1>5, ClosedHandles

\* Nothing is open at first.
LEMMA InitHandles == Init => HandleInv
<1> SUFFICES ASSUME Init PROVE HandleInv
  OBVIOUS
<1>1. Wrapped
  BY HandleAssumption DEF Init, Wrapped, ControlTypeOK, Holding, Capturing, Opening, Clearing
<1>2. \A g \in Objects : caches[g] = EmptyMultiCache
  BY Zenon DEF Init
<1>3. WithinLimit(EmptyMultiCache)
  <2>1. EmptyMultiCache.total_entries_num = 0
    BY Zenon DEF EmptyMultiCache
  <2> QED
    BY <2>1, MultiLruAssumption DEF WithinLimit
<1>4. Stores
  <2>1. caches = [g \in Objects |-> caches[g]]
    BY Zenon DEF Init
  <2> QED
    BY <1>2, <1>3, <2>1, EmptyLinked, Zenon DEF Stores
<1>5. \A g \in Objects : AllValues(caches[g]) = {}
  BY <1>2, EmptyLinked, Zenon
<1>6. FreeEmpty /\ opened = {} /\ \A g \in Objects : Values(caches)[g] = {}
  BY <1>5, Zenon DEF FreeEmpty, Init, Values
<1>7. Owned(internal_file_handle, Values(caches), opened)
  BY <1>6, Zenon DEF Owned, Init
<1> QED
  BY <1>1, <1>4, <1>6, <1>7, Zenon DEF HandleInv

\* A reference to cache g goes, the other references to it are those of "others".
LEMMA ForgetHandles ==
  ASSUME HandleInv, Wrapped', UNCHANGED internal_file_handle,
         NEW g \in Objects \cup {Null}, NEW others, Forget(g, others),
         \A e \in Objects : FreeCache(e)' => FreeCache(e) \/ (e = g /\ e \notin others)
  PROVE  HandleInv'
<1>1. CASE g # Null /\ g \notin others
  <2>1. /\ g \in Objects /\ opened' = opened \ AllValues(caches[g])
        /\ caches' = [caches EXCEPT ![g] = EmptyMultiCache]
    BY <1>1, Zenon DEF Forget
  <2>2. \A e \in Objects : FreeCache(e)' => FreeCache(e) \/ e = g
    BY Zenon
  <2> QED
    BY <2>1, <2>2, EmptiedCache, Zenon
<1>2. CASE ~ (g # Null /\ g \notin others)
  <2>1. UNCHANGED <<caches, opened, internal_file_handle>>
    BY <1>2, Zenon DEF Forget
  <2>2. \A e \in Objects : FreeCache(e)' => FreeCache(e)
    BY <1>2, HandleAssumption, Zenon
  <2> QED
    BY <2>1, <2>2, SameHandles, Zenon
<1> QED
  BY <1>1, <1>2, Zenon

\* The control of every step keeps the shape of the wrappers.
LEMMA WrappedStep ==
  ASSUME Wrapped, NEW c \in Clients,
         \/ MakeCache(c) \/ MakeCounter(c) \/ Disable(c) \/ NullCache(c) \/ NullCounter(c)
         \/ CountMiss(c) \/ Count(c) \/ CaptureCache(c) \/ CaptureCounter(c)
         \/ Uncount(c) \/ StartClear(c) \/ \E k \in Keys : OpenFile(c, k)
  PROVE  Wrapped'
<1> USE HandleAssumption
<1>1. CASE MakeCache(c)
  <2>1. /\ pc[c] = "init" /\ pc' = [pc EXCEPT ![c] = "counter"]
        /\ file_handle_cache' \in Objects \cup {Null}
        /\ UNCHANGED <<settings, in_use_file_handle_counter, counters, cache_reader_mutex, wrapper>>
    BY <1>1, Zenon DEF MakeCache, Go, Wrapped, ControlTypeOK
  <2> QED
    BY <2>1 DEF Wrapped, ControlTypeOK, Holding, Capturing, Opening, Clearing, settings, wrapper
<1>2. CASE MakeCounter(c)
  <2>1. /\ pc[c] = "counter" /\ pc' = [pc EXCEPT ![c] = "lookup"] /\ cache_reader_mutex' = Null
        /\ in_use_file_handle_counter' \in Objects \cup {Null}
        /\ counters' \in [Objects -> [Keys -> Nat]]
        /\ UNCHANGED <<settings, file_handle_cache, wrapper>>
    <3>1. CASE in_use_file_handle_counter = Null
      <4>1. PICK g \in Objects : in_use_file_handle_counter' = g
                                 /\ counters' = [counters EXCEPT ![g] = [k \in Keys |-> 0]]
        BY <1>2, <3>1, Zenon DEF MakeCounter
      <4>2. counters' \in [Objects -> [Keys -> Nat]]
        BY <4>1 DEF Wrapped, ControlTypeOK
      <4> QED
        BY <1>2, <4>1, <4>2, Zenon DEF MakeCounter, Go
    <3>2. CASE in_use_file_handle_counter # Null
      BY <1>2, <3>2, Zenon DEF MakeCounter, Go, Wrapped, ControlTypeOK
    <3> QED
      BY <3>1, <3>2, Zenon
  <2> QED
    BY <2>1 DEF Wrapped, ControlTypeOK, Holding, Capturing, Opening, Clearing, settings, wrapper
<1>3. CASE Disable(c)
  <2>1. /\ pc[c] = "init" /\ cache_reader_mutex' \in {Null, cache_reader_mutex}
        /\ Go(c, "lookup") \/ Go(c, "nullcache")
        /\ UNCHANGED <<settings, members, counters, wrapper>>
    BY <1>3, Zenon DEF Disable
  <2> QED
    BY <2>1 DEF Wrapped, ControlTypeOK, Holding, Capturing, Opening, Clearing, settings, members,
                wrapper, Go
<1>4. CASE NullCache(c)
  <2>1. /\ pc[c] = "nullcache" /\ Go(c, "nullcounter") /\ file_handle_cache' = Null
        /\ UNCHANGED <<settings, in_use_file_handle_counter, counters, cache_reader_mutex, wrapper>>
    BY <1>4, Zenon DEF NullCache
  <2> QED
    BY <2>1 DEF Wrapped, ControlTypeOK, Holding, Capturing, Opening, Clearing, settings, wrapper, Go
<1>5. CASE NullCounter(c)
  BY <1>5 DEF NullCounter, Wrapped, ControlTypeOK, Holding, Capturing, Opening, Clearing, settings,
              wrapper, Go
<1>6. CASE CountMiss(c)
  BY <1>6 DEF CountMiss, Wrapped, ControlTypeOK, Holding, Capturing, Opening, Clearing, settings,
              members, wrapper, Go
<1>7. CASE Count(c)
  <2>1. counters' \in [Objects -> [Keys -> Nat]] /\ counted' \in [Clients -> Objects \cup {Null}]
    <3>1. CASE in_use_file_handle_counter # Null
      <4>1. PICK g \in Objects : /\ g = in_use_file_handle_counter
                                 /\ Increment(g, key[c]) /\ counted' = [counted EXCEPT ![c] = g]
        BY <1>7, <3>1, Zenon DEF Count, Wrapped, ControlTypeOK
      <4>2. counters[g] \in [Keys -> Nat] /\ key[c] \in Keys
        BY <1>7, Zenon DEF Count, Wrapped, ControlTypeOK, Clearing
      <4>3. PICK n \in Nat : n = counters[g][key[c]] + 1
        <5>1. counters[g][key[c]] \in Nat
          BY <4>2, Zenon
        <5>2. counters[g][key[c]] + 1 \in Nat
          BY <5>1
        <5> QED
          BY <5>2, Zenon
      <4>4. counters' = [counters EXCEPT ![g] = [counters[g] EXCEPT ![key[c]] = n]]
        BY <4>1, <4>3, Zenon DEF Increment, GetCount
      <4>5. counters' \in [Objects -> [Keys -> Nat]]
        BY <4>2, <4>4, Zenon DEF Wrapped, ControlTypeOK
      <4> QED
        BY <4>1, <4>5, Zenon DEF Wrapped, ControlTypeOK
    <3>2. CASE in_use_file_handle_counter = Null
      BY <1>7, <3>2, Zenon DEF Count, Wrapped, ControlTypeOK
    <3> QED
      BY <3>1, <3>2, Zenon
  <2>2. /\ pc[c] = "count" /\ Go(c, "capture")
        /\ UNCHANGED <<settings, members, cache_reader_mutex, key, internal_file_handle,
                       captured_cache, captured_counter>>
    BY <1>7, Zenon DEF Count
  <2> QED
    BY <2>1, <2>2 DEF Wrapped, ControlTypeOK, Holding, Capturing, Opening, Clearing, settings,
                      members, Go
<1>8. CASE CaptureCache(c)
  BY <1>8 DEF CaptureCache, Wrapped, ControlTypeOK, Holding, Capturing, Opening, Clearing, settings,
              members, Go
<1>9. CASE CaptureCounter(c)
  BY <1>9 DEF CaptureCounter, Wrapped, ControlTypeOK, Holding, Capturing, Opening, Clearing, settings,
              members, Go
<1>10. CASE Uncount(c)
  <2>1. counters' \in [Objects -> [Keys -> Nat]]
    <3>1. PICK g \in Objects : Decrement(g, key[c])
      BY <1>10, Zenon DEF Uncount, Wrapped, ControlTypeOK
    <3>2. counters[g] \in [Keys -> Nat] /\ key[c] \in Keys
      BY <1>10, Zenon DEF Uncount, Wrapped, ControlTypeOK, Clearing
    <3>3. PICK n \in Nat : n = counters[g][key[c]] - 1
      BY <3>1, <3>2 DEF Decrement, GetCount
    <3>4. counters' = [counters EXCEPT ![g] = [counters[g] EXCEPT ![key[c]] = n]]
      BY <3>1, <3>3, Zenon DEF Decrement, GetCount
    <3> QED
      BY <3>2, <3>4, Zenon DEF Wrapped, ControlTypeOK
  <2>2. /\ pc[c] = "uncount" /\ Go(c, "idle")
        /\ captured_cache' = [captured_cache EXCEPT ![c] = Null]
        /\ captured_counter' = [captured_counter EXCEPT ![c] = Null]
        /\ counted' = [counted EXCEPT ![c] = Null]
        /\ key' = [key EXCEPT ![c] = NoKey]
        /\ UNCHANGED <<settings, members, cache_reader_mutex, internal_file_handle>>
    BY <1>10, Zenon DEF Uncount
  <2> QED
    BY <2>1, <2>2 DEF Wrapped, ControlTypeOK, Holding, Capturing, Opening, Clearing, settings,
                      members, Go
<1>11. CASE StartClear(c)
  <2>1. /\ pc[c] = "idle" /\ Go(c, "nullcache")
        /\ UNCHANGED <<settings, members, counters, cache_reader_mutex, wrapper>>
    BY <1>11, Zenon DEF StartClear
  <2> QED
    BY <2>1 DEF Wrapped, ControlTypeOK, Holding, Capturing, Opening, Clearing, settings, members,
                wrapper, Go
<1>12. CASE \E k \in Keys : OpenFile(c, k)
  <2>1. PICK k \in Keys : OpenFile(c, k)
    BY <1>12, Zenon
  <2> QED
    BY <2>1 DEF OpenFile, Wrapped, ControlTypeOK, Holding, Capturing, Opening, Clearing, settings,
                members, Go
<1> QED
  BY <1>1, <1>2, <1>3, <1>4, <1>5, <1>6, <1>7, <1>8, <1>9, <1>10, <1>11, <1>12, Zenon

\* The steps that make, count and capture: no handle moves.
LEMMA QuietHandles ==
  ASSUME HandleInv, NEW c \in Clients,
         \/ MakeCounter(c) \/ NullCounter(c) \/ CountMiss(c) \/ Count(c)
         \/ CaptureCache(c) \/ CaptureCounter(c) \/ \E k \in Keys : OpenFile(c, k)
  PROVE  HandleInv'
<1>1. Wrapped /\ Wrapped'
  BY WrappedStep, Zenon DEF HandleInv
<1>2. UNCHANGED <<caches, opened, internal_file_handle>>
  BY Zenon DEF MakeCounter, NullCounter, CountMiss, Count, CaptureCache, CaptureCounter, OpenFile,
               wrapper
<1>3. UNCHANGED file_handle_cache
  BY Zenon DEF MakeCounter, NullCounter, CountMiss, Count, CaptureCache, CaptureCounter, OpenFile,
               members
<1>4. ASSUME NEW e \in Objects, FreeCache(e)' PROVE FreeCache(e)
  <2>1. CASE CaptureCache(c)
    <3>1. captured_cache[c] = Null
      BY <1>1, <2>1, Zenon DEF CaptureCache, Wrapped, Capturing
    <3>2. \A d \in Clients : d # c => captured_cache'[d] = captured_cache[d]
      BY <1>1, <2>1, Zenon DEF CaptureCache, Wrapped, ControlTypeOK
    <3> QED
      BY <1>3, <1>4, <3>1, <3>2, HandleAssumption, Zenon DEF FreeCache
  <2>2. CASE UNCHANGED captured_cache
    BY <1>3, <1>4, <2>2, Zenon DEF FreeCache
  <2> QED
    BY <2>1, <2>2, Zenon DEF MakeCounter, NullCounter, CountMiss, Count, CaptureCounter, OpenFile,
                             wrapper
<1> QED
  BY <1>1, <1>2, <1>4, SameHandles, Zenon

\* The steps that make, empty and forget a cache.
LEMMA CacheHandles ==
  ASSUME HandleInv, NEW c \in Clients,
         \/ MakeCache(c) \/ Disable(c) \/ StartClear(c) \/ NullCache(c) \/ Uncount(c)
  PROVE  HandleInv'
<1>1. Wrapped /\ Wrapped' /\ FreeEmpty
  BY WrappedStep, Zenon DEF HandleInv
<1>2. file_handle_cache \in Objects \cup {Null} /\ captured_cache \in [Clients -> Objects \cup {Null}]
  BY <1>1, Zenon DEF Wrapped, ControlTypeOK
<1>3. UNCHANGED internal_file_handle
  BY Zenon DEF MakeCache, Disable, StartClear, NullCache, Uncount, wrapper
<1>4. ASSUME UNCHANGED <<file_handle_cache, captured_cache>>
      PROVE  \A e \in Objects : FreeCache(e)' => FreeCache(e)
  BY <1>4, Zenon DEF FreeCache
<1>5. ASSUME CloseAll, file_handle_cache # Null, UNCHANGED <<file_handle_cache, captured_cache>>
      PROVE  HandleInv'
  <2>1. PICK g \in Objects : g = file_handle_cache
    BY <1>2, <1>5, Zenon
  <2>2. /\ caches' = [caches EXCEPT ![g] = EmptyMultiCache]
        /\ opened' = opened \ AllValues(caches[g])
    BY <1>5, <2>1, Zenon DEF CloseAll
  <2>3. \A e \in Objects : FreeCache(e)' => FreeCache(e) \/ e = g
    BY <1>4, <1>5, Zenon
  <2> QED
    BY <1>1, <1>3, <2>2, <2>3, EmptiedCache, Zenon
<1>6. CASE MakeCache(c)
  <2>1. CASE file_handle_cache = Null
    <3>1. PICK g \in Objects : /\ FreeCache(g) /\ file_handle_cache' = g
                               /\ caches' = [caches EXCEPT ![g] = EmptyMultiCache]
      BY <1>6, <2>1, Zenon DEF MakeCache
    <3>2. UNCHANGED <<opened, captured_cache>>
      BY <1>6, Zenon DEF MakeCache, wrapper
    <3>3. AllValues(caches[g]) = {}
      BY <1>1, <3>1, Zenon DEF FreeEmpty
    <3>4. opened' = opened \ AllValues(caches[g])
      BY <3>2, <3>3, Zenon
    <3>5. \A e \in Objects : FreeCache(e)' => FreeCache(e) \/ e = g
      BY <2>1, <3>2, HandleAssumption, Zenon DEF FreeCache
    <3> QED
      BY <1>1, <1>3, <3>1, <3>4, <3>5, EmptiedCache, Zenon
  <2>2. CASE file_handle_cache # Null
    <3>1. UNCHANGED <<file_handle_cache, caches, opened, captured_cache>>
      BY <1>6, <2>2, Zenon DEF MakeCache, wrapper
    <3> QED
      BY <1>1, <1>3, <1>4, <3>1, SameHandles, Zenon
  <2> QED
    BY <2>1, <2>2, Zenon
<1>7. CASE Disable(c)
  <2>1. UNCHANGED <<file_handle_cache, captured_cache>>
    BY <1>7, Zenon DEF Disable, members, wrapper
  <2>2. CASE file_handle_cache = Null
    <3>1. UNCHANGED <<caches, opened>>
      BY <1>7, <2>2, Zenon DEF Disable
    <3> QED
      BY <1>1, <1>3, <1>4, <2>1, <3>1, SameHandles, Zenon
  <2>3. CASE file_handle_cache # Null
    BY <1>5, <1>7, <2>1, <2>3, Zenon DEF Disable
  <2> QED
    BY <2>2, <2>3, Zenon
<1>8. CASE StartClear(c)
  BY <1>5, <1>8, Zenon DEF StartClear, members, wrapper
<1>9. CASE NullCache(c)
  <2>1. PICK g \in Objects \cup {Null} : g = file_handle_cache
    BY <1>2, Zenon
  <2>2. PICK others : others = {captured_cache[u] : u \in Clients}
    BY Zenon
  <2>3. Forget(g, others) /\ UNCHANGED captured_cache
    BY <1>9, <2>1, <2>2, Zenon DEF NullCache, wrapper
  <2>4. \A e \in Objects : FreeCache(e)' => FreeCache(e) \/ (e = g /\ e \notin others)
    BY <2>1, <2>2, <2>3, Zenon DEF FreeCache
  <2> QED
    BY <1>1, <1>3, <2>3, <2>4, ForgetHandles, Zenon
<1>10. CASE Uncount(c)
  <2>1. PICK g \in Objects \cup {Null} : g = captured_cache[c]
    BY <1>2, Zenon
  <2>2. PICK others : others = {file_handle_cache} \cup {captured_cache[u] : u \in Clients \ {c}}
    BY Zenon
  <2>3. /\ Forget(g, others) /\ UNCHANGED file_handle_cache
        /\ captured_cache' = [captured_cache EXCEPT ![c] = Null]
    BY <1>10, <2>1, <2>2, Zenon DEF Uncount, members
  <2>4. \A u \in Clients : u # c => captured_cache'[u] = captured_cache[u]
    BY <1>2, <2>3, Zenon
  <2>5. ASSUME NEW e \in Objects, FreeCache(e)' PROVE FreeCache(e) \/ (e = g /\ e \notin others)
    <3>1. e # file_handle_cache /\ \A u \in Clients : u # c => captured_cache[u] # e
      BY <2>3, <2>4, <2>5, Zenon DEF FreeCache
    <3>2. e \notin others
      BY <2>2, <3>1, Zenon
    <3> QED
      BY <2>1, <3>1, <3>2, Zenon DEF FreeCache
  <2> QED
    BY <1>1, <1>3, <2>3, <2>5, ForgetHandles, Zenon
<1> QED
  BY <1>6, <1>7, <1>8, <1>9, <1>10, Zenon

\* GetAndPop closes what it evicts and hands the target to the wrapper.
LEMMA LookupHandles ==
  ASSUME HandleInv, NEW c \in Clients, Lookup(c)
  PROVE  HandleInv'
<1>1. Wrapped /\ Stores /\ FreeEmpty /\ opened \subseteq Handles
      /\ Owned(internal_file_handle, Values(caches), opened)
  BY Zenon DEF HandleInv
<1>2. /\ pc[c] = "lookup" /\ file_handle_cache \in Objects \cup {Null}
      /\ internal_file_handle[c] = Null
      /\ UNCHANGED <<settings, members, counters, cache_reader_mutex, key,
                     captured_cache, captured_counter, counted>>
  BY <1>1, Zenon DEF Lookup, Wrapped, ControlTypeOK, Holding
<1>3. ASSUME NEW where \in {"open", "missed"}, Go(c, where), UNCHANGED internal_file_handle
      PROVE  Wrapped'
  BY <1>1, <1>2, <1>3 DEF Wrapped, ControlTypeOK, Holding, Capturing, Opening, Clearing, settings,
                          members, Go
<1>4. UNCHANGED <<file_handle_cache, captured_cache>>
      /\ \A e \in Objects : FreeCache(e)' => FreeCache(e)
  BY <1>2, Zenon DEF members, FreeCache
<1>5. CASE file_handle_cache = Null
  <2>1. Go(c, "open") /\ UNCHANGED <<caches, opened, internal_file_handle>>
    BY <1>5, Zenon DEF Lookup
  <2>2. Wrapped'
    BY <1>3, <2>1, Zenon
  <2> QED
    BY <1>4, <2>1, <2>2, SameHandles, Zenon
<1>6. CASE file_handle_cache # Null
  <2>1. PICK g \in Objects : g = file_handle_cache
    BY <1>2, <1>6, Zenon
  <2>2. PICK res : res = MultiGetAndPop(caches[g], key[c])
    BY Zenon
  <2>3. /\ caches' = [caches EXCEPT ![g] = res.cache] /\ opened' = opened \ res.evicted
        /\ \/ res.target = {} /\ Go(c, "missed") /\ UNCHANGED internal_file_handle
           \/ /\ res.target # {} /\ Go(c, "count")
              /\ \E h \in res.target :
                   internal_file_handle' = [internal_file_handle EXCEPT ![c] = h]
    BY <1>6, <2>1, <2>2, Zenon DEF Lookup
  <2>4. Linked(caches[g]) /\ WithinLimit(caches[g])
    BY <1>1, Zenon DEF Stores
  <2>5. /\ Linked(res.cache) /\ WithinLimit(res.cache)
        /\ res.evicted \subseteq AllValues(caches[g]) /\ res.target \subseteq AllValues(caches[g])
        /\ res.target = {} \/ \E h \in AllValues(caches[g]) : res.target = {h} /\ h \notin res.evicted
        /\ AllValues(res.cache) = AllValues(caches[g]) \ (res.evicted \cup res.target)
    BY <2>2, <2>4, GetLinked
  <2>6. PICK r, X : r = res.cache /\ X = res.evicted
    BY Zenon
  <2>7. CASE res.target = {}
    <3>1. Wrapped' /\ UNCHANGED internal_file_handle
      BY <1>3, <2>3, <2>7, Zenon
    <3>2. AllValues(r) = AllValues(caches[g]) \ X /\ X \subseteq AllValues(caches[g])
      BY <2>5, <2>6, <2>7, Zenon
    <3>3. \A e \in Objects : FreeCache(e)' => FreeCache(e) \/ (e = g /\ AllValues(r) = {})
      BY <1>4, Zenon
    <3>4. Linked(r) /\ WithinLimit(r) /\ caches' = [caches EXCEPT ![g] = r] /\ opened' = opened \ X
      BY <2>3, <2>5, <2>6, Zenon
    <3> QED
      BY <3>1, <3>2, <3>3, <3>4, ClosedHandles
  <2>8. CASE res.target # {}
    <3>1. PICK h \in AllValues(caches[g]) : res.target = {h} /\ h \notin X
      BY <2>5, <2>6, <2>8, Zenon
    <3>2. internal_file_handle' = [internal_file_handle EXCEPT ![c] = h] /\ Go(c, "count")
      BY <2>3, <2>8, <3>1, Zenon
    <3>3. h \in Handles /\ h # Null
      BY <2>4, EntriesNumber, HandleAssumption, Zenon
    <3>4. Wrapped'
      BY <1>1, <1>2, <3>2, <3>3 DEF Wrapped, ControlTypeOK, Holding, Capturing, Opening, Clearing,
                                    settings, members, Go
    <3> DEFINE V == Values(caches)
               U == [e \in Objects |-> IF e = g THEN V[g] \ X ELSE V[e]]
    <3>5. V[g] = AllValues(caches[g]) /\ Set1(U, V, Objects, g, V[g] \ X) /\ U[g] = V[g] \ X
      BY Zenon DEF Set1, Values
    <3>6. X \subseteq V[g] /\ h \in U[g]
      BY <2>5, <2>6, <3>1, <3>5, Zenon
    <3> HIDE DEF V, U
    <3>7. Owned(internal_file_handle, V, opened)
      BY <1>1, Zenon DEF V
    <3>8. Owned(internal_file_handle, U, opened \ X)
      BY <3>5, <3>6, <3>7, CloseOwned, Zenon
    <3>9. /\ Stores' /\ Set1(Values(caches'), V, Objects, g, AllValues(r))
          /\ \A e \in Objects : AllValues(caches'[e]) = IF e = g THEN AllValues(r)
                                                                  ELSE AllValues(caches[e])
      <4>1. Linked(r) /\ WithinLimit(r) /\ caches' = [caches EXCEPT ![g] = r]
        BY <2>3, <2>5, <2>6, Zenon
      <4> QED
        BY <1>1, <4>1, Replaced, Zenon DEF V
    <3>10. AllValues(r) = U[g] \ {h}
      BY <2>5, <2>6, <3>1, <3>5, Zenon
    <3>11. Set1(Values(caches'), U, Objects, g, U[g] \ {h})
      BY <3>5, <3>9, <3>10, Zenon DEF Set1
    <3>12. Set1(internal_file_handle', internal_file_handle, Clients, c, h)
      BY <1>1, <3>2, Zenon DEF Set1, Wrapped
    <3>13. Null \notin opened \ X /\ opened' = opened \ X /\ opened' \subseteq Handles
      BY <1>1, <2>3, <2>6, OpenHandles, Zenon
    <3>14. Owned(internal_file_handle', Values(caches'), opened')
      BY <1>2, <3>6, <3>8, <3>11, <3>12, <3>13, TakeOwned
    <3>15. FreeEmpty'
      BY <1>1, <1>4, <2>1, <3>9, Zenon DEF FreeEmpty, FreeCache
    <3> QED
      BY <3>4, <3>9, <3>13, <3>14, <3>15, Zenon DEF HandleInv
  <2> QED
    BY <2>7, <2>8, Zenon
<1> QED
  BY <1>5, <1>6, Zenon

\* The internal file system opens a handle, or fails.
LEMMA OpenHandlesStep ==
  ASSUME HandleInv, NEW c \in Clients, OpenInternal(c)
  PROVE  HandleInv'
<1>1. Wrapped /\ Stores /\ FreeEmpty /\ opened \subseteq Handles
      /\ Owned(internal_file_handle, Values(caches), opened)
  BY Zenon DEF HandleInv
<1>2. /\ pc[c] = "open" /\ internal_file_handle[c] = Null
      /\ UNCHANGED <<settings, members, caches, counters, cache_reader_mutex,
                     captured_cache, captured_counter, counted>>
  BY <1>1, Zenon DEF OpenInternal, Wrapped, Holding
<1>3. \A e \in Objects : FreeCache(e)' => FreeCache(e)
  BY <1>2, Zenon DEF members, FreeCache
<1>4. CASE key' = [key EXCEPT ![c] = NoKey] /\ Go(c, "idle")
           /\ UNCHANGED <<opened, internal_file_handle>>
  <2>1. Wrapped'
    BY <1>1, <1>2, <1>4 DEF Wrapped, ControlTypeOK, Holding, Capturing, Opening, Clearing, settings,
                            members, Go
  <2> QED
    BY <1>2, <1>3, <1>4, <2>1, SameHandles, Zenon
<1>5. ASSUME NEW h \in Handles \ opened, opened' = opened \cup {h},
             internal_file_handle' = [internal_file_handle EXCEPT ![c] = h],
             Go(c, "count"), UNCHANGED key
      PROVE  HandleInv'
  <2>1. h \in Handles /\ h \notin opened /\ h # Null /\ Null \notin opened
    BY <1>1, OpenHandles, Zenon
  <2>2. Wrapped'
    BY <1>1, <1>2, <1>5, <2>1 DEF Wrapped, ControlTypeOK, Holding, Capturing, Opening, Clearing,
                                  settings, members, Go
  <2>3. Set1(internal_file_handle', internal_file_handle, Clients, c, h)
    BY <1>1, <1>5, Zenon DEF Set1, Wrapped
  <2>4. Owned(internal_file_handle', Values(caches), opened \cup {h})
    BY <1>1, <1>2, <2>1, <2>3, OpenOwned
  <2>5. Stores' /\ FreeEmpty'
    BY <1>1, <1>2, <1>3, Zenon DEF Stores, FreeEmpty
  <2>6. opened' \subseteq Handles
    BY <1>1, <1>5, Zenon
  <2> QED
    BY <1>2, <1>5, <2>2, <2>4, <2>5, <2>6, Zenon DEF HandleInv
<1> QED
  BY <1>4, <1>5, Zenon DEF OpenInternal

\* The destructor callback puts the handle into the cache, which may evict
\* another one or the same; without a cache the handle is destroyed.
LEMMA ReleaseHandles ==
  ASSUME HandleInv, NEW c \in Clients, Release(c)
  PROVE  HandleInv'
<1>1. Wrapped /\ Stores /\ FreeEmpty /\ opened \subseteq Handles
      /\ Owned(internal_file_handle, Values(caches), opened)
  BY Zenon DEF HandleInv
<1>2. PICK h : h = internal_file_handle[c]
  BY Zenon
<1>3. /\ pc[c] = "using" /\ h # Null /\ h \in Handles /\ key[c] \in Keys
      /\ captured_cache[c] \in Objects \cup {Null}
      /\ internal_file_handle' = [internal_file_handle EXCEPT ![c] = Null]
      /\ UNCHANGED <<settings, members, counters, cache_reader_mutex,
                     captured_cache, captured_counter>>
  BY <1>1, <1>2, Zenon DEF Release, Wrapped, ControlTypeOK, Holding, Clearing
<1>4. \A e \in Objects : FreeCache(e)' <=> FreeCache(e)
  BY <1>3, Zenon DEF members, FreeCache
<1>5. Null \notin opened
  BY <1>1, OpenHandles, Zenon
<1>6. Set1(internal_file_handle', internal_file_handle, Clients, c, Null)
  BY <1>1, <1>3, Zenon DEF Set1, Wrapped
<1>7. CASE captured_cache[c] = Null
  <2>1. /\ opened' = opened \ {h} /\ key' = [key EXCEPT ![c] = NoKey]
        /\ counted' = [counted EXCEPT ![c] = Null] /\ Go(c, "idle") /\ UNCHANGED caches
    BY <1>2, <1>7, Zenon DEF Release
  <2>2. Wrapped'
    BY <1>1, <1>3, <1>7, <2>1 DEF Wrapped, ControlTypeOK, Holding, Capturing, Opening, Clearing,
                                  settings, members, Go
  <2>3. Owned(internal_file_handle', Values(caches), opened \ {h})
    BY <1>1, <1>2, <1>3, <1>5, <1>6, DropOwned
  <2>4. Stores' /\ FreeEmpty'
    BY <1>1, <1>4, <2>1, Zenon DEF Stores, FreeEmpty
  <2>5. opened' \subseteq Handles
    BY <1>1, <2>1, Zenon
  <2> QED
    BY <2>1, <2>2, <2>3, <2>4, <2>5, Zenon DEF HandleInv
<1>8. CASE captured_cache[c] # Null
  <2>1. PICK g \in Objects : g = captured_cache[c]
    BY <1>3, <1>8, Zenon
  <2>2. PICK res : res = MultiPut(caches[g], key[c], h)
    BY Zenon
  <2>3. /\ caches' = [caches EXCEPT ![g] = res.cache] /\ opened' = opened \ res.evicted
        /\ Go(c, "uncount") /\ UNCHANGED <<key, counted>>
    BY <1>2, <1>8, <2>1, <2>2, Zenon DEF Release
  <2>4. Wrapped'
    BY <1>1, <1>3, <2>3 DEF Wrapped, ControlTypeOK, Holding, Capturing, Opening, Clearing,
                            settings, members, Go
  <2> DEFINE V == Values(caches)
             U == [e \in Objects |-> IF e = g THEN V[g] \cup {h} ELSE V[e]]
  <2>5. /\ V[g] = AllValues(caches[g]) /\ Set1(U, V, Objects, g, V[g] \cup {h})
        /\ U[g] = V[g] \cup {h}
    BY Zenon DEF Set1, Values
  <2> HIDE DEF V, U
  <2>6. Owned(internal_file_handle, V, opened) /\ h \notin AllValues(caches[g])
    <3>1. Owned(internal_file_handle, V, opened)
      BY <1>1, Zenon DEF V
    <3>2. internal_file_handle[c] \notin V[g]
      BY <3>1, Zenon DEF Owned
    <3> QED
      BY <1>2, <2>5, <3>1, <3>2, Zenon
  <2>7. Owned(internal_file_handle', U, opened)
    BY <1>2, <1>3, <1>5, <1>6, <2>5, <2>6, GiveOwned
  <2>8. /\ Linked(res.cache) /\ WithinLimit(res.cache)
        /\ res.evicted \subseteq AllValues(caches[g]) \cup {h}
        /\ AllValues(res.cache) = (AllValues(caches[g]) \cup {h}) \ res.evicted
    <3>1. Linked(caches[g]) /\ WithinLimit(caches[g])
      BY <1>1, Zenon DEF Stores
    <3> QED
      BY <1>3, <2>2, <2>6, <3>1, PutLinked
  <2>9. PICK r, X : r = res.cache /\ X = res.evicted
    BY Zenon
  <2>10. /\ Stores' /\ Set1(Values(caches'), V, Objects, g, AllValues(r))
         /\ \A e \in Objects : AllValues(caches'[e]) = IF e = g THEN AllValues(r)
                                                                 ELSE AllValues(caches[e])
    <3>1. Linked(r) /\ WithinLimit(r) /\ caches' = [caches EXCEPT ![g] = r]
      BY <2>3, <2>8, <2>9, Zenon
    <3> QED
      BY <1>1, <3>1, Replaced, Zenon DEF V
  <2>11. X \subseteq U[g] /\ AllValues(r) = U[g] \ X
    BY <2>5, <2>8, <2>9, Zenon
  <2>12. Set1(Values(caches'), U, Objects, g, U[g] \ X)
    BY <2>5, <2>10, <2>11, Zenon DEF Set1
  <2>13. Owned(internal_file_handle', Values(caches'), opened \ X)
    BY <2>7, <2>11, <2>12, CloseOwned
  <2>14. opened' = opened \ X /\ opened' \subseteq Handles
    BY <1>1, <2>3, <2>9, Zenon
  <2>15. FreeEmpty'
    <3>1. ~ FreeCache(g)
      BY <2>1, Zenon DEF FreeCache
    <3> QED
      BY <1>1, <1>4, <2>10, <3>1, Zenon DEF FreeEmpty
  <2> QED
    BY <2>4, <2>10, <2>13, <2>14, <2>15, Zenon DEF HandleInv
<1> QED
  BY <1>7, <1>8, Zenon

\* A file is removed from the cache, the setting changes, the clock advances.
LEMMA OtherHandles ==
  ASSUME HandleInv,
         \/ \E k \in Keys : ClearPath(PathOf(k))
         \/ \E b \in BOOLEAN : SetEnabled(b)
         \/ Tick \/ UNCHANGED vars
  PROVE  HandleInv'
<1>1. Wrapped /\ Stores /\ FreeEmpty /\ opened \subseteq Handles
      /\ Owned(internal_file_handle, Values(caches), opened)
  BY Zenon DEF HandleInv
<1>2. UNCHANGED <<overlap, file_handle_cache, in_use_file_handle_counter, counters,
                  cache_reader_mutex, pc, key, internal_file_handle, captured_cache,
                  captured_counter, counted>>
      /\ enable_file_handle_cache' \in BOOLEAN
  BY <1>1, Zenon DEF ClearPath, SetEnabled, Tick, vars, settings, members, wrapper, Wrapped,
                     ControlTypeOK
<1>3. Wrapped'
  BY <1>1, <1>2, Zenon DEF Wrapped, ControlTypeOK
<1>4. \A e \in Objects : FreeCache(e)' => FreeCache(e)
  BY <1>2, Zenon DEF FreeCache
<1>5. CASE \E k \in Keys : ClearPath(PathOf(k))
  <2>1. PICK k \in Keys : ClearPath(PathOf(k))
    BY <1>5, Zenon
  <2>2. PICK g \in Objects : g = file_handle_cache
    BY <1>1, <2>1, Zenon DEF ClearPath, Wrapped, ControlTypeOK
  <2>3. PICK gone : gone = ClearedKeys(caches[g], 10 * PathOf(k), {j \in Keys : PathOf(j) = PathOf(k)})
    BY Zenon
  <2>4. PICK r, X : r = MultiClear(caches[g], gone) /\ X = ValuesOf(caches[g], gone)
    BY Zenon
  <2>5. caches' = [caches EXCEPT ![g] = r] /\ opened' = opened \ X
    BY <2>1, <2>2, <2>3, <2>4, Zenon DEF ClearPath
  <2>6. Linked(caches[g]) /\ WithinLimit(caches[g])
    BY <1>1, Zenon DEF Stores
  <2>7. Linked(r) /\ AllValues(r) = AllValues(caches[g]) \ X /\ X \subseteq AllValues(caches[g])
    BY <2>4, <2>6, ClearLinked, Zenon
  <2>8. WithinLimit(r)
    BY <2>6, <2>7, SmallerLimit
  <2>9. \A e \in Objects : FreeCache(e)' => FreeCache(e) \/ (e = g /\ AllValues(r) = {})
    BY <1>4, Zenon
  <2> QED
    BY <1>2, <1>3, <2>5, <2>7, <2>8, <2>9, ClosedHandles
<1>6. CASE Tick
  <2>1. caches' = [g \in Objects |-> Older(caches[g])] /\ UNCHANGED opened
    BY <1>6, Zenon DEF Tick
  <2>2. \A g \in Objects : caches'[g] = Older(caches[g])
    BY <2>1, Zenon
  <2>3. \A g \in Objects : Linked(Older(caches[g])) /\ AllValues(Older(caches[g])) = AllValues(caches[g])
                           /\ WithinLimit(Older(caches[g]))
    BY <1>1, OlderLinked, Zenon DEF Stores
  <2>4. ASSUME NEW g \in Objects PROVE AllValues(caches'[g]) = AllValues(caches[g])
    BY <2>2, <2>3, Zenon
  <2>5. Stores'
    <3>1. caches' = [g \in Objects |-> caches'[g]]
      BY <2>1, Zenon
    <3>2. \A g \in Objects : Linked(caches'[g]) /\ WithinLimit(caches'[g])
      BY <2>2, <2>3, Zenon
    <3> QED
      BY <3>1, <3>2, Zenon DEF Stores
  <2>6. Values(caches') = Values(caches)
    BY <2>4, Zenon DEF Values
  <2>7. FreeEmpty'
    BY <1>1, <1>4, <2>4, Zenon DEF FreeEmpty
  <2> QED
    BY <1>1, <1>2, <1>3, <2>1, <2>5, <2>6, <2>7, Zenon DEF HandleInv
<1>7. CASE UNCHANGED <<caches, opened>>
  BY <1>2, <1>3, <1>4, <1>7, SameHandles, Zenon
<1> QED
  BY <1>5, <1>6, <1>7, Zenon DEF SetEnabled, vars

\* Every step keeps the owners apart.
LEMMA NextHandles == HandleInv /\ [Next]_vars => HandleInv'
<1> SUFFICES ASSUME HandleInv, [Next]_vars PROVE HandleInv'
  OBVIOUS
<1>1. ASSUME NEW c \in Clients, Step(c) \/ StartClear(c) \/ Release(c) \/ \E k \in Keys : OpenFile(c, k)
      PROVE  HandleInv'
  BY <1>1, QuietHandles, CacheHandles, LookupHandles, OpenHandlesStep, ReleaseHandles, Zenon DEF Step
<1>2. CASE \/ \E k \in Keys : ClearPath(PathOf(k))
           \/ \E b \in BOOLEAN : SetEnabled(b)
           \/ Tick \/ UNCHANGED vars
  BY <1>2, OtherHandles, Zenon
<1> QED
  BY <1>1, <1>2, Zenon DEF Next

\* The ownership invariant of every run.
LEMMA SpecHandles == Spec => []HandleInv
<1>1. Init => HandleInv
  BY InitHandles
<1>2. HandleInv /\ [Next]_vars => HandleInv'
  BY NextHandles
<1> QED
  BY <1>1, <1>2, PTL DEF Spec

\* CacheFileSystem's internal handles are exclusive: a handle is open exactly when
\* one wrapper or one cache entry has it, for any number of clients, cache objects
\* and handles, also while clears overlap opens.
THEOREM HandleOwnershipAlways == Spec => []HandleOwnership
<1>1. HandleInv => HandleOwnership
  <2> SUFFICES ASSUME HandleInv, NEW h \in Handles
               PROVE  Cardinality({c \in Clients : internal_file_handle[c] = h})
                        + Cardinality({g \in Objects : h \in AllValues(caches[g])})
                      = IF h \in opened THEN 1 ELSE 0
    BY Zenon DEF HandleOwnership
  <2> DEFINE C == {c \in Clients : internal_file_handle[c] = h}
             G == {g \in Objects : h \in AllValues(caches[g])}
             V == Values(caches)
  <2> SUFFICES Cardinality(C) + Cardinality(G) = IF h \in opened THEN 1 ELSE 0
    OBVIOUS
  <2>1. Owned(internal_file_handle, V, opened) /\ h # Null
    BY HandleAssumption, Zenon DEF HandleInv
  <2>2. \A c : c \in C <=> c \in Clients /\ internal_file_handle[c] = h
    BY Zenon
  <2>3. \A g : g \in G <=> g \in Objects /\ h \in V[g]
    BY Zenon DEF Values
  <2> HIDE DEF C, G, V
  <2>4. (\A c \in C : h \in opened) /\ (\A g \in G : h \in opened)
    BY <2>1, <2>2, <2>3 DEF Owned
  <2>5. (\A c, d \in C : c = d) /\ (\A g, e \in G : g = e)
    BY <2>1, <2>2, <2>3 DEF Owned
  <2>6. C = {} \/ G = {}
    BY <2>1, <2>2, <2>3 DEF Owned
  <2>7. h \in opened => (\E c : c \in C) \/ (\E g : g \in G)
    BY <2>1, <2>2, <2>3, Zenon DEF Owned
  <2>8. CASE h \notin opened
    <3>1. C = {} /\ G = {}
      BY <2>4, <2>8, Zenon
    <3>2. Cardinality(C) = 0 /\ Cardinality(G) = 0
      BY <3>1, FS_EmptySet, Zenon
    <3> QED
      BY <2>8, <3>2
  <2>9. CASE h \in opened /\ \E c : c \in C
    <3>1. PICK c : C = {c}
      <4>1. PICK c : c \in C
        BY <2>9, Zenon
      <4>2. C = {c}
        BY <2>5, <4>1, Zenon
      <4> QED
        BY <4>2, Zenon
    <3>2. G = {}
      BY <2>6, <3>1, Zenon
    <3>3. Cardinality(C) = 1 /\ Cardinality(G) = 0
      BY <3>1, <3>2, FS_EmptySet, FS_Singleton, Zenon
    <3> QED
      BY <2>9, <3>3
  <2>10. CASE h \in opened /\ \E g : g \in G
    <3>1. PICK g : G = {g}
      <4>1. PICK g : g \in G
        BY <2>10, Zenon
      <4>2. G = {g}
        BY <2>5, <4>1, Zenon
      <4> QED
        BY <4>2, Zenon
    <3>2. C = {}
      BY <2>6, <3>1, Zenon
    <3>3. Cardinality(C) = 0 /\ Cardinality(G) = 1
      BY <3>1, <3>2, FS_EmptySet, FS_Singleton, Zenon
    <3> QED
      BY <2>10, <3>3
  <2> QED
    BY <2>7, <2>8, <2>9, <2>10, Zenon
<1> QED
  BY <1>1, SpecHandles, PTL

\* In every cache object the queue of a key and the LRU list describe the same
\* entries in the same order and their number is total_entries_num, within
\* max_entries: Put evicts the entry whose node is last.
THEOREM CachesConsistentAlways == Spec => []CachesConsistent
<1>1. HandleInv => CachesConsistent
  <2> SUFFICES ASSUME HandleInv PROVE CachesConsistent
    OBVIOUS
  <2>1. ASSUME NEW g \in Objects
        PROVE  /\ MultiLruConsistent(caches[g])
               /\ Stored(caches[g]) \subseteq Keys /\ AllValues(caches[g]) \subseteq Handles
    <3>1. Linked(caches[g]) /\ WithinLimit(caches[g])
      BY Zenon DEF HandleInv, Stores
    <3> QED
      BY <3>1, LinkedConsistent, EntriesNumber, Zenon
  <2> QED
    BY <2>1, Zenon DEF CachesConsistent, TypeOK, HandleInv, Wrapped
<1> QED
  BY <1>1, SpecHandles, PTL
==============================================================================
