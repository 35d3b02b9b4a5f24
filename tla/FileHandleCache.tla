--------------------------- MODULE FileHandleCache ---------------------------
(***************************************************************************)
(* The file handle cache of CacheFileSystem (src/cache_filesystem.cpp):    *)
(* opening a file for reading takes an idle internal handle out of the     *)
(* cache or opens a new one, and the destructor of the wrapper puts the    *)
(* handle back.  Clearing the cache, or an open that finds the cache       *)
(* disabled, detaches the cache and the counter of handles in use; the     *)
(* wrappers that are alive keep the objects they captured.                 *)
(*                                                                         *)
(* The member pointers are not protected by a mutex where they are read,   *)
(* so every read and write of one is a step.  A read that races a write is *)
(* taken to see the old or the new pointer.                                *)
(***************************************************************************)
EXTENDS ExclusiveMultiLruCache

CONSTANTS
  Clients,        \* threads; each has at most one file open
  Keys,           \* FileHandleCacheKeys, as numbers 10 * path + flags
  Handles,        \* internal file handles
  Objects,        \* storage of the cache objects, and of the counter objects
  Null, NoKey,
  OverlapKeys     \* the keys that are opened when clears overlap opens

ASSUME HandleAssumption ==
  /\ Keys \subseteq Nat /\ NoKey \notin Nat /\ OverlapKeys \subseteq Keys
  /\ IsFiniteSet(Clients) /\ Null \notin Objects \cup Clients \cup Handles

PathOf(k) == k \div 10

VARIABLES
  enable_file_handle_cache,
  overlap,        \* may clearing or (dis)abling the cache overlap the open of a file?
  file_handle_cache, in_use_file_handle_counter,   \* the member pointers
  caches, counters,                                \* the objects they point to
  cache_reader_mutex,                              \* its holder, or Null
  pc, key, internal_file_handle,                   \* the clients and their wrapper:
  captured_cache, captured_counter,                \* what its destructor callback captured,
  counted,                                         \* and (history) the counter it incremented
  opened                                           \* the internal handles that are open

settings == <<enable_file_handle_cache, overlap>>
members == <<file_handle_cache, in_use_file_handle_counter>>
wrapper == <<key, internal_file_handle, captured_cache, captured_counter, counted>>
vars == <<settings, members, caches, counters, cache_reader_mutex,
          pc, wrapper, opened>>

Init ==
  /\ enable_file_handle_cache = TRUE
  /\ overlap \in BOOLEAN
  /\ file_handle_cache = Null
  /\ in_use_file_handle_counter = Null
  /\ caches = [g \in Objects |-> EmptyMultiCache]
  /\ counters = [g \in Objects |-> [k \in Keys |-> 0]]
  /\ cache_reader_mutex = Null
  /\ pc = [c \in Clients |-> "idle"]
  /\ key = [c \in Clients |-> NoKey]
  /\ internal_file_handle = [c \in Clients |-> Null]
  /\ captured_cache = [c \in Clients |-> Null]
  /\ captured_counter = [c \in Clients |-> Null]
  /\ counted = [c \in Clients |-> Null]
  /\ opened = {}

\* The operations of ThreadSafeCounter.  A key the map does not have counts 0;
\* Decrement asserts that it has the key.
GetCount(g, k) == counters[g][k]

Increment(g, k) == counters' = [counters EXCEPT ![g] = [@ EXCEPT ![k] = GetCount(g, k) + 1]]

Decrement(g, k) ==
  /\ GetCount(g, k) > 0
  /\ counters' = [counters EXCEPT ![g] = [@ EXCEPT ![k] = GetCount(g, k) - 1]]

Go(c, where) == pc' = [pc EXCEPT ![c] = where]

Opening == {"init", "counter", "lookup", "missed", "open", "count", "capture", "capture2"}
Clearing == {"nullcache", "nullcounter"}

\* Without overlap, the setting is changed and the whole cache is cleared only
\* while no file is being opened, and no file is opened during a clear.
MayChange == overlap \/ \A c \in Clients : pc[c] \notin Opening \cup Clearing
MayOpen == overlap \/ \A c \in Clients : pc[c] \notin Clearing

-----------------------------------------------------------------------------
(* InitializeGlobalConfig and SetFileHandleCache, under cache_reader_mutex. *)

OpenFile(c, k) ==
  /\ pc[c] = "idle"
  /\ cache_reader_mutex = Null
  /\ MayOpen
  /\ overlap => k \in OverlapKeys
  /\ cache_reader_mutex' = c
  /\ key' = [key EXCEPT ![c] = k]
  /\ Go(c, "init")
  /\ UNCHANGED <<settings, members, caches, counters, internal_file_handle,
                 captured_cache, captured_counter, counted, opened>>

\* An object that nobody refers to: its storage is free.
FreeCache(g) == g # file_handle_cache /\ \A c \in Clients : captured_cache[c] # g
FreeCounter(g) ==
  /\ g # in_use_file_handle_counter
  /\ \A c \in Clients : captured_counter[c] # g /\ counted[c] # g

MakeCache(c) ==
  /\ pc[c] = "init" /\ enable_file_handle_cache
  /\ IF file_handle_cache = Null
     THEN \E g \in Objects :
            /\ FreeCache(g)
            /\ file_handle_cache' = g
            /\ caches' = [caches EXCEPT ![g] = EmptyMultiCache]
     ELSE UNCHANGED <<file_handle_cache, caches>>
  /\ Go(c, "counter")
  /\ UNCHANGED <<settings, in_use_file_handle_counter, counters,
                 cache_reader_mutex, wrapper, opened>>

MakeCounter(c) ==
  /\ pc[c] = "counter"
  /\ IF in_use_file_handle_counter = Null
     THEN \E g \in Objects :
            /\ FreeCounter(g)
            /\ in_use_file_handle_counter' = g
            /\ counters' = [counters EXCEPT ![g] = [k \in Keys |-> 0]]
     ELSE UNCHANGED <<in_use_file_handle_counter, counters>>
  /\ cache_reader_mutex' = Null
  /\ Go(c, "lookup")
  /\ UNCHANGED <<settings, file_handle_cache, caches, wrapper, opened>>

-----------------------------------------------------------------------------
(* ClearFileHandleCache(), called with and without the mutex. *)

\* The null check and ClearAndGetValues; all the values are closed.
CloseAll ==
  /\ caches' = [caches EXCEPT ![file_handle_cache] = EmptyMultiCache]
  /\ opened' = opened \ AllValues(caches[file_handle_cache])

StartClear(c) ==
  /\ pc[c] = "idle"
  /\ file_handle_cache # Null
  /\ MayChange
  /\ CloseAll
  /\ Go(c, "nullcache")
  /\ UNCHANGED <<settings, members, counters, cache_reader_mutex, wrapper>>

\* The open of a file finds the cache disabled.
Disable(c) ==
  /\ pc[c] = "init" /\ ~enable_file_handle_cache
  /\ IF file_handle_cache = Null
     THEN /\ Go(c, "lookup")
          /\ cache_reader_mutex' = Null
          /\ UNCHANGED <<caches, opened>>
     ELSE /\ CloseAll
          /\ Go(c, "nullcache")
          /\ UNCHANGED cache_reader_mutex
  /\ UNCHANGED <<settings, members, counters, wrapper>>

\* A reference to cache g goes.  If it was the last one the cache is destroyed,
\* and the handles inside are destroyed with it without being closed.
Forget(g, others) ==
  IF g # Null /\ g \notin others
  THEN /\ opened' = opened \ AllValues(caches[g])
       /\ caches' = [caches EXCEPT ![g] = EmptyMultiCache]
  ELSE UNCHANGED <<opened, caches>>

NullCache(c) ==
  /\ pc[c] = "nullcache"
  /\ Forget(file_handle_cache, {captured_cache[u] : u \in Clients})
  /\ file_handle_cache' = Null
  /\ Go(c, "nullcounter")
  /\ UNCHANGED <<settings, in_use_file_handle_counter, counters,
                 cache_reader_mutex, wrapper>>

\* Fault: clearing forgets the cache and keeps the counter.
NullCounterKept(c) ==
  /\ pc[c] = "nullcounter"
  /\ Go(c, IF key[c] = NoKey THEN "idle" ELSE "lookup")
  /\ cache_reader_mutex' = IF cache_reader_mutex = c THEN Null ELSE cache_reader_mutex
  /\ UNCHANGED <<settings, members, caches, counters, wrapper,
                 opened>>

NullCounter(c) ==
  /\ pc[c] = "nullcounter"
  /\ in_use_file_handle_counter' = Null
  /\ Go(c, IF key[c] = NoKey THEN "idle" ELSE "lookup")
  /\ cache_reader_mutex' = IF cache_reader_mutex = c THEN Null ELSE cache_reader_mutex
  /\ UNCHANGED <<settings, file_handle_cache, caches, counters, wrapper,
                 opened>>

\* ClearFileHandleCache(filepath).
ClearPath(path) ==
  /\ file_handle_cache # Null
  /\ LET c    == caches[file_handle_cache]
         gone == ClearedKeys(c, 10 * path, {k \in Keys : PathOf(k) = path})
     IN  /\ caches' = [caches EXCEPT ![file_handle_cache] = MultiClear(c, gone)]
         /\ opened' = opened \ ValuesOf(c, gone)
  /\ UNCHANGED <<settings, members, counters, cache_reader_mutex, pc, wrapper>>

-----------------------------------------------------------------------------
(* GetOrCreateFileHandleForRead. *)

\* The null check and GetAndPop; the evicted values are closed.
Lookup(c) ==
  /\ pc[c] = "lookup"
  /\ IF file_handle_cache = Null
     THEN /\ Go(c, "open")
          /\ UNCHANGED <<caches, opened, internal_file_handle>>
     ELSE LET res == MultiGetAndPop(caches[file_handle_cache], key[c]) IN
          /\ caches' = [caches EXCEPT ![file_handle_cache] = res.cache]
          /\ opened' = opened \ res.evicted
          /\ IF res.target = {}
             THEN Go(c, "missed") /\ UNCHANGED internal_file_handle
             ELSE /\ Go(c, "count")
                  /\ \E h \in res.target :
                       internal_file_handle' = [internal_file_handle EXCEPT ![c] = h]
  /\ UNCHANGED <<settings, members, counters, cache_reader_mutex, key,
                 captured_cache, captured_counter, counted>>

\* GetCount, through the member pointer.
CountMiss(c) ==
  /\ pc[c] = "missed"
  /\ in_use_file_handle_counter # Null
  /\ Go(c, "open")
  /\ UNCHANGED <<settings, members, caches, counters, cache_reader_mutex,
                 wrapper, opened>>

\* OpenFile of the internal file system, which may fail.
OpenInternal(c) ==
  /\ pc[c] = "open"
  /\ \/ \E h \in Handles \ opened :
          /\ opened' = opened \cup {h}
          /\ internal_file_handle' = [internal_file_handle EXCEPT ![c] = h]
          /\ Go(c, "count")
          /\ UNCHANGED key
     \/ /\ key' = [key EXCEPT ![c] = NoKey]
        /\ Go(c, "idle")
        /\ UNCHANGED <<opened, internal_file_handle>>
  /\ UNCHANGED <<settings, members, caches, counters, cache_reader_mutex,
                 captured_cache, captured_counter, counted>>

(* CreateCacheFileHandleForRead. *)

Count(c) ==
  LET g == in_use_file_handle_counter IN
  /\ pc[c] = "count"
  /\ IF g # Null
     THEN /\ Increment(g, key[c])
          /\ counted' = [counted EXCEPT ![c] = g]
     ELSE UNCHANGED <<counters, counted>>
  /\ Go(c, "capture")
  /\ UNCHANGED <<settings, members, caches, cache_reader_mutex, key,
                 internal_file_handle, captured_cache, captured_counter, opened>>

CaptureCache(c) ==
  /\ pc[c] = "capture"
  /\ captured_cache' = [captured_cache EXCEPT ![c] = file_handle_cache]
  /\ Go(c, "capture2")
  /\ UNCHANGED <<settings, members, caches, counters, cache_reader_mutex, key,
                 internal_file_handle, captured_counter, counted, opened>>

CaptureCounter(c) ==
  /\ pc[c] = "capture2"
  /\ captured_counter' = [captured_counter EXCEPT ![c] = in_use_file_handle_counter]
  /\ Go(c, "using")
  /\ UNCHANGED <<settings, members, caches, counters, cache_reader_mutex, key,
                 internal_file_handle, captured_cache, counted, opened>>

(* The destructor callback of the wrapper. *)

\* Fault: the handle is closed although the cache has it.
ReleaseClosing(c) ==
  LET g == captured_cache[c]
      h == internal_file_handle[c]
  IN
  /\ pc[c] = "using"
  /\ IF g = Null
     THEN /\ captured_counter[c] = Null         \* ALWAYS_ASSERT
          /\ opened' = opened \ {h}             \* destroyed with the wrapper
          /\ key' = [key EXCEPT ![c] = NoKey]
          /\ counted' = [counted EXCEPT ![c] = Null]
          /\ Go(c, "idle")
          /\ UNCHANGED caches
     ELSE LET res == MultiPut(caches[g], key[c], h) IN
          /\ caches' = [caches EXCEPT ![g] = res.cache]
          /\ opened' = opened \ ({h} \cup res.evicted)
          /\ Go(c, "uncount")
          /\ UNCHANGED <<key, counted>>
  /\ internal_file_handle' = [internal_file_handle EXCEPT ![c] = Null]
  /\ UNCHANGED <<settings, members, counters, cache_reader_mutex,
                 captured_cache, captured_counter>>

Release(c) ==
  LET g == captured_cache[c]
      h == internal_file_handle[c]
  IN
  /\ pc[c] = "using"
  /\ IF g = Null
     THEN /\ captured_counter[c] = Null         \* ALWAYS_ASSERT
          /\ opened' = opened \ {h}             \* destroyed with the wrapper
          /\ key' = [key EXCEPT ![c] = NoKey]
          /\ counted' = [counted EXCEPT ![c] = Null]
          /\ Go(c, "idle")
          /\ UNCHANGED caches
     ELSE LET res == MultiPut(caches[g], key[c], h) IN
          /\ caches' = [caches EXCEPT ![g] = res.cache]
          /\ opened' = opened \ res.evicted
          /\ Go(c, "uncount")
          /\ UNCHANGED <<key, counted>>
  /\ internal_file_handle' = [internal_file_handle EXCEPT ![c] = Null]
  /\ UNCHANGED <<settings, members, counters, cache_reader_mutex,
                 captured_cache, captured_counter>>

\* Fault: only the current counter is decremented.
UncountCurrent(c) ==
  LET g == captured_counter[c] IN
  /\ pc[c] = "uncount"
  /\ g # Null /\ GetCount(g, key[c]) > 0
  /\ counters' = IF g = in_use_file_handle_counter THEN [counters EXCEPT ![g][key[c]] = @ - 1]
                                                   ELSE counters
  /\ Forget(captured_cache[c], {file_handle_cache} \cup {captured_cache[u] : u \in Clients \ {c}})
  /\ captured_cache' = [captured_cache EXCEPT ![c] = Null]
  /\ captured_counter' = [captured_counter EXCEPT ![c] = Null]
  /\ counted' = [counted EXCEPT ![c] = Null]
  /\ key' = [key EXCEPT ![c] = NoKey]
  /\ Go(c, "idle")
  /\ UNCHANGED <<settings, members, cache_reader_mutex, internal_file_handle>>

\* Decrement, and the end of the callback, which drops what it captured.
Uncount(c) ==
  LET g == captured_counter[c] IN
  /\ pc[c] = "uncount"
  /\ g # Null /\ Decrement(g, key[c])
  /\ Forget(captured_cache[c], {file_handle_cache} \cup {captured_cache[u] : u \in Clients \ {c}})
  /\ captured_cache' = [captured_cache EXCEPT ![c] = Null]
  /\ captured_counter' = [captured_counter EXCEPT ![c] = Null]
  /\ counted' = [counted EXCEPT ![c] = Null]
  /\ key' = [key EXCEPT ![c] = NoKey]
  /\ Go(c, "idle")
  /\ UNCHANGED <<settings, members, cache_reader_mutex, internal_file_handle>>

-----------------------------------------------------------------------------
(* The environment: the setting, and the clock. *)

SetEnabled(b) ==
  /\ MayChange
  /\ enable_file_handle_cache' = b
  /\ UNCHANGED <<overlap, members, caches, counters, cache_reader_mutex, pc, wrapper, opened>>

Tick ==
  /\ caches' = [g \in Objects |-> Older(caches[g])]
  /\ UNCHANGED <<settings, members, counters, cache_reader_mutex, pc, wrapper,
                 opened>>

Step(c) ==
  \/ MakeCache(c) \/ MakeCounter(c) \/ Disable(c)
  \/ NullCache(c) \/ NullCounter(c)
  \/ Lookup(c) \/ CountMiss(c) \/ OpenInternal(c)
  \/ Count(c) \/ CaptureCache(c) \/ CaptureCounter(c)
  \/ Uncount(c)

Next ==
  \/ \E c \in Clients : Step(c) \/ StartClear(c) \/ Release(c) \/ \E k \in Keys : OpenFile(c, k)
  \/ \E k \in Keys : ClearPath(PathOf(k))
  \/ \E b \in BOOLEAN : SetEnabled(b)
  \/ Tick

Spec == Init /\ [][Next]_vars

-----------------------------------------------------------------------------
(* Properties. *)

ControlTypeOK ==
  /\ enable_file_handle_cache \in BOOLEAN
  /\ overlap \in BOOLEAN
  /\ file_handle_cache \in Objects \cup {Null}
  /\ in_use_file_handle_counter \in Objects \cup {Null}
  /\ counters \in [Objects -> [Keys -> Nat]]
  /\ cache_reader_mutex \in Clients \cup {Null}
  /\ pc \in [Clients -> Opening \cup Clearing \cup {"idle", "using", "uncount"}]
  /\ key \in [Clients -> Keys \cup {NoKey}]
  /\ captured_cache \in [Clients -> Objects \cup {Null}]
  /\ captured_counter \in [Clients -> Objects \cup {Null}]
  /\ counted \in [Clients -> Objects \cup {Null}]

\* The type invariant.  The keys a cache holds are whole FileHandleCacheKeys,
\* flags included.
TypeOK ==
  /\ ControlTypeOK
  /\ \A g \in Objects : Stored(caches[g]) \subseteq Keys /\ AllValues(caches[g]) \subseteq Handles
  /\ internal_file_handle \in [Clients -> Handles \cup {Null}]
  /\ opened \subseteq Handles

\* The exclusive resource: an internal handle is open exactly when one owner has
\* it, a wrapper or an entry of a cache.  So no handle is handed to two readers,
\* none is used after it was closed, and none is forgotten while it is open,
\* however opens, releases, evictions, expiry and clears interleave.
HandleOwnership ==
  \A h \in Handles :
    Cardinality({c \in Clients : internal_file_handle[c] = h})
      + Cardinality({g \in Objects : h \in AllValues(caches[g])})
    = IF h \in opened THEN 1 ELSE 0

\* The queues and the LRU list of every cache object describe the same entries in
\* the same order, within max_entries, as Verify and the eviction in Put assume.
CachesConsistent == TypeOK /\ \A g \in Objects : MultiLruConsistent(caches[g])

\* An in-use counter counts the wrappers that incremented it and have not been
\* destroyed, whatever became of the cache between the opens.
CounterExact ==
  ~overlap => \A g \in Objects, k \in Keys :
    GetCount(g, k) = Cardinality({c \in Clients : counted[c] = g /\ key[c] = k})

\* After SetFileHandleCache, until the wrapper is made.
Past == {"lookup", "missed", "open", "count", "capture", "capture2"}

\* The cache and the counter come and go together, as the setting says, while
\* a file is being opened; one client at a time makes or clears them.
MembersSettled ==
  /\ \A c \in Clients : pc[c] \in {"init", "counter"} => cache_reader_mutex = c
  /\ \A c \in Clients : pc[c] \in Clearing =>
       \A d \in Clients \ {c} : pc[d] \notin Opening \cup Clearing
  /\ \A c \in Clients : pc[c] \in Clearing /\ key[c] # NoKey => ~enable_file_handle_cache
  /\ \A c \in Clients : pc[c] = "counter" =>
       enable_file_handle_cache /\ file_handle_cache # Null
  /\ \A c \in Clients : pc[c] = "nullcounter" => file_handle_cache = Null
  /\ \A c \in Clients : pc[c] = "missed" => file_handle_cache # Null
  /\ \A c \in Clients : pc[c] \in Past =>
       (file_handle_cache # Null <=> enable_file_handle_cache)
  /\ (\A c \in Clients : pc[c] \notin {"counter"} \cup Clearing) =>
       (file_handle_cache = Null <=> in_use_file_handle_counter = Null)
  /\ \A c \in Clients : pc[c] \in Past /\ enable_file_handle_cache =>
       in_use_file_handle_counter # Null

\* A wrapper captures the counter it incremented, and the cache beside it.
WrapperOK(c) ==
  /\ key[c] = NoKey => pc[c] \in {"idle"} \cup Clearing
  /\ pc[c] = "idle" => key[c] = NoKey
  /\ counted[c] # Null => pc[c] \in {"capture", "capture2", "using", "uncount"}
  /\ pc[c] \in {"capture", "capture2"} => counted[c] = in_use_file_handle_counter
  /\ pc[c] = "capture2" => captured_cache[c] = file_handle_cache
  /\ pc[c] \in {"using", "uncount"} =>
       /\ captured_counter[c] = counted[c]
       /\ captured_cache[c] = Null <=> counted[c] = Null
  /\ pc[c] = "uncount" => captured_cache[c] # Null

\* ALWAYS_ASSERT(in_use_file_handle_counter == nullptr) in the destructor
\* callback: a wrapper without a cache has no counter either.
CaptureAsserted ==
  \A c \in Clients :
    pc[c] = "using" /\ captured_cache[c] = Null => captured_counter[c] = Null

\* What the callbacks rely on, as long as no clear overlaps the open of a file:
\* the assertion above; "Precondition: the key exist in the counter map,
\* otherwise assertion failure" where the destructor callback calls Decrement;
\* and the counter is there when a cache miss asks it for the handles in use.
CallbackAssertions ==
  ~overlap =>
    /\ MembersSettled /\ \A c \in Clients : WrapperOK(c)
    /\ CaptureAsserted
    /\ \A c \in Clients : pc[c] = "uncount" =>
         captured_counter[c] # Null /\ GetCount(captured_counter[c], key[c]) > 0
    /\ \A c \in Clients : pc[c] = "missed" => in_use_file_handle_counter # Null
==============================================================================
