# cache_httpfs: specifications, model checking and proofs

TLA+ specifications of the caching layers of the DuckDB extension
`cache_httpfs`, the TLC models that check them on small instances, and TLAPS
proofs. Paths below are relative to the repository's `src/` directory.

## The system

`CacheFileSystem` wraps another file system. A file opened for reading gets a
wrapper around an internal handle, which comes from the **file handle cache**
when it can. Sizes, modification times and glob results come from the
**metadata** and **glob caches**. Reads go to a **cache reader**, which cuts the
request into cache entries and serves each from its cache or from the remote
file: the **in-memory reader**, the **on-disk reader** (with an optional
in-memory layer) or a no-op. In-memory blocks live in one of three storages: an
LRU of bounded length, a **byte-bounded storage with replacement policies**, or
DuckDB's object cache. SQL settings and functions change the configuration,
clear, list and remap the caches while queries run.

| Component | State | Operations that change it | Interacts with |
|---|---|---|---|
| Shared-value LRU cache (`utils/include/shared_value_lru_cache.hpp`) | list, map, creation tokens | Put, Get, Delete, Clear, Take, GetOrCreate | metadata and glob caches, in-memory storage |
| Exclusive multi-value LRU cache (`utils/include/exclusive_multi_lru_cache.hpp`) | list, queues per key | Put, GetAndPop, ClearAndGetValues | file handle cache |
| File handle cache (`cache_filesystem.cpp`) | cache and counter objects, their member pointers, live wrappers | open, wrapper destruction, clear, enable and disable | settings, clear functions |
| Metadata, glob and read path (`cache_filesystem.cpp`) | two shared-value caches | Stats, Glob, GetFileSize, Write, RemoveFile | cache readers |
| On-disk reader (`disk_cache_reader.cpp`, `disk_cache_util.cpp`) | cache directory, LRU maps, in-memory layer | ReadAndCache, ClearCache, listing, cleanup | other processes on the same directory |
| In-memory reader (`in_memory_cache_reader.cpp`) | storage | ReadAndCache, ClearCache, remapping | layout registry, settings |
| Layout registry and planner (`parquet_layout_registry.cpp`, `utils/column_chunk_planner.cpp`) | extents per file | Register, Clear | in-memory reader |
| Policy storage (`policy_data_cache_storage.cpp`, `include/policy/`) | groups, entries, policy metadata, bytes used | Put, Get, Delete, Clear, Take | in-memory reader |
| Object cache storage (`object_cache_data_cache_storage.cpp`) | object cache, metadata map | Put, Get, Delete, Clear, Take, destruction callback | in-memory reader |
| Instance state, settings, profile collectors (`cache_httpfs_instance_state.cpp`, `cache_httpfs_extension.cpp`, `temp_profile_collector.cpp`) | configuration, reader and collector registries | setting callbacks, SetCacheReader, Reset | everything |
| Thread pool and executors (`utils/thread_pool.cpp`) | queue, idle count | Push, Wait, destruction | cache readers |

What makes it hard: factories and remote reads run outside the mutexes; members
are read without the mutex that guards their writes; cache files are shared
between threads and processes, and the process may die while it writes one;
validation and use, or the parts of a clear, are separate steps; the remote file
changes meanwhile; the block size and the layout of a file change under running
reads. `PROJECT.json` lists these hazards, each at its line.

## Modules

| Module | Models |
|---|---|
| `LruLists` | erasing nodes from the `std::list` of an LRU cache |
| `SharedValueLruCache` | the sequential LRU cache, as operators |
| `ThreadSafeSharedValueLruCache` | its thread-safe wrapper: one action per critical section, GetOrCreate with its tokens, condition variables (spurious wakeups included) and failing factories |
| `SingleFlight` | what GetOrCreate promises, as an abstract specification |
| `ExclusiveMultiLruCache` | the multi-value LRU cache, as operators |
| `FileHandleCache` | opening, releasing and clearing file handles |
| `CacheFileSystem` | opening, stat, glob, read, write, removal and clears of one file over its four caches |
| `DiskCacheReader` | the on-disk reader and its in-memory layer, one action per system call or critical section |
| `EvictionPolicy` | lru, mru, fifo and clock, as operators |
| `PolicyDataCacheStorage` | the byte-bounded storage |
| `ObjectCacheStorage` | blocks in DuckDB's object cache and the metadata map beside it |
| `ReadPlanning` | chunk arithmetic, the layout registry, the column-chunk planner and the remapping of blocks, as operators |
| `InMemoryCacheReader` | reads, clears, block-size changes and layout changes on one file |
| `ThreadPool` | the pool and executor that run the chunks of a read |
| `InstanceState` | settings, cache readers, profile collectors, wrapped file systems and the SQL functions that change them |
| `LruListProofs` | lemmas about lists, and about lists whose nodes stand for entries of queues |
| `GetOrCreateProofs` | proofs about GetOrCreate and the cache behind it |
| `FileHandleCacheProofs` | proofs about the file handles and the multi-value LRU cache |
| `CacheFileSystemProofs` | proofs about the file system |
| `DiskCacheProofs` | proofs about the on-disk reader: its files, and its maps |
| `ObjectCacheProofs` | proofs about the object cache storage |
| `ThreadPoolProofs` | proofs about the thread pool |
| `InstanceStateProofs` | proofs about the instance state |

`MC*.tla` and `*.cfg` give the constants their values. Variables and actions
keep the names of the code's members and functions. Operators marked `Fault:`
are plausible bugs; `PROJECT.json` says which property finds each.

**GetOrCreate.** A token is its count and its outcome (pending, failed or a
value). A call is idle, creating, created, asleep or awake; the first critical
section is one of `FindCached`, `StartCreation`, `JoinCreation` and
`JoinFinished`, the factory is `RunFactory`, and the last critical section is
`Publish`, which puts the value, sets the outcome, notifies and counts down. A
value is the version of the remote object that the factory saw.

**File handles.** The member pointers are read outside the mutex, so reading or
writing one is a step. The cache and counter objects live as long as a member or
a wrapper's callback refers to them. `Overlap` says whether clearing and
disabling may overlap an open, or only come between opens.

**The file system.** What is read of the file is its version. An operation is
the sequence of its accesses to the metadata, glob, handle and data caches and
to the remote, each a step. GetOrCreate appears as `SingleFlight` describes it:
one thread runs the factory, the others wait. Which thread's clear nothing ran
beside (`alone`) and the version of the file then (`clean`) are history.

**Disk.** A file is its block, its content (a version, or partial), its tag and
its modification time. A crash forgets the memory of the process and keeps the
files. Whether the disk is full, and the order of directory entries, are free
choices. The order shows only in the timestamps that a reload of the LRU maps
gives to files of the same age (`LoadedStamps`).

**In-memory reads.** A byte is its offset and its version, so a wrong byte is
seen wherever it comes from. The storage may drop any entry at any time and may
be full; this covers the three storages as the reader sees them. The tasks of a
read run in any interleaving.

**Policy storage.** Every operation holds the mutex and is one action. The
constructor's settings are chosen initially, including those it refuses.

**Object cache storage.** The map has a mutex of its own, and the object cache
another: a step is a critical section of one of them. A block that loses its
last reference has its destructor run by the actor that dropped it, before that
actor does anything else. `serial` says whether the callers keep Puts of one key,
and Take with anything else, apart; the other value lets them overlap.

**Thread pool.** One call: make the pool, push the jobs, wait, get the futures,
destroy the pool and join. A worker is asleep, ready, running, or has exited;
wakeups may be spurious. Any job may throw.

**Instance state.** Each manager has its own mutex, so each call of one is a
step. What a cache holds is the number of clears begun when it was stored, so
that a clear that misses something is seen. A restart of the process keeps the
cache directories and nothing else.

## What is checked

| Run | Shows |
|---|---|
| `getorcreate` | one factory per key, exact token counts, no lost wakeup, publications never go back, the LRU list and map agree; every call returns; the refinement of `SingleFlight` |
| `filehandle` | each internal handle has one owner or is closed, also when clears overlap opens; list and queues agree; the in-use counter is exact; the assertions of the callback hold |
| `cachefs` | what a clear, a validation tag and a removal guarantee about what is served afterwards; no cache is destroyed in use while the settings stay |
| `disk` | the two LRU maps are inverse; published files are complete and rightly tagged; temporary files are owned or left by a crash |
| `policy` | policy and storage agree; bytes are exact and within the budget; no needless eviction; the clock's second chance |
| `inmem` | a read that returns has delivered the right bytes; entries hold the bytes their key names; remapped blocks are what reads look up; entries follow the column chunks |
| `objectcache` | map and object cache agree when nothing runs; a hit is what was validated or newer; a clear leaves nothing that was there; a late destruction erases no newer metadata |
| `executor` | WaitAll returns only after every job ended and throws the first failure; one notification per job is enough; every call returns |
| `instance` | the reader in use is the configured one; a clear reaches every cache there is; what a query took from the settings goes stale only when they are set |

Three runs end in a violation, each a disagreement between the code and one of
its comments or assertions:

- `fh_capture`: the callback's `ALWAYS_ASSERT(in_use_file_handle_counter ==
  nullptr)` (`cache_filesystem.cpp:308`) fails when a clear, which resets the
  two members one after the other, overlaps the creation of a wrapper.
- `disk_hit_fresh`: `ReadLocalCacheFile` opens the file and validates the tag by
  path; a rename in between lets a stale block pass
  (`disk_cache_util.cpp:276-279`).
- `inmem_relayout`: a layout registered again between the two lookups of the
  planner can end the plan early; the read returns with bytes of the buffer not
  written (`utils/column_chunk_planner.cpp:25-57`).

Other places where a comment and the code differ, met while modelling. No run is
about them; the models follow the code.

- Handles that are released after a clear end in a cache that is destroyed
  without closing them; `include/cache_filesystem.hpp:43-44` says all are closed.
- A cache file with a shortened name that is removed after it was listed fails
  `ALWAYS_ASSERT(tokens.size() >= 4)` (`disk_cache_util.cpp:149`). In
  `DiskCacheReader` the listing then stops (`EntryInfo`).
- "Write operations, which clear corresponding cache entries"
  (`include/cache_filesystem.hpp:103`): Write clears nothing; with
  `clear_cache_on_write` the open does.
- "It's worth noting data block cache won't get deleted"
  (`include/cache_filesystem.hpp:110-115`): the clear functions clear the
  readers too.
- `ClearCache(path)` keeps the glob listings that name the file, so
  `FreshAfterClear` speaks of listings only after a clear of everything.
- "Initialize global configurations ... in a thread-safe manner"
  (`include/cache_filesystem.hpp:266`): once a cache is turned off, the next open
  destroys it under the threads inside it. `CacheAlive` therefore assumes that the
  settings stay.
- A clear reaches the directories that are configured at the time, not those
  that were (`ClearedEverywhere`).
- `UpdateProfileType` stores the type before it is validated
  (`cache_httpfs_extension.cpp:299`). A connection that never set it has no
  cleanup of its collector when it closes.
- The option's description says `lru_single_proc`
  (`cache_httpfs_extension.cpp:761`); the accepted name is `lru_sp`.
- The object cache may evict a block before Put has stored its metadata. Its
  destructor then finds nothing to erase, and the entry stays behind (`early` in
  `ObjectCacheStorage`).

### Bounds

- GetOrCreate: 3 threads, 2 keys, 2 token objects, one cache entry, 2 versions,
  a timeout of one tick. Three threads give a creator, a waiter that leaves and
  one that joins; one entry makes every Put of another key evict. No symmetry,
  since liveness is checked.
- File handles: 2 clients, 3 handles, 3 objects of each kind, keys of two paths
  with two flags. Two clients suffice for an open against a clear; three objects
  for two detached ones and the current one. Clears overlap the opens of one key.
- File system: 2 threads, one of which writes, removes and clears; the file
  changes once; four settings: all caches with `clear_cache_on_write`,
  validation, an excluded file, and the metadata cache turned on and off. One
  change tells old from new in every cache.
- Disk: 2 threads, 1 or 2 blocks (one with a shortened name), up to 2 temporary
  names, 2 versions, one tick, which is also the age of a stale file. Each
  setting of `AllSettings` bounds what it does not need.
- Policy: 5 blocks of 1 to 3 units in two files, budgets of 4 and 5 units.
- In-memory: a file of 5 bytes, block sizes 1, 2 and 4, so that the last block is
  short; every request of one reader, two readers on the same entries; layouts
  with adjoining, separate, overlapping, empty and overlong extents.
- Object cache: 2 threads and the evictor, 2 keys, 2 tags, 3 blocks: a block, its
  replacement, and one of another key. Overlapping Puts use one key.
- Thread pool: 3 workers, up to 4 jobs, a default of 2 threads. More jobs than
  threads leaves some queued, fewer leaves threads asleep.
- Instance state: five scenarios, each with the settings that interact; 2
  directories, 2 file systems, up to 2 clears.

### Fairness

Liveness is checked of GetOrCreate (`CallsReturn`) and of the thread pool
(`CallReturns`). GetOrCreate assumes weak fairness of the steps of a thread inside
a call: the mutex is granted and the factory ends. The code needs both: its
critical sections are finite, and a factory is a remote request with the timeouts
of the underlying file system. The pool assumes weak fairness of the caller's steps
and of each worker's: a thread that can run does, and a job ends, with a value or
an exception. New calls, spurious wakeups and cache operations are not assumed to
happen. Deadlock is checked in every run.

## What is proved

All theorems hold for every value of the constants that satisfies the named
assumption of the module.

**GetOrCreate** (`ConstantsAssumption`: finitely many threads). `FlightInvariant`
says that `FlightInv` is an invariant; `OneFactory`, `Accounting`, `NoLostWakeup`
and `PublishesForward` derive four properties of the run `getorcreate`. None of
these is inductive alone. That one factory runs per key needs that the token of a
creator stays registered; that needs exact counts (or the last waiter erases it
early); those need that a caller's token is the one registered under its own key
and that no two keys share a token. No lost wakeup needs that a token is pending
exactly as long as its creator runs. Monotone publication needs that a creator's
value lies between the published and the remote version, which holds because
nobody else publishes meanwhile. `FlightInv` is the conjunction; each action has a
lemma that preserves it. The cache's content does not occur in the argument:
evictions and clears are free. `Refinement` uses the invariant to show that every
step is one of `SingleFlight` or a stutter.

`LruConsistentAlways`: the list and the map have the same keys, each once, within
`max_entries`. The invariant `CacheInv` says the same with the types, and each
operation has a lemma. They rest on `LruListProofs`: erasing nodes keeps the others,
in their order (`KeptPositions`), so a list without repetition stays one, and its
length is the number of its keys. `FlightInv` gives the type of what is published.

**On-disk reader** (`DiskAssumption`). `Published` and `OwnedTemps`:
`PublishedSound` and `TempsOwned` are invariants. That a published file is
complete and rightly tagged needs to know what every store in progress has at
hand, so `PublishedSound` includes `StoresSound`: the content was read after the
tag, hence is not older; the temporary file, unless somebody removed it, has what
was written so far; no two stores share one. Steps that only remove or touch files
have one lemma for those of a reader and one for those of others; the four steps of
a store and the crash have their own.

`MapsInverseAlways`: the two maps of access timestamps are
inverse to each other. The operators have a lemma each: dropping paths, adding one
under a free timestamp, and loading from the directory keep the maps inverse; the
search for a free timestamp ends, since the map is finite. The maps take their paths
and timestamps from the files and from the tasks, so `MapsInv` has the types of all
of the state, and uses the first invariant for what a task has at hand.

**Object cache storage** (`StorageAssumption`). `Agreement`, `ValidHits`,
`CompleteClears` and `OwnDestructions` are the four properties of the run
`objectcache`. They follow from `StorageInv`: a block that Put has not stored is
unknown to anyone else; a destructor runs when nobody can reach the block; metadata
belongs to a block whose destructor has yet to run, or was met early; and, when
Puts of a key are kept apart, blocks are replaced by later ones only, and what a
clear has yet to remove is on its list.

**Thread pool** (`PoolAssumption`). Four theorems of `ThreadPoolProofs`: the
inductive invariant `PoolInv`, and `WaitedForAll`, `FirstFailureThrown` and
`SleeperNotNeeded`. That Wait returns only when nothing runs needs an exact idle
count and that every job is accounted for (queued, held by exactly one worker, or
ended); that a sleeper is not needed relates the queue to the workers on their way
to it.

**File handles** (`HandleAssumption`). `CounterExactAlways` and
`CallbackAssertionsAlways`, both for behaviours in which no clear overlaps an open
(`fh_capture` shows that this is needed). An exact counter needs that a wrapper
gives back to the counter it incremented. That needs `MembersSettled`: cache and
counter come and go together, under the mutex or while nobody opens; and
`WrapperOK`: a wrapper captures the counter it incremented, and a cache exactly when
it captures a counter. What the cache holds does not occur in the argument.

`CachesConsistentAlways` and `HandleOwnershipAlways` hold in every behaviour, those
in which clears overlap opens included. The first needs more than it says: that the
queue of a key has its entries in the order of the list is preserved by an eviction
only if no value is queued twice and every node has its entry. `Matches` says this of
a list and its queues; `DeletedMatches` and `EnqueuedMatches` preserve it when
entries leave at the front of queues, and when one comes. `Put`, `GetAndPop` and
`ClearAndGetValues` then have a lemma each, which also says which values they return
and which they keep. `HandleInv` adds who has a handle: a wrapper, from the open or
the hit until its callback, or one entry of one cache, and that a cache to which
nothing refers is empty, so making a new object there forgets nothing. Lists are
filtered by position (`Kept`) and not with `SelectSeq`, whose definition is
recursive.

**File system** (`FileSystemAssumption`, `NoneAssumption`). `CacheAliveAlways`,
`FreshAfterClearAlways`, `NotOlderThanHandleAlways` and `RemovedIsGoneAlways`: the
four properties of the run `cachefs`. The inductive invariant has three parts.
`ThreadOK`: what a thread has taken is as fresh as the last clear made it, and the
caches it is inside exist. `SharedOK`: so is what the four caches hold, and a block
is no older than its tag. `AloneOK`: as long as a clear is alone, what it has
emptied stays empty, which is why what is put afterwards is fresh.

**Instance state** (`InstanceAssumption`, `NoneAssumption`).
`ReaderMatchesConfigAlways`, `ClearedEverywhereAlways` and
`StaleOnlyAfterSetAlways`: the three properties of the run `instance`, which are
inductive together. That a clear reaches everything needs that a reader that caches
was made, so it is on the list of readers; that a file system is registered before
it is cached (`WrappedRegistered`); and how far the clear has come
(`ClearProgress`).

Only model-checked:

- the liveness properties, since the prover does not treat fairness;
- the properties of the policy storage: used bytes are sums over entries, and the
  loops of `EvictToFit` and of the clock's hand are recursive functions of the number
  of rounds, so what they compute needs induction over data;
- the properties of the in-memory reader, whose plans and remapped blocks are
  recursive functions of the request.

## Not modelled

- The numbers of the profile collectors and the histogram, which no cache
  operation reads; status queries, which only report; statistics of hits and
  evictions.
- Registration of options and functions; the simulated latency and bandwidth; the
  parsing of `file_policies` (its parsed value is a constant).
- The executor on DuckDB tasks, which delegates to DuckDB's scheduler.
- Disk space figures: whether there is room is a free choice.
- The remapping of the on-disk reader's in-memory layer. The same routine is
  modelled for the in-memory reader.
- Seeks and the calls that `CacheFileSystem` only forwards. Truncate, Trim and
  MoveFile clear nothing and appear as changes of the remote file.
- Platform utilities, which are stateless; `copiable_value_lru_cache.hpp`,
  `exclusive_lru_cache.hpp` and the mock file systems, which serve unit tests only.
