--------------------------- MODULE DiskCacheReader ---------------------------
(***************************************************************************)
(* The on-disk data block cache: DiskCacheReader (disk_cache_reader.cpp)   *)
(* and the file operations of DiskCacheUtil (disk_cache_util.cpp).         *)
(*                                                                         *)
(* A reader thread serves one block: from the in-memory layer, from the    *)
(* local cache file, or from the remote file, in which case it writes a    *)
(* temporary file, attaches the version tag and renames it into place.     *)
(* Other threads, eviction, the SQL functions that clear and list the      *)
(* cache, crashes and restarts happen between any two of its system calls. *)
(*                                                                         *)
(* The content of a block is the version of the remote file it was read    *)
(* from, and a version tag is the version the tag belongs to.              *)
(***************************************************************************)
EXTENDS Integers, FiniteSets, Functions, FiniteSetsExt

CONSTANTS
  Threads,      \* worker threads that run ProcessCacheReadChunk
  Blocks,       \* blocks, and their cache files, as numbers 10 * file + index
  LongNames,    \* the blocks whose cache file name is shortened to a hash
  Accessible,   \* the blocks whose cache file CanAccessFile allows
  TempNames,    \* the names of temporary files
  Configs,      \* the settings to check: [policy, validation, mem_cache], and with
                \* each the blocks in use, and bounds on temporary files, versions and clock
  NoPath,
  MaxVersion,   \* bound on the versions of a remote file
  MaxClock,     \* bound on the clock
  Staleness,    \* CACHE_FILE_STALENESS, in clock ticks
  DeadTemp      \* DEAD_TEMP_STALENESS, in clock ticks

ASSUME DiskAssumption ==
  /\ Blocks \subseteq Nat /\ LongNames \subseteq Blocks /\ Accessible \subseteq Blocks
  /\ TempNames \cap Nat = {} /\ NoPath \notin Blocks \cup TempNames
  /\ \A c \in Configs : /\ c.blocks \subseteq Blocks /\ c.temps \in Nat
                        /\ c.versions \in 1 .. MaxVersion /\ c.ticks \in 0 .. MaxClock
  /\ MaxVersion \in Nat \ {0} /\ MaxClock \in Nat /\ Staleness \in Nat /\ DeadTemp \in Nat

FileOf(b) == b \div 10
RemoteFiles == {FileOf(b) : b \in Blocks}
Paths == Blocks \cup TempNames
NoTag == 0
Partial == 0   \* the content of a file that has not been written completely
Tags == 0 .. MaxVersion

VARIABLES
  config,                              \* the settings and bounds of this behaviour
  clock,
  remote,                              \* the current version of each remote file
  files,                               \* the cache directory: path -> [block, data, tag, mtime]
  cache_file_access_timestamp_map,     \* timestamp -> path
  cache_filepath_to_access_timestamp,  \* path -> timestamp
  in_mem_storage,                      \* block -> [data, tag]
  task,                                \* the reader threads
  admin,                               \* the connection that clears and lists the cache
  orphans                              \* (history) the temporary files a crash left behind

maps == <<cache_file_access_timestamp_map, cache_filepath_to_access_timestamp>>
vars == <<config, clock, remote, files, maps, in_mem_storage, task, admin, orphans>>

IdleTask == [pc |-> "idle", block |-> NoPath, tag |-> NoTag, data |-> NoTag,
             path |-> NoPath, stamp |-> 0]
IdleAdmin == [pc |-> "idle", todo |-> {}, file |-> 0]

Init ==
  /\ config \in Configs
  /\ clock = 0
  /\ remote = [f \in RemoteFiles |-> 1]
  /\ files = <<>>
  /\ cache_file_access_timestamp_map = <<>>
  /\ cache_filepath_to_access_timestamp = <<>>
  /\ in_mem_storage = <<>>
  /\ task = [t \in Threads |-> IdleTask]
  /\ admin = IdleAdmin
  /\ orphans = {}

-----------------------------------------------------------------------------
(* The local file system. *)

OnDisk == DOMAIN files

With(f, x, v) == [y \in DOMAIN f \cup {x} |-> IF y = x THEN v ELSE f[y]]
Drop(f, S) == [x \in DOMAIN f \ S |-> f[x]]

\* TryRemoveFile: it is not an error if the file is gone.
Removed(S) == Drop(files, S)

\* UpdateFileTimestamps, which ignores a file that is gone.
Utimed(p) == IF p \in OnDisk THEN [files EXCEPT ![p].mtime = clock] ELSE files

\* A random UUID: a name that nothing uses.
UnusedName(n) ==
  /\ n \notin OnDisk \cup orphans
  /\ n \notin DOMAIN cache_filepath_to_access_timestamp
  /\ \A t \in Threads : task[t].path # n

\* IsTempCacheFile and the age test of CleanupDeadTempFiles.
DeadTemps == {n \in OnDisk \cap TempNames : clock - files[n].mtime >= DeadTemp}

\* EvictStaleCacheFiles.
StaleFiles == {p \in OnDisk : clock - files[p].mtime >= Staleness}

-----------------------------------------------------------------------------
(* The two maps of access timestamps. *)

LRU == config.policy = "lru_sp"

\* The first timestamp from ts on that the map does not have.
FreeStamp(map, ts) == Min({s \in ts .. ts + Cardinality(DOMAIN map) : s \notin DOMAIN map})

\* The timestamps that GetOnDiskFilesUnder may give the files in the directory,
\* temporary ones included.  Each file gets the first timestamp from its
\* modification time on that no file listed before it has; any order of the
\* directory's entries may do, so that is all one knows.
LoadedStamps ==
  {stamp \in [OnDisk -> 0 .. clock + Cardinality(OnDisk)] :
     \A p \in OnDisk : /\ files[p].mtime <= stamp[p]
                       /\ files[p].mtime .. stamp[p] \subseteq Range(stamp)
                       /\ \A q \in OnDisk : stamp[p] = stamp[q] => p = q}

PathsByStamp(stamp) == [s \in Range(stamp) |-> CHOOSE p \in DOMAIN stamp : stamp[p] = s]

\* Fault: the old timestamp of the path stays in the map.
ForgetNothing(map, p) == map

\* RemoveCacheFileAccessTimestamp, on the map of timestamps.
Forget(map, p) ==
  IF p \in DOMAIN cache_filepath_to_access_timestamp
  THEN Drop(map, {cache_filepath_to_access_timestamp[p]})
  ELSE map

-----------------------------------------------------------------------------
(* ProcessCacheReadChunk, ReadLocalCacheFile and StoreLocalCacheFile. *)

\* The task goes on with its block, with other content, another path or a timestamp.
GoWith(t, where, data, path, stamp) ==
  task' = [task EXCEPT ![t] = [pc |-> where, block |-> @.block, tag |-> @.tag,
                               data |-> data, path |-> path, stamp |-> stamp]]
Go(t, where) == GoWith(t, where, task[t].data, task[t].path, task[t].stamp)
GoData(t, where, data) == GoWith(t, where, data, task[t].path, task[t].stamp)
GoPath(t, where, path) == GoWith(t, where, task[t].data, path, task[t].stamp)
GoStamp(t, where, stamp) == GoWith(t, where, task[t].data, task[t].path, stamp)
Done(t) == task' = [task EXCEPT ![t] = IdleTask]

\* The block is served: it remains to put it into the in-memory layer, if there is one.
Served(t) ==
  IF config.mem_cache THEN GoStamp(t, "memput", 0) ELSE Done(t)

\* ReadAndCache schedules a chunk.  The handle, and with it the version tag, may
\* be older than the remote file is now.
Start(t, b) ==
  /\ task[t].pc = "idle"
  /\ \E tag \in IF config.validation THEN 1 .. remote[FileOf(b)] ELSE {NoTag} :
       task' = [task EXCEPT ![t] = [pc |-> IF config.mem_cache THEN "mem" ELSE "open",
                                    block |-> b, tag |-> tag, data |-> NoTag,
                                    path |-> NoPath, stamp |-> 0]]
  /\ UNCHANGED <<config, clock, remote, files, maps, in_mem_storage, admin, orphans>>

\* Get of the in-memory layer and its version test.
MemLookup(t) ==
  LET b == task[t].block IN
  /\ task[t].pc = "mem"
  /\ IF b \notin DOMAIN in_mem_storage
     THEN Go(t, "open")
     ELSE IF task[t].tag \in {NoTag, in_mem_storage[b].tag}
     THEN GoData(t, "memhit", in_mem_storage[b].data)
     ELSE Go(t, "memdrop")
  /\ UNCHANGED <<config, clock, remote, files, maps, in_mem_storage, admin, orphans>>

\* Get's Delete after a version mismatch, by key.
MemDrop(t) ==
  /\ task[t].pc = "memdrop"
  /\ in_mem_storage' = Drop(in_mem_storage, {task[t].block})
  /\ Go(t, "open")
  /\ UNCHANGED <<config, clock, remote, files, maps, admin, orphans>>

CopyMemHit(t) ==
  /\ task[t].pc = "memhit"
  /\ Done(t)
  /\ UNCHANGED <<config, clock, remote, files, maps, in_mem_storage, admin, orphans>>

\* CanAccessFile, and OpenFile with NULL_IF_NOT_EXISTS.  The open handle keeps
\* the content whatever happens to the path.  Without a tag nothing is validated.
OpenLocal(t) ==
  LET b == task[t].block IN
  /\ task[t].pc = "open"
  /\ IF b \in Accessible /\ b \in OnDisk
     THEN GoData(t, IF task[t].tag = NoTag THEN "hit" ELSE "validate", files[b].data)
     ELSE Go(t, "remote")
  /\ UNCHANGED <<config, clock, remote, files, maps, in_mem_storage, admin, orphans>>

\* ValidateCacheFile reads the tag of the file that has the path now.
Validate(t) ==
  LET b == task[t].block IN
  /\ task[t].pc = "validate"
  /\ IF b \in OnDisk /\ files[b].tag = task[t].tag
     THEN Go(t, "hit")
     ELSE Go(t, "discard")
  /\ UNCHANGED <<config, clock, remote, files, maps, in_mem_storage, admin, orphans>>

Discard(t) ==
  /\ task[t].pc = "discard"
  /\ files' = Removed({task[t].block})
  /\ Go(t, "remote")
  /\ UNCHANGED <<config, clock, remote, maps, in_mem_storage, admin, orphans>>

\* The content is read from the open handle and copied; the file is touched.
CopyHit(t) ==
  /\ task[t].pc = "hit"
  /\ files' = Utimed(task[t].block)
  /\ IF LRU THEN GoStamp(t, "upsert", clock) ELSE Served(t)
  /\ UNCHANGED <<config, clock, remote, maps, in_mem_storage, admin, orphans>>

\* The remote read, which may throw.
ReadRemote(t) ==
  LET b == task[t].block IN
  /\ task[t].pc = "remote"
  /\ \/ /\ b \in Accessible
        /\ GoData(t, "store", remote[FileOf(b)])
     \/ Done(t)
  /\ UNCHANGED <<config, clock, remote, files, maps, in_mem_storage, admin, orphans>>

\* CanCacheOnDisk says no: files are evicted and the block is not stored.
StoreFull(t) ==
  /\ task[t].pc = "store"
  /\ IF LRU THEN Go(t, "evict") /\ UNCHANGED files
            ELSE Go(t, "touch") /\ files' = Removed(StaleFiles)
  /\ UNCHANGED <<config, clock, remote, maps, in_mem_storage, admin, orphans>>

\* EvictCacheBlockLru: the maps are loaded from the directory if they are empty,
\* and the path with the oldest timestamp leaves both.
EvictLru(t) ==
  LET empty == cache_file_access_timestamp_map = <<>> IN
  /\ task[t].pc = "evict"
  /\ \E reverse \in IF empty THEN LoadedStamps ELSE {cache_filepath_to_access_timestamp} :
       LET map == IF empty THEN PathsByStamp(reverse) ELSE cache_file_access_timestamp_map IN
       IF map = <<>>
       THEN Go(t, "touch") /\ UNCHANGED maps
       ELSE LET oldest == map[Min(DOMAIN map)] IN
            /\ GoPath(t, "unlink", oldest)
            /\ cache_file_access_timestamp_map' = Drop(map, {reverse[oldest]})
            /\ cache_filepath_to_access_timestamp' = Drop(reverse, {oldest})
  /\ UNCHANGED <<config, clock, remote, files, in_mem_storage, admin, orphans>>

\* EvictCacheFiles removes the file, after the maps' mutex was released.
Unlink(t) ==
  /\ task[t].pc = "unlink"
  /\ files' = Removed({task[t].path})
  /\ GoPath(t, "touch", NoPath)
  /\ UNCHANGED <<config, clock, remote, maps, in_mem_storage, admin, orphans>>

\* The temporary file is created, empty.  That fails when the directory is missing,
\* and may fail otherwise; the exception is swallowed.
CreateTemp(t) ==
  /\ task[t].pc = "store"
  /\ \/ /\ admin.pc # "mkdir"
        /\ Cardinality((OnDisk \cap TempNames) \cup orphans) < config.temps
        /\ \E n \in TempNames :
             /\ UnusedName(n)
             /\ files' = With(files, n, [block |-> task[t].block, data |-> Partial,
                                         tag |-> NoTag, mtime |-> clock])
             /\ GoPath(t, "write", n)
     \/ Done(t) /\ UNCHANGED files
  /\ UNCHANGED <<config, clock, remote, maps, in_mem_storage, admin, orphans>>

\* Write and Sync through the open handle, which works on a file that was removed
\* too.  If it throws, the temporary file is removed on the way out.
WriteContent(t) ==
  LET n == task[t].path IN
  /\ task[t].pc = "write"
  /\ \/ /\ files' = IF n \in OnDisk THEN [files EXCEPT ![n].data = task[t].data] ELSE files
        /\ Go(t, "tag")
     \/ files' = Removed({n}) /\ Done(t)
  /\ UNCHANGED <<config, clock, remote, maps, in_mem_storage, admin, orphans>>

\* Fault: the tag is asked for again, after the content was read.
SetTagAgain(t) ==
  LET n == task[t].path IN
  /\ task[t].pc = "tag"
  /\ \/ /\ n \in OnDisk
        /\ files' = [files EXCEPT ![n].tag = remote[FileOf(task[t].block)]]
        /\ Go(t, "rename")
     \/ /\ files' = Removed({n})
        /\ GoPath(t, "touch", NoPath)
  /\ UNCHANGED <<config, clock, remote, maps, in_mem_storage, admin, orphans>>

\* Fault: the early return leaves the temporary file.
SetTagLeaving(t) ==
  LET n == task[t].path IN
  /\ task[t].pc = "tag"
  /\ \/ /\ n \in OnDisk
        /\ files' = [files EXCEPT ![n].tag = task[t].tag]
        /\ Go(t, "rename")
     \/ /\ GoPath(t, "touch", NoPath)
        /\ UNCHANGED files
  /\ UNCHANGED <<config, clock, remote, maps, in_mem_storage, admin, orphans>>

\* SetCacheVersion and SetFileXattrs.  If they fail StoreLocalCacheFile returns,
\* and removes the temporary file.
SetTag(t) ==
  LET n == task[t].path IN
  /\ task[t].pc = "tag"
  /\ \/ /\ n \in OnDisk
        /\ files' = [files EXCEPT ![n].tag = task[t].tag]
        /\ Go(t, "rename")
     \/ /\ files' = Removed({n})
        /\ GoPath(t, "touch", NoPath)
  /\ UNCHANGED <<config, clock, remote, maps, in_mem_storage, admin, orphans>>

\* MoveFile, which replaces the destination; it throws if the temporary file is gone.
Rename(t) ==
  LET n == task[t].path
      b == task[t].block
  IN
  /\ task[t].pc = "rename"
  /\ IF n \in OnDisk
     THEN /\ files' = With(Removed({n}), b, files[n])
          /\ GoPath(t, "touch", NoPath)
     ELSE /\ Done(t)
          /\ UNCHANGED files
  /\ UNCHANGED <<config, clock, remote, maps, in_mem_storage, admin, orphans>>

\* After StoreLocalCacheFile: FileExists, and the first half of
\* UpsertCacheFileAccessTimestamp.
Touch(t) ==
  LET b == task[t].block IN
  /\ task[t].pc = "touch"
  /\ IF LRU /\ b \in OnDisk
     THEN GoStamp(t, "upsert", clock) /\ files' = Utimed(b)
     ELSE Served(t) /\ UNCHANGED files
  /\ UNCHANGED <<config, clock, remote, maps, in_mem_storage, admin, orphans>>

\* The second half of UpsertCacheFileAccessTimestamp, under the mutex.
Upsert(t) ==
  LET b   == task[t].block
      map == Forget(cache_file_access_timestamp_map, b)
      ts  == FreeStamp(map, task[t].stamp)
  IN
  /\ task[t].pc = "upsert"
  /\ cache_file_access_timestamp_map' = With(map, ts, b)
  /\ cache_filepath_to_access_timestamp' = With(cache_filepath_to_access_timestamp, b, ts)
  /\ Served(t)
  /\ UNCHANGED <<config, clock, remote, files, in_mem_storage, admin, orphans>>

MemPut(t) ==
  /\ task[t].pc = "memput"
  /\ in_mem_storage' =
       With(in_mem_storage, task[t].block, [data |-> task[t].data, tag |-> task[t].tag])
  /\ Done(t)
  /\ UNCHANGED <<config, clock, remote, files, maps, admin, orphans>>

ReaderStep(t) ==
  \/ MemLookup(t) \/ MemDrop(t) \/ CopyMemHit(t)
  \/ OpenLocal(t) \/ Validate(t) \/ Discard(t) \/ CopyHit(t)
  \/ ReadRemote(t) \/ StoreFull(t) \/ EvictLru(t) \/ Unlink(t)
  \/ CreateTemp(t) \/ WriteContent(t) \/ SetTag(t) \/ Rename(t)
  \/ Touch(t) \/ Upsert(t) \/ MemPut(t)

-----------------------------------------------------------------------------
(* ClearCache(), ClearCache(fname) and GetCacheEntriesInfo. *)

AdminStep(where) == admin' = [admin EXCEPT !.pc = where]

ClearAll ==
  /\ admin.pc = "idle"
  /\ files' = <<>>
  /\ AdminStep("mkdir")
  /\ UNCHANGED <<config, clock, remote, maps, in_mem_storage, task, orphans>>

MakeDirectory ==
  /\ admin.pc = "mkdir"
  /\ AdminStep("maps")
  /\ UNCHANGED <<config, clock, remote, files, maps, in_mem_storage, task, orphans>>

ClearMaps ==
  /\ admin.pc = "maps"
  /\ cache_file_access_timestamp_map' = <<>>
  /\ cache_filepath_to_access_timestamp' = <<>>
  /\ admin' = IF config.mem_cache THEN [admin EXCEPT !.pc = "memory"] ELSE IdleAdmin
  /\ UNCHANGED <<config, clock, remote, files, in_mem_storage, task, orphans>>

ClearMemory ==
  /\ admin.pc = "memory"
  /\ in_mem_storage' = <<>>
  /\ admin' = IdleAdmin
  /\ UNCHANGED <<config, clock, remote, files, maps, task, orphans>>

\* The cache files and the temporary files of the remote file, found by the prefix
\* of their names, which a shortened name does not have.
ClearFile(f) ==
  /\ admin.pc = "idle"
  /\ admin' = [pc |-> "untrack", file |-> f,
               todo |-> {p \in OnDisk : /\ FileOf(files[p].block) = f
                                        /\ files[p].block \notin LongNames}]
  /\ UNCHANGED <<config, clock, remote, files, maps, in_mem_storage, task, orphans>>

Untrack ==
  LET reverse == cache_filepath_to_access_timestamp IN
  /\ admin.pc = "untrack"
  /\ cache_file_access_timestamp_map' =
       Drop(cache_file_access_timestamp_map, {reverse[p] : p \in admin.todo \cap DOMAIN reverse})
  /\ cache_filepath_to_access_timestamp' = Drop(reverse, admin.todo)
  /\ AdminStep("unlink")
  /\ UNCHANGED <<config, clock, remote, files, in_mem_storage, task, orphans>>

\* The files are removed in parallel, in any order.
UnlinkOne(p) ==
  /\ admin.pc = "unlink"
  /\ p \in admin.todo
  /\ files' = Removed({p})
  /\ admin' = [admin EXCEPT !.todo = @ \ {p}]
  /\ UNCHANGED <<config, clock, remote, maps, in_mem_storage, task, orphans>>

ClearFileMemory ==
  /\ admin.pc = "unlink" /\ admin.todo = {}
  /\ in_mem_storage' = Drop(in_mem_storage, {b \in Blocks : FileOf(b) = admin.file})
  /\ admin' = IdleAdmin
  /\ UNCHANGED <<config, clock, remote, files, maps, task, orphans>>

\* GetCacheEntriesInfo: ListFiles yields the entries one by one, temporary files
\* are skipped, and GetRemoteFileInfo reads the attributes of each path.
ListEntry(b) ==
  /\ admin.pc = "idle"
  /\ b \in OnDisk
  /\ admin' = [admin EXCEPT !.pc = "info", !.todo = {b}]
  /\ UNCHANGED <<config, clock, remote, files, maps, in_mem_storage, task, orphans>>

\* A name that was shortened and has no attribute does not have four parts.
Parses(b) == b \in LongNames => b \in OnDisk

EntryInfo ==
  /\ admin.pc = "info"
  /\ \A b \in admin.todo : Parses(b)           \* ALWAYS_ASSERT
  /\ admin' = IdleAdmin
  /\ UNCHANGED <<config, clock, remote, files, maps, in_mem_storage, task, orphans>>

AdminNext ==
  \/ ClearAll \/ MakeDirectory \/ ClearMaps \/ ClearMemory
  \/ \E b \in config.blocks : ClearFile(FileOf(b)) \/ ListEntry(b)
  \/ Untrack \/ \E p \in Paths : UnlinkOne(p)
  \/ ClearFileMemory
  \/ EntryInfo

-----------------------------------------------------------------------------
(* The environment. *)

\* The process dies, and the extension is loaded again: the directory is created
\* and dead temporary files are removed.
Crash ==
  /\ files' = Removed(DeadTemps)
  /\ orphans' = orphans \cup (OnDisk \cap TempNames)
  /\ cache_file_access_timestamp_map' = <<>>
  /\ cache_filepath_to_access_timestamp' = <<>>
  /\ in_mem_storage' = <<>>
  /\ task' = [t \in Threads |-> IdleTask]
  /\ admin' = IdleAdmin
  /\ UNCHANGED <<config, clock, remote>>

\* cache_httpfs_cleanup_dead_temp_files(), or another process that loads the extension.
CleanupDeadTempFiles ==
  /\ files' = Removed(DeadTemps)
  /\ UNCHANGED <<config, clock, remote, maps, in_mem_storage, task, admin, orphans>>

\* The in-memory layer drops a block: capacity or timeout.
MemEvict(b) ==
  /\ in_mem_storage' = Drop(in_mem_storage, {b})
  /\ UNCHANGED <<config, clock, remote, files, maps, task, admin, orphans>>

RemoteUpdate(f) ==
  /\ remote[f] < config.versions
  /\ remote' = [remote EXCEPT ![f] = @ + 1]
  /\ UNCHANGED <<config, clock, files, maps, in_mem_storage, task, admin, orphans>>

Tick ==
  /\ clock < config.ticks
  /\ clock' = clock + 1
  /\ UNCHANGED <<config, remote, files, maps, in_mem_storage, task, admin, orphans>>

Next ==
  \/ \E t \in Threads : ReaderStep(t) \/ \E b \in config.blocks : Start(t, b)
  \/ AdminNext
  \/ Crash \/ CleanupDeadTempFiles \/ Tick
  \/ \E b \in config.blocks : MemEvict(b) \/ RemoteUpdate(FileOf(b))

Spec == Init /\ [][Next]_vars

-----------------------------------------------------------------------------
(* Properties. *)

\* The type invariant.  The in-memory layer never holds an unread block.
TypeOK ==
  /\ config \in Configs
  /\ clock \in 0 .. MaxClock
  /\ remote \in [RemoteFiles -> 1 .. MaxVersion]
  /\ OnDisk \subseteq Paths /\ IsFiniteSet(OnDisk)
  /\ files \in [OnDisk -> [block : Blocks, data : Tags, tag : Tags, mtime : 0 .. clock]]
  /\ LET stamps == DOMAIN cache_file_access_timestamp_map
         paths  == DOMAIN cache_filepath_to_access_timestamp
     IN  /\ stamps \subseteq Nat /\ IsFiniteSet(stamps) /\ paths \subseteq Paths
         /\ cache_file_access_timestamp_map \in [stamps -> Paths]
         /\ cache_filepath_to_access_timestamp \in [paths -> Nat]
  /\ DOMAIN in_mem_storage \subseteq Blocks
  /\ in_mem_storage \in [DOMAIN in_mem_storage -> [data : 1 .. MaxVersion, tag : Tags]]
  /\ \A t \in Threads : /\ task[t].block \in Blocks \cup {NoPath}
                        /\ task[t].path \in Paths \cup {NoPath}
                        /\ task[t].tag \in Tags /\ task[t].data \in Tags
                        /\ task[t].stamp \in 0 .. clock
  /\ admin \in [pc : {"idle", "mkdir", "maps", "memory", "untrack", "unlink", "info"},
                todo : SUBSET Paths, file : RemoteFiles \cup {0}]
  /\ orphans \subseteq TempNames

\* "Invariant: each filepath appears exactly once in both maps": the two maps of
\* access timestamps are inverse to each other, through accesses with equal
\* timestamps, evictions, clears and the reload from disk.
MapsInverse ==
  LET map == cache_file_access_timestamp_map
      reverse == cache_filepath_to_access_timestamp
  IN  /\ TypeOK
      /\ Range(map) = DOMAIN reverse
      /\ Range(reverse) = DOMAIN map
      /\ \A s \in DOMAIN map : reverse[map[s]] = s

Storing == {"write", "tag", "rename"}

\* What the task of a thread has at hand, depending on where it is: the tag is one
\* the remote file had, content to be stored is complete and not older than the
\* tag, and the temporary file has a name of its own.
TaskOK(r) ==
  /\ r.pc # "idle" => /\ r.block \in Blocks
                      /\ config.validation => r.tag \in 1 .. remote[FileOf(r.block)]
  /\ r.pc \notin {"idle", "mem", "memdrop", "open", "remote"} => r.data \in Nat \ {Partial}
  /\ r.pc \in Storing \cup {"store"} /\ config.validation => r.data >= r.tag
  /\ r.pc \in Storing => r.path \in TempNames \ orphans

\* The temporary file of a store in progress, unless somebody has removed it, is
\* that of no other store, and has what the store has written so far.
OwnTemp(t) ==
  LET r == task[t] IN
  r.pc \in Storing =>
    /\ \A u \in Threads : task[u].pc \in Storing /\ task[u].path = r.path => u = t
    /\ r.path \in OnDisk =>
         /\ files[r.path].block = r.block
         /\ r.pc \in {"tag", "rename"} => files[r.path].data = r.data
         /\ r.pc = "rename" => files[r.path].tag = r.tag

\* The stores in progress, which a crash or the removal of their temporary files
\* may interrupt at any point.
StoresSound ==
  /\ remote \in [RemoteFiles -> Nat \ {0}]
  /\ files = [p \in OnDisk |-> [block |-> files[p].block, data |-> files[p].data,
                                tag |-> files[p].tag, mtime |-> files[p].mtime]]
  /\ task = [t \in Threads |-> task[t]]
  /\ \A t \in Threads : TaskOK(task[t]) /\ OwnTemp(t)
  /\ \A b \in DOMAIN in_mem_storage : in_mem_storage[b].data \in Nat \ {Partial}

\* A cache file that readers can open is complete and, when validation is on, has
\* a tag that its content is not older than.  So a crash, a removed temporary
\* file or a remote update in the middle of a store is never published, and no
\* reader is served a part of a block.
PublishedSound ==
  /\ StoresSound
  /\ \A b \in OnDisk \cap Blocks :
       /\ files[b].block = b
       /\ files[b].data \in Nat \ {Partial}
       /\ config.validation => files[b].tag # NoTag /\ files[b].data >= files[b].tag

\* Every temporary file belongs to a store in progress, or a crash left it.
TempsOwned ==
  \A n \in (OnDisk \cap TempNames) \ orphans :
    \E t \in Threads : task[t].path = n /\ task[t].pc \in Storing

\* "If the local cache file doesn't match the requested [version_tag], it will be
\* deleted": a hit serves content that is not older than the reader's tag.
HitFresh ==
  \A t \in Threads : task[t].pc \in {"hit", "memhit"} => task[t].data >= task[t].tag
==============================================================================
