--------------------------- MODULE InstanceState ---------------------------
(***************************************************************************)
(* The state the extension keeps per database (CacheHttpfsInstanceState):  *)
(* the settings, the cache readers, the profile collector of each          *)
(* connection and the registry of the wrapped file systems; the SET        *)
(* callbacks and SQL functions that change it, and the operations of the   *)
(* file systems as far as they use it.                                     *)
(*                                                                         *)
(* Several threads of one connection run a query (open and read files);    *)
(* another connection changes settings, clears and inspects.  Each manager *)
(* has its own mutex, so each call of one is a step.  What a cache holds   *)
(* is the number of clears begun when it was stored, or None.              *)
(***************************************************************************)
EXTENDS Integers, Sequences, FiniteSets, Functions

CONSTANTS
    Threads,       \* the threads of connection "query"
    FileSystems,   \* file systems that can be wrapped
    Loaded,        \* those LoadInternal wraps
    Directories,   \* cache directories
    DirectoryLists,\* the sorted lists of them that are set
    DefaultDir,    \* GetDefaultOnDiskCacheDirectory
    Scenarios,     \* bounds: the settings that are changed ("wrap" when file
                   \* systems are wrapped too), the threads of the query, the
                   \* number of clears; and the hash of the file that is read
    None

ASSUME InstanceAssumption ==
    /\ Loaded \subseteq FileSystems /\ Loaded # {}
    /\ DefaultDir \in Directories
    /\ DirectoryLists \subseteq Seq(Directories)
    /\ \A s \in Scenarios : s.threads \subseteq Threads /\ s.clears \in Nat /\ s.hash \in Nat

CacheTypes == {"noop", "in_mem", "on_disk"}
ProfileTypes == {"noop", "temp"}
Connections == {"query", "admin"}
Counts == {"min_disk_bytes", "disk_mem_block_count", "disk_mem_timeout",
           "in_mem_block_count", "in_mem_timeout", "metadata_size", "metadata_timeout",
           "file_handle_size", "file_handle_timeout", "glob_size", "glob_timeout"}
Choices == {"evict_policy", "in_mem_storage", "chunking", "eviction_policy",
            "policy_scope", "parallel_read_mode"}
Regexes == {"matching", "other"}   \* does it match the path of the file?

Collectors == [type : ProfileTypes, changed : BOOLEAN, stats : {"empty", "some"}]

ASSUME NoneAssumption == None \notin CacheTypes /\ None \notin Collectors

VARIABLES
    scenario,    \* what happens in this behaviour
    config,      \* InstanceConfig
    readers,     \* cache_reader_manager: the readers made, and the current one
    in_mem,      \* what the in-memory reader caches
    disk,        \* what each cache directory holds; survives the process
    vfs,         \* DuckDB's virtual file system: its file systems, plain or cached
    registry,    \* the wrapped file systems
    exclusion,   \* exclusion_manager: the regexes
    metadata,    \* what each file system's own caches hold
    collectors,  \* profile_collector_manager: the collector of a connection
    callback,    \* a CacheHttpfsExtensionCallback is registered
    op,          \* what each thread of the query is doing
    admin,       \* what the other connection is doing
    clears       \* clears begun

vars == <<scenario, config, readers, in_mem, disk, vfs, registry, exclusion, metadata,
          collectors, callback, op, admin, clears>>

\* `counts` are the settings that must be positive, `choices` those that must
\* be one of a list, `enabled` the caches that are switched on, `unchecked`
\* those that are taken as they come.
DefaultConfig ==
    [cache_type |-> "on_disk", profile_type |-> "noop", dirs |-> <<DefaultDir>>,
     enabled |-> {"metadata", "file_handle", "glob"}, unchecked |-> "default",
     counts |-> [n \in Counts |-> IF n = "min_disk_bytes" THEN 0 ELSE 1],
     choices |-> [n \in Choices |-> "listed"]]

\* A thread: the file system it has a file open in, the reference to the
\* profile collector it holds, the reader it uses, the columns it has bound.
IdleOp == [at |-> "idle", fs |-> None, ref |-> None, reader |-> None,
           bound |-> 0, row |-> 0, changed |-> FALSE]

IdleAdmin == [at |-> "idle", todo |-> {}]

\* The file systems of httpfs are there once that extension is loaded.
EnsureHttpfsExtensionLoaded(v) ==
    IF \E f \in Loaded : <<f, "plain">> \in v THEN v ELSE v \cup (Loaded \X {"plain"})

\* ExtractOrCreateHttpfs, ExtractOrCreateHuggingfs, ExtractOrCreateS3fs: the
\* file system is taken out if it is there, wrapped and put back.
ExtractOrCreate(v, fs) == {e \in v : e[1] \notin fs} \cup (fs \X {"cached"})

\* DuckDB may have loaded httpfs before or not.
LoadedVfs == {ExtractOrCreate(EnsureHttpfsExtensionLoaded(v), Loaded) :
                  v \in {FileSystems \X {"plain"}, (FileSystems \ Loaded) \X {"plain"}}}

\* LoadInternal: the state is made anew, the directories are there, the file
\* systems of httpfs are wrapped and SetCacheType makes the default reader.
Load ==
    /\ UNCHANGED scenario
    /\ config' = DefaultConfig
    /\ readers' = [made |-> {"on_disk"}, current |-> "on_disk"]
    /\ in_mem' = None
    /\ vfs' \in LoadedVfs
    /\ registry' = Loaded
    /\ exclusion' = {}
    /\ metadata' = [f \in FileSystems |-> None]
    /\ collectors' = [c \in Connections |-> None]
    /\ callback' = FALSE
    /\ op' = [t \in Threads |-> IdleOp]
    /\ admin' = IdleAdmin

Init ==
    /\ scenario \in Scenarios
    /\ config = DefaultConfig
    /\ readers = [made |-> {"on_disk"}, current |-> "on_disk"]
    /\ in_mem = None
    /\ disk = [d \in Directories |-> None]
    /\ vfs \in LoadedVfs
    /\ registry = Loaded
    /\ exclusion = {}
    /\ metadata = [f \in FileSystems |-> None]
    /\ collectors = [c \in Connections |-> None]
    /\ callback = FALSE
    /\ op = [t \in Threads |-> IdleOp]
    /\ admin = IdleAdmin
    /\ clears = 0

\* The database is closed or the process ends, and the extension is loaded
\* again: only the cache directories are still there.
Restart == Load /\ UNCHANGED <<disk, clears>>

---------------------------------------------------------------------------
(* The managers, each operation under its mutex.                           *)

Collector(type) == [type |-> type, changed |-> FALSE, stats |-> "empty"]

\* Fault: a collector of the right type is replaced too.
ReplacesAlways(c, type) == type \in ProfileTypes

\* SetProfileCollector keeps a collector that has the type, and makes one of
\* the type otherwise (it throws when there is no such type).
Replaces(c, type) ==
    /\ type \in ProfileTypes
    /\ collectors[c] = None \/ collectors[c].type # type

SetProfileCollector(c, type) ==
    collectors' = IF Replaces(c, type) THEN [collectors EXCEPT ![c] = Collector(type)]
                                       ELSE collectors

\* The references to a replaced collector dangle.  `changed` records whether
\* the setting had changed since that collector was made.
Orphaned(ops) ==
    [t \in Threads |->
        IF ops[t].ref = None THEN ops[t]
        ELSE [ops[t] EXCEPT !.ref = [alive |-> FALSE,
                                     changed |-> collectors["query"].changed]]]

\* Fault: a reader that was made before is not made current again.
SetCacheReaderOnce(type) ==
    readers' = [made |-> readers.made \cup {type},
                current |-> IF type \in readers.made THEN readers.current ELSE type]

\* The reader of config.cache_type, made if it was not used before.
SetCacheReader(type) ==
    readers' = [made |-> readers.made \cup {type}, current |-> type]

\* TempProfileCollector::Reset.
Reset(collector) == [collector EXCEPT !.stats = "empty"]

ResetProfileCollector(c) ==
    collectors' = IF collectors[c] = None THEN collectors
                  ELSE [collectors EXCEPT ![c] = Reset(@)]

\* The directories that are configured now are removed and made again.
EmptiedDirectories ==
    [d \in Directories |-> IF d \in Range(config.dirs) THEN None ELSE disk[d]]

\* The directory is picked by the hash of the file's path.
CacheDirectory(dirs) == dirs[(scenario.hash % Len(dirs)) + 1]

MatchAnyExclusion == "matching" \in exclusion

\* Fault: only the reader in use drops its blocks.
ClearReadersCurrent ==
    /\ in_mem' = IF readers.current = "in_mem" THEN None ELSE in_mem
    /\ disk' = IF readers.current = "on_disk"
               THEN EmptiedDirectories
               ELSE disk

\* Every reader ever made drops its blocks; the disk reader those in the
\* directories that are configured now.
ClearReaders ==
    /\ in_mem' = IF "in_mem" \in readers.made THEN None ELSE in_mem
    /\ disk' = IF "on_disk" \in readers.made
               THEN EmptiedDirectories
               ELSE disk

---------------------------------------------------------------------------
(* The threads of the query.                                               *)

shared == <<scenario, config, vfs, registry, exclusion, callback, admin, clears>>

\* InitializeGlobalConfig: the connection gets the collector of the type the
\* settings say (the call throws when they say none), ...
OpenFile(t) ==
    /\ op[t].at = "idle" /\ op[t].fs = None
    /\ config.profile_type \in ProfileTypes
    /\ SetProfileCollector("query", config.profile_type)
    /\ LET ops == IF Replaces("query", config.profile_type) THEN Orphaned(op) ELSE op IN
         \E f \in {e[1] : e \in {e \in vfs : e[2] = "cached"}} :
           op' = [ops EXCEPT ![t].at = "opening", ![t].fs = f]
    /\ UNCHANGED <<shared, readers, in_mem, disk, metadata>>

\* ... and the manager the reader of the type they say now.
OpenReader(t) ==
    /\ op[t].at = "opening"
    /\ SetCacheReader(config.cache_type)
    /\ op' = [op EXCEPT ![t].at = "idle"]
    /\ UNCHANGED <<shared, in_mem, disk, metadata, collectors>>

Close(t) ==
    /\ op[t].at = "idle" /\ op[t].fs # None
    /\ op' = [op EXCEPT ![t] = IdleOp]
    /\ UNCHANGED <<shared, readers, in_mem, disk, metadata, collectors>>

\* A read takes the reader in use, and a reference to the collector (which
\* the guard of the operation's latency keeps to the end).  A file that is
\* excluded is read past the readers.
Read(t) ==
    /\ op[t].at = "idle" /\ op[t].fs # None
    /\ op' = IF MatchAnyExclusion
             THEN [op EXCEPT ![t].at = "reading"]
             ELSE [op EXCEPT ![t].at = "reading", ![t].reader = readers.current,
                             ![t].ref = [alive |-> TRUE, changed |-> FALSE]]
    /\ UNCHANGED <<shared, readers, in_mem, disk, metadata, collectors>>

Stored(entry) == IF entry = None THEN clears ELSE entry

\* What was not cached is stored, by that reader and in the metadata cache of
\* the file system; the access is recorded.  With a dangling reference the
\* behaviour is undefined, and the model has no step.
ReadEnd(t) ==
    /\ op[t].at = "reading" /\ (op[t].ref # None => op[t].ref.alive)
    /\ in_mem' = IF op[t].reader = "in_mem" THEN Stored(in_mem) ELSE in_mem
    /\ disk' = IF op[t].reader = "on_disk"
               THEN [disk EXCEPT ![CacheDirectory(config.dirs)] = Stored(@)] ELSE disk
    /\ metadata' = IF "metadata" \in config.enabled THEN [metadata EXCEPT ![op[t].fs] = Stored(@)]
                                     ELSE metadata
    /\ collectors' = IF collectors["query"].type = "temp"
                     THEN [collectors EXCEPT !["query"].stats = "some"] ELSE collectors
    /\ op' = [op EXCEPT ![t].at = "idle", ![t].reader = None, ![t].ref = None]
    /\ UNCHANGED <<shared, readers>>

\* The columns of cache_httpfs_cache_config_query: the data cache's by its
\* type, one per other cache and one more if it is enabled, the exclusions.
Columns(c) == (CASE c.cache_type = "on_disk" -> 5
                 [] c.cache_type = "in_mem" -> 3
                 [] OTHER -> 1) + 3 + Cardinality(c.enabled) + 1

\* Its columns are bound from the settings, its row is filled from them later.
BindConfigQuery(t) ==
    /\ op[t].at = "idle"
    /\ op' = [op EXCEPT ![t].at = "bound", ![t].bound = Columns(config)]
    /\ UNCHANGED <<shared, readers, in_mem, disk, metadata, collectors>>

FillConfigRow(t) ==
    /\ op[t].at = "bound"
    /\ op' = [op EXCEPT ![t].at = "filled", ![t].row = Columns(config)]
    /\ UNCHANGED <<shared, readers, in_mem, disk, metadata, collectors>>

ConfigQueryEnd(t) ==
    /\ op[t].at = "filled"
    /\ op' = [op EXCEPT ![t] = [IdleOp EXCEPT !.fs = op[t].fs]]
    /\ UNCHANGED <<shared, readers, in_mem, disk, metadata, collectors>>

\* cache_httpfs_clear_profile, and the end of the connection: its collector
\* goes only if some connection registered the callback.
ResetProfileStats ==
    /\ \A t \in Threads : op[t].at = "idle"
    /\ ResetProfileCollector("query")
    /\ UNCHANGED <<shared, readers, in_mem, disk, metadata, op>>

OnConnectionClosed ==
    /\ callback
    /\ \A t \in Threads : op[t] = IdleOp
    /\ collectors' = [collectors EXCEPT !["query"] = None]
    /\ UNCHANGED <<shared, readers, in_mem, disk, metadata, op>>

---------------------------------------------------------------------------
(* SET, by the other connection.                                           *)

Bound(ops) == [t \in Threads |-> IF ops[t].at = "bound"
                                 THEN [ops[t] EXCEPT !.changed = TRUE] ELSE ops[t]]

\* An unknown type is refused; a known one is set, then its reader is.
UpdateCacheType ==
    /\ admin.at = "idle" /\ "cache_type" \in scenario.settings
    /\ \E type \in CacheTypes : config' = [config EXCEPT !.cache_type = type]
    /\ admin' = [admin EXCEPT !.at = "set_reader"]
    /\ op' = Bound(op)
    /\ UNCHANGED <<scenario, readers, in_mem, disk, vfs, registry, exclusion, metadata, collectors, callback, clears>>

UpdateCacheReader ==
    /\ admin.at = "set_reader"
    /\ SetCacheReader(config.cache_type)
    /\ admin' = IdleAdmin
    /\ UNCHANGED <<scenario, config, in_mem, disk, vfs, registry, exclusion, metadata, collectors, callback, op, clears>>

\* The type is set before it is checked: an unknown one stays.
UpdateProfileType ==
    /\ admin.at = "idle" /\ "profile_type" \in scenario.settings
    /\ \E type \in ProfileTypes \cup {"unknown"} :
         config' = [config EXCEPT !.profile_type = type]
    /\ collectors' = IF collectors["query"] = None THEN collectors
                     ELSE [collectors EXCEPT !["query"].changed = TRUE]
    /\ admin' = [admin EXCEPT !.at = "set_collector"]
    /\ UNCHANGED <<scenario, readers, in_mem, disk, vfs, registry, exclusion, metadata, callback, op, clears>>

UpdateCollector ==
    /\ admin.at = "set_collector"
    /\ SetProfileCollector("admin", config.profile_type)
    /\ callback' = (callback \/ config.profile_type \in ProfileTypes)
    /\ admin' = IdleAdmin
    /\ UNCHANGED <<scenario, config, readers, in_mem, disk, vfs, registry, exclusion, metadata, op, clears>>

\* The settings that are checked and assigned: a count or a timeout must not
\* be zero, a name must be on its list, a flag may be either.
UpdateCount(n) ==
    /\ \E v \in 0 .. 1 : v # 0 /\ config' = [config EXCEPT !.counts[n] = v]
    /\ UNCHANGED op

UpdateChoice(n) ==
    /\ \E v \in {"listed", "unknown"} :
         v = "listed" /\ config' = [config EXCEPT !.choices[n] = v]
    /\ UNCHANGED op

UpdateEnable(cache) ==
    /\ cache \in scenario.settings
    /\ config' = [config EXCEPT !.enabled = IF cache \in @ THEN @ \ {cache} ELSE @ \cup {cache}]
    /\ op' = Bound(op)

UpdateDiskSetting ==
    \/ \E n \in {"disk_mem_block_count", "disk_mem_timeout"} : UpdateCount(n)
    \/ "min_disk_bytes" \in scenario.settings /\ UpdateCount("min_disk_bytes")
    \/ UpdateChoice("evict_policy")

UpdateInMemSetting ==
    \/ \E n \in {"in_mem_block_count", "in_mem_timeout"} : UpdateCount(n)
    \/ UpdateChoice("in_mem_storage")

UpdateStorageSetting ==
    \E n \in {"chunking", "eviction_policy", "policy_scope"} : UpdateChoice(n)

UpdateParallelReadMode == UpdateChoice("parallel_read_mode")

UpdateMetadataCacheSetting ==
    UpdateEnable("metadata") \/ UpdateCount("metadata_size") \/ UpdateCount("metadata_timeout")

UpdateFileHandleCacheSetting ==
    UpdateEnable("file_handle") \/ UpdateCount("file_handle_size") \/ UpdateCount("file_handle_timeout")

UpdateGlobCacheSetting ==
    UpdateEnable("glob") \/ UpdateCount("glob_size") \/ UpdateCount("glob_timeout")

\* The fanout of a read, validation and clear_cache_on_write.
UpdateUnchecked ==
    /\ "unchecked" \in scenario.settings
    /\ \E v \in {"default", "other"} : config' = [config EXCEPT !.unchecked = v]
    /\ UNCHANGED op

\* No directory means the default one.
UpdateCacheDirectories ==
    /\ "directories" \in scenario.settings
    /\ \E dirs \in DirectoryLists :
         config' = [config EXCEPT !.dirs = IF dirs = << >> THEN <<DefaultDir>> ELSE dirs]
    /\ UNCHANGED op

UpdateSetting ==
    /\ admin.at = "idle"
    /\ \/ UpdateDiskSetting \/ UpdateInMemSetting \/ UpdateStorageSetting
       \/ UpdateParallelReadMode \/ UpdateMetadataCacheSetting
       \/ UpdateFileHandleCacheSetting \/ UpdateGlobCacheSetting
       \/ UpdateCacheDirectories \/ UpdateUnchecked
    /\ UNCHANGED <<scenario, readers, in_mem, disk, vfs, registry, exclusion, metadata, collectors, callback, admin, clears>>

---------------------------------------------------------------------------
(* The SQL functions of the other connection.                              *)

\* A file system that is registered with DuckDB and not wrapped yet (the call
\* throws if there is none of the name) is taken out of it.  The constructor of
\* the cache file system adds that to the registry, ...
WrapCacheFileSystem ==
    /\ admin.at = "idle" /\ "wrap" \in scenario.settings
    /\ \E f \in FileSystems :
         /\ <<f, "plain">> \in vfs
         /\ vfs' = vfs \ {<<f, "plain">>}
         /\ registry' = registry \cup {f}
         /\ admin' = [at |-> "wrap", todo |-> {f}]
    /\ UNCHANGED <<scenario, config, readers, in_mem, disk, exclusion, metadata, collectors, callback, op, clears>>

\* ... and it is registered with DuckDB.
RegisterSubSystem ==
    /\ admin.at = "wrap"
    /\ vfs' = vfs \cup (admin.todo \X {"cached"})
    /\ admin' = IdleAdmin
    /\ UNCHANGED <<scenario, config, readers, in_mem, disk, registry, exclusion, metadata, collectors, callback, op, clears>>

\* cache_httpfs_add_exclusion_regex and cache_httpfs_reset_exclusion_regex.
AddCacheExclusionRegex ==
    /\ admin.at = "idle" /\ "exclusion" \in scenario.settings
    /\ \E regex \in Regexes : exclusion' = exclusion \cup {regex}
    /\ UNCHANGED <<scenario, config, readers, in_mem, disk, vfs, registry, metadata, collectors, callback, op, admin, clears>>

ResetCacheExclusionRegex ==
    /\ admin.at = "idle"
    /\ exclusion' = {}
    /\ UNCHANGED <<scenario, config, readers, in_mem, disk, vfs, registry, metadata, collectors, callback, op, admin, clears>>

\* cache_httpfs_clear_cache begins with the directories, as the disk reader
\* may not have been made; cache_httpfs_clear_cache_for_file with the readers.
ClearAllCache ==
    /\ admin.at = "idle" /\ clears < scenario.clears
    /\ clears' = clears + 1
    /\ \/ /\ admin' = [admin EXCEPT !.at = "clear_all"]
          /\ disk' = EmptiedDirectories
       \/ /\ admin' = [admin EXCEPT !.at = "clear_file"]
          /\ UNCHANGED disk
    /\ UNCHANGED <<scenario, config, readers, in_mem, vfs, registry, exclusion, metadata, collectors, callback, op>>

ClearAllReaders ==
    /\ admin.at \in {"clear_all", "clear_file"} /\ admin.todo = {}
    /\ ClearReaders
    /\ admin' = [at |-> IF admin.at = "clear_all" THEN "clear_all_fs" ELSE "clear_file_fs",
                 todo |-> registry]
    /\ UNCHANGED <<scenario, config, readers, vfs, registry, exclusion, metadata, collectors, callback, op, clears>>

\* Then each file system found in the registry, which has the readers clear
\* again.
ClearFileSystem ==
    /\ admin.at \in {"clear_all_fs", "clear_file_fs"}
    /\ \E f \in admin.todo :
         /\ metadata' = [metadata EXCEPT ![f] = None]
         /\ admin' = [admin EXCEPT !.todo = @ \ {f}]
    /\ ClearReaders
    /\ UNCHANGED <<scenario, config, readers, vfs, registry, exclusion, collectors, callback, op, clears>>

ClearDone ==
    /\ admin.at \in {"clear_all_fs", "clear_file_fs"} /\ admin.todo = {}
    /\ IF admin.at = "clear_all_fs" THEN ResetProfileCollector("admin") ELSE UNCHANGED collectors
    /\ admin' = [admin EXCEPT !.at = "cleared"]
    /\ UNCHANGED <<scenario, config, readers, in_mem, disk, vfs, registry, exclusion, metadata, callback, op, clears>>

ClearReturn ==
    /\ admin.at = "cleared"
    /\ admin' = IdleAdmin
    /\ UNCHANGED <<scenario, config, readers, in_mem, disk, vfs, registry, exclusion, metadata, collectors, callback, op, clears>>

Next ==
    \/ \E t \in scenario.threads : \/ OpenFile(t) \/ OpenReader(t) \/ Close(t) \/ Read(t) \/ ReadEnd(t)
                          \/ BindConfigQuery(t) \/ FillConfigRow(t) \/ ConfigQueryEnd(t)
    \/ ResetProfileStats \/ OnConnectionClosed
    \/ UpdateCacheType \/ UpdateCacheReader \/ UpdateProfileType \/ UpdateCollector
    \/ UpdateSetting \/ WrapCacheFileSystem \/ RegisterSubSystem
    \/ AddCacheExclusionRegex \/ ResetCacheExclusionRegex
    \/ ClearAllCache \/ ClearAllReaders \/ ClearFileSystem \/ ClearDone \/ ClearReturn
    \/ Restart

Spec == Init /\ [][Next]_vars
---------------------------------------------------------------------------
(* Properties.                                                             *)

Settings ==
    [cache_type : CacheTypes, profile_type : ProfileTypes \cup {"unknown"},
     dirs : Seq(Directories) \ {<< >>}, enabled : SUBSET {"metadata", "file_handle", "glob"},
     unchecked : {"default", "other"},
     counts : [Counts -> 0 .. 1], choices : [Choices -> {"listed"}]]

Ops == [at : {"idle", "opening", "reading", "bound", "filled"},
        fs : {None} \cup FileSystems, ref : {None} \cup [alive : BOOLEAN, changed : BOOLEAN],
        reader : {None} \cup CacheTypes, bound : Nat, row : Nat, changed : BOOLEAN]

Admins == [at : {"idle", "set_reader", "set_collector", "wrap", "clear_all", "clear_file",
                 "clear_all_fs", "clear_file_fs", "cleared"},
           todo : SUBSET FileSystems]

TypeOK ==
    /\ scenario \in Scenarios
    /\ config \in Settings
    /\ \A n \in Counts \ {"min_disk_bytes"} : config.counts[n] > 0
    /\ readers \in [made : SUBSET CacheTypes, current : CacheTypes]
    /\ readers.current \in readers.made /\ "on_disk" \in readers.made
    /\ in_mem \in {None} \cup Nat
    /\ disk \in [Directories -> {None} \cup Nat]
    /\ metadata \in [FileSystems -> {None} \cup Nat]
    /\ collectors \in [Connections -> {None} \cup Collectors]
    /\ vfs \subseteq FileSystems \X {"plain", "cached"} /\ exclusion \subseteq Regexes
    /\ op \in [Threads -> Ops]
    /\ admin \in Admins
    /\ clears \in 0 .. scenario.clears

\* A file system is plain or cached, and one that is cached is in the registry;
\* while one is wrapped it is in the registry only.
WrappedRegistered ==
    /\ Loaded \subseteq registry /\ registry \subseteq FileSystems
    /\ \A f \in FileSystems : /\ <<f, "plain">> \in vfs => <<f, "cached">> \notin vfs
                              /\ <<f, "cached">> \in vfs => f \in registry
    /\ admin.at = "wrap" => /\ admin.todo \subseteq registry
                            /\ \A f \in admin.todo : <<f, "plain">> \notin vfs

\* Between two SETs the reader in use is the one of cache_httpfs_type, however
\* the files opened by other connections interleave with a SET: all of them
\* set the reader of the type the settings say at that moment.
ReaderMatchesConfig ==
    /\ TypeOK /\ WrappedRegistered
    /\ admin.at # "set_reader" => readers.current = config.cache_type

\* Stored after the last clear began.
Fresh(entry) == entry # None => entry >= clears

ReadersCleared == Fresh(in_mem) /\ \A d \in Range(config.dirs) : Fresh(disk[d])

\* How far a clear has come: the readers are done first, then the file systems
\* of the registry that are not in `todo`.  A reader that caches was made, so
\* the clear finds it.
ClearProgress ==
    /\ in_mem # None => "in_mem" \in readers.made
    /\ \A t \in Threads : op[t].reader = "in_mem" => "in_mem" \in readers.made
    /\ admin.at \in {"clear_all_fs", "clear_file_fs"} =>
           ReadersCleared /\ \A f \in registry \ admin.todo : Fresh(metadata[f])
    /\ admin.at = "cleared" => ReadersCleared /\ \A f \in registry : Fresh(metadata[f])

\* When cache_httpfs_clear_cache (or the clear of a file) returns, whatever any
\* cache holds was stored after it began: the reader in use, the readers that
\* were in use before, the configured directories (also what an earlier
\* process left in them) and the metadata of every cached file system of DuckDB.
ClearedEverywhere ==
    /\ ClearProgress
    /\ admin.at = "cleared" =>
           /\ Fresh(in_mem)
           /\ \A d \in Range(config.dirs) : Fresh(disk[d])
           /\ \A f \in FileSystems : <<f, "cached">> \in vfs => Fresh(metadata[f])

\* What a thread took from the settings and no SET has changed since: the
\* collector of a file it has open, and the columns it has bound.
TakenCurrent ==
    /\ collectors["query"] # None => \/ collectors["query"].changed
                                     \/ collectors["query"].type = config.profile_type
    /\ \A t \in Threads :
           /\ op[t].ref # None \/ op[t].at = "reading" => op[t].fs # None
           /\ op[t].fs # None => collectors["query"] # None
           /\ op[t].at = "bound" /\ ~op[t].changed => op[t].bound = Columns(config)

\* What a running query took from the settings goes stale only when a SET
\* changed them: a reference to a profile collector dangles only if the
\* profile type was set after that collector was made, and the row of the
\* config query has the columns that were bound unless a setting they depend
\* on was set in between.
StaleOnlyAfterSet ==
    /\ TakenCurrent
    /\ \A t \in Threads :
           /\ op[t].ref # None /\ ~op[t].ref.alive => op[t].ref.changed
           /\ op[t].at = "filled" /\ ~op[t].changed => op[t].row = op[t].bound
============================================================================
