-------------------------- MODULE CacheFileSystem --------------------------
(***************************************************************************)
(* The file system object itself (cache_filesystem.cpp): one remote file,  *)
(* one glob pattern that lists it, and the four caches that hold what was  *)
(* once read of it -- the metadata cache, the glob cache, the cached       *)
(* internal handles and the data blocks of the cache reader.  An operation *)
(* is the sequence of its accesses to the caches and to the remote, each a *)
(* step, interleaved with the operations of the other threads.             *)
(*                                                                         *)
(* What is read is a version of the file; `remote.ver` counts its changes. *)
(* The metadata and glob caches answer by GetOrCreate: one caller runs the *)
(* factory, the others with the same key wait for its result               *)
(* (SingleFlight.tla).  Latencies and access counts go to the profile      *)
(* collector of the connection, which InstanceState.tla models.            *)
(***************************************************************************)
EXTENDS Integers, Sequences, FiniteSets

CONSTANTS
    Threads,     \* threads that call the file system
    Writers,     \* those that also write and remove the file and clear caches
    MaxVersion,  \* bound: changes of the remote file
    Configs,     \* the settings a behaviour may start with
    None

Versions == 0 .. MaxVersion
Members == {"metadata", "glob"}

Settings ==
    [enable_metadata_cache : BOOLEAN, enable_glob_cache : BOOLEAN,
     enable_file_handle_cache : BOOLEAN, clear_cache_on_write : BOOLEAN,
     enable_cache_validation : BOOLEAN, excluded : BOOLEAN,
     reader : {"cached", "noop"}, toggling : BOOLEAN]

ASSUME FileSystemAssumption ==
    /\ MaxVersion \in Nat /\ Writers \subseteq Threads /\ Configs \subseteq Settings
    /\ None \notin Threads \cup Versions /\ \A vs \in SUBSET Versions : vs # None

VARIABLES
    config,            \* the InstanceConfig fields this file system reads
    remote,            \* the file: [ver, there]
    caches,            \* metadata_cache and glob_cache: None, or entry and flight
    file_handle_cache, \* None, or the versions of the handles cached in it
    data,              \* the reader's block of the file: None, or [ver, tag]
    op,                \* what each thread is doing
    crashed,           \* a member cache was destroyed under a thread inside it
    alone,             \* history: the thread whose clear no other ran beside
    clean              \* history: the file's version at the last such clear

vars == <<config, remote, caches, file_handle_cache, data, op, crashed, alone, clean>>

\* What was read: the versions its size (or content, or listing) and its
\* modification time are of, and whether the file was there.
Value(v, w, there) == [size |-> v, mtime |-> w, there |-> there]
Values == [size : Versions, mtime : Versions, there : BOOLEAN]

NewCache == [entry |-> None, leader |-> None]
Caches == [entry : {None} \cup Values, leader : {None} \cup Threads]

Handles == [ver : Versions, cached : BOOLEAN]
Blocks == [ver : Versions, tag : {None} \cup Versions]

ASSUME NoneAssumption == None \notin Values \cup Caches \cup Handles \cup Blocks

\* A thread between two calls.  `handle` is the file it has open: the version
\* the internal handle was opened at, and whether the wrapper's destructor
\* still has the current file_handle_cache to give it back to.
Holding(handle) == [at |-> "idle", todo |-> <<>>, next |-> "idle", handle |-> handle,
                    val |-> None, since |-> 0]
Idle == Holding(None)

Init ==
    /\ config \in Configs
    /\ remote = [ver |-> 0, there |-> TRUE]
    /\ caches = [c \in Members |-> None]
    /\ file_handle_cache = None
    /\ data = None
    /\ op = [t \in Threads |-> Idle]
    /\ crashed = FALSE
    /\ alone = None
    /\ clean = [c \in {"metadata", "glob", "data"} |-> 0]

Goto(t, at) == op' = [op EXCEPT ![t] = [@ EXCEPT !.at = at]]

\* The call ends, by returning or by throwing.
Return(t) == op' = [op EXCEPT ![t] = Holding(@.handle)]

---------------------------------------------------------------------------
(* InitializeGlobalConfig: under cache_reader_mutex, so one step.          *)

\* The threads inside a member cache: in its factory or waiting for one.
\* GlobImpl also puts into the metadata cache.
InsideOf(o, c) ==
    IF c = "metadata"
    THEN o.at \in {"stat", "stat2", "publish_metadata", "wait_metadata", "fill"}
    ELSE \/ o.at \in {"publish_glob", "wait_glob"}
         \/ o.at \in {"list", "set", "fill"} /\ o.next = "publish_glob"

Inside(c) == {t \in Threads : InsideOf(op[t], c)}

\* Fault: the metadata cache is made anew, not only when there is none.
SetMetadataCacheAnew == IF config.enable_metadata_cache THEN NewCache ELSE None

SetMetadataCache ==
    IF ~config.enable_metadata_cache THEN None
    ELSE IF caches["metadata"] = None THEN NewCache ELSE caches["metadata"]

SetGlobCache ==
    IF ~config.enable_glob_cache THEN None
    ELSE IF caches["glob"] = None THEN NewCache ELSE caches["glob"]

SetFileHandleCache ==
    IF ~config.enable_file_handle_cache THEN None
    ELSE IF file_handle_cache = None THEN {} ELSE file_handle_cache

\* A new value is assigned to the unique_ptr while threads are inside the
\* cache it held, which is destroyed.
DestroyedInUse(c) == caches[c] # None /\ caches'[c] # caches[c] /\ Inside(c) # {}

\* The wrappers out there keep the cache they captured; without a current
\* one, their handles are not seen again.
Detached(ops) ==
    [u \in Threads |-> IF ops[u].handle = None THEN ops[u]
                       ELSE [ops[u] EXCEPT !.handle = [ver |-> ops[u].handle.ver,
                                                       cached |-> FALSE]]]

InitializeGlobalConfig ==
    /\ caches' = [c \in Members |-> IF c = "metadata" THEN SetMetadataCache ELSE SetGlobCache]
    /\ file_handle_cache' = SetFileHandleCache
    /\ crashed' = \E c \in Members : DestroyedInUse(c)

---------------------------------------------------------------------------
(* Clearing.  Each cache has its own lock, so each is a step.              *)

\* ClearCache(filepath) and ClearCache(), in their order.  The glob cache
\* drops the key equal to the path, and a path is not the key of a pattern.
PathClear == <<"metadata", "handles", "data">>
AllClear == <<"metadata", "glob", "all_handles", "data">>

\* ClearCacheForFile and ClearAllCache (the SQL functions) have the readers
\* drop their blocks before they call each file system.
SqlClears == {<<"data", "metadata", "handles", "data">>,
              <<"data", "metadata", "glob", "all_handles", "data">>}

Clearing(o, todo, next) ==
    [o EXCEPT !.at = "clear", !.todo = todo, !.next = next, !.since = remote.ver]

Emptied(c) == IF caches[c] = None THEN None ELSE [caches[c] EXCEPT !.entry = None]

\* Fault: the metadata of a path stays.
ClearedCachesGlob(target) ==
    IF target = "glob" THEN [caches EXCEPT !["glob"] = Emptied("glob")] ELSE caches

ClearedCaches(target) ==
    IF target \in Members THEN [caches EXCEPT ![target] = Emptied(target)]
                           ELSE caches

\* The metadata is clean once the handles it could come from are cleared too.
Cleaned(target, todo, since) ==
    CASE target \in {"handles", "all_handles"} -> [clean EXCEPT !["metadata"] = since]
      [] target = "glob" -> [clean EXCEPT !["glob"] = since]
      [] target = "data" /\ Len(todo) = 1 -> [clean EXCEPT !["data"] = since]
      [] OTHER -> clean

\* The clear goes on with the next cache, or the call that made it does.
Cleared(o) ==
    IF Len(o.todo) > 1 THEN [o EXCEPT !.todo = Tail(o.todo)]
    ELSE IF o.next = "idle" THEN Holding(o.handle)
    ELSE [o EXCEPT !.at = o.next, !.todo = <<>>, !.since = 0]

\* ClearFileHandleCache(filepath) empties the cache, ClearFileHandleCache()
\* also lets go of it.
ClearNext(t) ==
    /\ op[t].at = "clear" /\ op[t].todo # <<>>
    /\ LET target == Head(op[t].todo)
           ops == [op EXCEPT ![t] = Cleared(@)]
       IN /\ caches' = ClearedCaches(target)
          /\ file_handle_cache' =
                CASE target = "all_handles" -> None
                  [] target = "handles" /\ file_handle_cache # None -> {}
                  [] OTHER -> file_handle_cache
          /\ data' = IF target = "data" THEN None ELSE data
          /\ op' = IF target = "all_handles" THEN Detached(ops) ELSE ops
          /\ clean' = IF /\ alone = t
                         /\ \A u \in Threads : op[u].handle # None =>
                                                  op[u].handle.ver >= op[t].since
                      THEN Cleaned(target, op[t].todo, op[t].since)
                      ELSE clean
    /\ UNCHANGED <<config, remote, crashed>>

ClearCache(t) ==
    /\ op[t].at = "idle" /\ t \in Writers
    /\ \E todo \in SqlClears : op' = [op EXCEPT ![t] = Clearing(@, todo, "idle")]
    /\ UNCHANGED <<config, remote, caches, file_handle_cache, data, clean, crashed>>

---------------------------------------------------------------------------
(* Opening, closing, writing and removing.                                 *)

\* OpenFileExtended, for reading and for writing, and Glob begin alike; with
\* clear_cache_on_write every open clears the path, for reading too.
Start(t) ==
    /\ op[t].at = "idle"
    /\ InitializeGlobalConfig
    /\ LET ops == IF file_handle_cache' = None THEN Detached(op) ELSE op IN
         \E kind \in {"open", "write", "glob"} :
            /\ kind = "open" => op[t].handle = None
            /\ kind = "write" => t \in Writers
            /\ op' = [ops EXCEPT ![t] = IF config.clear_cache_on_write /\ kind # "glob"
                                        THEN Clearing(@, PathClear, kind)
                                        ELSE [@ EXCEPT !.at = kind]]
    /\ UNCHANGED <<config, remote, data, clean>>

\* GetOrCreateFileHandleForRead: a cached handle is taken out of the cache,
\* otherwise the file is opened, which throws when it is not there.
Open(t) ==
    /\ op[t].at = "open"
    /\ \/ \E v \in IF file_handle_cache = None THEN {} ELSE file_handle_cache :
            /\ op' = [op EXCEPT ![t] = Holding([ver |-> v, cached |-> TRUE])]
            /\ file_handle_cache' = file_handle_cache \ {v}
       \/ /\ file_handle_cache \in {None, {}} /\ remote.there
          /\ op' = [op EXCEPT ![t] = Holding([ver |-> remote.ver,
                                                 cached |-> file_handle_cache # None])]
          /\ UNCHANGED file_handle_cache
       \/ /\ file_handle_cache \in {None, {}} /\ ~remote.there
          /\ Return(t)
          /\ UNCHANGED file_handle_cache
    /\ UNCHANGED <<config, remote, caches, data, clean, crashed>>

\* The wrapper's destructor gives the internal handle back.
Close(t) ==
    /\ op[t].at = "idle" /\ op[t].handle # None
    /\ op' = [op EXCEPT ![t] = Idle]
    /\ file_handle_cache' = IF op[t].handle.cached
                            THEN file_handle_cache \cup {op[t].handle.ver}
                            ELSE file_handle_cache
    /\ UNCHANGED <<config, remote, caches, data, clean, crashed>>

\* Write changes the file and no cache.
Write(t) ==
    /\ op[t].at = "write"
    /\ remote.ver < MaxVersion
    /\ remote' = [ver |-> remote.ver + 1, there |-> TRUE]
    /\ Return(t)
    /\ UNCHANGED <<config, caches, file_handle_cache, data, clean, crashed>>

\* The handle is closed without a write, or the open throws.
CloseUnwritten(t) ==
    /\ op[t].at = "write"
    /\ Return(t)
    /\ UNCHANGED <<config, remote, caches, file_handle_cache, data, clean, crashed>>

\* Fault: of the removed file only the metadata is cleared.
RemoveFileOnly(t) ==
    /\ op[t].at = "idle" /\ t \in Writers
    /\ op' = [op EXCEPT ![t] = Clearing(@, <<"metadata">>, "unlink")]
    /\ UNCHANGED <<config, remote, caches, file_handle_cache, data, clean, crashed>>

\* TryRemoveFile, RemoveFile, RemoveFiles: the path is cleared, then removed.
RemoveFile(t) ==
    /\ op[t].at = "idle" /\ t \in Writers
    /\ op' = [op EXCEPT ![t] = Clearing(@, PathClear, "unlink")]
    /\ UNCHANGED <<config, remote, caches, file_handle_cache, data, clean, crashed>>

Unlink(t) ==
    /\ op[t].at = "unlink"
    /\ \/ /\ remote.there /\ remote.ver < MaxVersion
          /\ remote' = [ver |-> remote.ver + 1, there |-> FALSE]
          /\ Goto(t, "unlinked")
       \/ /\ Return(t)                                   \* it throws
          /\ UNCHANGED remote
    /\ UNCHANGED <<config, caches, file_handle_cache, data, clean, crashed>>

\* What a call was served, and its return.
Served(t) ==
    /\ op[t].at \in {"have_metadata", "have_data", "have_glob", "unlinked"}
    /\ IF op[t].at = "have_metadata" /\ op[t].next = "read"
       THEN op' = [op EXCEPT ![t] = [@ EXCEPT !.at = "read", !.next = "idle", !.val = None]]
       ELSE Return(t)
    /\ UNCHANGED <<config, remote, caches, file_handle_cache, data, clean, crashed>>

---------------------------------------------------------------------------
(* Metadata and globs: GetOrCreate of the two shared caches.               *)

Have(c) == IF c = "metadata" THEN "have_metadata" ELSE "have_glob"
Wait(c) == IF c = "metadata" THEN "wait_metadata" ELSE "wait_glob"
Publishing(c) == IF c = "metadata" THEN "publish_metadata" ELSE "publish_glob"

\* A hit, the factory (`at`), or the wait for the one who runs it.
GetOrCreate(t, c, at, next) ==
    /\ caches[c] # None
    /\ \/ /\ caches[c].entry # None
          /\ op' = [op EXCEPT ![t] = [@ EXCEPT !.at = Have(c), !.next = next,
                                               !.val = caches[c].entry]]
          /\ UNCHANGED caches
       \/ /\ caches[c].entry = None /\ caches[c].leader = None
          /\ caches' = [caches EXCEPT ![c] = [@ EXCEPT !.leader = t]]
          /\ op' = [op EXCEPT ![t] = [@ EXCEPT !.at = at,
                          !.next = IF c = "glob" THEN "publish_glob" ELSE next]]
       \/ /\ caches[c].entry = None /\ caches[c].leader # None
          /\ op' = [op EXCEPT ![t] = [@ EXCEPT !.at = Wait(c), !.next = next]]
          /\ UNCHANGED caches

Waiting(c) == {u \in Threads : op[u].at = Wait(c)}

\* The factory's value is cached and handed to everyone who waits for it;
\* what it throws, they throw.
Publish(t) ==
    /\ \E c \in Members :
         /\ op[t].at = Publishing(c)
         /\ caches' = [caches EXCEPT ![c] = [entry |-> op[t].val, leader |-> None]]
         /\ op' = [u \in Threads |->
                      IF u = t \/ u \in Waiting(c)
                      THEN [op[u] EXCEPT !.at = Have(c), !.val = op[t].val]
                      ELSE op[u]]
    /\ UNCHANGED <<config, remote, file_handle_cache, data, clean, crashed>>

Throw(t, c) ==
    /\ caches' = [caches EXCEPT ![c] = [@ EXCEPT !.leader = None]]
    /\ op' = [u \in Threads |->
                 IF u = t \/ u \in Waiting(c) THEN Holding(op[u].handle) ELSE op[u]]

\* The internal file system answers from what its handle read when it was
\* opened, or asks the remote.
Stats(t) == {op[t].handle.ver} \cup (IF remote.there THEN {remote.ver} ELSE {})

\* Stats, GetFileSize, GetLastModifiedTime; a read begins with GetFileSize.
GetMetadata(t) ==
    /\ op[t].at = "idle" /\ op[t].handle # None
    /\ \E next \in {"idle", "read"} :
         \/ /\ caches["metadata"] = None
            /\ \E v \in Stats(t) :
                 op' = [op EXCEPT ![t] = [@ EXCEPT !.at = "have_metadata", !.next = next,
                                                   !.val = Value(v, v, TRUE)]]
            /\ UNCHANGED caches
         \/ GetOrCreate(t, "metadata", "stat", next)
    /\ UNCHANGED <<config, remote, file_handle_cache, data, clean, crashed>>

\* The factory: Stats or, when that throws, GetMetadataFallback, which reads
\* the size and the modification time one after the other.
Stat(t) ==
    /\ op[t].at = "stat"
    /\ \/ \E v \in Stats(t), at \in {"publish_metadata", "stat2"} :
            /\ op' = [op EXCEPT ![t] = [@ EXCEPT !.at = at, !.val = Value(v, v, TRUE)]]
            /\ UNCHANGED caches
       \/ ~remote.there /\ Throw(t, "metadata")
    /\ UNCHANGED <<config, remote, file_handle_cache, data, clean, crashed>>

GetMetadataFallback(t) ==
    /\ op[t].at = "stat2"
    /\ \/ \E v \in Stats(t) :
            /\ op' = [op EXCEPT ![t] = [@ EXCEPT !.at = "publish_metadata",
                                                 !.val = Value(op[t].val.size, v, TRUE)]]
            /\ UNCHANGED caches
       \/ ~remote.there /\ Throw(t, "metadata")
    /\ UNCHANGED <<config, remote, file_handle_cache, data, clean, crashed>>

\* Glob, after InitializeGlobalConfig.
Glob(t) ==
    /\ op[t].at = "glob"
    /\ \/ /\ caches["glob"] = None
          /\ op' = [op EXCEPT ![t] = [@ EXCEPT !.at = "list", !.next = "have_glob"]]
          /\ UNCHANGED caches
       \/ /\ caches["glob"] # None                       \* a path, no pattern
          /\ op' = [op EXCEPT ![t] = [@ EXCEPT !.at = "have_glob",
                            !.val = Value(remote.ver, remote.ver, remote.there)]]
          /\ UNCHANGED caches
       \/ GetOrCreate(t, "glob", "list", "idle")
    /\ UNCHANGED <<config, remote, file_handle_cache, data, clean, crashed>>

\* GlobImpl: the remote listing,
List(t) ==
    /\ op[t].at = "list"
    /\ \/ /\ op' = [op EXCEPT ![t] = [@ EXCEPT !.at = "set",
                            !.val = Value(remote.ver, remote.ver, remote.there)]]
          /\ UNCHANGED caches
       \/ /\ op[t].next = "publish_glob"                          \* it throws
          /\ Throw(t, "glob")
       \/ /\ op[t].next = "have_glob"
          /\ Return(t)
          /\ UNCHANGED caches
    /\ UNCHANGED <<config, remote, file_handle_cache, data, clean, crashed>>

\* then SetMetadataCache, under cache_reader_mutex,
SetMetadata(t) ==
    /\ op[t].at = "set"
    /\ caches' = [caches EXCEPT !["metadata"] = SetMetadataCache]
    /\ crashed' = DestroyedInUse("metadata")
    /\ Goto(t, IF caches'["metadata"] # None /\ op[t].val.there THEN "fill" ELSE op[t].next)
    /\ UNCHANGED <<config, remote, file_handle_cache, data, clean>>

\* then a Put of the metadata the listing came with, if it came with any.
Fill(t) ==
    /\ op[t].at = "fill"
    /\ caches["metadata"] # None
    /\ \/ caches' = [caches EXCEPT !["metadata"] = [@ EXCEPT !.entry = op[t].val]]
       \/ UNCHANGED caches
    /\ Goto(t, op[t].next)
    /\ UNCHANGED <<config, remote, file_handle_cache, data, clean, crashed>>

---------------------------------------------------------------------------
(* ReadImpl, once it has the size.                                         *)

\* The tag the blocks of this handle carry: GetVersionTag of the handle.
Tag(t) == IF config.enable_cache_validation THEN op[t].handle.ver ELSE None

\* Fault: the tag is not compared.
HitUnchecked(t) == data # None

Hit(t) == data # None /\ data.tag = Tag(t)

Read(t) ==
    /\ op[t].at = "read"
    /\ \/ /\ Return(t)                      \* the location is past that size
          /\ UNCHANGED data
       \/ /\ config.excluded \/ config.reader = "noop"
          /\ remote.there
          /\ op' = [op EXCEPT ![t] = [@ EXCEPT !.at = "have_data",
                                               !.val = Value(remote.ver, remote.ver, TRUE)]]
          /\ UNCHANGED data
       \/ /\ ~config.excluded /\ config.reader = "cached" /\ Hit(t)
          /\ op' = [op EXCEPT ![t] = [@ EXCEPT !.at = "have_data",
                                               !.val = Value(data.ver, data.ver, TRUE)]]
          /\ UNCHANGED data
       \/ /\ ~config.excluded /\ config.reader = "cached" /\ ~Hit(t)
          /\ Goto(t, "fetch")
          /\ data' = None                          \* a block of another tag
    /\ UNCHANGED <<config, remote, caches, file_handle_cache, clean, crashed>>

Fetch(t) ==
    /\ op[t].at = "fetch"
    /\ \/ /\ remote.there
          /\ op' = [op EXCEPT ![t] = [@ EXCEPT !.at = "store",
                                               !.val = Value(remote.ver, remote.ver, TRUE)]]
       \/ ~remote.there /\ Return(t)
    /\ UNCHANGED <<config, remote, caches, file_handle_cache, data, clean, crashed>>

Store(t) ==
    /\ op[t].at = "store"
    /\ data' = [ver |-> op[t].val.size, tag |-> Tag(t)]
    /\ Goto(t, "have_data")
    /\ UNCHANGED <<config, remote, caches, file_handle_cache, clean, crashed>>

---------------------------------------------------------------------------
(* The surroundings.                                                       *)

\* The file changes: by another program, or by Truncate, Trim or MoveFile
\* of this file system, which change no cache.
RemoteChange ==
    /\ remote.ver < MaxVersion
    /\ remote' = [ver |-> remote.ver + 1, there |-> TRUE]
    /\ UNCHANGED <<config, caches, file_handle_cache, data, op, clean, crashed>>

\* An entry is too old, or gives way to the entry of another file.
Evict ==
    /\ \/ /\ \E c \in Members : caches' = [caches EXCEPT ![c] = Emptied(c)]
          /\ UNCHANGED <<file_handle_cache, data>>
       \/ /\ file_handle_cache # None
          /\ \E v \in file_handle_cache : file_handle_cache' = file_handle_cache \ {v}
          /\ UNCHANGED <<caches, data>>
       \/ /\ data' = None
          /\ UNCHANGED <<caches, file_handle_cache>>
    /\ UNCHANGED <<config, remote, op, clean, crashed>>

\* SET cache_httpfs_enable_..._cache
Toggle ==
    /\ config.toggling
    /\ config' = [config EXCEPT !.enable_metadata_cache = ~@]
    /\ UNCHANGED <<remote, caches, file_handle_cache, data, op, clean, crashed>>

Step(t) ==
    \/ ClearCache(t) \/ ClearNext(t) \/ RemoveFile(t) \/ Unlink(t)
    \/ Start(t) \/ Open(t) \/ Close(t) \/ Write(t) \/ CloseUnwritten(t)
    \/ GetMetadata(t) \/ Stat(t) \/ GetMetadataFallback(t) \/ Publish(t)
    \/ Glob(t) \/ List(t) \/ SetMetadata(t) \/ Fill(t)
    \/ Read(t) \/ Fetch(t) \/ Store(t) \/ Served(t)

\* A call with a clear is alone as long as no other thread is in a call.
Alone(t) ==
    alone' = IF /\ op'[t].at # "idle"
                /\ alone = t \/ (op[t].at # "clear" /\ op'[t].at = "clear")
                /\ \A u \in Threads \ {t} : op[u].at = "idle"
             THEN t ELSE None

\* After the destruction of a cache in use the behaviour is undefined: the
\* model ends there.
Next ==
    \/ ~crashed /\ \E t \in Threads : Step(t) /\ Alone(t)
    \/ ~crashed /\ (RemoteChange \/ Evict \/ Toggle) /\ UNCHANGED alone
    \/ crashed /\ UNCHANGED vars

Spec == Init /\ [][Next]_vars

---------------------------------------------------------------------------
(* Properties.                                                             *)

Ops == [at : {"idle", "clear", "open", "write", "glob", "unlink", "unlinked",
              "stat", "stat2", "publish_metadata", "wait_metadata", "have_metadata",
              "list", "set", "fill", "publish_glob", "wait_glob", "have_glob",
              "read", "fetch", "store", "have_data"},
        todo : Seq({"metadata", "glob", "handles", "all_handles", "data"}),
        next : {"idle", "open", "write", "unlink", "read", "publish_glob", "have_glob"},
        handle : {None} \cup Handles, val : {None} \cup Values, since : Versions]

TypeOK ==
    /\ config \in Settings
    /\ remote \in [ver : Versions, there : BOOLEAN]
    /\ caches \in [Members -> {None} \cup Caches]
    /\ file_handle_cache \in {None} \cup SUBSET Versions
    /\ data \in {None} \cup Blocks
    /\ op \in [Threads -> Ops]
    /\ crashed \in BOOLEAN
    /\ alone \in {None} \cup Threads
    /\ clean \in [{"metadata", "glob", "data"} -> Versions]

\* A thread has what the place it is at needs: a handle, what it read, where to
\* go from there.
Placed(o) ==
    /\ o.at \in {"stat", "stat2", "publish_metadata", "wait_metadata", "have_metadata",
                 "read", "fetch", "store", "have_data"} => o.handle # None
    /\ o.at \in {"stat2", "publish_metadata", "have_metadata", "set", "fill", "publish_glob",
                 "have_glob", "store", "have_data"} => o.val # None
    /\ o.at = "clear" => o.next \in {"idle", "open", "write", "unlink"}
    /\ o.at \in {"list", "set", "fill"} => o.next \in {"publish_glob", "have_glob"}

\* What is left of a clear once the metadata has been cleared.
AfterMetadata == {<<"handles", "data">>, <<"glob", "all_handles", "data">>,
                  <<"all_handles", "data">>, <<"data">>}

\* What a clear may have left to do.
Todos == AfterMetadata \cup {PathClear, AllClear} \cup SqlClears

\* A member cache is there only while its setting says so, and as long as a
\* thread is inside it or has a handle to give back to it.
MembersEnabled ==
    /\ caches["metadata"] # None => config.enable_metadata_cache \/ config.toggling
    /\ caches["glob"] # None => config.enable_glob_cache
    /\ crashed \/ \A t \in Threads, c \in Members : InsideOf(op[t], c) => caches[c] # None
    /\ \A t \in Threads : op[t].handle # None /\ op[t].handle.cached => file_handle_cache # None

\* While the enable_* settings stay as they are, no open or glob destroys a
\* member cache another thread is inside: SetMetadataCache and SetGlobCache
\* make a cache only where there is none.  (metadata_cache and glob_cache are
\* unique_ptrs the operations use without cache_reader_mutex; once a setting
\* is turned off, the next open does destroy the cache in use.)
CacheAlive ==
    /\ TypeOK /\ MembersEnabled
    /\ \A t \in Threads : Placed(op[t]) /\ (op[t].at = "clear" => op[t].todo \in Todos)
    /\ ~config.toggling => ~crashed

\* No other thread is in a call while one is alone.
OthersIdle ==
    alone # None => op[alone].at # "idle" /\ \A u \in Threads \ {alone} : op[u].at = "idle"

\* A version the file had, no older than the last clear of that cache.
Fresh(c, v) == v \in clean[c] .. remote.ver

FreshMetadata(val) == Fresh("metadata", val.size) /\ Fresh("metadata", val.mtime)

\* Nothing that is cached, and nothing a thread has read and may yet cache, is
\* older than the clear; nor is a handle, which the metadata may come from.
NothingOlder ==
    /\ \A c \in {"metadata", "glob", "data"} : clean[c] <= remote.ver
    /\ caches["metadata"] # None /\ caches["metadata"].entry # None =>
           FreshMetadata(caches["metadata"].entry)
    /\ caches["glob"] # None /\ caches["glob"].entry # None =>
           Fresh("glob", caches["glob"].entry.size)
    /\ file_handle_cache # None => \A v \in file_handle_cache : Fresh("metadata", v)
    /\ data # None => Fresh("data", data.ver)

TakenFresh(o) ==
    /\ o.since <= remote.ver
    /\ o.handle # None => Fresh("metadata", o.handle.ver)
    /\ o.at \in {"stat2", "publish_metadata", "set", "fill", "have_metadata"} => FreshMetadata(o.val)
    /\ o.at \in {"set", "fill", "publish_glob", "have_glob"} => Fresh("glob", o.val.size)
    /\ o.at \in {"store", "have_data"} => Fresh("data", o.val.size)

\* What a clear that is alone has cleared stays so until the call returns.
StaysCleared ==
    alone # None /\ op[alone].at = "clear" /\ op[alone].todo \in AfterMetadata =>
        /\ caches["metadata"] # None => caches["metadata"].entry = None
        /\ op[alone].todo = <<"data">> => file_handle_cache \in {None, {}}

\* After a clear that no other call ran beside, made when nobody had an older
\* handle of the file open, nothing served to anyone is older than the file
\* was at that clear: not metadata (from the cache, a listing or a handle),
\* not data, and after cache_httpfs_clear_cache no listing either.  With
\* clear_cache_on_write every open makes such a clear.
FreshAfterClear ==
    /\ OthersIdle /\ NothingOlder /\ StaysCleared /\ \A t \in Threads : TakenFresh(op[t])
    /\ \A t \in Threads :
        /\ op[t].at = "have_metadata" => /\ op[t].val.size >= clean["metadata"]
                                         /\ op[t].val.mtime >= clean["metadata"]
        /\ op[t].at = "have_data" => op[t].val.size >= clean["data"]
        /\ op[t].at = "have_glob" => op[t].val.size >= clean["glob"]

\* A block is no older than its tag, nor what a thread is about to store.
BlocksMatchTags ==
    config.enable_cache_validation =>
        /\ data # None => data.tag \in Versions /\ data.ver >= data.tag
        /\ \A t \in Threads : op[t].at = "store" => op[t].val.size >= op[t].handle.ver

\* With enable_cache_validation a read never returns a block older than the
\* version its own handle was opened at, whoever cached the block and
\* whatever was cleared, written or removed in between.
NotOlderThanHandle ==
    /\ BlocksMatchTags
    /\ config.enable_cache_validation =>
          \A t \in Threads : op[t].at = "have_data" => op[t].val.size >= op[t].handle.ver

\* When RemoveFile returns and no other call ran beside it, neither metadata
\* nor data nor an internal handle of the removed file is cached.  (The
\* listings that name it stay, and a read between the clear and the removal
\* caches the file again.)
RemovedIsGone ==
    \A t \in Threads :
        op[t].at \in {"unlink", "unlinked"} /\ alone = t =>
            /\ caches["metadata"] # None => caches["metadata"].entry = None
            /\ file_handle_cache \in {None, {}}
            /\ data = None
=============================================================================
