---------------------------- MODULE DiskCacheProofs ----------------------------
(***************************************************************************)
(* What readers find in the cache directory, who owns its temporary files, *)
(* and that the two maps of access timestamps are inverse to each other,   *)
(* for every number of threads, blocks, versions and settings.             *)
(***************************************************************************)
EXTENDS DiskCacheReader, FiniteSetTheorems, TLAPS

Inv == PublishedSound /\ TempsOwned

\* Every file that is there after the step was there before it, with the same
\* block, content and tag.
FilesShrink ==
  /\ OnDisk' \subseteq OnDisk
  /\ files' = [p \in OnDisk' |-> [block |-> files[p].block, data |-> files[p].data,
                                 tag |-> files[p].tag, mtime |-> files'[p].mtime]]

\* The content of the in-memory layer comes from complete blocks.
LayerComplete == \A b \in DOMAIN in_mem_storage : in_mem_storage[b].data \in Nat \ {Partial}

\* The names of cache files and of temporary files differ: GetTempCacheFilePath
\* appends a UUID.
LEMMA Disjoint == Blocks \cap TempNames = {}
  BY DiskAssumption, Zenon

\* TryRemoveFile and UpdateFileTimestamps leave the content of files alone.
LEMMA RemovedShrinks ==
  ASSUME Inv, NEW S, files' = Removed(S)
  PROVE  FilesShrink /\ OnDisk' = OnDisk \ S
<1>1. OnDisk' = OnDisk \ S
  BY Zenon DEF Removed, Drop, OnDisk
<1>2. \A p \in OnDisk \ S : files'[p] = files[p]
  BY Zenon DEF Removed, Drop, OnDisk
<1>3. \A p \in OnDisk : files[p] = [block |-> files[p].block, data |-> files[p].data,
                                   tag |-> files[p].tag, mtime |-> files[p].mtime]
  BY Zenon DEF Inv, PublishedSound, StoresSound, OnDisk
<1>4. files' = [p \in OnDisk' |-> files'[p]]
  BY Zenon DEF Removed, Drop, OnDisk
<1> QED
  BY <1>1, <1>2, <1>3, <1>4, Zenon DEF FilesShrink

\* Assignments to the fields of a file.
LEMMA FileFields ==
  ASSUME NEW f, NEW v,
         f = [block |-> f.block, data |-> f.data, tag |-> f.tag, mtime |-> f.mtime]
  PROVE  /\ [f EXCEPT !.data = v] =
              [block |-> f.block, data |-> v, tag |-> f.tag, mtime |-> f.mtime]
         /\ [f EXCEPT !.tag = v] =
              [block |-> f.block, data |-> f.data, tag |-> v, mtime |-> f.mtime]
         /\ [f EXCEPT !.mtime = v] =
              [block |-> f.block, data |-> f.data, tag |-> f.tag, mtime |-> v]
<1>1. PICK a, b, c, d : f = [block |-> a, data |-> b, tag |-> c, mtime |-> d]
  BY Zenon
<1> QED
  BY <1>1

\* A step without file operations.
LEMMA UnchangedShrinks ==
  ASSUME Inv, UNCHANGED files
  PROVE  FilesShrink
  BY Zenon DEF Inv, PublishedSound, StoresSound, FilesShrink, OnDisk

\* UpdateFileTimestamps changes no content, and ignores a file that is gone.
LEMMA UtimedShrinks ==
  ASSUME Inv, NEW p, files' = Utimed(p)
  PROVE  FilesShrink
<1>1. CASE p \notin OnDisk
  BY <1>1, UnchangedShrinks, Zenon DEF Utimed
<1>2. CASE p \in OnDisk
  <2>1. \A q \in OnDisk : files[q] = [block |-> files[q].block, data |-> files[q].data,
                                     tag |-> files[q].tag, mtime |-> files[q].mtime]
    BY DEF Inv, PublishedSound, StoresSound, OnDisk
  <2>2. files = [q \in OnDisk |-> files[q]]
    BY <2>1, Zenon DEF Inv, PublishedSound, StoresSound
  <2>3. files' = [q \in OnDisk |-> IF q = p THEN [files[p] EXCEPT !.mtime = clock] ELSE files[q]]
    BY <1>2, <2>2, Zenon DEF Utimed
  <2>4. OnDisk' = OnDisk
    BY <2>3, Zenon DEF OnDisk
  <2>5. [files[p] EXCEPT !.mtime = clock] =
          [block |-> files[p].block, data |-> files[p].data, tag |-> files[p].tag, mtime |-> clock]
    BY <1>2, <2>1, FileFields, Zenon
  <2>6. \A q \in OnDisk : files'[q] = [block |-> files[q].block, data |-> files[q].data,
                                      tag |-> files[q].tag, mtime |-> files'[q].mtime]
    BY <2>1, <2>3, <2>5
  <2> QED
    BY <2>3, <2>4, <2>6 DEF FilesShrink
<1> QED
  BY <1>1, <1>2, Zenon

\* A step of thread t that leaves it outside the store of a temporary file.
LEMMA TaskStep ==
  ASSUME Inv, NEW t \in Threads, NEW r,
         task' = [task EXCEPT ![t] = r], TaskOK(r), r.pc \notin Storing,
         task[t].pc \in Storing => task[t].path \notin OnDisk',
         FilesShrink, LayerComplete', UNCHANGED <<config, remote, orphans>>
  PROVE  Inv'
<1>1. task' = [u \in Threads |-> IF u = t THEN r ELSE task[u]]
  BY Zenon DEF Inv, PublishedSound, StoresSound
<1>2. /\ task' = [u \in Threads |-> task'[u]]
      /\ task'[t] = r
      /\ \A u \in Threads : u # t => task'[u] = task[u]
  BY <1>1, Zenon
<1>3. /\ OnDisk' \subseteq OnDisk
      /\ \A p \in OnDisk' : /\ files'[p].block = files[p].block
                            /\ files'[p].data = files[p].data
                            /\ files'[p].tag = files[p].tag
  BY DEF FilesShrink
<1>4. \A u \in Threads : TaskOK(task[u])'
  BY <1>2, Zenon DEF Inv, PublishedSound, StoresSound, TaskOK
<1>5. \A u \in Threads : OwnTemp(u)'
  <2> SUFFICES ASSUME NEW u \in Threads, task'[u].pc \in Storing PROVE OwnTemp(u)'
    BY Zenon DEF OwnTemp
  <2>1. u # t /\ task'[u] = task[u]
    BY <1>2, Zenon
  <2>2. OwnTemp(u)
    BY Zenon DEF Inv, PublishedSound, StoresSound
  <2> QED
    BY <1>2, <1>3, <2>1, <2>2, Zenon DEF OwnTemp
<1>6. files' = [p \in OnDisk' |-> [block |-> files'[p].block, data |-> files'[p].data,
                                  tag |-> files'[p].tag, mtime |-> files'[p].mtime]]
  BY Zenon DEF FilesShrink
<1>7. remote' \in [RemoteFiles -> Nat \ {0}]
  BY Zenon DEF Inv, PublishedSound, StoresSound
<1>8. StoresSound'
  BY <1>2, <1>4, <1>5, <1>6, <1>7 DEF StoresSound, LayerComplete
<1>9. PublishedSound'
  BY <1>3, <1>8, Zenon DEF Inv, PublishedSound
<1>10. TempsOwned'
  <2> SUFFICES ASSUME NEW n \in (OnDisk' \cap TempNames) \ orphans
               PROVE  \E u \in Threads : task'[u].path = n /\ task'[u].pc \in Storing
    BY Zenon DEF TempsOwned
  <2>1. PICK u \in Threads : task[u].path = n /\ task[u].pc \in Storing
    BY <1>3, Zenon DEF Inv, TempsOwned
  <2>2. u # t
    BY <2>1, Zenon
  <2> QED
    BY <1>2, <2>1, <2>2
<1> QED
  BY <1>9, <1>10, Zenon DEF Inv

\* A step of somebody else: it may remove files, whoever owns them, and the
\* remote files may have newer versions.
LEMMA FilesStep ==
  ASSUME Inv, FilesShrink, LayerComplete', UNCHANGED <<config, task, orphans>>,
         remote' \in [RemoteFiles -> Nat \ {0}],
         \A f \in RemoteFiles : remote'[f] >= remote[f]
  PROVE  Inv'
<1>1. /\ OnDisk' \subseteq OnDisk
      /\ \A p \in OnDisk' : /\ files'[p].block = files[p].block
                            /\ files'[p].data = files[p].data
                            /\ files'[p].tag = files[p].tag
  BY DEF FilesShrink
<1>2. \A u \in Threads : TaskOK(task[u])'
  <2> SUFFICES ASSUME NEW u \in Threads PROVE TaskOK(task[u])'
    BY Zenon
  <2>1. TaskOK(task[u]) /\ task' = task /\ config' = config /\ orphans' = orphans
    BY Zenon DEF Inv, PublishedSound, StoresSound
  <2>2. ASSUME task[u].pc # "idle", config.validation
        PROVE  task[u].tag \in 1 .. remote'[FileOf(task[u].block)]
    <3>1. FileOf(task[u].block) \in RemoteFiles
      BY <2>1, <2>2, Zenon DEF TaskOK, RemoteFiles
    <3> QED
      BY <2>1, <2>2, <3>1 DEF TaskOK, Inv, PublishedSound, StoresSound
  <2> QED
    BY <2>1, <2>2, Zenon DEF TaskOK
<1>3. \A u \in Threads : OwnTemp(u)'
  <2> SUFFICES ASSUME NEW u \in Threads PROVE OwnTemp(u)'
    BY Zenon
  <2>1. OwnTemp(u) /\ task' = task
    BY Zenon DEF Inv, PublishedSound, StoresSound
  <2> QED
    BY <1>1, <2>1 DEF OwnTemp
<1>4. files' = [p \in OnDisk' |-> [block |-> files'[p].block, data |-> files'[p].data,
                                  tag |-> files'[p].tag, mtime |-> files'[p].mtime]]
  BY Zenon DEF FilesShrink
<1>5. StoresSound'
  BY <1>2, <1>3, <1>4 DEF Inv, PublishedSound, StoresSound, LayerComplete
<1>6. PublishedSound'
  BY <1>1, <1>5 DEF Inv, PublishedSound
<1>7. TempsOwned'
  BY <1>1, Zenon DEF Inv, TempsOwned
<1> QED
  BY <1>6, <1>7, Zenon DEF Inv

-----------------------------------------------------------------------------
(* The steps of a reader that leave temporary files alone, or give one up. *)

\* Evicting from or clearing the in-memory layer leaves no part of a block in it.
LEMMA LayerKept ==
  ASSUME Inv
  PROVE  /\ LayerComplete
         /\ UNCHANGED in_mem_storage => LayerComplete'
         /\ in_mem_storage' = <<>> => LayerComplete'
         /\ \A S : in_mem_storage' = Drop(in_mem_storage, S) => LayerComplete'
<1>1. LayerComplete
  BY Zenon DEF Inv, PublishedSound, StoresSound, LayerComplete
<1>2. UNCHANGED in_mem_storage => LayerComplete'
  BY <1>1, Zenon DEF LayerComplete
<1>3. in_mem_storage' = <<>> => LayerComplete'
  BY DEF LayerComplete
<1>4. \A S : in_mem_storage' = Drop(in_mem_storage, S) => LayerComplete'
  BY <1>1, Zenon DEF LayerComplete, Drop
<1> QED
  BY <1>1, <1>2, <1>3, <1>4, Zenon

\* The thread ends its work on the block.
LEMMA DoneStep ==
  ASSUME Inv, NEW t \in Threads, Done(t),
         task[t].pc \in Storing => task[t].path \notin OnDisk',
         FilesShrink, LayerComplete', UNCHANGED <<config, remote, orphans>>
  PROVE  Inv'
<1>1. TaskOK(IdleTask) /\ IdleTask.pc \notin Storing
  BY Zenon DEF IdleTask, TaskOK, Storing
<1> DEFINE r == IdleTask
<1>2. task' = [task EXCEPT ![t] = r]
  BY Zenon DEF Done
<1> HIDE DEF r
<1>3. TaskOK(r) /\ r.pc \notin Storing
  BY <1>1, Zenon DEF r
<1> QED
  BY <1>2, <1>3, TaskStep, Zenon

\* The thread goes on with its block.
LEMMA GoOnStep ==
  ASSUME Inv, NEW t \in Threads, NEW w, NEW d, NEW p, NEW s, GoWith(t, w, d, p, s),
         task[t].pc # "idle",
         task[t].pc \in Storing => task[t].path \notin OnDisk',
         w \notin Storing,
         w = "store" => (config.validation => d >= task[t].tag),
         w \in {"memdrop", "open", "remote"} \/ d \in Nat \ {Partial},
         FilesShrink, LayerComplete', UNCHANGED <<config, remote, orphans>>
  PROVE  Inv'
<1> DEFINE r == [pc |-> w, block |-> task[t].block, tag |-> task[t].tag,
                 data |-> d, path |-> p, stamp |-> s]
<1>1. TaskOK(r) /\ r.pc \notin Storing
  <2>1. TaskOK(task[t])
    BY Zenon DEF Inv, PublishedSound, StoresSound
  <2> QED
    BY <2>1, Zenon DEF TaskOK
<1>2. task' = [task EXCEPT ![t] = r]
  BY Zenon DEF GoWith
<1> HIDE DEF r
<1> QED
  BY <1>1, <1>2, TaskStep, Zenon

\* The end of ProcessCacheReadChunk, with or without the in-memory layer.
LEMMA ServedStep ==
  ASSUME Inv, NEW t \in Threads, Served(t),
         task[t].pc \in {"hit", "touch", "upsert"},
         FilesShrink, UNCHANGED <<config, remote, orphans, in_mem_storage>>
  PROVE  Inv'
<1>1. /\ LayerComplete'
      /\ task[t].pc # "idle" /\ task[t].pc \notin Storing
      /\ task[t].data \in Nat \ {Partial}
  BY LayerKept, Zenon DEF TaskOK, Storing, Inv, PublishedSound, StoresSound
<1>2. CASE config.mem_cache
  <2>1. PICK w, s : w = "memput" /\ s = 0 /\ GoWith(t, w, task[t].data, task[t].path, s)
    BY <1>2, Zenon DEF Served, GoStamp
  <2>2. w \notin Storing /\ w # "store"
    BY <2>1, Zenon DEF Storing
  <2> QED
    BY <1>1, <2>1, <2>2, GoOnStep, Zenon
<1>3. CASE ~config.mem_cache
  BY <1>1, <1>3, DoneStep, Zenon DEF Served
<1> QED
  BY <1>2, <1>3, Zenon

\* The file is touched, and the block served or its access recorded.
LEMMA StampedStep ==
  ASSUME Inv, NEW t \in Threads, GoStamp(t, "upsert", clock) \/ Served(t),
         task[t].pc \in {"hit", "touch"},
         FilesShrink, UNCHANGED <<config, remote, orphans, in_mem_storage>>
  PROVE  Inv'
<1>1. /\ LayerComplete'
      /\ task[t].pc # "idle" /\ task[t].pc \notin Storing
      /\ task[t].data \in Nat \ {Partial}
      /\ task[t].pc \in {"hit", "touch", "upsert"}
  BY LayerKept, Zenon DEF TaskOK, Storing, Inv, PublishedSound, StoresSound
<1>2. CASE Served(t)
  BY <1>1, <1>2, ServedStep, Zenon
<1>3. CASE GoStamp(t, "upsert", clock)
  <2>1. PICK w, s : w = "upsert" /\ GoWith(t, w, task[t].data, task[t].path, s)
    BY <1>3, Zenon DEF GoStamp
  <2>2. w \notin Storing /\ w # "store"
    BY <2>1, Zenon DEF Storing
  <2> QED
    BY <1>1, <2>1, <2>2, GoOnStep, Zenon
<1> QED
  BY <1>2, <1>3, Zenon

\* The steps of ProcessCacheReadChunk outside the store of a temporary file.
LEMMA QuietSteps ==
  ASSUME Inv, NEW t \in Threads,
         \/ MemLookup(t) \/ MemDrop(t) \/ CopyMemHit(t)
         \/ OpenLocal(t) \/ Validate(t) \/ Discard(t) \/ CopyHit(t)
         \/ ReadRemote(t) \/ StoreFull(t) \/ EvictLru(t) \/ Unlink(t)
         \/ Touch(t) \/ Upsert(t) \/ MemPut(t)
  PROVE  Inv'
<1>1. TaskOK(task[t])
  BY Zenon DEF Inv, PublishedSound, StoresSound
<1>2. LayerComplete /\ (UNCHANGED in_mem_storage => LayerComplete')
  BY LayerKept, Zenon
<1>3. UNCHANGED files => FilesShrink
  BY UnchangedShrinks, Zenon
<1>4. CASE MemLookup(t)
  <2>1. /\ FilesShrink /\ LayerComplete' /\ UNCHANGED <<config, remote, orphans>>
        /\ task[t].pc # "idle" /\ task[t].pc \notin Storing
    BY <1>2, <1>3, <1>4 DEF MemLookup, Storing
  <2>2. PICK w, d : /\ GoWith(t, w, d, task[t].path, task[t].stamp)
                    /\ w \in {"memdrop", "open"} \/ (w = "memhit" /\ d \in Nat \ {Partial})
    <3>1. CASE Go(t, "open")
      <4>1. GoWith(t, "open", task[t].data, task[t].path, task[t].stamp)
        BY <3>1, Zenon DEF Go
      <4> QED
        BY <4>1, Zenon
    <3>3. CASE Go(t, "memdrop")
      <4>1. GoWith(t, "memdrop", task[t].data, task[t].path, task[t].stamp)
        BY <3>3, Zenon DEF Go
      <4> QED
        BY <4>1, Zenon
    <3>2. CASE /\ task[t].block \in DOMAIN in_mem_storage
               /\ GoData(t, "memhit", in_mem_storage[task[t].block].data)
      <4>1. in_mem_storage[task[t].block].data \in Nat \ {Partial}
        BY <1>2, <3>2, Zenon DEF LayerComplete
      <4> QED
        BY <3>2, <4>1, Zenon DEF GoData
    <3> QED
      BY <1>4, <3>1, <3>2, <3>3 DEF MemLookup
  <2>3. w \notin Storing /\ w # "store"
        /\ (w \in {"memdrop", "open", "remote"} \/ d \in Nat \ {Partial})
    BY <2>2, Zenon DEF Storing
  <2> QED
    BY <2>1, <2>2, <2>3, GoOnStep, Zenon
<1>5. CASE MemDrop(t)
  <2>1. /\ FilesShrink /\ LayerComplete' /\ UNCHANGED <<config, remote, orphans>>
        /\ task[t].pc # "idle" /\ task[t].pc \notin Storing
    BY <1>3, <1>5, LayerKept DEF MemDrop, Storing
  <2>2. PICK w, d : /\ GoWith(t, w, d, task[t].path, task[t].stamp)
                    /\ w \in {"memdrop", "open", "remote"}
    BY <1>5, Zenon DEF MemDrop, Go
  <2>3. w \notin Storing /\ w # "store"
    BY <2>2, Zenon DEF Storing
  <2> QED
    BY <2>1, <2>2, <2>3, GoOnStep, Zenon
<1>6. CASE CopyMemHit(t)
  <2>1. /\ FilesShrink /\ LayerComplete' /\ UNCHANGED <<config, remote, orphans>>
        /\ Done(t) /\ task[t].pc \notin Storing
    BY <1>2, <1>3, <1>6 DEF CopyMemHit, Storing
  <2> QED
    BY <2>1, DoneStep, Zenon
<1>7. CASE OpenLocal(t)
  <2>1. /\ FilesShrink /\ LayerComplete' /\ UNCHANGED <<config, remote, orphans>>
        /\ task[t].pc # "idle" /\ task[t].pc \notin Storing
    BY <1>2, <1>3, <1>7 DEF OpenLocal, Storing
  <2>2. task[t].block \in OnDisk => files[task[t].block].data \in Nat \ {Partial}
    BY <1>1, <2>1, Zenon DEF TaskOK, Inv, PublishedSound
  <2>3. PICK w, d : /\ GoWith(t, w, d, task[t].path, task[t].stamp)
                    /\ w = "remote" \/ (w \in {"hit", "validate"} /\ d \in Nat \ {Partial})
    <3>1. CASE Go(t, "remote")
      <4>1. GoWith(t, "remote", task[t].data, task[t].path, task[t].stamp)
        BY <3>1, Zenon DEF Go
      <4> QED
        BY <4>1, Zenon
    <3>2. CASE /\ task[t].block \in OnDisk
               /\ GoData(t, IF task[t].tag = NoTag THEN "hit" ELSE "validate",
                         files[task[t].block].data)
      <4>1. PICK w \in {"hit", "validate"} : GoData(t, w, files[task[t].block].data)
        BY <3>2, Zenon
      <4>2. GoWith(t, w, files[task[t].block].data, task[t].path, task[t].stamp)
        BY <4>1, Zenon DEF GoData
      <4> QED
        BY <2>2, <3>2, <4>2, Zenon
    <3> QED
      BY <1>7, <3>1, <3>2 DEF OpenLocal
  <2>4. w \notin Storing /\ w # "store"
        /\ (w \in {"memdrop", "open", "remote"} \/ d \in Nat \ {Partial})
    BY <2>3, Zenon DEF Storing
  <2> QED
    BY <2>1, <2>3, <2>4, GoOnStep, Zenon
<1>8. CASE Validate(t)
  <2>1. /\ FilesShrink /\ LayerComplete' /\ UNCHANGED <<config, remote, orphans>>
        /\ task[t].pc # "idle" /\ task[t].pc \notin Storing
        /\ task[t].data \in Nat \ {Partial}
    BY <1>1, <1>2, <1>3, <1>8 DEF Validate, Storing, TaskOK
  <2>2. PICK w : /\ GoWith(t, w, task[t].data, task[t].path, task[t].stamp)
                 /\ w \in {"hit", "discard"}
    BY <1>8, Zenon DEF Validate, Go
  <2>3. w \notin Storing /\ w # "store"
    BY <2>2, Zenon DEF Storing
  <2> QED
    BY <2>1, <2>2, <2>3, GoOnStep, Zenon
<1>9. CASE Discard(t)
  <2>1. /\ LayerComplete' /\ UNCHANGED <<config, remote, orphans>>
        /\ task[t].pc # "idle" /\ task[t].pc \notin Storing
    BY <1>2, <1>9, Zenon DEF Discard, Storing
  <2>2. FilesShrink
    <3>1. PICK S : files' = Removed(S)
      BY <1>9, Zenon DEF Discard
    <3> QED
      BY <3>1, RemovedShrinks, Zenon
  <2>3. PICK w, d : /\ GoWith(t, w, d, task[t].path, task[t].stamp)
                    /\ w \in {"memdrop", "open", "remote"}
    BY <1>9 DEF Discard, Go
  <2>4. w \notin Storing /\ w # "store"
    BY <2>3 DEF Storing
  <2> QED
    BY <2>1, <2>2, <2>3, <2>4, GoOnStep, Zenon
<1>10. CASE CopyHit(t)
  <2>1. /\ FilesShrink /\ UNCHANGED <<config, remote, orphans, in_mem_storage>>
        /\ task[t].pc = "hit" /\ (IF LRU THEN GoStamp(t, "upsert", clock) ELSE Served(t))
    BY <1>10, UtimedShrinks, Zenon DEF CopyHit
  <2> QED
    BY <1>1, <1>2, <2>1, StampedStep
<1>11. CASE Touch(t)
  <2>1. /\ UNCHANGED <<config, remote, orphans, in_mem_storage>>
        /\ task[t].pc = "touch"
        /\ \/ GoStamp(t, "upsert", clock) /\ files' = Utimed(task[t].block)
           \/ Served(t) /\ UNCHANGED files
    BY <1>11, Zenon DEF Touch
  <2>2. FilesShrink
    BY <1>3, <2>1, UtimedShrinks
  <2> QED
    BY <1>1, <1>2, <2>1, <2>2, StampedStep
<1>12. CASE ReadRemote(t)
  <2>1. /\ FilesShrink /\ LayerComplete' /\ UNCHANGED <<config, remote, orphans>>
        /\ task[t].pc # "idle" /\ task[t].pc \notin Storing
    BY <1>2, <1>3, <1>12, Zenon DEF ReadRemote, Storing
  <2>2. CASE Done(t)
    BY <2>1, <2>2, DoneStep, Zenon
  <2>3. CASE GoData(t, "store", remote[FileOf(task[t].block)])
    <3>1. PICK w, d : /\ w = "store" /\ d = remote[FileOf(task[t].block)]
                      /\ GoWith(t, w, d, task[t].path, task[t].stamp)
      BY <2>3, Zenon DEF GoData
    <3>2. FileOf(task[t].block) \in RemoteFiles
      BY <1>1, <2>1, Zenon DEF TaskOK, RemoteFiles
    <3>3. d \in Nat \ {Partial} /\ (config.validation => d >= task[t].tag)
      BY <1>1, <2>1, <3>1, <3>2 DEF TaskOK, Inv, PublishedSound, StoresSound, Partial
    <3>4. w \notin Storing
      BY <3>1, Zenon DEF Storing
    <3> QED
      BY <2>1, <3>1, <3>3, <3>4, GoOnStep, Zenon
  <2> QED
    BY <1>12, <2>2, <2>3 DEF ReadRemote
<1>13. CASE StoreFull(t)
  <2>1. /\ LayerComplete' /\ UNCHANGED <<config, remote, orphans>>
        /\ task[t].pc # "idle" /\ task[t].pc \notin Storing
        /\ task[t].data \in Nat \ {Partial}
    BY <1>1, <1>2, <1>13, Zenon DEF StoreFull, Storing, TaskOK
  <2>2. FilesShrink
    BY <1>3, <1>13, RemovedShrinks, Zenon DEF StoreFull
  <2>3. PICK w : /\ GoWith(t, w, task[t].data, task[t].path, task[t].stamp)
                 /\ w \in {"evict", "touch"}
    BY <1>13, Zenon DEF StoreFull, Go
  <2>4. w \notin Storing /\ w # "store"
    BY <2>3, Zenon DEF Storing
  <2> QED
    BY <2>1, <2>2, <2>3, <2>4, GoOnStep, Zenon
<1>14. CASE EvictLru(t)
  <2>1. /\ FilesShrink /\ LayerComplete' /\ UNCHANGED <<config, remote, orphans>>
        /\ task[t].pc # "idle" /\ task[t].pc \notin Storing
        /\ task[t].data \in Nat \ {Partial}
    BY <1>1, <1>2, <1>3, <1>14 DEF EvictLru, Storing, TaskOK
  <2>2. PICK w, p : /\ GoWith(t, w, task[t].data, p, task[t].stamp)
                    /\ w \in {"unlink", "touch"}
    BY <1>14, Zenon DEF EvictLru, Go, GoPath
  <2>3. w \notin Storing /\ w # "store"
    BY <2>2, Zenon DEF Storing
  <2> QED
    BY <2>1, <2>2, <2>3, GoOnStep, Zenon
<1>15. CASE Unlink(t)
  <2>1. /\ LayerComplete' /\ UNCHANGED <<config, remote, orphans>>
        /\ task[t].pc # "idle" /\ task[t].pc \notin Storing
        /\ task[t].data \in Nat \ {Partial}
    BY <1>1, <1>2, <1>15 DEF Unlink, Storing, TaskOK
  <2>2. FilesShrink
    BY <1>15, RemovedShrinks, Zenon DEF Unlink
  <2>3. PICK w, p : GoWith(t, w, task[t].data, p, task[t].stamp) /\ w = "touch"
    BY <1>15, Zenon DEF Unlink, GoPath
  <2>4. w \notin Storing /\ w # "store"
    BY <2>3, Zenon DEF Storing
  <2> QED
    BY <2>1, <2>2, <2>3, <2>4, GoOnStep, Zenon
<1>16. CASE Upsert(t)
  <2>1. /\ FilesShrink /\ UNCHANGED <<config, remote, orphans, in_mem_storage>>
        /\ task[t].pc \in {"hit", "touch", "upsert"} /\ Served(t)
    BY <1>3, <1>16 DEF Upsert
  <2> QED
    BY <2>1, ServedStep, Zenon
<1>17. CASE MemPut(t)
  <2>1. /\ FilesShrink /\ UNCHANGED <<config, remote, orphans>>
        /\ task[t].pc \notin Storing /\ Done(t)
    BY <1>3, <1>17, Zenon DEF MemPut, Storing
  <2>2. task[t].data \in Nat \ {Partial}
    BY <1>1, <1>17, Zenon DEF MemPut, TaskOK
  <2>3. LayerComplete'
    BY <1>2, <1>17, <2>2, Zenon DEF MemPut, LayerComplete, With
  <2> QED
    BY <2>1, <2>3, DoneStep, Zenon
<1> QED
  BY <1>4, <1>5, <1>6, <1>7, <1>8, <1>9, <1>10, <1>11, <1>12, <1>13, <1>14,
     <1>15, <1>16, <1>17

\* A step of StoreLocalCacheFile that creates, fills or tags the temporary file n.
LEMMA StoreStep ==
  ASSUME Inv, NEW t \in Threads, NEW w \in Storing, NEW n \in TempNames \ orphans,
         GoWith(t, w, task[t].data, n, task[t].stamp),
         task[t].pc \in Storing \cup {"store"},
         task[t].pc \in Storing => task[t].path = n,
         \A u \in Threads : u # t /\ task[u].pc \in Storing => task[u].path # n,
         \A p \in OnDisk' : p # n => p \in OnDisk /\ files'[p] = files[p],
         n \in OnDisk' =>
           /\ files'[n].block = task[t].block
           /\ w \in {"tag", "rename"} => files'[n].data = task[t].data
           /\ w = "rename" => files'[n].tag = task[t].tag,
         files' = [p \in OnDisk' |-> [block |-> files'[p].block, data |-> files'[p].data,
                                     tag |-> files'[p].tag, mtime |-> files'[p].mtime]],
         UNCHANGED <<config, remote, orphans, in_mem_storage>>
  PROVE  Inv'
<1> DEFINE r == [pc |-> w, block |-> task[t].block, tag |-> task[t].tag,
                 data |-> task[t].data, path |-> n, stamp |-> task[t].stamp]
<1>1. task' = [u \in Threads |-> IF u = t THEN r ELSE task[u]]
  BY Zenon DEF Inv, PublishedSound, StoresSound, GoWith
<1>2. /\ r.pc = w /\ r.block = task[t].block /\ r.tag = task[t].tag
      /\ r.data = task[t].data /\ r.path = n
  BY Zenon
<1>3. TaskOK(r)
  <2>1. TaskOK(task[t])
    BY Zenon DEF Inv, PublishedSound, StoresSound
  <2>2. w # "idle" /\ task[t].pc \notin {"idle", "mem", "memdrop", "open", "remote"}
    BY Zenon DEF Storing
  <2> QED
    BY <2>1, <2>2, Zenon DEF TaskOK
<1> HIDE DEF r
<1>4. /\ task' = [u \in Threads |-> task'[u]]
      /\ task'[t] = r
      /\ \A u \in Threads : u # t => task'[u] = task[u]
  BY <1>1, Zenon
<1>5. \A u \in Threads : TaskOK(task[u])'
  BY <1>3, <1>4 DEF Inv, PublishedSound, StoresSound, TaskOK
<1>6. \A u \in Threads : OwnTemp(u)'
  <2> SUFFICES ASSUME NEW u \in Threads PROVE OwnTemp(u)'
    BY Zenon
  <2>1. CASE u = t
    BY <1>2, <1>4, <2>1, Zenon DEF OwnTemp
  <2>2. CASE u # t
    <3>1. OwnTemp(u) /\ task'[u] = task[u]
      BY <1>4, <2>2, Zenon DEF Inv, PublishedSound, StoresSound
    <3>2. task[u].pc \in Storing => task[u].path # n
      BY <2>2, Zenon
    <3> QED
      BY <1>2, <1>4, <2>2, <3>1, <3>2 DEF OwnTemp
  <2> QED
    BY <2>1, <2>2, Zenon
<1>7. LayerComplete' /\ remote' \in [RemoteFiles -> Nat \ {0}]
  BY LayerKept, Zenon DEF Inv, PublishedSound, StoresSound
<1>8. StoresSound'
  BY <1>4, <1>5, <1>6, <1>7 DEF StoresSound, LayerComplete
<1>9. PublishedSound'
  <2>1. \A b \in OnDisk' \cap Blocks : b \in OnDisk /\ files'[b] = files[b]
    BY Disjoint, Zenon
  <2> QED
    BY <1>8, <2>1 DEF Inv, PublishedSound
<1>10. TempsOwned'
  <2> SUFFICES ASSUME NEW m \in (OnDisk' \cap TempNames) \ orphans
               PROVE  \E u \in Threads : task'[u].path = m /\ task'[u].pc \in Storing
    BY Zenon DEF TempsOwned
  <2>1. CASE m = n
    BY <1>2, <1>4, <2>1, Zenon
  <2>2. CASE m # n
    <3>1. PICK u \in Threads : task[u].path = m /\ task[u].pc \in Storing
      BY <2>2, Zenon DEF Inv, TempsOwned
    <3> QED
      BY <1>4, <2>2, <3>1, Zenon
  <2> QED
    BY <2>1, <2>2, Zenon
<1> QED
  BY <1>9, <1>10, Zenon DEF Inv

\* The temporary file has a new name, so no other store uses it.
LEMMA CreateTempStep ==
  ASSUME Inv, NEW t \in Threads, CreateTemp(t)
  PROVE  Inv'
<1>1. /\ task[t].pc = "store" /\ UNCHANGED <<config, remote, orphans, in_mem_storage>>
      /\ LayerComplete' /\ task[t].pc \notin Storing
  BY LayerKept, Zenon DEF CreateTemp, Storing
<1>2. CASE Done(t) /\ UNCHANGED files
  BY <1>1, <1>2, DoneStep, UnchangedShrinks, Zenon
<1>3. ASSUME NEW n \in TempNames, UnusedName(n),
             files' = With(files, n, [block |-> task[t].block, data |-> Partial,
                                      tag |-> NoTag, mtime |-> clock]),
             GoPath(t, "write", n)
      PROVE  Inv'
  <2>1. /\ n \in TempNames \ orphans
        /\ \A u \in Threads : u # t /\ task[u].pc \in Storing => task[u].path # n
    BY <1>3, Zenon DEF UnusedName
  <2>2. PICK w \in Storing : w = "write" /\ GoWith(t, w, task[t].data, n, task[t].stamp)
    BY <1>3, Zenon DEF GoPath, Storing
  <2>3. OnDisk' = OnDisk \cup {n}
    BY <1>3, Zenon DEF With, OnDisk
  <2>4. /\ files'[n] = [block |-> task[t].block, data |-> Partial,
                        tag |-> NoTag, mtime |-> clock]
        /\ \A p \in OnDisk' : p # n => p \in OnDisk /\ files'[p] = files[p]
        /\ files' = [p \in OnDisk' |-> files'[p]]
    BY <1>3, <2>3 DEF With, OnDisk
  <2>5. \A p \in OnDisk : files[p] = [block |-> files[p].block, data |-> files[p].data,
                                     tag |-> files[p].tag, mtime |-> files[p].mtime]
    BY Zenon DEF Inv, PublishedSound, StoresSound
  <2>6. \A p \in OnDisk' : files'[p] = [block |-> files'[p].block, data |-> files'[p].data,
                                       tag |-> files'[p].tag, mtime |-> files'[p].mtime]
    BY <2>4, <2>5, Zenon
  <2>7. files' = [p \in OnDisk' |-> [block |-> files'[p].block, data |-> files'[p].data,
                                    tag |-> files'[p].tag, mtime |-> files'[p].mtime]]
    BY <2>4, <2>6
  <2>8. n \in OnDisk' =>
          /\ files'[n].block = task[t].block
          /\ w \in {"tag", "rename"} => files'[n].data = task[t].data
          /\ w = "rename" => files'[n].tag = task[t].tag
    BY <2>2, <2>4
  <2>9. task[t].pc \in Storing \cup {"store"}
    BY <1>1, Zenon
  <2>10. \A p \in OnDisk' : p # n => p \in OnDisk /\ files'[p] = files[p]
    BY <2>4, Zenon
  <2> QED
    <3>1. task[t].pc \in Storing => task[t].path = n
      BY <1>1, Zenon
    <3>2. UNCHANGED <<config, remote, orphans, in_mem_storage>>
      BY <1>1, Zenon
    <3>3. \A u \in Threads : u # t /\ task[u].pc \in Storing => task[u].path # n
      BY <2>1, Zenon
    <3>4. GoWith(t, w, task[t].data, n, task[t].stamp)
      BY <2>2, Zenon
    <3>5. n \in TempNames \ orphans
      BY <2>1, Zenon
    <3> QED
      BY <2>7, <2>8, <2>9, <2>10, <3>1, <3>2, <3>3, <3>4, <3>5, StoreStep, ZenonT(60)
<1> QED
  BY <1>2, <1>3, Zenon DEF CreateTemp

\* Write and SetFileXattrs change one field of the thread's own temporary file.
LEMMA FillStep ==
  ASSUME Inv, NEW t \in Threads, task[t].pc \in Storing,
         NEW w \in {"tag", "rename"}, Go(t, w),
         \/ /\ w = "tag"
            /\ files' = IF task[t].path \in OnDisk
                        THEN [files EXCEPT ![task[t].path].data = task[t].data] ELSE files
         \/ /\ w = "rename" /\ task[t].pc = "tag"
            /\ task[t].path \in OnDisk
            /\ files' = [files EXCEPT ![task[t].path].tag = task[t].tag],
         UNCHANGED <<config, remote, orphans, in_mem_storage>>
  PROVE  Inv'
<1>1. PICK n : n = task[t].path
  BY Zenon
<1>2. PICK v : v = w /\ v \in Storing /\ GoWith(t, v, task[t].data, n, task[t].stamp)
  BY <1>1, Zenon DEF Go, Storing
<1>3. TaskOK(task[t]) /\ OwnTemp(t)
  BY Zenon DEF Inv, PublishedSound, StoresSound
<1>4. n \in TempNames \ orphans
  BY <1>1, <1>3 DEF TaskOK
<1>5. \A u \in Threads : u # t /\ task[u].pc \in Storing => task[u].path # n
  BY <1>1, <1>3 DEF OwnTemp
<1>6. \A p \in OnDisk : files[p] = [block |-> files[p].block, data |-> files[p].data,
                                   tag |-> files[p].tag, mtime |-> files[p].mtime]
  BY Zenon DEF Inv, PublishedSound, StoresSound
<1>7. files = [p \in OnDisk |-> files[p]]
  BY <1>6, Zenon DEF Inv, PublishedSound, StoresSound
<1>8. n \in OnDisk => /\ files[n].block = task[t].block
                      /\ task[t].pc = "tag" => files[n].data = task[t].data
  BY <1>1, <1>3 DEF OwnTemp
<1>9. /\ OnDisk' = OnDisk
      /\ files' = [p \in OnDisk' |-> files'[p]]
      /\ \A p \in OnDisk' : p # n => p \in OnDisk /\ files'[p] = files[p]
      /\ n \in OnDisk' =>
           /\ files'[n] = [block |-> files'[n].block, data |-> files'[n].data,
                           tag |-> files'[n].tag, mtime |-> files'[n].mtime]
           /\ files'[n].block = task[t].block
           /\ v \in {"tag", "rename"} => files'[n].data = task[t].data
           /\ v = "rename" => files'[n].tag = task[t].tag
  <2>1. CASE n \notin OnDisk
    <3>1. files' = files
      BY <1>1, <2>1, Zenon
    <3>2. OnDisk' = OnDisk
      BY <3>1, Zenon DEF OnDisk
    <3> QED
      BY <1>7, <2>1, <3>1, <3>2
  <2>2. CASE n \in OnDisk
    <3>1. PICK f : /\ files' = [files EXCEPT ![n] = f]
                   /\ \/ v = "tag" /\ f = [files[n] EXCEPT !.data = task[t].data]
                      \/ /\ v = "rename" /\ task[t].pc = "tag"
                         /\ f = [files[n] EXCEPT !.tag = task[t].tag]
      <4>1. CASE v = "tag"
        <5>1. files' = [files EXCEPT ![n].data = task[t].data]
          BY <1>1, <1>2, <2>2, <4>1
        <5> QED
          BY <4>1, <5>1, Zenon
      <4>2. CASE v = "rename"
        <5>1. files' = [files EXCEPT ![n].tag = task[t].tag] /\ task[t].pc = "tag"
          BY <1>1, <1>2, <2>2, <4>2
        <5> QED
          BY <4>2, <5>1, Zenon
      <4> QED
        BY <1>2, <4>1, <4>2
    <3>2. files' = [p \in OnDisk |-> IF p = n THEN f ELSE files[p]]
      <4>1. files' = [files EXCEPT ![n] = f]
        BY <3>1, Zenon
      <4> QED
        BY <1>7, <2>2, <4>1, Zenon
    <3>3. OnDisk' = OnDisk
      BY <3>2, Zenon DEF OnDisk
    <3>4. PICK m : m = files[n]
      BY Zenon
    <3>5. m = [block |-> m.block, data |-> m.data, tag |-> m.tag, mtime |-> m.mtime]
      BY <1>6, <2>2, <3>4, Zenon
    <3>6. \/ /\ v = "tag"
             /\ f = [block |-> m.block, data |-> task[t].data, tag |-> m.tag, mtime |-> m.mtime]
          \/ /\ v = "rename" /\ task[t].pc = "tag"
             /\ f = [block |-> m.block, data |-> m.data, tag |-> task[t].tag, mtime |-> m.mtime]
      BY <3>1, <3>4, <3>5, FileFields, Zenon
    <3>7. /\ f = [block |-> f.block, data |-> f.data, tag |-> f.tag, mtime |-> f.mtime]
          /\ f.block = task[t].block
          /\ v \in {"tag", "rename"} => f.data = task[t].data
          /\ v = "rename" => f.tag = task[t].tag
      BY <1>8, <2>2, <3>4, <3>6
    <3> QED
      BY <2>2, <3>2, <3>3, <3>7
  <2> QED
    BY <2>1, <2>2
<1>10. \A p \in OnDisk' : files'[p] = [block |-> files'[p].block, data |-> files'[p].data,
                                      tag |-> files'[p].tag, mtime |-> files'[p].mtime]
  BY <1>6, <1>9, Zenon
<1>11. files' = [p \in OnDisk' |-> [block |-> files'[p].block, data |-> files'[p].data,
                                   tag |-> files'[p].tag, mtime |-> files'[p].mtime]]
  BY <1>9, <1>10, Zenon
<1>12. /\ task[t].pc \in Storing => task[t].path = n
       /\ task[t].pc \in Storing \cup {"store"}
  BY <1>1, Zenon
<1>13. /\ \A p \in OnDisk' : p # n => p \in OnDisk /\ files'[p] = files[p]
       /\ n \in OnDisk' => /\ files'[n].block = task[t].block
                           /\ v \in {"tag", "rename"} => files'[n].data = task[t].data
                           /\ v = "rename" => files'[n].tag = task[t].tag
  BY <1>9, Zenon
<1> QED
  <2>1. v \in Storing
    BY <1>2, Zenon
  <2>2. GoWith(t, v, task[t].data, n, task[t].stamp)
    BY <1>2, Zenon
  <2>3. task[t].pc \in Storing => task[t].path = n
    BY <1>12, Zenon
  <2>4. task[t].pc \in Storing \cup {"store"}
    BY <1>12, Zenon
  <2>5. \A p \in OnDisk' : p # n => p \in OnDisk /\ files'[p] = files[p]
    BY <1>13, Zenon
  <2>6. n \in OnDisk' => /\ files'[n].block = task[t].block
                         /\ v \in {"tag", "rename"} => files'[n].data = task[t].data
                         /\ v = "rename" => files'[n].tag = task[t].tag
    BY <1>13, Zenon
  <2> QED
    BY <1>4, <1>5, <1>11, <2>1, <2>2, <2>3, <2>4, <2>5, <2>6, StoreStep, ZenonT(60)

\* An error on the way: the temporary file is removed.
LEMMA GiveUpStep ==
  ASSUME Inv, NEW t \in Threads, task[t].pc \in Storing,
         Done(t) \/ GoPath(t, "touch", NoPath),
         files' = Removed({task[t].path}),
         UNCHANGED <<config, remote, orphans, in_mem_storage>>
  PROVE  Inv'
<1>1. FilesShrink /\ task[t].path \notin OnDisk'
  <2>1. PICK S : S = {task[t].path} /\ files' = Removed(S)
    BY Zenon
  <2>2. FilesShrink /\ OnDisk' = OnDisk \ S
    BY <2>1, RemovedShrinks, Zenon
  <2> QED
    BY <2>1, <2>2, Zenon
<1>2. LayerComplete' /\ task[t].pc # "idle" /\ task[t].data \in Nat \ {Partial}
  BY LayerKept, Zenon DEF Storing, Inv, PublishedSound, StoresSound, TaskOK
<1>3. CASE Done(t)
  BY <1>1, <1>2, <1>3, DoneStep, Zenon
<1>4. CASE GoPath(t, "touch", NoPath)
  <2>1. PICK w, p : w = "touch" /\ GoWith(t, w, task[t].data, p, task[t].stamp)
    BY <1>4, Zenon DEF GoPath
  <2>2. w \notin Storing /\ w # "store"
    BY <2>1, Zenon DEF Storing
  <2> QED
    BY <1>1, <1>2, <2>1, <2>2, GoOnStep, Zenon
<1> QED
  BY <1>3, <1>4, Zenon

\* Write and Sync.
LEMMA WriteContentStep ==
  ASSUME Inv, NEW t \in Threads, WriteContent(t)
  PROVE  Inv'
<1>1. /\ task[t].pc \in Storing
      /\ UNCHANGED <<config, remote, orphans, in_mem_storage>>
      /\ \/ /\ files' = IF task[t].path \in OnDisk
                        THEN [files EXCEPT ![task[t].path].data = task[t].data] ELSE files
            /\ Go(t, "tag")
         \/ files' = Removed({task[t].path}) /\ Done(t)
  BY Zenon DEF WriteContent, Storing
<1>2. CASE files' = Removed({task[t].path}) /\ Done(t)
  BY <1>1, <1>2, GiveUpStep, Zenon
<1>3. CASE /\ files' = IF task[t].path \in OnDisk
                       THEN [files EXCEPT ![task[t].path].data = task[t].data] ELSE files
           /\ Go(t, "tag")
  <2>1. PICK w \in {"tag", "rename"} : w = "tag" /\ Go(t, w)
    BY <1>3, Zenon
  <2> QED
    BY <1>1, <1>3, <2>1, FillStep, Zenon
<1> QED
  BY <1>1, <1>2, <1>3, Zenon

\* SetCacheVersion and SetFileXattrs.
LEMMA SetTagStep ==
  ASSUME Inv, NEW t \in Threads, SetTag(t)
  PROVE  Inv'
<1>1. /\ task[t].pc \in Storing /\ task[t].pc = "tag"
      /\ UNCHANGED <<config, remote, orphans, in_mem_storage>>
      /\ \/ /\ task[t].path \in OnDisk
            /\ files' = [files EXCEPT ![task[t].path].tag = task[t].tag]
            /\ Go(t, "rename")
         \/ files' = Removed({task[t].path}) /\ GoPath(t, "touch", NoPath)
  BY Zenon DEF SetTag, Storing
<1>2. CASE files' = Removed({task[t].path}) /\ GoPath(t, "touch", NoPath)
  BY <1>1, <1>2, GiveUpStep, Zenon
<1>3. CASE /\ task[t].path \in OnDisk
           /\ files' = [files EXCEPT ![task[t].path].tag = task[t].tag]
           /\ Go(t, "rename")
  <2>1. PICK w \in {"tag", "rename"} : w = "rename" /\ Go(t, w)
    BY <1>3, Zenon
  <2> QED
    BY <1>1, <1>3, <2>1, FillStep, Zenon
<1> QED
  BY <1>1, <1>2, <1>3, Zenon

\* MoveFile publishes the temporary file, complete and tagged, under the name of
\* the block.
LEMMA RenameStep ==
  ASSUME Inv, NEW t \in Threads, Rename(t)
  PROVE  Inv'
<1>1. /\ task[t].pc = "rename" /\ task[t].pc \in Storing
      /\ UNCHANGED <<config, remote, orphans, in_mem_storage>>
  BY Zenon DEF Rename, Storing
<1>2. LayerComplete'
  BY <1>1, LayerKept, Zenon
<1>3. CASE task[t].path \notin OnDisk
  <2>1. Done(t) /\ UNCHANGED files
    BY <1>3, Zenon DEF Rename
  <2>2. FilesShrink /\ task[t].path \notin OnDisk'
    BY <1>3, <2>1, UnchangedShrinks DEF OnDisk
  <2> QED
    BY <1>1, <1>2, <2>1, <2>2, DoneStep, Zenon
<1>4. CASE task[t].path \in OnDisk
  <2>1. PICK n, b : n = task[t].path /\ b = task[t].block
    BY Zenon
  <2>2. /\ files' = With(Removed({n}), b, files[n])
        /\ GoWith(t, "touch", task[t].data, NoPath, task[t].stamp)
    BY <1>4, <2>1, Zenon DEF Rename, GoPath
  <2>3. TaskOK(task[t]) /\ OwnTemp(t)
    BY Zenon DEF Inv, PublishedSound, StoresSound
  <2>4. /\ b \in Blocks /\ n \in TempNames /\ n # b
        /\ task[t].data \in Nat \ {Partial}
        /\ config.validation => task[t].tag \in 1 .. remote[FileOf(b)] /\ task[t].data >= task[t].tag
    BY <1>1, <2>1, <2>3, Disjoint DEF TaskOK
  <2>5. files[n].block = b /\ files[n].data = task[t].data /\ files[n].tag = task[t].tag
    BY <1>1, <1>4, <2>1, <2>3 DEF OwnTemp
  <2>6. /\ OnDisk' = (OnDisk \ {n}) \cup {b}
        /\ files'[b] = files[n]
        /\ \A p \in OnDisk' : p # b => p \in OnDisk /\ p # n /\ files'[p] = files[p]
        /\ files' = [p \in OnDisk' |-> files'[p]]
    BY <2>2, Zenon DEF With, Removed, Drop, OnDisk
  <2>7. \A p \in OnDisk : files[p] = [block |-> files[p].block, data |-> files[p].data,
                                     tag |-> files[p].tag, mtime |-> files[p].mtime]
    BY Zenon DEF Inv, PublishedSound, StoresSound
  <2>8. \A p \in OnDisk' : files'[p] = [block |-> files'[p].block, data |-> files'[p].data,
                                       tag |-> files'[p].tag, mtime |-> files'[p].mtime]
    BY <1>4, <2>1, <2>6, <2>7
  <2>9. files' = [p \in OnDisk' |-> [block |-> files'[p].block, data |-> files'[p].data,
                                    tag |-> files'[p].tag, mtime |-> files'[p].mtime]]
    BY <2>6, <2>8, Zenon
  <2> DEFINE r == [pc |-> "touch", block |-> task[t].block, tag |-> task[t].tag,
                   data |-> task[t].data, path |-> NoPath, stamp |-> task[t].stamp]
  <2>10. task' = [u \in Threads |-> IF u = t THEN r ELSE task[u]]
    BY <2>2, Zenon DEF Inv, PublishedSound, StoresSound, GoWith
  <2>11. TaskOK(r) /\ r.pc \notin Storing
    BY <1>1, <2>3, Zenon DEF TaskOK, Storing
  <2> HIDE DEF r
  <2>12. /\ task' = [u \in Threads |-> task'[u]]
         /\ task'[t] = r
         /\ \A u \in Threads : u # t => task'[u] = task[u]
    BY <2>10, Zenon
  <2>13. \A u \in Threads : TaskOK(task[u])'
    BY <1>1, <2>11, <2>12 DEF Inv, PublishedSound, StoresSound, TaskOK
  <2>14. \A u \in Threads : OwnTemp(u)'
    <3> SUFFICES ASSUME NEW u \in Threads, task'[u].pc \in Storing PROVE OwnTemp(u)'
      BY Zenon DEF OwnTemp
    <3>1. u # t /\ task'[u] = task[u]
      BY <2>11, <2>12, Zenon
    <3>2. OwnTemp(u) /\ TaskOK(task[u])
      BY Zenon DEF Inv, PublishedSound, StoresSound
    <3>3. task[u].path # b
      BY <2>4, <3>1, <3>2, Disjoint DEF TaskOK
    <3>4. \A v \in Threads : task'[v].pc \in Storing => v # t /\ task'[v] = task[v]
      BY <2>11, <2>12, Zenon
    <3> QED
      BY <2>6, <3>1, <3>2, <3>3, <3>4 DEF OwnTemp
  <2>15. remote' \in [RemoteFiles -> Nat \ {0}]
    BY <1>1, Zenon DEF Inv, PublishedSound, StoresSound
  <2>16. StoresSound'
    BY <1>2, <2>9, <2>12, <2>13, <2>14, <2>15 DEF StoresSound, LayerComplete
  <2>17. \A p \in OnDisk' \cap Blocks :
           /\ files'[p].block = p
           /\ files'[p].data \in Nat \ {Partial}
           /\ config.validation => files'[p].tag # NoTag /\ files'[p].data >= files'[p].tag
    <3> SUFFICES ASSUME NEW p \in OnDisk' \cap Blocks
                 PROVE  /\ files'[p].block = p
                        /\ files'[p].data \in Nat \ {Partial}
                        /\ config.validation =>
                             files'[p].tag # NoTag /\ files'[p].data >= files'[p].tag
      BY Zenon
    <3>1. CASE p = b
      BY <2>4, <2>5, <2>6, <3>1 DEF NoTag
    <3>2. CASE p # b
      BY <2>6, <3>2, Zenon DEF Inv, PublishedSound
    <3> QED
      BY <3>1, <3>2, Zenon
  <2>18. PublishedSound'
    BY <1>1, <2>16, <2>17, Zenon DEF PublishedSound
  <2>19. TempsOwned'
    <3> SUFFICES ASSUME NEW m \in (OnDisk' \cap TempNames) \ orphans
                 PROVE  \E u \in Threads : task'[u].path = m /\ task'[u].pc \in Storing
      BY <1>1, Zenon DEF TempsOwned
    <3>1. m # b /\ m # n /\ m \in OnDisk
      BY <2>4, <2>6, Disjoint
    <3>2. PICK u \in Threads : task[u].path = m /\ task[u].pc \in Storing
      BY <3>1, Zenon DEF Inv, TempsOwned
    <3>3. u # t
      BY <2>1, <3>1, <3>2
    <3> QED
      BY <2>12, <3>2, <3>3, Zenon
  <2> QED
    BY <2>18, <2>19 DEF Inv
<1> QED
  BY <1>3, <1>4, Zenon

\* ReadAndCache gives a thread a block and the version tag of the handle.
LEMMA StartStep ==
  ASSUME Inv, NEW t \in Threads, NEW b \in Blocks, Start(t, b)
  PROVE  Inv'
<1>1. PICK w \in {"mem", "open"}, tag \in IF config.validation THEN 1 .. remote[FileOf(b)] ELSE {NoTag} :
        task' = [task EXCEPT ![t] = [pc |-> w, block |-> b, tag |-> tag, data |-> NoTag,
                                     path |-> NoPath, stamp |-> 0]]
  BY Zenon DEF Start
<1> DEFINE r == [pc |-> w, block |-> b, tag |-> tag, data |-> NoTag, path |-> NoPath, stamp |-> 0]
<1>2. TaskOK(r) /\ r.pc \notin Storing
  BY Zenon DEF TaskOK, Storing
<1>3. task' = [task EXCEPT ![t] = r]
  BY <1>1, Zenon
<1> HIDE DEF r
<1>4. /\ FilesShrink /\ LayerComplete' /\ task[t].pc \notin Storing
      /\ UNCHANGED <<config, remote, orphans>>
  BY UnchangedShrinks, LayerKept, Zenon DEF Start, Storing
<1> QED
  BY <1>2, <1>3, <1>4, TaskStep, Zenon

\* Clearing and listing remove files, whoever owns them.
LEMMA AdminSteps ==
  ASSUME Inv, AdminNext
  PROVE  Inv'
<1>1. UNCHANGED <<config, remote, task, orphans>>
  BY Zenon DEF AdminNext, ClearAll, MakeDirectory, ClearMaps, ClearMemory, ClearFile, ListEntry,
         Untrack, UnlinkOne, ClearFileMemory, EntryInfo
<1>2. LayerComplete'
  <2>1. \/ UNCHANGED in_mem_storage
        \/ in_mem_storage' = <<>>
        \/ \E S : in_mem_storage' = Drop(in_mem_storage, S)
    BY Zenon DEF AdminNext, ClearAll, MakeDirectory, ClearMaps, ClearMemory, ClearFile, ListEntry,
           Untrack, UnlinkOne, ClearFileMemory, EntryInfo
  <2> QED
    BY <2>1, LayerKept, Zenon
<1>3. FilesShrink
  <2>1. \/ UNCHANGED files
        \/ files' = <<>>
        \/ \E S : files' = Removed(S)
    BY Zenon DEF AdminNext, ClearAll, MakeDirectory, ClearMaps, ClearMemory, ClearFile, ListEntry,
           Untrack, UnlinkOne, ClearFileMemory, EntryInfo
  <2>2. CASE files' = <<>>
    BY <2>2 DEF FilesShrink, OnDisk
  <2> QED
    BY <2>1, <2>2, UnchangedShrinks, RemovedShrinks
<1>4. /\ remote' \in [RemoteFiles -> Nat \ {0}]
      /\ \A f \in RemoteFiles : remote'[f] >= remote[f]
  BY <1>1 DEF Inv, PublishedSound, StoresSound
<1>5. UNCHANGED <<config, task, orphans>>
  BY <1>1, Zenon
<1> QED
  BY <1>2, <1>3, <1>4, <1>5, FilesStep, Zenon

\* A crash turns every temporary file into one that nobody owns.
LEMMA CrashStep ==
  ASSUME Inv, Crash
  PROVE  Inv'
<1>1. FilesShrink
  <2>1. PICK S : files' = Removed(S)
    BY Zenon DEF Crash
  <2> QED
    BY <2>1, RemovedShrinks, Zenon
<1>2. /\ OnDisk' \subseteq OnDisk
      /\ \A p \in OnDisk' : /\ files'[p].block = files[p].block
                            /\ files'[p].data = files[p].data
                            /\ files'[p].tag = files[p].tag
      /\ files' = [p \in OnDisk' |-> [block |-> files'[p].block, data |-> files'[p].data,
                                      tag |-> files'[p].tag, mtime |-> files'[p].mtime]]
  BY <1>1 DEF FilesShrink
<1>3. /\ task' = [t \in Threads |-> IdleTask]
      /\ in_mem_storage' = <<>>
      /\ orphans' = orphans \cup (OnDisk \cap TempNames)
      /\ UNCHANGED <<config, remote>>
  BY Zenon DEF Crash
<1>4. \A t \in Threads : TaskOK(task[t])' /\ OwnTemp(t)'
  BY <1>3, Zenon DEF TaskOK, OwnTemp, IdleTask, Storing
<1>5. StoresSound'
  BY <1>2, <1>3, <1>4 DEF Inv, PublishedSound, StoresSound
<1>6. PublishedSound'
  BY <1>2, <1>3, <1>5 DEF Inv, PublishedSound
<1>7. TempsOwned'
  BY <1>2, <1>3 DEF TempsOwned
<1> QED
  BY <1>6, <1>7, Zenon DEF Inv

\* The cleanup of dead temporary files, evictions of the in-memory layer, remote
\* updates and the clock.
LEMMA EnvironmentSteps ==
  ASSUME Inv, \/ CleanupDeadTempFiles \/ Tick
              \/ \E b \in Blocks : MemEvict(b) \/ RemoteUpdate(FileOf(b))
              \/ UNCHANGED vars
  PROVE  Inv'
<1>1. UNCHANGED <<config, task, orphans>>
  BY Zenon DEF CleanupDeadTempFiles, Tick, MemEvict, RemoteUpdate, vars
<1>2. LayerComplete'
  BY LayerKept, Zenon DEF CleanupDeadTempFiles, Tick, MemEvict, RemoteUpdate, vars
<1>3. FilesShrink
  <2>1. UNCHANGED files \/ \E S : files' = Removed(S)
    BY Zenon DEF CleanupDeadTempFiles, Tick, MemEvict, RemoteUpdate, vars
  <2> QED
    BY <2>1, UnchangedShrinks, RemovedShrinks
<1>4. /\ remote' \in [RemoteFiles -> Nat \ {0}]
      /\ \A f \in RemoteFiles : remote'[f] >= remote[f]
  <2>1. remote \in [RemoteFiles -> Nat \ {0}]
    BY Zenon DEF Inv, PublishedSound, StoresSound
  <2>2. CASE UNCHANGED remote
    BY <2>1, <2>2
  <2>3. CASE \E b \in Blocks : RemoteUpdate(FileOf(b))
    <3>1. PICK f \in RemoteFiles : remote' = [remote EXCEPT ![f] = @ + 1]
      BY <2>3, Zenon DEF RemoteUpdate, RemoteFiles
    <3> QED
      BY <2>1, <3>1
  <2> QED
    BY <2>2, <2>3, Zenon DEF CleanupDeadTempFiles, Tick, MemEvict, vars
<1> QED
  BY <1>1, <1>2, <1>3, <1>4, FilesStep, Zenon

\* An empty cache directory.
LEMMA InitInv == Init => Inv
<1> SUFFICES ASSUME Init PROVE Inv
  BY Zenon
<1>1. /\ OnDisk = {} /\ DOMAIN in_mem_storage = {}
      /\ remote \in [RemoteFiles -> Nat \ {0}]
  BY DEF Init, OnDisk
<1>2. files = [p \in OnDisk |-> [block |-> files[p].block, data |-> files[p].data,
                                tag |-> files[p].tag, mtime |-> files[p].mtime]]
  BY <1>1 DEF Init, OnDisk
<1>3. \A t \in Threads : TaskOK(task[t]) /\ OwnTemp(t)
  BY Zenon DEF Init, TaskOK, OwnTemp, IdleTask, Storing
<1>4. task = [t \in Threads |-> task[t]]
  BY Zenon DEF Init
<1>5. StoresSound
  BY <1>1, <1>2, <1>3, <1>4 DEF StoresSound
<1> QED
  BY <1>1, <1>5, Zenon DEF Inv, PublishedSound, TempsOwned

\* The blocks a setting uses are blocks.
LEMMA BlocksInUse ==
  ASSUME config \in Configs
  PROVE  config.blocks \subseteq Blocks
  BY DiskAssumption, Zenon

\* Every step preserves the two properties.
LEMMA NextInv ==
  ASSUME Inv, config \in Configs, [Next]_vars
  PROVE  Inv' /\ config' \in Configs
<1>1. config' = config
  BY Zenon DEF Next, vars, ReaderStep, AdminNext, Start, MemLookup, MemDrop, CopyMemHit, OpenLocal,
         Validate, Discard, CopyHit, ReadRemote, StoreFull, EvictLru, Unlink, CreateTemp,
         WriteContent, SetTag, Rename, Touch, Upsert, MemPut, ClearAll, MakeDirectory, ClearMaps,
         ClearMemory, ClearFile, ListEntry, Untrack, UnlinkOne, ClearFileMemory, EntryInfo,
         Crash, CleanupDeadTempFiles, Tick, MemEvict, RemoteUpdate
<1>2. ASSUME NEW t \in Threads, ReaderStep(t) PROVE Inv'
  <2>1. CASE CreateTemp(t)
    BY <2>1, CreateTempStep, Zenon
  <2>2. CASE WriteContent(t)
    BY <2>2, WriteContentStep, Zenon
  <2>3. CASE SetTag(t)
    BY <2>3, SetTagStep, Zenon
  <2>4. CASE Rename(t)
    BY <2>4, RenameStep, Zenon
  <2>5. CASE \/ MemLookup(t) \/ MemDrop(t) \/ CopyMemHit(t)
             \/ OpenLocal(t) \/ Validate(t) \/ Discard(t) \/ CopyHit(t)
             \/ ReadRemote(t) \/ StoreFull(t) \/ EvictLru(t) \/ Unlink(t)
             \/ Touch(t) \/ Upsert(t) \/ MemPut(t)
    BY <2>5, QuietSteps, Zenon
  <2> QED
    BY <1>2, <2>1, <2>2, <2>3, <2>4, <2>5, Zenon DEF ReaderStep
<1>3. ASSUME NEW t \in Threads, NEW b \in config.blocks, Start(t, b) PROVE Inv'
  <2>1. b \in Blocks
    BY <1>3, BlocksInUse, Zenon
  <2> QED
    BY <1>3, <2>1, StartStep, Zenon
<1>4. CASE AdminNext
  BY <1>1, <1>4, AdminSteps, Zenon
<1>5. CASE Crash
  BY <1>1, <1>5, CrashStep, Zenon
<1>6. CASE \/ CleanupDeadTempFiles \/ Tick \/ UNCHANGED vars
           \/ \E b \in config.blocks : MemEvict(b) \/ RemoteUpdate(FileOf(b))
  BY <1>1, <1>6, BlocksInUse, EnvironmentSteps
<1> QED
  BY <1>1, <1>2, <1>3, <1>4, <1>5, <1>6, Zenon DEF Next

\* The two properties hold in every reachable state.
LEMMA StoreInvariant == Spec => [](Inv /\ config \in Configs)
<1>1. Init => Inv /\ config \in Configs
  BY InitInv, Zenon DEF Init
<1>2. (Inv /\ config \in Configs) /\ [Next]_vars => (Inv /\ config \in Configs)'
  BY NextInv, Zenon
<1> QED
  BY <1>1, <1>2, PTL DEF Spec

\* Readers only ever find complete, rightly tagged cache files: StoreLocalCacheFile
\* fills and tags a temporary file and renames it, and no crash, clear, eviction,
\* cleanup of dead temporary files or remote update in between is published.
THEOREM Published == Spec => []PublishedSound
<1>1. Inv /\ config \in Configs => PublishedSound
  BY DEF Inv
<1> QED
  BY <1>1, StoreInvariant, PTL

\* StoreLocalCacheFile removes its temporary file on every way out: the only ones
\* without an owner are those a crash left for CleanupDeadTempFiles.
THEOREM OwnedTemps == Spec => []TempsOwned
<1>1. Inv /\ config \in Configs => TempsOwned
  BY Zenon DEF Inv
<1> QED
  BY <1>1, StoreInvariant, PTL

-----------------------------------------------------------------------------
(* The two maps of access timestamps.  They depend on the rest of the      *)
(* state: they are loaded from the files in the directory, and a thread    *)
(* brings the path and the timestamp it adds.  So the invariant has the    *)
(* types of all of it, and rests on what is shown above of the tasks of    *)
(* the threads.                                                            *)

\* Each path has one timestamp and each timestamp one path.
Inverses(map, reverse) ==
  /\ DOMAIN map \subseteq Nat /\ IsFiniteSet(DOMAIN map) /\ DOMAIN reverse \subseteq Paths
  /\ map \in [DOMAIN map -> Paths] /\ reverse \in [DOMAIN reverse -> Nat]
  /\ \A s \in DOMAIN map : map[s] \in DOMAIN reverse /\ reverse[map[s]] = s
  /\ \A p \in DOMAIN reverse : reverse[p] \in DOMAIN map /\ map[reverse[p]] = p

\* A set of timestamps that is not empty has a first one.
LEMMA LeastStamp ==
  ASSUME NEW S \in SUBSET Nat, S # {}
  PROVE  Min(S) \in S /\ \A s \in S : Min(S) <= s
<1>1. PICK n \in S : \A m \in S : ~(<<m, n>> \in OpToRel(<, Nat))
  BY NatLessThanWellFounded, WFMin, Zenon
<1>2. \A x, y \in Nat : x < y => <<x, y>> \in OpToRel(<, Nat)
  <2>1. OpToRel(<, Nat) = {ss \in Nat \X Nat : ss[1] < ss[2]}
    BY Zenon DEF OpToRel
  <2>2. \A x, y \in Nat : x < y => <<x, y>> \in {ss \in Nat \X Nat : ss[1] < ss[2]}
    OBVIOUS
  <2> QED
    BY <2>1, <2>2, Zenon
<1>3. \A m \in S : ~(m < n)
  BY <1>1, <1>2, Zenon
<1>4. \A m \in S : n <= m
  BY <1>3
<1> QED
  BY <1>4, Zenon DEF Min

\* The search for a free timestamp ends: a finite map does not have them all.
LEMMA FreeStampFree ==
  ASSUME NEW map, NEW ts \in Nat, IsFiniteSet(DOMAIN map), DOMAIN map \subseteq Nat
  PROVE  FreeStamp(map, ts) \in Nat \ DOMAIN map
<1> DEFINE n == Cardinality(DOMAIN map)
           S == {s \in ts .. ts + n : s \notin DOMAIN map}
<1>1. n \in Nat
  BY FS_CardinalityType, Zenon
<1>2. S # {}
  <2> SUFFICES ASSUME S = {} PROVE FALSE
    BY Zenon
  <2>1. ts .. ts + n \subseteq DOMAIN map
    BY Zenon
  <2>2. Cardinality(ts .. ts + n) <= n
    BY <2>1, FS_Subset, Zenon
  <2>3. ts \in Int /\ ts + n \in Int /\ ~(ts > ts + n)
    BY <1>1
  <2>4. Cardinality(ts .. ts + n) = (ts + n) - ts + 1
    BY <2>3, FS_Interval
  <2> QED
    BY <1>1, <2>2, <2>4
<1>3. S \subseteq Nat
  BY <1>1
<1>4. Min(S) \in S
  BY <1>2, <1>3, LeastStamp, Zenon
<1> QED
  BY <1>3, <1>4, Zenon DEF FreeStamp

\* Cleared maps are inverse to each other.
LEMMA EmptyInverses == Inverses(<<>>, <<>>)
<1>1. DOMAIN <<>> = {} /\ <<>> \in [{} -> Paths] /\ <<>> \in [{} -> Nat]
  OBVIOUS
<1> QED
  BY <1>1, FS_EmptySet, Zenon DEF Inverses

\* Paths that leave one map leave the other.
LEMMA DropInverses ==
  ASSUME NEW map, NEW reverse, NEW S, Inverses(map, reverse)
  PROVE  Inverses(Drop(map, {reverse[p] : p \in S \cap DOMAIN reverse}), Drop(reverse, S))
<1> DEFINE m == Drop(map, {reverse[p] : p \in S \cap DOMAIN reverse})
           r == Drop(reverse, S)
<1>1. /\ DOMAIN m = DOMAIN map \ {reverse[p] : p \in S \cap DOMAIN reverse}
      /\ DOMAIN r = DOMAIN reverse \ S
      /\ \A s \in DOMAIN m : m[s] = map[s]
      /\ \A p \in DOMAIN r : r[p] = reverse[p]
      /\ m = [s \in DOMAIN m |-> map[s]] /\ r = [p \in DOMAIN r |-> reverse[p]]
  BY Zenon DEF Drop
<1> HIDE DEF m, r
<1>2. IsFiniteSet(DOMAIN m)
  BY <1>1, FS_Subset, Zenon DEF Inverses
<1>3. m \in [DOMAIN m -> Paths] /\ r \in [DOMAIN r -> Nat]
  BY <1>1, Zenon DEF Inverses
<1>4. \A s \in DOMAIN m : m[s] \in DOMAIN r /\ r[m[s]] = s
  BY <1>1 DEF Inverses
<1>5. \A p \in DOMAIN r : r[p] \in DOMAIN m /\ m[r[p]] = p
  BY <1>1 DEF Inverses
<1> QED
  BY <1>1, <1>2, <1>3, <1>4, <1>5, Zenon DEF Inverses, m, r

\* A new path gets a timestamp that is free.
LEMMA AddInverses ==
  ASSUME NEW map, NEW reverse, NEW p \in Paths, NEW s \in Nat, Inverses(map, reverse),
         p \notin DOMAIN reverse, s \notin DOMAIN map
  PROVE  Inverses(With(map, s, p), With(reverse, p, s))
<1> DEFINE m == With(map, s, p)
           r == With(reverse, p, s)
<1>1. /\ DOMAIN m = DOMAIN map \cup {s} /\ m[s] = p
      /\ DOMAIN r = DOMAIN reverse \cup {p} /\ r[p] = s
      /\ \A x \in DOMAIN map : m[x] = map[x]
      /\ \A q \in DOMAIN reverse : r[q] = reverse[q]
      /\ m = [x \in DOMAIN m |-> m[x]] /\ r = [q \in DOMAIN r |-> r[q]]
  BY Zenon DEF With
<1> HIDE DEF m, r
<1>2. IsFiniteSet(DOMAIN m)
  BY <1>1, FS_AddElement DEF Inverses
<1>3. m \in [DOMAIN m -> Paths] /\ r \in [DOMAIN r -> Nat]
  BY <1>1 DEF Inverses
<1>4. \A x \in DOMAIN m : m[x] \in DOMAIN r /\ r[m[x]] = x
  BY <1>1 DEF Inverses
<1>5. \A q \in DOMAIN r : r[q] \in DOMAIN m /\ m[r[q]] = q
  BY <1>1, Zenon DEF Inverses
<1> QED
  BY <1>1, <1>2, <1>3, <1>4, <1>5, Zenon DEF Inverses, m, r

\* LoadCacheFileAccessTimestampMapsFromDisk gives every file one timestamp.
LEMMA LoadedInverses ==
  ASSUME clock \in Nat, OnDisk \subseteq Paths, IsFiniteSet(OnDisk), NEW stamp \in LoadedStamps
  PROVE  Inverses(PathsByStamp(stamp), stamp)
<1> DEFINE m == PathsByStamp(stamp)
           N == 0 .. clock + Cardinality(OnDisk)
<1>1. Cardinality(OnDisk) \in Nat
  BY FS_CardinalityType, Zenon
<1>2. N \subseteq Nat /\ IsFiniteSet(N)
  BY <1>1, FS_Interval
<1>3. /\ stamp \in [OnDisk -> N] /\ DOMAIN stamp = OnDisk
      /\ \A p, q \in OnDisk : stamp[p] = stamp[q] => p = q
  BY Zenon DEF LoadedStamps
<1>4. /\ DOMAIN m = Range(stamp) /\ m = [s \in DOMAIN m |-> m[s]]
      /\ \A s \in DOMAIN m : m[s] = CHOOSE p \in DOMAIN stamp : stamp[p] = s
  BY DEF PathsByStamp
<1> HIDE DEF m, N
<1>5. \A s \in DOMAIN m : m[s] \in OnDisk /\ stamp[m[s]] = s
  BY <1>3, <1>4 DEF Range
<1>6. \A p \in OnDisk : stamp[p] \in DOMAIN m /\ m[stamp[p]] = p
  BY <1>3, <1>4, <1>5 DEF Range
<1>7. DOMAIN m \subseteq N
  BY <1>3, <1>4 DEF Range
<1>8. IsFiniteSet(DOMAIN m)
  BY <1>2, <1>7, FS_Subset, Zenon
<1>9. m \in [DOMAIN m -> Paths] /\ stamp \in [OnDisk -> Nat]
  BY <1>2, <1>3, <1>4, <1>5, Zenon
<1> QED
  BY <1>2, <1>3, <1>5, <1>6, <1>7, <1>8, <1>9, Zenon DEF Inverses, m

-----------------------------------------------------------------------------
(* The types of the rest of the state. *)

FilesTyped(f, now) ==
  /\ DOMAIN f \subseteq Paths /\ IsFiniteSet(DOMAIN f)
  /\ f \in [DOMAIN f -> [block : Blocks, data : Tags, tag : Tags, mtime : 0 .. now]]

TaskTyped(r, now) ==
  /\ r.block \in Blocks \cup {NoPath} /\ r.path \in Paths \cup {NoPath}
  /\ r.tag \in Tags /\ r.data \in Tags /\ r.stamp \in 0 .. now

LayerTyped(m) ==
  /\ DOMAIN m \subseteq Blocks
  /\ m \in [DOMAIN m -> [data : 1 .. MaxVersion, tag : Tags]]

AdminTyped(a) ==
  a \in [pc : {"idle", "mkdir", "maps", "memory", "untrack", "unlink", "info"},
         todo : SUBSET Paths, file : RemoteFiles \cup {0}]

MapsInv ==
  /\ config \in Configs /\ clock \in 0 .. MaxClock
  /\ remote \in [RemoteFiles -> 1 .. MaxVersion] /\ orphans \subseteq TempNames
  /\ FilesTyped(files, clock) /\ LayerTyped(in_mem_storage) /\ AdminTyped(admin)
  /\ \A t \in Threads : TaskTyped(task[t], clock)
  /\ Inverses(cache_file_access_timestamp_map, cache_filepath_to_access_timestamp)

\* MapsInv is TypeOK and more.
LEMMA MapsInvSuffices == MapsInv => MapsInverse
<1> SUFFICES ASSUME MapsInv PROVE MapsInverse
  BY Zenon
<1> DEFINE map == cache_file_access_timestamp_map
           reverse == cache_filepath_to_access_timestamp
<1>1. Inverses(map, reverse)
  BY Zenon DEF MapsInv
<1>2. TypeOK
  BY Zenon DEF MapsInv, TypeOK, FilesTyped, TaskTyped, LayerTyped, AdminTyped, Inverses, OnDisk
<1>3. Range(map) = DOMAIN reverse /\ Range(reverse) = DOMAIN map
  BY <1>1, Zenon DEF Inverses, Range
<1> QED
  BY <1>1, <1>2, <1>3, Zenon DEF MapsInverse, Inverses

\* What the operations on the directory leave there.
LEMMA DropTyped ==
  ASSUME NEW f, NEW now, NEW S, FilesTyped(f, now)
  PROVE  FilesTyped(Drop(f, S), now)
<1>1. /\ DOMAIN Drop(f, S) = DOMAIN f \ S
      /\ Drop(f, S) = [p \in DOMAIN f \ S |-> f[p]]
  BY Zenon DEF Drop
<1>2. IsFiniteSet(DOMAIN f \ S)
  BY FS_Subset, Zenon DEF FilesTyped
<1> QED
  BY <1>1, <1>2, Zenon DEF FilesTyped

\* A file that is created, or put into place by a rename.
LEMMA WithTyped ==
  ASSUME NEW f, NEW now, NEW p \in Paths, FilesTyped(f, now),
         NEW r \in [block : Blocks, data : Tags, tag : Tags, mtime : 0 .. now]
  PROVE  FilesTyped(With(f, p, r), now)
<1>1. /\ DOMAIN With(f, p, r) = DOMAIN f \cup {p}
      /\ With(f, p, r) = [q \in DOMAIN f \cup {p} |-> IF q = p THEN r ELSE f[q]]
  BY Zenon DEF With
<1>2. IsFiniteSet(DOMAIN f \cup {p})
  BY FS_AddElement, Zenon DEF FilesTyped
<1> QED
  BY <1>1, <1>2, Zenon DEF FilesTyped

\* A file whose content, tag or time is set.
LEMMA ChangedTyped ==
  ASSUME NEW f, NEW now, NEW p \in DOMAIN f, FilesTyped(f, now),
         NEW r \in [block : Blocks, data : Tags, tag : Tags, mtime : 0 .. now]
  PROVE  FilesTyped([f EXCEPT ![p] = r], now)
<1>1. /\ DOMAIN [f EXCEPT ![p] = r] = DOMAIN f
      /\ [f EXCEPT ![p] = r] = [q \in DOMAIN f |-> IF q = p THEN r ELSE f[q]]
  BY Zenon DEF FilesTyped
<1> QED
  BY <1>1, Zenon DEF FilesTyped

\* ClearCache removes the directory.
LEMMA EmptyTyped ==
  ASSUME NEW now PROVE FilesTyped(<<>>, now)
<1>1. DOMAIN <<>> = {} /\ <<>> = [p \in {} |-> 0]
  OBVIOUS
<1> QED
  BY <1>1, FS_EmptySet, Zenon DEF FilesTyped

\* Clear of the in-memory layer.
LEMMA EmptyLayer == LayerTyped(<<>>)
<1>1. DOMAIN <<>> = {} /\ <<>> = [b \in {} |-> 0]
  OBVIOUS
<1> QED
  BY <1>1, Zenon DEF LayerTyped

\* UpdateFileTimestamps.
LEMMA UtimedTyped ==
  ASSUME NEW p, FilesTyped(files, clock), clock \in Nat
  PROVE  FilesTyped(Utimed(p), clock)
<1>1. CASE p \notin OnDisk
  BY <1>1, Zenon DEF Utimed
<1>2. CASE p \in OnDisk
  <2>1. PICK r : r = [files[p] EXCEPT !.mtime = clock]
    BY Zenon
  <2>2. clock \in 0 .. clock
    OBVIOUS
  <2>3. r \in [block : Blocks, data : Tags, tag : Tags, mtime : 0 .. clock]
    BY <1>2, <2>1, <2>2, Zenon DEF FilesTyped, OnDisk
  <2>4. Utimed(p) = [files EXCEPT ![p] = r]
    BY <1>2, <2>1, Zenon DEF Utimed
  <2>5. p \in DOMAIN files
    BY <1>2, Zenon DEF OnDisk
  <2>6. FilesTyped([files EXCEPT ![p] = r], clock)
    BY <2>3, <2>5, ChangedTyped
  <2> QED
    BY <2>4, <2>6, Zenon
<1> QED
  BY <1>1, <1>2, Zenon

-----------------------------------------------------------------------------
(* The steps of a reader. *)

\* EvictCacheBlockLru, with the maps as they are or loaded from the directory:
\* the oldest path is the one that leaves both.
LEMMA EvictOldest ==
  ASSUME MapsInv, NEW t \in Threads, EvictLru(t)
  PROVE  /\ Go(t, "touch") \/ \E path \in Paths : GoPath(t, "unlink", path)
         /\ Inverses(cache_file_access_timestamp_map', cache_filepath_to_access_timestamp')
<1> DEFINE empty == cache_file_access_timestamp_map = <<>>
           mapOf(reverse) == IF empty THEN PathsByStamp(reverse)
                                      ELSE cache_file_access_timestamp_map
<1>1. PICK reverse \in IF empty THEN LoadedStamps ELSE {cache_filepath_to_access_timestamp} :
        IF mapOf(reverse) = <<>>
        THEN Go(t, "touch") /\ UNCHANGED maps
        ELSE LET oldest == mapOf(reverse)[Min(DOMAIN mapOf(reverse))] IN
             /\ GoPath(t, "unlink", oldest)
             /\ cache_file_access_timestamp_map' = Drop(mapOf(reverse), {reverse[oldest]})
             /\ cache_filepath_to_access_timestamp' = Drop(reverse, {oldest})
  BY Zenon DEF EvictLru
<1> DEFINE map == mapOf(reverse)
           oldest == map[Min(DOMAIN map)]
<1>2. Inverses(cache_file_access_timestamp_map, cache_filepath_to_access_timestamp)
  BY Zenon DEF MapsInv
<1>3. Inverses(map, reverse)
  <2>1. CASE empty
    <3>1. clock \in Nat /\ OnDisk \subseteq Paths /\ IsFiniteSet(OnDisk)
      BY DiskAssumption DEF MapsInv, FilesTyped, OnDisk
    <3>2. reverse \in LoadedStamps /\ map = PathsByStamp(reverse)
      BY <1>1, <2>1, Zenon
    <3> QED
      BY <3>1, <3>2, LoadedInverses, Zenon
  <2>2. CASE ~empty
    BY <1>1, <1>2, <2>2, Zenon
  <2> QED
    BY <2>1, <2>2, Zenon
<1>4. CASE map = <<>>
  BY <1>1, <1>2, <1>4, Zenon DEF maps
<1>5. CASE map # <<>>
  <2>1. DOMAIN map # {}
    <3>1. \A m : m \in [{} -> Paths] => m = <<>>
      OBVIOUS
    <3> QED
      BY <1>3, <1>5, <3>1, Zenon DEF Inverses
  <2>2. Min(DOMAIN map) \in DOMAIN map
    BY <1>3, <2>1, LeastStamp, Zenon DEF Inverses
  <2>3. oldest \in Paths /\ oldest \in DOMAIN reverse
    BY <1>3, <2>2, Zenon DEF Inverses
  <2> HIDE DEF map
  <2>4. {reverse[oldest]} = {reverse[p] : p \in {oldest} \cap DOMAIN reverse}
    BY <2>3, Zenon
  <2>5. Inverses(Drop(map, {reverse[oldest]}), Drop(reverse, {oldest}))
    BY <1>3, <2>4, DropInverses, Zenon
  <2> QED
    BY <1>1, <1>5, <2>3, <2>5, Zenon DEF map
<1> QED
  BY <1>4, <1>5, Zenon

\* Where a step of a thread leaves its task.
Moves(t) ==
  \/ Done(t)
  \/ \E where : \E data \in Tags, path \in Paths \cup {NoPath}, stamp \in 0 .. clock :
       GoWith(t, where, data, path, stamp)

\* A thread that goes on keeps its block and tag; one that is done has none.
LEMMA MovesTyped ==
  ASSUME MapsInv, Inv, NEW t \in Threads, Moves(t), clock' = clock
  PROVE  \A u \in Threads : TaskTyped(task'[u], clock')
<1>1. task = [u \in Threads |-> task[u]]
  BY Zenon DEF Inv, PublishedSound, StoresSound
<1>2. \A u \in Threads : TaskTyped(task[u], clock)
  BY Zenon DEF MapsInv
<1>3. CASE Done(t)
  <2>1. task' = [u \in Threads |-> IF u = t THEN IdleTask ELSE task[u]]
    BY <1>1, <1>3, Zenon DEF Done
  <2>2. 0 \in Tags /\ 0 \in 0 .. clock
    BY DiskAssumption DEF Tags, MapsInv
  <2>3. TaskTyped(IdleTask, clock)
    BY <2>2, Zenon DEF TaskTyped, IdleTask, NoTag
  <2> QED
    BY <1>2, <2>1, <2>3, Zenon
<1>4. CASE \E where : \E data \in Tags, path \in Paths \cup {NoPath}, stamp \in 0 .. clock :
             GoWith(t, where, data, path, stamp)
  <2> PICK where : \E data \in Tags, path \in Paths \cup {NoPath}, stamp \in 0 .. clock :
                     GoWith(t, where, data, path, stamp)
    BY <1>4, Zenon
  <2>1. PICK data \in Tags, path \in Paths \cup {NoPath}, stamp \in 0 .. clock :
          GoWith(t, where, data, path, stamp)
    BY Zenon
  <2>2. PICK r : r = [pc |-> where, block |-> task[t].block, tag |-> task[t].tag,
                      data |-> data, path |-> path, stamp |-> stamp]
    BY Zenon
  <2>3. task' = [u \in Threads |-> IF u = t THEN r ELSE task[u]]
    BY <1>1, <2>1, <2>2, Zenon DEF GoWith
  <2>4. TaskTyped(task[t], clock)
    BY <1>2, Zenon
  <2>5. TaskTyped(r, clock)
    BY <2>1, <2>2, <2>4, Zenon DEF TaskTyped
  <2> QED
    BY <1>2, <2>3, <2>5, Zenon
<1> QED
  BY <1>3, <1>4, Zenon DEF Moves

\* The ways to go on.
LEMMA GoMoves ==
  ASSUME MapsInv, NEW t \in Threads, NEW where,
         \/ Go(t, where)
         \/ \E data \in Tags : GoData(t, where, data)
         \/ \E path \in Paths \cup {NoPath} : GoPath(t, where, path)
         \/ \E stamp \in 0 .. clock : GoStamp(t, where, stamp)
  PROVE  Moves(t)
<1>1. /\ task[t].data \in Tags /\ task[t].path \in Paths \cup {NoPath}
      /\ task[t].stamp \in 0 .. clock
  BY Zenon DEF MapsInv, TaskTyped
<1> QED
  BY <1>1, Zenon DEF Moves, Go, GoData, GoPath, GoStamp

\* A block that is served goes to the in-memory layer, if there is one.
LEMMA ServedMoves ==
  ASSUME MapsInv, NEW t \in Threads, Served(t)
  PROVE  Moves(t)
<1>1. 0 \in 0 .. clock
  BY DEF MapsInv
<1> QED
  BY <1>1, GoMoves, Zenon DEF Served, Moves

\* Every step of a reader leaves its task well typed.
LEMMA ReaderTasks ==
  ASSUME MapsInv, Inv, NEW t \in Threads, ReaderStep(t)
  PROVE  Moves(t)
<1>1. clock \in 0 .. clock
  BY DEF MapsInv
<1>2. CASE MemLookup(t)
  <2>1. in_mem_storage[task[t].block].data \in Tags
        \/ task[t].block \notin DOMAIN in_mem_storage
    <3>1. 1 .. MaxVersion \subseteq Tags
      BY DiskAssumption DEF Tags
    <3> QED
      BY <3>1, Zenon DEF MapsInv, LayerTyped
  <2> QED
    BY <1>2, <2>1, GoMoves, Zenon DEF MemLookup
<1>3. CASE MemDrop(t)
  BY <1>3, GoMoves, Zenon DEF MemDrop
<1>4. CASE CopyMemHit(t)
  BY <1>4, Zenon DEF CopyMemHit, Moves
<1>5. CASE OpenLocal(t)
  <2>1. task[t].block \in OnDisk => files[task[t].block].data \in Tags
    BY Zenon DEF MapsInv, FilesTyped, OnDisk
  <2> QED
    BY <1>5, <2>1, GoMoves, Zenon DEF OpenLocal
<1>6. CASE Validate(t)
  BY <1>6, GoMoves, Zenon DEF Validate
<1>7. CASE Discard(t)
  BY <1>7, GoMoves, Zenon DEF Discard
<1>8. CASE CopyHit(t)
  BY <1>1, <1>8, GoMoves, ServedMoves, Zenon DEF CopyHit
<1>9. CASE ReadRemote(t)
  <2>1. task[t].block \in Accessible => remote[FileOf(task[t].block)] \in Tags
    <3>1. 1 .. MaxVersion \subseteq Tags
      BY DiskAssumption DEF Tags
    <3>2. task[t].block \in Accessible => FileOf(task[t].block) \in RemoteFiles
      BY DiskAssumption, Zenon DEF RemoteFiles
    <3> QED
      BY <3>1, <3>2, Zenon DEF MapsInv
  <2> QED
    BY <1>9, <2>1, GoMoves, Zenon DEF ReadRemote, Moves
<1>10. CASE StoreFull(t)
  BY <1>10, GoMoves, Zenon DEF StoreFull
<1>11. CASE EvictLru(t)
  BY <1>11, EvictOldest, GoMoves, Zenon
<1>12. CASE Unlink(t)
  BY <1>12, GoMoves, Zenon DEF Unlink
<1>13. CASE CreateTemp(t)
  BY <1>13, GoMoves, Zenon DEF CreateTemp, Moves, Paths
<1>14. CASE WriteContent(t)
  BY <1>14, GoMoves, Zenon DEF WriteContent, Moves
<1>15. CASE SetTag(t)
  BY <1>15, GoMoves, Zenon DEF SetTag
<1>16. CASE Rename(t)
  BY <1>16, GoMoves, Zenon DEF Rename, Moves
<1>17. CASE Touch(t)
  BY <1>1, <1>17, GoMoves, ServedMoves, Zenon DEF Touch
<1>18. CASE Upsert(t)
  BY <1>18, ServedMoves, Zenon DEF Upsert
<1>19. CASE MemPut(t)
  BY <1>19, Zenon DEF MemPut, Moves
<1> QED
  BY <1>2, <1>3, <1>4, <1>5, <1>6, <1>7, <1>8, <1>9, <1>10, <1>11, <1>12, <1>13, <1>14, <1>15,
     <1>16, <1>17, <1>18, <1>19, Zenon DEF ReaderStep

\* Every step of a reader leaves the directory well typed.
LEMMA ReaderFiles ==
  ASSUME MapsInv, Inv, NEW t \in Threads, ReaderStep(t)
  PROVE  FilesTyped(files', clock)
<1> DEFINE n == task[t].path
           FileRecord == [block : Blocks, data : Tags, tag : Tags, mtime : 0 .. clock]
<1>1. FilesTyped(files, clock)
  BY Zenon DEF MapsInv
<1>2. clock \in Nat /\ clock \in 0 .. clock
  BY DEF MapsInv
<1>3. task[t].data \in Tags /\ task[t].tag \in Tags /\ 0 \in Tags
  BY DiskAssumption DEF MapsInv, TaskTyped, Tags
<1>4. TaskOK(task[t])
  BY Zenon DEF Inv, PublishedSound, StoresSound
<1>5. \A S : FilesTyped(Removed(S), clock)
  BY <1>1, DropTyped, Zenon DEF Removed
<1>6. \A p : FilesTyped(Utimed(p), clock)
  BY <1>1, <1>2, UtimedTyped, Zenon
<1>7. ASSUME NEW p \in OnDisk PROVE files[p] \in FileRecord
  BY <1>1, <1>7, Zenon DEF FilesTyped, OnDisk
<1>8. CASE CreateTemp(t) /\ ~UNCHANGED files
  <2>1. PICK new \in TempNames :
          files' = With(files, new, [block |-> task[t].block, data |-> Partial,
                                     tag |-> NoTag, mtime |-> clock])
    BY <1>8, Zenon DEF CreateTemp
  <2>2. PICK r : r = [block |-> task[t].block, data |-> Partial, tag |-> NoTag, mtime |-> clock]
    BY Zenon
  <2>3. task[t].block \in Blocks
    BY <1>4, <1>8, Zenon DEF CreateTemp, TaskOK
  <2>4. r \in FileRecord /\ new \in Paths
    BY <1>2, <1>3, <2>2, <2>3, Zenon DEF Partial, NoTag, Paths
  <2> QED
    BY <1>1, <2>1, <2>2, <2>4, WithTyped, Zenon
<1>9. CASE WriteContent(t) /\ n \in OnDisk /\ files' = [files EXCEPT ![n].data = task[t].data]
  <2>1. PICK r : r = [files[n] EXCEPT !.data = task[t].data]
    BY Zenon
  <2>2. r \in FileRecord
    BY <1>3, <1>7, <1>9, <2>1, Zenon
  <2>3. files' = [files EXCEPT ![n] = r] /\ n \in DOMAIN files
    BY <1>9, <2>1, Zenon DEF OnDisk
  <2> QED
    BY <1>1, <2>2, <2>3, ChangedTyped, Zenon
<1>10. CASE SetTag(t) /\ n \in OnDisk /\ files' = [files EXCEPT ![n].tag = task[t].tag]
  <2>1. PICK r : r = [files[n] EXCEPT !.tag = task[t].tag]
    BY Zenon
  <2>2. r \in FileRecord
    BY <1>3, <1>7, <1>10, <2>1, Zenon
  <2>3. files' = [files EXCEPT ![n] = r] /\ n \in DOMAIN files
    BY <1>10, <2>1, Zenon DEF OnDisk
  <2> QED
    BY <1>1, <2>2, <2>3, ChangedTyped, Zenon
<1>11. CASE Rename(t) /\ n \in OnDisk
  <2>1. files' = With(Removed({n}), task[t].block, files[n])
    BY <1>11, Zenon DEF Rename
  <2>2. task[t].block \in Paths
    BY <1>4, <1>11, Zenon DEF Rename, TaskOK, Paths
  <2>3. files[n] \in FileRecord
    BY <1>7, <1>11, Zenon
  <2> QED
    BY <1>5, <2>1, <2>2, <2>3, WithTyped, Zenon
<1>12. CASE UNCHANGED files \/ (\E S : files' = Removed(S)) \/ (\E p : files' = Utimed(p))
  BY <1>1, <1>5, <1>6, <1>12, Zenon
<1>13. CASE \/ MemLookup(t) \/ MemDrop(t) \/ CopyMemHit(t) \/ OpenLocal(t) \/ Validate(t)
            \/ ReadRemote(t) \/ EvictLru(t) \/ Upsert(t) \/ MemPut(t)
  <2>1. UNCHANGED files
    BY <1>13, Zenon DEF MemLookup, MemDrop, CopyMemHit, OpenLocal, Validate, ReadRemote, EvictLru,
         Upsert, MemPut
  <2> QED
    BY <1>12, <2>1, Zenon
<1>14. CASE Discard(t) \/ CopyHit(t) \/ StoreFull(t) \/ Unlink(t) \/ Touch(t)
  <2>1. UNCHANGED files \/ (\E S : files' = Removed(S)) \/ (\E p : files' = Utimed(p))
    BY <1>14, Zenon DEF Discard, CopyHit, StoreFull, Unlink, Touch
  <2> QED
    BY <1>12, <2>1, Zenon
<1>15. CASE CreateTemp(t)
  BY <1>8, <1>12, <1>15, Zenon
<1>16. CASE WriteContent(t)
  BY <1>9, <1>12, <1>16, Zenon DEF WriteContent
<1>17. CASE SetTag(t)
  BY <1>10, <1>12, <1>17, Zenon DEF SetTag
<1>18. CASE Rename(t)
  BY <1>11, <1>12, <1>18, Zenon DEF Rename
<1> QED
  BY <1>13, <1>14, <1>15, <1>16, <1>17, <1>18, Zenon DEF ReaderStep

\* The second half of UpsertCacheFileAccessTimestamp.
LEMMA UpsertMaps ==
  ASSUME MapsInv, Inv, NEW t \in Threads, Upsert(t)
  PROVE  Inverses(cache_file_access_timestamp_map', cache_filepath_to_access_timestamp')
<1> DEFINE b == task[t].block
           reverse == cache_filepath_to_access_timestamp
           map == Forget(cache_file_access_timestamp_map, b)
           rest == Drop(reverse, {b})
           ts == FreeStamp(map, task[t].stamp)
<1>1. Inverses(cache_file_access_timestamp_map, reverse)
  BY Zenon DEF MapsInv
<1>2. b \in Paths
  BY Zenon DEF Inv, PublishedSound, StoresSound, TaskOK, Upsert, Paths
<1>3. Inverses(map, rest)
  <2> DEFINE gone == {reverse[p] : p \in {b} \cap DOMAIN reverse}
  <2>1. Inverses(Drop(cache_file_access_timestamp_map, gone), rest)
    BY <1>1, DropInverses, Zenon
  <2>2. CASE b \in DOMAIN reverse
    <3>1. gone = {reverse[b]}
      BY <2>2, Zenon
    <3>2. map = Drop(cache_file_access_timestamp_map, {reverse[b]})
      BY <2>2, Zenon DEF Forget
    <3> QED
      BY <2>1, <3>1, <3>2, Zenon
  <2>3. CASE b \notin DOMAIN reverse
    <3>1. map = cache_file_access_timestamp_map
      BY <2>3, Zenon DEF Forget
    <3>2. rest = reverse
      <4>1. rest = [p \in DOMAIN reverse |-> reverse[p]]
        BY <2>3, Zenon DEF Drop
      <4> QED
        BY <1>1, <4>1, Zenon DEF Inverses
    <3> QED
      BY <1>1, <3>1, <3>2, Zenon
  <2> QED
    BY <2>2, <2>3, Zenon
<1>4. task[t].stamp \in Nat
  BY DEF MapsInv, TaskTyped
<1> HIDE DEF map, rest
<1>5. ts \in Nat /\ ts \notin DOMAIN map
  <2>1. IsFiniteSet(DOMAIN map) /\ DOMAIN map \subseteq Nat
    BY <1>3, Zenon DEF Inverses
  <2> QED
    BY <1>4, <2>1, FreeStampFree, Zenon
<1> HIDE DEF ts
<1>6. b \notin DOMAIN rest
  BY Zenon DEF rest, Drop
<1>7. Inverses(With(map, ts, b), With(rest, b, ts))
  BY <1>2, <1>3, <1>5, <1>6, AddInverses, Zenon
<1>8. With(rest, b, ts) = With(reverse, b, ts)
  BY DEF rest, Drop, With
<1> QED
  BY <1>7, <1>8, Zenon DEF Upsert, map, ts

\* Dropping blocks from the in-memory layer.
LEMMA LayerDrops ==
  ASSUME LayerTyped(in_mem_storage), NEW S, in_mem_storage' = Drop(in_mem_storage, S)
  PROVE  LayerTyped(in_mem_storage')
<1>1. in_mem_storage' = [b \in DOMAIN in_mem_storage \ S |-> in_mem_storage[b]]
  BY Zenon DEF Drop
<1> QED
  BY <1>1, Zenon DEF LayerTyped

\* PutData of a block that was served: its content is complete.
LEMMA MemPutLayer ==
  ASSUME MapsInv, Inv, NEW t \in Threads, MemPut(t)
  PROVE  LayerTyped(in_mem_storage')
<1> DEFINE b == task[t].block
<1>1. TaskOK(task[t]) /\ TaskTyped(task[t], clock) /\ task[t].pc = "memput"
  BY Zenon DEF Inv, PublishedSound, StoresSound, MapsInv, MemPut
<1>2. task[t].data \in Nat \ {0} /\ b \in Blocks
  BY <1>1, Zenon DEF TaskOK, Partial
<1>3. task[t].data \in 1 .. MaxVersion
  BY <1>1, <1>2, DiskAssumption DEF TaskTyped, Tags
<1>4. PICK r : r = [data |-> task[t].data, tag |-> task[t].tag]
  BY Zenon
<1>5. r \in [data : 1 .. MaxVersion, tag : Tags]
  BY <1>1, <1>3, <1>4, Zenon DEF TaskTyped
<1>6. in_mem_storage' = [c \in DOMAIN in_mem_storage \cup {b} |-> IF c = b THEN r
                                                                  ELSE in_mem_storage[c]]
  BY <1>4, Zenon DEF MemPut, With
<1>7. LayerTyped(in_mem_storage)
  BY Zenon DEF MapsInv
<1> QED
  BY <1>2, <1>5, <1>6, <1>7, Zenon DEF LayerTyped

\* Every step of a reader preserves the invariant.
LEMMA ReaderMapsInv ==
  ASSUME MapsInv, Inv, NEW t \in Threads, ReaderStep(t)
  PROVE  MapsInv'
<1>1. UNCHANGED <<config, clock, remote, admin, orphans>>
  BY Zenon DEF ReaderStep, MemLookup, MemDrop, CopyMemHit, OpenLocal, Validate, Discard, CopyHit,
       ReadRemote, StoreFull, EvictLru, Unlink, CreateTemp, WriteContent, SetTag, Rename, Touch,
       Upsert, MemPut
<1>2. \A u \in Threads : TaskTyped(task'[u], clock')
  BY <1>1, ReaderTasks, MovesTyped, Zenon
<1>3. FilesTyped(files', clock')
  BY <1>1, ReaderFiles, Zenon
<1>4. LayerTyped(in_mem_storage')
  <2>1. CASE MemPut(t)
    BY <2>1, MemPutLayer, Zenon
  <2>2. CASE ~MemPut(t)
    <3>1. UNCHANGED in_mem_storage \/ \E S : in_mem_storage' = Drop(in_mem_storage, S)
      BY <2>2, Zenon DEF ReaderStep, MemLookup, MemDrop, CopyMemHit, OpenLocal, Validate, Discard,
           CopyHit, ReadRemote, StoreFull, EvictLru, Unlink, CreateTemp, WriteContent, SetTag,
           Rename, Touch, Upsert
    <3> QED
      BY <3>1, LayerDrops, Zenon DEF MapsInv
  <2> QED
    BY <2>1, <2>2, Zenon
<1>5. Inverses(cache_file_access_timestamp_map', cache_filepath_to_access_timestamp')
  <2>1. CASE EvictLru(t)
    BY <2>1, EvictOldest, Zenon
  <2>2. CASE Upsert(t)
    BY <2>2, UpsertMaps, Zenon
  <2>3. CASE ~EvictLru(t) /\ ~Upsert(t)
    <3>1. UNCHANGED maps
      BY <2>3, Zenon DEF ReaderStep, MemLookup, MemDrop, CopyMemHit, OpenLocal, Validate, Discard,
           CopyHit, ReadRemote, StoreFull, Unlink, CreateTemp, WriteContent, SetTag, Rename,
           Touch, MemPut
    <3> QED
      BY <3>1, Zenon DEF maps, MapsInv
  <2> QED
    BY <2>1, <2>2, <2>3, Zenon
<1> QED
  BY <1>1, <1>2, <1>3, <1>4, <1>5, Zenon DEF MapsInv

\* ReadAndCache starts a chunk with a tag the remote file has had, or with none.
LEMMA StartMapsInv ==
  ASSUME MapsInv, Inv, NEW t \in Threads, NEW b \in Blocks, Start(t, b)
  PROVE  MapsInv'
<1>1. PICK tag \in IF config.validation THEN 1 .. remote[FileOf(b)] ELSE {NoTag} :
        task' = [task EXCEPT ![t] = [pc |-> IF config.mem_cache THEN "mem" ELSE "open",
                                     block |-> b, tag |-> tag, data |-> NoTag,
                                     path |-> NoPath, stamp |-> 0]]
  BY Zenon DEF Start
<1>2. PICK r : r = [pc |-> IF config.mem_cache THEN "mem" ELSE "open", block |-> b, tag |-> tag,
                    data |-> NoTag, path |-> NoPath, stamp |-> 0]
  BY Zenon
<1>3. tag \in Tags
  <2>1. FileOf(b) \in RemoteFiles
    BY Zenon DEF RemoteFiles
  <2>2. remote[FileOf(b)] \in 1 .. MaxVersion
    BY <2>1, Zenon DEF MapsInv
  <2>3. 1 .. remote[FileOf(b)] \subseteq Tags /\ NoTag \in Tags
    BY <2>2, DiskAssumption DEF Tags, NoTag
  <2> QED
    BY <1>1, <2>3, Zenon
<1>4. 0 \in Tags /\ 0 \in 0 .. clock
  BY DiskAssumption DEF MapsInv, Tags
<1>5. TaskTyped(r, clock)
  BY <1>2, <1>3, <1>4, Zenon DEF TaskTyped, NoTag
<1>6. task = [u \in Threads |-> task[u]]
  BY Zenon DEF Inv, PublishedSound, StoresSound
<1>7. task' = [u \in Threads |-> IF u = t THEN r ELSE task[u]]
  BY <1>1, <1>2, <1>6, Zenon
<1>8. \A u \in Threads : TaskTyped(task'[u], clock)
  BY <1>5, <1>7, Zenon DEF MapsInv
<1>9. UNCHANGED <<config, clock, remote, files, maps, in_mem_storage, admin, orphans>>
  BY Zenon DEF Start
<1> QED
  BY <1>8, <1>9, Zenon DEF MapsInv, maps

\* What the clear functions and the listing do to the connection's own state.
LEMMA AdminTypes ==
  ASSUME MapsInv, config \in Configs, AdminNext
  PROVE  AdminTyped(admin')
<1>1. AdminTyped(admin)
  BY Zenon DEF MapsInv
<1>2. AdminTyped(IdleAdmin)
  BY Zenon DEF AdminTyped, IdleAdmin
<1>3. ASSUME NEW where \in {"maps", "mkdir", "memory", "unlink", "info"}, NEW todo \in SUBSET Paths
      PROVE  /\ AdminTyped([admin EXCEPT !.pc = where])
             /\ AdminTyped([admin EXCEPT !.todo = todo])
             /\ AdminTyped([admin EXCEPT !.pc = where, !.todo = todo])
  BY <1>1, <1>3, Zenon DEF AdminTyped
<1>4. OnDisk \subseteq Paths
  BY Zenon DEF MapsInv, FilesTyped, OnDisk
<1>5. CASE ClearAll
  BY <1>3, <1>5, Zenon DEF ClearAll, AdminStep
<1>6. CASE MakeDirectory
  BY <1>3, <1>6, Zenon DEF MakeDirectory, AdminStep
<1>7. CASE ClearMaps
  BY <1>2, <1>3, <1>7, Zenon DEF ClearMaps
<1>8. CASE ClearMemory \/ ClearFileMemory \/ EntryInfo
  BY <1>2, <1>8, Zenon DEF ClearMemory, ClearFileMemory, EntryInfo
<1>9. ASSUME NEW b \in config.blocks, ClearFile(FileOf(b)) PROVE AdminTyped(admin')
  <2>1. FileOf(b) \in RemoteFiles
    BY BlocksInUse, Zenon DEF RemoteFiles
  <2>2. PICK todo \in SUBSET Paths :
          admin' = [pc |-> "untrack", file |-> FileOf(b), todo |-> todo]
    BY <1>4, <1>9, Zenon DEF ClearFile
  <2> QED
    BY <2>1, <2>2, Zenon DEF AdminTyped
<1>10. ASSUME NEW b \in config.blocks, ListEntry(b) PROVE AdminTyped(admin')
  <2>1. {b} \in SUBSET Paths
    BY <1>4, <1>10, Zenon DEF ListEntry
  <2> QED
    BY <1>3, <1>10, <2>1, Zenon DEF ListEntry
<1>11. CASE Untrack
  BY <1>3, <1>11, Zenon DEF Untrack, AdminStep
<1>12. ASSUME NEW p \in Paths, UnlinkOne(p) PROVE AdminTyped(admin')
  <2>1. admin.todo \ {p} \in SUBSET Paths
    BY <1>1, Zenon DEF AdminTyped
  <2> QED
    BY <1>3, <1>12, <2>1, Zenon DEF UnlinkOne
<1> QED
  BY <1>5, <1>6, <1>7, <1>8, <1>9, <1>10, <1>11, <1>12, Zenon DEF AdminNext

\* ClearCache and GetCacheEntriesInfo preserve the invariant: what ClearCache(fname)
\* takes from one map it takes from the other.
LEMMA AdminMapsInv ==
  ASSUME MapsInv, config \in Configs, AdminNext
  PROVE  MapsInv'
<1> DEFINE map == cache_file_access_timestamp_map
           reverse == cache_filepath_to_access_timestamp
<1>1. UNCHANGED <<config, clock, remote, task, orphans>>
  BY Zenon DEF AdminNext, ClearAll, MakeDirectory, ClearMaps, ClearMemory, ClearFile, ListEntry,
       Untrack, UnlinkOne, ClearFileMemory, EntryInfo
<1>2. FilesTyped(files', clock')
  <2>1. UNCHANGED files \/ files' = <<>> \/ \E S : files' = Drop(files, S)
    BY Zenon DEF AdminNext, ClearAll, MakeDirectory, ClearMaps, ClearMemory, ClearFile, ListEntry,
         Untrack, UnlinkOne, ClearFileMemory, EntryInfo, Removed
  <2>2. FilesTyped(files, clock)
    BY Zenon DEF MapsInv
  <2>3. FilesTyped(<<>>, clock)
    BY EmptyTyped, Zenon
  <2>4. \A S : FilesTyped(Drop(files, S), clock)
    BY <2>2, DropTyped, Zenon
  <2> QED
    BY <1>1, <2>1, <2>2, <2>3, <2>4, Zenon
<1>3. LayerTyped(in_mem_storage')
  <2>1. \/ UNCHANGED in_mem_storage \/ in_mem_storage' = <<>>
        \/ \E S : in_mem_storage' = Drop(in_mem_storage, S)
    BY Zenon DEF AdminNext, ClearAll, MakeDirectory, ClearMaps, ClearMemory, ClearFile, ListEntry,
         Untrack, UnlinkOne, ClearFileMemory, EntryInfo
  <2>2. LayerTyped(in_mem_storage)
    BY Zenon DEF MapsInv
  <2> QED
    BY <2>1, <2>2, LayerDrops, EmptyLayer, Zenon
<1>4. Inverses(map', reverse')
  <2>1. \/ UNCHANGED maps \/ (map' = <<>> /\ reverse' = <<>>)
        \/ \E S : /\ map' = Drop(map, {reverse[p] : p \in S \cap DOMAIN reverse})
                  /\ reverse' = Drop(reverse, S)
    BY Zenon DEF AdminNext, ClearAll, MakeDirectory, ClearMaps, ClearMemory, ClearFile, ListEntry,
         Untrack, UnlinkOne, ClearFileMemory, EntryInfo
  <2>2. Inverses(map, reverse)
    BY Zenon DEF MapsInv
  <2>3. CASE UNCHANGED maps
    BY <2>2, <2>3, Zenon DEF maps
  <2> QED
    BY <2>1, <2>2, <2>3, DropInverses, EmptyInverses, Zenon
<1> QED
  BY <1>1, <1>2, <1>3, <1>4, AdminTypes, Zenon DEF MapsInv

\* A crash forgets the maps and leaves files behind.
LEMMA CrashMapsInv ==
  ASSUME MapsInv, Crash
  PROVE  MapsInv'
<1>1. FilesTyped(files', clock)
  BY DropTyped, Zenon DEF MapsInv, Crash, Removed
<1>2. 0 \in Tags /\ 0 \in 0 .. clock
  BY DiskAssumption DEF MapsInv, Tags
<1>3. \A t \in Threads : TaskTyped(task'[t], clock)
  BY <1>2, Zenon DEF Crash, TaskTyped, IdleTask, NoTag
<1>4. AdminTyped(admin')
  BY Zenon DEF Crash, AdminTyped, IdleAdmin
<1>5. LayerTyped(in_mem_storage')
  BY EmptyLayer, Zenon DEF Crash
<1>6. Inverses(cache_file_access_timestamp_map', cache_filepath_to_access_timestamp')
  BY EmptyInverses, Zenon DEF Crash
<1>7. orphans' \subseteq TempNames
  BY Zenon DEF MapsInv, Crash
<1> QED
  BY <1>1, <1>3, <1>4, <1>5, <1>6, <1>7, Zenon DEF MapsInv, Crash

\* Time passes, remote files change, the in-memory layer drops blocks and another
\* process cleans up.
LEMMA EnvironmentMapsInv ==
  ASSUME MapsInv, config \in Configs,
         \/ CleanupDeadTempFiles \/ Tick \/ UNCHANGED vars
         \/ \E b \in config.blocks : MemEvict(b) \/ RemoteUpdate(FileOf(b))
  PROVE  MapsInv'
<1>1. CASE CleanupDeadTempFiles
  <2>1. FilesTyped(files', clock)
    BY <1>1, DropTyped, Zenon DEF MapsInv, CleanupDeadTempFiles, Removed
  <2> QED
    BY <1>1, <2>1, Zenon DEF MapsInv, CleanupDeadTempFiles, maps
<1>2. CASE Tick
  <2>1. clock' \in 0 .. MaxClock /\ 0 .. clock \subseteq 0 .. clock'
    <3>1. config.ticks \in 0 .. MaxClock /\ clock \in 0 .. MaxClock
      BY DiskAssumption, Zenon DEF MapsInv
    <3> QED
      BY <1>2, <3>1, DiskAssumption DEF Tick
  <2>2. FilesTyped(files, clock')
    <3>1. [block : Blocks, data : Tags, tag : Tags, mtime : 0 .. clock]
          \subseteq [block : Blocks, data : Tags, tag : Tags, mtime : 0 .. clock']
      BY <2>1, Zenon
    <3> QED
      BY <3>1, Zenon DEF MapsInv, FilesTyped
  <2>3. \A t \in Threads : TaskTyped(task[t], clock')
    BY <2>1, Zenon DEF MapsInv, TaskTyped
  <2> QED
    BY <1>2, <2>1, <2>2, <2>3, Zenon DEF MapsInv, Tick, maps
<1>3. CASE UNCHANGED vars
  BY <1>3, Zenon DEF MapsInv, vars, maps
<1>4. ASSUME NEW b, MemEvict(b) PROVE MapsInv'
  <2>1. LayerTyped(in_mem_storage')
    BY <1>4, LayerDrops, Zenon DEF MapsInv, MemEvict
  <2> QED
    BY <1>4, <2>1, Zenon DEF MapsInv, MemEvict, maps
<1>5. ASSUME NEW b \in config.blocks, RemoteUpdate(FileOf(b)) PROVE MapsInv'
  <2>1. FileOf(b) \in RemoteFiles
    BY BlocksInUse, Zenon DEF RemoteFiles
  <2>2. config.versions \in 1 .. MaxVersion /\ remote \in [RemoteFiles -> 1 .. MaxVersion]
    BY DiskAssumption, Zenon DEF MapsInv
  <2>3. remote' \in [RemoteFiles -> 1 .. MaxVersion]
    BY <1>5, <2>1, <2>2, DiskAssumption DEF RemoteUpdate
  <2> QED
    BY <1>5, <2>3, Zenon DEF MapsInv, RemoteUpdate, maps
<1> QED
  BY <1>1, <1>2, <1>3, <1>4, <1>5, Zenon

\* The empty directory and the empty maps.
LEMMA InitMapsInv == Init => MapsInv
<1> SUFFICES ASSUME Init PROVE MapsInv
  BY Zenon
<1>1. clock \in 0 .. MaxClock /\ 0 \in Tags /\ 0 \in 0 .. clock /\ 1 \in 1 .. MaxVersion
  BY DiskAssumption DEF Init, Tags
<1>2. remote \in [RemoteFiles -> 1 .. MaxVersion]
  BY <1>1, Zenon DEF Init
<1>3. \A t \in Threads : TaskTyped(task[t], clock)
  BY <1>1, Zenon DEF Init, TaskTyped, IdleTask, NoTag
<1>4. AdminTyped(admin)
  BY Zenon DEF Init, AdminTyped, IdleAdmin
<1> QED
  BY <1>1, <1>2, <1>3, <1>4, EmptyTyped, EmptyLayer, EmptyInverses, Zenon DEF Init, MapsInv

\* Every step preserves the invariant.
LEMMA NextMapsInv ==
  ASSUME MapsInv, Inv, config \in Configs, [Next]_vars
  PROVE  MapsInv'
<1>1. ASSUME NEW t \in Threads, ReaderStep(t) PROVE MapsInv'
  BY <1>1, ReaderMapsInv, Zenon
<1>2. ASSUME NEW t \in Threads, NEW b \in config.blocks, Start(t, b) PROVE MapsInv'
  BY <1>2, BlocksInUse, StartMapsInv, Zenon
<1>3. CASE AdminNext
  BY <1>3, AdminMapsInv, Zenon
<1>4. CASE Crash
  BY <1>4, CrashMapsInv, Zenon
<1>5. CASE \/ CleanupDeadTempFiles \/ Tick \/ UNCHANGED vars
           \/ \E b \in config.blocks : MemEvict(b) \/ RemoteUpdate(FileOf(b))
  BY <1>5, EnvironmentMapsInv, Zenon
<1> QED
  BY <1>1, <1>2, <1>3, <1>4, <1>5, Zenon DEF Next

\* "Each filepath appears exactly once in both maps" (disk_cache_reader.hpp): after
\* any accesses, evictions, clears, crashes and reloads of the maps from the
\* directory, by any number of threads.
THEOREM MapsInverseAlways == Spec => []MapsInverse
<1>1. MapsInv /\ (Inv /\ config \in Configs) /\ [Next]_vars => MapsInv'
  BY NextMapsInv, Zenon
<1> QED
  BY <1>1, InitMapsInv, MapsInvSuffices, StoreInvariant, PTL DEF Spec
==============================================================================
