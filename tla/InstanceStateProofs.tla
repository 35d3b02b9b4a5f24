------------------------ MODULE InstanceStateProofs ------------------------
(***************************************************************************)
(* Proofs about InstanceState, for any number of threads, file systems,    *)
(* directories and scenarios.  The three properties are inductive together *)
(* (Inv): the reader that matches the settings is one that was made, so a  *)
(* clear of the readers that were made reaches every reader that caches;   *)
(* and a file system is in the registry before it is cached, so a clear of *)
(* the registry reaches every file system that is.                         *)
(***************************************************************************)
EXTENDS InstanceState, FiniteSetTheorems, TLAPS

Inv == ReaderMatchesConfig /\ ClearedEverywhere /\ StaleOnlyAfterSet

\* The directories of a list are directories.
LEMMA AlwaysRange == ASSUME NEW s \in Seq(Directories) PROVE Range(s) \subseteq Directories
  BY DEF Range

\* The config query has a number of columns.
LEMMA ColumnsType == TypeOK => Columns(config) \in Nat
<1> SUFFICES ASSUME TypeOK PROVE Columns(config) \in Nat
  OBVIOUS
<1>1. config.enabled \subseteq {"metadata", "file_handle", "glob"}
  BY DEF TypeOK, Settings
<1>2. IsFiniteSet({"metadata", "file_handle", "glob"})
  <2>1. IsFiniteSet({"metadata"})
    BY FS_Singleton
  <2>2. IsFiniteSet({"metadata"} \cup {"file_handle"})
    BY <2>1, FS_AddElement
  <2>3. IsFiniteSet(({"metadata"} \cup {"file_handle"}) \cup {"glob"})
    BY <2>2, FS_AddElement
  <2>4. ({"metadata"} \cup {"file_handle"}) \cup {"glob"} = {"metadata", "file_handle", "glob"}
    OBVIOUS
  <2> QED
    BY <2>3, <2>4
<1>3. Cardinality(config.enabled) \in Nat
  BY <1>1, <1>2, FS_Subset, FS_CardinalityType
<1> QED
  BY <1>3 DEF Columns

\* After the extension is loaded a file system is plain or cached, never both,
\* and the ones it wrapped are those it knows.
LEMMA LoadedVfsType ==
  ASSUME NEW v \in LoadedVfs
  PROVE  /\ v \subseteq FileSystems \X {"plain", "cached"}
         /\ \A f \in FileSystems : /\ <<f, "plain">> \in v => <<f, "cached">> \notin v
                                   /\ <<f, "cached">> \in v => f \in Loaded
<1>1. PICK w \in {FileSystems \X {"plain"}, (FileSystems \ Loaded) \X {"plain"}} :
         v = ExtractOrCreate(EnsureHttpfsExtensionLoaded(w), Loaded)
  BY DEF LoadedVfs
<1>2. w \subseteq FileSystems \X {"plain"}
  BY <1>1
<1>3. EnsureHttpfsExtensionLoaded(w) \subseteq FileSystems \X {"plain"}
  BY <1>2, InstanceAssumption DEF EnsureHttpfsExtensionLoaded
<1> QED
  BY <1>1, <1>3, InstanceAssumption DEF ExtractOrCreate

\* LoadInternal establishes the invariant.
LEMMA InitInv == Init => Inv
<1> SUFFICES ASSUME Init PROVE Inv
  OBVIOUS
<1>1. TypeOK
  <2>1. <<DefaultDir>> \in Seq(Directories) \ {<< >>}
    BY InstanceAssumption
  <2>2. scenario \in Scenarios /\ clears \in 0 .. scenario.clears
    BY InstanceAssumption DEF Init
  <2>3. config.counts \in [Counts -> 0 .. 1] /\ \A n \in Counts \ {"min_disk_bytes"} : config.counts[n] > 0
    BY DEF Init, DefaultConfig
  <2>4. config.choices \in [Choices -> {"listed"}]
    BY DEF Init, DefaultConfig
  <2>5. config \in Settings
    BY <2>1, <2>3, <2>4 DEF Init, DefaultConfig, Settings, CacheTypes, ProfileTypes
  <2>6. readers \in [made : SUBSET CacheTypes, current : CacheTypes]
        /\ readers.current \in readers.made /\ "on_disk" \in readers.made
    BY DEF Init, CacheTypes
  <2>7. IdleOp \in Ops /\ op \in [Threads -> Ops]
    BY DEF Init, IdleOp, Ops
  <2>8. vfs \subseteq FileSystems \X {"plain", "cached"}
    BY LoadedVfsType DEF Init
  <2> QED
    BY <2>2, <2>3, <2>5, <2>6, <2>7, <2>8 DEF TypeOK, Init, IdleAdmin, Admins
<1>2. WrappedRegistered
  BY InstanceAssumption, LoadedVfsType DEF Init, WrappedRegistered, IdleAdmin
<1>3. ReaderMatchesConfig
  BY <1>1, <1>2 DEF ReaderMatchesConfig, Init, DefaultConfig
<1>4. ClearedEverywhere
  BY NoneAssumption DEF Init, ClearedEverywhere, ClearProgress, IdleAdmin, IdleOp, CacheTypes
<1>5. StaleOnlyAfterSet
  BY DEF Init, StaleOnlyAfterSet, TakenCurrent, IdleOp, Connections
<1> QED
  BY <1>3, <1>4, <1>5 DEF Inv

---------------------------------------------------------------------------
(* The threads of the query. *)

\* What a step of the query that keeps the settings, the registry and the
\* clear in progress must establish of the caches.
LEMMA CachesStep ==
  ASSUME Inv, UNCHANGED shared,
         readers.made \subseteq readers'.made,
         in_mem' # None => "in_mem" \in readers'.made,
         \A u \in Threads : op'[u].reader = "in_mem" => "in_mem" \in readers'.made,
         in_mem' \in {in_mem, clears},
         \A d \in Directories : disk'[d] \in {disk[d], clears},
         \A f \in FileSystems : metadata'[f] \in {metadata[f], clears}
  PROVE  ClearedEverywhere' /\ WrappedRegistered'
<1>1. clears \in Nat /\ clears >= clears /\ clears' = clears
  BY InstanceAssumption DEF Inv, ReaderMatchesConfig, TypeOK, shared
<1>2. Range(config.dirs) \subseteq Directories /\ config' = config
  BY AlwaysRange DEF Inv, ReaderMatchesConfig, TypeOK, Settings, shared
<1>3. registry \subseteq FileSystems /\ registry' = registry /\ vfs' = vfs /\ admin' = admin
  BY DEF Inv, ReaderMatchesConfig, WrappedRegistered, shared
<1>4. /\ Fresh(in_mem) => Fresh(in_mem)'
      /\ \A d \in Directories : Fresh(disk[d]) => Fresh(disk[d])'
      /\ \A f \in FileSystems : Fresh(metadata[f]) => Fresh(metadata[f])'
  BY <1>1 DEF Fresh
<1>5. ReadersCleared => ReadersCleared'
  BY <1>2, <1>4 DEF ReadersCleared
<1>6. ClearProgress'
  BY <1>3, <1>4, <1>5 DEF Inv, ClearedEverywhere, ClearProgress
<1>7. WrappedRegistered'
  BY <1>3 DEF Inv, ReaderMatchesConfig, WrappedRegistered
<1>8. ClearedEverywhere'
  BY <1>3, <1>6, <1>7 DEF ClearedEverywhere, ClearProgress, ReadersCleared, WrappedRegistered
<1> QED
  BY <1>7, <1>8

\* A step of one thread that changes no collector and no setting.
LEMMA ThreadStep ==
  ASSUME Inv, NEW t \in Threads, NEW r \in Ops,
         op' = [op EXCEPT ![t] = r],
         UNCHANGED <<config, collectors>>,
         r.ref # None => r.fs # None /\ (~r.ref.alive => r.ref.changed),
         r.at = "reading" => r.fs # None,
         r.fs # None => op[t].fs # None,
         r.at = "bound" /\ ~r.changed => r.bound = Columns(config),
         r.at = "filled" /\ ~r.changed => r.row = r.bound
  PROVE  StaleOnlyAfterSet' /\ op' \in [Threads -> Ops]
<1>1. op \in [Threads -> Ops]
  BY DEF Inv, ReaderMatchesConfig, TypeOK
<1>2. op'[t] = r /\ \A u \in Threads : u # t => op'[u] = op[u]
  BY <1>1
<1>3. TakenCurrent'
  BY <1>2 DEF Inv, StaleOnlyAfterSet, TakenCurrent
<1> QED
  BY <1>1, <1>2, <1>3 DEF Inv, StaleOnlyAfterSet

\* A step that changes what one thread is doing and nothing else.
LEMMA OpStep ==
  ASSUME Inv, NEW t \in Threads, NEW r \in Ops,
         op' = [op EXCEPT ![t] = r],
         UNCHANGED <<shared, readers, in_mem, disk, metadata, collectors>>,
         r.reader = "in_mem" => "in_mem" \in readers.made,
         r.ref # None => r.fs # None /\ (~r.ref.alive => r.ref.changed),
         r.at = "reading" => r.fs # None,
         r.fs # None => op[t].fs # None,
         r.at = "bound" /\ ~r.changed => r.bound = Columns(config),
         r.at = "filled" /\ ~r.changed => r.row = r.bound
  PROVE  Inv'
<1>1. UNCHANGED <<config, scenario, exclusion, clears, admin, vfs>>
  BY DEF shared
<1>2. StaleOnlyAfterSet' /\ op' \in [Threads -> Ops]
  BY <1>1, ThreadStep
<1>3. \A u \in Threads : op'[u].reader = "in_mem" => "in_mem" \in readers.made
  BY DEF Inv, ReaderMatchesConfig, TypeOK, ClearedEverywhere, ClearProgress
<1>4. in_mem # None => "in_mem" \in readers.made
  BY DEF Inv, ClearedEverywhere, ClearProgress
<1>5. ClearedEverywhere' /\ WrappedRegistered'
  BY <1>3, <1>4, CachesStep
<1>6. TypeOK'
  BY <1>1, <1>2 DEF Inv, ReaderMatchesConfig, TypeOK
<1>7. ReaderMatchesConfig'
  BY <1>1, <1>5, <1>6 DEF Inv, ReaderMatchesConfig
<1> QED
  BY <1>2, <1>5, <1>7 DEF Inv

\* Close forgets the file.
LEMMA CloseStep ==
  ASSUME Inv, NEW t \in Threads, Close(t)
  PROVE  Inv'
<1>1. PICK r : r = IdleOp /\ op' = [op EXCEPT ![t] = r]
  BY DEF Close
<1>2. UNCHANGED <<shared, readers, in_mem, disk, metadata, collectors>>
  BY DEF Close
<1>3. /\ r.ref = None /\ r.fs = None /\ r.at = "idle" /\ r.reader # "in_mem"
  BY <1>1, NoneAssumption DEF IdleOp, CacheTypes
<1>4. r \in Ops
  BY <1>1 DEF IdleOp, Ops
<1> QED
  BY <1>1, <1>2, <1>3, <1>4, OpStep

\* A read takes the reader in use, which was made, and a live reference.
LEMMA ReadStep ==
  ASSUME Inv, NEW t \in Threads, Read(t)
  PROVE  Inv'
<1> DEFINE excluded == [op[t] EXCEPT !.at = "reading"]
           cached == [op[t] EXCEPT !.at = "reading", !.reader = readers.current,
                                   !.ref = [alive |-> TRUE, changed |-> FALSE]]
<1>0. op[t] \in Ops
  BY DEF Inv, ReaderMatchesConfig, TypeOK
<1>1. UNCHANGED <<shared, readers, in_mem, disk, metadata, collectors>>
  BY DEF Read
<1>2. PICK r \in {excluded, cached} : op' = [op EXCEPT ![t] = r]
  BY DEF Read
<1>3. readers.current \in readers.made /\ readers.current \in CacheTypes
  BY DEF Inv, ReaderMatchesConfig, TypeOK
<1>4. /\ r.fs = op[t].fs /\ op[t].fs # None /\ r.at = "reading"
      /\ r.ref = op[t].ref \/ r.ref.alive
      /\ r.reader \in {op[t].reader, readers.current}
      /\ r \in Ops
  <2>1. CASE r = excluded
    BY <1>0, <2>1, Zenon DEF Read, Ops
  <2>2. CASE r = cached
    BY <1>0, <1>3, <2>2, Zenon DEF Read, Ops
  <2> QED
    BY <1>2, <2>1, <2>2
<1>5. r.reader = "in_mem" => "in_mem" \in readers.made
  BY <1>3, <1>4 DEF Inv, ClearedEverywhere, ClearProgress
<1>6. r.ref # None => r.fs # None /\ (~r.ref.alive => r.ref.changed)
  BY <1>4 DEF Inv, StaleOnlyAfterSet
<1>7. r.at # "bound" /\ r.at # "filled" /\ (r.at = "reading" => r.fs # None)
  BY <1>4
<1> HIDE DEF excluded, cached
<1> QED
  BY <1>1, <1>2, <1>4, <1>5, <1>6, <1>7, OpStep

\* The columns of the config query are bound from the settings ...
LEMMA BindStep ==
  ASSUME Inv, NEW t \in Threads, BindConfigQuery(t)
  PROVE  Inv'
<1>0. op[t] \in Ops
  BY DEF Inv, ReaderMatchesConfig, TypeOK
<1>1. UNCHANGED <<shared, readers, in_mem, disk, metadata, collectors>>
  BY DEF BindConfigQuery
<1>2. PICK r : r = [op[t] EXCEPT !.at = "bound", !.bound = Columns(config)]
               /\ op' = [op EXCEPT ![t] = r]
  BY DEF BindConfigQuery
<1>3. /\ r.fs = op[t].fs /\ r.ref = op[t].ref /\ r.reader = op[t].reader
      /\ r.at = "bound" /\ r.bound = Columns(config)
  BY <1>0, <1>2, Zenon DEF Ops
<1>4. r.reader = "in_mem" => "in_mem" \in readers.made
  BY <1>3 DEF Inv, ClearedEverywhere, ClearProgress
<1>5. r.ref # None => r.fs # None /\ (~r.ref.alive => r.ref.changed)
  BY <1>3 DEF Inv, StaleOnlyAfterSet, TakenCurrent
<1>6. Columns(config) \in Nat /\ r \in Ops
  <2>1. Columns(config) \in Nat
    BY ColumnsType DEF Inv, ReaderMatchesConfig
  <2> QED
    BY <1>0, <1>2, <2>1, Zenon DEF Ops
<1> QED
  BY <1>1, <1>2, <1>3, <1>4, <1>5, <1>6, OpStep

\* ... and its row is filled from them: with as many if none has changed.
LEMMA FillStep ==
  ASSUME Inv, NEW t \in Threads, FillConfigRow(t)
  PROVE  Inv'
<1>0. op[t] \in Ops
  BY DEF Inv, ReaderMatchesConfig, TypeOK
<1>1. UNCHANGED <<shared, readers, in_mem, disk, metadata, collectors>>
  BY DEF FillConfigRow
<1>2. PICK r : r = [op[t] EXCEPT !.at = "filled", !.row = Columns(config)]
               /\ op' = [op EXCEPT ![t] = r]
  BY DEF FillConfigRow
<1>3. /\ r.fs = op[t].fs /\ r.ref = op[t].ref /\ r.reader = op[t].reader
      /\ r.at = "filled" /\ r.row = Columns(config)
      /\ r.bound = op[t].bound /\ r.changed = op[t].changed
  BY <1>0, <1>2, Zenon DEF Ops
<1>4. r.reader = "in_mem" => "in_mem" \in readers.made
  BY <1>3 DEF Inv, ClearedEverywhere, ClearProgress
<1>5. r.ref # None => r.fs # None /\ (~r.ref.alive => r.ref.changed)
  BY <1>3 DEF Inv, StaleOnlyAfterSet, TakenCurrent
<1>6. ~r.changed => r.row = r.bound
  BY <1>3 DEF Inv, StaleOnlyAfterSet, TakenCurrent, FillConfigRow
<1>7. Columns(config) \in Nat /\ r \in Ops
  <2>1. Columns(config) \in Nat
    BY ColumnsType DEF Inv, ReaderMatchesConfig
  <2> QED
    BY <1>0, <1>2, <2>1, Zenon DEF Ops
<1> QED
  BY <1>1, <1>2, <1>3, <1>4, <1>5, <1>6, <1>7, OpStep

\* The configuration query ends, and its thread is idle again.
LEMMA ConfigQueryEndStep ==
  ASSUME Inv, NEW t \in Threads, ConfigQueryEnd(t)
  PROVE  Inv'
<1>0. op[t] \in Ops
  BY DEF Inv, ReaderMatchesConfig, TypeOK
<1>1. UNCHANGED <<shared, readers, in_mem, disk, metadata, collectors>>
  BY DEF ConfigQueryEnd
<1>2. PICK r : r = [IdleOp EXCEPT !.fs = op[t].fs] /\ op' = [op EXCEPT ![t] = r]
  BY DEF ConfigQueryEnd
<1>3. r.fs = op[t].fs /\ r.ref = None /\ r.reader # "in_mem" /\ r.at = "idle"
  BY <1>2, NoneAssumption DEF IdleOp, CacheTypes
<1>4. r \in Ops
  BY <1>0, <1>2 DEF IdleOp, Ops
<1> QED
  BY <1>1, <1>2, <1>3, <1>4, OpStep

\* What a step of the query that keeps the readers and the caches must
\* establish: it may replace the collector and change all the threads.
LEMMA CollectorStep ==
  ASSUME Inv, UNCHANGED <<shared, readers, in_mem, disk, metadata>>,
         op' \in [Threads -> Ops],
         collectors' \in [Connections -> {None} \cup Collectors],
         StaleOnlyAfterSet',
         \A u \in Threads : op'[u].reader = op[u].reader
  PROVE  Inv'
<1>1. UNCHANGED <<config, scenario, exclusion, clears, admin, vfs>>
  BY DEF shared
<1>2. /\ in_mem # None => "in_mem" \in readers.made
      /\ \A u \in Threads : op'[u].reader = "in_mem" => "in_mem" \in readers.made
  BY DEF Inv, ClearedEverywhere, ClearProgress
<1>3. ClearedEverywhere' /\ WrappedRegistered'
  BY <1>2, CachesStep
<1>4. TypeOK'
  BY <1>1 DEF Inv, ReaderMatchesConfig, TypeOK
<1> QED
  BY <1>1, <1>3, <1>4 DEF Inv, ReaderMatchesConfig

\* A new collector is a collector.
LEMMA CollectorType ==
  ASSUME NEW type \in ProfileTypes
  PROVE  /\ Collector(type) \in Collectors /\ Collector(type) # None
         /\ Collector(type).type = type
<1>1. Collector(type) \in Collectors
  BY DEF Collector, Collectors
<1> QED
  BY <1>1, NoneAssumption DEF Collector

\* An open replaces the collector of the connection only if the profile type
\* was set since, so the references it leaves dangling are marked.
LEMMA OpenFileStep ==
  ASSUME Inv, NEW t \in Threads, OpenFile(t)
  PROVE  Inv'
<1> DEFINE type == config.profile_type
           ops == IF Replaces("query", type) THEN Orphaned(op) ELSE op
<1>1. /\ UNCHANGED <<shared, readers, in_mem, disk, metadata>>
      /\ config' = config /\ type \in ProfileTypes
  BY DEF OpenFile, shared
<1>2. /\ op \in [Threads -> Ops] /\ collectors \in [Connections -> {None} \cup Collectors]
      /\ vfs \subseteq FileSystems \X {"plain", "cached"}
  BY DEF Inv, ReaderMatchesConfig, TypeOK
<1>3. PICK f \in FileSystems : op' = [ops EXCEPT ![t].at = "opening", ![t].fs = f]
  BY <1>2 DEF OpenFile
<1>4. \A u \in Threads : /\ op[u].ref # None => collectors["query"] # None
                         /\ op[u].fs # None => collectors["query"] # None
  BY DEF Inv, StaleOnlyAfterSet, TakenCurrent
<1>5. /\ collectors' \in [Connections -> {None} \cup Collectors]
      /\ collectors'["query"] # None /\ collectors'["query"].type = type
  <2>1. Collector(type) \in Collectors /\ Collector(type) # None /\ Collector(type).type = type
    BY <1>1, CollectorType
  <2>2. CASE Replaces("query", type)
    BY <1>2, <2>1, <2>2 DEF OpenFile, SetProfileCollector, Connections
  <2>3. CASE ~Replaces("query", type)
    BY <1>1, <1>2, <2>3 DEF OpenFile, SetProfileCollector, Replaces
  <2> QED
    BY <2>2, <2>3
<1>6. ASSUME NEW u \in Threads
      PROVE  /\ ops[u] \in Ops /\ ops[u].at = op[u].at /\ ops[u].fs = op[u].fs
             /\ ops[u].reader = op[u].reader /\ ops[u].bound = op[u].bound
             /\ ops[u].row = op[u].row /\ ops[u].changed = op[u].changed
             /\ ops[u].ref # None => /\ op[u].ref # None
                                     /\ ~ops[u].ref.alive => ops[u].ref.changed
  <2>1. op[u] \in Ops
    BY <1>2
  <2>2. CASE Replaces("query", type) /\ op[u].ref # None
    <3>1. collectors["query"].changed = TRUE
      BY <1>2, <1>4, <2>2 DEF Replaces, Collectors, Connections, Inv, StaleOnlyAfterSet,
                              TakenCurrent
    <3>2. PICK ref \in [alive : BOOLEAN, changed : BOOLEAN] :
            ref.changed /\ ops[u] = [op[u] EXCEPT !.ref = ref]
      BY <2>2, <3>1 DEF Orphaned
    <3> QED
      BY <2>1, <2>2, <3>2, Zenon DEF Ops
  <2>3. CASE ~(Replaces("query", type) /\ op[u].ref # None)
    <3>1. ops[u] = op[u]
      BY <2>3 DEF Orphaned
    <3> QED
      BY <2>1, <3>1 DEF Inv, StaleOnlyAfterSet
  <2> QED
    BY <2>2, <2>3
<1>7. DOMAIN ops = Threads
  BY <1>2 DEF Orphaned
<1> HIDE DEF ops
<1>8. PICK r : r = [ops[t] EXCEPT !.at = "opening", !.fs = f]
  OBVIOUS
<1>9. /\ r \in Ops /\ r.at = "opening" /\ r.ref = ops[t].ref /\ r.reader = ops[t].reader
      /\ r.fs = f
  BY <1>6, <1>8, Zenon DEF Ops
<1>10. op'[t] = r /\ \A u \in Threads : u # t => op'[u] = ops[u]
  BY <1>3, <1>7, <1>8
<1>11. op' \in [Threads -> Ops]
  BY <1>3, <1>6, <1>7, <1>8, <1>9
<1>12. \A u \in Threads : /\ op'[u].ref = ops[u].ref /\ op'[u].reader = op[u].reader
                          /\ u # t => /\ op'[u].at = op[u].at /\ op'[u].fs = op[u].fs
                                      /\ op'[u].bound = op[u].bound /\ op'[u].row = op[u].row
                                      /\ op'[u].changed = op[u].changed
  BY <1>6, <1>9, <1>10
<1>13. TakenCurrent'
  <2>1. op'[t].at # "bound" /\ op'[t].at # "reading"
    BY <1>9, <1>10
  <2>2. \A u \in Threads : op'[u].ref # None => u # t /\ op[u].ref # None
    BY <1>6, <1>12 DEF OpenFile, Inv, StaleOnlyAfterSet, TakenCurrent
  <2> QED
    BY <1>1, <1>5, <1>12, <2>1, <2>2 DEF Inv, StaleOnlyAfterSet, TakenCurrent
<1>14. StaleOnlyAfterSet'
  <2>1. op'[t].at # "bound" /\ op'[t].at # "filled"
    BY <1>9, <1>10
  <2> QED
    BY <1>6, <1>12, <1>13, <2>1 DEF Inv, StaleOnlyAfterSet
<1> QED
  BY <1>1, <1>5, <1>11, <1>12, <1>14, CollectorStep

\* An open makes the reader of the type the settings say current.
LEMMA OpenReaderStep ==
  ASSUME Inv, NEW t \in Threads, OpenReader(t)
  PROVE  Inv'
<1>1. /\ UNCHANGED <<shared, in_mem, disk, metadata, collectors>>
      /\ UNCHANGED <<config, scenario, exclusion, clears, admin, vfs>>
      /\ readers' = [made |-> readers.made \cup {config.cache_type},
                     current |-> config.cache_type]
  BY DEF OpenReader, shared, SetCacheReader
<1>2. TypeOK /\ op[t] \in Ops
  BY DEF Inv, ReaderMatchesConfig, TypeOK
<1>3. PICK r : r = [op[t] EXCEPT !.at = "idle"] /\ op' = [op EXCEPT ![t] = r]
  BY DEF OpenReader
<1>4. /\ r \in Ops /\ r.at = "idle" /\ r.fs = op[t].fs /\ r.ref = op[t].ref
      /\ r.reader = op[t].reader
  BY <1>2, <1>3, Zenon DEF Ops
<1>5. r.ref # None => r.fs # None /\ (~r.ref.alive => r.ref.changed)
  BY <1>4 DEF Inv, StaleOnlyAfterSet, TakenCurrent
<1>6. r.at # "bound" /\ r.at # "filled" /\ (r.fs # None => op[t].fs # None)
  BY <1>4
<1>7. StaleOnlyAfterSet' /\ op' \in [Threads -> Ops]
  BY <1>1, <1>3, <1>4, <1>5, <1>6, ThreadStep
<1>8. \A u \in Threads : op'[u].reader = op[u].reader
  BY <1>2, <1>3, <1>4 DEF TypeOK
<1>9. /\ in_mem # None => "in_mem" \in readers'.made
      /\ \A u \in Threads : op'[u].reader = "in_mem" => "in_mem" \in readers'.made
      /\ readers.made \subseteq readers'.made
  BY <1>1, <1>8 DEF Inv, ClearedEverywhere, ClearProgress
<1>10. ClearedEverywhere' /\ WrappedRegistered'
  BY <1>1, <1>9, CachesStep
<1>11. /\ readers' \in [made : SUBSET CacheTypes, current : CacheTypes]
       /\ readers'.current \in readers'.made /\ "on_disk" \in readers'.made
       /\ readers'.current = config.cache_type
  BY <1>1, <1>2 DEF TypeOK, Settings
<1>12. TypeOK'
  BY <1>1, <1>2, <1>7, <1>11 DEF TypeOK
<1> QED
  BY <1>1, <1>7, <1>10, <1>11, <1>12 DEF Inv, ReaderMatchesConfig

\* A read ends: what it stores is stored after the last clear began.
LEMMA ReadEndStep ==
  ASSUME Inv, NEW t \in Threads, ReadEnd(t)
  PROVE  Inv'
<1>1. /\ UNCHANGED <<shared, readers>>
      /\ UNCHANGED <<config, scenario, exclusion, clears, admin, vfs>>
  BY DEF ReadEnd, shared
<1>2. TypeOK /\ op \in [Threads -> Ops] /\ op[t] \in Ops /\ clears \in Nat
  BY InstanceAssumption DEF Inv, ReaderMatchesConfig, TypeOK
<1>3. /\ in_mem' \in {in_mem, clears} /\ in_mem' \in {None} \cup Nat
      /\ in_mem' # in_mem => op[t].reader = "in_mem"
  BY <1>2 DEF ReadEnd, Stored, TypeOK
<1>4. /\ disk' \in [Directories -> {None} \cup Nat]
      /\ \A d \in Directories : disk'[d] \in {disk[d], clears}
  <2>1. PICK d : disk' \in {disk, [disk EXCEPT ![d] = Stored(@)]}
    BY DEF ReadEnd
  <2> QED
    BY <1>2, <2>1 DEF Stored, TypeOK
<1>5. /\ metadata' \in [FileSystems -> {None} \cup Nat]
      /\ \A f \in FileSystems : metadata'[f] \in {metadata[f], clears}
  <2>1. PICK f : metadata' \in {metadata, [metadata EXCEPT ![f] = Stored(@)]}
    BY DEF ReadEnd
  <2> QED
    BY <1>2, <2>1 DEF Stored, TypeOK
<1>6. /\ collectors' \in [Connections -> {None} \cup Collectors]
      /\ collectors'["query"] # None
      /\ collectors'["query"].changed = collectors["query"].changed
      /\ collectors'["query"].type = collectors["query"].type
  <2>1. collectors["query"] # None
    BY DEF ReadEnd, Inv, StaleOnlyAfterSet, TakenCurrent
  <2>2. collectors["query"] \in Collectors /\ collectors \in [Connections -> {None} \cup Collectors]
    BY <1>2, <2>1 DEF TypeOK, Connections
  <2>3. PICK c : c = [collectors["query"] EXCEPT !.stats = "some"]
    OBVIOUS
  <2>4. /\ c \in Collectors /\ c.changed = collectors["query"].changed
        /\ c.type = collectors["query"].type
    BY <2>2, <2>3, Zenon DEF Collectors
  <2>5. collectors' \in {collectors, [collectors EXCEPT !["query"] = c]}
    BY <2>3 DEF ReadEnd
  <2> QED
    BY <2>1, <2>2, <2>4, <2>5, NoneAssumption DEF Connections
<1>7. PICK r : /\ r = [op[t] EXCEPT !.at = "idle", !.reader = None, !.ref = None]
               /\ op' = [op EXCEPT ![t] = r]
  BY DEF ReadEnd
<1>8. /\ r \in Ops /\ r.at = "idle" /\ r.fs = op[t].fs /\ r.ref = None /\ r.reader = None
  BY <1>2, <1>7, Zenon DEF Ops
<1>9. /\ op' \in [Threads -> Ops] /\ op'[t] = r
      /\ \A u \in Threads : u # t => op'[u] = op[u]
  BY <1>2, <1>7, <1>8
<1>10. StaleOnlyAfterSet'
  <2>1. collectors["query"] # None
    BY DEF ReadEnd, Inv, StaleOnlyAfterSet, TakenCurrent
  <2>2. r.at \notin {"reading", "bound", "filled"}
    BY <1>8
  <2>3. TakenCurrent'
    BY <1>1, <1>6, <1>8, <1>9, <2>1, <2>2 DEF Inv, StaleOnlyAfterSet, TakenCurrent
  <2> QED
    BY <1>8, <1>9, <2>2, <2>3 DEF Inv, StaleOnlyAfterSet
<1>11. /\ in_mem' # None => "in_mem" \in readers.made
       /\ \A u \in Threads : op'[u].reader = "in_mem" => "in_mem" \in readers.made
  BY <1>3, <1>8, <1>9, NoneAssumption DEF Inv, ClearedEverywhere, ClearProgress, CacheTypes
<1>12. ClearedEverywhere' /\ WrappedRegistered'
  BY <1>1, <1>3, <1>4, <1>5, <1>11, CachesStep
<1>13. TypeOK'
  BY <1>1, <1>2, <1>3, <1>4, <1>5, <1>6, <1>9 DEF TypeOK
<1> QED
  BY <1>1, <1>10, <1>12, <1>13 DEF Inv, ReaderMatchesConfig

\* cache_httpfs_clear_profile empties a collector, and keeps it.
LEMMA ResetType ==
  ASSUME NEW c \in Collectors
  PROVE  Reset(c) \in Collectors /\ Reset(c).changed = c.changed /\ Reset(c).type = c.type
  BY Zenon DEF Reset, Collectors

\* Resetting a collector keeps its type and whether the setting changed.
LEMMA ResetCollectors ==
  ASSUME TypeOK, NEW c \in Connections, ResetProfileCollector(c)
  PROVE  /\ collectors' \in [Connections -> {None} \cup Collectors]
         /\ \A e \in Connections :
               /\ collectors[e] = None => collectors'[e] = None
               /\ collectors[e] # None =>
                     /\ collectors'[e] # None
                     /\ collectors'[e].changed = collectors[e].changed
                     /\ collectors'[e].type = collectors[e].type
<1>1. collectors \in [Connections -> {None} \cup Collectors]
  BY DEF TypeOK
<1>2. CASE collectors[c] = None
  BY <1>1, <1>2 DEF ResetProfileCollector
<1>3. CASE collectors[c] # None
  <2>1. collectors[c] \in Collectors /\ collectors' = [collectors EXCEPT ![c] = Reset(collectors[c])]
    BY <1>1, <1>3 DEF ResetProfileCollector
  <2>2. /\ Reset(collectors[c]) \in Collectors
        /\ Reset(collectors[c]).changed = collectors[c].changed
        /\ Reset(collectors[c]).type = collectors[c].type
    BY <2>1, ResetType
  <2> QED
    BY <1>1, <2>1, <2>2, NoneAssumption
<1> QED
  BY <1>2, <1>3

\* The profile query's reset of the statistics keeps the invariant.
LEMMA ResetProfileStatsStep ==
  ASSUME Inv, ResetProfileStats
  PROVE  Inv'
<1>1. TypeOK /\ UNCHANGED <<shared, readers, in_mem, disk, metadata, op>> /\ config' = config
  BY DEF ResetProfileStats, Inv, ReaderMatchesConfig, shared
<1>2. /\ collectors' \in [Connections -> {None} \cup Collectors]
      /\ collectors["query"] = None => collectors'["query"] = None
      /\ collectors["query"] # None =>
            /\ collectors'["query"] # None
            /\ collectors'["query"].changed = collectors["query"].changed
            /\ collectors'["query"].type = collectors["query"].type
  BY <1>1, ResetCollectors DEF ResetProfileStats, Connections
<1>3. StaleOnlyAfterSet'
  BY <1>1, <1>2 DEF Inv, StaleOnlyAfterSet, TakenCurrent
<1> QED
  BY <1>1, <1>2, <1>3, CollectorStep DEF TypeOK

\* No thread has a file open when the connection is closed.
LEMMA OnConnectionClosedStep ==
  ASSUME Inv, OnConnectionClosed
  PROVE  Inv'
<1>1. TypeOK /\ UNCHANGED <<shared, readers, in_mem, disk, metadata, op>> /\ config' = config
  BY DEF OnConnectionClosed, Inv, ReaderMatchesConfig, shared
<1>2. /\ collectors' \in [Connections -> {None} \cup Collectors]
      /\ collectors'["query"] = None
  BY <1>1 DEF OnConnectionClosed, TypeOK, Connections
<1>3. \A t \in Threads : op[t].fs = None /\ op[t].ref = None
  BY DEF OnConnectionClosed, IdleOp
<1>4. StaleOnlyAfterSet'
  BY <1>1, <1>2, <1>3 DEF Inv, StaleOnlyAfterSet, TakenCurrent
<1> QED
  BY <1>1, <1>2, <1>4, CollectorStep DEF TypeOK

---------------------------------------------------------------------------
(* SET. *)

\* While no clear has come past the readers, nothing is promised of the caches.
LEMMA NotClearing ==
  ASSUME Inv, admin'.at \notin {"clear_all_fs", "clear_file_fs", "cleared"},
         in_mem' \in {in_mem, None}, readers.made \subseteq readers'.made,
         \A u \in Threads : op'[u].reader = op[u].reader
  PROVE  ClearedEverywhere'
  BY DEF Inv, ClearedEverywhere, ClearProgress

\* A thread that has bound its columns is marked; nothing else changes.
LEMMA BoundOps ==
  ASSUME TypeOK
  PROVE  /\ Bound(op) \in [Threads -> Ops]
         /\ \A u \in Threads :
              /\ Bound(op)[u].at = op[u].at /\ Bound(op)[u].fs = op[u].fs
              /\ Bound(op)[u].ref = op[u].ref /\ Bound(op)[u].reader = op[u].reader
              /\ Bound(op)[u].bound = op[u].bound /\ Bound(op)[u].row = op[u].row
              /\ op[u].at = "bound" => Bound(op)[u].changed
              /\ op[u].at # "bound" => Bound(op)[u].changed = op[u].changed
<1>1. ASSUME NEW u \in Threads
      PROVE  /\ Bound(op)[u] \in Ops
             /\ Bound(op)[u].at = op[u].at /\ Bound(op)[u].fs = op[u].fs
             /\ Bound(op)[u].ref = op[u].ref /\ Bound(op)[u].reader = op[u].reader
             /\ Bound(op)[u].bound = op[u].bound /\ Bound(op)[u].row = op[u].row
             /\ op[u].at = "bound" => Bound(op)[u].changed
             /\ op[u].at # "bound" => Bound(op)[u].changed = op[u].changed
  <2>1. op[u] \in Ops
    BY DEF TypeOK
  <2>2. CASE op[u].at = "bound"
    <3>1. Bound(op)[u] = [op[u] EXCEPT !.changed = TRUE]
      BY <2>2 DEF Bound
    <3> QED
      BY <2>1, <2>2, <3>1, Zenon DEF Ops
  <2>3. CASE op[u].at # "bound"
    <3>1. Bound(op)[u] = op[u]
      BY <2>3 DEF Bound
    <3> QED
      BY <2>1, <2>3, <3>1
  <2> QED
    BY <2>2, <2>3
<1>2. Bound(op) = [u \in Threads |-> Bound(op)[u]]
  BY DEF Bound
<1> QED
  BY <1>1, <1>2

\* A setting that changes no columns, or marks the threads that have bound them.
LEMMA ColumnsStep ==
  ASSUME Inv, op' = Bound(op) \/ (op' = op /\ Columns(config') = Columns(config)),
         collectors' = collectors, config'.profile_type = config.profile_type
  PROVE  /\ StaleOnlyAfterSet' /\ op' \in [Threads -> Ops]
         /\ \A u \in Threads : op'[u].reader = op[u].reader
<1>1. TypeOK
  BY DEF Inv, ReaderMatchesConfig
<1>2. CASE op' = Bound(op)
  <2>1. TakenCurrent'
    BY <1>1, <1>2, BoundOps DEF Inv, StaleOnlyAfterSet, TakenCurrent
  <2> QED
    BY <1>1, <1>2, <2>1, BoundOps DEF Inv, StaleOnlyAfterSet
<1>3. CASE op' = op /\ Columns(config') = Columns(config)
  <2>1. TakenCurrent'
    BY <1>3 DEF Inv, StaleOnlyAfterSet, TakenCurrent
  <2> QED
    BY <1>1, <1>3, <2>1 DEF Inv, StaleOnlyAfterSet, TypeOK
<1> QED
  BY <1>2, <1>3

\* SET cache_httpfs_type stores the type; the reader is set by the next step.
LEMMA UpdateCacheTypeStep ==
  ASSUME Inv, UpdateCacheType
  PROVE  Inv'
<1>1. /\ TypeOK /\ op' = Bound(op)
      /\ UNCHANGED <<scenario, readers, in_mem, disk, vfs, registry, exclusion, metadata,
                     collectors, callback, clears>>
  BY DEF Inv, ReaderMatchesConfig, UpdateCacheType
<1>2. config' \in Settings /\ config'.profile_type = config.profile_type /\ config'.counts = config.counts
  <2>1. PICK type \in CacheTypes : config' = [config EXCEPT !.cache_type = type]
    BY DEF UpdateCacheType
  <2>2. config \in Settings
    BY <1>1 DEF TypeOK
  <2> QED
    BY <2>1, <2>2, Zenon DEF Settings
<1>3. admin' \in Admins /\ admin'.at = "set_reader"
  <2>1. admin' = [admin EXCEPT !.at = "set_reader"]
    BY DEF UpdateCacheType
  <2> QED
    BY <1>1, <2>1, Zenon DEF TypeOK, Admins
<1>4. /\ StaleOnlyAfterSet' /\ op' \in [Threads -> Ops]
      /\ \A u \in Threads : op'[u].reader = op[u].reader
  BY <1>1, <1>2, ColumnsStep
<1>5. ClearedEverywhere'
  BY <1>1, <1>3, <1>4, NotClearing
<1>6. TypeOK' /\ WrappedRegistered'
  BY <1>1, <1>2, <1>3, <1>4 DEF TypeOK, Inv, ReaderMatchesConfig, WrappedRegistered
<1> QED
  BY <1>3, <1>4, <1>5, <1>6 DEF Inv, ReaderMatchesConfig

\* The SET ends by making the reader of the new type current.
LEMMA UpdateCacheReaderStep ==
  ASSUME Inv, UpdateCacheReader
  PROVE  Inv'
<1>1. /\ TypeOK /\ admin' = IdleAdmin
      /\ readers' = [made |-> readers.made \cup {config.cache_type},
                     current |-> config.cache_type]
      /\ UNCHANGED <<scenario, config, in_mem, disk, vfs, registry, exclusion, metadata,
                     collectors, callback, op, clears>>
  BY DEF Inv, ReaderMatchesConfig, UpdateCacheReader, SetCacheReader
<1>2. admin' \in Admins /\ admin'.at = "idle"
  BY <1>1 DEF IdleAdmin, Admins
<1>3. /\ readers' \in [made : SUBSET CacheTypes, current : CacheTypes]
      /\ readers'.current \in readers'.made /\ "on_disk" \in readers'.made
      /\ readers.made \subseteq readers'.made /\ readers'.current = config.cache_type
  BY <1>1 DEF TypeOK, Settings
<1>4. StaleOnlyAfterSet'
  BY <1>1 DEF Inv, StaleOnlyAfterSet, TakenCurrent
<1>5. ClearedEverywhere'
  BY <1>1, <1>2, <1>3, NotClearing
<1>6. TypeOK' /\ WrappedRegistered'
  BY <1>1, <1>2, <1>3 DEF TypeOK, Inv, ReaderMatchesConfig, WrappedRegistered
<1> QED
  BY <1>1, <1>3, <1>4, <1>5, <1>6 DEF Inv, ReaderMatchesConfig

\* A step of the other connection that neither clears nor changes a reader, a
\* setting the readers depend on, or a file system.
LEMMA AdminStep ==
  ASSUME Inv, admin' \in Admins,
         admin'.at \notin {"set_reader", "wrap", "clear_all_fs", "clear_file_fs", "cleared"},
         admin.at # "set_reader",
         config' \in Settings, config'.cache_type = config.cache_type,
         \A n \in Counts \ {"min_disk_bytes"} : config'.counts[n] > 0,
         op' \in [Threads -> Ops], \A u \in Threads : op'[u].reader = op[u].reader,
         collectors' \in [Connections -> {None} \cup Collectors],
         StaleOnlyAfterSet',
         UNCHANGED <<scenario, readers, in_mem, disk, vfs, registry, metadata, clears>>,
         exclusion' \subseteq Regexes
  PROVE  Inv'
<1>1. ClearedEverywhere'
  BY NotClearing
<1>2. TypeOK' /\ WrappedRegistered'
  BY DEF TypeOK, Inv, ReaderMatchesConfig, WrappedRegistered
<1> QED
  BY <1>1, <1>2 DEF Inv, ReaderMatchesConfig

\* The profile type is set: the collector of the connection is marked.
LEMMA UpdateProfileTypeStep ==
  ASSUME Inv, UpdateProfileType
  PROVE  Inv'
<1>1. /\ TypeOK /\ admin.at = "idle"
      /\ UNCHANGED <<scenario, readers, in_mem, disk, vfs, registry, exclusion, metadata,
                     callback, op, clears>>
  BY DEF Inv, ReaderMatchesConfig, UpdateProfileType
<1>2. /\ config' \in Settings /\ config'.cache_type = config.cache_type
      /\ config'.counts = config.counts /\ config'.enabled = config.enabled
  <2>1. PICK type \in ProfileTypes \cup {"unknown"} : config' = [config EXCEPT !.profile_type = type]
    BY DEF UpdateProfileType
  <2>2. config \in Settings
    BY <1>1 DEF TypeOK
  <2> QED
    BY <2>1, <2>2, Zenon DEF Settings
<1>3. admin' \in Admins /\ admin'.at = "set_collector"
  <2>1. admin' = [admin EXCEPT !.at = "set_collector"]
    BY DEF UpdateProfileType
  <2> QED
    BY <1>1, <2>1, Zenon DEF TypeOK, Admins
<1>4. /\ collectors' \in [Connections -> {None} \cup Collectors]
      /\ collectors["query"] = None => collectors'["query"] = None
      /\ collectors["query"] # None => collectors'["query"] # None /\ collectors'["query"].changed
  <2>1. collectors \in [Connections -> {None} \cup Collectors]
    BY <1>1 DEF TypeOK
  <2>2. CASE collectors["query"] = None
    BY <2>1, <2>2 DEF UpdateProfileType
  <2>3. CASE collectors["query"] # None
    <3>1. PICK c : /\ c = [collectors["query"] EXCEPT !.changed = TRUE]
                   /\ collectors' = [collectors EXCEPT !["query"] = c]
      BY <2>3 DEF UpdateProfileType
    <3>2. collectors["query"] \in Collectors
      BY <2>1, <2>3 DEF Connections
    <3>3. c \in Collectors /\ c.changed
      BY <3>1, <3>2, Zenon DEF Collectors
    <3> QED
      BY <2>1, <2>3, <3>1, <3>3, NoneAssumption DEF Connections
  <2> QED
    BY <2>2, <2>3
<1>5. Columns(config') = Columns(config)
  BY <1>2 DEF Columns
<1>6. TakenCurrent'
  BY <1>1, <1>4, <1>5 DEF Inv, StaleOnlyAfterSet, TakenCurrent
<1>7. StaleOnlyAfterSet'
  BY <1>1, <1>6 DEF Inv, StaleOnlyAfterSet
<1> QED
  BY <1>1, <1>2, <1>3, <1>4, <1>7, AdminStep DEF TypeOK

\* The connection that set it gets a collector of the type.
LEMMA UpdateCollectorStep ==
  ASSUME Inv, UpdateCollector
  PROVE  Inv'
<1>1. /\ TypeOK /\ admin.at = "set_collector" /\ admin' = IdleAdmin
      /\ UNCHANGED <<scenario, config, readers, in_mem, disk, vfs, registry, exclusion, metadata,
                     op, clears>>
  BY DEF Inv, ReaderMatchesConfig, UpdateCollector
<1>2. admin' \in Admins /\ admin'.at = "idle"
  BY <1>1 DEF IdleAdmin, Admins
<1>3. /\ collectors' \in [Connections -> {None} \cup Collectors]
      /\ collectors'["query"] = collectors["query"]
  <2>1. CASE Replaces("admin", config.profile_type)
    <3>1. Collector(config.profile_type) \in Collectors
      BY <2>1, CollectorType DEF Replaces
    <3> QED
      BY <1>1, <2>1, <3>1 DEF UpdateCollector, SetProfileCollector, TypeOK, Connections
  <2>2. CASE ~Replaces("admin", config.profile_type)
    BY <1>1, <2>2 DEF UpdateCollector, SetProfileCollector, TypeOK
  <2> QED
    BY <2>1, <2>2
<1>4. StaleOnlyAfterSet'
  BY <1>1, <1>3 DEF Inv, StaleOnlyAfterSet, TakenCurrent
<1> QED
  BY <1>1, <1>2, <1>3, <1>4, AdminStep DEF TypeOK

\* What every SET of the other settings leaves as it is.
KeepsTypes ==
  /\ config' \in Settings /\ config'.cache_type = config.cache_type
  /\ config'.profile_type = config.profile_type
  /\ \A n \in Counts \ {"min_disk_bytes"} : config'.counts[n] > 0

\* A count that is set is not zero.
LEMMA UpdateCountKeeps ==
  ASSUME TypeOK, NEW n \in Counts, UpdateCount(n)
  PROVE  KeepsTypes /\ config'.enabled = config.enabled /\ op' = op
<1>1. PICK v \in 0 .. 1 : v # 0 /\ config' = [config EXCEPT !.counts[n] = v]
  BY DEF UpdateCount
<1>2. config \in Settings /\ config.counts \in [Counts -> 0 .. 1]
  BY DEF TypeOK, Settings
<1>3. PICK counts : counts = [config.counts EXCEPT ![n] = v]
  OBVIOUS
<1>4. /\ counts \in [Counts -> 0 .. 1]
      /\ \A m \in Counts \ {"min_disk_bytes"} : counts[m] > 0
  BY <1>1, <1>2, <1>3 DEF TypeOK
<1>5. config' = [config EXCEPT !.counts = counts]
  BY <1>1, <1>3
<1>6. /\ config' \in Settings /\ config'.cache_type = config.cache_type
      /\ config'.profile_type = config.profile_type /\ config'.enabled = config.enabled
      /\ config'.counts = counts
  BY <1>2, <1>4, <1>5, Zenon DEF Settings
<1> QED
  BY <1>4, <1>6 DEF KeepsTypes, UpdateCount

\* A name that is set is on its list.
LEMMA UpdateChoiceKeeps ==
  ASSUME TypeOK, NEW n \in Choices, UpdateChoice(n)
  PROVE  KeepsTypes /\ config'.enabled = config.enabled /\ op' = op
<1>1. config' = [config EXCEPT !.choices[n] = "listed"]
  BY DEF UpdateChoice
<1>2. config \in Settings /\ config.choices \in [Choices -> {"listed"}]
  BY DEF TypeOK, Settings
<1>3. PICK choices : choices = [config.choices EXCEPT ![n] = "listed"]
  OBVIOUS
<1>4. choices \in [Choices -> {"listed"}]
  BY <1>2, <1>3
<1>5. config' = [config EXCEPT !.choices = choices]
  BY <1>1, <1>3
<1>6. /\ config' \in Settings /\ config'.cache_type = config.cache_type
      /\ config'.profile_type = config.profile_type /\ config'.enabled = config.enabled
      /\ config'.counts = config.counts
  BY <1>2, <1>4, <1>5, Zenon DEF Settings
<1> QED
  BY <1>6 DEF KeepsTypes, UpdateChoice, TypeOK

\* A cache that is switched on or off marks the bound columns.
LEMMA UpdateEnableKeeps ==
  ASSUME TypeOK, NEW c \in {"metadata", "file_handle", "glob"}, UpdateEnable(c)
  PROVE  KeepsTypes /\ op' = Bound(op)
<1>1. config \in Settings /\ config.enabled \subseteq {"metadata", "file_handle", "glob"}
  BY DEF TypeOK, Settings
<1>2. PICK e : /\ e = IF c \in config.enabled THEN config.enabled \ {c}
                                              ELSE config.enabled \cup {c}
               /\ config' = [config EXCEPT !.enabled = e]
  BY DEF UpdateEnable
<1>3. e \in SUBSET {"metadata", "file_handle", "glob"}
  BY <1>1, <1>2
<1>4. /\ config' \in Settings /\ config'.cache_type = config.cache_type
      /\ config'.profile_type = config.profile_type /\ config'.counts = config.counts
  BY <1>1, <1>2, <1>3, Zenon DEF Settings
<1> QED
  BY <1>4 DEF KeepsTypes, UpdateEnable, TypeOK

\* There is always a directory.
LEMMA UpdateOtherKeeps ==
  ASSUME TypeOK, UpdateUnchecked \/ UpdateCacheDirectories
  PROVE  KeepsTypes /\ config'.enabled = config.enabled /\ op' = op
<1>1. config \in Settings
  BY DEF TypeOK
<1>2. /\ config' \in Settings /\ config'.cache_type = config.cache_type
      /\ config'.profile_type = config.profile_type /\ config'.counts = config.counts
      /\ config'.enabled = config.enabled
  <2>1. CASE UpdateUnchecked
    BY <1>1, <2>1, Zenon DEF UpdateUnchecked, Settings
  <2>2. CASE UpdateCacheDirectories
    <3>1. PICK dirs : /\ dirs \in Seq(Directories) \ {<< >>}
                      /\ config' = [config EXCEPT !.dirs = dirs]
      <4>1. PICK list \in DirectoryLists :
              config' = [config EXCEPT !.dirs = IF list = << >> THEN <<DefaultDir>> ELSE list]
        BY <2>2 DEF UpdateCacheDirectories
      <4>2. (IF list = << >> THEN <<DefaultDir>> ELSE list) \in Seq(Directories) \ {<< >>}
        BY InstanceAssumption
      <4> QED
        BY <4>1, <4>2
    <3> QED
      BY <1>1, <3>1, Zenon DEF Settings
  <2> QED
    BY <2>1, <2>2
<1> QED
  BY <1>2 DEF KeepsTypes, UpdateUnchecked, UpdateCacheDirectories, TypeOK

\* A SET of any other setting, accepted or refused, keeps the invariant.
LEMMA UpdateSettingStep ==
  ASSUME Inv, UpdateSetting
  PROVE  Inv'
<1>1. /\ TypeOK /\ admin.at = "idle"
      /\ UNCHANGED <<scenario, readers, in_mem, disk, vfs, registry, exclusion, metadata,
                     collectors, callback, admin, clears>>
  BY DEF Inv, ReaderMatchesConfig, UpdateSetting
<1>2. KeepsTypes /\ (op' = Bound(op) \/ (op' = op /\ config'.enabled = config.enabled))
  <2>1. CASE \E n \in Counts : UpdateCount(n)
    BY <1>1, <2>1, UpdateCountKeeps
  <2>2. CASE \E n \in Choices : UpdateChoice(n)
    BY <1>1, <2>2, UpdateChoiceKeeps
  <2>3. CASE \E c \in {"metadata", "file_handle", "glob"} : UpdateEnable(c)
    BY <1>1, <2>3, UpdateEnableKeeps
  <2>4. CASE UpdateUnchecked \/ UpdateCacheDirectories
    BY <1>1, <2>4, UpdateOtherKeeps
  <2> QED
    BY <2>1, <2>2, <2>3, <2>4
    DEF UpdateSetting, UpdateDiskSetting, UpdateInMemSetting, UpdateStorageSetting,
        UpdateParallelReadMode, UpdateMetadataCacheSetting, UpdateFileHandleCacheSetting,
        UpdateGlobCacheSetting, Counts, Choices
<1>3. op' = Bound(op) \/ (op' = op /\ Columns(config') = Columns(config))
  BY <1>2 DEF Columns, KeepsTypes
<1>4. /\ StaleOnlyAfterSet' /\ op' \in [Threads -> Ops]
      /\ \A u \in Threads : op'[u].reader = op[u].reader
  BY <1>1, <1>2, <1>3, ColumnsStep DEF KeepsTypes
<1> QED
  BY <1>1, <1>2, <1>4, AdminStep DEF TypeOK, KeepsTypes

---------------------------------------------------------------------------
(* The SQL functions. *)

\* Wrapping: the file system is in the registry before it is cached.
LEMMA WrapStep ==
  ASSUME Inv, WrapCacheFileSystem \/ RegisterSubSystem
  PROVE  Inv'
<1>1. /\ TypeOK /\ WrappedRegistered
      /\ UNCHANGED <<scenario, config, readers, in_mem, disk, exclusion, metadata, collectors,
                     callback, op, clears>>
  BY DEF Inv, ReaderMatchesConfig, WrapCacheFileSystem, RegisterSubSystem
<1>2. /\ admin' \in Admins /\ admin'.at \in {"wrap", "idle"} /\ admin.at # "set_reader"
      /\ vfs' \subseteq FileSystems \X {"plain", "cached"}
      /\ WrappedRegistered'
  <2>1. CASE WrapCacheFileSystem
    <3>1. PICK f \in FileSystems : /\ vfs' = vfs \ {<<f, "plain">>}
                                   /\ registry' = registry \cup {f}
                                   /\ admin' = [at |-> "wrap", todo |-> {f}]
      BY <2>1 DEF WrapCacheFileSystem
    <3>2. admin' \in Admins /\ admin'.at = "wrap" /\ admin'.todo = {f}
      BY <3>1 DEF Admins
    <3> QED
      BY <1>1, <2>1, <3>1, <3>2 DEF WrapCacheFileSystem, WrappedRegistered, TypeOK
  <2>2. CASE RegisterSubSystem
    <3>1. /\ admin.at = "wrap" /\ vfs' = vfs \cup (admin.todo \X {"cached"})
          /\ admin' = IdleAdmin /\ registry' = registry
      BY <2>2 DEF RegisterSubSystem
    <3>2. admin' \in Admins /\ admin'.at = "idle"
      BY <3>1 DEF Admins, IdleAdmin
    <3>3. admin.todo \subseteq FileSystems
      BY <1>1 DEF TypeOK, Admins
    <3> QED
      BY <1>1, <3>1, <3>2, <3>3 DEF WrappedRegistered, TypeOK
  <2> QED
    BY <2>1, <2>2
<1>3. StaleOnlyAfterSet'
  BY <1>1 DEF Inv, StaleOnlyAfterSet, TakenCurrent
<1>4. ClearedEverywhere'
  BY <1>1, <1>2, NotClearing
<1>5. TypeOK'
  BY <1>1, <1>2 DEF TypeOK
<1> QED
  BY <1>1, <1>2, <1>3, <1>4, <1>5 DEF Inv, ReaderMatchesConfig

\* The exclusion list is changed under its mutex and nothing else is.
LEMMA ExclusionStep ==
  ASSUME Inv, AddCacheExclusionRegex \/ ResetCacheExclusionRegex
  PROVE  Inv'
<1>1. /\ TypeOK /\ admin.at = "idle" /\ exclusion' \subseteq Regexes
      /\ UNCHANGED <<scenario, config, readers, in_mem, disk, vfs, registry, metadata, collectors,
                     callback, op, admin, clears>>
  BY DEF Inv, ReaderMatchesConfig, TypeOK, AddCacheExclusionRegex, ResetCacheExclusionRegex
<1>2. StaleOnlyAfterSet'
  BY <1>1 DEF Inv, StaleOnlyAfterSet, TakenCurrent
<1> QED
  BY <1>1, <1>2, AdminStep DEF TypeOK

---------------------------------------------------------------------------
(* Clearing. *)

\* What a step of a clear leaves as it is.
LEMMA ClearingStep ==
  ASSUME Inv, admin' \in Admins, admin'.at \notin {"set_reader", "wrap"},
         admin.at # "set_reader",
         in_mem' \in {in_mem, None}, disk' \in [Directories -> {None} \cup Nat],
         metadata' \in [FileSystems -> {None} \cup Nat],
         collectors' \in [Connections -> {None} \cup Collectors], clears' \in 0 .. scenario.clears,
         UNCHANGED <<scenario, config, readers, vfs, registry, exclusion, op>>,
         ClearedEverywhere', StaleOnlyAfterSet'
  PROVE  Inv'
<1>1. TypeOK' /\ WrappedRegistered'
  BY DEF TypeOK, Inv, ReaderMatchesConfig, WrappedRegistered
<1> QED
  BY <1>1 DEF Inv, ReaderMatchesConfig

\* The directories that are configured now are emptied, no other is changed.
LEMMA EmptiedType ==
  ASSUME TypeOK
  PROVE  /\ EmptiedDirectories \in [Directories -> {None} \cup Nat]
         /\ \A d \in Range(config.dirs) : EmptiedDirectories[d] = None
<1>1. Range(config.dirs) \subseteq Directories
  BY AlwaysRange DEF TypeOK, Settings
<1> QED
  BY <1>1 DEF EmptiedDirectories, TypeOK

\* A clear begins, and counts.
LEMMA ClearAllCacheStep ==
  ASSUME Inv, ClearAllCache
  PROVE  Inv'
<1>1. /\ TypeOK /\ admin.at = "idle"
      /\ UNCHANGED <<scenario, config, readers, in_mem, vfs, registry, exclusion, metadata,
                     collectors, callback, op>>
  BY DEF Inv, ReaderMatchesConfig, ClearAllCache
<1>2. admin' \in Admins /\ admin'.at \in {"clear_all", "clear_file"}
  <2>1. admin' \in {[admin EXCEPT !.at = "clear_all"], [admin EXCEPT !.at = "clear_file"]}
    BY DEF ClearAllCache
  <2>2. CASE admin' = [admin EXCEPT !.at = "clear_all"]
    BY <1>1, <2>2, Zenon DEF TypeOK, Admins
  <2>3. CASE admin' = [admin EXCEPT !.at = "clear_file"]
    BY <1>1, <2>3, Zenon DEF TypeOK, Admins
  <2> QED
    BY <2>1, <2>2, <2>3
<1>3. disk' \in [Directories -> {None} \cup Nat] /\ clears' \in 0 .. scenario.clears
  <2>1. scenario.clears \in Nat
    BY <1>1, InstanceAssumption DEF TypeOK
  <2> QED
    BY <1>1, <2>1, EmptiedType DEF ClearAllCache, TypeOK
<1>4. ClearedEverywhere'
  BY <1>1, <1>2, NotClearing
<1>5. StaleOnlyAfterSet'
  BY <1>1 DEF Inv, StaleOnlyAfterSet, TakenCurrent
<1> QED
  BY <1>1, <1>2, <1>3, <1>4, <1>5, ClearingStep DEF TypeOK

\* After the readers cleared, what they hold is fresh: the disk reader is
\* always made, and an in-memory reader that caches was.
LEMMA ClearReadersFresh ==
  ASSUME Inv, ClearReaders, UNCHANGED config
  PROVE  /\ ReadersCleared' /\ in_mem' \in {in_mem, None}
         /\ disk' \in [Directories -> {None} \cup Nat]
         /\ in_mem' = None
<1>1. TypeOK /\ "on_disk" \in readers.made
  BY DEF Inv, ReaderMatchesConfig, TypeOK
<1>2. in_mem' = None
  BY DEF ClearReaders, Inv, ClearedEverywhere, ClearProgress
<1>3. disk' = EmptiedDirectories
  BY <1>1 DEF ClearReaders
<1> QED
  BY <1>1, <1>2, <1>3, EmptiedType DEF ReadersCleared, Fresh

\* The readers clear, and the registry is the work that is left.
LEMMA ClearAllReadersStep ==
  ASSUME Inv, ClearAllReaders
  PROVE  Inv'
<1>1. /\ TypeOK /\ WrappedRegistered /\ admin.at \in {"clear_all", "clear_file"} /\ ClearReaders
      /\ UNCHANGED <<scenario, config, readers, vfs, registry, exclusion, metadata, collectors,
                     callback, op, clears>>
  BY DEF Inv, ReaderMatchesConfig, ClearAllReaders
<1>2. /\ admin' \in Admins /\ admin'.at \in {"clear_all_fs", "clear_file_fs"}
      /\ admin'.todo = registry
  BY <1>1 DEF ClearAllReaders, Admins, WrappedRegistered
<1>3. /\ ReadersCleared' /\ in_mem' = None /\ disk' \in [Directories -> {None} \cup Nat]
  BY <1>1, ClearReadersFresh
<1>4. ClearedEverywhere'
  BY <1>1, <1>2, <1>3 DEF ClearedEverywhere, ClearProgress, Inv
<1>5. StaleOnlyAfterSet'
  BY <1>1 DEF Inv, StaleOnlyAfterSet, TakenCurrent
<1> QED
  BY <1>1, <1>2, <1>3, <1>4, <1>5, ClearingStep DEF TypeOK

\* A file system of the registry clears its metadata, and the readers again.
LEMMA ClearFileSystemStep ==
  ASSUME Inv, ClearFileSystem
  PROVE  Inv'
<1>1. /\ TypeOK /\ admin.at \in {"clear_all_fs", "clear_file_fs"} /\ ClearReaders
      /\ UNCHANGED <<scenario, config, readers, vfs, registry, exclusion, collectors, callback,
                     op, clears>>
  BY DEF Inv, ReaderMatchesConfig, ClearFileSystem
<1>2. PICK f \in admin.todo : /\ metadata' = [metadata EXCEPT ![f] = None]
                              /\ admin' = [admin EXCEPT !.todo = admin.todo \ {f}]
  BY DEF ClearFileSystem
<1>3. admin' \in Admins /\ admin'.at = admin.at /\ admin'.todo = admin.todo \ {f}
  <2>1. admin.todo \ {f} \in SUBSET FileSystems /\ admin \in Admins
    BY <1>1 DEF TypeOK, Admins
  <2> QED
    BY <1>2, <2>1, Zenon DEF Admins
<1>4. /\ ReadersCleared' /\ in_mem' = None /\ disk' \in [Directories -> {None} \cup Nat]
  BY <1>1, ClearReadersFresh
<1>5. /\ metadata' \in [FileSystems -> {None} \cup Nat]
      /\ \A g \in registry : metadata'[g] = None \/ (g # f /\ metadata'[g] = metadata[g])
  <2>1. registry \subseteq FileSystems
    BY DEF Inv, ReaderMatchesConfig, WrappedRegistered
  <2> QED
    BY <1>1, <1>2, <2>1 DEF TypeOK
<1>6. \A g \in registry \ admin'.todo : Fresh(metadata[g])'
  BY <1>1, <1>3, <1>5 DEF Inv, ClearedEverywhere, ClearProgress, Fresh
<1>7. ClearedEverywhere'
  BY <1>1, <1>3, <1>4, <1>6 DEF ClearedEverywhere, ClearProgress, Inv
<1>8. StaleOnlyAfterSet'
  BY <1>1 DEF Inv, StaleOnlyAfterSet, TakenCurrent
<1> QED
  BY <1>1, <1>3, <1>4, <1>5, <1>7, <1>8, ClearingStep DEF TypeOK

\* When every file system of the registry has cleared, the clear is done.
LEMMA ClearDoneStep ==
  ASSUME Inv, ClearDone
  PROVE  Inv'
<1>1. /\ TypeOK /\ WrappedRegistered /\ admin.at \in {"clear_all_fs", "clear_file_fs"}
      /\ admin.todo = {}
      /\ UNCHANGED <<scenario, config, readers, in_mem, disk, vfs, registry, exclusion, metadata,
                     callback, op, clears>>
  BY DEF Inv, ReaderMatchesConfig, ClearDone
<1>2. admin' \in Admins /\ admin'.at = "cleared"
  <2>1. admin' = [admin EXCEPT !.at = "cleared"]
    BY DEF ClearDone
  <2> QED
    BY <1>1, <2>1, Zenon DEF TypeOK, Admins
<1>3. /\ collectors' \in [Connections -> {None} \cup Collectors]
      /\ collectors["query"] = None => collectors'["query"] = None
      /\ collectors["query"] # None =>
            /\ collectors'["query"] # None
            /\ collectors'["query"].changed = collectors["query"].changed
            /\ collectors'["query"].type = collectors["query"].type
  <2>1. CASE ResetProfileCollector("admin")
    BY <1>1, <2>1, ResetCollectors DEF Connections
  <2>2. CASE collectors' = collectors
    BY <1>1, <2>2 DEF TypeOK
  <2> QED
    BY <2>1, <2>2 DEF ClearDone
<1>4. ReadersCleared' /\ \A f \in registry : Fresh(metadata[f])'
  BY <1>1 DEF Inv, ClearedEverywhere, ClearProgress, ReadersCleared, Fresh
<1>5. ClearProgress'
  BY <1>1, <1>2, <1>4 DEF Inv, ClearedEverywhere, ClearProgress
<1>6. ClearedEverywhere'
  BY <1>1, <1>4, <1>5 DEF ClearedEverywhere, ReadersCleared, WrappedRegistered
<1>7. StaleOnlyAfterSet'
  BY <1>1, <1>3 DEF Inv, StaleOnlyAfterSet, TakenCurrent
<1> QED
  BY <1>1, <1>2, <1>3, <1>6, <1>7, ClearingStep DEF TypeOK

\* The clear returns.
LEMMA ClearReturnStep ==
  ASSUME Inv, ClearReturn
  PROVE  Inv'
<1>1. /\ TypeOK /\ admin.at = "cleared" /\ admin' = IdleAdmin
      /\ UNCHANGED <<scenario, config, readers, in_mem, disk, vfs, registry, exclusion, metadata,
                     collectors, callback, op, clears>>
  BY DEF Inv, ReaderMatchesConfig, ClearReturn
<1>2. admin' \in Admins /\ admin'.at = "idle"
  BY <1>1 DEF IdleAdmin, Admins
<1>3. ClearedEverywhere'
  BY <1>1, <1>2, NotClearing
<1>4. StaleOnlyAfterSet'
  BY <1>1 DEF Inv, StaleOnlyAfterSet, TakenCurrent
<1> QED
  BY <1>1, <1>2, <1>3, <1>4, ClearingStep DEF TypeOK

---------------------------------------------------------------------------
(* A restart: the state is made anew, the cache directories are still there. *)

\* The load after a restart establishes the invariant again.
LEMMA RestartStep ==
  ASSUME Inv, Restart
  PROVE  Inv'
<1>1. TypeOK'
  <2>1. <<DefaultDir>> \in Seq(Directories) \ {<< >>}
    BY InstanceAssumption
  <2>2. /\ scenario' \in Scenarios /\ clears' \in 0 .. scenario'.clears
        /\ disk' \in [Directories -> {None} \cup Nat]
    BY DEF Restart, Load, Inv, ReaderMatchesConfig, TypeOK
  <2>3. /\ config'.counts \in [Counts -> 0 .. 1]
        /\ \A n \in Counts \ {"min_disk_bytes"} : config'.counts[n] > 0
    BY DEF Restart, Load, DefaultConfig
  <2>4. config'.choices \in [Choices -> {"listed"}]
    BY DEF Restart, Load, DefaultConfig
  <2>5. config' \in Settings
    BY <2>1, <2>3, <2>4 DEF Restart, Load, DefaultConfig, Settings, CacheTypes, ProfileTypes
  <2>6. /\ readers' \in [made : SUBSET CacheTypes, current : CacheTypes]
        /\ readers'.current \in readers'.made /\ "on_disk" \in readers'.made
    BY DEF Restart, Load, CacheTypes
  <2>7. IdleOp \in Ops /\ op' \in [Threads -> Ops]
    BY DEF Restart, Load, IdleOp, Ops
  <2>8. vfs' \subseteq FileSystems \X {"plain", "cached"}
    BY LoadedVfsType DEF Restart, Load
  <2>9. admin' \in Admins /\ exclusion' \subseteq Regexes /\ in_mem' \in {None} \cup Nat
    BY DEF Restart, Load, IdleAdmin, Admins
  <2>10. metadata' \in [FileSystems -> {None} \cup Nat]
    BY DEF Restart, Load
  <2>11. collectors' \in [Connections -> {None} \cup Collectors]
    BY DEF Restart, Load
  <2> QED
    BY <2>2, <2>3, <2>5, <2>6, <2>7, <2>8, <2>9, <2>10, <2>11 DEF TypeOK
<1>2. WrappedRegistered'
  BY InstanceAssumption, LoadedVfsType DEF Restart, Load, WrappedRegistered, IdleAdmin
<1>3. ReaderMatchesConfig'
  BY <1>1, <1>2 DEF ReaderMatchesConfig, Restart, Load, DefaultConfig
<1>4. ClearedEverywhere'
  BY NoneAssumption
     DEF Restart, Load, ClearedEverywhere, ClearProgress, IdleAdmin, IdleOp, CacheTypes
<1>5. StaleOnlyAfterSet'
  BY DEF Restart, Load, StaleOnlyAfterSet, TakenCurrent, IdleOp, Connections
<1> QED
  BY <1>3, <1>4, <1>5 DEF Inv

---------------------------------------------------------------------------
(* The theorems. *)

\* Every step of the extension keeps the invariant.
LEMMA NextInv == Inv /\ [Next]_vars => Inv'
<1> SUFFICES ASSUME Inv, [Next]_vars PROVE Inv'
  OBVIOUS
<1>1. CASE \E t \in scenario.threads :
              \/ OpenFile(t) \/ OpenReader(t) \/ Close(t) \/ Read(t) \/ ReadEnd(t)
              \/ BindConfigQuery(t) \/ FillConfigRow(t) \/ ConfigQueryEnd(t)
  <2>1. scenario.threads \subseteq Threads
    BY InstanceAssumption DEF Inv, ReaderMatchesConfig, TypeOK
  <2>2. PICK t \in Threads : \/ OpenFile(t) \/ OpenReader(t) \/ Close(t) \/ Read(t) \/ ReadEnd(t)
                             \/ BindConfigQuery(t) \/ FillConfigRow(t) \/ ConfigQueryEnd(t)
    BY <1>1, <2>1
  <2> QED
    BY <2>2, OpenFileStep, OpenReaderStep, CloseStep, ReadStep, ReadEndStep, BindStep, FillStep,
       ConfigQueryEndStep
<1>2. CASE ResetProfileStats \/ OnConnectionClosed
  BY <1>2, ResetProfileStatsStep, OnConnectionClosedStep
<1>3. CASE UpdateCacheType \/ UpdateCacheReader \/ UpdateProfileType \/ UpdateCollector \/ UpdateSetting
  BY <1>3, UpdateCacheTypeStep, UpdateCacheReaderStep, UpdateProfileTypeStep, UpdateCollectorStep,
     UpdateSettingStep
<1>4. CASE WrapCacheFileSystem \/ RegisterSubSystem
  BY <1>4, WrapStep
<1>5. CASE AddCacheExclusionRegex \/ ResetCacheExclusionRegex
  BY <1>5, ExclusionStep
<1>6. CASE ClearAllCache \/ ClearAllReaders \/ ClearFileSystem \/ ClearDone \/ ClearReturn
  BY <1>6, ClearAllCacheStep, ClearAllReadersStep, ClearFileSystemStep, ClearDoneStep,
     ClearReturnStep
<1>7. CASE Restart
  BY <1>7, RestartStep
<1>8. CASE UNCHANGED vars
  BY <1>8 DEF vars, Inv, ReaderMatchesConfig, TypeOK, WrappedRegistered, ClearedEverywhere,
              ClearProgress, ReadersCleared, Fresh, StaleOnlyAfterSet, TakenCurrent
<1> QED
  BY <1>1, <1>2, <1>3, <1>4, <1>5, <1>6, <1>7, <1>8 DEF Next

\* The invariant holds in every reachable state.
LEMMA SpecInv == Spec => []Inv
  BY InitInv, NextInv, PTL DEF Spec

\* Whatever SETs, clears, wraps and restarts come in whatever order, the reader
\* in use is the one the cache type setting names, except between the two
\* statements of UpdateCacheType that store the one and set the other; it has
\* been made; and every file system that is cached is in the registry.
THEOREM ReaderMatchesConfigAlways == Spec => []ReaderMatchesConfig
<1>1. Inv => ReaderMatchesConfig
  BY DEF Inv
<1> QED
  BY <1>1, SpecInv, PTL

\* When cache_httpfs_clear_cache returns, no reader, no configured directory and
\* no wrapped file system holds an entry stored before the clear began, for
\* every number of directories, file systems and threads, though queries read,
\* store and change settings while it runs.
THEOREM ClearedEverywhereAlways == Spec => []ClearedEverywhere
<1>1. Inv => ClearedEverywhere
  BY DEF Inv
<1> QED
  BY <1>1, SpecInv, PTL

\* A file that is open refers to a collector that was replaced, and a row of
\* the configuration differs from its columns, only when a SET came in between.
THEOREM StaleOnlyAfterSetAlways == Spec => []StaleOnlyAfterSet
<1>1. Inv => StaleOnlyAfterSet
  BY DEF Inv
<1> QED
  BY <1>1, SpecInv, PTL
============================================================================
