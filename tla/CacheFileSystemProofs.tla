----------------------- MODULE CacheFileSystemProofs -----------------------
(***************************************************************************)
(* Proofs about CacheFileSystem, for any number of threads, versions and   *)
(* settings.  The invariant has three parts: what holds of each thread     *)
(* (ThreadOK), of the caches they share (SharedOK), and of a call with a   *)
(* clear that no other call runs beside (AloneOK).  A step of a thread     *)
(* changes its own record and perhaps one cache, so most lemmas show that  *)
(* the new record is ThreadOK and leave the rest to OpStep.                *)
(***************************************************************************)
EXTENDS CacheFileSystem, TLAPS

\* What holds of each thread between two steps.
ThreadOK(o) ==
    /\ o \in Ops /\ Placed(o) /\ TakenFresh(o)
    /\ crashed \/ \A c \in Members : InsideOf(o, c) => caches[c] # None
    /\ o.handle # None /\ o.handle.cached => file_handle_cache # None
    /\ o.at = "clear" => o.todo \in Todos
    /\ config.enable_cache_validation /\ o.at \in {"store", "have_data"} =>
           o.val.size >= o.handle.ver

\* What holds of the caches that all threads use.
SharedOK ==
    /\ config \in Settings
    /\ remote \in [ver : Versions, there : BOOLEAN]
    /\ caches \in [Members -> {None} \cup Caches]
    /\ file_handle_cache \in {None} \cup SUBSET Versions
    /\ data \in {None} \cup Blocks
    /\ crashed \in BOOLEAN
    /\ clean \in [{"metadata", "glob", "data"} -> Versions]
    /\ caches["metadata"] # None => config.enable_metadata_cache \/ config.toggling
    /\ caches["glob"] # None => config.enable_glob_cache
    /\ ~config.toggling => ~crashed
    /\ NothingOlder
    /\ config.enable_cache_validation /\ data # None =>
           data.tag \in Versions /\ data.ver >= data.tag

\* What holds of a thread that is alone.
AloneOK ==
    /\ alone \in {None} \cup Threads
    /\ OthersIdle /\ StaysCleared
    /\ alone # None /\ op[alone].at \in {"unlink", "unlinked"} =>
            /\ caches["metadata"] # None => caches["metadata"].entry = None
            /\ file_handle_cache \in {None, {}}
            /\ data = None

Inv == op \in [Threads -> Ops] /\ SharedOK /\ AloneOK /\ \A t \in Threads : ThreadOK(op[t])

\* None of the values that are looked at is None.
LEMMA NotNone ==
  /\ None \notin Threads /\ None \notin Versions /\ None \notin Values /\ None \notin Caches
  /\ None \notin Handles /\ None \notin Blocks /\ None \notin SUBSET Versions
  BY FileSystemAssumption, NoneAssumption, Zenon

\* The versions are numbers.
LEMMA VersionsNat == \A v \in Versions : v \in Nat
  BY FileSystemAssumption DEF Versions

\* A thread between two calls.
LEMMA HoldingType ==
  ASSUME NEW h \in {None} \cup Handles
  PROVE  /\ Holding(h) \in Ops /\ Holding(h).at = "idle" /\ Holding(h).handle = h
         /\ Holding(h).since = 0 /\ Holding(h).next = "idle"
<1>1. 0 \in Versions
  BY FileSystemAssumption DEF Versions
<1>2. << >> \in Seq({"metadata", "glob", "handles", "all_handles", "data"})
  OBVIOUS
<1> QED
  BY <1>1, <1>2, Zenon DEF Holding, Ops

\* The caches are empty at first.
LEMMA InitInv == Init => Inv
<1> SUFFICES ASSUME Init PROVE Inv
  BY Zenon
<1>1. 0 \in Versions
  BY FileSystemAssumption DEF Versions
<1>2. \A t \in Threads : op[t] = Holding(None)
  BY Zenon DEF Init, Idle
<1>3. op \in [Threads -> Ops]
  BY HoldingType, Zenon DEF Init, Idle
<1>4. /\ remote \in [ver : Versions, there : BOOLEAN] /\ remote.ver = 0
      /\ caches \in [Members -> {None} \cup Caches]
      /\ caches["metadata"] = None /\ caches["glob"] = None
      /\ clean \in [{"metadata", "glob", "data"} -> Versions]
      /\ \A c \in {"metadata", "glob", "data"} : clean[c] = 0
  BY <1>1, Zenon DEF Init, Members
<1>5. NothingOlder
  BY <1>4 DEF NothingOlder, Init
<1>6. SharedOK
  BY <1>4, <1>5, FileSystemAssumption, Zenon DEF SharedOK, Init
<1>7. AloneOK
  BY Zenon DEF AloneOK, OthersIdle, StaysCleared, Init
<1>8. ASSUME NEW t \in Threads PROVE ThreadOK(op[t])
  <2>1. /\ op[t] \in Ops /\ op[t].at = "idle" /\ op[t].handle = None /\ op[t].since = 0
    BY <1>2, HoldingType, Zenon
  <2>2. Placed(op[t]) /\ TakenFresh(op[t])
    BY <2>1, <1>4 DEF Placed, TakenFresh
  <2> QED
    BY <2>1, <2>2, Zenon DEF ThreadOK, InsideOf
<1> QED
  BY <1>3, <1>6, <1>7, <1>8, Zenon DEF Inv

---------------------------------------------------------------------------
(* What a step must establish. *)

\* A thread that takes no step keeps what holds of it.
LEMMA ThreadKept ==
  ASSUME Inv, NEW u \in Threads, op'[u] = op[u],
         UNCHANGED clean, config'.enable_cache_validation = config.enable_cache_validation,
         remote'.ver \in Versions, remote'.ver >= remote.ver,
         crashed' \/ (~crashed /\ \A c \in Members :
                         caches[c] # None /\ Inside(c) # {} => caches'[c] # None),
         file_handle_cache # None => file_handle_cache' # None
  PROVE  ThreadOK(op[u])'
<1> DEFINE o == op[u]
<1>1. /\ o \in Ops /\ Placed(o) /\ TakenFresh(o) /\ remote.ver \in Versions
      /\ crashed \/ \A c \in Members : InsideOf(o, c) => caches[c] # None
      /\ o.handle # None /\ o.handle.cached => file_handle_cache # None
      /\ o.at = "clear" => o.todo \in Todos
      /\ config.enable_cache_validation /\ o.at \in {"store", "have_data"} =>
           o.val.size >= o.handle.ver
      /\ clean \in [{"metadata", "glob", "data"} -> Versions]
  BY Zenon DEF Inv, ThreadOK, SharedOK
<1>2. \A c \in {"metadata", "glob", "data"}, v \in Int :
         v \in clean[c] .. remote.ver => v \in clean[c] .. remote'.ver
  BY <1>1, FileSystemAssumption DEF Versions
<1>3. \A c \in {"metadata", "glob", "data"} : \A v : Fresh(c, v) => Fresh(c, v)'
  <2> SUFFICES ASSUME NEW c \in {"metadata", "glob", "data"}, NEW v, Fresh(c, v)
               PROVE  v \in clean'[c] .. remote'.ver
    BY Zenon DEF Fresh
  <2> QED
    BY <1>1, <1>2 DEF Fresh
<1>4. TakenFresh(o)'
  <2>1. o.since <= remote'.ver
    BY <1>1, FileSystemAssumption DEF TakenFresh, Ops, Versions
  <2> QED
    BY <1>1, <1>3, <2>1, Zenon DEF TakenFresh, FreshMetadata
<1>5. \A c \in Members : InsideOf(o, c) => Inside(c) # {}
  BY Zenon DEF Inside
<1> QED
  BY <1>1, <1>4, <1>5, Zenon DEF ThreadOK, Placed, InsideOf

\* What holds of the caches as long as they are as they were.
LEMMA SharedKept ==
  ASSUME SharedOK, UNCHANGED <<config, remote, caches, file_handle_cache, data, clean, crashed>>
  PROVE  SharedOK'
  BY DEF SharedOK, NothingOlder, Fresh, FreshMetadata

\* A step of a thread after which it is in no clear that has come far.
LEMMA OpStep ==
  ASSUME Inv, ~crashed, NEW t \in Threads, NEW r \in Ops, op' = [op EXCEPT ![t] = r], Alone(t),
         SharedOK', ThreadOK(r)',
         UNCHANGED <<config, clean>>, remote'.ver >= remote.ver,
         crashed' \/ \A c \in Members : caches[c] # None /\ Inside(c) # {} => caches'[c] # None,
         file_handle_cache # None => file_handle_cache' # None,
         r.at \notin {"unlink", "unlinked"}, r.at = "clear" => r.todo \notin AfterMetadata
  PROVE  Inv'
<1>1. op' \in [Threads -> Ops] /\ op'[t] = r
  BY Zenon DEF Inv
<1>2. ASSUME NEW u \in Threads PROVE ThreadOK(op[u])'
  <2>1. CASE u = t
    BY <1>1, <2>1 DEF ThreadOK, Placed, TakenFresh, FreshMetadata, Fresh, InsideOf
  <2>2. CASE u # t
    <3>1. op'[u] = op[u] /\ remote'.ver \in Versions
      BY <2>2, Zenon DEF Inv, SharedOK
    <3> QED
      BY <3>1, ThreadKept, Zenon
  <2> QED
    BY <2>1, <2>2, Zenon
<1>3. alone' \in {None, t} /\ (alone' = t => r.at # "idle" /\ \A u \in Threads \ {t} : op[u].at = "idle")
  BY <1>1, NotNone, Zenon DEF Alone
<1>4. AloneOK'
  BY <1>1, <1>3, NotNone, Zenon DEF AloneOK, OthersIdle, StaysCleared, Inv
<1> QED
  BY <1>1, <1>2, <1>4, Zenon DEF Inv

\* Between two calls a thread has nothing but its handle.
LEMMA HoldingOK ==
  ASSUME Inv, NEW h \in {None} \cup Handles, h # None => Fresh("metadata", h.ver),
         h # None /\ h.cached => file_handle_cache # None
  PROVE  ThreadOK(Holding(h))
<1>1. /\ Holding(h) \in Ops /\ Holding(h).at = "idle" /\ Holding(h).handle = h
      /\ Holding(h).since = 0
  BY HoldingType, Zenon
<1>2. remote.ver >= 0
  BY FileSystemAssumption DEF Inv, SharedOK, Versions
<1>3. Placed(Holding(h))
  BY <1>1, Zenon DEF Placed
<1>4. TakenFresh(Holding(h))
  BY <1>1, <1>2, Zenon DEF TakenFresh
<1> QED
  BY <1>1, <1>3, <1>4, Zenon DEF ThreadOK, InsideOf

\* A step that leaves the caches and the file alone.
LEMMA QuietStep ==
  ASSUME Inv, ~crashed, NEW t \in Threads, NEW r \in Ops, op' = [op EXCEPT ![t] = r], Alone(t),
         UNCHANGED <<config, remote, caches, file_handle_cache, data, clean, crashed>>,
         ThreadOK(r), r.at \notin {"unlink", "unlinked"},
         r.at = "clear" => r.todo \notin AfterMetadata
  PROVE  Inv'
<1>1. SharedOK'
  BY SharedKept, Zenon DEF Inv
<1>2. ThreadOK(r)'
  BY Zenon DEF ThreadOK, Placed, TakenFresh, FreshMetadata, Fresh, InsideOf
<1>3. remote'.ver >= remote.ver
  BY FileSystemAssumption DEF Inv, SharedOK, Versions
<1> QED
  BY <1>1, <1>2, <1>3, OpStep, Zenon

\* A call returns.
LEMMA ReturnStep ==
  ASSUME Inv, ~crashed, NEW t \in Threads, Return(t), Alone(t),
         UNCHANGED <<config, remote, caches, file_handle_cache, data, clean, crashed>>
  PROVE  Inv'
<1>1. PICK h : h = op[t].handle
  BY Zenon
<1>2. /\ h \in {None} \cup Handles /\ (h # None => Fresh("metadata", h.ver))
      /\ h # None /\ h.cached => file_handle_cache # None
  BY <1>1, Zenon DEF Inv, ThreadOK, TakenFresh, Ops
<1>3. PICK r : r = Holding(h)
  BY Zenon
<1>4. op' = [op EXCEPT ![t] = r]
  BY <1>1, <1>3, Zenon DEF Return
<1>5. r \in Ops /\ r.at = "idle" /\ ThreadOK(r)
  BY <1>2, <1>3, HoldingOK, HoldingType, Zenon
<1> QED
  BY <1>4, <1>5, QuietStep, Zenon

\* What was handed over is a value of the file.
LEMMA ValueType ==
  ASSUME NEW v \in Versions, NEW w \in Versions, NEW b \in BOOLEAN
  PROVE  /\ Value(v, w, b) \in Values /\ Value(v, w, b) # None
         /\ Value(v, w, b).size = v /\ Value(v, w, b).mtime = w
  BY NotNone DEF Value, Values

\* The version the file has now is fresh, and no handle is newer.
LEMMA RemoteFresh ==
  ASSUME Inv
  PROVE  /\ remote.ver \in Versions /\ remote.there \in BOOLEAN
         /\ \A c \in {"metadata", "glob", "data"} : Fresh(c, remote.ver)
         /\ \A t \in Threads : op[t].handle # None => remote.ver >= op[t].handle.ver
<1>1. remote.ver \in Versions /\ remote.there \in BOOLEAN
  BY Zenon DEF Inv, SharedOK
<1>2. ASSUME NEW c \in {"metadata", "glob", "data"} PROVE Fresh(c, remote.ver)
  BY <1>1, FileSystemAssumption DEF Inv, SharedOK, NothingOlder, Fresh, Versions
<1>3. ASSUME NEW t \in Threads, op[t].handle # None PROVE remote.ver >= op[t].handle.ver
  <2>1. Fresh("metadata", op[t].handle.ver) /\ clean["metadata"] \in Versions
    BY <1>3, Zenon DEF Inv, ThreadOK, TakenFresh, SharedOK
  <2> QED
    BY <1>1, <2>1, FileSystemAssumption DEF Fresh, Versions
<1> QED
  BY <1>1, <1>2, <1>3, Zenon

\* What a thread is about to hold when it goes on in its call.
LEMMA Moved ==
  ASSUME Inv, NEW t \in Threads, NEW r \in Ops,
         r.handle = op[t].handle, r.since = op[t].since, Placed(r), r.at # "clear",
         \A c \in Members : InsideOf(r, c) => caches[c] # None,
         r.at \in {"stat2", "publish_metadata", "set", "fill", "have_metadata"} =>
             FreshMetadata(r.val),
         r.at \in {"set", "fill", "publish_glob", "have_glob"} => Fresh("glob", r.val.size),
         r.at \in {"store", "have_data"} => Fresh("data", r.val.size),
         config.enable_cache_validation /\ r.at \in {"store", "have_data"} =>
             r.val.size >= r.handle.ver
  PROVE  ThreadOK(r)
  BY Zenon DEF Inv, ThreadOK, TakenFresh

\* A served call returns, or a read goes on with the size.
LEMMA ServedStep ==
  ASSUME Inv, ~crashed, NEW t \in Threads, Served(t), Alone(t)
  PROVE  Inv'
<1>1. CASE Return(t)
  BY <1>1, ReturnStep, Zenon DEF Served
<1>2. CASE ~Return(t)
  <2>1. PICK r : /\ r = [op[t] EXCEPT !.at = "read", !.next = "idle", !.val = None]
                 /\ op' = [op EXCEPT ![t] = r] /\ op[t].at = "have_metadata"
    BY <1>2, Zenon DEF Served
  <2>2. op[t] \in Ops /\ op[t].handle # None
    BY <2>1, Zenon DEF Inv, ThreadOK, Placed
  <2>3. /\ r \in Ops /\ r.at = "read" /\ r.handle = op[t].handle /\ r.since = op[t].since
    BY <2>1, <2>2, Zenon DEF Ops
  <2>4. ThreadOK(r)
    BY <2>2, <2>3, Moved, Zenon DEF Placed, InsideOf
  <2> QED
    BY <2>1, <2>3, <2>4, QuietStep, Zenon DEF Served
<1> QED
  BY <1>1, <1>2, Zenon

\* A block is read from the remote.
LEMMA FetchStep ==
  ASSUME Inv, ~crashed, NEW t \in Threads, Fetch(t), Alone(t)
  PROVE  Inv'
<1>1. CASE Return(t)
  BY <1>1, ReturnStep, Zenon DEF Fetch
<1>2. CASE ~Return(t)
  <2>1. PICK v : v = Value(remote.ver, remote.ver, TRUE)
    BY Zenon
  <2>2. PICK r : /\ r = [op[t] EXCEPT !.at = "store", !.val = v]
                 /\ op' = [op EXCEPT ![t] = r] /\ op[t].at = "fetch"
    BY <1>2, <2>1, Zenon DEF Fetch
  <2>3. op[t] \in Ops /\ op[t].handle # None
    BY <2>2, Zenon DEF Inv, ThreadOK, Placed
  <2>4. v \in Values /\ v # None /\ v.size = remote.ver
    BY <2>1, ValueType, RemoteFresh, Zenon
  <2>5. /\ r \in Ops /\ r.at = "store" /\ r.handle = op[t].handle /\ r.since = op[t].since
        /\ r.val = v
    BY <2>2, <2>3, <2>4, Zenon DEF Ops
  <2>6. ThreadOK(r)
    BY <2>3, <2>4, <2>5, Moved, RemoteFresh, Zenon DEF Placed, InsideOf
  <2> QED
    BY <2>2, <2>5, <2>6, QuietStep, Zenon DEF Fetch
<1> QED
  BY <1>1, <1>2

---------------------------------------------------------------------------
(* Reads. *)

\* Caches from which something was dropped hold nothing that they did not.
LEMMA Dropped ==
  ASSUME SharedOK, UNCHANGED <<config, remote, clean, crashed>>,
         caches' \in [Members -> {None} \cup Caches],
         \A c \in Members : caches'[c] # None =>
             caches[c] # None /\ caches'[c].entry \in {None, caches[c].entry},
         file_handle_cache' \in {None} \cup SUBSET Versions,
         file_handle_cache' # None =>
             \A v \in file_handle_cache' : file_handle_cache # None /\ v \in file_handle_cache,
         data' \in {data, None}
  PROVE  SharedOK'
<1>1. "metadata" \in Members /\ "glob" \in Members
  BY Zenon DEF Members
<1>2. NothingOlder'
  BY <1>1, Zenon DEF SharedOK, NothingOlder, Fresh, FreshMetadata
<1> QED
  BY <1>1, <1>2, NotNone, Zenon DEF SharedOK

\* A read takes the block of its tag, or drops it and fetches.
LEMMA ReadStep ==
  ASSUME Inv, ~crashed, NEW t \in Threads, Read(t), Alone(t)
  PROVE  Inv'
<1>0. /\ op[t].at = "read" /\ op[t] \in Ops /\ op[t].handle # None
      /\ UNCHANGED <<config, remote, caches, file_handle_cache, clean, crashed>>
  BY Zenon DEF Read, Inv, ThreadOK, Placed
<1>1. CASE Return(t) /\ UNCHANGED data
  BY <1>0, <1>1, ReturnStep, Zenon
<1>2. ASSUME NEW w \in Versions, UNCHANGED data, Fresh("data", w),
             config.enable_cache_validation => w >= op[t].handle.ver,
             op' = [op EXCEPT ![t] = [@ EXCEPT !.at = "have_data", !.val = Value(w, w, TRUE)]]
      PROVE  Inv'
  <2>1. PICK v : v = Value(w, w, TRUE)
    BY Zenon
  <2>2. PICK r : /\ r = [op[t] EXCEPT !.at = "have_data", !.val = v]
                 /\ op' = [op EXCEPT ![t] = r]
    BY <1>2, <2>1, Zenon
  <2>3. v \in Values /\ v # None /\ v.size = w
    BY <2>1, ValueType, Zenon
  <2>4. /\ r \in Ops /\ r.at = "have_data" /\ r.handle = op[t].handle /\ r.since = op[t].since
        /\ r.val = v
    BY <1>0, <2>2, <2>3, Zenon DEF Ops
  <2>5. ThreadOK(r)
    BY <1>0, <1>2, <2>3, <2>4, Moved, Zenon DEF Placed, InsideOf
  <2> QED
    BY <1>0, <1>2, <2>2, <2>4, <2>5, QuietStep, Zenon
<1>3. CASE /\ op' = [op EXCEPT ![t] = [@ EXCEPT !.at = "have_data",
                                                !.val = Value(remote.ver, remote.ver, TRUE)]]
           /\ UNCHANGED data
  BY <1>0, <1>2, <1>3, RemoteFresh, Zenon
<1>4. CASE /\ op' = [op EXCEPT ![t] = [@ EXCEPT !.at = "have_data",
                                                !.val = Value(data.ver, data.ver, TRUE)]]
           /\ UNCHANGED data /\ Hit(t)
  <2>1. /\ data # None /\ data.ver \in Versions /\ Fresh("data", data.ver)
        /\ config.enable_cache_validation => data.ver >= data.tag
        /\ data.tag = Tag(t)
    BY <1>4, Zenon DEF Hit, Inv, SharedOK, NothingOlder, Blocks
  <2>2. config.enable_cache_validation => data.ver >= op[t].handle.ver
    BY <2>1, Zenon DEF Tag
  <2> QED
    BY <1>2, <1>4, <2>1, <2>2, Zenon
<1>5. CASE Goto(t, "fetch") /\ data' = None
  <2>1. PICK r : r = [op[t] EXCEPT !.at = "fetch"] /\ op' = [op EXCEPT ![t] = r]
    BY <1>5, Zenon DEF Goto
  <2>2. r \in Ops /\ r.at = "fetch" /\ r.handle = op[t].handle /\ r.since = op[t].since
    BY <1>0, <2>1, Zenon DEF Ops
  <2>3. ThreadOK(r)
    BY <1>0, <2>2, Moved, Zenon DEF Placed, InsideOf
  <2>4. ThreadOK(r)'
    BY <1>0, <2>3, Zenon DEF ThreadOK, Placed, TakenFresh, FreshMetadata, Fresh, InsideOf
  <2>5. SharedOK /\ remote.ver \in Int
    BY FileSystemAssumption DEF Inv, SharedOK, Versions
  <2>6. /\ caches' \in [Members -> {None} \cup Caches]
        /\ file_handle_cache' \in {None} \cup SUBSET Versions
    BY <1>0, <2>5, Zenon DEF SharedOK
  <2>7. SharedOK'
    BY <1>0, <1>5, <2>5, <2>6, Dropped, Zenon
  <2>8. remote'.ver >= remote.ver
    BY <1>0, <2>5
  <2> QED
    BY <1>0, <2>1, <2>2, <2>4, <2>7, <2>8, OpStep, Zenon
<1> QED
  BY <1>1, <1>3, <1>4, <1>5, Zenon DEF Read

\* A block is stored under the tag of the handle it was read with.
LEMMA StoreStep ==
  ASSUME Inv, ~crashed, NEW t \in Threads, Store(t), Alone(t)
  PROVE  Inv'
<1>0. /\ op[t].at = "store" /\ op[t] \in Ops /\ op[t].handle # None /\ op[t].val # None
      /\ UNCHANGED <<config, remote, caches, file_handle_cache, clean, crashed>>
      /\ data' = [ver |-> op[t].val.size, tag |-> Tag(t)]
      /\ SharedOK /\ ThreadOK(op[t])
  BY Zenon DEF Store, Inv, ThreadOK, Placed
<1>1. PICK r : r = [op[t] EXCEPT !.at = "have_data"] /\ op' = [op EXCEPT ![t] = r]
  BY Zenon DEF Store, Goto
<1>2. /\ r \in Ops /\ r.at = "have_data" /\ r.handle = op[t].handle /\ r.since = op[t].since
      /\ r.val = op[t].val
  BY <1>0, <1>1, Zenon DEF Ops
<1>3. /\ Fresh("data", op[t].val.size) /\ op[t].val.size \in Versions
      /\ op[t].handle.ver \in Versions
      /\ config.enable_cache_validation => op[t].val.size >= op[t].handle.ver
  BY <1>0, Zenon DEF ThreadOK, TakenFresh, Ops, Values, Handles
<1>4. ThreadOK(r)
  BY <1>0, <1>2, <1>3, Moved, Zenon DEF Placed, InsideOf
<1>5. ThreadOK(r)'
  BY <1>0, <1>4, Zenon DEF ThreadOK, Placed, TakenFresh, FreshMetadata, Fresh, InsideOf
<1>6. /\ Tag(t) \in {None} \cup Versions
      /\ config.enable_cache_validation => Tag(t) = op[t].handle.ver
  BY <1>3, Zenon DEF Tag
<1>7. /\ data' \in Blocks /\ data'.ver = op[t].val.size /\ data'.tag = Tag(t)
  BY <1>0, <1>3, <1>6, Zenon DEF Blocks
<1>8. NothingOlder'
  BY <1>0, <1>3, <1>7, Zenon DEF SharedOK, NothingOlder, Fresh, FreshMetadata
<1>9. SharedOK'
  BY <1>0, <1>3, <1>6, <1>7, <1>8, Zenon DEF SharedOK
<1>10. remote'.ver >= remote.ver
  BY <1>0, FileSystemAssumption DEF SharedOK, Versions
<1> QED
  BY <1>0, <1>1, <1>2, <1>5, <1>9, <1>10, OpStep, Zenon

---------------------------------------------------------------------------
(* Opening, closing and writing. *)

\* A handle that comes from the cache or is opened now is fresh; what is taken
\* out of the cache is no longer in it.
LEMMA OpenStep ==
  ASSUME Inv, ~crashed, NEW t \in Threads, Open(t), Alone(t)
  PROVE  Inv'
<1>0. /\ UNCHANGED <<config, remote, caches, data, clean, crashed>> /\ SharedOK
      /\ file_handle_cache \in {None} \cup SUBSET Versions
      /\ caches' \in [Members -> {None} \cup Caches] /\ remote'.ver >= remote.ver
  BY FileSystemAssumption DEF Open, Inv, SharedOK, Versions
<1>1. ASSUME NEW v \in Versions, NEW b \in BOOLEAN, Fresh("metadata", v),
             b => file_handle_cache # None,
             op' = [op EXCEPT ![t] = Holding([ver |-> v, cached |-> b])],
             file_handle_cache' = file_handle_cache
             \/ (file_handle_cache # None /\ file_handle_cache' = file_handle_cache \ {v})
      PROVE  Inv'
  <2>1. PICK h : h = [ver |-> v, cached |-> b]
    BY Zenon
  <2>2. h \in Handles /\ h.ver = v /\ (h.cached => b)
    BY <2>1, Zenon DEF Handles
  <2>3. PICK r : r = Holding(h)
    BY Zenon
  <2>4. r \in Ops /\ r.at = "idle" /\ ThreadOK(r)
    BY <1>1, <2>2, <2>3, HoldingOK, HoldingType, Zenon
  <2>5. /\ file_handle_cache' \in {None} \cup SUBSET Versions
        /\ file_handle_cache' # None =>
             \A w \in file_handle_cache' : file_handle_cache # None /\ w \in file_handle_cache
        /\ file_handle_cache # None => file_handle_cache' # None
    BY <1>0, <1>1, NotNone, Zenon
  <2>6. ThreadOK(r)'
    BY <1>0, <2>4, <2>5, Zenon DEF ThreadOK, Placed, TakenFresh, FreshMetadata, Fresh, InsideOf
  <2>7. SharedOK'
    BY <1>0, <2>5, Dropped, Zenon
  <2>8. op' = [op EXCEPT ![t] = r]
    BY <1>1, <2>1, <2>3, Zenon
  <2> QED
    BY <1>0, <2>4, <2>5, <2>6, <2>7, <2>8, OpStep, Zenon
<1>2. CASE \E v \in IF file_handle_cache = None THEN {} ELSE file_handle_cache :
            /\ op' = [op EXCEPT ![t] = Holding([ver |-> v, cached |-> TRUE])]
            /\ file_handle_cache' = file_handle_cache \ {v}
  <2>1. PICK v \in file_handle_cache :
           /\ file_handle_cache # None
           /\ op' = [op EXCEPT ![t] = Holding([ver |-> v, cached |-> TRUE])]
           /\ file_handle_cache' = file_handle_cache \ {v}
    BY <1>2, Zenon
  <2>2. v \in Versions /\ Fresh("metadata", v)
    BY <1>0, <2>1, Zenon DEF SharedOK, NothingOlder
  <2> QED
    BY <1>1, <2>1, <2>2, Zenon
<1>3. CASE /\ op' = [op EXCEPT ![t] = Holding([ver |-> remote.ver,
                                               cached |-> file_handle_cache # None])]
           /\ UNCHANGED file_handle_cache
  BY <1>1, <1>3, RemoteFresh, Zenon
<1>4. CASE Return(t) /\ UNCHANGED file_handle_cache
  BY <1>0, <1>4, ReturnStep, Zenon
<1> QED
  BY <1>2, <1>3, <1>4, Zenon DEF Open

\* The handle that is given back is one of the file, and fresh.
LEMMA CloseStep ==
  ASSUME Inv, ~crashed, NEW t \in Threads, Close(t), Alone(t)
  PROVE  Inv'
<1>0. /\ UNCHANGED <<config, remote, caches, data, clean, crashed>> /\ SharedOK
      /\ file_handle_cache \in {None} \cup SUBSET Versions /\ remote'.ver >= remote.ver
      /\ op[t].handle \in Handles /\ Fresh("metadata", op[t].handle.ver)
  <2>1. /\ UNCHANGED <<config, remote, caches, data, clean, crashed>> /\ SharedOK
        /\ op[t].handle # None /\ op[t] \in Ops /\ TakenFresh(op[t])
    BY Zenon DEF Close, Inv, ThreadOK
  <2>2. file_handle_cache \in {None} \cup SUBSET Versions /\ remote.ver \in Versions
    BY <2>1, Zenon DEF SharedOK
  <2>3. op[t].handle \in Handles /\ Fresh("metadata", op[t].handle.ver)
    BY <2>1, Zenon DEF TakenFresh, Ops
  <2> QED
    BY <2>1, <2>2, <2>3, VersionsNat
<1>1. PICK r : r = Holding(None)
  BY Zenon
<1>2. r \in Ops /\ r.at = "idle" /\ ThreadOK(r)
  BY <1>1, HoldingOK, HoldingType, Zenon
<1>3. /\ op[t].handle.ver \in Versions
      /\ op[t].handle.cached => file_handle_cache # None
      /\ op' = [op EXCEPT ![t] = r]
      /\ file_handle_cache' = IF op[t].handle.cached
                              THEN file_handle_cache \cup {op[t].handle.ver}
                              ELSE file_handle_cache
      /\ op[t].handle.cached \in BOOLEAN
  BY <1>0, <1>1, NotNone, Zenon DEF Close, Inv, ThreadOK, Handles, Idle
<1>4. /\ file_handle_cache' \in {None} \cup SUBSET Versions
      /\ file_handle_cache # None => file_handle_cache' # None
      /\ file_handle_cache' # None => file_handle_cache # None
      /\ \A v \in file_handle_cache' : file_handle_cache' # None => Fresh("metadata", v)
  <2>1. CASE op[t].handle.cached
    <3>1. file_handle_cache \in SUBSET Versions
      BY <1>0, <1>3, <2>1, Zenon
    <3>2. file_handle_cache' = file_handle_cache \cup {op[t].handle.ver}
      BY <1>3, <2>1, Zenon
    <3> QED
      BY <1>0, <1>3, <2>1, <3>1, <3>2, NotNone, Zenon DEF SharedOK, NothingOlder
  <2>2. CASE ~op[t].handle.cached
    BY <1>0, <1>3, <2>2, Zenon DEF SharedOK, NothingOlder
  <2> QED
    BY <2>1, <2>2, Zenon
<1>5. ThreadOK(r)'
  BY <1>0, <1>2, <1>4, Zenon DEF ThreadOK, Placed, TakenFresh, FreshMetadata, Fresh, InsideOf

<1>6. NothingOlder'
  BY <1>0, <1>4, Zenon DEF SharedOK, NothingOlder, Fresh, FreshMetadata
<1>7. SharedOK'
  BY <1>0, <1>4, <1>6, Zenon DEF SharedOK
<1> QED
  BY <1>0, <1>2, <1>3, <1>4, <1>5, <1>7, OpStep, Zenon

\* The caches hold nothing newer than the file when it has changed.
LEMMA LaterShared ==
  ASSUME SharedOK, UNCHANGED <<config, caches, file_handle_cache, data, clean, crashed>>,
         remote' \in [ver : Versions, there : BOOLEAN], remote'.ver >= remote.ver
  PROVE  SharedOK'
<1>1. /\ remote.ver \in Nat /\ remote'.ver \in Nat
      /\ \A c \in {"metadata", "glob", "data"} : clean[c] \in Nat
  BY FileSystemAssumption DEF SharedOK, Versions
<1>2. \A c \in {"metadata", "glob", "data"} : \A v : Fresh(c, v) => Fresh(c, v)'
  BY <1>1 DEF Fresh
<1>3. NothingOlder'
  BY <1>1, <1>2 DEF SharedOK, NothingOlder, FreshMetadata
<1> QED
  BY <1>3, Zenon DEF SharedOK

\* A write makes a new version of the file, and changes no cache.
LEMMA WriteStep ==
  ASSUME Inv, ~crashed, NEW t \in Threads, Write(t), Alone(t)
  PROVE  Inv'
<1>0. /\ UNCHANGED <<config, caches, file_handle_cache, data, clean, crashed>> /\ SharedOK
      /\ remote.ver < MaxVersion /\ remote.ver \in Nat /\ remote.ver \in Versions
      /\ remote' = [ver |-> remote.ver + 1, there |-> TRUE]
  BY FileSystemAssumption DEF Write, Inv, SharedOK, Versions
<1>1. /\ remote' \in [ver : Versions, there : BOOLEAN] /\ remote'.ver = remote.ver + 1
      /\ remote'.ver >= remote.ver
  BY <1>0, FileSystemAssumption DEF Versions
<1>2. SharedOK'
  BY <1>0, <1>1, LaterShared, Zenon
<1>3. PICK h : h = op[t].handle
  BY Zenon
<1>4. /\ h \in {None} \cup Handles /\ (h # None => Fresh("metadata", h.ver))
      /\ h # None /\ h.cached => file_handle_cache # None
  BY <1>3, Zenon DEF Inv, ThreadOK, TakenFresh, Ops
<1>5. PICK r : r = Holding(h)
  OBVIOUS
<1>6. op' = [op EXCEPT ![t] = r]
  BY <1>3, <1>5, Zenon DEF Write, Return
<1>7. r \in Ops /\ r.at = "idle" /\ ThreadOK(r) /\ r.since = 0 /\ r.handle = h
  BY <1>4, <1>5, HoldingOK, HoldingType, Zenon
<1>8. ThreadOK(r)'
  <2>1. h # None => Fresh("metadata", h.ver)'
    <3>1. clean["metadata"] \in Nat
      BY <1>0, FileSystemAssumption DEF SharedOK, Versions
    <3> QED
      BY <1>0, <1>1, <1>4, <3>1 DEF Fresh
  <2>2. TakenFresh(r)'
    BY <1>0, <1>1, <1>7, <2>1 DEF TakenFresh
  <2> QED
    BY <1>0, <1>7, <2>2, Zenon DEF ThreadOK, Placed, InsideOf
<1> QED
  BY <1>0, <1>1, <1>2, <1>6, <1>7, <1>8, OpStep, Zenon

---------------------------------------------------------------------------
(* Metadata and globs. *)

\* A hit is fresh, and the factory runs under a cache that is there.
LEMMA GetOrCreateStep ==
  ASSUME Inv, ~crashed, NEW t \in Threads, NEW c \in Members, NEW at, NEW next,
         GetOrCreate(t, c, at, next), Alone(t),
         UNCHANGED <<config, remote, file_handle_cache, data, clean, crashed>>,
         next \in {"idle", "read"},
         c = "metadata" => at = "stat" /\ op[t].handle # None,
         c = "glob" => at = "list"
  PROVE  Inv'
<1>0. /\ op[t] \in Ops /\ caches[c] \in Caches /\ caches[c] # None /\ SharedOK
      /\ remote'.ver >= remote.ver
      /\ file_handle_cache' \in {None} \cup SUBSET Versions
  BY FileSystemAssumption DEF GetOrCreate, Inv, SharedOK, Versions
<1>1. CASE /\ caches[c].entry # None /\ UNCHANGED caches
           /\ op' = [op EXCEPT ![t] = [@ EXCEPT !.at = Have(c), !.next = next,
                                                !.val = caches[c].entry]]
  <2>1. PICK v : v = caches[c].entry
    BY Zenon
  <2>2. PICK r : /\ r = [op[t] EXCEPT !.at = Have(c), !.next = next, !.val = v]
                 /\ op' = [op EXCEPT ![t] = r]
    BY <1>1, <2>1, Zenon
  <2>3. /\ v \in Values /\ v # None
        /\ c = "metadata" => FreshMetadata(v)
        /\ c = "glob" => Fresh("glob", v.size)
    BY <1>0, <1>1, <2>1, Zenon DEF Caches, SharedOK, NothingOlder
  <2>4. Have(c) \in {"have_metadata", "have_glob"} /\ (Have(c) = "have_metadata" <=> c = "metadata")
    BY Zenon DEF Have
  <2>5. /\ r \in Ops /\ r.at = Have(c) /\ r.handle = op[t].handle /\ r.since = op[t].since
        /\ r.val = v
    BY <1>0, <2>2, <2>3, <2>4, Zenon DEF Ops
  <2>6. ThreadOK(r)
    BY <2>3, <2>4, <2>5, Moved, Zenon DEF Placed, InsideOf, Members
  <2> QED
    BY <1>1, <2>2, <2>4, <2>5, <2>6, QuietStep, Zenon
<1>2. CASE /\ caches' = [caches EXCEPT ![c] = [@ EXCEPT !.leader = t]]
           /\ op' = [op EXCEPT ![t] = [@ EXCEPT !.at = at,
                          !.next = IF c = "glob" THEN "publish_glob" ELSE next]]
  <2>1. PICK n : n = IF c = "glob" THEN "publish_glob" ELSE next
    BY Zenon
  <2>2. PICK r : /\ r = [op[t] EXCEPT !.at = at, !.next = n] /\ op' = [op EXCEPT ![t] = r]
    BY <1>2, <2>1, Zenon
  <2>3. /\ n \in {"idle", "read", "publish_glob"} /\ (c = "glob" => n = "publish_glob")
        /\ at \in {"stat", "list"} /\ (at = "stat" <=> c = "metadata")
    BY <2>1, Zenon DEF Members
  <2>4. /\ r \in Ops /\ r.at = at /\ r.handle = op[t].handle /\ r.since = op[t].since
        /\ r.next = n
    BY <1>0, <2>2, <2>3, Zenon DEF Ops
  <2>5. ThreadOK(r)
    BY <1>0, <2>3, <2>4, Moved, Zenon DEF Placed, InsideOf, Members
  <2>6. PICK k : k = [caches[c] EXCEPT !.leader = t] /\ caches' = [caches EXCEPT ![c] = k]
    BY <1>2, Zenon
  <2>7. k \in Caches /\ k.entry = caches[c].entry
    BY <1>0, <2>6, Zenon DEF Caches
  <2>8. /\ caches' \in [Members -> {None} \cup Caches]
        /\ \A d \in Members : caches'[d] # None =>
             caches[d] # None /\ caches'[d].entry \in {None, caches[d].entry}
        /\ \A d \in Members : caches[d] # None => caches'[d] # None
    BY <1>0, <2>6, <2>7, NotNone, Zenon DEF SharedOK
  <2>9. SharedOK'
    BY <1>0, <2>8, Dropped, Zenon DEF SharedOK
  <2>10. ThreadOK(r)'
    BY <2>5, <2>8, Zenon DEF ThreadOK, Placed, TakenFresh, FreshMetadata, Fresh, InsideOf
  <2> QED
    BY <1>0, <2>2, <2>3, <2>4, <2>8, <2>9, <2>10, OpStep, Zenon
<1>3. CASE /\ op' = [op EXCEPT ![t] = [@ EXCEPT !.at = Wait(c), !.next = next]]
           /\ UNCHANGED caches
  <2>1. PICK r : /\ r = [op[t] EXCEPT !.at = Wait(c), !.next = next]
                 /\ op' = [op EXCEPT ![t] = r]
    BY <1>3, Zenon
  <2>2. Wait(c) \in {"wait_metadata", "wait_glob"} /\ (Wait(c) = "wait_metadata" <=> c = "metadata")
    BY Zenon DEF Wait
  <2>3. /\ r \in Ops /\ r.at = Wait(c) /\ r.handle = op[t].handle /\ r.since = op[t].since
    BY <1>0, <2>1, <2>2, Zenon DEF Ops
  <2>4. ThreadOK(r)
    BY <1>0, <2>2, <2>3, Moved, Zenon DEF Placed, InsideOf, Members
  <2> QED
    BY <1>3, <2>1, <2>2, <2>3, <2>4, QuietStep, Zenon
<1> QED
  BY <1>1, <1>2, <1>3, Zenon DEF GetOrCreate

\* What the internal file system answers is fresh: a handle's version is, and
\* the file's.
LEMMA StatsFresh ==
  ASSUME Inv, NEW t \in Threads, op[t].handle # None, NEW v \in Stats(t)
  PROVE  v \in Versions /\ Fresh("metadata", v)
  BY RemoteFresh, Zenon DEF Stats, Inv, ThreadOK, TakenFresh, Ops, Handles

\* Without a metadata cache the answer is served at once.
LEMMA GetMetadataStep ==
  ASSUME Inv, ~crashed, NEW t \in Threads, GetMetadata(t), Alone(t)
  PROVE  Inv'
<1>0. /\ op[t] \in Ops /\ op[t].handle # None
      /\ UNCHANGED <<config, remote, file_handle_cache, data, clean, crashed>>
  BY Zenon DEF GetMetadata, Inv
<1>1. PICK next \in {"idle", "read"} :
         \/ /\ caches["metadata"] = None
            /\ \E v \in Stats(t) :
                 op' = [op EXCEPT ![t] = [@ EXCEPT !.at = "have_metadata", !.next = next,
                                                   !.val = Value(v, v, TRUE)]]
            /\ UNCHANGED caches
         \/ GetOrCreate(t, "metadata", "stat", next)
  BY Zenon DEF GetMetadata
<1>2. CASE GetOrCreate(t, "metadata", "stat", next)
  BY <1>0, <1>1, <1>2, GetOrCreateStep, Zenon DEF Members
<1>3. CASE ~GetOrCreate(t, "metadata", "stat", next)
  <2>1. PICK v \in Stats(t) :
           op' = [op EXCEPT ![t] = [@ EXCEPT !.at = "have_metadata", !.next = next,
                                             !.val = Value(v, v, TRUE)]]
    BY <1>1, <1>3, Zenon
  <2>2. PICK w : w = Value(v, v, TRUE)
    BY Zenon
  <2>3. PICK r : /\ r = [op[t] EXCEPT !.at = "have_metadata", !.next = next, !.val = w]
                 /\ op' = [op EXCEPT ![t] = r]
    BY <2>1, <2>2, Zenon
  <2>4. v \in Versions /\ Fresh("metadata", v)
    BY <1>0, StatsFresh, Zenon
  <2>5. w \in Values /\ w # None /\ FreshMetadata(w)
    BY <2>2, <2>4, ValueType, Zenon DEF FreshMetadata
  <2>6. /\ r \in Ops /\ r.at = "have_metadata" /\ r.handle = op[t].handle
        /\ r.since = op[t].since /\ r.val = w
    BY <1>0, <1>1, <2>3, <2>5, Zenon DEF Ops
  <2>7. ThreadOK(r)
    BY <1>0, <2>5, <2>6, Moved, Zenon DEF Placed, InsideOf
  <2> QED
    BY <1>0, <1>1, <1>3, <2>3, <2>6, <2>7, QuietStep, Zenon
<1> QED
  BY <1>2, <1>3, Zenon

\* What the factory throws, those who wait for it throw.
LEMMA ThrowStep ==
  ASSUME Inv, ~crashed, NEW t \in Threads, NEW c \in Members, Throw(t, c), Alone(t),
         InsideOf(op[t], c),
         UNCHANGED <<config, remote, file_handle_cache, data, clean, crashed>>
  PROVE  Inv'
<1>0. SharedOK /\ AloneOK /\ caches[c] # None /\ caches[c] \in Caches /\ remote.ver \in Versions
  BY Zenon DEF Inv, ThreadOK, SharedOK
<1>1. PICK k : k = [caches[c] EXCEPT !.leader = None] /\ caches' = [caches EXCEPT ![c] = k]
  BY Zenon DEF Throw
<1>2. k \in Caches /\ k.entry = caches[c].entry
  BY <1>0, <1>1, Zenon DEF Caches
<1>3. /\ caches' \in [Members -> {None} \cup Caches]
      /\ \A d \in Members : caches'[d] # None =>
             caches[d] # None /\ caches'[d].entry \in {None, caches[d].entry}
      /\ \A d \in Members : caches[d] # None => caches'[d] # None
  BY <1>0, <1>1, <1>2, NotNone, Zenon DEF SharedOK
<1>4. SharedOK'
  BY <1>0, <1>3, Dropped, Zenon DEF SharedOK
<1>5. \A u \in Threads : op'[u] \in {op[u], Holding(op[u].handle)}
  BY Zenon DEF Throw
<1>6. ASSUME NEW u \in Threads
      PROVE  op'[u] \in Ops /\ ThreadOK(op[u])' /\ (op[u].at = "idle" => op'[u].at = "idle")
  <2>1. CASE op'[u] = op[u]
    <3>1. remote'.ver \in Versions /\ remote'.ver >= remote.ver
      BY <1>0, FileSystemAssumption DEF Versions
    <3> QED
      BY <2>1, <1>3, <3>1, ThreadKept, Zenon DEF Inv
  <2>2. CASE op'[u] = Holding(op[u].handle)
    <3>1. PICK h : h = op[u].handle
      BY Zenon
    <3>2. /\ h \in {None} \cup Handles /\ (h # None => Fresh("metadata", h.ver))
          /\ h # None /\ h.cached => file_handle_cache # None
      BY <3>1, Zenon DEF Inv, ThreadOK, TakenFresh, Ops
    <3>3. PICK r : r = Holding(h)
      BY Zenon
    <3>4. r \in Ops /\ r.at = "idle" /\ ThreadOK(r)
      BY <3>2, <3>3, HoldingOK, HoldingType, Zenon
    <3>5. op'[u] = r
      BY <2>2, <3>1, <3>3, Zenon
    <3> QED
      BY <1>3, <3>4, <3>5, Zenon DEF ThreadOK, Placed, TakenFresh, FreshMetadata, Fresh, InsideOf
  <2> QED
    BY <1>5, <2>1, <2>2, Zenon
<1>7. op' \in [Threads -> Ops] /\ op'[t].at = "idle"
  <2>1. op'[t] = Holding(op[t].handle) /\ op[t].handle \in {None} \cup Handles
    BY Zenon DEF Throw, Inv, Ops
  <2>2. op'[t].at = "idle"
    BY <2>1, HoldingType
  <2> QED
    BY <1>6, <2>2, Zenon DEF Throw
<1>8. AloneOK'
  BY <1>7, NotNone, Zenon DEF AloneOK, OthersIdle, StaysCleared, Alone
<1> QED
  BY <1>4, <1>6, <1>7, <1>8, Zenon DEF Inv

\* The factory reads the size and the modification time, at once or one after
\* the other.
LEMMA StatStep ==
  ASSUME Inv, ~crashed, NEW t \in Threads, Stat(t) \/ GetMetadataFallback(t), Alone(t)
  PROVE  Inv'
<1>0. /\ op[t] \in Ops /\ op[t].handle # None /\ op[t].at \in {"stat", "stat2"}
      /\ op[t].at = "stat2" => op[t].val \in Values /\ FreshMetadata(op[t].val)
      /\ UNCHANGED <<config, remote, file_handle_cache, data, clean, crashed>>
      /\ caches["metadata"] # None
  BY Zenon DEF Stat, GetMetadataFallback, Inv, ThreadOK, Placed, TakenFresh, Ops, InsideOf, Members
<1>1. CASE Throw(t, "metadata")
  BY <1>0, <1>1, ThrowStep, Zenon DEF InsideOf, Members
<1>2. ASSUME NEW v \in Versions, NEW w \in Versions, NEW at \in {"publish_metadata", "stat2"},
             Fresh("metadata", v), Fresh("metadata", w), UNCHANGED caches,
             op' = [op EXCEPT ![t] = [@ EXCEPT !.at = at, !.val = Value(v, w, TRUE)]]
      PROVE  Inv'
  <2>1. PICK x : x = Value(v, w, TRUE)
    BY Zenon
  <2>2. PICK r : r = [op[t] EXCEPT !.at = at, !.val = x] /\ op' = [op EXCEPT ![t] = r]
    BY <1>2, <2>1, Zenon
  <2>3. x \in Values /\ x # None /\ FreshMetadata(x)
    BY <1>2, <2>1, ValueType, Zenon DEF FreshMetadata
  <2>4. /\ r \in Ops /\ r.at = at /\ r.handle = op[t].handle /\ r.since = op[t].since /\ r.val = x
    BY <1>0, <2>2, <2>3, Zenon DEF Ops
  <2>5. ThreadOK(r)
    BY <1>0, <2>3, <2>4, Moved, Zenon DEF Placed, InsideOf, Members
  <2> QED
    BY <1>0, <1>2, <2>2, <2>4, <2>5, QuietStep, Zenon
<1>3. CASE Stat(t) /\ ~Throw(t, "metadata")
  <2>1. PICK v \in Stats(t), at \in {"publish_metadata", "stat2"} :
           /\ op' = [op EXCEPT ![t] = [@ EXCEPT !.at = at, !.val = Value(v, v, TRUE)]]
           /\ UNCHANGED caches
    BY <1>3, Zenon DEF Stat
  <2> QED
    BY <1>0, <1>2, <2>1, StatsFresh, Zenon
<1>4. CASE GetMetadataFallback(t) /\ ~Throw(t, "metadata")
  <2>1. PICK v \in Stats(t) :
           /\ op' = [op EXCEPT ![t] = [@ EXCEPT !.at = "publish_metadata",
                                                !.val = Value(op[t].val.size, v, TRUE)]]
           /\ UNCHANGED caches
    BY <1>4, Zenon DEF GetMetadataFallback
  <2>2. op[t].val.size \in Versions /\ Fresh("metadata", op[t].val.size)
    BY <1>0, <1>4, Zenon DEF GetMetadataFallback, Values, FreshMetadata
  <2> QED
    BY <1>0, <1>2, <2>1, <2>2, StatsFresh, Zenon
<1> QED
  BY <1>1, <1>3, <1>4, Zenon

\* A listing of the remote, or what the cache has of one.
LEMMA GlobStep ==
  ASSUME Inv, ~crashed, NEW t \in Threads, Glob(t), Alone(t)
  PROVE  Inv'
<1>0. /\ op[t] \in Ops
      /\ UNCHANGED <<config, remote, file_handle_cache, data, clean, crashed>>
  BY Zenon DEF Glob, Inv
<1>1. CASE GetOrCreate(t, "glob", "list", "idle")
  BY <1>0, <1>1, GetOrCreateStep, Zenon DEF Members
<1>2. CASE /\ op' = [op EXCEPT ![t] = [@ EXCEPT !.at = "list", !.next = "have_glob"]]
           /\ UNCHANGED caches
  <2>1. PICK r : /\ r = [op[t] EXCEPT !.at = "list", !.next = "have_glob"]
                 /\ op' = [op EXCEPT ![t] = r]
    BY <1>2, Zenon
  <2>2. /\ r \in Ops /\ r.at = "list" /\ r.next = "have_glob" /\ r.handle = op[t].handle
        /\ r.since = op[t].since
    BY <1>0, <2>1, Zenon DEF Ops
  <2>3. ThreadOK(r)
    BY <2>2, Moved, Zenon DEF Placed, InsideOf
  <2> QED
    BY <1>0, <1>2, <2>1, <2>2, <2>3, QuietStep, Zenon
<1>3. CASE /\ op' = [op EXCEPT ![t] = [@ EXCEPT !.at = "have_glob",
                            !.val = Value(remote.ver, remote.ver, remote.there)]]
           /\ UNCHANGED caches
  <2>1. PICK v : v = Value(remote.ver, remote.ver, remote.there)
    BY Zenon
  <2>2. PICK r : r = [op[t] EXCEPT !.at = "have_glob", !.val = v] /\ op' = [op EXCEPT ![t] = r]
    BY <1>3, <2>1, Zenon
  <2>3. v \in Values /\ v # None /\ v.size = remote.ver
    BY <2>1, ValueType, RemoteFresh
  <2>4. /\ r \in Ops /\ r.at = "have_glob" /\ r.val = v /\ r.handle = op[t].handle
        /\ r.since = op[t].since
    BY <1>0, <2>2, <2>3, Zenon DEF Ops
  <2>5. ThreadOK(r)
    BY <2>3, <2>4, Moved, RemoteFresh, Zenon DEF Placed, InsideOf
  <2> QED
    BY <1>0, <1>3, <2>2, <2>4, <2>5, QuietStep, Zenon
<1> QED
  BY <1>1, <1>2, <1>3, Zenon DEF Glob

\* The listing is of the file as it is now.
LEMMA ListStep ==
  ASSUME Inv, ~crashed, NEW t \in Threads, List(t), Alone(t)
  PROVE  Inv'
<1>0. /\ op[t] \in Ops /\ op[t].at = "list" /\ op[t].next \in {"publish_glob", "have_glob"}
      /\ op[t].next = "publish_glob" => caches["glob"] # None
      /\ UNCHANGED <<config, remote, file_handle_cache, data, clean, crashed>>
  BY Zenon DEF List, Inv, ThreadOK, Placed, InsideOf, Members
<1>1. CASE op[t].next = "publish_glob" /\ Throw(t, "glob")
  BY <1>0, <1>1, ThrowStep, Zenon DEF InsideOf, Members
<1>2. CASE Return(t) /\ UNCHANGED caches
  BY <1>0, <1>2, ReturnStep, Zenon
<1>3. CASE /\ op' = [op EXCEPT ![t] = [@ EXCEPT !.at = "set",
                            !.val = Value(remote.ver, remote.ver, remote.there)]]
           /\ UNCHANGED caches
  <2>1. PICK v : v = Value(remote.ver, remote.ver, remote.there)
    OBVIOUS
  <2>2. PICK r : r = [op[t] EXCEPT !.at = "set", !.val = v] /\ op' = [op EXCEPT ![t] = r]
    BY <1>3, <2>1, Zenon
  <2>3. v \in Values /\ v # None /\ v.size = remote.ver /\ v.mtime = remote.ver
    BY <2>1, ValueType, RemoteFresh
  <2>4. /\ r \in Ops /\ r.at = "set" /\ r.val = v /\ r.handle = op[t].handle
        /\ r.since = op[t].since /\ r.next = op[t].next
    BY <1>0, <2>2, <2>3, Zenon DEF Ops
  <2>5. ThreadOK(r)
    BY <1>0, <2>3, <2>4, Moved, RemoteFresh, Zenon DEF Placed, InsideOf, FreshMetadata, Members
  <2> QED
    BY <1>0, <1>3, <2>2, <2>4, <2>5, QuietStep, Zenon
<1> QED
  BY <1>1, <1>2, <1>3, Zenon DEF List

\* What Goto makes of a thread.
LEMMA GotoType ==
  ASSUME Inv, NEW t \in Threads, NEW at, Goto(t, at),
         at \in {"fill", "publish_glob", "have_glob"}
  PROVE  \E r \in Ops : /\ op' = [op EXCEPT ![t] = r] /\ r.at = at /\ r.val = op[t].val
                        /\ r.handle = op[t].handle /\ r.since = op[t].since
                        /\ r.next = op[t].next
<1>1. PICK r : r = [op[t] EXCEPT !.at = at] /\ op' = [op EXCEPT ![t] = r]
  BY Zenon DEF Goto
<1>2. op[t] \in Ops
  BY Zenon DEF Inv
<1>3. /\ r \in Ops /\ r.at = at /\ r.val = op[t].val /\ r.handle = op[t].handle
      /\ r.since = op[t].since /\ r.next = op[t].next
  BY <1>1, <1>2, Zenon DEF Ops
<1> QED
  BY <1>1, <1>3, Zenon

\* Making the caches the settings ask for keeps what is cached fresh, and
\* destroys a cache only when its setting was turned off.
LEMMA SetCaches ==
  ASSUME Inv, ~crashed, UNCHANGED <<config, remote, data, clean>>,
         caches' \in [Members -> {None} \cup Caches],
         caches'["metadata"] \in {caches["metadata"], SetMetadataCache},
         caches'["glob"] \in {caches["glob"], SetGlobCache},
         file_handle_cache' \in {file_handle_cache, SetFileHandleCache},
         crashed' \in BOOLEAN, crashed' => \E c \in Members : DestroyedInUse(c)
  PROVE  SharedOK'
<1>0. SharedOK
  BY Zenon DEF Inv
<1>1. NewCache.entry = None /\ "metadata" \in Members /\ "glob" \in Members
  BY Zenon DEF NewCache, Members
<1>2. /\ caches'["metadata"] # None =>
            /\ config.enable_metadata_cache \/ config.toggling
            /\ caches'["metadata"].entry # None =>
                  caches["metadata"] # None /\ caches'["metadata"] = caches["metadata"]
      /\ caches'["glob"] # None =>
            /\ config.enable_glob_cache
            /\ caches'["glob"].entry # None => caches["glob"] # None /\ caches'["glob"] = caches["glob"]
  BY <1>0, <1>1, Zenon DEF SharedOK, SetMetadataCache, SetGlobCache
<1>3. /\ file_handle_cache' \in {None} \cup SUBSET Versions
      /\ file_handle_cache' # None => file_handle_cache' \in {{}, file_handle_cache}
  BY <1>0, Zenon DEF SharedOK, SetFileHandleCache
<1>4. NothingOlder'
  BY <1>0, <1>2, <1>3, Zenon DEF SharedOK, NothingOlder, Fresh, FreshMetadata
<1>5. ~config.toggling => ~crashed'
  <2> SUFFICES ASSUME ~config.toggling, NEW c \in Members, DestroyedInUse(c) PROVE FALSE
    BY Zenon
  <2>1. caches[c] # None /\ caches'[c] # caches[c]
    BY Zenon DEF DestroyedInUse
  <2> QED
    BY <1>0, <2>1, Zenon DEF SharedOK, SetMetadataCache, SetGlobCache, Members
<1> QED
  BY <1>0, <1>2, <1>3, <1>4, <1>5, Zenon DEF SharedOK

\* GlobImpl makes the metadata cache again before it fills it.
LEMMA SetMetadataStep ==
  ASSUME Inv, ~crashed, NEW t \in Threads, SetMetadata(t), Alone(t)
  PROVE  Inv'
<1>0. /\ op[t].at = "set" /\ op[t].next \in {"publish_glob", "have_glob"} /\ op[t].val # None
      /\ op[t].next = "publish_glob" => caches["glob"] # None
      /\ FreshMetadata(op[t].val) /\ Fresh("glob", op[t].val.size)
      /\ UNCHANGED <<config, remote, file_handle_cache, data, clean>> /\ SharedOK
      /\ caches \in [Members -> {None} \cup Caches]
  BY Zenon DEF SetMetadata, Inv, ThreadOK, Placed, TakenFresh, InsideOf, Members, SharedOK
<1>1. NewCache \in Caches
  BY Zenon DEF NewCache, Caches
<1>2. /\ caches' \in [Members -> {None} \cup Caches] /\ caches'["metadata"] = SetMetadataCache
      /\ caches'["glob"] = caches["glob"]
  BY <1>0, <1>1, Zenon DEF SetMetadata, SetMetadataCache, Members
<1>3. crashed' \in BOOLEAN /\ (crashed' <=> DestroyedInUse("metadata"))
  BY Zenon DEF SetMetadata, DestroyedInUse
<1>4. SharedOK'
  BY <1>0, <1>2, <1>3, SetCaches, Zenon DEF Members
<1>5. PICK at : /\ Goto(t, at) /\ at \in {"fill", op[t].next}
                /\ at = "fill" => caches'["metadata"] # None
  <2>1. PICK at : /\ Goto(t, at)
                  /\ at = IF caches'["metadata"] # None /\ op[t].val.there THEN "fill"
                          ELSE op[t].next
    BY Zenon DEF SetMetadata
  <2> QED
    BY <1>0, <2>1, Zenon
<1>6. PICK r \in Ops : /\ op' = [op EXCEPT ![t] = r] /\ r.at = at /\ r.val = op[t].val
                       /\ r.handle = op[t].handle /\ r.since = op[t].since
                       /\ r.next = op[t].next
  BY <1>0, <1>5, GotoType
<1>7. ThreadOK(r)'
  <2>1. TakenFresh(op[t])
    BY Zenon DEF Inv, ThreadOK
  <2>2. TakenFresh(r)
    BY <1>0, <1>5, <1>6, <2>1, Zenon DEF TakenFresh
  <2>3. TakenFresh(r)'
    BY <1>0, <2>2, Zenon DEF TakenFresh, FreshMetadata, Fresh
  <2>4. Placed(r)'
    BY <1>0, <1>5, <1>6, Zenon DEF Placed
  <2>5. \A c \in Members : InsideOf(r, c)' => caches'[c] # None
    BY <1>0, <1>2, <1>5, <1>6, Zenon DEF InsideOf, Members
  <2>6. r.handle # None /\ r.handle.cached => file_handle_cache' # None
    BY <1>0, <1>6, Zenon DEF Inv, ThreadOK
  <2> QED
    BY <1>0, <1>5, <1>6, <2>3, <2>4, <2>5, <2>6, Zenon DEF ThreadOK
<1>8. crashed' \/ \A c \in Members : caches[c] # None /\ Inside(c) # {} => caches'[c] # None
  BY <1>2, <1>3, Zenon DEF DestroyedInUse, Members
<1>9. remote'.ver >= remote.ver
  BY <1>0, FileSystemAssumption DEF SharedOK, Versions
<1> QED
  BY <1>0, <1>4, <1>5, <1>6, <1>7, <1>8, <1>9, OpStep, Zenon

\* The metadata a listing came with is fresh.
LEMMA FillStep ==
  ASSUME Inv, ~crashed, NEW t \in Threads, Fill(t), Alone(t)
  PROVE  Inv'
<1>0. /\ op[t].at = "fill" /\ op[t].next \in {"publish_glob", "have_glob"}
      /\ op[t].val # None /\ op[t].val \in Values
      /\ op[t].next = "publish_glob" => caches["glob"] # None
      /\ FreshMetadata(op[t].val) /\ Fresh("glob", op[t].val.size)
      /\ UNCHANGED <<config, remote, file_handle_cache, data, clean, crashed>> /\ SharedOK
      /\ caches \in [Members -> {None} \cup Caches] /\ caches["metadata"] # None
      /\ caches["metadata"] \in Caches
  BY Zenon DEF Fill, Inv, ThreadOK, Placed, TakenFresh, InsideOf, Members, SharedOK, Ops
<1>1. /\ caches' \in [Members -> {None} \cup Caches] /\ caches'["glob"] = caches["glob"]
      /\ caches'["metadata"] # None
      /\ caches'["metadata"].entry \in {caches["metadata"].entry, op[t].val}
  <2>1. CASE UNCHANGED caches
    BY <1>0, <2>1, Zenon
  <2>2. CASE ~UNCHANGED caches
    <3>1. PICK v : v = op[t].val
      BY Zenon
    <3>2. PICK k : /\ k = [caches["metadata"] EXCEPT !.entry = v]
                   /\ caches' = [caches EXCEPT !["metadata"] = k]
      BY <2>2, <3>1, Zenon DEF Fill
    <3>3. k \in Caches /\ k.entry = v
      BY <1>0, <3>1, <3>2, Zenon DEF Caches
    <3> QED
      BY <1>0, <3>1, <3>2, <3>3, NotNone, Zenon DEF Members
  <2> QED
    BY <2>1, <2>2, Zenon
<1>2. NothingOlder'
  BY <1>0, <1>1, Zenon DEF SharedOK, NothingOlder, FreshMetadata, Fresh
<1>3. SharedOK'
  BY <1>0, <1>1, <1>2, Zenon DEF SharedOK
<1>4. PICK r \in Ops : /\ op' = [op EXCEPT ![t] = r] /\ r.at = op[t].next /\ r.val = op[t].val
                       /\ r.handle = op[t].handle /\ r.since = op[t].since
                       /\ r.next = op[t].next
  BY <1>0, GotoType DEF Fill
<1>5. ThreadOK(r)
  BY <1>0, <1>4, Moved, Zenon DEF Placed, InsideOf, Members
<1>6. ThreadOK(r)'
  BY <1>0, <1>1, <1>5, Zenon
     DEF ThreadOK, Placed, TakenFresh, FreshMetadata, Fresh, InsideOf, Members
<1>7. remote'.ver >= remote.ver
  BY <1>0, FileSystemAssumption DEF SharedOK, Versions
<1>8. \A c \in Members : caches[c] # None /\ Inside(c) # {} => caches'[c] # None
  BY <1>1, Zenon DEF Members
<1> QED
  BY <1>0, <1>3, <1>4, <1>6, <1>7, <1>8, OpStep, Zenon

\* The factory's value is cached, and handed to everyone who waits for it.
LEMMA PublishStep ==
  ASSUME Inv, ~crashed, NEW t \in Threads, Publish(t), Alone(t)
  PROVE  Inv'
<1>1. PICK c \in Members :
         /\ op[t].at = Publishing(c)
         /\ caches' = [caches EXCEPT ![c] = [entry |-> op[t].val, leader |-> None]]
         /\ op' = [u \in Threads |->
                      IF u = t \/ u \in Waiting(c)
                      THEN [op[u] EXCEPT !.at = Have(c), !.val = op[t].val]
                      ELSE op[u]]
  BY Zenon DEF Publish
<1>2. PICK v : v = op[t].val
  BY Zenon
<1>3. /\ v \in Values /\ v # None
      /\ c = "metadata" => FreshMetadata(v) /\ op[t].handle # None
      /\ c = "glob" => Fresh("glob", v.size)
      /\ UNCHANGED <<config, remote, file_handle_cache, data, clean, crashed>> /\ SharedOK
      /\ caches \in [Members -> {None} \cup Caches]
      /\ remote'.ver \in Versions /\ remote'.ver >= remote.ver
  <2>1. /\ op[t].at \in {"publish_metadata", "publish_glob"} /\ op[t] \in Ops
        /\ c = "metadata" => op[t].at = "publish_metadata"
        /\ c = "glob" => op[t].at = "publish_glob"
    BY <1>1, Zenon DEF Publishing, Inv
  <2>2. Placed(op[t]) /\ TakenFresh(op[t])
    BY Zenon DEF Inv, ThreadOK
  <2>3. v \in {None} \cup Values /\ v # None
    BY <1>2, <2>1, <2>2, Zenon DEF Ops, Placed
  <2>4. /\ c = "metadata" => FreshMetadata(v) /\ op[t].handle # None
        /\ c = "glob" => Fresh("glob", v.size)
    BY <1>2, <2>1, <2>2, Zenon DEF Placed, TakenFresh
  <2>5. UNCHANGED <<config, remote, file_handle_cache, data, clean, crashed>>
    BY Zenon DEF Publish
  <2>6. /\ SharedOK /\ caches \in [Members -> {None} \cup Caches]
        /\ remote'.ver \in Versions /\ remote'.ver >= remote.ver
    BY <2>5, VersionsNat DEF Inv, SharedOK
  <2> QED
    BY <2>3, <2>4, <2>5, <2>6, Zenon
<1>4. PICK k : /\ k = [entry |-> op[t].val, leader |-> None]
               /\ caches' = [caches EXCEPT ![c] = k]
  BY <1>1, Zenon
<1>5. k \in Caches /\ k # None /\ k.entry = v
  BY <1>2, <1>3, <1>4, NotNone DEF Caches
<1>6. /\ caches' \in [Members -> {None} \cup Caches] /\ caches'[c] = k
      /\ \A d \in Members : d # c => caches'[d] = caches[d]
      /\ \A d \in Members : caches[d] # None => caches'[d] # None
  BY <1>3, <1>4, <1>5, Zenon
<1>7. c \in {"metadata", "glob"} /\ caches[c] # None
  BY <1>1, Zenon DEF Members, Inv, ThreadOK, InsideOf, Publishing
<1>8. NothingOlder'
  <2>1. CASE c = "metadata"
    BY <1>3, <1>5, <1>6, <2>1, Zenon DEF SharedOK, NothingOlder, FreshMetadata, Fresh, Members
  <2>2. CASE c = "glob"
    BY <1>3, <1>5, <1>6, <2>2, Zenon DEF SharedOK, NothingOlder, FreshMetadata, Fresh, Members
  <2> QED
    BY <1>7, <2>1, <2>2, Zenon
<1>9. SharedOK'
  BY <1>3, <1>5, <1>6, <1>7, <1>8, Zenon DEF SharedOK, Members
<1>10. Have(c) \in {"have_metadata", "have_glob"} /\ (Have(c) = "have_metadata" <=> c = "metadata")
  BY Zenon DEF Have
<1>11. ASSUME NEW u \in Threads, u = t \/ u \in Waiting(c)
       PROVE  op'[u] \in Ops /\ op'[u].at = Have(c) /\ op[u].at # "idle" /\ ThreadOK(op[u])'
  <2>1. PICK r : r = [op[u] EXCEPT !.at = Have(c), !.val = v]
    BY Zenon
  <2>2. op'[u] = r /\ op[u] \in Ops
    BY <1>1, <1>2, <1>11, <2>1, Zenon DEF Inv
  <2>3. /\ r \in Ops /\ r.at = Have(c) /\ r.val = v /\ r.handle = op[u].handle
        /\ r.since = op[u].since
    BY <1>3, <1>10, <2>1, <2>2, Zenon DEF Ops
  <2>4. op[u].at \in {Publishing(c), Wait(c)}
    BY <1>1, <1>11, Zenon DEF Waiting
  <2>5. op[u].at # "idle" /\ (c = "metadata" => op[u].handle # None)
    BY <2>4, Zenon DEF Publishing, Wait, Inv, ThreadOK, Placed
  <2>6. ThreadOK(r)
    BY <1>3, <1>7, <1>10, <2>3, <2>5, Moved, Zenon DEF Placed, InsideOf, Members
  <2>7. ThreadOK(op[u])'
    BY <1>3, <1>6, <2>2, <2>6, Zenon
       DEF ThreadOK, Placed, TakenFresh, FreshMetadata, Fresh, InsideOf, Members
  <2> QED
    BY <2>2, <2>3, <2>5, <2>7, Zenon
<1>12. ASSUME NEW u \in Threads, ~(u = t \/ u \in Waiting(c))
       PROVE  op'[u] = op[u] /\ op'[u] \in Ops /\ ThreadOK(op[u])'
  <2>1. op'[u] = op[u] /\ op[u] \in Ops
    BY <1>1, <1>12, Zenon DEF Inv
  <2> QED
    BY <1>3, <1>6, <2>1, ThreadKept, Zenon
<1>13. op' \in [Threads -> Ops]
  BY <1>1, <1>11, <1>12, Zenon
<1>14. AloneOK'
  <2>1. alone' \in {None, t}
    BY Zenon DEF Alone
  <2>2. alone' = t => \A u \in Threads \ {t} : op[u].at = "idle"
    BY NotNone, Zenon DEF Alone
  <2>3. ASSUME alone' = t, NEW u \in Threads \ {t} PROVE op'[u].at = "idle"
    BY <1>11, <1>12, <2>2, <2>3, Zenon
  <2> QED
    BY <1>10, <1>11, <2>1, <2>3, NotNone, Zenon DEF AloneOK, OthersIdle, StaysCleared
<1> QED
  BY <1>9, <1>11, <1>12, <1>13, <1>14, Zenon DEF Inv

---------------------------------------------------------------------------
(* Clearing. *)

\* The order in which the caches are cleared.
LEMMA TodoOrder ==
  ASSUME NEW todo \in Todos
  PROVE  /\ todo \in Seq({"metadata", "glob", "handles", "all_handles", "data"})
         /\ Head(todo) \in {"metadata", "glob", "handles", "all_handles", "data"}
         /\ Len(todo) > 1 => Tail(todo) \in Todos
         /\ ~(Len(todo) > 1) => todo = <<"data">>
         /\ Len(todo) > 1 /\ Tail(todo) \in AfterMetadata =>
                todo \in AfterMetadata \/ Head(todo) = "metadata"
         /\ Len(todo) > 1 /\ Tail(todo) = <<"data">> => Head(todo) \in {"handles", "all_handles"}
         /\ Head(todo) \in {"handles", "all_handles"} => todo \in AfterMetadata /\ Len(todo) > 1
         /\ Head(todo) = "glob" => Len(todo) > 1
         /\ Len(todo) = 1 <=> todo = <<"data">>
<1>1. CASE todo = <<"data">>
  BY <1>1 DEF Todos, AfterMetadata
<1>2. CASE todo = <<"handles", "data">>
  BY <1>2 DEF Todos, AfterMetadata
<1>3. CASE todo = <<"all_handles", "data">>
  BY <1>3 DEF Todos, AfterMetadata
<1>4. CASE todo = <<"glob", "all_handles", "data">>
  BY <1>4 DEF Todos, AfterMetadata
<1>5. CASE todo = <<"metadata", "handles", "data">>
  BY <1>5 DEF Todos, AfterMetadata
<1>6. CASE todo = <<"metadata", "glob", "all_handles", "data">>
  BY <1>6 DEF Todos, AfterMetadata
<1>7. CASE todo = <<"data", "metadata", "handles", "data">>
  BY <1>7 DEF Todos, AfterMetadata, PathClear
<1>8. CASE todo = <<"data", "metadata", "glob", "all_handles", "data">>
  BY <1>8 DEF Todos, AfterMetadata, AllClear
<1> QED
  BY <1>1, <1>2, <1>3, <1>4, <1>5, <1>6, <1>7, <1>8, Zenon
     DEF Todos, AfterMetadata, SqlClears, PathClear, AllClear

\* A thread that has read nothing has only its handle and its clear.
LEMMA AtRest ==
  ASSUME NEW r \in Ops, r.at \in {"idle", "clear", "open", "write", "glob", "unlink", "unlinked"},
         r.at = "clear" => r.todo \in Todos /\ r.next \in {"idle", "open", "write", "unlink"},
         r.since <= remote.ver,
         r.handle # None => Fresh("metadata", r.handle.ver),
         r.handle # None /\ r.handle.cached => file_handle_cache # None
  PROVE  ThreadOK(r)
<1>1. Placed(r) /\ TakenFresh(r)
  BY Zenon DEF Placed, TakenFresh
<1> QED
  BY <1>1, Zenon DEF ThreadOK, InsideOf

\* cache_httpfs_clear_cache and RemoveFile begin with a clear.
LEMMA ClearStart ==
  ASSUME Inv, ~crashed, NEW t \in Threads, Alone(t), NEW todo \in Todos \ AfterMetadata,
         NEW next \in {"idle", "open", "write", "unlink"},
         op' = [op EXCEPT ![t] = Clearing(@, todo, next)],
         UNCHANGED <<config, remote, caches, file_handle_cache, data, clean, crashed>>
  PROVE  Inv'
<1>1. PICK r : r = Clearing(op[t], todo, next) /\ op' = [op EXCEPT ![t] = r]
  BY Zenon
<1>2. /\ r \in Ops /\ r.at = "clear" /\ r.todo = todo /\ r.next = next
      /\ r.handle = op[t].handle /\ r.since = remote.ver
  <2>1. /\ op[t] \in Ops /\ remote.ver \in Versions
        /\ todo \in Seq({"metadata", "glob", "handles", "all_handles", "data"})
    BY RemoteFresh, TodoOrder, Zenon DEF Inv
  <2> QED
    BY <1>1, <2>1, Zenon DEF Clearing, Ops
<1>3. remote.ver <= remote.ver
  BY RemoteFresh, FileSystemAssumption DEF Versions
<1>4. ThreadOK(r)
  BY <1>2, <1>3, AtRest, Zenon DEF Inv, ThreadOK, TakenFresh
<1> QED
  BY <1>1, <1>2, <1>4, QuietStep, Zenon

\* The SQL functions and RemoveFile start with a clear.
LEMMA ClearCacheStep ==
  ASSUME Inv, ~crashed, NEW t \in Threads, ClearCache(t) \/ RemoveFile(t), Alone(t)
  PROVE  Inv'
<1>1. /\ PathClear \in Todos \ AfterMetadata
      /\ SqlClears \subseteq Todos \ AfterMetadata
  BY DEF PathClear, SqlClears, Todos, AfterMetadata
<1> QED
  BY <1>1, ClearStart, Zenon DEF ClearCache, RemoveFile

\* A thread whose wrapper lost the cache to give its handle back to.
LEMMA DetachedType ==
  ASSUME NEW ops \in [Threads -> Ops], NEW u \in Threads
  PROVE  /\ Detached(ops)[u] \in Ops
         /\ Detached(ops)[u].at = ops[u].at /\ Detached(ops)[u].todo = ops[u].todo
         /\ Detached(ops)[u].next = ops[u].next /\ Detached(ops)[u].val = ops[u].val
         /\ Detached(ops)[u].since = ops[u].since
         /\ Detached(ops)[u].handle = None <=> ops[u].handle = None
         /\ ops[u].handle # None => /\ Detached(ops)[u].handle.ver = ops[u].handle.ver
                                    /\ ~Detached(ops)[u].handle.cached
<1>1. CASE ops[u].handle = None
  BY <1>1, Zenon DEF Detached
<1>2. CASE ops[u].handle # None
  <2>1. PICK h : h = [ver |-> ops[u].handle.ver, cached |-> FALSE]
    BY Zenon
  <2>2. PICK r : r = [ops[u] EXCEPT !.handle = h] /\ r = Detached(ops)[u]
    BY <1>2, <2>1, Zenon DEF Detached
  <2>3. ops[u].handle \in Handles
    BY <1>2, Zenon DEF Ops
  <2>4. h \in Handles /\ h.ver = ops[u].handle.ver /\ ~h.cached /\ h # None
    <3>1. ops[u].handle.ver \in Versions
      BY <2>3, Zenon DEF Handles
    <3>2. h \in Handles /\ h.ver = ops[u].handle.ver /\ h.cached = FALSE
      BY <2>1, <3>1, Zenon DEF Handles
    <3> QED
      BY <3>2, NotNone, Zenon
  <2>5. /\ r \in Ops /\ r.at = ops[u].at /\ r.todo = ops[u].todo /\ r.next = ops[u].next
        /\ r.val = ops[u].val /\ r.since = ops[u].since /\ r.handle = h
    BY <2>2, <2>4, Zenon DEF Ops
  <2> QED
    BY <1>2, <2>2, <2>4, <2>5, Zenon
<1> QED
  BY <1>1, <1>2, Zenon

\* It keeps what holds of it.
LEMMA DetachedKept ==
  ASSUME Inv, NEW u \in Threads, op'[u] = Detached(op)[u],
         UNCHANGED <<config, remote, clean>>,
         crashed' \/ (~crashed /\ \A c \in Members :
                         caches[c] # None /\ Inside(c) # {} => caches'[c] # None)
  PROVE  op'[u] \in Ops /\ ThreadOK(op[u])' /\ op'[u].at = op[u].at
<1> DEFINE o == op[u]
           d == op'[u]
<1>1. /\ o \in Ops /\ Placed(o) /\ TakenFresh(o)
      /\ crashed \/ \A c \in Members : InsideOf(o, c) => caches[c] # None
      /\ o.at = "clear" => o.todo \in Todos
      /\ config.enable_cache_validation /\ o.at \in {"store", "have_data"} =>
           o.val.size >= o.handle.ver
  BY Zenon DEF Inv, ThreadOK
<1>2. /\ d \in Ops /\ d.at = o.at /\ d.todo = o.todo /\ d.next = o.next /\ d.val = o.val
      /\ d.since = o.since /\ (d.handle = None <=> o.handle = None)
      /\ o.handle # None => d.handle.ver = o.handle.ver /\ ~d.handle.cached
  <2>1. op \in [Threads -> Ops] /\ d = Detached(op)[u]
    BY Zenon DEF Inv
  <2> QED
    BY <2>1, DetachedType
<1>3. \A c \in Members : InsideOf(o, c) => Inside(c) # {}
  BY Zenon DEF Inside
<1>4. TakenFresh(o)'
  BY <1>1, <1>2, Zenon DEF TakenFresh, FreshMetadata, Fresh
<1>5. Placed(o)'
  BY <1>1, <1>2, Zenon DEF Placed
<1>6. crashed' \/ \A c \in Members : InsideOf(o, c)' => caches'[c] # None
  BY <1>1, <1>2, <1>3, Zenon DEF InsideOf
<1>7. /\ d.at = "clear" => d.todo \in Todos
      /\ config'.enable_cache_validation /\ d.at \in {"store", "have_data"} =>
           d.val.size >= d.handle.ver
  BY <1>1, <1>2, Zenon DEF Placed
<1> QED
  BY <1>2, <1>4, <1>5, <1>6, <1>7, Zenon DEF ThreadOK

\* The same after a step.
LEMMA AtRestNext ==
  ASSUME NEW t \in Threads, op'[t] \in Ops,
         op'[t].at \in {"idle", "clear", "open", "write", "glob", "unlink", "unlinked"},
         op'[t].at = "clear" => /\ op'[t].todo \in Todos
                                /\ op'[t].next \in {"idle", "open", "write", "unlink"},
         op'[t].since <= remote'.ver,
         op'[t].handle # None => op'[t].handle.ver \in clean'["metadata"] .. remote'.ver,
         op'[t].handle # None /\ op'[t].handle.cached => file_handle_cache' # None
  PROVE  ThreadOK(op[t])'
<1>1. Placed(op[t])' /\ TakenFresh(op[t])'
  BY Zenon DEF Placed, TakenFresh, Fresh
<1> QED
  BY <1>1, Zenon DEF ThreadOK, InsideOf

\* Whoever is alone after a step took it.
LEMMA AloneNext ==
  ASSUME NEW t \in Threads, Alone(t),
         \A u \in Threads \ {t} : op[u].at = "idle" => op'[u].at = "idle",
         alone' = t /\ op'[t].at = "clear" /\ op'[t].todo \in AfterMetadata =>
            /\ caches'["metadata"] # None => caches'["metadata"].entry = None
            /\ op'[t].todo = <<"data">> => file_handle_cache' \in {None, {}},
         alone' = t /\ op'[t].at \in {"unlink", "unlinked"} =>
            /\ caches'["metadata"] # None => caches'["metadata"].entry = None
            /\ file_handle_cache' \in {None, {}}
            /\ data' = None
  PROVE  AloneOK'
<1>1. /\ alone' \in {None, t}
      /\ alone' = t => op'[t].at # "idle" /\ \A u \in Threads \ {t} : op[u].at = "idle"
  BY NotNone, Zenon DEF Alone
<1>2. OthersIdle'
  BY <1>1, NotNone, Zenon DEF OthersIdle
<1>3. StaysCleared'
  BY <1>1, NotNone, Zenon DEF StaysCleared
<1> QED
  BY <1>1, <1>2, <1>3, NotNone, Zenon DEF AloneOK

\* Every open and every glob sets the caches up first, and opens of a file
\* that is written to may clear.
LEMMA StartStep ==
  ASSUME Inv, ~crashed, NEW t \in Threads, Start(t), Alone(t)
  PROVE  Inv'
<1>0. /\ UNCHANGED <<config, remote, data, clean>> /\ op[t].at = "idle"
      /\ file_handle_cache' = SetFileHandleCache /\ SharedOK
      /\ caches' = [c \in Members |-> IF c = "metadata" THEN SetMetadataCache ELSE SetGlobCache]
      /\ crashed' = \E c \in Members : DestroyedInUse(c)
      /\ caches \in [Members -> {None} \cup Caches]
      /\ remote'.ver \in Versions /\ remote'.ver >= remote.ver
  BY FileSystemAssumption DEF Start, InitializeGlobalConfig, Inv, SharedOK, Versions
<1>1. NewCache \in Caches /\ "metadata" \in Members /\ "glob" \in Members
  BY Zenon DEF NewCache, Caches, Members
<1>2. /\ caches' \in [Members -> {None} \cup Caches]
      /\ caches'["metadata"] = SetMetadataCache /\ caches'["glob"] = SetGlobCache
  BY <1>0, <1>1, Zenon DEF SetMetadataCache, SetGlobCache, Members
<1>3. SharedOK'
  BY <1>0, <1>2, SetCaches, Zenon
<1>4. crashed' \/ \A c \in Members : caches[c] # None /\ Inside(c) # {} => caches'[c] # None
  BY <1>0, Zenon DEF DestroyedInUse
<1>5. PICK ops :
         /\ ops = IF file_handle_cache' = None THEN Detached(op) ELSE op
         /\ \E kind \in {"open", "write", "glob"} :
              op' = [ops EXCEPT ![t] = IF config.clear_cache_on_write /\ kind # "glob"
                                       THEN Clearing(ops[t], PathClear, kind)
                                       ELSE [ops[t] EXCEPT !.at = kind]]
  BY Zenon DEF Start
<1>6. ASSUME NEW u \in Threads
      PROVE  /\ ops[u] \in Ops /\ ops[u].at = op[u].at /\ ops[u].since = op[u].since
             /\ ops[u].handle # None => op[u].handle # None /\ ops[u].handle.ver = op[u].handle.ver
             /\ ops[u].handle # None /\ ops[u].handle.cached => file_handle_cache' # None
  <2>1. CASE file_handle_cache' = None
    BY <1>5, <2>1, DetachedType, Zenon DEF Inv
  <2>2. CASE file_handle_cache' # None
    BY <1>5, <2>2, Zenon DEF Inv
  <2> QED
    BY <2>1, <2>2, Zenon
<1>7. ops \in [Threads -> Ops]
  BY <1>5, <1>6, Zenon DEF Detached, Inv
<1>8. PICK kind \in {"open", "write", "glob"} :
         \E r : /\ op' = [ops EXCEPT ![t] = r]
                /\ \/ kind # "glob" /\ r = Clearing(ops[t], PathClear, kind)
                   \/ r = [ops[t] EXCEPT !.at = kind]
  BY <1>5, Zenon
<1> PICK r : /\ op' = [ops EXCEPT ![t] = r]
             /\ \/ kind # "glob" /\ r = Clearing(ops[t], PathClear, kind)
                \/ r = [ops[t] EXCEPT !.at = kind]
  BY <1>8, Zenon
<1>9. /\ PathClear \in Seq({"metadata", "glob", "handles", "all_handles", "data"})
      /\ PathClear \in Todos \ AfterMetadata
  BY DEF PathClear, Todos, AfterMetadata
<1>10. /\ r \in Ops /\ r.handle = ops[t].handle
       /\ \/ r.at = "clear" /\ r.todo = PathClear /\ r.next \in {"open", "write"}
             /\ r.since = remote.ver
          \/ r.at = kind /\ r.since = ops[t].since
  <2>1. ops[t] \in Ops /\ remote.ver \in Versions
    BY <1>0, <1>6, Zenon
  <2>2. CASE kind # "glob" /\ r = Clearing(ops[t], PathClear, kind)
    <3>1. kind \in {"open", "write"}
      BY <2>2, Zenon
    <3> QED
      BY <1>9, <2>1, <2>2, <3>1, Zenon DEF Clearing, Ops
  <2>3. CASE r = [ops[t] EXCEPT !.at = kind]
    BY <2>1, <2>3, Zenon DEF Ops
  <2> QED
    BY <1>8, <2>2, <2>3, Zenon
<1>11. op' \in [Threads -> Ops] /\ op'[t] = r /\ \A u \in Threads \ {t} : op'[u] = ops[u]
  BY <1>7, <1>8, <1>10, Zenon
<1>12. ASSUME NEW u \in Threads PROVE ThreadOK(op[u])'
  <2>1. CASE u = t
    <3>1. op[t].since <= remote.ver /\ remote.ver <= remote.ver
      BY <1>0, FileSystemAssumption, Zenon DEF Inv, ThreadOK, TakenFresh, Versions
    <3>2. r.since <= remote'.ver
      BY <1>0, <1>6, <1>10, <3>1, Zenon
    <3>3. r.handle # None => r.handle.ver \in clean'["metadata"] .. remote'.ver
      BY <1>0, <1>6, <1>10, Zenon DEF Inv, ThreadOK, TakenFresh, Fresh
    <3>4. r.handle # None /\ r.handle.cached => file_handle_cache' # None
      BY <1>6, <1>10, Zenon
    <3>5. /\ r.at \in {"idle", "clear", "open", "write", "glob", "unlink", "unlinked"}
          /\ r.at = "clear" => r.todo \in Todos /\ r.next \in {"idle", "open", "write", "unlink"}
      BY <1>8, <1>9, <1>10, Zenon
    <3> QED
      BY <1>10, <1>11, <2>1, <3>2, <3>3, <3>4, <3>5, AtRestNext, Zenon
  <2>2. CASE u # t /\ file_handle_cache' = None
    <3>1. op'[u] = Detached(op)[u]
      BY <1>5, <1>11, <2>2, Zenon
    <3> QED
      BY <1>0, <1>4, <3>1, DetachedKept, Zenon
  <2>3. CASE u # t /\ file_handle_cache' # None
    <3>1. op'[u] = op[u]
      BY <1>5, <1>11, <2>3, Zenon
    <3> QED
      BY <1>0, <1>4, <2>3, <3>1, ThreadKept, Zenon
  <2> QED
    BY <2>1, <2>2, <2>3, Zenon
<1>13. AloneOK'
  <2>1. r.at \notin {"unlink", "unlinked"} /\ (r.at = "clear" => r.todo \notin AfterMetadata)
    BY <1>8, <1>9, <1>10, Zenon
  <2>2. \A u \in Threads \ {t} : op[u].at = "idle" => op'[u].at = "idle"
    BY <1>6, <1>11, Zenon
  <2> QED
    BY <1>11, <2>1, <2>2, AloneNext, Zenon
<1> QED
  BY <1>3, <1>11, <1>12, <1>13, Zenon DEF Inv

\* What is left of a clear after a cache has been cleared.
LEMMA ClearedType ==
  ASSUME NEW o \in Ops, o.at = "clear", o.todo \in Todos, o.next \in {"idle", "open", "write", "unlink"}
  PROVE  /\ Cleared(o) \in Ops /\ Cleared(o).handle = o.handle
         /\ Cleared(o).since \in {o.since, 0}
         /\ Len(o.todo) > 1 => /\ Cleared(o).at = "clear" /\ Cleared(o).todo = Tail(o.todo)
                               /\ Cleared(o).next = o.next
         /\ ~(Len(o.todo) > 1) => Cleared(o).at \in {"idle", "open", "write", "unlink"}
<1>1. /\ o.handle \in {None} \cup Handles
      /\ Len(o.todo) > 1 => Tail(o.todo) \in Todos
  BY TodoOrder, Zenon DEF Ops
<1>2. CASE Len(o.todo) > 1
  <2>1. PICK r : r = [o EXCEPT !.todo = Tail(o.todo)] /\ r = Cleared(o)
    BY <1>2, Zenon DEF Cleared
  <2>2. Tail(o.todo) \in Seq({"metadata", "glob", "handles", "all_handles", "data"})
    BY <1>1, <1>2, TodoOrder, Zenon
  <2>3. /\ r \in Ops /\ r.at = o.at /\ r.todo = Tail(o.todo) /\ r.next = o.next
        /\ r.handle = o.handle /\ r.since = o.since
    BY <2>1, <2>2, Zenon DEF Ops
  <2> QED
    BY <1>2, <2>1, <2>3, Zenon
<1>3. CASE ~(Len(o.todo) > 1) /\ o.next = "idle"
  BY <1>1, <1>3, HoldingType, Zenon DEF Cleared
<1>4. CASE ~(Len(o.todo) > 1) /\ o.next # "idle"
  <2>1. PICK r : r = [o EXCEPT !.at = o.next, !.todo = <<>>, !.since = 0] /\ r = Cleared(o)
    BY <1>4, Zenon DEF Cleared
  <2>2. /\ 0 \in Versions /\ << >> \in Seq({"metadata", "glob", "handles", "all_handles", "data"})
        /\ o.next \in {"open", "write", "unlink"}
    BY <1>4, FileSystemAssumption DEF Versions
  <2>3. r \in Ops /\ r.at = o.next /\ r.handle = o.handle /\ r.since = 0
    BY <2>1, <2>2, Zenon DEF Ops
  <2> QED
    BY <1>4, <2>1, <2>2, <2>3, Zenon
<1> QED
  BY <1>2, <1>3, <1>4, Zenon

\* An emptied cache is the cache without its entry.
LEMMA EmptiedType ==
  ASSUME SharedOK, NEW c \in Members
  PROVE  /\ Emptied(c) \in {None} \cup Caches /\ (Emptied(c) = None <=> caches[c] = None)
         /\ Emptied(c) # None => Emptied(c).entry = None
<1>1. CASE caches[c] = None
  BY <1>1, Zenon DEF Emptied
<1>2. CASE caches[c] # None
  <2>1. PICK k : k = [caches[c] EXCEPT !.entry = None] /\ k = Emptied(c)
    BY <1>2, Zenon DEF Emptied
  <2>2. caches[c] \in Caches
    BY <1>2, Zenon DEF SharedOK
  <2>3. k \in Caches /\ k.entry = None
    BY <2>1, <2>2, Zenon DEF Caches
  <2> QED
    BY <1>2, <2>1, <2>3, NotNone, Zenon
<1> QED
  BY <1>1, <1>2, Zenon

\* A clear clears the next cache.  What counts as clean moves only when no
\* other thread is in a call, and when nothing older is cached any more.
LEMMA ClearNextStep ==
  ASSUME Inv, ~crashed, NEW t \in Threads, ClearNext(t), Alone(t)
  PROVE  Inv'
<1>0. /\ op[t] \in Ops /\ op[t].at = "clear" /\ op[t].todo \in Todos
      /\ op[t].next \in {"idle", "open", "write", "unlink"}
      /\ op[t].since \in Nat /\ op[t].since \in Versions /\ op[t].since <= remote.ver
      /\ UNCHANGED <<config, remote, crashed>> /\ SharedOK /\ AloneOK
      /\ remote.ver \in Nat /\ remote.ver \in Versions
      /\ caches \in [Members -> {None} \cup Caches]
      /\ file_handle_cache \in {None} \cup SUBSET Versions
      /\ clean \in [{"metadata", "glob", "data"} -> Versions]
      /\ \A c \in {"metadata", "glob", "data"} : clean[c] \in Nat /\ clean[c] <= remote.ver
  <2>1. /\ op[t] \in Ops /\ op[t].at = "clear" /\ UNCHANGED <<config, remote, crashed>>
        /\ SharedOK /\ AloneOK /\ ThreadOK(op[t])
    BY Zenon DEF ClearNext, Inv
  <2>2. op[t].since \in Versions
    BY <2>1, Zenon DEF Ops
  <2>3. /\ op[t].todo \in Todos /\ op[t].next \in {"idle", "open", "write", "unlink"}
        /\ op[t].since <= remote.ver
    BY <2>1, Zenon DEF ThreadOK, Placed, TakenFresh
  <2>4. /\ remote.ver \in Versions
        /\ caches \in [Members -> {None} \cup Caches]
        /\ file_handle_cache \in {None} \cup SUBSET Versions
        /\ clean \in [{"metadata", "glob", "data"} -> Versions]
        /\ \A c \in {"metadata", "glob", "data"} : clean[c] <= remote.ver
    BY <2>1, Zenon DEF SharedOK, NothingOlder
  <2>5. op[t].since \in Nat /\ remote.ver \in Nat
        /\ \A c \in {"metadata", "glob", "data"} : clean[c] \in Nat
    BY <2>2, <2>4, VersionsNat, Zenon DEF Ops
  <2> QED
    BY <2>1, <2>2, <2>3, <2>4, <2>5, Zenon
<1>1. PICK target : target = Head(op[t].todo)
  BY Zenon
<1>2. PICK r : r = Cleared(op[t])
  BY Zenon
<1>3. PICK ops : ops = [op EXCEPT ![t] = r]
  BY Zenon
<1>4. /\ caches' = ClearedCaches(target)
      /\ file_handle_cache' = CASE target = "all_handles" -> None
                                [] target = "handles" /\ file_handle_cache # None -> {}
                                [] OTHER -> file_handle_cache
      /\ data' = IF target = "data" THEN None ELSE data
      /\ op' = IF target = "all_handles" THEN Detached(ops) ELSE ops
      /\ clean' = IF /\ alone = t
                     /\ \A u \in Threads : op[u].handle # None =>
                                              op[u].handle.ver >= op[t].since
                  THEN Cleaned(target, op[t].todo, op[t].since)
                  ELSE clean
  BY <1>1, <1>2, <1>3, Zenon DEF ClearNext
<1>5. /\ target \in {"metadata", "glob", "handles", "all_handles", "data"}
      /\ target \in {"handles", "all_handles"} => op[t].todo \in AfterMetadata
      /\ target # "data" /\ target # "metadata" => Len(op[t].todo) > 1
  BY <1>0, <1>1, TodoOrder, Zenon
<1>6. /\ r \in Ops /\ r.handle = op[t].handle /\ r.since \in {op[t].since, 0}
      /\ Len(op[t].todo) > 1 => r.at = "clear" /\ r.todo = Tail(op[t].todo) /\ r.next = op[t].next
      /\ ~(Len(op[t].todo) > 1) => r.at \in {"idle", "open", "write", "unlink"}
  BY <1>0, <1>2, ClearedType, Zenon
<1>7. /\ ops \in [Threads -> Ops] /\ ops[t] = r
      /\ \A u \in Threads \ {t} : ops[u] = op[u]
  BY <1>3, <1>6, Zenon DEF Inv
<1>8. ASSUME NEW u \in Threads
      PROVE  /\ op'[u] \in Ops /\ op'[u].at = ops[u].at /\ op'[u].since = ops[u].since
             /\ op'[u].todo = ops[u].todo /\ op'[u].next = ops[u].next
             /\ op'[u].handle # None => /\ ops[u].handle # None
                                        /\ op'[u].handle.ver = ops[u].handle.ver
             /\ op'[u].handle # None /\ op'[u].handle.cached =>
                    target # "all_handles" /\ ops[u].handle.cached
  <2>1. CASE target = "all_handles"
    BY <1>4, <1>7, <2>1, DetachedType, Zenon
  <2>2. CASE target # "all_handles"
    BY <1>4, <1>7, <2>2, Zenon
  <2> QED
    BY <2>1, <2>2, Zenon
<1>9. op' \in [Threads -> Ops]
  BY <1>4, <1>7, <1>8, Zenon DEF Detached
<1>10. /\ file_handle_cache' \in {None} \cup SUBSET Versions
       /\ target \in {"handles", "all_handles"} => file_handle_cache' \in {None, {}}
       /\ target \notin {"handles", "all_handles"} => file_handle_cache' = file_handle_cache
       /\ target # "all_handles" /\ file_handle_cache # None => file_handle_cache' # None
       /\ file_handle_cache' # None =>
             \A v \in file_handle_cache' : file_handle_cache # None /\ v \in file_handle_cache
  <2>1. CASE target = "all_handles"
    BY <1>4, <2>1, Zenon
  <2>2. CASE target = "handles" /\ file_handle_cache # None
    BY <1>4, <2>2, NotNone, Zenon
  <2>3. CASE target # "all_handles" /\ ~(target = "handles" /\ file_handle_cache # None)
    BY <1>0, <1>4, <2>3, Zenon
  <2> QED
    BY <2>1, <2>2, <2>3, Zenon
<1>11. /\ caches' \in [Members -> {None} \cup Caches]
       /\ \A c \in Members : caches'[c] # None <=> caches[c] # None
       /\ \A c \in Members : caches'[c] # None => caches'[c].entry \in {None, caches[c].entry}
       /\ target \in Members /\ caches'[target] # None => caches'[target].entry = None
  <2>1. CASE target \in Members
    <3>1. PICK k : k = Emptied(target) /\ caches' = [caches EXCEPT ![target] = k]
      BY <1>4, <2>1, Zenon DEF ClearedCaches
    <3>2. /\ k \in {None} \cup Caches /\ (k = None <=> caches[target] = None)
          /\ k # None => k.entry = None
      BY <1>0, <2>1, <3>1, EmptiedType, Zenon
    <3> QED
      BY <1>0, <2>1, <3>1, <3>2, Zenon
  <2>2. CASE target \notin Members
    BY <1>0, <1>4, <2>2, Zenon DEF ClearedCaches
  <2> QED
    BY <2>1, <2>2, Zenon

<1>12. clean' = clean \/ /\ alone = t /\ clean' = Cleaned(target, op[t].todo, op[t].since)
                         /\ \A u \in Threads : op[u].handle # None =>
                                                  op[u].handle.ver >= op[t].since
  BY <1>4, Zenon
<1>13. /\ clean' \in [{"metadata", "glob", "data"} -> Versions]
       /\ \A c \in {"metadata", "glob", "data"} : clean'[c] \in Nat /\ clean'[c] <= remote.ver
       /\ \/ clean'["metadata"] = clean["metadata"]
          \/ /\ alone = t /\ target \in {"handles", "all_handles"}
             /\ clean'["metadata"] = op[t].since
             /\ \A u \in Threads : op[u].handle # None => op[u].handle.ver >= op[t].since
       /\ \/ clean'["glob"] = clean["glob"]
          \/ alone = t /\ target = "glob"
       /\ \/ clean'["data"] = clean["data"]
          \/ alone = t /\ target = "data" /\ data' = None
  <2>1. CASE clean' = clean
    BY <1>0, <2>1, Zenon
  <2>2. CASE target \in {"handles", "all_handles"} /\ clean' # clean
    <3>1. clean' = [clean EXCEPT !["metadata"] = op[t].since]
      BY <1>12, <2>2, Zenon DEF Cleaned
    <3> QED
      BY <1>0, <1>12, <2>2, <3>1, Zenon
  <2>3. CASE target = "glob" /\ clean' # clean
    <3>1. clean' = [clean EXCEPT !["glob"] = op[t].since]
      BY <1>12, <2>3, Zenon DEF Cleaned
    <3> QED
      BY <1>0, <1>12, <2>3, <3>1, Zenon
  <2>4. CASE target = "data" /\ clean' # clean
    <3>1. clean' \in {clean, [clean EXCEPT !["data"] = op[t].since]}
      BY <1>12, <2>4, Zenon DEF Cleaned
    <3> QED
      BY <1>0, <1>4, <1>12, <2>4, <3>1, Zenon
  <2>5. CASE target = "metadata" /\ clean' # clean
    BY <1>12, <2>5, Zenon DEF Cleaned
  <2> QED
    BY <1>5, <2>1, <2>2, <2>3, <2>4, <2>5, Zenon
<1>14. alone = t => /\ \A u \in Threads \ {t} : op[u].at = "idle"
                    /\ op[t].todo \in AfterMetadata =>
                         /\ caches["metadata"] # None => caches["metadata"].entry = None
                         /\ op[t].todo = <<"data">> => file_handle_cache \in {None, {}}
  BY <1>0, NotNone, Zenon DEF AloneOK, OthersIdle, StaysCleared
<1>15. "metadata" \in Members /\ "glob" \in Members
  BY Zenon DEF Members
<1>16. NothingOlder'
  <2>1. NothingOlder
    BY <1>0, Zenon DEF SharedOK
  <2>2. caches'["metadata"] # None /\ caches'["metadata"].entry # None => FreshMetadata(caches["metadata"].entry)'
    <3>1. CASE clean'["metadata"] = clean["metadata"]
      BY <1>0, <1>11, <1>15, <2>1, <3>1, Zenon DEF NothingOlder, FreshMetadata, Fresh
    <3>2. CASE alone = t /\ target \in {"handles", "all_handles"}
      BY <1>5, <1>11, <1>14, <1>15, <3>2, Zenon
    <3> QED
      BY <1>13, <3>1, <3>2, Zenon
  <2>3. caches'["glob"] # None /\ caches'["glob"].entry # None => Fresh("glob", caches["glob"].entry.size)'
    BY <1>0, <1>11, <1>13, <1>15, <2>1, Zenon DEF NothingOlder, Fresh
  <2>4. file_handle_cache' # None => \A v \in file_handle_cache' : Fresh("metadata", v)'
    BY <1>0, <1>10, <1>13, <2>1, Zenon DEF NothingOlder, Fresh
  <2>5. data' # None => Fresh("data", data.ver)'
    BY <1>0, <1>4, <1>13, <2>1, Zenon DEF NothingOlder, Fresh
  <2> QED
    BY <1>0, <1>13, <2>2, <2>3, <2>4, <2>5, Zenon DEF NothingOlder
<1>17. SharedOK'
  BY <1>0, <1>4, <1>10, <1>11, <1>13, <1>15, <1>16, Zenon DEF SharedOK
<1>18. ASSUME NEW u \in Threads, op[u].handle # None
       PROVE  op[u].handle.ver \in clean'["metadata"] .. remote'.ver
  <2>1. op[u].handle.ver \in clean["metadata"] .. remote.ver
    BY <1>18, Zenon DEF Inv, ThreadOK, TakenFresh, Fresh
  <2> QED
    BY <1>0, <1>13, <1>18, <2>1
<1>19. ASSUME NEW u \in Threads PROVE ThreadOK(op[u])'
  <2>1. CASE u = t
    <3>1. /\ op'[t].at \in {"idle", "clear", "open", "write", "glob", "unlink", "unlinked"}
          /\ op'[t].at = "clear" => /\ op'[t].todo \in Todos
                                    /\ op'[t].next \in {"idle", "open", "write", "unlink"}
      BY <1>0, <1>6, <1>7, <1>8, TodoOrder
    <3>2. op'[t].since <= remote'.ver
      BY <1>0, <1>6, <1>7, <1>8
    <3>3. op'[t].handle # None => op'[t].handle.ver \in clean'["metadata"] .. remote'.ver
      BY <1>6, <1>7, <1>8, <1>18, Zenon
    <3>4. op'[t].handle # None /\ op'[t].handle.cached => file_handle_cache' # None
      BY <1>6, <1>7, <1>8, <1>10, Zenon DEF Inv, ThreadOK
    <3> QED
      BY <1>8, <2>1, <3>1, <3>2, <3>3, <3>4, AtRestNext, Zenon
  <2>2. CASE u # t /\ op[u].at = "idle"
    <3>1. op'[u].at = "idle" /\ op'[u].since = op[u].since /\ op'[u].since <= remote'.ver
      BY <1>0, <1>7, <1>8, <2>2, Zenon DEF Inv, ThreadOK, TakenFresh
    <3>2. op'[u].handle # None => op'[u].handle.ver \in clean'["metadata"] .. remote'.ver
      BY <1>7, <1>8, <1>18, <2>2, Zenon
    <3>3. op'[u].handle # None /\ op'[u].handle.cached => file_handle_cache' # None
      BY <1>7, <1>8, <1>10, <2>2, Zenon DEF Inv, ThreadOK
    <3> QED
      BY <1>8, <3>1, <3>2, <3>3, AtRestNext, Zenon
  <2>3. CASE u # t /\ op[u].at # "idle"
    <3>1. clean' = clean
      BY <1>12, <1>14, <2>3, Zenon
    <3>2. CASE target = "all_handles"
      <4>1. op'[u] = Detached(op)[u]
        BY <1>4, <1>7, <2>3, <3>2, Zenon DEF Detached
      <4> QED
        BY <1>0, <1>11, <3>1, <4>1, DetachedKept, Zenon
    <3>3. CASE target # "all_handles"
      <4>1. op'[u] = op[u] /\ remote'.ver \in Versions /\ remote'.ver >= remote.ver
        BY <1>0, <1>4, <1>7, <2>3, <3>3
      <4> QED
        BY <1>0, <1>10, <1>11, <3>1, <3>3, <4>1, ThreadKept, Zenon
    <3> QED
      BY <3>2, <3>3, Zenon
  <2> QED
    BY <2>1, <2>2, <2>3, Zenon
<1>20. AloneOK'
  <2>1. alone' = t => alone = t
    BY <1>0, NotNone, Zenon DEF Alone
  <2>2. \A u \in Threads \ {t} : op[u].at = "idle" => op'[u].at = "idle"
    BY <1>7, <1>8, Zenon
  <2>3. ASSUME alone' = t, op'[t].at = "clear", op'[t].todo \in AfterMetadata
        PROVE  /\ caches'["metadata"] # None => caches'["metadata"].entry = None
               /\ op'[t].todo = <<"data">> => file_handle_cache' \in {None, {}}
    <3>1. Len(op[t].todo) > 1 /\ op'[t].todo = Tail(op[t].todo)
      BY <1>6, <1>7, <1>8, <2>3, Zenon
    <3>2. op[t].todo \in AfterMetadata \/ target = "metadata"
      BY <1>0, <1>1, <2>3, <3>1, TodoOrder
    <3>3. op'[t].todo = <<"data">> => target \in {"handles", "all_handles"}
      BY <1>0, <1>1, <3>1, TodoOrder, Zenon
    <3> QED
      BY <1>10, <1>11, <1>14, <1>15, <2>1, <2>3, <3>2, <3>3, Zenon
  <2>4. ASSUME alone' = t, op'[t].at \in {"unlink", "unlinked"}
        PROVE  /\ caches'["metadata"] # None => caches'["metadata"].entry = None
               /\ file_handle_cache' \in {None, {}}
               /\ data' = None
    <3>1. ~(Len(op[t].todo) > 1)
      BY <1>6, <1>7, <1>8, <2>4, Zenon
    <3>2. op[t].todo = <<"data">>
      BY <1>0, <3>1, TodoOrder, Zenon
    <3>3. target = "data" /\ op[t].todo \in AfterMetadata
      BY <1>1, <3>2 DEF AfterMetadata
    <3> QED
      BY <1>4, <1>10, <1>11, <1>14, <1>15, <2>1, <2>4, <3>2, <3>3, Zenon
  <2> QED
    BY <2>2, <2>3, <2>4, AloneNext, Zenon
<1> QED
  BY <1>9, <1>17, <1>19, <1>20, Zenon DEF Inv

\* The file is removed, or its removal throws.
LEMMA UnlinkStep ==
  ASSUME Inv, ~crashed, NEW t \in Threads, Unlink(t), Alone(t)
  PROVE  Inv'
<1>0. /\ UNCHANGED <<config, caches, file_handle_cache, data, clean, crashed>> /\ SharedOK
      /\ op[t].at = "unlink" /\ op[t] \in Ops /\ AloneOK
      /\ remote.ver \in Nat /\ remote.ver \in Versions
  BY FileSystemAssumption DEF Unlink, Inv, SharedOK, Versions
<1>1. CASE Return(t) /\ UNCHANGED remote
  BY <1>0, <1>1, ReturnStep, Zenon
<1>2. CASE /\ remote.ver < MaxVersion
           /\ remote' = [ver |-> remote.ver + 1, there |-> FALSE]
           /\ Goto(t, "unlinked")
  <2>1. /\ remote' \in [ver : Versions, there : BOOLEAN] /\ remote'.ver >= remote.ver
        /\ remote'.ver \in Versions
    <3>1. MaxVersion \in Nat /\ remote'.ver = remote.ver + 1 /\ remote'.there = FALSE
      BY <1>2, FileSystemAssumption, Zenon
    <3>2. remote.ver + 1 \in Versions
      BY <1>0, <1>2, <3>1 DEF Versions
    <3> QED
      BY <1>0, <1>2, <3>1, <3>2
  <2>2. SharedOK'
    BY <1>0, <2>1, LaterShared, Zenon
  <2>3. PICK r : r = [op[t] EXCEPT !.at = "unlinked"] /\ op' = [op EXCEPT ![t] = r]
    BY <1>2, Zenon DEF Goto
  <2>4. r \in Ops /\ r.at = "unlinked" /\ r.handle = op[t].handle /\ r.since = op[t].since
    BY <1>0, <2>3, Zenon DEF Ops
  <2>5. /\ op' \in [Threads -> Ops] /\ op'[t] = r
        /\ \A u \in Threads \ {t} : op'[u] = op[u]
    BY <2>3, <2>4, Zenon DEF Inv
  <2>6. ASSUME NEW u \in Threads PROVE ThreadOK(op[u])'
    <3>1. CASE u = t
      <4>1. /\ op[t].since <= remote.ver /\ op[t].since \in Versions
            /\ op[t].handle # None => op[t].handle.ver \in clean["metadata"] .. remote.ver
            /\ op[t].handle # None /\ op[t].handle.cached => file_handle_cache # None
            /\ clean["metadata"] \in Versions
        BY <1>0, Zenon DEF Inv, ThreadOK, TakenFresh, Fresh, Ops, SharedOK
      <4>2. /\ r.since <= remote'.ver
            /\ r.handle # None => r.handle.ver \in clean'["metadata"] .. remote'.ver
            /\ r.handle # None /\ r.handle.cached => file_handle_cache' # None
        BY <1>0, <2>1, <2>4, <4>1, VersionsNat
      <4> QED
        BY <2>4, <2>5, <3>1, <4>2, AtRestNext, Zenon
    <3>2. CASE u # t
      BY <1>0, <2>1, <2>5, <3>2, ThreadKept, Zenon
    <3> QED
      BY <3>1, <3>2, Zenon
  <2>7. alone' = t => alone = t
    BY <2>4, <2>5, NotNone, Zenon DEF Alone
  <2>8. alone = t => /\ caches["metadata"] # None => caches["metadata"].entry = None
                     /\ file_handle_cache \in {None, {}}
                     /\ data = None
    BY <1>0, NotNone, Zenon DEF AloneOK
  <2>9. AloneOK'
    BY <1>0, <2>4, <2>5, <2>7, <2>8, AloneNext, Zenon
  <2> QED
    BY <2>2, <2>5, <2>6, <2>9, Zenon DEF Inv
<1> QED
  BY <1>1, <1>2, Zenon DEF Unlink

---------------------------------------------------------------------------
(* The surroundings, and the theorems. *)

\* A step that is no thread's, and only takes away or adds a version, keeps
\* the invariant.
LEMMA SurroundingsStep ==
  ASSUME Inv, ~crashed, UNCHANGED <<op, alone, clean, crashed>>, SharedOK',
         remote'.ver >= remote.ver,
         config'.enable_cache_validation = config.enable_cache_validation,
         \A c \in Members : caches[c] # None <=> caches'[c] # None,
         \A c \in Members : caches'[c] # None => caches'[c].entry \in {None, caches[c].entry},
         file_handle_cache # None <=> file_handle_cache' # None,
         file_handle_cache' # None => file_handle_cache' \subseteq file_handle_cache,
         data' \in {data, None}
  PROVE  Inv'
<1>1. ASSUME NEW u \in Threads PROVE ThreadOK(op[u])'
  <2>1. remote'.ver \in Versions
    BY Zenon DEF SharedOK
  <2> QED
    BY <2>1, ThreadKept, Zenon
<1>2. "metadata" \in Members
  BY Zenon DEF Members
<1>3. /\ (caches["metadata"] # None => caches["metadata"].entry = None) =>
            (caches'["metadata"] # None => caches'["metadata"].entry = None)
      /\ file_handle_cache \in {None, {}} => file_handle_cache' \in {None, {}}
      /\ data = None => data' = None
  BY <1>2, Zenon
<1>4. AloneOK'
  <2>1. AloneOK /\ op' = op /\ alone' = alone
    BY Zenon DEF Inv
  <2> HIDE DEF Inv
  <2>2. OthersIdle'
    BY <2>1, Zenon DEF AloneOK, OthersIdle
  <2>3. StaysCleared'
    BY <1>3, <2>1, Zenon DEF AloneOK, StaysCleared
  <2> QED
    BY <1>3, <2>1, <2>2, <2>3, Zenon DEF AloneOK
<1> QED
  BY <1>1, <1>4, Zenon DEF Inv

\* The file changes, an entry is dropped, or the setting is turned.
LEMMA OtherStep ==
  ASSUME Inv, ~crashed, RemoteChange \/ Evict \/ Toggle, UNCHANGED alone
  PROVE  Inv'
<1>0. /\ SharedOK /\ remote.ver \in Nat /\ remote.ver \in Versions
      /\ caches \in [Members -> {None} \cup Caches]
      /\ file_handle_cache \in {None} \cup SUBSET Versions
      /\ config \in Settings
  BY VersionsNat, Zenon DEF Inv, SharedOK
<1>1. CASE RemoteChange
  <2>1. UNCHANGED <<config, caches, file_handle_cache, data, op, clean, crashed>>
    BY <1>1, Zenon DEF RemoteChange
  <2>2. remote' \in [ver : Versions, there : BOOLEAN] /\ remote'.ver >= remote.ver
    BY <1>0, <1>1, FileSystemAssumption DEF RemoteChange, Versions
  <2>3. SharedOK'
    BY <1>0, <2>1, <2>2, LaterShared, Zenon
  <2> QED
    BY <2>1, <2>2, <2>3, SurroundingsStep, Zenon
<1>2. CASE Evict
  <2>1. UNCHANGED <<config, remote, op, clean, crashed>>
    BY <1>2, Zenon DEF Evict
  <2>2. /\ caches' \in [Members -> {None} \cup Caches]
        /\ \A c \in Members : caches[c] # None <=> caches'[c] # None
        /\ \A c \in Members : caches'[c] # None => caches'[c].entry \in {None, caches[c].entry}
    <3>1. CASE caches' = caches
      BY <1>0, <3>1, Zenon
    <3>2. CASE caches' # caches
      <4>1. PICK c \in Members : caches' = [caches EXCEPT ![c] = Emptied(c)]
        BY <1>2, <3>2, Zenon DEF Evict
      <4>2. PICK k : k = Emptied(c)
        BY Zenon
      <4>3. /\ k \in {None} \cup Caches /\ (k = None <=> caches[c] = None)
            /\ k # None => k.entry = None
        BY <1>0, <4>2, EmptiedType, Zenon
      <4>4. caches' = [caches EXCEPT ![c] = k]
        BY <4>1, <4>2, Zenon
      <4> QED
        BY <1>0, <4>3, <4>4, Zenon
    <3> QED
      BY <3>1, <3>2, Zenon
  <2>3. /\ file_handle_cache # None <=> file_handle_cache' # None
        /\ file_handle_cache' # None => file_handle_cache' \subseteq file_handle_cache
        /\ file_handle_cache' \in {None} \cup SUBSET Versions
        /\ data' \in {data, None}
    BY <1>0, <1>2, NotNone, Zenon DEF Evict
  <2>4. SharedOK'
    BY <1>0, <2>1, <2>2, <2>3, Dropped, Zenon
  <2>5. remote'.ver >= remote.ver
    BY <1>0, <2>1
  <2> QED
    BY <2>1, <2>2, <2>3, <2>4, <2>5, SurroundingsStep, Zenon
<1>3. CASE Toggle
  <2>1. UNCHANGED <<remote, caches, file_handle_cache, data, op, clean, crashed>>
        /\ config.toggling
    BY <1>3, Zenon DEF Toggle
  <2>2. PICK b \in BOOLEAN : config' = [config EXCEPT !.enable_metadata_cache = b]
    BY <1>3, Zenon DEF Toggle
  <2>3. /\ config' \in Settings /\ config'.toggling = config.toggling
        /\ config'.enable_glob_cache = config.enable_glob_cache
        /\ config'.enable_cache_validation = config.enable_cache_validation
    BY <1>0, <2>2, Zenon DEF Settings
  <2>4. SharedOK'
    BY <1>0, <2>1, <2>3, Zenon DEF SharedOK, NothingOlder, Fresh, FreshMetadata
  <2>5. remote'.ver >= remote.ver
    BY <1>0, <2>1
  <2> QED
    BY <1>0, <2>1, <2>3, <2>4, <2>5, SurroundingsStep, Zenon
<1> QED
  BY <1>1, <1>2, <1>3, Zenon

\* Every step keeps the invariant.
LEMMA NextInv == Inv /\ [Next]_vars => Inv'
<1> SUFFICES ASSUME Inv, [Next]_vars PROVE Inv'
  BY Zenon
<1>1. CASE UNCHANGED vars
  <2>1. SharedOK' /\ AloneOK'
    BY <1>1 DEF vars, Inv, SharedOK, AloneOK, NothingOlder, Fresh, FreshMetadata,
                          OthersIdle, StaysCleared
  <2>2. ASSUME NEW t \in Threads PROVE ThreadOK(op[t])'
    BY <1>1, Zenon DEF vars, Inv, ThreadOK, Fresh, FreshMetadata, TakenFresh
  <2> QED
    BY <1>1, <2>1, <2>2, Zenon DEF vars, Inv
<1>2. ASSUME ~crashed, NEW t \in Threads, Step(t), Alone(t) PROVE Inv'
  <2>1. CASE ClearCache(t) \/ RemoveFile(t)
    BY <1>2, <2>1, ClearCacheStep, Zenon
  <2>2. CASE ClearNext(t)
    BY <1>2, <2>2, ClearNextStep, Zenon
  <2>3. CASE Unlink(t)
    BY <1>2, <2>3, UnlinkStep
  <2>4. CASE Start(t)
    BY <1>2, <2>4, StartStep
  <2>5. CASE Open(t)
    BY <1>2, <2>5, OpenStep
  <2>6. CASE Close(t)
    BY <1>2, <2>6, CloseStep
  <2>7. CASE Write(t)
    BY <1>2, <2>7, WriteStep
  <2>8. CASE CloseUnwritten(t)
    BY <1>2, <2>8, ReturnStep, Zenon DEF CloseUnwritten
  <2>9. CASE GetMetadata(t)
    BY <1>2, <2>9, GetMetadataStep
  <2>10. CASE Stat(t) \/ GetMetadataFallback(t)
    BY <1>2, <2>10, StatStep
  <2>11. CASE Publish(t)
    BY <1>2, <2>11, PublishStep
  <2>12. CASE Glob(t)
    BY <1>2, <2>12, GlobStep
  <2>13. CASE List(t)
    BY <1>2, <2>13, ListStep
  <2>14. CASE SetMetadata(t)
    BY <1>2, <2>14, SetMetadataStep
  <2>15. CASE Fill(t)
    BY <1>2, <2>15, FillStep
  <2>16. CASE Read(t)
    BY <1>2, <2>16, ReadStep
  <2>17. CASE Fetch(t)
    BY <1>2, <2>17, FetchStep
  <2>18. CASE Store(t)
    BY <1>2, <2>18, StoreStep
  <2>19. CASE Served(t)
    BY <1>2, <2>19, ServedStep
  <2> QED
    BY <1>2, <2>1, <2>2, <2>3, <2>4, <2>5, <2>6, <2>7, <2>8, <2>9, <2>10, <2>11, <2>12,
       <2>13, <2>14, <2>15, <2>16, <2>17, <2>18, <2>19, Zenon DEF Step
<1>3. ASSUME ~crashed, RemoteChange \/ Evict \/ Toggle, UNCHANGED alone PROVE Inv'
  BY <1>3, OtherStep, Zenon
<1> QED
  BY <1>1, <1>2, <1>3, Zenon DEF Next

\* The invariant holds of every behaviour.
LEMMA SpecInv == Spec => []Inv
  BY InitInv, NextInv, PTL DEF Spec

\* While the enable_* settings stay as they are, no open or glob destroys a
\* member cache another thread is inside, for any number of threads.
THEOREM CacheAliveAlways == Spec => []CacheAlive
<1>1. Inv => CacheAlive
  BY Zenon DEF Inv, SharedOK, AloneOK, ThreadOK, CacheAlive, TypeOK, MembersEnabled
<1> QED
  BY <1>1, SpecInv, PTL

\* After a clear that no other call ran beside, nothing served to anyone is
\* older than the file was at that clear.
THEOREM FreshAfterClearAlways == Spec => []FreshAfterClear
<1>1. Inv => FreshAfterClear
  <2> SUFFICES ASSUME Inv PROVE FreshAfterClear
    BY Zenon
  <2>1. ASSUME NEW t \in Threads
        PROVE  /\ op[t].at = "have_metadata" => /\ op[t].val.size >= clean["metadata"]
                                                /\ op[t].val.mtime >= clean["metadata"]
               /\ op[t].at = "have_data" => op[t].val.size >= clean["data"]
               /\ op[t].at = "have_glob" => op[t].val.size >= clean["glob"]
    <3>1. op[t] \in Ops /\ Placed(op[t]) /\ TakenFresh(op[t])
          /\ clean \in [{"metadata", "glob", "data"} -> Nat] /\ remote.ver \in Nat
      BY VersionsNat, Zenon DEF Inv, ThreadOK, SharedOK
    <3> HIDE DEF Inv
    <3> QED
      BY <3>1 DEF TakenFresh, FreshMetadata, Fresh
  <2>2. OthersIdle /\ NothingOlder /\ StaysCleared /\ \A t \in Threads : TakenFresh(op[t])
    BY Zenon DEF Inv, SharedOK, AloneOK, ThreadOK
  <2> QED
    BY <2>1, <2>2, Zenon DEF FreshAfterClear
<1> QED
  BY <1>1, SpecInv, PTL

\* With enable_cache_validation a read never returns a block older than the
\* version its own handle was opened at.
THEOREM NotOlderThanHandleAlways == Spec => []NotOlderThanHandle
<1>1. Inv => NotOlderThanHandle
  BY Zenon DEF Inv, SharedOK, ThreadOK, NotOlderThanHandle, BlocksMatchTags
<1> QED
  BY <1>1, SpecInv, PTL

\* When RemoveFile returns and no other call ran beside it, neither metadata
\* nor data nor an internal handle of the removed file is cached.
THEOREM RemovedIsGoneAlways == Spec => []RemovedIsGone
<1>1. Inv => RemovedIsGone
  BY NotNone, Zenon DEF Inv, ThreadOK, AloneOK, RemovedIsGone
<1> QED
  BY <1>1, SpecInv, PTL
============================================================================
