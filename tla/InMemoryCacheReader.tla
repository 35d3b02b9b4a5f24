------------------------ MODULE InMemoryCacheReader -------------------------
(***************************************************************************)
(* In-memory reads of one remote file (in_memory_cache_reader.cpp):        *)
(* ReadAndCache cuts a request into chunks and runs one task per chunk;    *)
(* each task looks its entry up, reads the remote file on a miss and       *)
(* stores what it read.  Beside the readers, the block size is changed     *)
(* (cached entries are taken out, rebuilt and put back), the cache is      *)
(* cleared, the file's Parquet layout is registered, and the remote file   *)
(* is overwritten.                                                         *)
(*                                                                         *)
(* The storage is the interface of in_memory_data_cache_storage.hpp with   *)
(* any replacement: a bounded map that may lose an entry at any time.      *)
(* The executor may run the tasks of a read in any order.                  *)
(***************************************************************************)
EXTENDS ReadPlanning

LOCAL INSTANCE Functions

CONSTANTS
    Readers,     \* threads that may be inside ReadAndCache
    FileSize,    \* of the remote file, the same in all its versions
    Configs      \* the settings and bounds to check: the readers that run, the
                 \* requests they make, block sizes, layouts, "chunking",
                 \* "validation", "relayout", "failures", and the bounds
                 \* "capacity" (entries) and "versions" (of the remote file)

ASSUME ReaderAssumption == FileSize \in Nat \ {0}

VARIABLES
    config,      \* this behaviour's settings and bounds
    block_size,  \* config.cache_block_size of the instance
    layout,      \* the file's entry in ParquetLayoutRegistry
    store,       \* the storage: <<start, size>> -> [data, tag]
    readers,     \* each thread's ReadAndCache
    admin,       \* UpdateCacheBlockSize in progress
    remote       \* version of the remote file

vars == <<config, block_size, layout, store, readers, admin, remote>>

NoTag == 0

Unset == <<-1, 0>>

\* The bytes [start, start + size) of version v: each knows its offset.
Content(start, size, v) == [i \in 1 .. size |-> <<start + i - 1, v>>]

NoLayout == [registered |-> FALSE, extents |-> << >>]

Registered(rows) == [registered |-> TRUE, extents |-> Register(FooterExtents(rows))]

IdleReader ==
    [pc |-> "idle", off |-> 0, len |-> 0, tag |-> NoTag, block |-> 0, pos |-> 0,
     tasks |-> {}, buffer |-> << >>, failed |-> "no"]

IdleAdmin == [pc |-> "idle", block |-> 0, rebuilt |-> {}]

Init ==
    /\ config \in Configs
    /\ block_size \in config.blocks
    /\ layout \in {NoLayout} \cup {Registered(rows) : rows \in config.layouts}
    /\ store = << >>
    /\ readers = [r \in Readers |-> IdleReader]
    /\ admin = IdleAdmin
    /\ remote = 1

-----------------------------------------------------------------------------
(* The storage. *)

KeyOf(c) == <<c.start, c.size>>

Without(key) == Restrict(store, DOMAIN store \ {key})

\* What the storage may be after a Put: a full one gives up some other entry.
Stores(key, data, tag) ==
    LET others == DOMAIN store \ {key}
        kept == IF Cardinality(others) < config.capacity
                THEN {others}
                ELSE {others \ {victim} : victim \in others}
    IN {(key :> [data |-> data, tag |-> tag]) @@ Restrict(store, keys) : keys \in kept}

-----------------------------------------------------------------------------
(* ReadAndCache. *)

Go(r, pc) == readers' = [readers EXCEPT ![r].pc = pc]

\* GetConfig, and the version tag of the handle, opened now or earlier.
Start(r) ==
    /\ readers[r].pc = "idle"
    /\ r \in config.readers
    /\ \E req \in config.requests, tag \in IF config.validation THEN 1 .. remote ELSE {NoTag} :
           readers' = [readers EXCEPT ![r] =
               [IdleReader EXCEPT !.pc = "choose", !.off = req[1], !.len = req[2],
                                  !.tag = tag, !.block = block_size, !.pos = req[1],
                                  !.buffer = [i \in 1 .. req[2] |-> Unset]]]
    /\ UNCHANGED <<config, block_size, layout, store, admin, remote>>

Task(c) == [chunk |-> c, pc |-> "get", data |-> << >>]

FixedTasks(r) ==
    {Task(c) : c \in ToSet(FixedChunks(readers[r].off, readers[r].len, readers[r].block, FileSize))}

\* HasLayout decides between the column chunks of the layout and fixed blocks.
ChoosePath(r) ==
    /\ readers[r].pc = "choose"
    /\ IF config.chunking = "column_chunk" /\ layout.registered
       THEN Go(r, "find")
       ELSE readers' = [readers EXCEPT ![r].pc = "run", ![r].tasks = FixedTasks(r)]
    /\ UNCHANGED <<config, block_size, layout, store, admin, remote>>

\* One round of the planner's loop, for entry e.  When the plan ends empty the
\* read falls back to fixed blocks.
PlanEntry(r, e) ==
    LET s == readers[r]
        planned == PlannedChunk(e, s.pos, s.off, s.len, FileSize)
        pos == s.pos + MapThenSumSet(LAMBDA c : c.copy, planned)
        tasks == s.tasks \cup {Task(c) : c \in planned}
        more == planned # {} /\ pos < s.off + s.len
    IN readers' = [readers EXCEPT
           ![r].pos = pos,
           ![r].pc = IF more THEN "find" ELSE "run",
           ![r].tasks = IF ~more /\ tasks = {} THEN FixedTasks(r) ELSE tasks]

\* The registry is locked for each call, not for the loop.
PlanFind(r) ==
    /\ readers[r].pc = "find"
    /\ LET found == Find(layout.extents, readers[r].pos)
       IN IF found = {} THEN Go(r, "gap") ELSE \E e \in found : PlanEntry(r, e)
    /\ UNCHANGED <<config, block_size, layout, store, admin, remote>>

PlanGap(r) ==
    /\ readers[r].pc = "gap"
    /\ PlanEntry(r, GapEntry(layout.extents, readers[r].pos, readers[r].off + readers[r].len,
                             readers[r].block, FileSize))
    /\ UNCHANGED <<config, block_size, layout, store, admin, remote>>

-----------------------------------------------------------------------------
(* ProcessCacheReadChunk: task t of reader r. *)

Becomes(r, t, next) ==
    readers' = [readers EXCEPT ![r].tasks = (@ \ {t}) \cup next]

\* CopyBufferToRequestedMemory; throws when the slice is not within the data.
Copied(s, c, data) ==
    IF c.from - c.start + c.copy > Len(data)
    THEN [s EXCEPT !.failed = "copy"]
    ELSE [s EXCEPT !.buffer = [i \in DOMAIN @ |->
             IF i - c.dest \in 1 .. c.copy THEN data[c.from - c.start + i - c.dest] ELSE @[i]]]

\* Fault: any entry with the key is a hit.
LookupUnvalidated(r, t) ==
    /\ t.pc = "get"
    /\ IF KeyOf(t.chunk) \in DOMAIN store
       THEN readers' = [readers EXCEPT ![r] =
                Copied([readers[r] EXCEPT !.tasks = @ \ {t}], t.chunk, store[KeyOf(t.chunk)].data)]
       ELSE Becomes(r, t, {[t EXCEPT !.pc = "read"]})
    /\ UNCHANGED <<config, block_size, layout, store, admin, remote>>

\* storage->Get: a hit is copied and ends the task; an entry with another tag
\* is to be deleted first.
Lookup(r, t) ==
    /\ t.pc = "get"
    /\ LET key == KeyOf(t.chunk)
           s == readers[r]
       IN CASE key \notin DOMAIN store -> Becomes(r, t, {[t EXCEPT !.pc = "read"]})
            [] key \in DOMAIN store /\ s.tag \notin {NoTag, store[key].tag} ->
                   Becomes(r, t, {[t EXCEPT !.pc = "delete"]})
            [] OTHER ->
                   readers' = [readers EXCEPT ![r] =
                       Copied([s EXCEPT !.tasks = @ \ {t}], t.chunk, store[key].data)]
    /\ UNCHANGED <<config, block_size, layout, store, admin, remote>>

\* The mismatched entry is deleted by key, in a critical section of its own.
DeleteStale(r, t) ==
    /\ t.pc = "delete"
    /\ store' = Without(KeyOf(t.chunk))
    /\ Becomes(r, t, {[t EXCEPT !.pc = "read"]})
    /\ UNCHANGED <<config, block_size, layout, admin, remote>>

\* The remote read of the whole entry, then the copy to the caller's buffer.
ReadRemote(r, t) ==
    /\ t.pc = "read"
    /\ LET data == Content(t.chunk.start, t.chunk.size, remote)
           s == Copied(readers[r], t.chunk, data)
       IN readers' = [readers EXCEPT ![r] =
              [s EXCEPT !.tasks = (@ \ {t}) \cup
                   {u \in {[t EXCEPT !.pc = "put", !.data = data]} : s.failed # "copy"}]]
    /\ UNCHANGED <<config, block_size, layout, store, admin, remote>>

\* The internal filesystem throws; the other tasks of the read still run.
RemoteFails(r, t) ==
    /\ t.pc = "read"
    /\ config.failures
    /\ readers' = [readers EXCEPT ![r].failed = "remote", ![r].tasks = @ \ {t}]
    /\ UNCHANGED <<config, block_size, layout, store, admin, remote>>

Put(r, t) ==
    /\ t.pc = "put"
    /\ store' \in Stores(KeyOf(t.chunk), t.data, readers[r].tag)
    /\ Becomes(r, t, {})
    /\ UNCHANGED <<config, block_size, layout, admin, remote>>

TaskStep(r) ==
    /\ readers[r].pc = "run"
    /\ \E t \in readers[r].tasks :
           Lookup(r, t) \/ DeleteStale(r, t) \/ ReadRemote(r, t) \/ RemoteFails(r, t) \/ Put(r, t)

\* WaitAll: returns, or rethrows, when every task has ended.
WaitAll(r) ==
    /\ readers[r].pc = "run"
    /\ readers[r].tasks = {}
    /\ Go(r, "done")
    /\ UNCHANGED <<config, block_size, layout, store, admin, remote>>

Return(r) ==
    /\ readers[r].pc = "done"
    /\ readers' = [readers EXCEPT ![r] = IdleReader]
    /\ UNCHANGED <<config, block_size, layout, store, admin, remote>>

-----------------------------------------------------------------------------
(* UpdateCacheBlockSize, clears, registration, and the environment. *)

Slices == {[start |-> key[1], data |-> store[key].data, tag |-> store[key].tag] : key \in DOMAIN store}

\* Everything is taken out of the storage and rebuilt for the new size.
TakeAll ==
    /\ admin.pc = "idle"
    /\ \E block \in config.blocks \ {block_size}, index \in FileIndexes(Slices) :
           admin' = [pc |-> "put", block |-> block, rebuilt |-> RemapOneFile(index, block, {})]
    /\ store' = << >>
    /\ UNCHANGED <<config, block_size, layout, readers, remote>>

\* The rebuilt entries go back one by one, in ascending order.
PutRebuilt ==
    /\ admin.pc = "put"
    /\ admin.rebuilt # {}
    /\ LET e == CHOOSE e \in admin.rebuilt : \A f \in admin.rebuilt : e.start <= f.start
       IN /\ store' \in Stores(<<e.start, Len(e.data)>>, e.data, e.tag)
          /\ admin' = [admin EXCEPT !.rebuilt = @ \ {e}]
    /\ UNCHANGED <<config, block_size, layout, readers, remote>>

\* The reader manager's mutex is released before the setting takes effect.
ReleaseManager ==
    /\ admin.pc = "put"
    /\ admin.rebuilt = {}
    /\ admin' = [admin EXCEPT !.pc = "set"]
    /\ UNCHANGED <<config, block_size, layout, store, readers, remote>>

SetBlockSize ==
    /\ admin.pc = "set"
    /\ block_size' = admin.block
    /\ admin' = IdleAdmin
    /\ UNCHANGED <<config, layout, store, readers, remote>>

\* ClearCache, of everything or of this file, waits for the manager's mutex.
ClearCache ==
    /\ admin.pc # "put"
    /\ store # << >>
    /\ store' = << >>
    /\ UNCHANGED <<config, block_size, layout, readers, admin, remote>>

Planning(r) == readers[r].pc \in {"find", "gap"}

\* The layout may change in this behaviour, now.
Relayout ==
    \/ config.relayout = "any"
    \/ config.relayout = "between" /\ \A r \in Readers : ~Planning(r)

\* cache_httpfs_register_parquet_layout: the new layout replaces the old one.
RegisterParquetLayout ==
    /\ Relayout
    /\ \E rows \in config.layouts : layout' = Registered(rows)
    /\ UNCHANGED <<config, block_size, store, readers, admin, remote>>

ClearParquetLayouts ==
    /\ Relayout
    /\ layout' = NoLayout
    /\ UNCHANGED <<config, block_size, store, readers, admin, remote>>

\* Expiry, or replacement in favour of entries of other files.
Lose ==
    /\ \E key \in DOMAIN store : store' = Without(key)
    /\ UNCHANGED <<config, block_size, layout, readers, admin, remote>>

RemoteUpdate ==
    /\ remote < config.versions
    /\ remote' = remote + 1
    /\ UNCHANGED <<config, block_size, layout, store, readers, admin>>

ReaderStep(r) ==
    Start(r) \/ ChoosePath(r) \/ PlanFind(r) \/ PlanGap(r) \/ TaskStep(r) \/ WaitAll(r) \/ Return(r)

Next ==
    \/ \E r \in Readers : ReaderStep(r)
    \/ TakeAll \/ PutRebuilt \/ ReleaseManager \/ SetBlockSize
    \/ ClearCache \/ RegisterParquetLayout \/ ClearParquetLayouts \/ Lose \/ RemoteUpdate

Spec == Init /\ [][Next]_vars

-----------------------------------------------------------------------------
(* Properties. *)

Bytes == (0 .. FileSize - 1) \X (1 .. config.versions)

IsData(data) == Len(data) \in 1 .. FileSize /\ \A i \in DOMAIN data : data[i] \in Bytes

\* Types of the variables: cached entries are non-empty and lie within the
\* file, the tasks of a read are at a known step, the block size is one of the
\* sizes set.
TypeOK ==
    /\ config \in Configs /\ block_size \in config.blocks /\ remote \in 1 .. config.versions
    /\ layout.registered \in BOOLEAN
    /\ \A key \in DOMAIN store :
           /\ key[1] \in 0 .. FileSize - 1 /\ key[2] \in 1 .. FileSize - key[1]
           /\ IsData(store[key].data) /\ store[key].tag \in 0 .. remote
    /\ Cardinality(DOMAIN store) <= config.capacity
    /\ \A r \in Readers :
           /\ readers[r].pc \in {"idle", "choose", "find", "gap", "run", "done"}
           /\ \A t \in readers[r].tasks : t.pc \in {"get", "delete", "read", "put"}
           /\ \A b \in ToSet(readers[r].buffer) : b = Unset \/ b \in Bytes
    /\ admin.pc \in {"idle", "put", "set"}
    /\ \A e \in admin.rebuilt : IsData(e.data)

\* The data are the bytes of the file from offset "start" on, of the version
\* the tag names or a later one.
Faithful(start, data, tag) ==
    \A i \in DOMAIN data : data[i][1] = start + i - 1 /\ data[i][2] >= tag

\* A read that returns has put into every position of the caller's buffer the
\* byte at the requested offset, at least as recent as the version the file
\* was opened at; it throws only if the remote read threw.  However the request
\* was cut, whichever entries came from the cache, from a remapped block, or
\* from the remote file, and whatever was cleared or resized meanwhile.
ReadsDeliver ==
    \A r \in Readers :
        LET s == readers[r]
        IN s.pc = "done" =>
               /\ s.failed # "copy"
               /\ s.failed = "no" => Faithful(s.off, s.buffer, s.tag)

\* An entry filed under [start, start + size) holds exactly these bytes, of the
\* version its tag names or a later one: what BuildFileIndex asserts and what
\* makes a hit under this key correct, in the storage and while it is remapped.
EntriesFaithful ==
    /\ TypeOK
    /\ \A key \in DOMAIN store :
           /\ Len(store[key].data) = key[2]
           /\ Faithful(key[1], store[key].data, store[key].tag)
    /\ \A e \in admin.rebuilt : Faithful(e.start, e.data, e.tag)

\* The keys a fixed-block read with this block size looks up.
BlockKeys(block) ==
    {<<b, Least(block, FileSize - b)>> : b \in {o \in 0 .. FileSize - 1 : o % block = 0}}

\* Rebuilding what is cached now for any block size, with the file's size
\* known, yields only entries that reads with that block size can hit
\* (EmitRunOnNewGrid), with the right bytes and not two of one key.
RemapMatchesReads ==
    \A block \in config.blocks, index \in FileIndexes(Slices) :
        LET rebuilt == RemapOneFile(index, block, {FileSize})
        IN /\ \A e \in rebuilt : /\ <<e.start, Len(e.data)>> \in BlockKeys(block)
                                 /\ Faithful(e.start, e.data, e.tag)
           /\ \A e, f \in rebuilt : e.start = f.start => e = f

\* "A cached entry never straddles a chunk boundary": while one layout stays
\* registered and the block size is not changed, an entry that shares a byte
\* with a column chunk is that chunk, up to the end of the file.
EntriesFollowLayout ==
    config.chunking = "column_chunk" /\ config.relayout = "never"
                                     /\ Cardinality(config.blocks) = 1 =>
        \A key \in DOMAIN store, e \in ToSet(layout.extents) :
            \/ key[1] + key[2] <= e.offset
            \/ ExtentEnd(e) <= key[1]
            \/ key = <<e.offset, Least(e.size, FileSize - e.offset)>>
=============================================================================
