---------------------------- MODULE ReadPlanning ----------------------------
(***************************************************************************)
(* The arithmetic of reads and of block-size changes: how a byte range is  *)
(* cut into cache entries (fixed blocks, or one entry per Parquet column   *)
(* chunk) and how cached entries are cut again when the block size         *)
(* changes.                                                                *)
(*                                                                         *)
(* A chunk names the cache entry it needs, [start, start + size), and the  *)
(* slice it delivers: "copy" bytes from file offset "from" to position     *)
(* "dest" of the caller's buffer.  A file's contents are a sequence of     *)
(* bytes; the byte at file offset o is element o + 1.                      *)
(***************************************************************************)
EXTENDS Integers, Sequences, FiniteSetsExt, SequencesExt

Least(a, b) == IF a < b THEN a ELSE b

Greatest(a, b) == IF a > b THEN a ELSE b

Chunk(start, size, from, copy, dest) ==
    [start |-> start, size |-> size, from |-> from, copy |-> copy, dest |-> dest]

-----------------------------------------------------------------------------
(* Fixed blocks: utils/chunk_utils.cpp and the loop of ReadAndCache.       *)

CalculateChunkAlignment(off, len, block) ==
    [first |-> (off \div block) * block,
     last  |-> ((off + len - 1) \div block) * block]

\* The loop carries requested_start_offset ("from") and already_read_bytes
\* ("read", which is also addr_to_write - buffer).
FixedChunks(off, len, block, file_size) ==
    LET align == CalculateChunkAlignment(off, len, block)
        ios == [n \in 1 .. (align.last - align.first) \div block + 1
                    |-> align.first + (n - 1) * block]
        step(acc, io) ==
            LET last == io = align.last
                copy == CASE io = align.first /\ last  -> len
                          [] io = align.first /\ ~last -> block - (acc.from - io)
                          [] io # align.first /\ last  -> len - acc.read
                          [] OTHER                     -> block
                size == IF last THEN Least(block, file_size - io) ELSE block
            IN IF io = file_size
               THEN acc
               ELSE [from   |-> io + block,
                     read   |-> IF last THEN acc.read ELSE acc.read + copy,
                     chunks |-> Append(acc.chunks,
                                       Chunk(io, size, acc.from, copy, acc.read))]
    IN FoldLeft(step, [from |-> off, read |-> 0, chunks |-> << >>], ios).chunks

-----------------------------------------------------------------------------
(* The layout registry (parquet_layout_registry.cpp), one file's extents.  *)

ExtentEnd(e) == e.offset + e.size

\* RegisterParquetLayoutFromFooter: one extent per column chunk the metadata of
\* the file lists; a chunk without a position or without bytes is left out.
FooterExtents(rows) == SelectSeq(rows, LAMBDA e : e.offset >= 0 /\ e.size > 0)

\* Fault: overlapping extents are kept.
RegisterOverlapping(extents) ==
    SelectSeq(SortSeq(extents, LAMBDA a, b : a.offset < b.offset), LAMBDA e : e.size # 0)

\* Ascending, without empty extents and without those that overlap a kept one.
Register(extents) ==
    LET keep(cleaned, e) ==
            IF e.size = 0 \/ (cleaned # << >> /\ e.offset < ExtentEnd(Last(cleaned)))
            THEN cleaned
            ELSE Append(cleaned, e)
    IN FoldLeft(keep, << >>, SortSeq(extents, LAMBDA a, b : a.offset < b.offset))

\* The extent that holds the offset, as a set of at most one.
Find(layout, pos) ==
    LET upto == SelectLastInSeq(layout, LAMBDA e : e.offset <= pos)
    IN IF upto # 0 /\ pos < ExtentEnd(layout[upto]) THEN {layout[upto]} ELSE {}

\* Where the first extent at or after the offset starts, as a set of at most one.
NextStart(layout, pos) ==
    LET next == SelectInSeq(layout, LAMBDA e : e.offset >= pos)
    IN IF next # 0 THEN {layout[next].offset} ELSE {}

\* An entry for bytes no extent covers: up to the next extent, at most gap_cap.
GapEntry(layout, pos, req_end, gap_cap, file_size) ==
    LET next == NextStart(layout, pos)
        gap_end == IF next # {} THEN Min(next) ELSE Greatest(req_end, file_size)
    IN [offset |-> pos, size |-> Least(gap_cap, gap_end - pos)]

\* The chunk for entry e at position pos of the request; empty when the plan
\* stops there.
PlannedChunk(e, pos, off, len, file_size) ==
    LET size == Least(e.size, file_size - e.offset)
        to == Least(off + len, e.offset + size)
        from == Greatest(pos, e.offset)
    IN IF e.offset >= file_size \/ size = 0 \/ to <= from
       THEN {}
       ELSE {Chunk(e.offset, size, from, to - from, from - off)}

-----------------------------------------------------------------------------
(* Rebuilding cached entries for a new block size (in_mem_cache_remap.cpp).*)
(* A slice is [start, data, tag]; a run is a list of adjoining slices.     *)

AlignUpToBlock(offset, block) ==
    LET aligned == (offset \div block) * block
    IN IF aligned < offset THEN aligned + block ELSE aligned

RunStart(run) == run[1].start

RunEnd(run) == Last(run).start + Len(Last(run).data)

\* The bytes [start, start + len) of a run.
CopyRange(run, start, len) ==
    LET holding(pos) == SelectInSeq(run, LAMBDA s : pos < s.start + Len(s.data))
        byte(pos) == run[holding(pos)].data[pos - run[holding(pos)].start + 1]
    IN [i \in 1 .. len |-> byte(start + i - 1)]

\* Fault: a partial block is emitted wherever the run ends.
EmitRunPartial(run, block, file_size) ==
    LET emit_end == IF file_size # {} THEN Least(RunEnd(run), Min(file_size)) ELSE RunEnd(run)
        grid == {b \in AlignUpToBlock(RunStart(run), block) .. emit_end - 1 : b % block = 0}
    IN {[start |-> b, data |-> CopyRange(run, b, Least(block, emit_end - b)), tag |-> run[1].tag]
            : b \in grid}

\* What a run becomes on the new grid.  file_size is a set: empty when the
\* size of the file is not known.
EmitRunOnNewGrid(run, block, file_size) ==
    LET known == file_size # {}
        emit_end == IF known THEN Least(RunEnd(run), Min(file_size)) ELSE RunEnd(run)
        grid == {b \in AlignUpToBlock(RunStart(run), block) .. emit_end - 1 : b % block = 0}
        whole == {b \in grid : b + block <= RunEnd(run)}
        inside == known /\ RunEnd(run) < Min(file_size)
        piece(b) == Least(block, emit_end - b)
    IN {[start |-> b, data |-> CopyRange(run, b, piece(b)), tag |-> run[1].tag]
            : b \in IF inside THEN whole ELSE grid}

\* Fault: slices of different version tags are joined.
RunsAcrossTags(slices) ==
    LET join(runs, s) ==
            CASE runs = << >> -> <<<<s>>>>
              [] runs # << >> /\ s.start < RunEnd(Last(runs)) -> runs
              [] runs # << >> /\ s.start = RunEnd(Last(runs)) ->
                    Append(Front(runs), Append(Last(runs), s))
              [] OTHER -> Append(runs, <<s>>)
    IN FoldLeft(join, << >>, slices)

\* Slices in ascending order, gathered into runs: an overlapping slice is
\* dropped, an adjoining one with the run's tag is appended.
Runs(slices) ==
    LET join(runs, s) ==
            CASE runs = << >> -> <<<<s>>>>
              [] runs # << >> /\ s.start < RunEnd(Last(runs)) -> runs
              [] runs # << >> /\ s.start = RunEnd(Last(runs))
                              /\ s.tag = Last(runs)[1].tag ->
                    Append(Front(runs), Append(Last(runs), s))
              [] OTHER -> Append(runs, <<s>>)
    IN FoldLeft(join, << >>, slices)

\* RemapInMemCacheEntries for one file.  BuildFileIndex keeps one of the
\* slices that start at the same offset, the first it meets in a hash map.
RemapOneFile(slices, block, file_size) ==
    UNION {EmitRunOnNewGrid(run, block, file_size)
               : run \in ToSet(Runs(SetToSortSeq(slices, LAMBDA a, b : a.start < b.start)))}

\* The choices of BuildFileIndex: one slice for each start offset.
FileIndexes(slices) ==
    LET starts == {s.start : s \in slices}
    IN {index \in SUBSET slices :
            /\ {s.start : s \in index} = starts
            /\ Cardinality(index) = Cardinality(starts)}
=============================================================================
