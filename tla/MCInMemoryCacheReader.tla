----------------------- MODULE MCInMemoryCacheReader ------------------------
(* InMemoryCacheReader on small instances. *)
EXTENDS InMemoryCacheReader

CONSTANTS r1, r2

Extent(offset, size) == [offset |-> offset, size |-> size]

\* Every request ReadImpl passes on: not empty, and within the file.
AllRequests == {<<off, len>> \in (0 .. FileSize - 1) \X (1 .. FileSize) : off + len <= FileSize}

\* Fixed blocks, without and with validation against an overwritten file.
Fixed(threads, requests, blocks, capacity) ==
    [readers |-> threads, requests |-> requests, blocks |-> blocks, layouts |-> {},
     chunking |-> "fixed", relayout |-> "never", validation |-> FALSE, failures |-> FALSE,
     capacity |-> capacity, versions |-> 1]

Validated(threads, requests, blocks, capacity) ==
    [Fixed(threads, requests, blocks, capacity) EXCEPT !.validation = TRUE, !.versions = 2]

\* Adjoining chunks; a gap before, between and after; unsorted with an overlap, an
\* empty chunk and one without a position; a chunk that reaches past the end of the file; nothing.
Layouts ==
    {<<Extent(0, 2), Extent(2, 2)>>, <<Extent(1, 1), Extent(3, 1)>>,
     <<Extent(2, 2), Extent(1, 2), Extent(4, 0), Extent(-1, 2)>>, <<Extent(3, 4)>>, << >>}

\* Every request of one reader with a layout that stays, or is replaced
\* between its plans.
Columns(relayout, capacity) ==
    [readers |-> {r1}, requests |-> AllRequests, blocks |-> {2}, layouts |-> Layouts,
     chunking |-> "column_chunk", relayout |-> relayout, validation |-> FALSE, failures |-> TRUE,
     capacity |-> capacity, versions |-> 1]

\* Every request while the block size changes, and with single-byte blocks; two
\* readers that meet in the same entries; block-size changes across versions.
Settings ==
    {Fixed({r1}, AllRequests, {2, 4}, 3), Fixed({r1}, {<<1, 3>>}, {1, 2}, 3),
     Validated({r1, r2}, {<<1, 2>>}, {2}, 2), Validated({r1}, {<<0, 2>>, <<1, 3>>}, {2, 4}, 2),
     Columns("never", 3), Columns("between", 1)}

\* Registration while a plan is made.
Racing == {[Columns("any", 2) EXCEPT !.failures = FALSE]}
=============================================================================
