------------------------- MODULE MCFileHandleCache -------------------------
(* FileHandleCache on small instances. *)
EXTENDS FileHandleCache, TLC

CONSTANTS c1, c2, h1, h2, h3, o1, o2, o3

HandleSymmetry == Permutations(Clients) \cup Permutations(Handles) \cup Permutations(Objects)
============================================================================
