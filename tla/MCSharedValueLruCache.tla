----------------------- MODULE MCSharedValueLruCache -----------------------
(* ThreadSafeSharedValueLruCache on small instances. *)
EXTENDS ThreadSafeSharedValueLruCache

CONSTANTS t1, t2, t3, c1, c2
=============================================================================
