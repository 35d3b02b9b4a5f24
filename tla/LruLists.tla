------------------------------ MODULE LruLists ------------------------------
(***************************************************************************)
(* The std::list of keys or nodes behind the two LRU caches, as a          *)
(* sequence.  Nodes are erased through iterators that the maps keep; the   *)
(* nodes that stay keep their order.                                       *)
(***************************************************************************)
EXTENDS Integers, Sequences, FiniteSets

\* What is left of the list s when only the nodes at the positions I stay.
Kept(s, I) ==
  [n \in 1 .. Cardinality(I) |-> s[CHOOSE i \in I : Cardinality({j \in I : j <= i}) = n]]

\* The list without the elements of a set.
Erased(s, K) == Kept(s, {i \in DOMAIN s : s[i] \notin K})
=============================================================================
