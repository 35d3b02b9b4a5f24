--------------------------- MODULE EvictionPolicy ---------------------------
(***************************************************************************)
(* The replacement policies of the byte-bounded in-memory storage, of      *)
(* src/include/policy/: lru, mru, fifo and clock, as operators on the      *)
(* ordering metadata of one policy object.                                 *)
(*                                                                         *)
(* order is the std::list of keys (the ring of the clock).  The index of   *)
(* list iterators is the position of a key in it.  For the clock,          *)
(* referenced is the set of keys whose bit is set, and hand is the key the *)
(* hand points to, or End for ring.end().                                  *)
(***************************************************************************)
EXTENDS Integers, Sequences, FiniteSets

LOCAL INSTANCE SequencesExt

CONSTANT End

EmptyPolicy == [order |-> <<>>, referenced |-> {}, hand |-> End]

Tracked(p) == ToSet(p.order)

Position(p, k) == CHOOSE n \in DOMAIN p.order : p.order[n] = k

ToFront(p, k) == [p EXCEPT !.order = <<k>> \o SelectSeq(@, LAMBDA j : j # k)]

\* The key after k in the ring.
Advance(p, k) ==
  IF Position(p, k) = Len(p.order) THEN p.order[1] ELSE p.order[Position(p, k) + 1]

-----------------------------------------------------------------------------

ListErase(p, k) == [p EXCEPT !.order = SelectSeq(@, LAMBDA j : j # k)]

FifoOnInsert(p, k) == IF k \in Tracked(p) THEN p ELSE ToFront(p, k)

ClockOnHit(p, k) == [p EXCEPT !.referenced = @ \cup {k}]

\* A new key goes behind the hand, its bit clear.
ClockOnInsert(p, k) ==
  IF k \in Tracked(p) THEN p
  ELSE [p EXCEPT !.order = IF p.hand = End THEN Append(@, k)
                           ELSE InsertAt(@, Position(p, p.hand), k)]

\* The hand steps off the entry that goes, and off an empty ring.
ClockOnErase(p, k) ==
  [order      |-> SelectSeq(p.order, LAMBDA j : j # k),
   referenced |-> p.referenced \ {k},
   hand       |-> IF p.hand # k THEN p.hand
                  ELSE IF Len(p.order) = 1 THEN End ELSE Advance(p, k)]

-----------------------------------------------------------------------------
(* The interface the storage calls. *)

OnHit(name, p, k) ==
  IF k \notin Tracked(p) THEN p
  ELSE CASE name \in {"lru", "mru"} -> ToFront(p, k)
         [] name = "fifo"           -> p
         [] name = "clock"          -> ClockOnHit(p, k)

OnInsert(name, p, k) ==
  CASE name \in {"lru", "mru"} -> ToFront(p, k)
    [] name = "fifo"           -> FifoOnInsert(p, k)
    [] name = "clock"          -> ClockOnInsert(p, k)

OnErase(name, p, k) ==
  IF k \notin Tracked(p) THEN p
  ELSE IF name = "clock" THEN ClockOnErase(p, k) ELSE ListErase(p, k)

-----------------------------------------------------------------------------
(* PopVictim: the policy afterwards and the victim, or no victim. *)

NoVictim(p) == [policy |-> p, victim |-> {}]

PopBack(p) == [policy |-> ListErase(p, Last(p.order)), victim |-> {Last(p.order)}]

PopFront(p) == [policy |-> ListErase(p, p.order[1]), victim |-> {p.order[1]}]

Evicted(p, k) == [policy |-> ClockOnErase(p, k), victim |-> {k}]

\* Fault: the hand starts over at every call.
PopClockFromBegin(p) ==
  LET sweeps[n \in 0 .. 2 * Len(p.order)] ==
        IF n = 0 THEN [p EXCEPT !.hand = p.order[1]]
        ELSE LET q == sweeps[n - 1] IN
             IF q.hand \notin q.referenced THEN q
             ELSE [q EXCEPT !.referenced = @ \ {q.hand}, !.hand = Advance(q, q.hand)]
      swept == sweeps[2 * Len(p.order)]
  IN  IF swept.hand \in swept.referenced THEN NoVictim(swept) ELSE Evicted(swept, swept.hand)

\* Fault: one sweep only.
PopClockOneSweep(p) ==
  LET sweeps[n \in 0 .. Len(p.order)] ==
        IF n = 0 THEN [p EXCEPT !.hand = IF @ = End THEN p.order[1] ELSE @]
        ELSE LET q == sweeps[n - 1] IN
             IF q.hand \notin q.referenced THEN q
             ELSE [q EXCEPT !.referenced = @ \ {q.hand}, !.hand = Advance(q, q.hand)]
      swept == sweeps[Len(p.order) - 1]
  IN  IF swept.hand \in swept.referenced THEN NoVictim(swept) ELSE Evicted(swept, swept.hand)

\* The hand clears bits until it finds one that is clear, for at most 2 n + 1
\* iterations: sweeps[n] is the policy before iteration n + 1.
PopClock(p) ==
  LET sweeps[n \in 0 .. 2 * Len(p.order)] ==
        IF n = 0 THEN [p EXCEPT !.hand = IF @ = End THEN p.order[1] ELSE @]
        ELSE LET q == sweeps[n - 1] IN
             IF q.hand \notin q.referenced THEN q
             ELSE [q EXCEPT !.referenced = @ \ {q.hand}, !.hand = Advance(q, q.hand)]
      swept == sweeps[2 * Len(p.order)]
  IN  IF swept.hand \in swept.referenced THEN NoVictim(swept) ELSE Evicted(swept, swept.hand)

PopVictim(name, p) ==
  IF p.order = <<>> THEN NoVictim(p)
  ELSE CASE name \in {"lru", "fifo"} -> PopBack(p)
         [] name = "mru"             -> PopFront(p)
         [] name = "clock"           -> PopClock(p)

-----------------------------------------------------------------------------

\* A policy object that the storage can rely on: every key is in the list once,
\* and the hand points into the ring.
PolicyWellFormed(name, p) ==
  /\ Len(p.order) = Cardinality(Tracked(p))
  /\ p.referenced \subseteq Tracked(p)
  /\ p.hand # End => name = "clock" /\ p.hand \in Tracked(p)
=============================================================================
