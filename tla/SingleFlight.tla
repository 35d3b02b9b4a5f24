---------------------------- MODULE SingleFlight ----------------------------
(***************************************************************************)
(* What GetOrCreate of the thread-safe LRU caches promises its callers,    *)
(* without tokens, counters, condition variables or the cache itself: the  *)
(* calls for one key that miss the cache share one flight.  Its leader     *)
(* alone produces the outcome; nobody gets on board after it has landed;   *)
(* the passengers leave only with the outcome; and a new flight for the    *)
(* key starts only when the last one of them has left.                     *)
(***************************************************************************)
CONSTANTS Threads, Keys, Outcomes, Pending, Nobody

VARIABLE flight      \* key -> the flight of the key

Grounded == [leader |-> Nobody, aboard |-> {}, outcome |-> Pending]

Init == flight = [k \in Keys |-> Grounded]

Busy == UNION {flight[k].aboard : k \in Keys}

TakeOff(t, k) ==
  /\ t \notin Busy
  /\ flight[k] = Grounded
  /\ flight' = [flight EXCEPT
       ![k] = [leader |-> t, aboard |-> {t}, outcome |-> Pending]]

Board(t, k) ==
  /\ t \notin Busy
  /\ flight[k] # Grounded
  /\ flight[k].outcome = Pending
  /\ flight' = [flight EXCEPT ![k].aboard = @ \cup {t}]

\* What is left of a flight when a caller leaves it.
After(f, t, leader, o) ==
  IF f.aboard = {t}
  THEN Grounded
  ELSE [leader |-> leader, aboard |-> f.aboard \ {t}, outcome |-> o]

Land(t, k, o) ==
  /\ flight[k].leader = t
  /\ flight' = [flight EXCEPT ![k] = After(@, t, Nobody, o)]

Disembark(t, k) ==
  /\ t \in flight[k].aboard
  /\ flight[k].outcome # Pending
  /\ flight' = [flight EXCEPT ![k] = After(@, t, Nobody, @.outcome)]

Next ==
  \E t \in Threads, k \in Keys :
    \/ TakeOff(t, k)
    \/ Board(t, k)
    \/ \E o \in Outcomes : Land(t, k, o)
    \/ Disembark(t, k)

Spec == Init /\ [][Next]_flight
=============================================================================
