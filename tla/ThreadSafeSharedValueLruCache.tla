------------------- MODULE ThreadSafeSharedValueLruCache -------------------
(***************************************************************************)
(* ThreadSafeSharedValueLruCache of                                        *)
(* src/utils/include/shared_value_lru_cache.hpp: an LRU cache behind one   *)
(* mutex, with GetOrCreate, which lets one caller per key run the factory  *)
(* outside the mutex while the others wait for it on a condition variable. *)
(*                                                                         *)
(* Every critical section of the mutex is one action.  The factory reads   *)
(* the remote object, here a version number that only grows; it may also   *)
(* throw.  No factory of the repository returns a null pointer, so a       *)
(* factory's outcome is a version or Failed.                               *)
(***************************************************************************)
EXTENDS SharedValueLruCache

CONSTANTS
  Threads, Keys, Tokens,      \* Keys is a set of numbers: the map is ordered by key
  MaxVersion,                 \* bound on the updates of a remote object
  Changing,                   \* the keys whose remote object is updated
  NoKey, NoToken, NoThread,
  Pending, Failed             \* a token without val and eptr; a token with eptr

Versions == 0 .. MaxVersion

Outcomes == Versions \cup {Failed}

ASSUME ConstantsAssumption ==
  /\ IsFiniteSet(Threads)
  /\ MaxVersion \in Nat
  /\ Keys \subseteq Int
  /\ NoKey \notin Keys
  /\ NoToken \notin Tokens
  /\ Pending \notin Outcomes
  /\ Failed \notin Versions

VARIABLES
  internal_cache,
  ongoing_creation,           \* key -> its creation token, or NoToken
  token,                      \* the CreationToken objects: count, and val or eptr as outcome
  pc, key, creation_token,    \* the callers of GetOrCreate: where they are, and their locals
  made,                       \* the outcome of the caller's own factory call
  remote,                     \* the current version of every remote object
  published                   \* history: the last version a factory call put into the cache

callVars == <<pc, key, creation_token, made>>
flightVars == <<ongoing_creation, token, published>>
vars == <<internal_cache, callVars, flightVars, remote>>

Locations == {"idle", "creating", "created", "asleep", "awake"}

Creating == {"creating", "created"}

Fresh == [count |-> 0, outcome |-> Pending]

Init ==
  /\ internal_cache = EmptyCache
  /\ ongoing_creation = [k \in Keys |-> NoToken]
  /\ token = [i \in Tokens |-> Fresh]
  /\ pc = [t \in Threads |-> "idle"]
  /\ key = [t \in Threads |-> NoKey]
  /\ creation_token = [t \in Threads |-> NoToken]
  /\ made = [t \in Threads |-> Pending]
  /\ remote = [k \in Keys |-> 0]
  /\ published = [k \in Keys |-> 0]

Holders(i) == {t \in Threads : creation_token[t] = i}

\* A token nobody refers to: make_shared_ptr may use its storage.
Unused(i) == Holders(i) = {} /\ \A k \in Keys : ongoing_creation[k] # i

-----------------------------------------------------------------------------
(* GetOrCreate, first critical section. *)

Enter(t, k, i, where) ==
  /\ pc' = [pc EXCEPT ![t] = where]
  /\ key' = [key EXCEPT ![t] = k]
  /\ creation_token' = [creation_token EXCEPT ![t] = i]
  /\ UNCHANGED <<made, remote, published>>

\* The lookup finds the value: the call is over.
FindCached(t, k) ==
  /\ pc[t] = "idle"
  /\ LruHit(internal_cache, k)
  /\ internal_cache' = LruGet(internal_cache, k)
  /\ UNCHANGED <<callVars, flightVars, remote>>

\* Fault: the caller does not look for a registered token.
StartCreationUnchecked(t, k) ==
  /\ pc[t] = "idle"
  /\ ~LruHit(internal_cache, k)
  /\ internal_cache' = LruGet(internal_cache, k)
  /\ \E i \in Tokens :
       /\ Unused(i)
       /\ token' = [token EXCEPT ![i] = [Fresh EXCEPT !.count = 1]]
       /\ ongoing_creation' = [ongoing_creation EXCEPT ![k] = i]
       /\ Enter(t, k, i, "creating")

\* The first caller for the key registers a token and goes on to the factory.
StartCreation(t, k) ==
  /\ pc[t] = "idle"
  /\ ~LruHit(internal_cache, k)
  /\ internal_cache' = LruGet(internal_cache, k)
  /\ ongoing_creation[k] = NoToken
  /\ \E i \in Tokens :
       /\ Unused(i)
       /\ token' = [token EXCEPT ![i] = [Fresh EXCEPT !.count = 1]]
       /\ ongoing_creation' = [ongoing_creation EXCEPT ![k] = i]
       /\ Enter(t, k, i, "creating")

\* Fault: the waiter does not count itself in.
JoinCreationUncounted(t, k) ==
  LET i == ongoing_creation[k] IN
  /\ pc[t] = "idle"
  /\ ~LruHit(internal_cache, k)
  /\ internal_cache' = LruGet(internal_cache, k)
  /\ i # NoToken
  /\ token[i].outcome = Pending
  /\ Enter(t, k, i, "asleep")
  /\ UNCHANGED <<ongoing_creation, token>>

\* A later caller counts itself in and waits, which releases the mutex.
JoinCreation(t, k) ==
  LET i == ongoing_creation[k] IN
  /\ pc[t] = "idle"
  /\ ~LruHit(internal_cache, k)
  /\ internal_cache' = LruGet(internal_cache, k)
  /\ i # NoToken
  /\ token[i].outcome = Pending
  /\ token' = [token EXCEPT ![i].count = @ + 1]
  /\ Enter(t, k, i, "asleep")
  /\ UNCHANGED ongoing_creation

\* The token is finished but some waiter has not left yet: the predicate of the
\* wait is true at once, the caller counts itself in and out and returns.
JoinFinished(t, k) ==
  LET i == ongoing_creation[k] IN
  /\ pc[t] = "idle"
  /\ ~LruHit(internal_cache, k)
  /\ internal_cache' = LruGet(internal_cache, k)
  /\ i # NoToken
  /\ token[i].outcome # Pending
  /\ ongoing_creation' =
       IF token[i].count = 0 THEN [ongoing_creation EXCEPT ![k] = NoToken]
                             ELSE ongoing_creation
  /\ UNCHANGED <<callVars, token, published, remote>>

-----------------------------------------------------------------------------
(* GetOrCreate, the factory and the critical sections after it. *)

\* factory(key), outside the mutex: reads the remote object, or throws.
RunFactory(t) ==
  /\ pc[t] = "creating"
  /\ \E o \in {remote[key[t]], Failed} : made' = [made EXCEPT ![t] = o]
  /\ pc' = [pc EXCEPT ![t] = "created"]
  /\ UNCHANGED <<internal_cache, key, creation_token, flightVars, remote>>

\* Fault: every leaving caller erases the key.
LeaveErasing(t, o) ==
  LET i == creation_token[t] IN
  /\ token' = [token EXCEPT ![i] = [count |-> token[i].count - 1, outcome |-> o]]
  /\ ongoing_creation' = [ongoing_creation EXCEPT ![key[t]] = NoToken]
  /\ key' = [key EXCEPT ![t] = NoKey]
  /\ creation_token' = [creation_token EXCEPT ![t] = NoToken]
  /\ made' = [made EXCEPT ![t] = Pending]

\* --count, and erase(key) by whoever brings it to zero, who drops the last
\* reference to the token; then the call returns.
Leave(t, o) ==
  LET i == creation_token[t]
      left == token[i].count - 1
  IN  /\ token' = [token EXCEPT ![i] = IF left = 0 THEN Fresh
                                       ELSE [count |-> left, outcome |-> o]]
      /\ ongoing_creation' =
           IF left = 0 THEN [ongoing_creation EXCEPT ![key[t]] = NoToken]
                       ELSE ongoing_creation
      /\ key' = [key EXCEPT ![t] = NoKey]
      /\ creation_token' = [creation_token EXCEPT ![t] = NoToken]
      /\ made' = [made EXCEPT ![t] = Pending]

\* Fault: notify_one.
NotifiedOne(i) ==
  LET sleepers == {u \in Threads : pc[u] = "asleep" /\ creation_token[u] = i}
  IN  IF sleepers = {} THEN pc
      ELSE [pc EXCEPT ![CHOOSE u \in sleepers : TRUE] = "awake"]

\* notify_all on the token's condition variable.
Notified(i) ==
  [u \in Threads |->
     IF pc[u] = "asleep" /\ creation_token[u] = i THEN "awake" ELSE pc[u]]

\* The factory's caller stores the value, or the exception, for the waiters.
Publish(t) ==
  /\ pc[t] = "created"
  /\ IF made[t] # Failed
     THEN /\ internal_cache' = LruPut(internal_cache, key[t], made[t])
          /\ published' = [published EXCEPT ![key[t]] = made[t]]
     ELSE UNCHANGED <<internal_cache, published>>
  /\ pc' = [Notified(creation_token[t]) EXCEPT ![t] = "idle"]
  /\ Leave(t, made[t])
  /\ UNCHANGED remote

\* A notified waiter that finds the outcome leaves with it.
ReturnOutcome(t) ==
  /\ pc[t] = "awake"
  /\ token[creation_token[t]].outcome # Pending
  /\ pc' = [pc EXCEPT ![t] = "idle"]
  /\ Leave(t, token[creation_token[t]].outcome)
  /\ UNCHANGED <<internal_cache, published, remote>>

\* One that does not waits again.
WaitAgain(t) ==
  /\ pc[t] = "awake"
  /\ token[creation_token[t]].outcome = Pending
  /\ pc' = [pc EXCEPT ![t] = "asleep"]
  /\ UNCHANGED <<internal_cache, key, creation_token, made, flightVars, remote>>

\* A condition variable may wake a waiter without a notification.
SpuriousWakeup(t) ==
  /\ pc[t] = "asleep"
  /\ pc' = [pc EXCEPT ![t] = "awake"]
  /\ UNCHANGED <<internal_cache, key, creation_token, made, flightVars, remote>>

-----------------------------------------------------------------------------
(* The other operations, called by threads outside GetOrCreate. *)

Put(k, v) ==
  /\ v <= remote[k]
  /\ internal_cache' = LruPut(internal_cache, k, v)
  /\ UNCHANGED <<callVars, flightVars, remote>>

Get(k) ==
  /\ internal_cache' = LruGet(internal_cache, k)
  /\ UNCHANGED <<callVars, flightVars, remote>>

Delete(k) ==
  /\ internal_cache' = LruDelete(internal_cache, k)
  /\ UNCHANGED <<callVars, flightVars, remote>>

Clear ==
  /\ internal_cache' = EmptyCache
  /\ UNCHANGED <<callVars, flightVars, remote>>

ClearFrom(start, F) ==
  /\ internal_cache' = LruClearFrom(internal_cache, start, F)
  /\ UNCHANGED <<callVars, flightVars, remote>>

Take ==
  /\ internal_cache' = EmptyCache
  /\ UNCHANGED <<callVars, flightVars, remote>>

(* The environment. *)

RemoteUpdate(k) ==
  /\ k \in Changing
  /\ remote[k] < MaxVersion
  /\ remote' = [remote EXCEPT ![k] = @ + 1]
  /\ UNCHANGED <<internal_cache, callVars, flightVars>>

Tick ==
  /\ internal_cache' = Aged(internal_cache)
  /\ UNCHANGED <<callVars, flightVars, remote>>

CacheOperation ==
  \/ \E k \in Keys : Get(k) \/ Delete(k) \/ \E v \in Versions : Put(k, v)
  \/ \E k \in Keys, F \in SUBSET Keys : ClearFrom(k, F)
  \/ Clear
  \/ Take

ThreadStep(t) ==
  \/ RunFactory(t)
  \/ Publish(t)
  \/ ReturnOutcome(t)
  \/ WaitAgain(t)

Call(t, k) ==
  \/ FindCached(t, k)
  \/ StartCreation(t, k)
  \/ JoinCreation(t, k)
  \/ JoinFinished(t, k)

Next ==
  \/ \E t \in Threads : ThreadStep(t) \/ SpuriousWakeup(t) \/ \E k \in Keys : Call(t, k)
  \/ CacheOperation
  \/ \E k \in Keys : RemoteUpdate(k)
  \/ Tick

Spec == Init /\ [][Next]_vars

\* A thread inside GetOrCreate keeps running: the factory ends, the mutex is
\* granted.  Nothing is assumed of new calls, spurious wakeups or the clock.
FairSpec == Spec /\ \A t \in Threads : WF_vars(ThreadStep(t))

-----------------------------------------------------------------------------
(* Properties. *)

FlightTypeOK ==
  /\ ongoing_creation \in [Keys -> Tokens \cup {NoToken}]
  /\ token \in [Tokens -> [count : Nat, outcome : Outcomes \cup {Pending}]]
  /\ pc \in [Threads -> Locations]
  /\ key \in [Threads -> Keys \cup {NoKey}]
  /\ creation_token \in [Threads -> Tokens \cup {NoToken}]
  /\ made \in [Threads -> Outcomes \cup {Pending}]
  /\ remote \in [Keys -> Versions]
  /\ published \in [Keys -> Versions]

\* The type invariant.  The part on GetOrCreate's counters has content: no
\* counter of a token ever becomes negative.
TypeOK ==
  /\ FlightTypeOK
  /\ DOMAIN internal_cache = {"lru_list", "entry_map"}
  /\ internal_cache.lru_list \in Seq(Keys)
  /\ internal_cache.entry_map \in
       [Cached(internal_cache) -> [value : Versions, age : 0 .. Timeout + 1]]

\* The entries of the LRU list and of the map stay the same keys, each once, and
\* no operation leaves more than max_entries of them.
LruConsistent == TypeOK /\ LruWellFormed(internal_cache)

\* "Another thread has requested for the same key-value pair, simply wait": two
\* factory calls for one key never run at the same time, however often the key
\* is evicted, deleted, cleared or expires meanwhile.
OneFactoryPerKey ==
  \A t, u \in Threads :
    /\ pc[t] \in Creating
    /\ pc[u] \in Creating
    /\ key[t] = key[u]
    => t = u

\* The reference count of a registered token is the number of callers that hold
\* it, never zero, and every caller holds the token registered under its own
\* key: so erase(key), which looks the key up again, removes the caller's own
\* token and nobody else's.
TokenAccounting ==
  /\ \A k \in Keys : ongoing_creation[k] # NoToken =>
       /\ token[ongoing_creation[k]].count = Cardinality(Holders(ongoing_creation[k]))
       /\ token[ongoing_creation[k]].count > 0
  /\ \A t \in Threads : pc[t] # "idle" => ongoing_creation[key[t]] = creation_token[t]

\* A value that a factory call puts into the cache is never older than the one
\* an earlier factory call for the same key put there: single flight orders the
\* remote reads of a key.
PublishMonotone == [][\A k \in Keys : published'[k] >= published[k]]_vars

\* No lost wakeup: a waiter that sleeps can rely on the factory's caller, who
\* has not notified yet.
SleeperHasCreator ==
  \A t \in Threads : pc[t] = "asleep" =>
    \E u \in Threads : /\ pc[u] \in Creating
                       /\ creation_token[u] = creation_token[t]

\* Every GetOrCreate call returns, and with the last of them its token goes.
CallsReturn == \A t \in Threads : pc[t] # "idle" ~> pc[t] = "idle"

-----------------------------------------------------------------------------
(* The inductive invariant behind the properties of the flights. *)

Registered(i) == \E k \in Keys : ongoing_creation[k] = i

CallersHoldTokens ==
  \A t \in Threads :
    IF pc[t] = "idle"
    THEN creation_token[t] = NoToken
    ELSE /\ key[t] \in Keys
         /\ creation_token[t] \in Tokens
         /\ ongoing_creation[key[t]] = creation_token[t]

TokensDistinct ==
  \A k, j \in Keys :
    ongoing_creation[k] = ongoing_creation[j] /\ ongoing_creation[k] # NoToken => k = j

CountIsHolders ==
  \A i \in Tokens : Registered(i) =>
    token[i].count > 0 /\ token[i].count = Cardinality(Holders(i))

\* A token is pending exactly as long as its creator runs.
PendingIffCreator ==
  /\ \A t \in Threads : pc[t] \in Creating => token[creation_token[t]].outcome = Pending
  /\ \A i \in Tokens : Registered(i) /\ token[i].outcome = Pending =>
       \E t \in Threads : creation_token[t] = i /\ pc[t] \in Creating

SleepersPending ==
  \A t \in Threads : pc[t] = "asleep" => token[creation_token[t]].outcome = Pending

\* What a creator has read lies between what is published and what is remote.
MadeIsBetween ==
  /\ \A k \in Keys : published[k] <= remote[k]
  /\ \A t \in Threads : pc[t] = "created" =>
       made[t] = Failed \/ made[t] \in published[key[t]] .. remote[key[t]]

\* No counter of GetOrCreate goes wrong while calls overlap: the invariant that
\* every critical section preserves, and from which the others follow.
FlightInv ==
  /\ FlightTypeOK
  /\ CallersHoldTokens
  /\ TokensDistinct
  /\ CountIsHolders
  /\ OneFactoryPerKey
  /\ PendingIffCreator
  /\ SleepersPending
  /\ MadeIsBetween

-----------------------------------------------------------------------------
(* Refinement of the single-flight specification. *)

\* The flight of a key, as its callers see it.
FlightOf(k) ==
  LET i == ongoing_creation[k]
      creators == {t \in Threads : creation_token[t] = i /\ pc[t] \in Creating}
  IN  [leader  |-> IF i = NoToken \/ creators = {} THEN NoThread
                                                   ELSE CHOOSE t \in creators : TRUE,
       aboard  |-> IF i = NoToken THEN {} ELSE Holders(i),
       outcome |-> IF i = NoToken THEN Pending ELSE token[i].outcome]

Flights == INSTANCE SingleFlight
             WITH Nobody <- NoThread, flight <- [k \in Keys |-> FlightOf(k)]

\* GetOrCreate implements the single-flight specification: counters, tokens and
\* the condition variable are invisible, and so is what happens to the cache.
SharesFlights == Flights!Spec
=============================================================================
