-------------------------- MODULE GetOrCreateProofs --------------------------
(***************************************************************************)
(* Proofs about GetOrCreate, for any number of threads, keys and versions: *)
(* FlightInv is inductive, what the calls promise follows from it, and     *)
(* under it every critical section is a step of the flight of one key, or  *)
(* changes no flight: GetOrCreate implements SingleFlight.                 *)
(***************************************************************************)
EXTENDS ThreadSafeSharedValueLruCache, LruListProofs

\* The calls that hold a token are finitely many, so they can be counted.
LEMMA HoldersFinite == \A i : IsFiniteSet(Holders(i)) /\ Cardinality(Holders(i)) \in Nat
  BY ConstantsAssumption, FS_Subset, FS_CardinalityType, Zenon DEF Holders

\* A new CreationToken is a token.
LEMMA FreshType == Fresh \in [count : Nat, outcome : Outcomes \cup {Pending}]
  BY Zenon DEF Fresh

\* The versions that a factory reads can be compared.
LEMMA VersionsAreNumbers == Versions \subseteq Nat
  BY ConstantsAssumption DEF Versions

\* A new cache has no creation in progress.
LEMMA InitFlightInv == Init => FlightInv
  <1> SUFFICES ASSUME Init PROVE FlightInv
    BY Zenon
  <1>1. FlightTypeOK
    BY FreshType, ConstantsAssumption DEF Init, FlightTypeOK, Locations, Versions
  <1>2. CallersHoldTokens /\ TokensDistinct /\ OneFactoryPerKey /\ SleepersPending
    BY Zenon
       DEF Init, CallersHoldTokens, TokensDistinct, OneFactoryPerKey, SleepersPending, Creating
  <1>3. CountIsHolders /\ PendingIffCreator
    BY ConstantsAssumption, Zenon DEF Init, CountIsHolders, PendingIffCreator, Registered, Creating
  <1>4. MadeIsBetween
    BY DEF Init, MadeIsBetween
  <1> QED
    BY <1>1, <1>2, <1>3, <1>4, Zenon DEF FlightInv

-----------------------------------------------------------------------------
(* Steps that leave the flights alone. *)

\* A step that touches neither the tokens nor the callers preserves their
\* accounting.
LEMMA SameFlights ==
  ASSUME FlightInv, UNCHANGED <<callVars, flightVars, remote>>
  PROVE  FlightInv'
  <1> USE DEF FlightInv, callVars, flightVars
  <1>1. FlightTypeOK' /\ CallersHoldTokens' /\ TokensDistinct' /\ OneFactoryPerKey'
    BY Zenon DEF FlightTypeOK, CallersHoldTokens, TokensDistinct, OneFactoryPerKey
  <1>2. CountIsHolders' /\ PendingIffCreator'
    BY Zenon DEF CountIsHolders, PendingIffCreator, Registered, Holders
  <1>3. SleepersPending' /\ MadeIsBetween'
    BY Zenon DEF SleepersPending, MadeIsBetween
  <1> QED
    BY <1>1, <1>2, <1>3, Zenon

\* Put, Get, Delete, the two Clears, Take and the clock do not touch
\* ongoing_creation.
LEMMA CacheOperationStep ==
  ASSUME FlightInv, CacheOperation \/ Tick
  PROVE  FlightInv'
  BY SameFlights, Zenon DEF CacheOperation, Tick, Get, Put, Delete, Clear, ClearFrom, Take

\* A caller that meets a finished token counts itself in and out in one
\* critical section.
LEMMA JoinFinishedStep ==
  ASSUME FlightInv, NEW t \in Threads, NEW k \in Keys, FindCached(t, k) \/ JoinFinished(t, k)
  PROVE  FlightInv'
  <1>1. CASE FindCached(t, k)
    BY <1>1, SameFlights, Zenon DEF FindCached
  <1>2. CASE JoinFinished(t, k)
    <2>1. ongoing_creation[k] \in Tokens /\ token[ongoing_creation[k]].count # 0
      BY <1>2 DEF JoinFinished, FlightInv, FlightTypeOK, CountIsHolders, Registered
    <2> QED
      BY <1>2, <2>1, SameFlights, Zenon DEF JoinFinished, flightVars
  <1> QED
    BY <1>1, <1>2, Zenon

\* The remote object only moves forward, past what factories have read.
LEMMA RemoteUpdateStep ==
  ASSUME FlightInv, NEW k \in Keys, RemoteUpdate(k)
  PROVE  FlightInv'
  <1> USE DEF FlightInv, RemoteUpdate, callVars, flightVars
  <1>1. FlightTypeOK'
    BY ConstantsAssumption DEF FlightTypeOK, Versions
  <1>2. CallersHoldTokens' /\ TokensDistinct' /\ OneFactoryPerKey' /\ SleepersPending'
    BY Zenon DEF CallersHoldTokens, TokensDistinct, OneFactoryPerKey, SleepersPending
  <1>3. CountIsHolders' /\ PendingIffCreator'
    BY Zenon DEF CountIsHolders, PendingIffCreator, Registered, Holders
  <1>4. MadeIsBetween'
    BY ConstantsAssumption DEF MadeIsBetween, FlightTypeOK, Versions, CallersHoldTokens
  <1> QED
    BY <1>1, <1>2, <1>3, <1>4, Zenon

-----------------------------------------------------------------------------
(* Joining and waiting. *)

\* The first caller for a key registers a token that nobody else refers to.
LEMMA StartCreationStep ==
  ASSUME FlightInv, NEW t \in Threads, NEW k \in Keys, StartCreation(t, k)
  PROVE  FlightInv'
  <1> USE DEF FlightInv
  <1>1. PICK i \in Tokens :
          /\ Unused(i)
          /\ token' = [token EXCEPT ![i] = [Fresh EXCEPT !.count = 1]]
          /\ ongoing_creation' = [ongoing_creation EXCEPT ![k] = i]
          /\ Enter(t, k, i, "creating")
    BY Zenon DEF StartCreation
  <1>2. pc[t] = "idle" /\ creation_token[t] = NoToken /\ ongoing_creation[k] = NoToken
    BY Zenon DEF StartCreation, CallersHoldTokens
  <1>3. token'[i] = [count |-> 1, outcome |-> Pending]
    BY <1>1, Zenon DEF FlightTypeOK, Fresh
  <1>4. \A j \in Tokens \ {i} : token'[j] = token[j]
    BY <1>1, Zenon DEF FlightTypeOK
  <1>5. /\ pc' = [pc EXCEPT ![t] = "creating"]
        /\ key' = [key EXCEPT ![t] = k]
        /\ creation_token' = [creation_token EXCEPT ![t] = i]
        /\ UNCHANGED <<made, remote, published>>
    BY <1>1, Zenon DEF Enter
  <1>6. FlightTypeOK'
    BY <1>1, <1>5, Zenon DEF FlightTypeOK, Fresh, Locations
  <1>7. CallersHoldTokens'
    <2> SUFFICES ASSUME NEW u \in Threads
                 PROVE  IF pc'[u] = "idle"
                        THEN creation_token'[u] = NoToken
                        ELSE /\ key'[u] \in Keys
                             /\ creation_token'[u] \in Tokens
                             /\ ongoing_creation'[key'[u]] = creation_token'[u]
      BY Zenon DEF CallersHoldTokens
    <2>1. CASE u = t
      BY <1>1, <1>5, <2>1, Zenon DEF FlightTypeOK
    <2>2. CASE u # t
      BY <1>1, <1>2, <1>5, <2>2, ConstantsAssumption DEF CallersHoldTokens, FlightTypeOK
    <2> QED
      BY <2>1, <2>2, Zenon
  <1>8. TokensDistinct'
    <2>1. \A j \in Keys : ongoing_creation[j] # i
      BY <1>1, Zenon DEF Unused
    <2>2. \A j \in Keys : ongoing_creation'[j] = IF j = k THEN i ELSE ongoing_creation[j]
      BY <1>1, Zenon DEF FlightTypeOK
    <2> QED
      BY <2>1, <2>2, Zenon DEF TokensDistinct
  <1>9. CountIsHolders'
    <2>1. Holders(i)' = {t}
      BY <1>1, <1>5, Zenon DEF Holders, Unused, FlightTypeOK
    <2>2. \A j \in Tokens \ {i} : Holders(j)' = Holders(j)
      BY <1>2, <1>5, ConstantsAssumption, Zenon DEF Holders, FlightTypeOK
    <2>3. \A j \in Tokens \ {i} : Registered(j)' => Registered(j)
      BY <1>1, Zenon DEF Registered, FlightTypeOK
    <2>4. Cardinality(Holders(i)') = 1
      BY <2>1, FS_Singleton, Zenon
    <2> QED
      BY <1>3, <1>4, <2>2, <2>3, <2>4 DEF CountIsHolders
  <1>10. OneFactoryPerKey'
    BY <1>2, <1>5, ConstantsAssumption
       DEF OneFactoryPerKey, CallersHoldTokens, FlightTypeOK, Creating
  <1>11. PendingIffCreator'
    BY <1>1, <1>2, <1>3, <1>4, <1>5, ConstantsAssumption
       DEF PendingIffCreator, CallersHoldTokens, FlightTypeOK, Registered, Creating, Unused, Holders
  <1>12. SleepersPending'
    BY <1>2, <1>3, <1>4, <1>5 DEF SleepersPending, CallersHoldTokens, FlightTypeOK
  <1>13. MadeIsBetween'
    BY <1>5, Zenon DEF MadeIsBetween, FlightTypeOK
  <1> QED
    BY <1>6, <1>7, <1>8, <1>9, <1>10, <1>11, <1>12, <1>13, Zenon

\* A waiter counts itself into the pending token of its key.
LEMMA JoinCreationStep ==
  ASSUME FlightInv, NEW t \in Threads, NEW k \in Keys, JoinCreation(t, k)
  PROVE  FlightInv'
  <1> USE DEF FlightInv
  <1>0. PICK i \in Tokens : i = ongoing_creation[k]
    BY Zenon DEF JoinCreation, FlightTypeOK
  <1>1. i \in Tokens /\ token[i].outcome = Pending /\ pc[t] = "idle" /\ creation_token[t] = NoToken
    BY <1>0, Zenon DEF JoinCreation, CallersHoldTokens
  <1>2. /\ token' = [token EXCEPT ![i].count = @ + 1]
        /\ pc' = [pc EXCEPT ![t] = "asleep"]
        /\ key' = [key EXCEPT ![t] = k]
        /\ creation_token' = [creation_token EXCEPT ![t] = i]
        /\ UNCHANGED <<ongoing_creation, made, remote, published>>
    BY <1>0, Zenon DEF JoinCreation, Enter
  <1>3. /\ token[i].count \in Nat
        /\ token'[i] = [count |-> token[i].count + 1, outcome |-> Pending]
        /\ \A j \in Tokens \ {i} : token'[j] = token[j]
    BY <1>1, <1>2 DEF FlightTypeOK
  <1>4. FlightTypeOK'
    BY <1>1, <1>2, <1>3 DEF FlightTypeOK, Locations
  <1>5. CallersHoldTokens'
    <2> SUFFICES ASSUME NEW u \in Threads
                 PROVE  IF pc'[u] = "idle"
                        THEN creation_token'[u] = NoToken
                        ELSE /\ key'[u] \in Keys
                             /\ creation_token'[u] \in Tokens
                             /\ ongoing_creation'[key'[u]] = creation_token'[u]
      BY DEF CallersHoldTokens
    <2>1. CASE u = t
      BY <1>0, <1>1, <1>2, <2>1, Zenon DEF FlightTypeOK
    <2>2. CASE u # t
      BY <1>2, <2>2, Zenon DEF CallersHoldTokens, FlightTypeOK
    <2> QED
      BY <2>1, <2>2
  <1>6. TokensDistinct'
    BY <1>2, Zenon DEF TokensDistinct
  <1>7. CountIsHolders'
    <2>1. Holders(i)' = Holders(i) \cup {t} /\ t \notin Holders(i)
      BY <1>1, <1>2, ConstantsAssumption DEF Holders, FlightTypeOK
    <2>2. Cardinality(Holders(i)') = Cardinality(Holders(i)) + 1
      BY <2>1, HoldersFinite, FS_AddElement, Zenon
    <2>3. \A j \in Tokens \ {i} : Holders(j)' = Holders(j)
      BY <1>1, <1>2, ConstantsAssumption, Zenon DEF Holders, FlightTypeOK
    <2>4. \A j \in Tokens : Registered(j)' <=> Registered(j)
      BY <1>2, Zenon DEF Registered
    <2>5. Registered(i)
      BY <1>0, Zenon DEF Registered
    <2>6. token'[i].count > 0 /\ token'[i].count = Cardinality(Holders(i)')
      BY <1>1, <1>3, <2>2, <2>5 DEF CountIsHolders
    <2> QED
      BY <1>3, <2>3, <2>4, <2>6, Zenon DEF CountIsHolders
  <1>8. OneFactoryPerKey'
    BY <1>2, Zenon DEF OneFactoryPerKey, FlightTypeOK, Creating
  <1>9. PendingIffCreator'
    <2>1. \A j \in Tokens : token'[j].outcome = token[j].outcome
      BY <1>1, <1>3
    <2>2. \A u \in Threads : pc'[u] \in Creating =>
            u # t /\ pc[u] \in Creating /\ creation_token'[u] = creation_token[u]
      BY <1>2, Zenon DEF FlightTypeOK, Creating
    <2>3. \A u \in Threads : pc[u] \in Creating =>
            pc'[u] \in Creating /\ creation_token'[u] = creation_token[u] /\ creation_token[u] \in Tokens
      BY <1>1, <1>2, Zenon DEF FlightTypeOK, Creating, CallersHoldTokens
    <2> QED
      BY <1>2, <2>1, <2>2, <2>3 DEF PendingIffCreator, Registered
  <1>10. SleepersPending'
    BY <1>1, <1>2, <1>3 DEF SleepersPending, FlightTypeOK, CallersHoldTokens
  <1>11. MadeIsBetween'
    BY <1>2, Zenon DEF MadeIsBetween, FlightTypeOK
  <1> QED
    BY <1>4, <1>5, <1>6, <1>7, <1>8, <1>9, <1>10, <1>11

\* Steps of one caller that change only its location, and perhaps what it made.
LEMMA MoveStep ==
  ASSUME FlightInv, NEW t \in Threads, NEW where \in Locations, pc[t] # "idle", where # "idle",
         pc' = [pc EXCEPT ![t] = where],
         where \in Creating <=> pc[t] \in Creating,
         where = "asleep" => token[creation_token[t]].outcome = Pending,
         UNCHANGED <<key, creation_token, flightVars, remote>>,
         made' \in [Threads -> Outcomes \cup {Pending}],
         MadeIsBetween'
  PROVE  FlightInv'
  <1> USE DEF FlightInv, flightVars
  <1>1. FlightTypeOK'
    BY Zenon DEF FlightTypeOK
  <1>2. CallersHoldTokens' /\ TokensDistinct'
    BY Zenon DEF CallersHoldTokens, TokensDistinct, FlightTypeOK
  <1>3. CountIsHolders'
    BY Zenon DEF CountIsHolders, Registered, Holders
  <1>4. \A u \in Threads : pc'[u] \in Creating <=> pc[u] \in Creating
    BY Zenon DEF FlightTypeOK
  <1>5. OneFactoryPerKey' /\ PendingIffCreator'
    BY <1>4 DEF OneFactoryPerKey, PendingIffCreator, Registered
  <1>6. SleepersPending'
    BY Zenon DEF SleepersPending, FlightTypeOK
  <1> QED
    BY <1>1, <1>2, <1>3, <1>5, <1>6, Zenon

\* The factory's result is not older than what was published and not newer than
\* the remote object.
LEMMA RunFactoryStep ==
  ASSUME FlightInv, NEW t \in Threads, RunFactory(t)
  PROVE  FlightInv'
  <1> USE DEF FlightInv, RunFactory, flightVars
  <1>1. PICK o \in {remote[key[t]], Failed} : made' = [made EXCEPT ![t] = o]
    BY Zenon
  <1>2. key[t] \in Keys
    BY Zenon DEF CallersHoldTokens
  <1>3. made' \in [Threads -> Outcomes \cup {Pending}]
    BY <1>1, <1>2, Zenon DEF FlightTypeOK, Outcomes
  <1>4. MadeIsBetween'
    <2>1. \A k \in Keys : published'[k] <= remote'[k]
      BY Zenon DEF MadeIsBetween
    <2>2. \A u \in Threads \ {t} : pc'[u] = pc[u] /\ made'[u] = made[u]
      BY <1>1, Zenon DEF FlightTypeOK
    <2>3. made'[t] = o
      BY <1>1, Zenon DEF FlightTypeOK
    <2>4. /\ published[key[t]] \in Nat /\ remote[key[t]] \in Nat
          /\ published[key[t]] <= remote[key[t]]
      BY <1>2, VersionsAreNumbers, Zenon DEF MadeIsBetween, FlightTypeOK
    <2> QED
      BY <2>1, <2>2, <2>3, <2>4 DEF MadeIsBetween
  <1> QED
    BY <1>3, <1>4, MoveStep, Zenon DEF Locations, Creating

\* Waking up and waiting again change only where the caller is.
LEMMA WaitStep ==
  ASSUME FlightInv, NEW t \in Threads, WaitAgain(t) \/ SpuriousWakeup(t)
  PROVE  FlightInv'
  <1> USE DEF FlightInv
  <1>1. made' \in [Threads -> Outcomes \cup {Pending}]
    BY Zenon DEF WaitAgain, SpuriousWakeup, FlightTypeOK
  <1>2. MadeIsBetween'
    BY Zenon DEF WaitAgain, SpuriousWakeup, MadeIsBetween, flightVars, FlightTypeOK
  <1>3. CASE WaitAgain(t)
    BY <1>1, <1>2, <1>3, MoveStep, Zenon DEF WaitAgain, Locations, Creating
  <1>4. CASE SpuriousWakeup(t)
    BY <1>1, <1>2, <1>4, MoveStep, Zenon DEF SpuriousWakeup, Locations, Creating
  <1> QED
    BY <1>3, <1>4, Zenon

-----------------------------------------------------------------------------
(* Leaving. *)

\* A caller that counts itself out of a finished token erases the key exactly
\* when it is the last.
LEMMA LeaveStep ==
  ASSUME FlightInv, NEW t \in Threads, NEW o \in Outcomes, pc[t] # "idle", Leave(t, o),
         pc' \in [Threads -> Locations],
         pc'[t] = "idle",
         \A u \in Threads \ {t} :
            \/ pc'[u] = pc[u]
            \/ pc[u] = "asleep" /\ pc'[u] = "awake",
         \A u \in Threads \ {t} : creation_token[u] = creation_token[t] =>
            pc'[u] # "asleep" /\ pc[u] \notin Creating,
         remote' = remote,
         published' \in [Keys -> Versions],
         MadeIsBetween'
  PROVE  FlightInv'
  <1> USE DEF FlightInv
  <1>1. PICK i \in Tokens, k \in Keys :
          i = creation_token[t] /\ k = key[t] /\ ongoing_creation[k] = i
    BY Zenon DEF CallersHoldTokens
  <1> DEFINE left == token[i].count - 1
  <1>2. /\ token' = [token EXCEPT ![i] = IF left = 0 THEN Fresh ELSE [count |-> left, outcome |-> o]]
        /\ ongoing_creation' = IF left = 0 THEN [ongoing_creation EXCEPT ![k] = NoToken]
                                           ELSE ongoing_creation
        /\ key' = [key EXCEPT ![t] = NoKey]
        /\ creation_token' = [creation_token EXCEPT ![t] = NoToken]
        /\ made' = [made EXCEPT ![t] = Pending]
    BY <1>1, Zenon DEF Leave
  <1>3. Registered(i) /\ token[i].count \in Nat \ {0} /\ token[i].count = Cardinality(Holders(i))
    BY <1>1 DEF CountIsHolders, Registered, FlightTypeOK
  <1>4. left \in Nat
    BY <1>3
  <1>5. t \in Holders(i)
    BY <1>1, Zenon DEF Holders
  <1>6. Cardinality(Holders(i) \ {t}) = left
    BY <1>3, <1>5, HoldersFinite, FS_RemoveElement, Zenon
  <1>7. left = 0 => Holders(i) = {t}
    <2>1. IsFiniteSet(Holders(i) \ {t})
      BY HoldersFinite, FS_RemoveElement, Zenon
    <2>2. left = 0 => Holders(i) \ {t} = {}
      BY <1>6, <2>1, FS_EmptySet, Zenon
    <2> QED
      BY <1>5, <2>2, Zenon
  <1>8. Holders(i)' = Holders(i) \ {t}
    BY <1>1, <1>2, ConstantsAssumption, Zenon DEF Holders, FlightTypeOK
  <1>9. \A j \in Tokens \ {i} : Holders(j)' = Holders(j) /\ token'[j] = token[j]
    BY <1>1, <1>2, ConstantsAssumption DEF Holders, FlightTypeOK
  <1>10. left # 0 => token'[i] = [count |-> left, outcome |-> o]
    BY <1>2, Zenon DEF FlightTypeOK
  <1>11. \A j \in Tokens : Registered(j)' => Registered(j)
    BY <1>2, ConstantsAssumption, Zenon DEF Registered, FlightTypeOK
  <1>12. left = 0 => ~Registered(i)'
    BY <1>1, <1>2, ConstantsAssumption DEF Registered, FlightTypeOK, TokensDistinct
  <1> HIDE DEF left
  <1>13. FlightTypeOK'
    BY <1>2, <1>4, FreshType, Zenon DEF FlightTypeOK
  <1>14. TokensDistinct'
    BY <1>2, Zenon DEF TokensDistinct, FlightTypeOK
  <1>15. CountIsHolders'
    <2> SUFFICES ASSUME NEW j \in Tokens, Registered(j)'
                 PROVE  token'[j].count > 0 /\ token'[j].count = Cardinality(Holders(j)')
      BY Zenon DEF CountIsHolders
    <2>1. CASE j = i
      <3>1. left # 0
        BY <1>12, <2>1, Zenon
      <3> HIDE DEF FlightInv
      <3>2. token'[j].count = left
        BY <1>10, <2>1, <3>1
      <3>3. Cardinality(Holders(j)') = left
        BY <1>6, <1>8, <2>1, Zenon
      <3>4. left > 0
        BY <1>4, <3>1
      <3> QED
        BY <3>2, <3>3, <3>4, Zenon
    <2>2. CASE j # i
      BY <1>9, <1>11, <2>2, Zenon DEF CountIsHolders
    <2> QED
      BY <2>1, <2>2, Zenon
  <1>16. \A u \in Threads \ {t} :
           /\ key'[u] = key[u] /\ creation_token'[u] = creation_token[u] /\ made'[u] = made[u]
           /\ pc'[u] \in Creating <=> pc[u] \in Creating
           /\ pc'[u] = "idle" <=> pc[u] = "idle"
    BY <1>2, Zenon DEF FlightTypeOK, Creating
  <1>17. CallersHoldTokens'
    <2> SUFFICES ASSUME NEW u \in Threads
                 PROVE  IF pc'[u] = "idle"
                        THEN creation_token'[u] = NoToken
                        ELSE /\ key'[u] \in Keys
                             /\ creation_token'[u] \in Tokens
                             /\ ongoing_creation'[key'[u]] = creation_token'[u]
      BY Zenon DEF CallersHoldTokens
    <2>1. CASE u = t
      BY <1>2, <2>1, Zenon DEF FlightTypeOK
    <2>2. CASE u # t /\ pc[u] = "idle"
      BY <1>16, <2>2, Zenon DEF CallersHoldTokens
    <2>3. CASE u # t /\ pc[u] # "idle" /\ key[u] # k
      BY <1>2, <1>16, <2>3, Zenon DEF CallersHoldTokens, FlightTypeOK
    <2>4. CASE u # t /\ pc[u] # "idle" /\ key[u] = k
      <3>1. u \in Holders(i)
        BY <1>1, <2>4, Zenon DEF CallersHoldTokens, Holders
      <3> QED
        BY <1>2, <1>7, <1>16, <2>4, <3>1 DEF CallersHoldTokens
    <2> QED
      BY <2>1, <2>2, <2>3, <2>4, Zenon
  <1>18. OneFactoryPerKey'
    BY <1>16, ConstantsAssumption DEF OneFactoryPerKey, Creating
  <1>19. PendingIffCreator'
    <2>1. ASSUME NEW u \in Threads, pc'[u] \in Creating
          PROVE  token'[creation_token'[u]].outcome = Pending
      <3>1. u # t /\ pc[u] \in Creating /\ creation_token'[u] = creation_token[u]
        BY <1>16, <2>1, Zenon DEF Creating
      <3>2. creation_token[u] \in Tokens \ {i}
        BY <1>1, <3>1, Zenon DEF CallersHoldTokens, Creating
      <3> QED
        BY <1>9, <3>1, <3>2 DEF PendingIffCreator
    <2>2. ASSUME NEW j \in Tokens, Registered(j)', token'[j].outcome = Pending
          PROVE  \E u \in Threads : creation_token'[u] = j /\ pc'[u] \in Creating
      <3>1. PendingIffCreator
        BY Zenon
      <3> HIDE DEF FlightInv
      <3>2. o # Pending
        BY ConstantsAssumption, Zenon DEF Outcomes
      <3>3. left # 0 => token'[i].outcome = o
        BY <1>10
      <3>4. j # i
        BY <1>12, <2>2, <3>2, <3>3, Zenon
      <3>5. Registered(j) /\ token[j].outcome = Pending
        BY <1>9, <1>11, <2>2, <3>4, Zenon
      <3>6. PICK u \in Threads : creation_token[u] = j /\ pc[u] \in Creating
        BY <3>1, <3>5, Zenon DEF PendingIffCreator
      <3>7. u # t
        BY <1>1, <3>4, <3>6, Zenon
      <3> QED
        BY <1>16, <3>6, <3>7, Zenon
    <2> QED
      BY <2>1, <2>2, Zenon DEF PendingIffCreator
  <1>20. SleepersPending'
    <2> SUFFICES ASSUME NEW u \in Threads, pc'[u] = "asleep"
                 PROVE  token'[creation_token'[u]].outcome = Pending
      BY Zenon DEF SleepersPending
    <2>1. u # t /\ pc[u] = "asleep" /\ creation_token'[u] = creation_token[u]
      BY <1>16, Zenon
    <2>2. creation_token[u] \in Tokens \ {i}
      BY <1>1, <2>1, Zenon DEF CallersHoldTokens
    <2> QED
      BY <1>9, <2>1, <2>2, Zenon DEF SleepersPending
  <1> QED
    BY <1>13, <1>14, <1>15, <1>17, <1>18, <1>19, <1>20, Zenon

\* The creator finishes the token and wakes all its waiters before it leaves.
LEMMA PublishStep ==
  ASSUME FlightInv, NEW t \in Threads, Publish(t)
  PROVE  FlightInv' /\ \A k \in Keys : published'[k] >= published[k]
  <1> USE DEF FlightInv
  <1>1. pc[t] = "created" /\ key[t] \in Keys /\ creation_token[t] \in Tokens
    BY Zenon DEF Publish, CallersHoldTokens
  <1>2. made[t] \in Outcomes
    <2>1. published[key[t]] \in Versions /\ remote[key[t]] \in Versions
      BY <1>1, Zenon DEF FlightTypeOK
    <2>2. made[t] = Failed \/ made[t] \in published[key[t]] .. remote[key[t]]
      BY <1>1, Zenon DEF MadeIsBetween
    <2> QED
      BY <2>1, <2>2, ConstantsAssumption DEF Outcomes, Versions
  <1>3. /\ published' = IF made[t] # Failed THEN [published EXCEPT ![key[t]] = made[t]]
                                            ELSE published
        /\ pc' = [Notified(creation_token[t]) EXCEPT ![t] = "idle"]
        /\ Leave(t, made[t])
        /\ remote' = remote
    BY Zenon DEF Publish
  <1>4. /\ published' \in [Keys -> Versions]
        /\ \A k \in Keys : published'[k] >= published[k] /\ published'[k] <= remote[k]
        /\ \A k \in Keys \ {key[t]} : published'[k] = published[k]
    BY <1>1, <1>2, <1>3, ConstantsAssumption DEF MadeIsBetween, FlightTypeOK, Outcomes, Versions
  <1>5. /\ pc' \in [Threads -> Locations]
        /\ pc'[t] = "idle"
        /\ \A u \in Threads \ {t} :
             pc'[u] = IF pc[u] = "asleep" /\ creation_token[u] = creation_token[t]
                      THEN "awake" ELSE pc[u]
    BY <1>3, Zenon DEF Notified, FlightTypeOK, Locations
  <1>6. \A u \in Threads \ {t} : pc[u] \in Creating => key[u] # key[t]
    BY <1>1, Zenon DEF OneFactoryPerKey, Creating
  <1>7. \A u \in Threads \ {t} : creation_token[u] = creation_token[t] => pc[u] \notin Creating
    <2> SUFFICES ASSUME NEW u \in Threads \ {t}, creation_token[u] = creation_token[t],
                        pc[u] \in Creating
                 PROVE  FALSE
      BY Zenon
    <2>1. key[u] \in Keys /\ ongoing_creation[key[u]] = ongoing_creation[key[t]]
      BY <1>1, Zenon DEF CallersHoldTokens, Creating
    <2>2. ongoing_creation[key[t]] \in Tokens
      BY <1>1, Zenon DEF CallersHoldTokens
    <2> QED
      BY <1>1, <1>6, <2>1, <2>2, ConstantsAssumption, Zenon DEF TokensDistinct
  <1>8. MadeIsBetween'
    <2> SUFFICES ASSUME NEW u \in Threads, pc'[u] = "created"
                 PROVE  made'[u] = Failed \/ made'[u] \in published'[key'[u]] .. remote[key'[u]]
      BY <1>3, <1>4, Zenon DEF MadeIsBetween
    <2>1. u # t /\ pc[u] = "created"
      BY <1>5, Zenon
    <2>2. key'[u] = key[u] /\ made'[u] = made[u]
      BY <1>3, <2>1, Zenon DEF Leave, FlightTypeOK
    <2>3. key[u] \in Keys \ {key[t]}
      BY <1>6, <2>1, Zenon DEF CallersHoldTokens, Creating
    <2> QED
      BY <1>4, <2>1, <2>2, <2>3, Zenon DEF MadeIsBetween
  <1>9. FlightInv'
    BY <1>1, <1>2, <1>3, <1>4, <1>5, <1>7, <1>8, LeaveStep, Zenon
  <1> QED
    BY <1>4, <1>9, Zenon

\* A waiter that finds the token finished leaves with its outcome.
LEMMA ReturnOutcomeStep ==
  ASSUME FlightInv, NEW t \in Threads, ReturnOutcome(t)
  PROVE  FlightInv'
  <1> USE DEF FlightInv
  <1> DEFINE o == token[creation_token[t]].outcome
  <1>1. creation_token[t] \in Tokens /\ o \in Outcomes
    BY Zenon DEF ReturnOutcome, CallersHoldTokens, FlightTypeOK
  <1>2. \A u \in Threads : creation_token[u] = creation_token[t] =>
          pc[u] # "asleep" /\ pc[u] \notin Creating
    BY Zenon DEF ReturnOutcome, SleepersPending, PendingIffCreator
  <1>3. MadeIsBetween'
    BY Zenon DEF ReturnOutcome, Leave, MadeIsBetween, FlightTypeOK
  <1>4. /\ pc' \in [Threads -> Locations]
        /\ pc'[t] = "idle"
        /\ \A u \in Threads \ {t} : pc'[u] = pc[u]
    BY Zenon DEF ReturnOutcome, FlightTypeOK, Locations
  <1>5. pc[t] # "idle" /\ Leave(t, o) /\ published' = published /\ remote' = remote
    BY Zenon DEF ReturnOutcome
  <1>6. published' \in [Keys -> Versions]
    BY <1>5, Zenon DEF FlightTypeOK
  <1> HIDE DEF o
  <1> QED
    BY <1>1, <1>2, <1>3, <1>4, <1>5, <1>6, LeaveStep, Zenon

-----------------------------------------------------------------------------
(* The theorems. *)

\* Every step of the cache and of its callers preserves the invariant.
LEMMA NextFlightInv == FlightInv /\ [Next]_vars => FlightInv'
  <1> SUFFICES ASSUME FlightInv, [Next]_vars PROVE FlightInv'
    BY Zenon
  <1>1. CASE UNCHANGED vars
    BY <1>1, SameFlights, Zenon DEF vars
  <1>2. ASSUME NEW t \in Threads, ThreadStep(t) \/ SpuriousWakeup(t) PROVE FlightInv'
    BY <1>2, RunFactoryStep, PublishStep, ReturnOutcomeStep, WaitStep, Zenon DEF ThreadStep
  <1>3. ASSUME NEW t \in Threads, NEW k \in Keys, Call(t, k) PROVE FlightInv'
    BY <1>3, StartCreationStep, JoinCreationStep, JoinFinishedStep, Zenon DEF Call
  <1>4. ASSUME NEW k \in Keys, RemoteUpdate(k) PROVE FlightInv'
    BY <1>4, RemoteUpdateStep, Zenon
  <1>5. CASE CacheOperation \/ Tick
    BY <1>5, CacheOperationStep, Zenon
  <1> QED
    BY <1>1, <1>2, <1>3, <1>4, <1>5, Zenon DEF Next

\* Every critical section of the cache preserves the accounting of GetOrCreate.
THEOREM FlightInvariant == Spec => []FlightInv
  BY InitFlightInv, NextFlightInv, PTL DEF Spec

\* GetOrCreate never runs two factory calls for one key at the same time.
THEOREM OneFactory == Spec => []OneFactoryPerKey
  <1>1. FlightInv => OneFactoryPerKey
    BY Zenon DEF FlightInv
  <1> QED
    BY <1>1, FlightInvariant, PTL

\* A token's counter is the number of calls that hold it, and a call holds the
\* token that is registered for its key.
THEOREM Accounting == Spec => []TokenAccounting
  <1>1. FlightInv => TokenAccounting
    <2> SUFFICES ASSUME FlightInv PROVE TokenAccounting
      BY Zenon
    <2>1. \A k \in Keys : ongoing_creation[k] # NoToken =>
            ongoing_creation[k] \in Tokens /\ Registered(ongoing_creation[k])
      BY Zenon DEF FlightInv, FlightTypeOK, Registered
    <2> QED
      BY <2>1, Zenon DEF FlightInv, CountIsHolders, CallersHoldTokens, TokenAccounting
  <1> QED
    BY <1>1, FlightInvariant, PTL

\* A caller that sleeps on a token's condition variable is never forgotten: the
\* call that will notify it is still running.
THEOREM NoLostWakeup == Spec => []SleeperHasCreator
  <1>1. FlightInv => SleeperHasCreator
    <2> SUFFICES ASSUME FlightInv, NEW t \in Threads, pc[t] = "asleep"
                 PROVE  \E u \in Threads : pc[u] \in Creating /\ creation_token[u] = creation_token[t]
      BY Zenon DEF SleeperHasCreator
    <2>1. creation_token[t] \in Tokens /\ Registered(creation_token[t])
      BY Zenon DEF FlightInv, CallersHoldTokens, Registered
    <2>2. token[creation_token[t]].outcome = Pending
      BY Zenon DEF FlightInv, SleepersPending
    <2> QED
      BY <2>1, <2>2, Zenon DEF FlightInv, PendingIffCreator
  <1> QED
    BY <1>1, FlightInvariant, PTL

\* The factory calls for a key publish versions that never go backwards.
THEOREM PublishesForward == Spec => PublishMonotone
  <1> DEFINE Forward == \A k \in Keys : published'[k] >= published[k]
  <1>1. FlightInv /\ [Next]_vars => [Forward]_vars
    <2> SUFFICES ASSUME FlightInv, Next PROVE Forward
      BY Zenon
    <2>1. ASSUME NEW t \in Threads, Publish(t) PROVE Forward
      BY <2>1, PublishStep, Zenon
    <2>2. CASE UNCHANGED published
      <3>1. \A k \in Keys : published[k] \in Nat
        BY VersionsAreNumbers, Zenon DEF FlightInv, FlightTypeOK
      <3> QED
        BY <2>2, <3>1
    <2>3. ASSUME NEW t \in Threads, NEW k \in Keys, Call(t, k) PROVE UNCHANGED published
      BY <2>3, Zenon
         DEF Call, FindCached, StartCreation, JoinCreation, JoinFinished, Enter, flightVars
    <2>4. ASSUME NEW t \in Threads, ThreadStep(t) \/ SpuriousWakeup(t)
          PROVE  Publish(t) \/ UNCHANGED published
      BY <2>4, Zenon
         DEF ThreadStep, RunFactory, ReturnOutcome, WaitAgain, SpuriousWakeup, flightVars
    <2>5. ASSUME CacheOperation \/ Tick PROVE UNCHANGED published
      BY <2>5, Zenon DEF CacheOperation, Get, Put, Delete, Clear, ClearFrom, Take, Tick, flightVars
    <2>6. ASSUME NEW k \in Keys, RemoteUpdate(k) PROVE UNCHANGED published
      BY <2>6, Zenon DEF RemoteUpdate, flightVars
    <2> QED
      BY <2>1, <2>2, <2>3, <2>4, <2>5, <2>6, Zenon DEF Next
  <1> QED
    BY <1>1, FlightInvariant, PTL DEF Spec, PublishMonotone

-----------------------------------------------------------------------------
(* The LRU list and the map. *)

Entries == [value : Versions, age : 0 .. Timeout + 1]

\* A cache whose list has the keys of the map, each once.
Listed(c) ==
  /\ c = [lru_list |-> c.lru_list, entry_map |-> c.entry_map]
  /\ c.lru_list \in Seq(Keys) /\ Once(c.lru_list)
  /\ Range(c.lru_list) = Cached(c)
  /\ c.entry_map \in [Cached(c) -> Entries]

Bounded(c) == MaxEntries > 0 => Len(c.lru_list) <= MaxEntries

\* The cache of a new instance, and what Clear and Take leave.
LEMMA EmptyListed == Listed(EmptyCache) /\ Bounded(EmptyCache)
<1>1. /\ EmptyCache.lru_list = <<>> /\ EmptyCache.entry_map = <<>>
      /\ EmptyCache = [lru_list |-> <<>>, entry_map |-> <<>>]
  BY Zenon DEF EmptyCache
<1>2. <<>> \in Seq(Keys) /\ DOMAIN <<>> = {} /\ Len(<<>>) = 0 /\ <<>> \in [{} -> Entries]
  OBVIOUS
<1>3. Listed(EmptyCache)
  BY <1>1, <1>2, Zenon DEF Listed, Cached, Once, Range
<1>4. MaxEntries \in Nat
  BY LruAssumption, Zenon
<1>5. Bounded(EmptyCache)
  BY <1>1, <1>2, <1>4 DEF Bounded
<1> QED
  BY <1>3, <1>5, Zenon

\* DeleteImpl erases the same keys from the list and from the map.
LEMMA WithoutListed ==
  ASSUME NEW c, NEW K, Listed(c)
  PROVE  /\ Listed(Without(c, K)) /\ Cached(Without(c, K)) = Cached(c) \ K
         /\ Len(Without(c, K).lru_list) <= Len(c.lru_list)
         /\ Bounded(c) => Bounded(Without(c, K))
<1> DEFINE d == Without(c, K)
<1>1. /\ d.lru_list = Erased(c.lru_list, K)
      /\ d.entry_map = Restrict(c.entry_map, Cached(c) \ K)
      /\ d = [lru_list |-> d.lru_list, entry_map |-> d.entry_map]
  BY Zenon DEF Without
<1>2. /\ d.entry_map \in [Cached(c) \ K -> Entries]
      /\ Cached(d) = Cached(c) \ K
  BY <1>1, Zenon DEF Restrict, Cached, Listed
<1>3. c.lru_list \in Seq(Keys) /\ Once(c.lru_list) /\ Range(c.lru_list) = Cached(c)
  BY Zenon DEF Listed
<1> HIDE DEF d
<1>4. /\ d.lru_list \in Seq(Keys) /\ Len(d.lru_list) <= Len(c.lru_list)
      /\ Range(d.lru_list) = Range(c.lru_list) \ K /\ Once(d.lru_list)
  BY <1>1, <1>3, ErasedList
<1>5. Listed(d)
  BY <1>1, <1>2, <1>3, <1>4, Zenon DEF Listed
<1>6. Bounded(c) => Bounded(d)
  <2>1. Len(d.lru_list) \in Nat /\ Len(c.lru_list) \in Nat /\ MaxEntries \in Nat
    BY <1>3, <1>4, LruAssumption
  <2> QED
    BY <1>4, <2>1 DEF Bounded
<1> QED
  BY <1>2, <1>4, <1>5, <1>6, Zenon DEF d

\* Put adds the key to the front of the list and to the map.
LEMMA InsertListed ==
  ASSUME NEW c, NEW k \in Keys, NEW v \in Versions, Listed(c), k \notin Cached(c)
  PROVE  /\ Listed(InsertFront(c, k, v))
         /\ Len(InsertFront(c, k, v).lru_list) = Len(c.lru_list) + 1
<1> DEFINE d == InsertFront(c, k, v)
<1>1. /\ d.lru_list = <<k>> \o c.lru_list
      /\ d.entry_map = [j \in Cached(c) \cup {k} |->
                          IF j = k THEN [value |-> v, age |-> 0] ELSE c.entry_map[j]]
      /\ d = [lru_list |-> d.lru_list, entry_map |-> d.entry_map]
  BY Zenon DEF InsertFront
<1>2. [value |-> v, age |-> 0] \in Entries
  <2>1. 0 \in 0 .. Timeout + 1
    BY LruAssumption
  <2> QED
    BY <2>1, Zenon DEF Entries
<1>3. \A j \in Cached(c) : c.entry_map[j] \in Entries
  BY Zenon DEF Listed
<1>4. /\ d.entry_map \in [Cached(c) \cup {k} -> Entries]
      /\ Cached(d) = Cached(c) \cup {k}
  BY <1>1, <1>2, <1>3, Zenon DEF Cached
<1>5. c.lru_list \in Seq(Keys) /\ Once(c.lru_list) /\ Range(c.lru_list) = Cached(c)
  BY Zenon DEF Listed
<1> HIDE DEF d
<1>6. /\ d.lru_list \in Seq(Keys) /\ Len(d.lru_list) = Len(c.lru_list) + 1
      /\ Range(d.lru_list) = Cached(c) \cup {k} /\ Once(d.lru_list)
  BY <1>1, <1>5, FrontList
<1>7. Listed(d)
  BY <1>1, <1>4, <1>6, Zenon DEF Listed
<1> QED
  BY <1>6, <1>7, Zenon DEF d

\* One entry too many leaves the list at its end, and the map.
LEMMA EvictListed ==
  ASSUME NEW c, Listed(c), MaxEntries > 0 => Len(c.lru_list) <= MaxEntries + 1
  PROVE  Listed(EvictOverflow(c)) /\ Bounded(EvictOverflow(c))
<1>1. c.lru_list \in Seq(Keys) /\ Once(c.lru_list) /\ Range(c.lru_list) = Cached(c)
  BY Zenon DEF Listed
<1>2. MaxEntries \in Nat /\ Len(c.lru_list) \in Nat
  BY <1>1, LruAssumption
<1>3. CASE MaxEntries > 0 /\ Len(c.lru_list) > MaxEntries
  <2> DEFINE d == EvictOverflow(c)
             last == c.lru_list[Len(c.lru_list)]
  <2>1. /\ d.lru_list = SubSeq(c.lru_list, 1, Len(c.lru_list) - 1)
        /\ d.entry_map = Restrict(c.entry_map, Cached(c) \ {last})
        /\ d = [lru_list |-> d.lru_list, entry_map |-> d.entry_map]
    BY <1>3, Zenon DEF EvictOverflow
  <2>2. Len(c.lru_list) > 0
    BY <1>2, <1>3
  <2>3. d.entry_map \in [Cached(c) \ {last} -> Entries] /\ Cached(d) = Cached(c) \ {last}
    BY <2>1, Zenon DEF Restrict, Cached, Listed
  <2> HIDE DEF d
  <2>4. /\ d.lru_list \in Seq(Keys) /\ Len(d.lru_list) = Len(c.lru_list) - 1
        /\ Range(d.lru_list) = Cached(c) \ {last} /\ Once(d.lru_list)
    BY <1>1, <2>1, <2>2, BackList, Zenon
  <2>5. Listed(d)
    BY <2>1, <2>3, <2>4, Zenon DEF Listed
  <2>6. Bounded(d)
    BY <1>2, <1>3, <2>4 DEF Bounded
  <2> QED
    BY <2>5, <2>6, Zenon DEF d
<1>4. CASE ~(MaxEntries > 0 /\ Len(c.lru_list) > MaxEntries)
  <2>1. Bounded(c)
    BY <1>2, <1>4 DEF Bounded
  <2>2. EvictOverflow(c) = c
    BY <1>4, Zenon DEF EvictOverflow
  <2> QED
    BY <2>1, <2>2, Zenon
<1> QED
  BY <1>3, <1>4, Zenon

\* Put, of a new key or of one that is cached.
LEMMA PutListed ==
  ASSUME NEW c, NEW k \in Keys, NEW v \in Versions, Listed(c), Bounded(c)
  PROVE  Listed(LruPut(c, k, v)) /\ Bounded(LruPut(c, k, v))
<1> DEFINE d == Without(c, {k})
           e == InsertFront(d, k, v)
<1>1. Listed(d) /\ Cached(d) = Cached(c) \ {k} /\ Bounded(d)
  BY WithoutListed, Zenon
<1>2. k \notin Cached(d)
  BY <1>1, Zenon
<1> HIDE DEF d
<1>3. Listed(e) /\ Len(e.lru_list) = Len(d.lru_list) + 1
  BY <1>1, <1>2, InsertListed, Zenon
<1>4. d.lru_list \in Seq(Keys)
  BY <1>1, Zenon DEF Listed
<1> HIDE DEF e
<1>5. MaxEntries > 0 => Len(e.lru_list) <= MaxEntries + 1
  <2>1. Len(d.lru_list) \in Nat /\ MaxEntries \in Nat
    BY <1>4, LruAssumption
  <2> QED
    BY <1>1, <1>3, <2>1 DEF Bounded
<1>6. LruPut(c, k, v) = EvictOverflow(e)
  BY Zenon DEF LruPut, d, e
<1> QED
  BY <1>3, <1>5, <1>6, EvictListed, Zenon

\* Get moves a hit to the front, and deletes an entry that is expired.
LEMMA GetListed ==
  ASSUME NEW c, NEW k \in Keys, Listed(c), Bounded(c)
  PROVE  Listed(LruGet(c, k)) /\ Bounded(LruGet(c, k))
<1>1. CASE LruHit(c, k)
  <2> DEFINE d == LruGet(c, k)
             rest == Erased(c.lru_list, {k})
  <2>1. c.lru_list \in Seq(Keys) /\ Once(c.lru_list) /\ Range(c.lru_list) = Cached(c)
    BY Zenon DEF Listed
  <2>2. d.lru_list = <<k>> \o rest /\ d.entry_map = c.entry_map /\ Cached(d) = Cached(c)
        /\ d = [lru_list |-> d.lru_list, entry_map |-> d.entry_map]
    <3>1. PICK r : r = [lru_list |-> c.lru_list, entry_map |-> c.entry_map]
      BY Zenon
    <3>2. c = r
      BY <3>1, Zenon DEF Listed
    <3>3. d = [r EXCEPT !.lru_list = <<k>> \o rest]
      BY <1>1, <3>2, Zenon DEF LruGet
    <3> QED
      BY <3>1, <3>2, <3>3, Zenon DEF Cached
  <2>3. k \in Cached(c)
    BY <1>1, Zenon DEF LruHit
  <2> HIDE DEF d, rest
  <2>4. /\ rest \in Seq(Keys) /\ Range(rest) = Cached(c) \ {k} /\ Once(rest)
        /\ Len(rest) <= Len(c.lru_list)
    BY <2>1, ErasedList DEF rest
  <2>5. /\ d.lru_list \in Seq(Keys) /\ Once(d.lru_list)
        /\ Range(d.lru_list) = (Cached(c) \ {k}) \cup {k}
    BY <2>2, <2>4, FrontList
  <2>6. Range(d.lru_list) = Cached(d)
    BY <2>2, <2>3, <2>5, Zenon
  <2>7. Listed(d)
    BY <2>2, <2>5, <2>6, Zenon DEF Listed
  <2>8. Len(d.lru_list) = Len(c.lru_list)
    BY <2>1, <2>2, <2>5, <2>6, OnceLength, Zenon
  <2> QED
    BY <2>7, <2>8, Zenon DEF Bounded, d
<1>2. CASE ~LruHit(c, k)
  BY <1>2, WithoutListed, Zenon DEF LruGet
<1> QED
  BY <1>1, <1>2, Zenon

\* The clock changes no key.
LEMMA AgedListed ==
  ASSUME NEW c, Listed(c), Bounded(c)
  PROVE  Listed(Aged(c)) /\ Bounded(Aged(c))
<1> DEFINE d == Aged(c)
           older(e) == [e EXCEPT !.age = IF e.age > Timeout THEN e.age ELSE e.age + 1]
<1>1. PICK r : r = [lru_list |-> c.lru_list, entry_map |-> c.entry_map]
  BY Zenon
<1>2. c = r
  BY <1>1, Zenon DEF Listed
<1>3. d = [r EXCEPT !.entry_map = [k \in Cached(c) |-> older(c.entry_map[k])]]
  BY <1>2, Zenon DEF Aged
<1>4. /\ d.lru_list = c.lru_list
      /\ d.entry_map = [k \in Cached(c) |-> older(c.entry_map[k])]
      /\ d = [lru_list |-> d.lru_list, entry_map |-> d.entry_map]
  BY <1>1, <1>2, <1>3, Zenon
<1>5. ASSUME NEW e \in Entries PROVE older(e) \in Entries
  <2>1. PICK v \in Versions, a \in 0 .. Timeout + 1 : e = [value |-> v, age |-> a]
    BY DEF Entries
  <2>2. older(e) = [value |-> v, age |-> IF a > Timeout THEN a ELSE a + 1]
    BY <2>1
  <2>3. (IF a > Timeout THEN a ELSE a + 1) \in 0 .. Timeout + 1
    BY LruAssumption
  <2> QED
    BY <2>2, <2>3, Zenon DEF Entries
<1>6. \A k \in Cached(c) : c.entry_map[k] \in Entries
  BY Zenon DEF Listed
<1> HIDE DEF older
<1>7. d.entry_map \in [Cached(c) -> Entries] /\ Cached(d) = Cached(c)
  BY <1>4, <1>5, <1>6, Zenon DEF Cached
<1> HIDE DEF d
<1> QED
  BY <1>4, <1>7, Zenon DEF Listed, Bounded, d

\* What every step preserves of the cache.
CacheInv == Listed(internal_cache) /\ Bounded(internal_cache)

\* Every critical section leaves the list and the map with the same keys.  The
\* value a caller publishes is a version, as FlightInv says.
LEMMA NextCacheInv == FlightInv /\ CacheInv /\ [Next]_vars => CacheInv'
<1> SUFFICES ASSUME FlightInv, CacheInv, [Next]_vars PROVE CacheInv'
  BY Zenon
<1>1. ASSUME internal_cache' = internal_cache PROVE CacheInv'
  BY <1>1, Zenon DEF CacheInv, Listed, Bounded, Cached
<1>2. ASSUME NEW d, internal_cache' = d, Listed(d), Bounded(d) PROVE CacheInv'
  BY <1>2, Zenon DEF CacheInv, Listed, Bounded, Cached
<1>3. ASSUME NEW k \in Keys, internal_cache' = LruGet(internal_cache, k) PROVE CacheInv'
  BY <1>2, <1>3, GetListed, Zenon DEF CacheInv
<1>4. ASSUME NEW t \in Threads, Publish(t) PROVE CacheInv'
  <2>1. pc[t] = "created" /\ pc[t] # "idle"
    BY <1>4, Zenon DEF Publish
  <2>2. key[t] \in Keys /\ made[t] \in Versions \cup {Failed}
    <3>1. key[t] \in Keys
      BY <2>1, Zenon DEF FlightInv, CallersHoldTokens
    <3>2. made[t] \in Versions \cup {Failed, Pending}
      BY Zenon DEF FlightInv, FlightTypeOK, Outcomes
    <3>3. made[t] = Failed \/ made[t] \in published[key[t]] .. remote[key[t]]
      BY <2>1, Zenon DEF FlightInv, MadeIsBetween
    <3>4. published[key[t]] \in 0 .. MaxVersion /\ remote[key[t]] \in 0 .. MaxVersion
      BY <3>1, Zenon DEF FlightInv, FlightTypeOK, Versions
    <3>5. made[t] = Failed \/ made[t] \in 0 .. MaxVersion
      BY <3>3, <3>4, ConstantsAssumption
    <3> QED
      BY <3>1, <3>5, Zenon DEF Versions
  <2>3. CASE made[t] = Failed
    BY <1>1, <1>4, <2>3, Zenon DEF Publish
  <2>4. CASE made[t] # Failed
    <3>1. internal_cache' = LruPut(internal_cache, key[t], made[t])
      BY <1>4, <2>4, Zenon DEF Publish
    <3> QED
      BY <1>2, <2>2, <2>4, <3>1, PutListed, Zenon DEF CacheInv
  <2> QED
    BY <2>3, <2>4, Zenon
<1>5. ASSUME NEW t \in Threads, NEW k \in Keys, Call(t, k) PROVE CacheInv'
  BY <1>3, <1>5, Zenon DEF Call, FindCached, StartCreation, JoinCreation, JoinFinished
<1>6. ASSUME NEW t \in Threads, RunFactory(t) \/ ReturnOutcome(t) \/ WaitAgain(t) \/ SpuriousWakeup(t)
      PROVE  CacheInv'
  BY <1>1, <1>6, Zenon DEF RunFactory, ReturnOutcome, WaitAgain, SpuriousWakeup
<1>7. CASE CacheOperation
  <2>1. ASSUME NEW k \in Keys, NEW v \in Versions, Put(k, v) PROVE CacheInv'
    BY <1>2, <2>1, PutListed, Zenon DEF Put, CacheInv
  <2>2. ASSUME NEW k \in Keys, Get(k) PROVE CacheInv'
    BY <1>3, <2>2, Zenon DEF Get
  <2>3. ASSUME NEW K, internal_cache' = Without(internal_cache, K) PROVE CacheInv'
    BY <1>2, <2>3, WithoutListed, Zenon DEF CacheInv
  <2>4. ASSUME NEW k \in Keys, Delete(k) PROVE CacheInv'
    BY <2>3, <2>4, Zenon DEF Delete, LruDelete
  <2>5. ASSUME NEW k \in Keys, NEW F \in SUBSET Keys, ClearFrom(k, F) PROVE CacheInv'
    BY <2>3, <2>5, Zenon DEF ClearFrom, LruClearFrom
  <2>6. CASE Clear \/ Take
    BY <1>2, <2>6, EmptyListed, Zenon DEF Clear, Take
  <2> QED
    BY <1>7, <2>1, <2>2, <2>4, <2>5, <2>6, Zenon DEF CacheOperation
<1>8. CASE Tick
  BY <1>2, <1>8, AgedListed, Zenon DEF Tick, CacheInv
<1>9. CASE (\E k \in Keys : RemoteUpdate(k)) \/ UNCHANGED vars
  BY <1>1, <1>9, Zenon DEF RemoteUpdate, vars
<1> QED
  BY <1>4, <1>5, <1>6, <1>7, <1>8, <1>9, Zenon DEF Next, ThreadStep

\* The LRU list and the map of the cache have the same keys, each once, and no
\* more than max_entries of them, whatever the callers of GetOrCreate and the
\* other operations do.
THEOREM LruConsistentAlways == Spec => []LruConsistent
<1>1. Init => CacheInv
  BY EmptyListed, Zenon DEF Init, CacheInv
<1>2. FlightInv /\ CacheInv => LruConsistent
  <2> SUFFICES ASSUME FlightInv, CacheInv PROVE LruConsistent
    BY Zenon
  <2> DEFINE c == internal_cache
  <2>1. Listed(c) /\ Bounded(c)
    BY Zenon DEF CacheInv
  <2>2. DOMAIN c = {"lru_list", "entry_map"}
    <3>1. PICK r : r = [lru_list |-> c.lru_list, entry_map |-> c.entry_map]
      BY Zenon
    <3> QED
      BY <2>1, <3>1, Zenon DEF Listed
  <2>3. Len(c.lru_list) = Cardinality(Cached(c))
    BY <2>1, OnceLength, Zenon DEF Listed
  <2>4. TypeOK
    BY <2>1, <2>2, Zenon DEF TypeOK, FlightInv, Listed, Entries
  <2> QED
    BY <2>1, <2>3, <2>4, Zenon DEF LruConsistent, LruWellFormed, Listed, Bounded
<1> QED
  BY <1>1, <1>2, NextCacheInv, FlightInvariant, PTL DEF Spec

-----------------------------------------------------------------------------
\* The flights of all keys, as the refinement mapping shows them.
FlightMap == [k \in Keys |-> FlightOf(k)]

Creators(i) == {t \in Threads : creation_token[t] = i /\ pc[t] \in Creating}

\* The flight of a key whose token is registered.
LEMMA RegisteredFlight ==
  ASSUME NEW k \in Keys, ongoing_creation[k] # NoToken
  PROVE  /\ Creators(ongoing_creation[k]) = {} => FlightOf(k).leader = NoThread
         /\ \A t : Creators(ongoing_creation[k]) = {t} => FlightOf(k).leader = t
         /\ FlightOf(k).aboard = Holders(ongoing_creation[k])
         /\ FlightOf(k).outcome = token[ongoing_creation[k]].outcome
         /\ FlightOf(k) = [leader  |-> FlightOf(k).leader,
                           aboard  |-> FlightOf(k).aboard,
                           outcome |-> FlightOf(k).outcome]
  BY Zenon DEF FlightOf, Creators

\* The flight of a key without a token.
LEMMA NoFlight ==
  ASSUME NEW k \in Keys, ongoing_creation[k] = NoToken
  PROVE  FlightOf(k) = Flights!Grounded
  BY Zenon DEF FlightOf, Flights!Grounded

\* A step that leaves a key's token, its holders, its creator and its outcome
\* alone leaves the flight alone.
LEMMA SameFlight ==
  ASSUME NEW k \in Keys, ongoing_creation'[k] = ongoing_creation[k],
         ongoing_creation[k] # NoToken =>
           LET i == ongoing_creation[k] IN
           /\ Holders(i)' = Holders(i)
           /\ Creators(i)' = Creators(i)
           /\ token'[i].outcome = token[i].outcome
  PROVE  FlightOf(k)' = FlightOf(k)
  BY Zenon DEF FlightOf, Creators, Holders

\* An idle caller is on no flight.
LEMMA IdleNotBusy ==
  ASSUME FlightInv, NEW t \in Threads, pc[t] = "idle"
  PROVE  t \notin Flights!Busy
  <1>1. creation_token[t] = NoToken
    BY Zenon DEF FlightInv, CallersHoldTokens
  <1>2. \A k \in Keys : t \notin FlightOf(k).aboard
    BY <1>1, Zenon DEF FlightOf, Holders
  <1> QED
    BY <1>2, Zenon DEF Flights!Busy

-----------------------------------------------------------------------------
(* One lemma per kind of step. *)

\* At the start nothing is in flight.
LEMMA InitFlights == Init => Flights!Init
  BY NoFlight, Zenon DEF Init, Flights!Init

\* The first caller for a key takes off.
LEMMA StartIsTakeOff ==
  ASSUME FlightInv, NEW t \in Threads, NEW k \in Keys, StartCreation(t, k)
  PROVE  Flights!TakeOff(t, k)
  <1> USE DEF FlightInv
  <1>1. PICK i \in Tokens :
          /\ Unused(i)
          /\ token' = [token EXCEPT ![i] = [Fresh EXCEPT !.count = 1]]
          /\ ongoing_creation' = [ongoing_creation EXCEPT ![k] = i]
          /\ Enter(t, k, i, "creating")
    BY Zenon DEF StartCreation
  <1>2. pc[t] = "idle" /\ creation_token[t] = NoToken /\ ongoing_creation[k] = NoToken
    BY DEF StartCreation, CallersHoldTokens
  <1>3. /\ pc' = [pc EXCEPT ![t] = "creating"]
        /\ creation_token' = [creation_token EXCEPT ![t] = i]
    BY <1>1, Zenon DEF Enter
  <1>4. ongoing_creation'[k] = i /\ token'[i].outcome = Pending /\ i # NoToken
    BY <1>1, ConstantsAssumption, Zenon DEF FlightTypeOK, Fresh
  <1>5. Holders(i)' = {t} /\ Creators(i)' = {t}
    BY <1>1, <1>2, <1>3, Zenon DEF Unused, Holders, Creators, FlightTypeOK, Creating
  <1>6. FlightOf(k)' = [leader |-> t, aboard |-> {t}, outcome |-> Pending]
    BY <1>4, <1>5, Zenon DEF FlightOf, Creators, Holders
  <1>7. ASSUME NEW j \in Keys \ {k} PROVE FlightOf(j)' = FlightOf(j)
    <2>1. ongoing_creation'[j] = ongoing_creation[j] /\ ongoing_creation[j] # i
      BY <1>1, Zenon DEF FlightTypeOK, Unused
    <2>2. ASSUME ongoing_creation[j] # NoToken
          PROVE  LET h == ongoing_creation[j] IN
                 /\ Holders(h)' = Holders(h)
                 /\ Creators(h)' = Creators(h)
                 /\ token'[h].outcome = token[h].outcome
      <3>1. ongoing_creation[j] \in Tokens \ {i}
        BY <2>1, <2>2, Zenon DEF FlightTypeOK
      <3> QED
        BY <1>1, <1>2, <1>3, <2>2, <3>1, Zenon DEF Holders, Creators, FlightTypeOK
    <2> QED
      BY <2>1, <2>2, SameFlight, Zenon
  <1>8. FlightOf(k) = Flights!Grounded
    BY <1>2, NoFlight, Zenon
  <1>9. FlightMap' = [FlightMap EXCEPT ![k] = [leader |-> t, aboard |-> {t}, outcome |-> Pending]]
    BY <1>6, <1>7, Zenon DEF FlightMap
  <1> QED
    BY <1>2, <1>8, <1>9, IdleNotBusy, Zenon DEF Flights!TakeOff, FlightMap

\* A caller that finds the creation pending boards its flight.
LEMMA JoinIsBoard ==
  ASSUME FlightInv, NEW t \in Threads, NEW k \in Keys, JoinCreation(t, k)
  PROVE  Flights!Board(t, k)
  <1> USE DEF FlightInv
  <1>0. PICK i \in Tokens : i = ongoing_creation[k]
    BY DEF JoinCreation, FlightTypeOK
  <1>1. pc[t] = "idle" /\ creation_token[t] = NoToken /\ token[i].outcome = Pending /\ i # NoToken
    BY <1>0, ConstantsAssumption, Zenon DEF JoinCreation, CallersHoldTokens
  <1>2. /\ token' = [token EXCEPT ![i].count = @ + 1]
        /\ pc' = [pc EXCEPT ![t] = "asleep"]
        /\ creation_token' = [creation_token EXCEPT ![t] = i]
        /\ ongoing_creation' = ongoing_creation
    BY <1>0, Zenon DEF JoinCreation, Enter
  <1>3. Creators(i)' = Creators(i) /\ Holders(i)' = Holders(i) \cup {t}
    BY <1>1, <1>2, Zenon DEF Creators, Holders, Creating, FlightTypeOK
  <1>4. \A h \in Tokens : token'[h].outcome = token[h].outcome
    BY <1>2, Zenon DEF FlightTypeOK
  <1>5. FlightOf(k)' = [FlightOf(k) EXCEPT !.aboard = @ \cup {t}]
    <2>1. ongoing_creation'[k] = i /\ ongoing_creation[k] = i
      BY <1>0, <1>2, Zenon
    <2>2. FlightOf(k)' = [leader  |-> IF Creators(i)' = {} THEN NoThread ELSE CHOOSE u \in Creators(i)' : TRUE,
                          aboard  |-> Holders(i)',
                          outcome |-> token'[i].outcome]
      BY <1>1, <2>1, Zenon DEF FlightOf, Creators, Holders
    <2>3. FlightOf(k) = [leader  |-> IF Creators(i) = {} THEN NoThread ELSE CHOOSE u \in Creators(i) : TRUE,
                         aboard  |-> Holders(i),
                         outcome |-> token[i].outcome]
      BY <1>1, <2>1, Zenon DEF FlightOf, Creators, Holders
    <2>4. FlightOf(k)' = [leader  |-> FlightOf(k).leader,
                          aboard  |-> Holders(i) \cup {t},
                          outcome |-> token[i].outcome]
      <3>1. FlightOf(k).leader = IF Creators(i) = {} THEN NoThread ELSE CHOOSE u \in Creators(i) : TRUE
        BY <2>3
      <3>2. token'[i].outcome = token[i].outcome
        BY <1>4, Zenon
      <3> HIDE DEF FlightInv
      <3> QED
        BY <1>3, <2>2, <3>1, <3>2, Zenon
    <2>5. \A l, a, b, o : [[leader |-> l, aboard |-> a, outcome |-> o] EXCEPT !.aboard = b]
                          = [leader |-> l, aboard |-> b, outcome |-> o]
      OBVIOUS
    <2>6. FlightOf(k) = [leader |-> FlightOf(k).leader, aboard |-> Holders(i), outcome |-> token[i].outcome]
      BY <2>3
    <2> QED
      BY <2>4, <2>5, <2>6
  <1>6. ASSUME NEW j \in Keys \ {k} PROVE FlightOf(j)' = FlightOf(j)
    <2>1. ASSUME ongoing_creation[j] # NoToken
          PROVE  LET h == ongoing_creation[j] IN
                 /\ Holders(h)' = Holders(h)
                 /\ Creators(h)' = Creators(h)
                 /\ token'[h].outcome = token[h].outcome
      <3>1. ongoing_creation[j] \in Tokens \ {i}
        BY <1>0, <2>1, Zenon DEF FlightTypeOK, TokensDistinct
      <3> QED
        BY <1>1, <1>2, <1>4, <2>1, <3>1, Zenon DEF Holders, Creators, FlightTypeOK
    <2> QED
      BY <1>2, <2>1, SameFlight, Zenon
  <1>7. FlightOf(k).outcome = Pending /\ FlightOf(k).aboard # {}
    <2>1. \E u \in Threads : creation_token[u] = i
      BY <1>0, <1>1, Zenon DEF PendingIffCreator, Registered
    <2>2. Holders(i) # {}
      BY <2>1, Zenon DEF Holders
    <2> QED
      BY <1>0, <1>1, <2>2, Zenon DEF FlightOf
  <1>8. FlightMap' = [FlightMap EXCEPT ![k].aboard = @ \cup {t}]
    BY <1>5, <1>6, Zenon DEF FlightMap
  <1> QED
    BY <1>1, <1>7, <1>8, IdleNotBusy DEF Flights!Board, Flights!Grounded, FlightMap

-----------------------------------------------------------------------------
(* Leaving. *)

\* A caller that counts itself out leaves the flight; when it is the last, the
\* key is erased and the flight is over.
LEMMA LeaveFlight ==
  ASSUME FlightInv, NEW t \in Threads, NEW o \in Outcomes, pc[t] # "idle", Leave(t, o),
         pc' \in [Threads -> Locations],
         pc'[t] = "idle",
         \A u \in Threads \ {t} : pc'[u] \in Creating <=> pc[u] \in Creating,
         \A u \in Threads \ {t} : creation_token[u] = creation_token[t] => pc[u] \notin Creating
  PROVE  /\ t \in FlightMap[key[t]].aboard
         /\ FlightMap' = [FlightMap EXCEPT
              ![key[t]] = Flights!After(@, t, NoThread, o)]
  <1> USE DEF FlightInv
  <1>0. PICK i \in Tokens, k \in Keys : i = creation_token[t] /\ k = key[t]
    BY Zenon DEF CallersHoldTokens
  <1>1. ongoing_creation[k] = i /\ i # NoToken /\ Registered(i)
    BY <1>0, ConstantsAssumption, Zenon DEF CallersHoldTokens, Registered
  <1>2. /\ token[i].count \in Nat
        /\ token' = [token EXCEPT ![i] = IF token[i].count - 1 = 0 THEN Fresh
                         ELSE [count |-> token[i].count - 1, outcome |-> o]]
        /\ ongoing_creation' =
             IF token[i].count - 1 = 0 THEN [ongoing_creation EXCEPT ![k] = NoToken]
                                       ELSE ongoing_creation
        /\ creation_token' = [creation_token EXCEPT ![t] = NoToken]
    BY <1>0, Zenon DEF Leave, FlightTypeOK
  <1>3. Holders(i)' = Holders(i) \ {t} /\ t \in Holders(i) /\ Creators(i)' = {}
    BY <1>0, <1>1, <1>2, Zenon DEF Holders, Creators, FlightTypeOK, Creating
  <1>4. token[i].count = 1 <=> Holders(i) = {t}
    <2>1. token[i].count = Cardinality(Holders(i))
      BY <1>1, Zenon DEF CountIsHolders
    <2>2. Cardinality(Holders(i)) = 1 <=> \E x : Holders(i) = {x}
      BY HoldersFinite, FS_Singleton, Zenon
    <2>3. ASSUME NEW x, Holders(i) = {x} PROVE Holders(i) = {t}
      BY <1>3, <2>3, Zenon
    <2> QED
      BY <2>1, <2>2, <2>3, Zenon
  <1>5. FlightOf(k).aboard = Holders(i)
    BY <1>1, Zenon DEF FlightOf
  <1>6. FlightOf(k)' = Flights!After(FlightOf(k), t, NoThread, o)
    <2>1. CASE token[i].count = 1
      <3>1. ongoing_creation'[k] = NoToken
        BY <1>2, <2>1 DEF FlightTypeOK
      <3>2. FlightOf(k)' = Flights!Grounded
        BY <3>1, Zenon DEF FlightOf, Flights!Grounded
      <3> QED
        BY <1>4, <1>5, <2>1, <3>2, Zenon DEF Flights!After
    <2>2. CASE token[i].count # 1
      <3>1. ongoing_creation'[k] = i /\ token'[i].outcome = o
        BY <1>1, <1>2, <2>2 DEF FlightTypeOK
      <3>2. FlightOf(k)' = [leader |-> NoThread, aboard |-> Holders(i) \ {t}, outcome |-> o]
        BY <1>1, <1>3, <3>1, Zenon DEF FlightOf, Creators
      <3> QED
        BY <1>4, <1>5, <2>2, <3>2, Zenon DEF Flights!After
    <2> QED
      BY <2>1, <2>2, Zenon
  <1>7. ASSUME NEW j \in Keys \ {k} PROVE FlightOf(j)' = FlightOf(j)
    <2>1. ongoing_creation'[j] = ongoing_creation[j]
      BY <1>2, Zenon DEF FlightTypeOK
    <2>2. ASSUME ongoing_creation[j] # NoToken
          PROVE  LET h == ongoing_creation[j] IN
                 /\ Holders(h)' = Holders(h)
                 /\ Creators(h)' = Creators(h)
                 /\ token'[h].outcome = token[h].outcome
      <3>1. ongoing_creation[j] \in Tokens \ {i}
        BY <1>1, <2>2, Zenon DEF FlightTypeOK, TokensDistinct
      <3>2. \A u \in Threads : creation_token'[u] = ongoing_creation[j]
                              <=> creation_token[u] = ongoing_creation[j]
        BY <1>0, <1>2, <2>2, <3>1, Zenon DEF FlightTypeOK
      <3>3. creation_token[t] # ongoing_creation[j]
        BY <1>0, <3>1, Zenon
      <3> QED
        BY <1>2, <2>2, <3>1, <3>2, <3>3, Zenon DEF Holders, Creators, FlightTypeOK
    <2> QED
      BY <2>1, <2>2, SameFlight, Zenon
  <1>8. FlightMap' = [FlightMap EXCEPT ![k] = Flights!After(FlightOf(k), t, NoThread, o)]
    BY <1>6, <1>7, Zenon DEF FlightMap
  <1> QED
    BY <1>0, <1>3, <1>5, <1>8, Zenon DEF FlightMap

\* The creator that publishes its outcome lands the flight.
LEMMA PublishIsLand ==
  ASSUME FlightInv, NEW t \in Threads, Publish(t)
  PROVE  key[t] \in Keys /\ \E o \in Outcomes : Flights!Land(t, key[t], o)
  <1> USE DEF FlightInv
  <1>1. pc[t] = "created" /\ key[t] \in Keys /\ creation_token[t] \in Tokens
    BY DEF Publish, CallersHoldTokens
  <1>2. made[t] \in Outcomes
    <2>1. published[key[t]] \in Versions /\ remote[key[t]] \in Versions
      BY <1>1 DEF FlightTypeOK
    <2>2. made[t] = Failed \/ made[t] \in published[key[t]] .. remote[key[t]]
      BY <1>1 DEF MadeIsBetween
    <2> QED
      BY <2>1, <2>2, ConstantsAssumption DEF Outcomes, Versions
  <1>3. pc' = [Notified(creation_token[t]) EXCEPT ![t] = "idle"] /\ Leave(t, made[t])
    BY Zenon DEF Publish
  <1>4. /\ pc' \in [Threads -> Locations]
        /\ pc'[t] = "idle"
        /\ \A u \in Threads \ {t} : pc'[u] \in Creating <=> pc[u] \in Creating
    BY <1>3, Zenon DEF Notified, FlightTypeOK, Locations, Creating
  <1>5. ongoing_creation[key[t]] = creation_token[t] /\ creation_token[t] # NoToken
    BY <1>1, ConstantsAssumption, Zenon DEF CallersHoldTokens
  <1>6. \A u \in Threads \ {t} : creation_token[u] = creation_token[t] => pc[u] \notin Creating
    <2> SUFFICES ASSUME NEW u \in Threads \ {t}, creation_token[u] = creation_token[t],
                        pc[u] \in Creating
                 PROVE  FALSE
      OBVIOUS
    <2>1. key[u] \in Keys /\ ongoing_creation[key[u]] = ongoing_creation[key[t]]
      BY <1>5, Zenon DEF CallersHoldTokens, Creating
    <2>2. key[u] = key[t]
      BY <1>1, <1>5, <2>1, Zenon DEF TokensDistinct
    <2> QED
      BY <1>1, <2>2, Zenon DEF OneFactoryPerKey, Creating
  <1>7. Creators(ongoing_creation[key[t]]) = {t}
    BY <1>1, <1>5, <1>6, Zenon DEF Creators, Creating
  <1>8. FlightMap[key[t]].leader = t
    BY <1>1, <1>5, <1>7, RegisteredFlight, Zenon DEF FlightMap
  <1>9. FlightMap' = [FlightMap EXCEPT ![key[t]] = Flights!After(@, t, NoThread, made[t])]
    BY <1>1, <1>2, <1>3, <1>4, <1>6, LeaveFlight, Zenon
  <1>10. Flights!Land(t, key[t], made[t])
    BY <1>8, <1>9, Zenon DEF Flights!Land, FlightMap
  <1> QED
    BY <1>1, <1>2, <1>10, Zenon

\* A waiter that leaves with the outcome disembarks.
LEMMA ReturnIsDisembark ==
  ASSUME FlightInv, NEW t \in Threads, ReturnOutcome(t)
  PROVE  key[t] \in Keys /\ Flights!Disembark(t, key[t])
  <1> USE DEF FlightInv
  <1>0. PICK o \in Outcomes : o = token[creation_token[t]].outcome
    BY Zenon DEF ReturnOutcome, CallersHoldTokens, FlightTypeOK
  <1>1. /\ pc[t] = "awake" /\ key[t] \in Keys
        /\ ongoing_creation[key[t]] = creation_token[t] /\ creation_token[t] # NoToken
    BY ConstantsAssumption, Zenon DEF ReturnOutcome, CallersHoldTokens
  <1>2. \A u \in Threads : creation_token[u] = creation_token[t] => pc[u] \notin Creating
    BY Zenon DEF ReturnOutcome, PendingIffCreator
  <1>3. /\ pc' \in [Threads -> Locations]
        /\ pc'[t] = "idle"
        /\ \A u \in Threads \ {t} : pc'[u] \in Creating <=> pc[u] \in Creating
    BY Zenon DEF ReturnOutcome, FlightTypeOK, Locations
  <1>4. Leave(t, o) /\ o # Pending
    BY <1>0, Zenon DEF ReturnOutcome
  <1>5. FlightMap[key[t]].outcome = o
    BY <1>0, <1>1, RegisteredFlight, Zenon DEF FlightMap
  <1>6. /\ t \in FlightMap[key[t]].aboard
        /\ FlightMap' = [FlightMap EXCEPT ![key[t]] = Flights!After(@, t, NoThread, o)]
    BY <1>1, <1>2, <1>3, <1>4, LeaveFlight, Zenon
  <1>7. FlightMap' = [FlightMap EXCEPT ![key[t]] = Flights!After(@, t, NoThread, @.outcome)]
    BY <1>1, <1>5, <1>6, Zenon DEF FlightMap
  <1> QED
    BY <1>1, <1>4, <1>5, <1>6, <1>7, Zenon DEF Flights!Disembark, FlightMap

-----------------------------------------------------------------------------
(* The theorem. *)

\* The other steps change no flight.
LEMMA OtherSteps ==
  ASSUME FlightInv, UNCHANGED <<ongoing_creation, token, creation_token>>,
         \A u \in Threads : pc'[u] \in Creating <=> pc[u] \in Creating
  PROVE  FlightMap' = FlightMap
  <1>1. \A i : Holders(i)' = Holders(i) /\ Creators(i)' = Creators(i)
    BY Zenon DEF Holders, Creators
  <1>2. \A k \in Keys : FlightOf(k)' = FlightOf(k)
    BY <1>1, SameFlight, Zenon
  <1> QED
    BY <1>2, Zenon DEF FlightMap

\* Every step of the cache is a step of one flight, or of none.
LEMMA StepsAreFlightSteps ==
  FlightInv /\ [Next]_vars => [Flights!Next]_FlightMap
  <1> SUFFICES ASSUME FlightInv, [Next]_vars
               PROVE  Flights!Next \/ FlightMap' = FlightMap
    BY Zenon
  <1>1. CASE UNCHANGED vars
    BY <1>1, OtherSteps, Zenon DEF vars, callVars, flightVars
  <1>2. ASSUME NEW t \in Threads, ThreadStep(t) \/ SpuriousWakeup(t)
        PROVE  Flights!Next \/ FlightMap' = FlightMap
    <2>1. CASE Publish(t)
      BY <2>1, PublishIsLand, Zenon DEF Flights!Next
    <2>2. CASE ReturnOutcome(t)
      BY <2>2, ReturnIsDisembark, Zenon DEF Flights!Next
    <2>3. CASE RunFactory(t) \/ WaitAgain(t) \/ SpuriousWakeup(t)
      <3>1. \A u \in Threads : pc'[u] \in Creating <=> pc[u] \in Creating
        BY <2>3, Zenon DEF RunFactory, WaitAgain, SpuriousWakeup, FlightInv, FlightTypeOK, Creating
      <3> QED
        BY <2>3, <3>1, OtherSteps, Zenon DEF RunFactory, WaitAgain, SpuriousWakeup, flightVars
    <2> QED
      BY <1>2, <2>1, <2>2, <2>3, Zenon DEF ThreadStep
  <1>3. ASSUME NEW t \in Threads, NEW k \in Keys, Call(t, k)
        PROVE  Flights!Next \/ FlightMap' = FlightMap
    <2>1. CASE StartCreation(t, k)
      BY <2>1, StartIsTakeOff, Zenon DEF Flights!Next
    <2>2. CASE JoinCreation(t, k)
      BY <2>2, JoinIsBoard, Zenon DEF Flights!Next
    <2>3. CASE FindCached(t, k)
      BY <2>3, OtherSteps, Zenon DEF FindCached, callVars, flightVars
    <2>4. CASE JoinFinished(t, k)
      <3>1. ongoing_creation[k] \in Tokens /\ token[ongoing_creation[k]].count # 0
        BY <2>4 DEF JoinFinished, FlightInv, FlightTypeOK, CountIsHolders, Registered
      <3> QED
        BY <2>4, <3>1, OtherSteps, Zenon DEF JoinFinished, callVars
    <2> QED
      BY <1>3, <2>1, <2>2, <2>3, <2>4, Zenon DEF Call
  <1>4. CASE CacheOperation \/ Tick \/ \E k \in Keys : RemoteUpdate(k)
    BY <1>4, OtherSteps, Zenon DEF CacheOperation, Get, Put, Delete, Clear, ClearFrom, Take, Tick,
                            RemoteUpdate, callVars, flightVars
  <1> QED
    BY <1>1, <1>2, <1>3, <1>4, Zenon DEF Next

\* GetOrCreate implements the single-flight specification, for any number of
\* threads, keys and tokens: what callers can observe of tokens, counts and
\* notifications is one shared flight per key.
THEOREM Refinement == Spec => SharesFlights
  BY InitFlights, StepsAreFlightSteps, FlightInvariant, PTL
     DEF Spec, SharesFlights, Flights!Spec, FlightMap
=============================================================================
