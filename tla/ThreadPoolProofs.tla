-------------------------- MODULE ThreadPoolProofs --------------------------
(***************************************************************************)
(* Proofs about ThreadPool, for every finite set of threads and every      *)
(* number of jobs: PoolInv is inductive, and the safety properties of      *)
(* WaitAll follow from it.                                                 *)
(***************************************************************************)
EXTENDS ThreadPool, FiniteSetTheorems, TLAPS

\* The sets of threads that the invariant counts are finite.
LEMMA FiniteThreads ==
  ASSUME TypeOK
  PROVE  /\ \A T \in SUBSET Workers : IsFiniteSet(T) /\ Cardinality(T) \in Nat
         /\ IsFiniteSet(At("ready")) /\ Cardinality(At("ready")) \in Nat
         /\ IsFiniteSet(workers_ \ Busy) /\ Cardinality(workers_ \ Busy) \in Nat
  <1>1. \A T \in SUBSET Workers : IsFiniteSet(T) /\ Cardinality(T) \in Nat
    BY PoolAssumption, FS_Subset, FS_CardinalityType
  <1>2. At("ready") \in SUBSET Workers /\ workers_ \ Busy \in SUBSET Workers
    BY DEF At, TypeOK
  <1> QED BY <1>1, <1>2

\* The pool starts with idle workers and no jobs.
LEMMA InitInv == Init => PoolInv
  <1> SUFFICES ASSUME Init PROVE PoolInv
    OBVIOUS
  <1> USE DEF Init
  <1>1. TypeOK
    <2>1. 0 \in 0 .. MaxJobs /\ << >> \in Seq(Jobs) /\ {} \in SUBSET Workers
      BY PoolAssumption
    <2> QED BY <2>1 DEF TypeOK, Stages, Locations
  <1>2. PoolAlive /\ IdleExact /\ JobsAccounted
    BY DEF PoolAlive, IdleExact, JobsAccounted
  <1>3. Drained /\ FirstFailureThrown
    BY DEF Drained, FirstFailureThrown, Jobs
  <1>4. At("asleep") = {}
    BY DEF At
  <1> QED BY <1>1, <1>2, <1>3, <1>4 DEF PoolInv, SleeperNotNeeded

-----------------------------------------------------------------------------
(* The steps of the caller. *)

\* The constructor.
LEMMA CreateStep ==
  ASSUME PoolInv, NEW n \in 0 .. MaxJobs, NEW max \in 0 .. MaxJobs,
         NEW S \in SUBSET Workers, Create(n, max, S)
  PROVE  PoolInv'
  <1> USE DEF PoolInv, Create
  <1>1. TypeOK'
    <2>1. Cardinality(S) \in Nat
      BY PoolAssumption, FS_Subset, FS_CardinalityType
    <2>2. 0 \in 0 .. MaxJobs /\ << >> \in Seq(Jobs)
      BY PoolAssumption
    <2> QED BY <2>1, <2>2 DEF TypeOK, Stages, Locations
  <1>2. Busy' = {} /\ At("asleep")' = {}
    BY DEF Busy, At
  <1>3. PoolAlive' /\ JobsAccounted' /\ Drained'
    BY <1>2 DEF PoolAlive, JobsAccounted, Drained
  <1>4. IdleExact'
    <2>1. S \ {} = S
      OBVIOUS
    <2> QED BY <1>2, <2>1 DEF IdleExact
  <1>5. FirstFailureThrown'
    BY DEF FirstFailureThrown
  <1> QED BY <1>1, <1>2, <1>3, <1>4, <1>5 DEF SleeperNotNeeded

\* Pushing a job, which wakes one sleeping thread if there is one.
LEMMA PushStep ==
  ASSUME PoolInv, Push
  PROVE  PoolInv'
  <1> USE DEF PoolInv, Push
  <1> DEFINE new == scheduled + 1
  <1>0. new \in Jobs /\ scheduled \in Nat /\ jobs_ \in Seq(Jobs) /\ Len(jobs_) \in Nat
    BY PoolAssumption DEF TypeOK, PoolAlive, Jobs
  <1>1. \/ At("asleep") = {} /\ pc' = pc
        \/ \E w \in At("asleep") : pc' = [pc EXCEPT ![w] = "ready"]
    BY DEF NotifyNewJob
  <1>2. TypeOK'
    <2>1. pc' \in [Workers -> Locations]
      BY <1>1 DEF TypeOK, Locations, At
    <2>2. scheduled' \in 0 .. MaxJobs /\ job' \in [Jobs -> {"new", "queued", "running", "ok", "failed"}]
      BY <1>0 DEF TypeOK, Jobs
    <2>3. jobs_' \in Seq(Jobs)
      BY <1>0
    <2> QED BY <2>1, <2>2, <2>3 DEF TypeOK
  <1>3. Busy' = Busy
    BY <1>1 DEF Busy, At, TypeOK
  <1>4. PoolAlive'
    BY <1>1, <1>0 DEF PoolAlive, At, TypeOK
  <1>5. IdleExact'
    BY <1>3 DEF IdleExact
  <1>6. Drained'
    BY DEF Drained
  <1>7. FirstFailureThrown'
    BY <1>0 DEF FirstFailureThrown, Drained, TypeOK
  <1>8. JobsAccounted'
    <2> SUFFICES ASSUME NEW i \in 1 .. new PROVE JobAccounted(i)'
      BY DEF JobsAccounted
    <2>1. Len(jobs_') = Len(jobs_) + 1 /\ jobs_'[Len(jobs_) + 1] = new
      BY <1>0
    <2>2. CASE i = new
      BY <2>1, <2>2, <1>0 DEF JobAccounted
    <2>3. CASE i # new
      <3>1. i \in 1 .. scheduled /\ JobAccounted(i) /\ job'[i] = job[i]
        BY <1>0, <2>3 DEF JobsAccounted, TypeOK, Jobs
      <3>2. \A k \in 1 .. Len(jobs_) : jobs_'[k] = jobs_[k]
        BY <1>0
      <3>3. \A w \in Workers : pc[w] = "running" => pc'[w] = "running"
        BY <1>1 DEF At, TypeOK
      <3> QED BY <3>1, <3>2, <3>3, <2>1, <1>0 DEF JobAccounted
    <2> QED BY <2>2, <2>3
  <1>9. SleeperNotNeeded'
    <2>1. CASE At("asleep") = {} /\ pc' = pc
      BY <2>1 DEF SleeperNotNeeded, At
    <2>2. CASE \E w \in At("asleep") : pc' = [pc EXCEPT ![w] = "ready"]
      <3>1. PICK w \in At("asleep") : pc' = [pc EXCEPT ![w] = "ready"]
        BY <2>2
      <3>2. At("ready")' = At("ready") \cup {w} /\ w \notin At("ready")
        BY <3>1 DEF At, TypeOK
      <3>3. Cardinality(At("ready")') = Cardinality(At("ready")) + 1
        BY <3>2, FiniteThreads, FS_AddElement
      <3>4. ~stopped_ => Len(jobs_) <= Cardinality(At("ready"))
        BY <3>1 DEF SleeperNotNeeded
      <3>5. Len(jobs_') = Len(jobs_) + 1 /\ Cardinality(At("ready")) \in Nat
        BY <1>0, FiniteThreads
      <3> QED BY <3>3, <3>4, <3>5, <1>0 DEF SleeperNotNeeded
    <2> QED BY <1>1, <2>1, <2>2
  <1> QED BY <1>2, <1>4, <1>5, <1>6, <1>7, <1>8, <1>9

\* Wait returns only when the queue is empty and every thread idle: a thread with
\* a job would make idle_num_ smaller than the pool.
LEMMA DoneMeansDrained ==
  ASSUME PoolInv, Done, stage = "wait"
  PROVE  jobs_ = << >> /\ Busy = {}
  <1>1. ~stopped_
    BY DEF PoolInv, PoolAlive
  <1>2. jobs_ = << >> /\ Cardinality(workers_ \ Busy) = Cardinality(workers_)
    BY <1>1 DEF Done, PoolInv, IdleExact
  <1>3. IsFiniteSet(workers_) /\ workers_ \ Busy \in SUBSET workers_
    BY FiniteThreads DEF PoolInv, TypeOK
  <1>4. workers_ = workers_ \ Busy
    BY <1>2, <1>3, FS_Subset
  <1>5. Busy \subseteq workers_
    BY DEF Busy, PoolInv, PoolAlive
  <1> QED BY <1>2, <1>4, <1>5

\* The steps that only move the caller on.
LEMMA StageStep ==
  ASSUME PoolInv, PushFails \/ WaitAll \/ Wait \/ WaitSpuriously \/ GetLast
  PROVE  PoolInv'
  <1> USE DEF PoolInv, PushFails, WaitAll, Wait, WaitSpuriously, GetLast, callVars, poolVars
  <1>1. TypeOK'
    BY DEF TypeOK, Stages
  <1>2. Busy' = Busy /\ At("asleep")' = At("asleep") /\ At("ready")' = At("ready")
    BY DEF Busy, At
  <1>3. PoolAlive' /\ IdleExact' /\ SleeperNotNeeded'
    <2>1. stage # "idle" /\ stage' # "idle" /\ stage # "join"
      OBVIOUS
    <2>2. UNCHANGED <<callVars, poolVars>>
      OBVIOUS
    <2> HIDE DEF PushFails, WaitAll, Wait, WaitSpuriously, GetLast
    <2>3. PoolAlive'
      BY <2>1, <2>2 DEF PoolAlive
    <2>4. IdleExact' /\ SleeperNotNeeded'
      BY <1>2, <2>1, <2>2 DEF IdleExact, SleeperNotNeeded
    <2> QED BY <2>3, <2>4
  <1>4. FirstFailureThrown'
    BY DEF FirstFailureThrown
  <1>5. JobsAccounted'
    BY DEF JobsAccounted, JobAccounted
  <1>6. Drained'
    <2>1. CASE Wait /\ Done
      BY <2>1, <1>2, DoneMeansDrained DEF Drained
    <2>2. CASE ~(Wait /\ Done)
      BY <2>2, <1>2 DEF Drained
    <2> QED BY <2>1, <2>2
  <1> QED BY <1>1, <1>3, <1>4, <1>5, <1>6

\* Getting a future in the order of scheduling.
LEMMA GetStep ==
  ASSUME PoolInv, Get
  PROVE  PoolInv'
  <1> USE DEF PoolInv, Get, poolVars
  <1>0. got \in Nat /\ got < scheduled /\ scheduled \in 0 .. MaxJobs /\ MaxJobs \in Nat
    BY PoolAssumption DEF TypeOK
  <1>1. TypeOK'
    BY <1>0 DEF TypeOK, Stages
  <1>2. Busy' = Busy /\ At("asleep")' = At("asleep") /\ At("ready")' = At("ready")
    BY DEF Busy, At
  <1>3. PoolAlive' /\ IdleExact' /\ SleeperNotNeeded'
    BY <1>2 DEF PoolAlive, IdleExact, SleeperNotNeeded
  <1>4. Drained'
    BY <1>2 DEF Drained
  <1>5. JobsAccounted'
    BY DEF JobsAccounted, JobAccounted
  <1>6. \A i \in 1 .. got : job[i] = "ok"
    BY DEF FirstFailureThrown
  <1>7. FirstFailureThrown'
    <2>1. CASE job[got + 1] = "ok" /\ got' = got + 1 /\ UNCHANGED <<stage, thrown>>
      <3>1. \A i \in 1 .. got' : job'[i] = "ok"
        BY <2>1, <1>6, <1>0
      <3> QED BY <2>1, <3>1 DEF FirstFailureThrown
    <2>2. CASE job[got + 1] = "failed" /\ thrown' = got + 1 /\ UNCHANGED got
      <3>1. \A i \in Jobs : job[i] = "failed" => got + 1 <= i
        BY <1>6, <1>0 DEF Jobs
      <3> QED BY <2>2, <3>1, <1>6 DEF FirstFailureThrown
    <2> QED BY <2>1, <2>2
  <1> QED BY <1>1, <1>3, <1>4, <1>5, <1>7

\* The two parts of the destructor.
LEMMA DestroyStep ==
  ASSUME PoolInv, Stop \/ Join
  PROVE  PoolInv'
  <1> USE DEF PoolInv, Stop, Join, callVars
  <1>1. TypeOK'
    <2>1. CASE Stop
      BY <2>1 DEF TypeOK, Stages, Locations
    <2>2. CASE Join
      <3>1. << >> \in Seq(Jobs) /\ {} \in SUBSET Workers
        OBVIOUS
      <3> QED BY <2>2, <3>1 DEF TypeOK, Stages
    <2> QED BY <2>1, <2>2
  <1>2. PoolAlive'
    BY DEF PoolAlive, TypeOK
  <1>3. Busy' = Busy
    BY DEF Busy, TypeOK
  <1>4. IdleExact'
    BY <1>3 DEF IdleExact
  <1>5. FirstFailureThrown'
    BY DEF FirstFailureThrown
  <1>6. Drained'
    BY <1>3 DEF Drained
  <1>7. JobsAccounted'
    BY DEF JobsAccounted, JobAccounted, TypeOK
  <1>8. SleeperNotNeeded'
    BY DEF SleeperNotNeeded, PoolAlive, At, TypeOK
  <1> QED BY <1>1, <1>2, <1>4, <1>5, <1>6, <1>7, <1>8

-----------------------------------------------------------------------------
(* The steps of a thread. *)

\* A thread takes the first job of the queue.
LEMMA TakeStep ==
  ASSUME PoolInv, NEW w \in Workers, Take(w)
  PROVE  PoolInv'
  <1> USE DEF PoolInv, Take, callVars
  <1> DEFINE h == Head(jobs_)
  <1>0. h \in Jobs /\ Tail(jobs_) \in Seq(Jobs) /\ Len(Tail(jobs_)) = Len(jobs_) - 1 /\ Len(jobs_) \in Nat
    BY DEF TypeOK
  <1>1. w \in workers_ /\ stage # "idle" /\ w \notin Busy
    BY DEF PoolAlive, Busy
  <1>2. Busy' = Busy \cup {w} /\ workers_' = workers_
    BY DEF Busy, TypeOK
  <1>3. workers_' \ Busy' = (workers_ \ Busy) \ {w} /\ w \in workers_ \ Busy
    BY <1>1, <1>2
  <1>4. Cardinality(workers_' \ Busy') = Cardinality(workers_ \ Busy) - 1
    BY <1>3, FiniteThreads, FS_RemoveElement
  <1>5. Cardinality(workers_' \ Busy') \in Nat
    <2>1. (workers_ \ Busy) \ {w} \in SUBSET Workers
      BY DEF TypeOK
    <2> QED BY <2>1, <1>3, FiniteThreads
  <1>6. IdleExact'
    BY <1>1, <1>4, FiniteThreads DEF IdleExact
  <1>7. TypeOK'
    BY <1>0, <1>1, <1>4, <1>5 DEF TypeOK, IdleExact, Locations, Jobs
  <1>8. PoolAlive'
    BY <1>0, <1>1 DEF PoolAlive, TypeOK
  <1>9. ~(stage = "get" \/ got # 0 \/ thrown # 0)
    BY DEF Drained
  <1>10. Drained' /\ FirstFailureThrown'
    BY <1>9 DEF Drained, FirstFailureThrown
  <1>11. JobsAccounted'
    <2> SUFFICES ASSUME NEW i \in 1 .. scheduled PROVE JobAccounted(i)'
      BY DEF JobsAccounted
    <2>1. JobAccounted(i)
      BY <1>1 DEF JobsAccounted
    <2>2. CASE i = h
      BY <2>2 DEF JobAccounted, TypeOK
    <2>3. CASE i # h
      <3>1. job'[i] = job[i]
        BY <2>3 DEF TypeOK
      <3>2. CASE job[i] \in {"ok", "failed"}
        BY <3>1, <3>2 DEF JobAccounted
      <3>3. CASE \E k \in 1 .. Len(jobs_) : jobs_[k] = i
        <4>1. PICK k \in 1 .. Len(jobs_) : jobs_[k] = i
          BY <3>3
        <4>2. k # 1 /\ k - 1 \in 1 .. Len(jobs_')
          BY <4>1, <2>3, <1>0
        <4>3. jobs_'[k - 1] = i
          BY <4>1, <4>2, <1>0 DEF TypeOK
        <4> QED BY <4>2, <4>3 DEF JobAccounted
      <3>4. CASE \E u \in Workers : pc[u] = "running" /\ cur_job[u] = i
        BY <3>4 DEF JobAccounted, TypeOK
      <3> QED BY <2>1, <3>2, <3>3, <3>4 DEF JobAccounted
    <2> QED BY <2>2, <2>3
  <1>12. SleeperNotNeeded'
    <2>1. At("ready")' = At("ready") \ {w} /\ w \in At("ready")
      BY DEF At, TypeOK
    <2>2. Cardinality(At("ready")') = Cardinality(At("ready")) - 1
      BY <2>1, FiniteThreads, FS_RemoveElement
    <2>3. At("asleep")' = At("asleep")
      BY DEF At, TypeOK
    <2> QED BY <2>2, <2>3, <1>0, FiniteThreads DEF SleeperNotNeeded
  <1> QED BY <1>6, <1>7, <1>8, <1>10, <1>11, <1>12

\* A thread goes to sleep, wakes up or ends.
LEMMA IdleThreadStep ==
  ASSUME PoolInv, NEW w \in Workers, Sleep(w) \/ Exit(w) \/ WakeSpuriously(w)
  PROVE  PoolInv'
  <1> USE DEF PoolInv, Sleep, Exit, WakeSpuriously, callVars
  <1>1. TypeOK'
    BY DEF TypeOK, Locations
  <1>2. Busy' = Busy
    BY DEF Busy, TypeOK
  <1>3. PoolAlive'
    BY DEF PoolAlive, TypeOK
  <1>4. IdleExact' /\ Drained' /\ FirstFailureThrown'
    BY <1>2 DEF IdleExact, Drained, FirstFailureThrown
  <1>5. JobsAccounted'
    <2>1. \A u \in Workers : pc[u] = "running" => pc'[u] = "running"
      BY DEF TypeOK
    <2> QED BY <2>1 DEF JobsAccounted, JobAccounted
  <1>6. SleeperNotNeeded'
    <2>1. CASE Sleep(w)
      <3>1. Len(jobs_') = 0
        BY <2>1
      <3>2. Cardinality(At("ready")') \in Nat
        BY <1>1, FiniteThreads, At("ready")' \in SUBSET Workers DEF At
      <3> QED BY <3>1, <3>2 DEF SleeperNotNeeded
    <2>2. CASE Exit(w)
      BY <2>2 DEF SleeperNotNeeded
    <2>3. CASE WakeSpuriously(w)
      <3>1. At("ready")' = At("ready") \cup {w} /\ w \notin At("ready") /\ At("asleep") # {}
        BY <2>3 DEF At, TypeOK
      <3>2. Cardinality(At("ready")') = Cardinality(At("ready")) + 1
        BY <3>1, FiniteThreads, FS_AddElement
      <3>3. Len(jobs_) \in Nat /\ Cardinality(At("ready")) \in Nat
        BY FiniteThreads DEF TypeOK
      <3> QED BY <2>3, <3>1, <3>2, <3>3 DEF SleeperNotNeeded
    <2> QED BY <2>1, <2>2, <2>3
  <1> QED BY <1>1, <1>3, <1>4, <1>5, <1>6

\* A thread runs its job.
LEMMA RunStep ==
  ASSUME PoolInv, NEW w \in Workers, Run(w)
  PROVE  PoolInv'
  <1> USE DEF PoolInv, Run, callVars
  <1>0. cur_job[w] \in Jobs /\ w \in Busy
    BY DEF PoolAlive, Busy
  <1>1. PICK r \in {"ok", "failed"} : job' = [job EXCEPT ![cur_job[w]] = r]
    OBVIOUS
  <1>2. TypeOK'
    BY <1>0, <1>1 DEF TypeOK, Locations
  <1>3. Busy' = Busy /\ At("ready")' = At("ready") /\ At("asleep")' = At("asleep")
    BY DEF Busy, At, TypeOK
  <1>4. PoolAlive' /\ IdleExact'
    BY <1>3 DEF PoolAlive, IdleExact, TypeOK
  <1>5. SleeperNotNeeded'
    BY <1>3 DEF SleeperNotNeeded
  <1>6. ~(stage = "get" \/ got # 0 \/ thrown # 0)
    BY <1>0 DEF Drained
  <1>7. Drained' /\ FirstFailureThrown'
    BY <1>6 DEF Drained, FirstFailureThrown
  <1>8. JobsAccounted'
    <2> SUFFICES ASSUME stage # "idle", NEW i \in 1 .. scheduled PROVE JobAccounted(i)'
      BY DEF JobsAccounted
    <2>1. JobAccounted(i) /\ i \in Jobs
      BY PoolAssumption DEF JobsAccounted, TypeOK, Jobs
    <2>2. CASE i = cur_job[w]
      BY <2>2, <2>1, <1>1 DEF JobAccounted, TypeOK
    <2>3. CASE i # cur_job[w]
      BY <2>3, <2>1, <1>1 DEF JobAccounted, TypeOK
    <2> QED BY <2>2, <2>3
  <1> QED BY <1>2, <1>4, <1>5, <1>7, <1>8

\* A thread is done with its job, and tells the caller.
LEMMA CompleteStep ==
  ASSUME PoolInv, NEW w \in Workers, Complete(w)
  PROVE  PoolInv'
  <1> USE DEF PoolInv, Complete, callVars
  <1>0. w \in Busy /\ w \in workers_ /\ stage # "idle"
    BY DEF PoolAlive, Busy
  <1>1. Busy' = Busy \ {w} /\ At("asleep")' = At("asleep")
    BY DEF Busy, At, TypeOK
  <1>2. workers_' \ Busy' = (workers_ \ Busy) \cup {w} /\ w \notin workers_ \ Busy
    BY <1>0, <1>1
  <1>3. Cardinality(workers_' \ Busy') = Cardinality(workers_ \ Busy) + 1
    BY <1>2, FiniteThreads, FS_AddElement
  <1>4. IdleExact'
    BY <1>0, <1>3 DEF IdleExact
  <1>5. TypeOK'
    <2>1. 0 \in 0 .. MaxJobs
      BY PoolAssumption
    <2> QED BY <2>1 DEF TypeOK, Locations, Stages
  <1>6. PoolAlive'
    BY <1>0 DEF PoolAlive, TypeOK
  <1>7. ~(stage = "get" \/ got # 0 \/ thrown # 0)
    BY <1>0 DEF Drained
  <1>8. Drained' /\ FirstFailureThrown'
    BY <1>7 DEF Drained, FirstFailureThrown
  <1>9. JobsAccounted'
    BY <1>0 DEF JobsAccounted, JobAccounted, TypeOK
  <1>10. SleeperNotNeeded'
    <2>1. At("ready")' = At("ready") \cup {w} /\ w \notin At("ready")
      BY DEF At, TypeOK
    <2>2. Cardinality(At("ready")') = Cardinality(At("ready")) + 1
      BY <2>1, FiniteThreads, FS_AddElement
    <2>3. Len(jobs_) \in Nat /\ Cardinality(At("ready")) \in Nat
      BY FiniteThreads DEF TypeOK
    <2> QED BY <1>1, <2>2, <2>3 DEF SleeperNotNeeded
  <1> QED BY <1>4, <1>5, <1>6, <1>8, <1>9, <1>10

-----------------------------------------------------------------------------

\* Every step of a caller or of a worker preserves the invariant.
LEMMA NextInv == PoolInv /\ [Next]_vars => PoolInv'
  <1> SUFFICES ASSUME PoolInv, [Next]_vars PROVE PoolInv'
    OBVIOUS
  <1>1. CASE CallerStep
    BY <1>1, PushStep, StageStep, GetStep, DestroyStep DEF CallerStep
  <1>2. CASE PushFails \/ WaitSpuriously
    BY <1>2, StageStep
  <1>3. ASSUME NEW n \in 0 .. MaxJobs, NEW max \in 0 .. MaxJobs, NEW S \in SUBSET Workers,
               Create(n, max, S)
        PROVE  PoolInv'
    BY <1>3, CreateStep
  <1>4. ASSUME NEW w \in Workers, WorkerStep(w) \/ WakeSpuriously(w)
        PROVE  PoolInv'
    BY <1>4, TakeStep, IdleThreadStep, RunStep, CompleteStep DEF WorkerStep
  <1>5. CASE UNCHANGED vars
    BY <1>5 DEF vars, callVars, poolVars, PoolInv, TypeOK, PoolAlive, IdleExact, JobsAccounted,
                JobAccounted, Drained, FirstFailureThrown, SleeperNotNeeded, Busy, At
  <1> QED BY <1>1, <1>2, <1>3, <1>4, <1>5 DEF Next

\* The counters and the queue of the pool stay exact, for any number of threads
\* and jobs.
THEOREM PoolInvariant == Spec => []PoolInv
  BY InitInv, NextInv, PTL DEF Spec

\* ThreadPool::Wait returns only when every scheduled job has ended.
THEOREM WaitIsComplete == Spec => []WaitedForAll
  <1>1. ASSUME PoolInv PROVE WaitedForAll
    <2> SUFFICES ASSUME stage = "get"
                 PROVE  Busy = {} /\ \A i \in 1 .. scheduled : job[i] \in {"ok", "failed"}
      BY DEF WaitedForAll
    <2>1. jobs_ = << >> /\ Busy = {}
      BY <1>1 DEF PoolInv, Drained
    <2>2. \A w \in Workers : pc[w] # "running"
      BY <2>1 DEF Busy
    <2>3. \A i \in 1 .. scheduled : JobAccounted(i)
      BY <1>1 DEF PoolInv, JobsAccounted
    <2>4. 1 .. Len(jobs_) = {}
      BY <2>1
    <2> QED BY <2>1, <2>2, <2>3, <2>4 DEF JobAccounted
  <1> QED BY <1>1, PoolInvariant, PTL

\* ThreadPoolParallelExecutor::WaitAll throws the first failure in the order of
\* scheduling, and none if there is none.
THEOREM FailureIsThrown == Spec => []FirstFailureThrown
  <1>1. PoolInv => FirstFailureThrown
    BY DEF PoolInv
  <1> QED BY <1>1, PoolInvariant, PTL

\* The single notification of Push wakes enough threads.
THEOREM EnoughWoken == Spec => []SleeperNotNeeded
  <1>1. PoolInv => SleeperNotNeeded
    BY DEF PoolInv
  <1> QED BY <1>1, PoolInvariant, PTL
=============================================================================
