----------------------------- MODULE ThreadPool -----------------------------
(***************************************************************************)
(* ThreadPool (src/utils/thread_pool.cpp) as ThreadPoolParallelExecutor    *)
(* and the cache readers use it: a read makes a pool, schedules its        *)
(* chunks, waits for all of them and destroys the pool.  The chunks refer  *)
(* to the buffer and to locals of the read.                                *)
(*                                                                         *)
(* A critical section of mutex_ is one action; a job runs outside it.  The *)
(* jobs of a call are the numbers 1 .. total.                              *)
(***************************************************************************)
EXTENDS Integers, Sequences, FiniteSets

CONSTANTS
  Workers,          \* threads
  MaxJobs,          \* bound on the jobs of a call
  MAX_THREAD_COUNT  \* cap of the pool's size when there is no configured one

ASSUME PoolAssumption ==
  /\ IsFiniteSet(Workers)
  /\ MaxJobs \in Nat
  /\ MAX_THREAD_COUNT \in Nat \ {0}

Jobs == 1 .. MaxJobs

VARIABLES
  stage,            \* where the caller is
  total, scheduled, \* jobs of this call, and how many of them were pushed
  got,              \* futures the caller has got
  thrown,           \* the job whose exception left WaitAll, or 0
  job,              \* what became of every job
  jobs_, idle_num_, stopped_,
  workers_,         \* the threads of the pool
  pc, cur_job       \* where every thread is, and its job

callVars == <<total, scheduled, got, thrown>>
poolVars == <<job, jobs_, idle_num_, stopped_, workers_, pc, cur_job>>
vars == <<stage, callVars, poolVars>>

Stages == {"idle", "schedule", "wait", "asleep", "get", "destroy", "join"}

Locations == {"none", "ready", "asleep", "running", "finished"}

At(where) == {w \in Workers : pc[w] = where}

Busy == {w \in Workers : pc[w] \in {"running", "finished"}}

Init ==
  /\ stage = "idle"
  /\ total = 0 /\ scheduled = 0 /\ got = 0 /\ thrown = 0
  /\ job = [i \in Jobs |-> "new"]
  /\ jobs_ = << >>
  /\ idle_num_ = 0
  /\ stopped_ = FALSE
  /\ workers_ = {}
  /\ pc = [w \in Workers |-> "none"]
  /\ cur_job = [w \in Workers |-> 0]

-----------------------------------------------------------------------------
(* The caller: the read, ThreadPoolParallelExecutor, and the pool's methods. *)

\* Fault: zero is taken for the limit.
GetThreadCountLimited(n, max) == IF n < max THEN n ELSE max

\* A max_subrequest_count of zero is no limit.
GetThreadCountForSubrequests(n, max) ==
  LET cap == IF max = 0 THEN MAX_THREAD_COUNT ELSE max
  IN  IF n < cap THEN n ELSE cap

\* Fault: idle_num_ keeps its default.
CreateUncounted(n, max, S) ==
  /\ stage = "idle"
  /\ Cardinality(S) = GetThreadCountForSubrequests(n, max)
  /\ stage' = "schedule"
  /\ total' = n /\ scheduled' = 0 /\ got' = 0 /\ thrown' = 0
  /\ job' = [i \in Jobs |-> "new"]
  /\ jobs_' = << >>
  /\ idle_num_' = 0
  /\ stopped_' = FALSE
  /\ workers_' = S
  /\ pc' = [w \in Workers |-> IF w \in S THEN "ready" ELSE "none"]
  /\ cur_job' = [w \in Workers |-> 0]

\* The constructor: the threads start, each on its way to the queue.
Create(n, max, S) ==
  /\ stage = "idle"
  /\ Cardinality(S) = GetThreadCountForSubrequests(n, max)
  /\ stage' = "schedule"
  /\ total' = n /\ scheduled' = 0 /\ got' = 0 /\ thrown' = 0
  /\ job' = [i \in Jobs |-> "new"]
  /\ jobs_' = << >>
  /\ idle_num_' = Cardinality(S)
  /\ stopped_' = FALSE
  /\ workers_' = S
  /\ pc' = [w \in Workers |-> IF w \in S THEN "ready" ELSE "none"]
  /\ cur_job' = [w \in Workers |-> 0]

\* Fault: only the push to an empty queue notifies.
NotifyWhenEmpty ==
  IF At("asleep") = {} \/ jobs_ # << >> THEN pc' = pc
  ELSE \E w \in At("asleep") : pc' = [pc EXCEPT ![w] = "ready"]

\* new_job_cv_.notify_one()
NotifyNewJob ==
  IF At("asleep") = {} THEN pc' = pc
  ELSE \E w \in At("asleep") : pc' = [pc EXCEPT ![w] = "ready"]

Push ==
  /\ stage = "schedule" /\ scheduled < total
  /\ scheduled' = scheduled + 1
  /\ job' = [job EXCEPT ![scheduled + 1] = "queued"]
  /\ jobs_' = Append(jobs_, scheduled + 1)
  /\ NotifyNewJob
  /\ UNCHANGED <<stage, total, got, thrown, idle_num_, stopped_, workers_, cur_job>>

\* Push cannot allocate the job: the exception destroys the pool.
PushFails ==
  /\ stage = "schedule" /\ scheduled < total
  /\ stage' = "destroy"
  /\ UNCHANGED <<callVars, poolVars>>

WaitAll ==
  /\ stage = "schedule" /\ scheduled = total
  /\ stage' = "wait"
  /\ UNCHANGED <<callVars, poolVars>>

\* Fault: an empty queue is enough.
DoneWhenEmpty == jobs_ = << >>

\* The predicate of Wait.
Done == stopped_ \/ (idle_num_ = Cardinality(workers_) /\ jobs_ = << >>)

Wait ==
  /\ stage = "wait"
  /\ stage' = IF Done THEN "get" ELSE "asleep"
  /\ UNCHANGED <<callVars, poolVars>>

WaitSpuriously ==
  /\ stage = "asleep"
  /\ stage' = "wait"
  /\ UNCHANGED <<callVars, poolVars>>

\* Fault: exceptions are ignored.
GetIgnoring ==
  /\ stage = "get" /\ got < scheduled
  /\ got' = got + 1
  /\ UNCHANGED <<stage, total, scheduled, thrown, poolVars>>

\* fut.get() waits for the job, and throws its exception.
Get ==
  /\ stage = "get" /\ got < scheduled
  /\ \/ /\ job[got + 1] = "ok"
        /\ got' = got + 1
        /\ UNCHANGED <<stage, thrown>>
     \/ /\ job[got + 1] = "failed"
        /\ thrown' = got + 1
        /\ stage' = "destroy"
        /\ UNCHANGED got
  /\ UNCHANGED <<total, scheduled, poolVars>>

GetLast ==
  /\ stage = "get" /\ got = scheduled
  /\ stage' = "destroy"
  /\ UNCHANGED <<callVars, poolVars>>

\* The destructor: stop, wake the threads, join them.
Stop ==
  /\ stage = "destroy"
  /\ stage' = "join"
  /\ stopped_' = TRUE
  /\ pc' = [w \in Workers |-> IF pc[w] = "asleep" THEN "ready" ELSE pc[w]]
  /\ UNCHANGED <<callVars, job, jobs_, idle_num_, workers_, cur_job>>

\* The jobs that are still queued go with the pool.
Join ==
  /\ stage = "join"
  /\ \A w \in workers_ : pc[w] = "none"
  /\ stage' = "idle"
  /\ jobs_' = << >>
  /\ workers_' = {}
  /\ UNCHANGED <<callVars, job, idle_num_, stopped_, pc, cur_job>>

-----------------------------------------------------------------------------
(* A thread of the pool. *)

Take(w) ==
  /\ pc[w] = "ready" /\ ~stopped_ /\ jobs_ # << >>
  /\ jobs_' = Tail(jobs_)
  /\ idle_num_' = idle_num_ - 1
  /\ job' = [job EXCEPT ![Head(jobs_)] = "running"]
  /\ cur_job' = [cur_job EXCEPT ![w] = Head(jobs_)]
  /\ pc' = [pc EXCEPT ![w] = "running"]
  /\ UNCHANGED <<stage, callVars, stopped_, workers_>>

Sleep(w) ==
  /\ pc[w] = "ready" /\ ~stopped_ /\ jobs_ = << >>
  /\ pc' = [pc EXCEPT ![w] = "asleep"]
  /\ UNCHANGED <<stage, callVars, job, jobs_, idle_num_, stopped_, workers_, cur_job>>

Exit(w) ==
  /\ pc[w] = "ready" /\ stopped_
  /\ pc' = [pc EXCEPT ![w] = "none"]
  /\ UNCHANGED <<stage, callVars, job, jobs_, idle_num_, stopped_, workers_, cur_job>>

WakeSpuriously(w) ==
  /\ pc[w] = "asleep"
  /\ pc' = [pc EXCEPT ![w] = "ready"]
  /\ UNCHANGED <<stage, callVars, job, jobs_, idle_num_, stopped_, workers_, cur_job>>

\* The packaged task keeps an exception for the future.
Run(w) ==
  /\ pc[w] = "running"
  /\ \E r \in {"ok", "failed"} : job' = [job EXCEPT ![cur_job[w]] = r]
  /\ pc' = [pc EXCEPT ![w] = "finished"]
  /\ UNCHANGED <<stage, callVars, jobs_, idle_num_, stopped_, workers_, cur_job>>

\* job_completion_cv_.notify_one()
Complete(w) ==
  /\ pc[w] = "finished"
  /\ idle_num_' = idle_num_ + 1
  /\ pc' = [pc EXCEPT ![w] = "ready"]
  /\ cur_job' = [cur_job EXCEPT ![w] = 0]
  /\ stage' = IF stage = "asleep" THEN "wait" ELSE stage
  /\ UNCHANGED <<callVars, job, jobs_, stopped_, workers_>>

CallerStep ==
  Push \/ WaitAll \/ Wait \/ Get \/ GetLast \/ Stop \/ Join

WorkerStep(w) == Take(w) \/ Sleep(w) \/ Exit(w) \/ Run(w) \/ Complete(w)

Next ==
  \/ CallerStep
  \/ PushFails
  \/ WaitSpuriously
  \/ \E n \in 0 .. MaxJobs, max \in 0 .. MaxJobs, S \in SUBSET Workers : Create(n, max, S)
  \/ \E w \in Workers : WorkerStep(w) \/ WakeSpuriously(w)

Spec == Init /\ [][Next]_vars

\* The caller and the threads keep running: jobs end, the mutex is granted.  No
\* call has to be made, and no wakeup comes without a notification.
FairSpec == Spec /\ WF_vars(CallerStep) /\ \A w \in Workers : WF_vars(WorkerStep(w))

-----------------------------------------------------------------------------
(* Properties. *)

\* The type invariant.
TypeOK ==
  /\ stage \in Stages
  /\ total \in 0 .. MaxJobs /\ scheduled \in 0 .. MaxJobs
  /\ got \in 0 .. MaxJobs /\ thrown \in 0 .. MaxJobs
  /\ job \in [Jobs -> {"new", "queued", "running", "ok", "failed"}]
  /\ jobs_ \in Seq(Jobs)
  /\ idle_num_ \in Nat
  /\ stopped_ \in BOOLEAN
  /\ workers_ \in SUBSET Workers
  /\ pc \in [Workers -> Locations]
  /\ cur_job \in [Workers -> 0 .. MaxJobs]

\* "Block until every scheduled task has finished": when Wait has returned, no job
\* is queued or running any more, so nothing uses the buffer and the locals of the
\* read from then on, and no future makes the caller wait.
WaitedForAll ==
  stage = "get" => /\ Busy = {}
                   /\ \A i \in 1 .. scheduled : job[i] \in {"ok", "failed"}

\* "Re-throws the first exception": WaitAll throws if and only if some job
\* failed, and then the exception of the failed job that was scheduled first.
FirstFailureThrown ==
  /\ thrown # 0 => job[thrown] = "failed"
  /\ \A i \in 1 .. got : job[i] = "ok"
  /\ thrown # 0 => \A i \in Jobs : job[i] = "failed" => thrown <= i

\* notify_one on every push is enough: while a thread sleeps, there are as many
\* threads on their way to the queue as there are jobs in it.  A job never waits
\* for another one to end although a thread is free.
SleeperNotNeeded ==
  ~stopped_ /\ At("asleep") # {} => Len(jobs_) <= Cardinality(At("ready"))

\* Every call returns, with and without exceptions: no wakeup of the caller is
\* lost, and the pool has a thread whenever it has a job.
CallReturns == stage # "idle" ~> stage = "idle"

-----------------------------------------------------------------------------
(* The inductive invariant behind the safety properties. *)

\* The pool is stopped only by its destructor, and only its threads run.
PoolAlive ==
  /\ stopped_ => stage \in {"join", "idle"}
  /\ \A w \in Workers : pc[w] # "none" => w \in workers_ /\ stage # "idle"
  /\ \A w \in Workers : pc[w] \in {"running", "finished"} => cur_job[w] \in Jobs
  /\ scheduled <= total

\* idle_num_ counts the threads without a job.
IdleExact == stage # "idle" => idle_num_ = Cardinality(workers_ \ Busy)

\* A job that was pushed and has not ended is in the queue or in a thread.
JobAccounted(i) ==
  \/ job[i] \in {"ok", "failed"}
  \/ \E k \in 1 .. Len(jobs_) : jobs_[k] = i
  \/ \E w \in Workers : pc[w] = "running" /\ cur_job[w] = i

JobsAccounted == stage # "idle" => \A i \in 1 .. scheduled : JobAccounted(i)

\* Once Wait has returned there is nothing left to do.
Drained ==
  stage = "get" \/ got # 0 \/ thrown # 0 =>
    /\ stage \in {"get", "destroy", "join", "idle"}
    /\ jobs_ = << >>
    /\ Busy = {}

\* The counters of the pool are right at every interleaving of pushes, wakeups,
\* jobs, failures and the destruction of the pool: the invariant that every step
\* preserves, and from which the others follow.
PoolInv ==
  /\ TypeOK
  /\ PoolAlive
  /\ IdleExact
  /\ JobsAccounted
  /\ Drained
  /\ FirstFailureThrown
  /\ SleeperNotNeeded
=============================================================================
