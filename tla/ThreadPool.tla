----------------------------- MODULE ThreadPool -----------------------------
(***************************************************************************)
(* httplib::ThreadPool, the TaskQueue the server runs its connections on.  *)
(* Every section under mutex_ is one action, a notification is another     *)
(* one, and join is the step that waits for all workers.                   *)
(***************************************************************************)
EXTENDS Naturals, Sequences, FiniteSets

CONSTANTS Workers,     \* threads_, one per SERVER_THREAD_POOL_SIZE
          Tasks,       \* the closures that may be enqueued
          NoTask,      \* the empty std::function
          QueueLimits  \* the values of mqr a pool may be constructed with

ASSUME ThreadPoolAssumption ==
  IsFiniteSet(Workers) /\ Workers # {} /\ QueueLimits \subseteq Nat /\ NoTask \notin Tasks

VARIABLES
  jobs,      \* jobs_, front first
  shutdown,  \* shutdown_
  limit,     \* max_queued_requests_, 0 for no limit
  worker,    \* worker -> "test" (holds or wants mutex_ to evaluate the
             \* predicate of cond_.wait), "waiting", "running", "gone"
  fn,        \* worker -> the job it took
  caller     \* the thread that owns the pool: "free", between a section and
             \* its notification, "join", "joined"

poolVars == <<jobs, shutdown, limit, worker, fn, caller>>

PoolInit ==
  /\ jobs = <<>> /\ shutdown = FALSE
  /\ limit \in QueueLimits
  /\ worker = [w \in Workers |-> "test"]
  /\ fn = [w \in Workers |-> NoTask]
  /\ caller = "free"

Full == limit > 0 /\ Len(jobs) >= limit

(* enqueue: the push is under the lock, notify_one after it is dropped.    *)
Enqueue(t) ==
  /\ caller = "free" /\ ~Full
  /\ jobs' = Append(jobs, t)
  /\ caller' = "notify"
  /\ UNCHANGED <<shutdown, limit, worker, fn>>

(* cond_.notify_one(): some blocked worker goes back to its predicate.     *)
MutantNotifyOne ==                \* mutant: no cond_.notify_one()
  /\ caller = "notify" /\ caller' = "free"
  /\ UNCHANGED <<jobs, shutdown, limit, worker, fn>>
NotifyOne ==
  /\ caller = "notify" /\ caller' = "free"
  /\ \/ (\A w \in Workers : worker[w] # "waiting") /\ UNCHANGED worker
     \/ \E w \in Workers : /\ worker[w] = "waiting"
                           /\ worker' = [worker EXCEPT ![w] = "test"]
  /\ UNCHANGED <<jobs, shutdown, limit, fn>>

Shutdown ==
  /\ caller = "free"
  /\ shutdown' = TRUE
  /\ caller' = "notify_all"
  /\ UNCHANGED <<jobs, limit, worker, fn>>

MutantNotifyAll ==                \* mutant: notify_one in shutdown()
  /\ caller = "notify_all" /\ caller' = "join"
  /\ \/ (\A w \in Workers : worker[w] # "waiting") /\ UNCHANGED worker
     \/ \E w \in Workers : /\ worker[w] = "waiting"
                           /\ worker' = [worker EXCEPT ![w] = "test"]
  /\ UNCHANGED <<jobs, shutdown, limit, fn>>
NotifyAll ==
  /\ caller = "notify_all" /\ caller' = "join"
  /\ worker' = [w \in Workers |->
                  IF worker[w] = "waiting" THEN "test" ELSE worker[w]]
  /\ UNCHANGED <<jobs, shutdown, limit, fn>>

MutantJoin ==                     \* mutant: the threads are not joined
  /\ caller = "join" /\ caller' = "joined"
  /\ UNCHANGED <<jobs, shutdown, limit, worker, fn>>
Join ==
  /\ caller = "join" /\ \A w \in Workers : worker[w] = "gone"
  /\ caller' = "joined"
  /\ UNCHANGED <<jobs, shutdown, limit, worker, fn>>

(* The predicate of cond_.wait is false: the lock is dropped and the       *)
(* worker blocks, in one step.                                             *)
Block(w) ==
  /\ worker[w] = "test" /\ jobs = <<>> /\ ~shutdown
  /\ worker' = [worker EXCEPT ![w] = "waiting"]
  /\ UNCHANGED <<jobs, shutdown, limit, fn, caller>>

WakeSpuriously(w) ==
  /\ worker[w] = "waiting"
  /\ worker' = [worker EXCEPT ![w] = "test"]
  /\ UNCHANGED <<jobs, shutdown, limit, fn, caller>>

MutantTakeWithoutPop(w) ==        \* mutant: no jobs_.pop_front()
  /\ worker[w] = "test" /\ jobs # <<>>
  /\ fn' = [fn EXCEPT ![w] = Head(jobs)]
  /\ worker' = [worker EXCEPT ![w] = "running"]
  /\ UNCHANGED <<jobs, shutdown, limit, caller>>
TakeJob(w) ==
  /\ worker[w] = "test" /\ jobs # <<>>
  /\ fn' = [fn EXCEPT ![w] = Head(jobs)]
  /\ jobs' = Tail(jobs)
  /\ worker' = [worker EXCEPT ![w] = "running"]
  /\ UNCHANGED <<shutdown, limit, caller>>

MutantExit(w) ==                  \* mutant: if (pool_.shutdown_) break
  /\ worker[w] = "test" /\ shutdown
  /\ worker' = [worker EXCEPT ![w] = "gone"]
  /\ UNCHANGED <<jobs, shutdown, limit, fn, caller>>
Exit(w) ==
  /\ worker[w] = "test" /\ jobs = <<>> /\ shutdown
  /\ worker' = [worker EXCEPT ![w] = "gone"]
  /\ UNCHANGED <<jobs, shutdown, limit, fn, caller>>

(* fn() returns.                                                           *)
JobDone(w) ==
  /\ worker[w] = "running"
  /\ worker' = [worker EXCEPT ![w] = "test"]
  /\ fn' = [fn EXCEPT ![w] = NoTask]
  /\ UNCHANGED <<jobs, shutdown, limit, caller>>

WorkerStep(w) == Block(w) \/ TakeJob(w) \/ Exit(w)

CallerStep == NotifyOne \/ NotifyAll \/ Join

PoolNext ==
  \/ \E t \in Tasks : Enqueue(t)
  \/ Shutdown \/ CallerStep
  \/ \E w \in Workers : WorkerStep(w) \/ WakeSpuriously(w) \/ JobDone(w)

PoolSpec == PoolInit /\ [][PoolNext]_poolVars
-----------------------------------------------------------------------------
Testing == {w \in Workers : worker[w] = "test"}
Blocked == {w \in Workers : worker[w] = "waiting"}
Running == {w \in Workers : worker[w] = "running"}

PoolTypeOK ==
  /\ jobs \in Seq(Tasks) /\ shutdown \in BOOLEAN /\ limit \in QueueLimits
  /\ worker \in [Workers -> {"test", "waiting", "running", "gone"}]
  /\ fn \in [Workers -> Tasks \cup {NoTask}]
  /\ caller \in {"free", "notify", "notify_all", "join", "joined"}

(* While workers are blocked, every queued job has a worker on its way to  *)
(* it or the notification of its enqueue still ahead, although enqueue     *)
(* notifies outside the lock and workers between two jobs barge in.        *)
QueuedJobsHaveTakers ==
  Blocked # {} =>
    Len(jobs) <= Cardinality(Testing) + (IF caller = "notify" THEN 1 ELSE 0)

(* shutdown() cannot join a worker that sleeps on: once notify_all ran no  *)
(* worker is blocked, and none blocks again.                               *)
NobodySleepsThroughShutdown ==
  caller \in {"join", "joined"} => shutdown /\ Blocked = {}

(* When shutdown() returns no job is running and none was dropped.         *)
JoinedMeansDrained ==
  caller = "joined" => jobs = <<>> /\ \A w \in Workers : worker[w] = "gone"
=============================================================================
