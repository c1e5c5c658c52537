-------------------------- MODULE HttpServerProofs --------------------------
(***************************************************************************)
(* The thread pool, and the server around it, for any clients,             *)
(* connections, workers and limits.                                        *)
(***************************************************************************)
EXTENDS HttpServer, FiniteSetTheorems, SequenceTheorems, TLAPS

LEMMA PoolTypeInitially == PoolInit => PoolTypeOK
<1> SUFFICES ASSUME PoolInit PROVE PoolTypeOK
  OBVIOUS
<1>1. jobs \in Seq(Tasks)
  BY EmptySeq DEF PoolInit
<1>2. QED
  BY <1>1 DEF PoolInit, PoolTypeOK

LEMMA PoolTypeStep ==
  ASSUME PoolTypeOK, [PoolNext]_poolVars
  PROVE  PoolTypeOK'
<1> USE DEF PoolTypeOK
<1>1. ASSUME NEW t \in Tasks, Enqueue(t) PROVE PoolTypeOK'
  <2>1. jobs' \in Seq(Tasks)
    BY <1>1, AppendProperties DEF Enqueue
  <2>2. QED
    BY <1>1, <2>1 DEF Enqueue
<1>2. CASE Shutdown
  BY <1>2 DEF Shutdown
<1>3. CASE NotifyOne
  BY <1>3 DEF NotifyOne
<1>4. CASE NotifyAll
  BY <1>4 DEF NotifyAll
<1>5. CASE Join
  BY <1>5 DEF Join
<1>6. ASSUME NEW w \in Workers, Block(w) PROVE PoolTypeOK'
  BY <1>6 DEF Block
<1>7. ASSUME NEW w \in Workers, TakeJob(w) PROVE PoolTypeOK'
  <2>1. Head(jobs) \in Tasks /\ Tail(jobs) \in Seq(Tasks)
    BY <1>7, HeadTailProperties DEF TakeJob
  <2>2. QED
    BY <1>7, <2>1 DEF TakeJob
<1>8. ASSUME NEW w \in Workers, Exit(w) PROVE PoolTypeOK'
  BY <1>8 DEF Exit
<1>9. ASSUME NEW w \in Workers, WakeSpuriously(w) PROVE PoolTypeOK'
  BY <1>9 DEF WakeSpuriously
<1>10. ASSUME NEW w \in Workers, JobDone(w) PROVE PoolTypeOK'
  BY <1>10 DEF JobDone
<1>11. CASE UNCHANGED poolVars
  BY <1>11 DEF poolVars
<1>12. QED
  BY <1>1, <1>2, <1>3, <1>4, <1>5, <1>6, <1>7, <1>8, <1>9, <1>10, <1>11
     DEF PoolNext, CallerStep, WorkerStep

(* The pool's variables keep their types through every interleaving of     *)
(* enqueue, shutdown and the workers.                                      *)
THEOREM ThreadPoolTypeCorrect == PoolSpec => []PoolTypeOK
  BY PoolTypeInitially, PoolTypeStep, PTL DEF PoolSpec
-----------------------------------------------------------------------------
(* shutdown_ is set by the one call of shutdown(), which the owner then    *)
(* sees through to the end; and a worker that has left found it set and    *)
(* the queue empty, which after it nobody fills.                           *)
ShutdownInv ==
  /\ shutdown <=> caller \in {"notify_all", "join", "joined"}
  /\ caller \in {"join", "joined"} => Blocked = {}
  /\ (\E w \in Workers : worker[w] = "gone") => shutdown /\ jobs = <<>>
  /\ caller = "joined" => \A w \in Workers : worker[w] = "gone"

LEMMA ShutdownInitially == PoolInit => ShutdownInv
  BY DEF PoolInit, ShutdownInv

LEMMA ShutdownStep ==
  ASSUME PoolTypeOK, ShutdownInv, [PoolNext]_poolVars
  PROVE  ShutdownInv'
<1> USE DEF PoolTypeOK, ShutdownInv, Blocked
<1>1. ASSUME NEW t \in Tasks, Enqueue(t) PROVE ShutdownInv'
  BY <1>1 DEF Enqueue
<1>2. CASE Shutdown
  BY <1>2 DEF Shutdown
<1>3. CASE NotifyOne
  BY <1>3 DEF NotifyOne
<1>4. CASE NotifyAll
  BY <1>4 DEF NotifyAll
<1>5. CASE Join
  BY <1>5 DEF Join
<1>6. ASSUME NEW w \in Workers, Block(w) PROVE ShutdownInv'
  BY <1>6 DEF Block
<1>7. ASSUME NEW w \in Workers, TakeJob(w) PROVE ShutdownInv'
  BY <1>7 DEF TakeJob
<1>8. ASSUME NEW w \in Workers, Exit(w) PROVE ShutdownInv'
  BY <1>8 DEF Exit
<1>9. ASSUME NEW w \in Workers, WakeSpuriously(w) PROVE ShutdownInv'
  BY <1>9 DEF WakeSpuriously
<1>10. ASSUME NEW w \in Workers, JobDone(w) PROVE ShutdownInv'
  BY <1>10 DEF JobDone
<1>11. CASE UNCHANGED poolVars
  BY <1>11 DEF poolVars
<1>12. QED
  BY <1>1, <1>2, <1>3, <1>4, <1>5, <1>6, <1>7, <1>8, <1>9, <1>10, <1>11
     DEF PoolNext, CallerStep, WorkerStep

LEMMA ShutdownInvariant == PoolSpec => [](PoolTypeOK /\ ShutdownInv)
<1>1. PoolInit => PoolTypeOK /\ ShutdownInv
  BY PoolTypeInitially, ShutdownInitially
<1>2. (PoolTypeOK /\ ShutdownInv) /\ [PoolNext]_poolVars => (PoolTypeOK /\ ShutdownInv)'
  BY PoolTypeStep, ShutdownStep
<1>3. QED
  BY <1>1, <1>2, PTL DEF PoolSpec

(* Once shutdown() has notified all, no worker is blocked and none blocks  *)
(* again: its join cannot wait for a worker that sleeps on.                *)
THEOREM ShutdownWakesEverybody == PoolSpec => []NobodySleepsThroughShutdown
<1>1. PoolTypeOK /\ ShutdownInv => NobodySleepsThroughShutdown
  BY DEF ShutdownInv, NobodySleepsThroughShutdown
<1>2. QED
  BY ShutdownInvariant, <1>1, PTL

(* When shutdown() returns, every job that was accepted has been run.      *)
THEOREM ShutdownDrains == PoolSpec => []JoinedMeansDrained
<1>1. PoolTypeOK /\ ShutdownInv => JoinedMeansDrained
  BY ThreadPoolAssumption DEF ShutdownInv, JoinedMeansDrained
<1>2. QED
  BY ShutdownInvariant, <1>1, PTL
-----------------------------------------------------------------------------
(* Counting the workers that are about to look at the queue.               *)

LEMMA TestingFinite ==
  IsFiniteSet(Testing) /\ Cardinality(Testing) \in Nat
  BY ThreadPoolAssumption, FS_Subset, FS_CardinalityType DEF Testing

LEMMA TestingFinitePrimed ==
  IsFiniteSet(Testing') /\ Cardinality(Testing') \in Nat
  BY ThreadPoolAssumption, FS_Subset, FS_CardinalityType DEF Testing

LEMMA TestingGain ==
  ASSUME PoolTypeOK, NEW w \in Workers, worker[w] # "test",
         worker' = [worker EXCEPT ![w] = "test"]
  PROVE  Cardinality(Testing') = Cardinality(Testing) + 1
<1>1. Testing' = Testing \cup {w} /\ w \notin Testing
  BY DEF PoolTypeOK, Testing
<1>2. QED
  BY <1>1, TestingFinite, FS_AddElement

LEMMA TestingLoss ==
  ASSUME PoolTypeOK, NEW w \in Workers, worker[w] = "test",
         NEW other \in {"waiting", "running", "gone"},
         worker' = [worker EXCEPT ![w] = other]
  PROVE  Cardinality(Testing') = Cardinality(Testing) - 1
<1>1. Testing' = Testing \ {w} /\ w \in Testing
  BY DEF PoolTypeOK, Testing
<1>2. QED
  BY <1>1, TestingFinite, FS_RemoveElement

LEMMA TakersStep ==
  ASSUME PoolTypeOK, QueuedJobsHaveTakers, [PoolNext]_poolVars
  PROVE  QueuedJobsHaveTakers'
<1> DEFINE ahead == IF caller = "notify" THEN 1 ELSE 0
<1> USE DEF QueuedJobsHaveTakers
<1>a. Len(jobs) \in Nat
  BY LenProperties DEF PoolTypeOK
<1>b. jobs' = <<>> => QueuedJobsHaveTakers'
  BY TestingFinitePrimed
<1>1. ASSUME NEW t \in Tasks, Enqueue(t) PROVE QueuedJobsHaveTakers'
  <2>1. Len(jobs') = Len(jobs) + 1
    BY <1>1, AppendProperties DEF Enqueue, PoolTypeOK
  <2>2. Testing' = Testing /\ Blocked' = Blocked
    BY <1>1 DEF Enqueue, Testing, Blocked
  <2>3. QED
    BY <1>1, <1>a, <2>1, <2>2, TestingFinite DEF Enqueue
<1>2. CASE Shutdown
  BY <1>2, TestingFinite DEF Shutdown, Testing, Blocked
<1>3. CASE NotifyOne
  <2>1. CASE \A w \in Workers : worker[w] # "waiting"
    <3>1. worker' = worker
      BY <1>3, <2>1 DEF NotifyOne
    <3>2. Blocked' = {}
      BY <2>1, <3>1 DEF Blocked
    <3>3. QED
      BY <3>2
  <2>2. ASSUME NEW w \in Workers, worker[w] = "waiting",
               worker' = [worker EXCEPT ![w] = "test"]
        PROVE  QueuedJobsHaveTakers'
    <3>1. Cardinality(Testing') = Cardinality(Testing) + 1
      BY <2>2, TestingGain
    <3>2. Blocked # {} /\ jobs' = jobs
      BY <1>3, <2>2 DEF Blocked, NotifyOne
    <3>3. QED
      BY <1>3, <1>a, <3>1, <3>2, TestingFinite DEF NotifyOne
  <2>3. QED
    BY <1>3, <2>1, <2>2 DEF NotifyOne
<1>4. CASE NotifyAll
  <2>1. Blocked' = {}
    BY <1>4 DEF NotifyAll, Blocked, PoolTypeOK
  <2>2. QED
    BY <2>1
<1>5. CASE Join
  BY <1>5, TestingFinite DEF Join, Testing, Blocked
<1>6. ASSUME NEW w \in Workers, Block(w) PROVE QueuedJobsHaveTakers'
  BY <1>6, <1>b DEF Block
<1>7. ASSUME NEW w \in Workers, TakeJob(w) PROVE QueuedJobsHaveTakers'
  <2>1. Len(jobs') = Len(jobs) - 1
    BY <1>7, HeadTailProperties DEF TakeJob, PoolTypeOK
  <2>2. Cardinality(Testing') = Cardinality(Testing) - 1
    BY <1>7, TestingLoss DEF TakeJob
  <2>3. Blocked' # {} => Blocked # {}
    BY <1>7 DEF TakeJob, Blocked, PoolTypeOK
  <2>4. QED
    BY <1>7, <1>a, <2>1, <2>2, <2>3, TestingFinite DEF TakeJob
<1>8. ASSUME NEW w \in Workers, Exit(w) PROVE QueuedJobsHaveTakers'
  BY <1>8, <1>b DEF Exit
<1>9. ASSUME NEW w \in Workers, WakeSpuriously(w) PROVE QueuedJobsHaveTakers'
  <2>1. Cardinality(Testing') = Cardinality(Testing) + 1
    BY <1>9, TestingGain DEF WakeSpuriously
  <2>2. Blocked # {}
    BY <1>9 DEF WakeSpuriously, Blocked
  <2>3. QED
    BY <1>9, <1>a, <2>1, <2>2, TestingFinite DEF WakeSpuriously
<1>10. ASSUME NEW w \in Workers, JobDone(w) PROVE QueuedJobsHaveTakers'
  <2>1. Cardinality(Testing') = Cardinality(Testing) + 1
    BY <1>10, TestingGain DEF JobDone
  <2>2. Blocked' # {} => Blocked # {}
    BY <1>10 DEF JobDone, Blocked, PoolTypeOK
  <2>3. QED
    BY <1>10, <1>a, <2>1, <2>2, TestingFinite DEF JobDone
<1>11. CASE UNCHANGED poolVars
  BY <1>11 DEF poolVars, Testing, Blocked
<1>12. QED
  BY <1>1, <1>2, <1>3, <1>4, <1>5, <1>6, <1>7, <1>8, <1>9, <1>10, <1>11
     DEF PoolNext, CallerStep, WorkerStep

LEMMA TakersInitially == PoolInit => QueuedJobsHaveTakers
  BY DEF PoolInit, QueuedJobsHaveTakers, Blocked

(* While workers are blocked every queued connection has a worker or a     *)
(* notification on its way to it, for any number of workers and any limit. *)
THEOREM QueuedJobsAreTaken == PoolSpec => []QueuedJobsHaveTakers
<1>1. PoolInit => PoolTypeOK /\ QueuedJobsHaveTakers
  BY PoolTypeInitially, TakersInitially
<1>2. (PoolTypeOK /\ QueuedJobsHaveTakers) /\ [PoolNext]_poolVars
        => (PoolTypeOK /\ QueuedJobsHaveTakers)'
  BY PoolTypeStep, TakersStep
<1>3. QED
  BY <1>1, <1>2, PTL DEF PoolSpec
-----------------------------------------------------------------------------
(* Every step of the server is a step of the pool or leaves it alone.      *)
LEMMA JobUsesPool ==
  ASSUME NEW w \in Workers, NEW c \in Conns, JobStep(w, c)
  PROVE  UNCHANGED poolVars \/ (CloseSocket(w, c) /\ JobDone(w))
<1>1. CASE FirstPoll(w, c)
  BY <1>1 DEF FirstPoll, Works, poolVars
<1>2. CASE Poll(w, c)
  BY <1>2 DEF Poll, Works, poolVars
<1>3. CASE ReadRequest(w, c)
  BY <1>3 DEF ReadRequest, Works, poolVars
<1>4. CASE Handle(w, c)
  BY <1>4 DEF Handle, Works, poolVars
<1>5. CASE WriteAnswer(w, c)
  BY <1>5 DEF WriteAnswer, Works, poolVars
<1>6. CASE CloseSocket(w, c)
  BY <1>6 DEF CloseSocket
<1>7. CASE ReadOn(w, c)
  BY <1>7 DEF ReadOn, Works, poolVars
<1>8. QED
  BY <1>1, <1>2, <1>3, <1>4, <1>5, <1>6, <1>7 DEF JobStep

LEMMA ServerStepUsesPool == [ServerNext]_serverVars => [PoolNext]_poolVars
<1> SUFFICES ASSUME [ServerNext]_serverVars PROVE [PoolNext]_poolVars
  OBVIOUS
<1> USE DEF PoolNext
<1>1. CASE Bind
  BY <1>1 DEF Bind, poolVars
<1>2. CASE TestSocket
  BY <1>2 DEF TestSocket, poolVars
<1>3. CASE Drain
  BY <1>3 DEF Drain
<1>4. CASE PoolCallerStep
  BY <1>4 DEF PoolCallerStep
<1>5. CASE ListenReturns
  BY <1>5 DEF ListenReturns, poolVars
<1>6. CASE Cleanup
  BY <1>6 DEF Cleanup, poolVars
<1>7. CASE AcceptFails
  BY <1>7 DEF AcceptFails, poolVars
<1>8. CASE Stop
  BY <1>8 DEF Stop, poolVars
<1>9. CASE StopCloses
  BY <1>9 DEF StopCloses, poolVars
<1>10. ASSUME NEW w \in Workers, PoolWorkerStep(w) PROVE [PoolNext]_poolVars
  BY <1>10 DEF PoolWorkerStep
<1>11. ASSUME NEW w \in Workers, WorkerWakes(w) PROVE [PoolNext]_poolVars
  BY <1>11 DEF WorkerWakes
<1>12. ASSUME NEW w \in Workers, NEW c \in Conns, JobStep(w, c) PROVE [PoolNext]_poolVars
  BY <1>12, JobUsesPool
<1>13. ASSUME NEW c \in Conns, Accept(c) PROVE [PoolNext]_poolVars
  BY <1>13 DEF Accept, Conns
<1>14. ASSUME NEW c \in Conns, Connect(c) \/ Transmit(c) \/ Drip(c) \/ Leave(c)
       PROVE  [PoolNext]_poolVars
  BY <1>14 DEF Connect, Transmit, Drip, Leave, poolVars
<1>15. ASSUME NEW c \in Conns, NEW r \in Requests[c], Send(c, r) PROVE [PoolNext]_poolVars
  BY <1>15 DEF Send, poolVars
<1>16. CASE UNCHANGED serverVars
  BY <1>16 DEF serverVars, poolVars
<1>17. QED
  BY <1>1, <1>2, <1>3, <1>4, <1>5, <1>6, <1>7, <1>8, <1>9, <1>10, <1>11,
     <1>12, <1>13, <1>14, <1>15, <1>16 DEF ServerNext, ListenerStep

(* The server's behaviours are behaviours of the pool's specification: the *)
(* pool's theorems hold in the server.                                     *)
THEOREM ServerUsesPool == ServerSpec => PoolSpec
<1>1. ServerInit => PoolInit
  BY DEF ServerInit
<1>2. QED
  BY <1>1, ServerStepUsesPool, PTL DEF ServerSpec, PoolSpec

(* While workers are blocked, every connection in the queue has a worker   *)
(* or a notification on its way to it, in the server as in its pool.       *)
THEOREM ServerQueuedJobsAreTaken == ServerSpec => []QueuedJobsHaveTakers
  BY ServerUsesPool, QueuedJobsAreTaken, PTL

(* No worker sleeps through the shutdown that listen waits for.            *)
THEOREM ServerShutdownWakes == ServerSpec => []NobodySleepsThroughShutdown
  BY ServerUsesPool, ShutdownWakesEverybody, PTL

LEMMA ServerPool == ServerSpec => [](PoolTypeOK /\ ShutdownInv)
  BY ServerUsesPool, ShutdownInvariant, PTL
-----------------------------------------------------------------------------
(* Before listen and after it nothing is queued and nothing runs.          *)
QuietInv ==
  main \in {"start", "returned", "deleted"} => jobs = <<>> /\ Running = {}

(* An accepted connection is in the queue or has a worker.                 *)
Queued(c) == \E i \in DOMAIN jobs : jobs[i] = c
Served(c) == \E w \in Workers : worker[w] = "running" /\ fn[w] = c
ServedInv == \A c \in Conns : conn[c] = "accepted" => Queued(c) \/ Served(c)

ConnTypeOK == conn \in [Conns -> {"new", "backlog", "accepted", "closed"}]

LifeInv == ConnTypeOK /\ QuietInv /\ ServedInv

LEMMA LifeInitially == ServerInit => LifeInv
  BY DEF ServerInit, PoolInit, LifeInv, ConnTypeOK, QuietInv, ServedInv, Running

(* A step that touches neither the pool nor the connections, and does not  *)
(* come to an end of listen.                                               *)
LEMMA UntouchedLife ==
  ASSUME LifeInv, UNCHANGED poolVars, conn' = conn,
         main' \in {"start", "returned", "deleted"} => main \in {"start", "returned", "deleted"}
  PROVE  LifeInv'
  BY DEF LifeInv, ConnTypeOK, QuietInv, ServedInv, Queued, Served, Running, poolVars

(* What the workers do by themselves.                                      *)
LEMMA WorkerLife ==
  ASSUME PoolTypeOK, LifeInv, NEW w \in Workers,
         WorkerStep(w) \/ WakeSpuriously(w), conn' = conn, main' = main
  PROVE  LifeInv'
<1> USE DEF LifeInv, ConnTypeOK, QuietInv, ServedInv
<1>1. CASE TakeJob(w)
  <2>1. QuietInv'
    BY <1>1 DEF TakeJob
  <2>2. ASSUME NEW c \in Conns, conn[c] = "accepted" PROVE Queued(c)' \/ Served(c)'
    <3>1. CASE Served(c)
      BY <1>1, <3>1 DEF TakeJob, Served, PoolTypeOK
    <3>2. ASSUME NEW i \in DOMAIN jobs, jobs[i] = c PROVE Queued(c)' \/ Served(c)'
      <4>1. CASE i = 1
        BY <1>1, <3>2, <4>1 DEF TakeJob, Served, PoolTypeOK
      <4>2. CASE i # 1
        <5>1. /\ jobs \in Seq(Tasks) /\ jobs # <<>> /\ jobs' = Tail(jobs)
          BY <1>1 DEF TakeJob, PoolTypeOK
        <5>2. i - 1 \in DOMAIN jobs' /\ jobs'[i - 1] = jobs[i]
          BY <3>2, <4>2, <5>1
        <5>3. QED
          BY <3>2, <5>2 DEF Queued
      <4>3. QED
        BY <4>1, <4>2
    <3>3. QED
      BY <2>2, <3>1, <3>2 DEF Queued
  <2>3. QED
    BY <2>1, <2>2
<1>2. CASE Block(w) \/ Exit(w) \/ WakeSpuriously(w)
  <2>1. jobs' = jobs /\ fn' = fn
    BY <1>2 DEF Block, Exit, WakeSpuriously
  <2>2. \A v \in Workers : worker'[v] = "running" <=> worker[v] = "running"
    BY <1>2 DEF Block, Exit, WakeSpuriously, PoolTypeOK
  <2>3. QED
    BY <2>1, <2>2 DEF Queued, Served, Running
<1>3. QED
  BY <1>1, <1>2 DEF WorkerStep

(* The listening thread's calls of the pool.                               *)
LEMMA CallerLife ==
  ASSUME PoolTypeOK, LifeInv, Shutdown \/ CallerStep, conn' = conn, main' = main
  PROVE  LifeInv'
<1>1. jobs' = jobs /\ fn' = fn
  BY DEF Shutdown, CallerStep, NotifyOne, NotifyAll, Join
<1>2. \A v \in Workers : worker'[v] = "running" <=> worker[v] = "running"
  <2>1. CASE Shutdown
    BY <2>1 DEF Shutdown
  <2>2. CASE NotifyOne
    BY <2>2 DEF NotifyOne, PoolTypeOK
  <2>3. CASE NotifyAll
    BY <2>3 DEF NotifyAll, PoolTypeOK
  <2>4. CASE Join
    BY <2>4 DEF Join
  <2>5. QED
    BY <2>1, <2>2, <2>3, <2>4 DEF CallerStep
<1>3. QED
  BY <1>1, <1>2 DEF LifeInv, ConnTypeOK, QuietInv, ServedInv, Queued, Served, Running

LEMMA AcceptLife ==
  ASSUME PoolTypeOK, LifeInv, NEW a \in Conns, Accept(a)
  PROVE  LifeInv'
<1> USE DEF LifeInv, ConnTypeOK
<1>1. QuietInv'
  BY DEF Accept, QuietInv
<1>2. CASE Enqueue(a) /\ conn' = [conn EXCEPT ![a] = "accepted"]
  <2>1. jobs \in Seq(Tasks) /\ jobs' = Append(jobs, a) /\ UNCHANGED <<worker, fn>>
    BY <1>2 DEF Enqueue, PoolTypeOK
  <2>2. Queued(a)'
    <3>1. Len(jobs) + 1 \in DOMAIN jobs' /\ jobs'[Len(jobs) + 1] = a
      BY <2>1, AppendProperties DEF Conns
    <3>2. QED
      BY <3>1 DEF Queued
  <2>3. ASSUME NEW c \in Conns, Queued(c) PROVE Queued(c)'
    <3>1. PICK i \in DOMAIN jobs : jobs[i] = c
      BY <2>3 DEF Queued
    <3>2. i \in DOMAIN jobs' /\ jobs'[i] = c
      BY <2>1, <3>1, AppendProperties DEF Conns
    <3>3. QED
      BY <3>2 DEF Queued
  <2>4. ASSUME NEW c \in Conns, Served(c) PROVE Served(c)'
    BY <2>1, <2>4 DEF Served
  <2>5. ServedInv'
    BY <1>2, <2>2, <2>3, <2>4 DEF ServedInv
  <2>6. QED
    BY <1>1, <1>2, <2>5
<1>3. CASE conn' = [conn EXCEPT ![a] = "closed"] /\ UNCHANGED poolVars
  <2>1. ServedInv'
    BY <1>3 DEF ServedInv, Queued, Served, poolVars
  <2>2. QED
    BY <1>1, <1>3, <2>1
<1>4. QED
  BY <1>2, <1>3 DEF Accept

LEMMA CloseLife ==
  ASSUME PoolTypeOK, LifeInv, NEW w \in Workers, NEW a \in Conns, CloseSocket(w, a)
  PROVE  LifeInv'
<1> USE DEF LifeInv, ConnTypeOK
<1>1. /\ worker[w] = "running" /\ fn[w] = a /\ main' = main /\ jobs' = jobs
      /\ conn' = [conn EXCEPT ![a] = "closed"]
      /\ worker' = [worker EXCEPT ![w] = "test"] /\ fn' = [fn EXCEPT ![w] = NoTask]
  BY DEF CloseSocket, JobDone, listenVars
<1>2. QuietInv'
  BY <1>1 DEF QuietInv, Running
<1>3. ASSUME NEW c \in Conns, conn'[c] = "accepted" PROVE Queued(c)' \/ Served(c)'
  <2>1. c # a /\ conn[c] = "accepted"
    BY <1>1, <1>3
  <2>2. CASE Queued(c)
    BY <1>1, <2>2 DEF Queued
  <2>3. ASSUME NEW v \in Workers, worker[v] = "running", fn[v] = c PROVE Served(c)'
    <3>1. v # w
      BY <1>1, <2>1, <2>3
    <3>2. worker'[v] = "running" /\ fn'[v] = c
      BY <1>1, <2>3, <3>1 DEF PoolTypeOK
    <3>3. QED
      BY <3>2 DEF Served
  <2>4. QED
    BY <2>1, <2>2, <2>3 DEF ServedInv, Served
<1>4. QED
  BY <1>1, <1>2, <1>3 DEF ServedInv

LEMMA JobLife ==
  ASSUME PoolTypeOK, LifeInv, NEW w \in Workers, NEW c \in Conns, JobStep(w, c)
  PROVE  LifeInv'
<1>1. CASE FirstPoll(w, c)
  BY <1>1, UntouchedLife DEF FirstPoll, Works, listenVars, clientVars
<1>2. CASE Poll(w, c)
  BY <1>2, UntouchedLife DEF Poll, Works, listenVars, clientVars
<1>3. CASE ReadRequest(w, c)
  BY <1>3, UntouchedLife DEF ReadRequest, Works, listenVars
<1>4. CASE Handle(w, c)
  BY <1>4, UntouchedLife DEF Handle, Works, listenVars, clientVars
<1>5. CASE WriteAnswer(w, c)
  BY <1>5, UntouchedLife DEF WriteAnswer, Works, listenVars
<1>6. CASE CloseSocket(w, c)
  BY <1>6, CloseLife
<1>7. CASE ReadOn(w, c)
  BY <1>7, UntouchedLife DEF ReadOn, Works, listenVars
<1>8. QED
  BY <1>1, <1>2, <1>3, <1>4, <1>5, <1>6, <1>7 DEF JobStep

LEMMA LifeStep ==
  ASSUME PoolTypeOK, ShutdownInv, LifeInv, [ServerNext]_serverVars
  PROVE  LifeInv'
<1>1. CASE Bind
  BY <1>1, UntouchedLife DEF Bind, clientVars
<1>2. CASE TestSocket
  BY <1>2, UntouchedLife DEF TestSocket, clientVars
<1>3. CASE Drain
  BY <1>3, CallerLife DEF Drain, clientVars, listenVars
<1>4. CASE PoolCallerStep
  BY <1>4, CallerLife DEF PoolCallerStep, clientVars, listenVars
<1>5. CASE ListenReturns
  <2>1. JoinedMeansDrained
    BY ThreadPoolAssumption DEF ShutdownInv, JoinedMeansDrained
  <2>2. jobs' = <<>> /\ Running' = {}
    BY <1>5, <2>1 DEF ListenReturns, JoinedMeansDrained, Running, poolVars
  <2>3. QED
    BY <1>5, <2>2 DEF ListenReturns, LifeInv, ConnTypeOK, QuietInv, ServedInv, Queued,
                      Served, poolVars, clientVars
<1>6. CASE Cleanup
  BY <1>6, UntouchedLife DEF Cleanup, clientVars
<1>7. CASE AcceptFails
  BY <1>7, UntouchedLife DEF AcceptFails, clientVars
<1>8. CASE Stop
  BY <1>8, UntouchedLife DEF Stop, clientVars
<1>9. CASE StopCloses
  BY <1>9, UntouchedLife DEF StopCloses, clientVars
<1>10. ASSUME NEW w \in Workers, PoolWorkerStep(w) \/ WorkerWakes(w) PROVE LifeInv'
  BY <1>10, WorkerLife DEF PoolWorkerStep, WorkerWakes, clientVars, listenVars
<1>11. ASSUME NEW w \in Workers, NEW c \in Conns, JobStep(w, c) PROVE LifeInv'
  BY <1>11, JobLife
<1>12. ASSUME NEW c \in Conns, Accept(c) PROVE LifeInv'
  BY <1>12, AcceptLife
<1>13. ASSUME NEW c \in Conns, Connect(c) PROVE LifeInv'
  BY <1>13 DEF Connect, LifeInv, ConnTypeOK, QuietInv, ServedInv, Queued, Served,
               Running, poolVars, listenVars
<1>14. ASSUME NEW c \in Conns, Transmit(c) \/ Drip(c) \/ Leave(c) PROVE LifeInv'
  BY <1>14, UntouchedLife DEF Transmit, Drip, Leave, listenVars
<1>15. ASSUME NEW c \in Conns, NEW r \in Requests[c], Send(c, r) PROVE LifeInv'
  BY <1>15, UntouchedLife DEF Send, listenVars
<1>16. CASE UNCHANGED serverVars
  BY <1>16, UntouchedLife DEF serverVars, listenVars, clientVars
<1>17. QED
  BY <1>1, <1>2, <1>3, <1>4, <1>5, <1>6, <1>7, <1>8, <1>9, <1>10, <1>11,
     <1>12, <1>13, <1>14, <1>15, <1>16 DEF ServerNext, ListenerStep

LEMMA LifeInvariant == ServerSpec => []LifeInv
<1>1. ServerInit => LifeInv
  BY LifeInitially
<1>2. (PoolTypeOK /\ ShutdownInv) /\ LifeInv /\ [ServerNext]_serverVars => LifeInv'
  BY LifeStep
<1>3. QED
  BY <1>1, <1>2, ServerPool, PTL DEF ServerSpec

(* No handler runs once main has deleted the cache and the database pool,  *)
(* whatever clients do and whichever way listen came to its end.           *)
THEOREM ServerHandlersUseLiveState == ServerSpec => []HandlersUseLiveState
<1>1. LifeInv => HandlersUseLiveState
  BY DEF LifeInv, QuietInv, Running, HandlersUseLiveState
<1>2. QED
  BY LifeInvariant, <1>1, PTL

(* When listen returns, every connection it accepted has been closed.      *)
THEOREM ServerClosesConnections == ServerSpec => []ReturnClosesConnections
<1>1. LifeInv => ReturnClosesConnections
  BY DEF LifeInv, QuietInv, ServedInv, Queued, Served, Running, ReturnClosesConnections
<1>2. QED
  BY LifeInvariant, <1>1, PTL
-----------------------------------------------------------------------------
(* What the connections' variables hold.  What process_request finds on a  *)
(* connection has the shape of an outcome whatever bytes are there.        *)

IsSeq(s) == Len(s) \in Nat /\ s = [i \in 1 .. Len(s) |-> s[i]]

OutcomeLike(x) ==
  x = [status |-> x.status, runs |-> x.runs, rest |-> x.rest, closed |-> x.closed,
       announce |-> x.announce, id |-> x.id]

ServerTypes ==
  /\ at \in [Conns -> {"poll0", "poll", "read", "handler", "write", "close"}]
  /\ left \in [Conns -> Int]
  /\ current = [c \in Conns |-> current[c]] /\ \A c \in Conns : OutcomeLike(current[c])
  /\ peer \in [Conns -> {"up", "gone"}]
  /\ unsent = [c \in Conns |-> unsent[c]] /\ \A c \in Conns : IsSeq(unsent[c])
  /\ inbox = [c \in Conns |-> inbox[c]] /\ \A c \in Conns : IsSeq(inbox[c])
  /\ sent \in [Conns -> Seq(Request)]
  /\ outbox = [c \in Conns |-> outbox[c]] /\ \A c \in Conns : IsSeq(outbox[c])
  /\ orderly \in [Conns -> BOOLEAN]

LEMMA SeqIs ==
  ASSUME NEW S, NEW s \in Seq(S)
  PROVE  IsSeq(s) /\ DOMAIN s = 1 .. Len(s)
  BY DEF IsSeq

LEMMA EmptyIs == IsSeq(<<>>) /\ Len(<<>>) = 0
  BY DEF IsSeq

(* What it is a sequence of does not matter.                               *)
LEMMA IsSeqOf ==
  ASSUME NEW s, IsSeq(s)
  PROVE  \E S : s \in Seq(S) /\ DOMAIN s = 1 .. Len(s) /\ Len(s) \in Nat
<1> DEFINE S == {s[i] : i \in 1 .. Len(s)}
<1>1. s \in Seq(S) /\ DOMAIN s = 1 .. Len(s) /\ Len(s) \in Nat
  BY DEF IsSeq
<1> HIDE DEF S
<1>2. QED
  BY <1>1

LEMMA SameSequence ==
  ASSUME NEW s, IsSeq(s), NEW t, IsSeq(t), Len(s) = Len(t),
         \A i \in 1 .. Len(s) : s[i] = t[i]
  PROVE  s = t
  BY DEF IsSeq

LEMMA AppendTo ==
  ASSUME NEW s, IsSeq(s), NEW e
  PROVE  /\ IsSeq(Append(s, e)) /\ Len(Append(s, e)) = Len(s) + 1
         /\ DOMAIN s = 1 .. Len(s) /\ DOMAIN Append(s, e) = 1 .. Len(s) + 1
         /\ Append(s, e)[Len(s) + 1] = e
         /\ \A i \in 1 .. Len(s) : Append(s, e)[i] = s[i]
<1> DEFINE S == {s[i] : i \in 1 .. Len(s)} \cup {e}
<1>1. s \in Seq(S) /\ e \in S
  BY DEF IsSeq
<1> HIDE DEF S
<1>2. /\ Append(s, e) \in Seq(S) /\ Len(Append(s, e)) = Len(s) + 1
      /\ \A i \in 1 .. Len(s) : Append(s, e)[i] = s[i]
      /\ Append(s, e)[Len(s) + 1] = e
  BY <1>1, AppendProperties
<1>3. IsSeq(Append(s, e)) /\ DOMAIN Append(s, e) = 1 .. Len(Append(s, e))
  BY <1>2, SeqIs
<1>4. QED
  BY <1>1, <1>2, <1>3

(* The first k elements of a sequence, and the others.                     *)
LEMMA CutAt ==
  ASSUME NEW s, IsSeq(s), NEW k \in 0 .. Len(s)
  PROVE  /\ IsSeq(SubSeq(s, 1, k)) /\ Len(SubSeq(s, 1, k)) = k
         /\ \A i \in 1 .. k : SubSeq(s, 1, k)[i] = s[i]
         /\ IsSeq(From(s, k + 1)) /\ Len(From(s, k + 1)) = Len(s) - k
         /\ \A i \in 1 .. Len(s) - k : From(s, k + 1)[i] = s[k + i]
<1>1. PICK S : s \in Seq(S) /\ DOMAIN s = 1 .. Len(s) /\ Len(s) \in Nat
  BY IsSeqOf
<1>2. k \in Nat /\ k <= Len(s)
  BY <1>1
<1>3. \A i \in 1 .. Len(s) : s[i] \in S
  BY <1>1, ElementOfSeq
<1>4. /\ SubSeq(s, 1, k) \in Seq(S) /\ Len(SubSeq(s, 1, k)) = k
      /\ \A i \in 1 .. k : SubSeq(s, 1, k)[i] = s[i]
  <2>1. \A i \in 1 .. k : s[i] \in S
    BY <1>1, <1>2, <1>3
  <2>2. /\ SubSeq(s, 1, k) \in Seq(S)
        /\ Len(SubSeq(s, 1, k)) = IF 1 <= k THEN k - 1 + 1 ELSE 0
        /\ \A i \in 1 .. k - 1 + 1 : SubSeq(s, 1, k)[i] = s[1 + i - 1]
    BY <1>2, <2>1, SubSeqProperties
  <2> DEFINE t == SubSeq(s, 1, k)
  <2> HIDE DEF t
  <2>3. QED
    BY <1>2, <2>2 DEF t
<1>5. /\ From(s, k + 1) \in Seq(S) /\ Len(From(s, k + 1)) = Len(s) - k
      /\ \A i \in 1 .. Len(s) - k : From(s, k + 1)[i] = s[k + i]
  <2>1. \A i \in k + 1 .. Len(s) : s[i] \in S
    BY <1>1, <1>2, <1>3
  <2>2. /\ From(s, k + 1) \in Seq(S)
        /\ Len(From(s, k + 1)) = IF k + 1 <= Len(s) THEN Len(s) - (k + 1) + 1 ELSE 0
        /\ \A i \in 1 .. Len(s) - (k + 1) + 1 : From(s, k + 1)[i] = s[k + 1 + i - 1]
    BY <1>1, <1>2, <2>1, SubSeqProperties DEF From
  <2> DEFINE t == From(s, k + 1)
  <2>3. PICK n \in Nat : n = Len(s)
    BY <1>1
  <2> HIDE DEF t
  <2>4. t \in Seq(S) /\ Len(t) = n - k
    <3>1. t \in Seq(S) /\ Len(t) = IF k + 1 <= n THEN n - (k + 1) + 1 ELSE 0
      BY <2>2, <2>3 DEF t
    <3>2. k \in Nat /\ k <= n
      BY <1>2, <2>3
    <3>3. (IF k + 1 <= n THEN n - (k + 1) + 1 ELSE 0) = n - k
      BY <3>2
    <3>4. QED
      BY <3>1, <3>3
  <2>5. ASSUME NEW i \in 1 .. n - k PROVE t[i] = s[k + i]
    <3>1. i \in 1 .. n - (k + 1) + 1 /\ k + 1 + i - 1 = k + i
      BY <1>2, <2>3
    <3>2. t[i] = s[k + 1 + i - 1]
      BY <2>2, <2>3, <3>1 DEF t
    <3>3. QED
      BY <3>1, <3>2
  <2>6. QED
    BY <2>3, <2>4, <2>5 DEF t
<1>6. QED
  BY <1>4, <1>5, SeqIs

Joins(j, s, t) ==
  /\ IsSeq(j) /\ Len(j) = Len(s) + Len(t)
  /\ \A i \in 1 .. Len(s) : j[i] = s[i]
  /\ \A i \in 1 .. Len(t) : j[Len(s) + i] = t[i]

LEMMA Joined ==
  ASSUME NEW s, IsSeq(s), NEW t, IsSeq(t)
  PROVE  Joins(s \o t, s, t)
<1> DEFINE S == {s[i] : i \in 1 .. Len(s)} \cup {t[i] : i \in 1 .. Len(t)}
<1>1. s \in Seq(S) /\ t \in Seq(S) /\ Len(s) \in Nat /\ Len(t) \in Nat
  BY DEF IsSeq
<1> HIDE DEF S
<1>2. /\ s \o t \in Seq(S) /\ Len(s \o t) = Len(s) + Len(t)
      /\ \A i \in 1 .. Len(s) + Len(t) :
           (s \o t)[i] = IF i <= Len(s) THEN s[i] ELSE t[i - Len(s)]
  BY <1>1, ConcatProperties
<1>3. IsSeq(s \o t)
  BY <1>2, SeqIs
<1> DEFINE j == s \o t
<1> HIDE DEF j
<1>4. ASSUME NEW i \in 1 .. Len(s) PROVE j[i] = s[i]
  BY <1>1, <1>2 DEF j
<1>5. ASSUME NEW i \in 1 .. Len(t) PROVE j[Len(s) + i] = t[i]
  BY <1>1, <1>2 DEF j
<1>6. QED
  BY <1>2, <1>3, <1>4, <1>5 DEF j, Joins

(* A request on the wire is one line and other units, in that order.       *)
Units == {Byte(x) : x \in Nat} \cup {SizeLine(n) : n \in Nat} \cup {Crlf, Head_}

LEMMA UnitIsNoLine == \A u \in Units : u[1] # "line"
  BY DEF Units, Byte, SizeLine, Crlf, Head_

LEMMA WriteDataOf ==
  ASSUME NEW body \in Seq(Nat)
  PROVE  /\ WriteData(body) \in Seq({Byte(x) : x \in Nat})
         /\ Len(WriteData(body)) = Len(body)
<1>1. Len(body) \in Nat /\ DOMAIN body = 1 .. Len(body) /\ \A i \in 1 .. Len(body) : body[i] \in Nat
  OBVIOUS
<1> DEFINE S == {Byte(x) : x \in Nat}
           n == Len(body)
           w == WriteData(body)
<1>2. \A i \in 1 .. n : Byte(body[i]) \in S
  BY <1>1
<1>3. w = [i \in 1 .. n |-> Byte(body[i])] /\ n \in Nat
  BY <1>1 DEF WriteData
<1> HIDE DEF S, w, n
<1>4. w \in [1 .. n -> S]
  BY <1>2, <1>3
<1>5. w \in Seq(S)
  BY <1>3, <1>4, SeqDef
<1>6. Len(w) = n
  BY <1>3, <1>4, <1>5, LenProperties
<1>7. QED
  BY <1>5, <1>6 DEF S, w, n

LEMMA BodyUnits ==
  ASSUME NEW body \in Seq(Nat)
  PROVE  WriteData(body) \in Seq(Units) /\ Chunk(body) \o LastChunk(<<>>) \in Seq(Units)
<1>1. WriteData(body) \in Seq(Units)
  BY WriteDataOf, SeqMonotonic DEF Units
<1>2. <<Crlf>> \in Seq(Units) /\ \A n \in Nat : <<SizeLine(n)>> \in Seq(Units)
  BY DEF Units
<1>3. ASSUME NEW s \in Seq(Units), NEW t \in Seq(Units) PROVE s \o t \in Seq(Units)
  BY <1>3, ConcatProperties
<1>4. Chunk(body) \in Seq(Units)
  <2>1. Len(body) \in Nat
    OBVIOUS
  <2> DEFINE size == <<SizeLine(Len(body))>>
             data == WriteData(body)
             end == <<Crlf>>
  <2>2. size \in Seq(Units) /\ data \in Seq(Units) /\ end \in Seq(Units)
    BY <1>1, <1>2, <2>1
  <2>3. Chunk(body) = <<>> \/ Chunk(body) = size \o data \o end
    BY DEF Chunk
  <2> HIDE DEF size, data, end
  <2>4. QED
    BY <1>3, <2>2, <2>3, EmptySeq
<1>5. LastChunk(<<>>) \in Seq(Units)
  <2> DEFINE size == <<SizeLine(0)>>
             fields == [i \in DOMAIN <<>> |-> Field(<<>>[i])]
             end == <<Crlf>>
  <2>1. fields \in Seq(Units)
    <3>1. DOMAIN <<>> = 1 .. 0
      OBVIOUS
    <3>2. fields \in [1 .. 0 -> Units]
      BY <3>1
    <3>3. QED
      BY <3>2, SeqDef
  <2>2. size \in Seq(Units) /\ end \in Seq(Units)
    BY <1>2
  <2>3. LastChunk(<<>>) = size \o fields \o end
    BY DEF LastChunk
  <2> HIDE DEF size, fields, end
  <2>4. QED
    BY <1>3, <2>1, <2>2, <2>3
<1> DEFINE chunk == Chunk(body)
           last == LastChunk(<<>>)
<1>6. chunk \in Seq(Units) /\ last \in Seq(Units)
  BY <1>4, <1>5
<1> HIDE DEF chunk, last
<1>7. QED
  BY <1>1, <1>3, <1>6 DEF chunk, last

LEMMA MessageIs ==
  ASSUME NEW r \in Request
  PROVE  LET m == Message(r) IN
         /\ IsSeq(m) /\ Len(m) >= 2 /\ m[1] = Line(r)
         /\ \A i \in 2 .. Len(m) : m[i][1] # "line"
<1> DEFINE m == Message(r)
           two == <<Line(r), Head_>>
           rest == IF r.framing = Chunked THEN Chunk(r.body) \o LastChunk(<<>>)
                   ELSE WriteData(r.body)
<1>1. rest \in Seq(Units)
  <2>1. r.body \in Seq(Nat)
    BY DEF Request
  <2>2. QED
    BY <2>1, BodyUnits
<1>2. IsSeq(two) /\ Len(two) = 2 /\ two[1] = Line(r) /\ two[2] = Head_
  BY DEF IsSeq
<1>3. m = two \o rest
  BY DEF Message
<1> HIDE DEF m, two, rest
<1>4. IsSeq(rest) /\ \A i \in 1 .. Len(rest) : rest[i] \in Units
  BY <1>1, SeqIs, ElementOfSeq
<1>5. Head_[1] # "line"
  BY DEF Head_
<1>6. /\ IsSeq(m) /\ Len(m) = 2 + Len(rest) /\ m[1] = Line(r) /\ m[2] = Head_
      /\ \A i \in 1 .. Len(rest) : m[2 + i] = rest[i]
  <2>1. Joins(two \o rest, two, rest)
    BY <1>2, <1>4, Joined
  <2>2. Joins(m, two, rest)
    BY <1>3, <2>1
  <2>3. QED
    BY <1>2, <2>2 DEF Joins
<1>7. ASSUME NEW i \in 2 .. Len(m) PROVE m[i][1] # "line"
  <2>1. Len(rest) \in Nat
    BY <1>4 DEF IsSeq
  <2>2. CASE i = 2
    BY <2>2, <1>5, <1>6
  <2>3. CASE i # 2
    <3>1. i - 2 \in 1 .. Len(rest) /\ i = 2 + (i - 2)
      BY <2>1, <2>3, <1>6
    <3>2. m[i] = rest[i - 2]
      BY <3>1, <1>6
    <3>3. QED
      BY <3>1, <3>2, <1>4, UnitIsNoLine
  <2>4. QED
    BY <2>2, <2>3
<1>8. Len(m) >= 2
  BY <1>4, <1>6 DEF IsSeq
<1>9. QED
  BY <1>6, <1>7, <1>8 DEF m

LEMMA OutcomeIs ==
  ASSUME NEW status, NEW runs, NEW rest, NEW closed, NEW r
  PROVE  LET o == Outcome(status, runs, rest, closed, r) IN
         /\ OutcomeLike(o) /\ o.status = status /\ o.runs = runs /\ o.rest = rest
         /\ o.closed = closed /\ o.announce = (r.connection = "close") /\ o.id = r.id
  BY DEF Outcome, OutcomeLike

Early(a) == a.status \in {400, 414}

(* An announced close is kept, but for the two refusals that come before   *)
(* the Connection header is looked at.                                     *)
Kept(o) ==
  /\ OutcomeLike(o)
  /\ o.runs = "none" \/ (o.announce => o.closed)
  /\ o.announce => o.closed \/ Early(o)

LEMMA RoutingKeeps ==
  ASSUME NEW r, NEW wire, NEW ending
  PROVE  Kept(Routing(r, wire, ending))
<1> DEFINE content == IF ExpectContent(r) THEN ReadContent(r, wire, ending)
                      ELSE [status |-> 200, rest |-> wire]
           rest == content.rest
           closed == ConnectionClosed(r)
<1> DEFINE o == Routing(r, wire, ending)
<1>1. \/ o = Outcome(content.status, "none", rest, closed, r)
      \/ o = Outcome(400, "none", rest, closed, r)
      \/ o = Outcome(IF Route(r) = "none" THEN 404 ELSE 200, Route(r), rest, closed, r)
  BY DEF Routing
<1>2. r.connection = "close" => closed
  BY DEF ConnectionClosed
<1> HIDE DEF content, rest, closed, o
<1>3. ASSUME NEW status, NEW runs PROVE Kept(Outcome(status, runs, rest, closed, r))
  BY <1>2, OutcomeIs DEF Kept
<1>4. QED
  BY <1>1, <1>3 DEF o

LEMMA ProcessKeeps ==
  ASSUME NEW wire, NEW ending
  PROVE  Kept(Process(wire, ending))
<1> DEFINE r == Head(wire)[2]
           headless == [Nobody EXCEPT !.id = r.id]
<1>1. Nobody.connection = "none" /\ headless.connection = "none"
  BY DEF Nobody
<1>2. r.connection = "close" => ConnectionClosed(r)
  BY DEF ConnectionClosed
<1>3. ASSUME NEW status, NEW rest, NEW closed
      PROVE  /\ Kept(Outcome(status, "none", rest, closed, Nobody))
             /\ Kept(Outcome(status, "none", rest, closed, headless))
  <2> HIDE DEF headless
  <2>1. QED
    BY <1>1, OutcomeIs DEF Kept
<1>4. ASSUME NEW rest, NEW closed
      PROVE  /\ Kept(Outcome(400, "none", rest, closed, r))
             /\ Kept(Outcome(414, "none", rest, closed, r))
  <2> HIDE DEF r
  <2>1. QED
    BY OutcomeIs DEF Kept, Early
<1>5. ASSUME NEW status, NEW rest
      PROVE  Kept(Outcome(status, "none", rest, ConnectionClosed(r), r))
  <2> DEFINE closed == ConnectionClosed(r)
  <2>1. r.connection = "close" => closed
    BY <1>2
  <2> HIDE DEF r, closed
  <2>2. Kept(Outcome(status, "none", rest, closed, r))
    BY <2>1, OutcomeIs DEF Kept
  <2>3. QED
    BY <2>2 DEF closed
<1>6. Kept(Process(wire, ending))
  <2>1. CASE wire = <<>>
    BY <2>1, <1>3 DEF Process
  <2>2. CASE wire # <<>> /\ ~IsUnit(wire, "line")
    BY ZenonT(60), <2>2, <1>3 DEF Process, Garbage
  <2>3. CASE wire # <<>> /\ IsUnit(wire, "line")
    <3>1. CASE "line" \in r.flaws
      BY ZenonT(60), <2>3, <3>1, <1>3 DEF Process
    <3>2. CASE "line" \notin r.flaws /\ ~IsUnit(Tail(wire), "head")
      BY ZenonT(60), <2>3, <3>2, <1>3 DEF Process
    <3>3. CASE "line" \notin r.flaws /\ IsUnit(Tail(wire), "head")
      <4> DEFINE tail == Tail(wire)
                 rest == From(wire, 3)
                 later == From(rest, LineEnd(rest) + 1)
                 closed == ConnectionClosed(r)
                 open == FALSE
      <4>1. Process(wire, ending) =
              IF "header" \in r.flaws THEN Outcome(400, "none", tail, open, r)
              ELSE IF "target" \in r.flaws THEN Outcome(414, "none", later, open, r)
              ELSE IF "accept" \in r.flaws THEN Outcome(400, "none", rest, closed, r)
              ELSE IF "range" \in r.flaws THEN Outcome(416, "none", rest, closed, r)
              ELSE Routing(r, rest, ending)
        BY <2>3, <3>3 DEF Process
      <4>2. /\ Kept(Outcome(400, "none", rest, closed, r))
            /\ Kept(Outcome(416, "none", rest, closed, r))
        BY <1>5
      <4> HIDE DEF tail, rest, later, closed, open
      <4>3. /\ Kept(Outcome(400, "none", tail, open, r))
            /\ Kept(Outcome(414, "none", later, open, r))
        BY <1>4
      <4>4. Kept(Routing(r, rest, ending))
        BY RoutingKeeps
      <4>5. QED
        BY <4>1, <4>2, <4>3, <4>4
    <3>4. QED
      BY <3>1, <3>2, <3>3
  <2>4. QED
    BY <2>1, <2>2, <2>3
<1>7. QED
  BY <1>6

LEMMA OutcomesKeep ==
  ASSUME NEW wire, NEW ending, NEW o \in Outcomes(wire, ending)
  PROVE  Kept(o)
<1>1. Kept(Process(wire, ending))
  BY ProcessKeeps
<1> DEFINE r == Head(wire)[2]
<1>2. Kept(Outcome(400, "none", <<>>, FALSE, r))
  <2>1. ASSUME NEW rest, NEW closed PROVE Kept(Outcome(400, "none", rest, closed, r))
    <3> HIDE DEF r
    <3>1. QED
      BY OutcomeIs DEF Kept, Early
  <2>2. QED
    BY <2>1
<1>3. o = Process(wire, ending) \/ o = Outcome(400, "none", <<>>, FALSE, r)
  BY DEF Outcomes
<1>4. QED
  BY <1>1, <1>2, <1>3

(* What a server remembers of an outcome.                                  *)
Kin(o, p) ==
  /\ OutcomeLike(o) /\ o.status = p.status /\ o.runs = p.runs /\ o.closed = p.closed
  /\ o.announce = p.announce /\ o.id = p.id

LEMMA RestDropped ==
  ASSUME NEW o, OutcomeLike(o)
  PROVE  Kin([o EXCEPT !.rest = <<>>], o)
<1> DEFINE p == [status |-> o.status, runs |-> o.runs, rest |-> <<>>, closed |-> o.closed,
                 announce |-> o.announce, id |-> o.id]
<1>1. [o EXCEPT !.rest = <<>>] = p
  BY DEF OutcomeLike
<1>2. Kin(p, o)
  BY DEF Kin, OutcomeLike
<1>3. QED
  BY <1>1, <1>2

(* The steps that matter to what is on the connections.                    *)
connVars == <<peer, unsent, inbox, sent, outbox, orderly, jobVars>>

LEMMA ConnectionSteps ==
  ASSUME [ServerNext]_serverVars
  PROVE  \/ UNCHANGED connVars
         \/ \E c \in Conns : Transmit(c)
         \/ \E c \in Conns : Leave(c)
         \/ \E c \in Conns : \E r \in Requests[c] : Send(c, r)
         \/ \E w \in Workers, c \in Conns : JobStep(w, c)
<1> DEFINE Still == UNCHANGED connVars
<1>1. ASSUME ListenerStep PROVE Still
  BY <1>1 DEF ListenerStep, Bind, TestSocket, Drain, PoolCallerStep, ListenReturns, Cleanup,
              clientVars, connVars
<1>2. ASSUME AcceptFails \/ Stop \/ StopCloses PROVE Still
  BY <1>2 DEF AcceptFails, Stop, StopCloses, clientVars, connVars
<1>3. ASSUME NEW w \in Workers, PoolWorkerStep(w) \/ WorkerWakes(w) PROVE Still
  BY <1>3 DEF PoolWorkerStep, WorkerWakes, clientVars, connVars
<1>4. ASSUME NEW c \in Conns, Accept(c) \/ Connect(c) \/ Drip(c) PROVE Still
  BY <1>4 DEF Accept, Connect, Drip, connVars
<1>5. CASE UNCHANGED serverVars
  BY <1>5 DEF serverVars, clientVars, connVars
<1>6. QED
  BY <1>1, <1>2, <1>3, <1>4, <1>5 DEF ServerNext

(* One read of process_request: what it found, and how much of what had    *)
(* come it took.                                                           *)
LEMMA ReadStep ==
  ASSUME ServerTypes, NEW w \in Workers, NEW c \in Conns, ReadRequest(w, c)
  PROVE  \E ending, found, n, kept, next :
           /\ ending \in {"closed", "silent"} /\ found \in Outcomes(inbox[c], ending)
           /\ Kept(found) /\ Kin(kept, found)
           /\ n \in 0 .. Len(inbox[c])
           /\ n + Len(found.rest) >= Len(inbox[c]) /\ (n = 0 => inbox[c] = <<>>)
           /\ inbox' = [inbox EXCEPT ![c] = From(inbox[c], n + 1)]
           /\ current' = [current EXCEPT ![c] = kept]
           /\ at' = [at EXCEPT ![c] = next]
           /\ next \in {"close", "handler", "write"}
           /\ next = "close" <=> found.status = 0
           /\ next = "handler" => found.runs # "none"
<1>1. PICK ending, found :
        /\ ending \in Endings(c) /\ found \in Outcomes(inbox[c], ending)
        /\ Consume(c, found)
        /\ current' = [current EXCEPT ![c] = [found EXCEPT !.rest = <<>>]]
        /\ at' = [at EXCEPT ![c] = IF found.status = 0 THEN "close"
                                   ELSE IF found.runs # "none" THEN "handler"
                                   ELSE "write"]
  BY DEF ReadRequest
<1>2. ending \in {"closed", "silent"}
  BY <1>1 DEF Endings
<1>3. PICK n \in 0 .. Len(inbox[c]) :
        /\ n + Len(found.rest) >= Len(inbox[c]) /\ (n = 0 => inbox[c] = <<>>)
        /\ inbox' = [inbox EXCEPT ![c] = From(inbox[c], n + 1)]
  BY <1>1 DEF Consume
<1> DEFINE kept == [found EXCEPT !.rest = <<>>]
           next == IF found.status = 0 THEN "close"
                   ELSE IF found.runs # "none" THEN "handler" ELSE "write"
<1>4. Kept(found) /\ Kin(kept, found)
  BY <1>1, OutcomesKeep, RestDropped DEF Kept
<1>5. /\ current' = [current EXCEPT ![c] = kept] /\ at' = [at EXCEPT ![c] = next]
  BY <1>1
<1>6. /\ next \in {"close", "handler", "write"}
      /\ next = "close" <=> found.status = 0
      /\ next = "handler" => found.runs # "none"
  OBVIOUS
<1> HIDE DEF kept, next
<1>7. QED
  BY <1>1, <1>2, <1>3, <1>4, <1>5, <1>6

LEMMA TypesInitially == ServerInit => ServerTypes
<1> SUFFICES ASSUME ServerInit PROVE ServerTypes
  OBVIOUS
<1> USE DEF ServerInit
<1>1. OutcomeLike(Nothing)
  BY OutcomeIs DEF Nothing
<1>2. IsSeq(<<>>)
  BY EmptyIs
<1>3. sent \in [Conns -> Seq(Request)]
  BY EmptySeq
<1>4. KeepAliveMax \in Int
  BY ServerAssumption
<1>5. /\ current = [c \in Conns |-> current[c]] /\ \A c \in Conns : OutcomeLike(current[c])
      /\ outbox = [c \in Conns |-> outbox[c]] /\ \A c \in Conns : IsSeq(outbox[c])
  BY <1>1, <1>2
<1>6. /\ inbox = [c \in Conns |-> inbox[c]] /\ \A c \in Conns : IsSeq(inbox[c])
      /\ unsent = [c \in Conns |-> unsent[c]] /\ \A c \in Conns : IsSeq(unsent[c])
  BY <1>2
<1>7. QED
  BY <1>3, <1>4, <1>5, <1>6 DEF ServerTypes

LEMMA SendTypes ==
  ASSUME ServerTypes, NEW c \in Conns, NEW r \in Requests[c], Send(c, r)
  PROVE  ServerTypes'
<1> DEFINE n == Len(sent[c]) + 1
           m == Message([r EXCEPT !.id = n])
<1>1. /\ sent' = [sent EXCEPT ![c] = Append(@, r)] /\ unsent' = [unsent EXCEPT ![c] = m]
      /\ orderly' = [orderly EXCEPT ![c] = @ /\ Len(outbox[c]) = Len(sent[c])]
      /\ UNCHANGED <<peer, inbox, outbox, jobVars>>
  BY DEF Send
<1>2. r \in Request
  BY ServerAssumption DEF Conns
<1>3. sent' \in [Conns -> Seq(Request)]
  BY <1>1, <1>2, AppendProperties DEF ServerTypes
<1>4. IsSeq(m)
  <2>1. n \in Nat
    BY LenProperties DEF ServerTypes
  <2>2. [r EXCEPT !.id = n] \in Request
    BY <1>2, <2>1 DEF Request
  <2>3. QED
    BY <2>2, MessageIs
<1> HIDE DEF m
<1>5. unsent' = [d \in Conns |-> unsent'[d]] /\ \A d \in Conns : IsSeq(unsent'[d])
  BY <1>1, <1>4 DEF ServerTypes
<1>6. orderly' \in [Conns -> BOOLEAN]
  BY <1>1 DEF ServerTypes
<1>7. QED
  BY <1>1, <1>3, <1>5, <1>6 DEF ServerTypes, jobVars

LEMMA TransmitTypes ==
  ASSUME ServerTypes, NEW c \in Conns, Transmit(c)
  PROVE  ServerTypes'
<1>1. PICK k \in 1 .. Len(unsent[c]) :
        /\ inbox' = [inbox EXCEPT ![c] = @ \o SubSeq(unsent[c], 1, k)]
        /\ unsent' = [unsent EXCEPT ![c] = From(@, k + 1)]
  BY DEF Transmit
<1>2. IsSeq(unsent[c]) /\ IsSeq(inbox[c])
  BY DEF ServerTypes
<1>3. k \in 0 .. Len(unsent[c])
  BY <1>2 DEF IsSeq
<1> DEFINE taken == SubSeq(unsent[c], 1, k)
           more == inbox[c] \o taken
           rest == From(unsent[c], k + 1)
<1>4. IsSeq(taken) /\ IsSeq(rest)
  BY <1>2, <1>3, CutAt
<1> HIDE DEF taken
<1>5. IsSeq(more)
  BY <1>2, <1>4, Joined DEF Joins
<1>6. inbox' = [inbox EXCEPT ![c] = more] /\ unsent' = [unsent EXCEPT ![c] = rest]
  BY <1>1 DEF taken
<1> HIDE DEF more, rest
<1>7. /\ inbox' = [d \in Conns |-> inbox'[d]] /\ \A d \in Conns : IsSeq(inbox'[d])
      /\ unsent' = [d \in Conns |-> unsent'[d]] /\ \A d \in Conns : IsSeq(unsent'[d])
  BY <1>4, <1>5, <1>6 DEF ServerTypes, rest
<1>8. UNCHANGED <<peer, sent, outbox, orderly, jobVars>>
  BY DEF Transmit
<1>9. QED
  BY <1>7, <1>8 DEF ServerTypes, jobVars

LEMMA ReadTypes ==
  ASSUME ServerTypes, NEW w \in Workers, NEW c \in Conns, ReadRequest(w, c)
  PROVE  ServerTypes'
<1>1. PICK ending, found, n, kept, next :
        /\ ending \in {"closed", "silent"} /\ found \in Outcomes(inbox[c], ending)
        /\ n \in 0 .. Len(inbox[c])
        /\ Kin(kept, found)
        /\ inbox' = [inbox EXCEPT ![c] = From(inbox[c], n + 1)]
        /\ current' = [current EXCEPT ![c] = kept]
        /\ at' = [at EXCEPT ![c] = next] /\ next \in {"close", "handler", "write"}
  BY ReadStep
<1>2. /\ orderly' = [orderly EXCEPT ![c] = @ /\ (StillReading(inbox[c]) => unsent[c] = <<>>)]
      /\ UNCHANGED <<peer, unsent, sent, outbox, left>>
  BY DEF ReadRequest
<1>3. at' \in [Conns -> {"poll0", "poll", "read", "handler", "write", "close"}]
  BY <1>1 DEF ServerTypes
<1>4. current' = [d \in Conns |-> current'[d]] /\ \A d \in Conns : OutcomeLike(current'[d])
  BY <1>1 DEF ServerTypes, Kin
<1>5. inbox' = [d \in Conns |-> inbox'[d]] /\ \A d \in Conns : IsSeq(inbox'[d])
  <2> DEFINE rest == From(inbox[c], n + 1)
  <2>1. IsSeq(rest)
    BY <1>1, CutAt DEF ServerTypes
  <2> HIDE DEF rest
  <2>2. inbox' = [inbox EXCEPT ![c] = rest]
    BY <1>1 DEF rest
  <2>3. QED
    BY <2>1, <2>2 DEF ServerTypes
<1>6. orderly' \in [Conns -> BOOLEAN]
  <2> DEFINE b == orderly[c] /\ (StillReading(inbox[c]) => unsent[c] = <<>>)
  <2>1. b \in BOOLEAN
    OBVIOUS
  <2>2. orderly' = [orderly EXCEPT ![c] = b]
    BY <1>2
  <2> HIDE DEF b
  <2>3. QED
    BY <2>1, <2>2 DEF ServerTypes
<1>7. QED
  BY <1>2, <1>3, <1>4, <1>5, <1>6 DEF ServerTypes

LEMMA WriteTypes ==
  ASSUME ServerTypes, NEW w \in Workers, NEW c \in Conns, WriteAnswer(w, c)
  PROVE  ServerTypes'
<1> DEFINE answer == [id |-> current[c].id, status |-> current[c].status, close |-> Announced(c)]
           new == IF peer[c] = "gone" THEN outbox[c] ELSE Append(outbox[c], answer)
<1>1. /\ outbox' = [outbox EXCEPT ![c] = new]
      /\ \E ok \in BOOLEAN : at' = [at EXCEPT ![c] = IF ok /\ Loops(c) THEN "poll0" ELSE "close"]
      /\ left' = [left EXCEPT ![c] = left[c] - 1]
      /\ current' = [current EXCEPT ![c] = Nothing]
      /\ UNCHANGED <<peer, unsent, inbox, sent, orderly>>
  BY DEF WriteAnswer
<1>2. IsSeq(new)
  BY AppendTo DEF ServerTypes
<1>3. OutcomeLike(Nothing)
  BY OutcomeIs DEF Nothing
<1> HIDE DEF new
<1>4. outbox' = [d \in Conns |-> outbox'[d]] /\ \A d \in Conns : IsSeq(outbox'[d])
  BY <1>1, <1>2 DEF ServerTypes
<1>5. current' = [d \in Conns |-> current'[d]] /\ \A d \in Conns : OutcomeLike(current'[d])
  BY <1>1, <1>3 DEF ServerTypes
<1>6. /\ at' \in [Conns -> {"poll0", "poll", "read", "handler", "write", "close"}]
      /\ left' \in [Conns -> Int]
  BY <1>1 DEF ServerTypes
<1>7. QED
  BY <1>1, <1>4, <1>5, <1>6 DEF ServerTypes

LEMMA CloseTypes ==
  ASSUME ServerTypes, NEW w \in Workers, NEW c \in Conns, CloseSocket(w, c)
  PROVE  ServerTypes'
<1>1. /\ inbox' = [inbox EXCEPT ![c] = <<>>] /\ unsent' = [unsent EXCEPT ![c] = <<>>]
      /\ left' = [left EXCEPT ![c] = KeepAliveMax]
      /\ current' = [current EXCEPT ![c] = Nothing]
      /\ UNCHANGED <<peer, sent, outbox, orderly, at>>
  BY DEF CloseSocket
<1>2. OutcomeLike(Nothing) /\ IsSeq(<<>>)
  BY OutcomeIs, EmptyIs DEF Nothing
<1>3. current' = [d \in Conns |-> current'[d]] /\ \A d \in Conns : OutcomeLike(current'[d])
  BY <1>1, <1>2 DEF ServerTypes
<1>4. /\ inbox' = [d \in Conns |-> inbox'[d]] /\ \A d \in Conns : IsSeq(inbox'[d])
      /\ unsent' = [d \in Conns |-> unsent'[d]] /\ \A d \in Conns : IsSeq(unsent'[d])
  BY <1>1, <1>2 DEF ServerTypes
<1>5. left' \in [Conns -> Int]
  BY <1>1, ServerAssumption DEF ServerTypes
<1>6. QED
  BY <1>1, <1>3, <1>4, <1>5 DEF ServerTypes

(* The other steps of a job only move it on.                               *)
LEMMA MoveOn ==
  ASSUME NEW w \in Workers, NEW c \in Conns,
         FirstPoll(w, c) \/ Poll(w, c) \/ ReadOn(w, c) \/ Handle(w, c)
  PROVE  /\ UNCHANGED <<peer, unsent, inbox, sent, outbox, orderly, left, current>>
         /\ \/ /\ at[c] \in {"poll0", "poll", "read"}
               /\ \E next \in {"read", "poll", "close"} : at' = [at EXCEPT ![c] = next]
            \/ at[c] = "handler" /\ at' = [at EXCEPT ![c] = "write"]
            \/ at' = at
<1>1. CASE FirstPoll(w, c)
  BY <1>1 DEF FirstPoll, Works, clientVars
<1>2. CASE Poll(w, c)
  BY <1>2 DEF Poll, Works, clientVars
<1>3. CASE ReadOn(w, c)
  BY <1>3 DEF ReadOn, Works, jobVars
<1>4. CASE Handle(w, c)
  BY <1>4 DEF Handle, Works, clientVars
<1>5. QED
  BY <1>1, <1>2, <1>3, <1>4

LEMMA LeaveTypes ==
  ASSUME ServerTypes, NEW c \in Conns, Leave(c)
  PROVE  ServerTypes'
<1>1. /\ peer' = [peer EXCEPT ![c] = "gone"] /\ unsent' = [unsent EXCEPT ![c] = <<>>]
      /\ UNCHANGED <<inbox, sent, outbox, orderly, at, left, current>>
  BY DEF Leave, jobVars
<1>2. unsent' = [d \in Conns |-> unsent'[d]] /\ \A d \in Conns : IsSeq(unsent'[d])
  BY <1>1, EmptyIs DEF ServerTypes
<1>3. peer' \in [Conns -> {"up", "gone"}]
  BY <1>1 DEF ServerTypes
<1>4. QED
  BY <1>1, <1>2, <1>3 DEF ServerTypes

LEMMA TypesStep ==
  ASSUME ServerTypes, [ServerNext]_serverVars
  PROVE  ServerTypes'
<1>1. CASE UNCHANGED connVars
  BY <1>1 DEF ServerTypes, connVars, jobVars
<1>2. ASSUME NEW w \in Workers, NEW c \in Conns,
             FirstPoll(w, c) \/ Poll(w, c) \/ ReadOn(w, c) \/ Handle(w, c)
      PROVE  ServerTypes'
  <2>1. at' \in [Conns -> {"poll0", "poll", "read", "handler", "write", "close"}]
    BY <1>2, MoveOn DEF ServerTypes
  <2>2. UNCHANGED <<peer, unsent, inbox, sent, outbox, orderly, left, current>>
    BY <1>2, MoveOn
  <2>3. QED
    BY <2>1, <2>2 DEF ServerTypes
<1>3. ASSUME NEW w \in Workers, NEW c \in Conns, JobStep(w, c) PROVE ServerTypes'
  BY <1>2, <1>3, ReadTypes, WriteTypes, CloseTypes DEF JobStep
<1>4. QED
  BY <1>1, <1>3, LeaveTypes, SendTypes, TransmitTypes, ConnectionSteps

LEMMA TypesInvariant == ServerSpec => []ServerTypes
<1>1. ServerTypes /\ [ServerNext]_serverVars => ServerTypes'
  BY TypesStep
<1>2. QED
  BY TypesInitially, <1>1, PTL DEF ServerSpec
-----------------------------------------------------------------------------
(* Keep-alive.  A connection that goes on has answers left, and none of    *)
(* those it gave said close, but for the early refusals; an answer that is *)
(* about to say so is the last one, or one of these.                       *)

Keeps(c) ==
  /\ at[c] # "close" =>
       /\ left[c] >= 1 /\ left[c] + Len(outbox[c]) <= KeepAliveMax
       /\ \A i \in DOMAIN outbox[c] : outbox[c][i].close => Early(outbox[c][i])
  /\ at[c] = "handler" => (current[c].announce => current[c].closed)
  /\ at[c] = "write" => (current[c].announce => current[c].closed \/ Early(current[c]))

ClosesOnce(c) ==
  /\ Len(outbox[c]) <= KeepAliveMax
  /\ \A i \in DOMAIN outbox[c] :
       /\ outbox[c][i].close => i = Len(outbox[c]) \/ Early(outbox[c][i])
       /\ i = KeepAliveMax => outbox[c][i].close

KeepsInv == \A c \in Conns : Keeps(c) /\ ClosesOnce(c)

LEMMA KeepsInitially == ServerInit => KeepsInv
<1> SUFFICES ASSUME ServerInit, NEW c \in Conns PROVE Keeps(c) /\ ClosesOnce(c)
  BY DEF KeepsInv
<1>1. KeepAliveMax \in Nat /\ KeepAliveMax >= 1
  BY ServerAssumption
<1>2. at[c] = "poll0" /\ left[c] = KeepAliveMax /\ outbox[c] = <<>>
  BY DEF ServerInit
<1>3. Len(outbox[c]) = 0 /\ DOMAIN outbox[c] = {}
  BY <1>2
<1>4. QED
  BY <1>1, <1>2, <1>3 DEF Keeps, ClosesOnce

(* A step of one connection leaves the others as they were.                *)
LEMMA KeepsElsewhere ==
  ASSUME KeepsInv, NEW c \in Conns, Keeps(c)', ClosesOnce(c)',
         \A d \in Conns \ {c} : /\ at'[d] = at[d] /\ left'[d] = left[d]
                               /\ outbox'[d] = outbox[d] /\ current'[d] = current[d]
  PROVE  KeepsInv'
<1>1. ASSUME NEW d \in Conns \ {c} PROVE Keeps(d)' /\ ClosesOnce(d)'
  <2>1. Keeps(d) /\ ClosesOnce(d)
    BY DEF KeepsInv
  <2>2. Keeps(d)'
    BY <2>1 DEF Keeps
  <2>3. ClosesOnce(d)'
    BY <2>1 DEF ClosesOnce
  <2>4. QED
    BY <2>2, <2>3
<1>2. QED
  BY <1>1 DEF KeepsInv

(* A step of the job that sends nothing keeps what was counted.            *)
LEMMA KeepsQuiet ==
  ASSUME KeepsInv, NEW c \in Conns, UNCHANGED <<outbox, left>>, at[c] # "close",
         at'[c] = "handler" => (current'[c].announce => current'[c].closed),
         at'[c] = "write" => (current'[c].announce => current'[c].closed \/ Early(current'[c])),
         \A d \in Conns \ {c} : at'[d] = at[d] /\ current'[d] = current[d]
  PROVE  KeepsInv'
<1>1. Keeps(c) /\ ClosesOnce(c)
  BY DEF KeepsInv
<1>2. Keeps(c)'
  BY <1>1 DEF Keeps, Early
<1>3. ClosesOnce(c)'
  BY <1>1 DEF ClosesOnce
<1>4. QED
  BY <1>2, <1>3, KeepsElsewhere

LEMMA ReadKeeps ==
  ASSUME ServerTypes, KeepsInv, NEW w \in Workers, NEW c \in Conns, ReadRequest(w, c)
  PROVE  KeepsInv'
<1>1. PICK ending, found, n, kept, next :
        /\ ending \in {"closed", "silent"} /\ found \in Outcomes(inbox[c], ending)
        /\ n \in 0 .. Len(inbox[c])
        /\ Kept(found) /\ Kin(kept, found)
        /\ current' = [current EXCEPT ![c] = kept] /\ at' = [at EXCEPT ![c] = next]
        /\ next \in {"close", "handler", "write"}
        /\ next = "handler" => found.runs # "none"
  BY ReadStep
<1>2. UNCHANGED <<outbox, left>> /\ at[c] = "read"
  BY DEF ReadRequest, Works
<1>3. /\ current'[c] = kept /\ at'[c] = next
      /\ \A d \in Conns \ {c} : at'[d] = at[d] /\ current'[d] = current[d]
  BY <1>1 DEF ServerTypes
<1>4. next = "handler" => (kept.announce => kept.closed)
  BY <1>1 DEF Kept, Kin
<1>5. kept.announce => kept.closed \/ Early(kept)
  BY <1>1 DEF Kept, Kin, Early
<1>6. QED
  BY <1>2, <1>3, <1>4, <1>5, KeepsQuiet

LEMMA MoveKeeps ==
  ASSUME ServerTypes, KeepsInv, NEW w \in Workers, NEW c \in Conns,
         FirstPoll(w, c) \/ Poll(w, c) \/ ReadOn(w, c) \/ Handle(w, c)
  PROVE  KeepsInv'
<1>1. UNCHANGED <<outbox, left, current>>
  BY MoveOn
<1>2. CASE at' = at
  BY <1>1, <1>2 DEF KeepsInv, Keeps, ClosesOnce, Early
<1>3. CASE /\ at[c] \in {"poll0", "poll", "read"}
           /\ \E next \in {"read", "poll", "close"} : at' = [at EXCEPT ![c] = next]
  <2>1. at'[c] \in {"read", "poll", "close"} /\ \A d \in Conns \ {c} : at'[d] = at[d]
    BY <1>3 DEF ServerTypes
  <2>2. QED
    BY <1>1, <1>3, <2>1, KeepsQuiet
<1>4. CASE at[c] = "handler" /\ at' = [at EXCEPT ![c] = "write"]
  <2>1. at'[c] = "write" /\ \A d \in Conns \ {c} : at'[d] = at[d]
    BY <1>4 DEF ServerTypes
  <2>2. current[c].announce => current[c].closed
    BY <1>4 DEF KeepsInv, Keeps
  <2>3. QED
    BY <1>1, <1>4, <2>1, <2>2, KeepsQuiet
<1>5. QED
  BY <1>2, <1>3, <1>4, MoveOn

LEMMA WriteKeeps ==
  ASSUME ServerTypes, KeepsInv, NEW w \in Workers, NEW c \in Conns, WriteAnswer(w, c)
  PROVE  KeepsInv'
<1> DEFINE answer == [id |-> current[c].id, status |-> current[c].status, close |-> Announced(c)]
           old == outbox[c]
           n == Len(outbox[c])
           goes == outbox'[c] = Append(old, answer)
<1>1. /\ at[c] = "write"
      /\ outbox' = [outbox EXCEPT ![c] = IF peer[c] = "gone" THEN old ELSE Append(old, answer)]
      /\ \E ok \in BOOLEAN : at' = [at EXCEPT ![c] = IF ok /\ Loops(c) THEN "poll0" ELSE "close"]
      /\ left' = [left EXCEPT ![c] = left[c] - 1]
      /\ current' = [current EXCEPT ![c] = Nothing]
  BY DEF WriteAnswer, Works
<1>2. /\ left'[c] = left[c] - 1 /\ left[c] \in Int /\ IsSeq(old)
      /\ at'[c] = "close" \/ (at'[c] = "poll0" /\ Loops(c))
      /\ outbox'[c] = old \/ goes
  BY <1>1 DEF ServerTypes
<1>3. \A d \in Conns \ {c} : /\ at'[d] = at[d] /\ left'[d] = left[d]
                             /\ outbox'[d] = outbox[d] /\ current'[d] = current[d]
  BY <1>1 DEF ServerTypes
<1>4. Keeps(c) /\ ClosesOnce(c)
  BY DEF KeepsInv
<1>5. /\ left[c] >= 1 /\ left[c] + n <= KeepAliveMax /\ n \in Nat
      /\ \A i \in DOMAIN old : old[i].close => Early(old[i])
      /\ current[c].announce => current[c].closed \/ Early(current[c])
  BY <1>1, <1>2, <1>4 DEF Keeps, IsSeq
<1>6. answer.close = Announced(c) /\ answer.status = current[c].status
  OBVIOUS
<1>7. KeepAliveMax \in Nat
  BY ServerAssumption
<1>8. Loops(c) => left[c] > 1 /\ (answer.close => Early(answer))
  <2> HIDE DEF answer
  <2>1. ASSUME Loops(c) PROVE left[c] > 1 /\ ~current[c].closed
    BY <2>1 DEF Loops
  <2>2. ASSUME Early(current[c]) PROVE Early(answer)
    BY <2>2, <1>6 DEF Early
  <2>3. ASSUME Loops(c), answer.close PROVE current[c].announce
    <3>1. Announced(c)
      BY <2>3, <1>6
    <3>2. QED
      BY <2>1, <2>3, <3>1, <1>2 DEF Announced
  <2>4. QED
    BY <2>1, <2>2, <2>3, <1>5
<1>9. CASE outbox'[c] = old
  <2>1. ClosesOnce(c)'
    BY <1>9, <1>4 DEF ClosesOnce
  <2>2. Keeps(c)'
    BY <1>9, <1>2, <1>5, <1>7, <1>8 DEF Keeps
  <2>3. QED
    BY <2>1, <2>2, <1>3, KeepsElsewhere
<1>10. CASE goes
  <2> DEFINE new == outbox'[c]
  <2> HIDE DEF answer, old
  <2>1. /\ Len(new) = n + 1 /\ DOMAIN old = 1 .. n /\ DOMAIN new = 1 .. n + 1
        /\ new[n + 1] = answer /\ \A i \in 1 .. n : new[i] = old[i]
    BY <1>10, <1>2, AppendTo DEF old
  <2>2. n + 1 <= KeepAliveMax /\ (n + 1 = KeepAliveMax => left[c] = 1)
    BY <1>2, <1>5, <1>7
  <2>3. left[c] = 1 => answer.close
    BY <1>6 DEF Announced
  <2>4. ASSUME NEW i \in DOMAIN new
        PROVE  /\ new[i].close => i = n + 1 \/ Early(new[i])
               /\ i = KeepAliveMax => new[i].close
    <3>1. CASE i = n + 1
      BY <3>1, <2>1, <2>2, <2>3
    <3>2. CASE i \in 1 .. n
      BY <3>2, <2>1, <2>2, <1>5, <1>7
    <3>3. QED
      BY <3>1, <3>2, <2>1, <1>5
  <2>5. ClosesOnce(c)'
    BY <2>1, <2>2, <2>4 DEF ClosesOnce, Early
  <2>6. ASSUME at'[c] = "poll0" PROVE Keeps(c)'
    <3>1. ASSUME NEW i \in DOMAIN new, new[i].close PROVE Early(new[i])
      BY <2>1, <2>6, <1>2, <1>5, <1>8, <3>1
    <3>2. left'[c] >= 1 /\ left'[c] + Len(new) <= KeepAliveMax
      BY <2>1, <2>6, <1>2, <1>5, <1>7, <1>8
    <3>3. QED
      BY <2>6, <3>1, <3>2 DEF Keeps, Early
  <2>7. ASSUME at'[c] = "close" PROVE Keeps(c)'
    BY <2>7 DEF Keeps
  <2>8. QED
    BY <2>5, <2>6, <2>7, <1>2, <1>3, KeepsElsewhere
<1>11. QED
  BY <1>2, <1>9, <1>10

LEMMA KeepsStep ==
  ASSUME ServerTypes, KeepsInv, [ServerNext]_serverVars
  PROVE  KeepsInv'
<1>1. ASSUME UNCHANGED <<at, left, current, outbox>> PROVE KeepsInv'
  BY <1>1 DEF KeepsInv, Keeps, ClosesOnce, Early
<1>3. ASSUME NEW w \in Workers, NEW c \in Conns, CloseSocket(w, c) PROVE KeepsInv'
  <2>1. /\ at[c] = "close" /\ left' = [left EXCEPT ![c] = KeepAliveMax]
        /\ current' = [current EXCEPT ![c] = Nothing] /\ UNCHANGED <<outbox, at>>
    BY <1>3 DEF CloseSocket
  <2>2. \A d \in Conns \ {c} : left'[d] = left[d] /\ current'[d] = current[d]
    BY <2>1 DEF ServerTypes
  <2>3. Keeps(c)' /\ ClosesOnce(c)'
    BY <2>1 DEF KeepsInv, Keeps, ClosesOnce, Early
  <2>4. QED
    BY <2>1, <2>2, <2>3, KeepsElsewhere
<1>4. ASSUME NEW w \in Workers, NEW c \in Conns, JobStep(w, c) PROVE KeepsInv'
  BY <1>3, <1>4, ReadKeeps, MoveKeeps, WriteKeeps DEF JobStep
<1>5. ASSUME NEW c \in Conns, Transmit(c) \/ Leave(c) PROVE KeepsInv'
  BY <1>1, <1>5 DEF Transmit, Leave, jobVars
<1>6. ASSUME NEW c \in Conns, NEW r \in Requests[c], Send(c, r) PROVE KeepsInv'
  BY <1>1, <1>6 DEF Send, jobVars
<1>7. CASE UNCHANGED connVars
  BY <1>1, <1>7 DEF connVars, jobVars
<1>8. QED
  BY <1>4, <1>5, <1>6, <1>7, ConnectionSteps

(* The answers a connection gets end with the one that says close: it is   *)
(* among the first KeepAliveMax, the last of these always says so, and     *)
(* only the two refusals of a request nobody parsed say it and go on.      *)
THEOREM ServerKeepsAlive == ServerSpec => []ClosingAnswerIsLast
<1>1. ServerTypes /\ KeepsInv /\ [ServerNext]_serverVars => KeepsInv'
  BY KeepsStep
<1>2. KeepsInv => ClosingAnswerIsLast
  BY DEF KeepsInv, ClosesOnce, ClosingAnswerIsLast, Early
<1>3. QED
  BY KeepsInitially, TypesInvariant, <1>1, <1>2, PTL DEF ServerSpec
-----------------------------------------------------------------------------
(* What process_request makes of a whole request as the clients send them: *)
(* it reads exactly that, and the outcome is that request's.               *)

LEMMA TwoThen ==
  ASSUME NEW S, NEW a \in S, NEW b \in S, NEW s \in Seq(S)
  PROVE  LET m == <<a, b>> \o s IN
         /\ m \in Seq(S) /\ m # <<>> /\ Head(m) = a /\ Tail(m) # <<>> /\ Head(Tail(m)) = b
         /\ SubSeq(m, 3, Len(m)) = s
<1> DEFINE m == <<a, b>> \o s
<1>1. /\ m \in Seq(S) /\ Len(m) = 2 + Len(s) /\ m[1] = a /\ m[2] = b
      /\ \A i \in 1 .. Len(s) : m[i + 2] = s[i]
  <2>1. <<a, b>> \in Seq(S) /\ Len(<<a, b>>) = 2 /\ <<a, b>>[1] = a /\ <<a, b>>[2] = b
    OBVIOUS
  <2> DEFINE two == <<a, b>>
  <2> HIDE DEF two
  <2>2. /\ two \o s \in Seq(S) /\ Len(two \o s) = Len(two) + Len(s)
        /\ \A i \in 1 .. Len(two) + Len(s) :
             (two \o s)[i] = IF i <= Len(two) THEN two[i] ELSE s[i - Len(two)]
    BY <2>1, ConcatProperties DEF two
  <2>3. Len(two) = 2 /\ two[1] = a /\ two[2] = b
    BY <2>1 DEF two
  <2>4. Len(s) \in Nat
    OBVIOUS
  <2>5. (two \o s)[1] = a /\ (two \o s)[2] = b
    BY <2>2, <2>3, <2>4
  <2>6. ASSUME NEW i \in 1 .. Len(s) PROVE (two \o s)[i + 2] = s[i]
    BY <2>2, <2>3, <2>4
  <2>7. QED
    BY <2>2, <2>3, <2>5, <2>6 DEF two
<1> HIDE DEF m
<1>2. m # <<>> /\ Head(m) = a
  BY <1>1
<1>3. Tail(m) \in Seq(S) /\ Len(Tail(m)) = Len(m) - 1 /\ Tail(m)[1] = m[2]
  BY <1>1, <1>2, HeadTailProperties
<1>4. Tail(m) # <<>> /\ Head(Tail(m)) = b
  <2>1. Len(s) \in Nat
    OBVIOUS
  <2>2. Len(Tail(m)) # 0 /\ Tail(m)[1] = b
    BY <2>1, <1>1, <1>3
  <2> DEFINE tail == Tail(m)
  <2> HIDE DEF tail
  <2>3. tail \in Seq(S) /\ Len(tail) # 0 /\ tail[1] = b
    BY <2>2, <1>3 DEF tail
  <2>4. tail # <<>> /\ Head(tail) = b
    BY <2>3
  <2>5. QED
    BY <2>4 DEF tail
<1>5. SubSeq(m, 3, Len(m)) = s
  <2>1. Len(m) \in Int /\ \A i \in 3 .. Len(m) : m[i] \in S
    BY <1>1
  <2>2. /\ SubSeq(m, 3, Len(m)) \in Seq(S) /\ Len(SubSeq(m, 3, Len(m))) = Len(m) - 3 + 1
        /\ \A i \in 1 .. Len(m) - 3 + 1 : SubSeq(m, 3, Len(m))[i] = m[3 + i - 1]
    BY <1>1, <2>1, SubSeqProperties
  <2> DEFINE t == SubSeq(m, 3, Len(m))
  <2> HIDE DEF t
  <2>3. Len(t) = Len(s) /\ \A i \in 1 .. Len(s) : t[i] = s[i]
    BY <1>1, <2>2 DEF t
  <2>4. t \in Seq(S)
    BY <2>2 DEF t
  <2>5. QED
    BY <2>3, <2>4, SeqEqual DEF t
<1>6. QED
  BY <1>1, <1>2, <1>4, <1>5 DEF m

(* The three framings are told apart, and the body written has its length. *)
LEMMA FramingIs ==
  /\ \A n \in Nat : Counted(n)[1] = "length" /\ Counted(n)[2] = n
  /\ Chunked[1] = "chunked" /\ ToTheEnd[1] = "close"
  /\ \A n \in Nat : Counted(n) # Chunked /\ Counted(n) # ToTheEnd
  /\ ToTheEnd # Chunked
<1>1. /\ \A n \in Nat : Counted(n)[1] = "length" /\ Counted(n)[2] = n
      /\ Chunked[1] = "chunked" /\ ToTheEnd[1] = "close"
  BY DEF Counted, Chunked, ToTheEnd
<1>2. QED
  BY <1>1

LEMMA BeyondEnd ==
  ASSUME NEW S, NEW w \in Seq(S)
  PROVE  From(w, Len(w) + 1) = <<>>
  BY SubSeqEmpty DEF From

LEMMA PlainContent ==
  ASSUME NEW r \in Request, Plain(r), NEW ending
  PROVE  LET w == WriteData(r.body) IN
         /\ ExpectContent(r) => /\ ReadContent(r, w, ending).rest = <<>>
                                /\ ReadContent(r, w, ending).status \in {200, 400, 413, 415}
         /\ ~ExpectContent(r) => w = <<>>
<1> DEFINE w == WriteData(r.body)
           n == Len(r.body)
           read == ReadBody(r.framing, w)
           S == {Byte(x) : x \in Nat}
<1>1. r.body \in Seq(Nat) /\ n \in Nat /\ w \in Seq(S) /\ Len(w) = n
  <2>1. r.body \in Seq(Nat)
    BY DEF Request
  <2>2. n \in Nat
    BY <2>1, LenProperties
  <2>3. w \in Seq(S) /\ Len(w) = n
    BY <2>1, WriteDataOf
  <2>4. QED
    BY <2>1, <2>2, <2>3
<1>2. /\ n = 0 => w = <<>>
      /\ From(w, n + 1) = <<>>
  <2>1. From(w, n + 1) = <<>>
    BY <1>1, BeyondEnd
  <2> HIDE DEF w, n, S
  <2>2. QED
    BY <2>1, <1>1, EmptySeq
<1>3. \/ r.framing = Counted(n)
      \/ r.framing = ToTheEnd /\ n = 0
  BY DEF Plain
<1>4. ASSUME NEW outcome \in {"Success", "Error", "PayloadTooLarge"}, NEW body,
             read = Result(outcome, body, <<>>), r.framing = Counted(n) \/ w = <<>>
      PROVE  /\ ReadContent(r, w, ending).rest = <<>>
             /\ ReadContent(r, w, ending).status \in {200, 400, 413, 415}
  <2>1. read.rest = <<>> /\ read.outcome = outcome
    BY <1>4 DEF Result
  <2>2. r.framing = Counted(n) => r.framing[1] = "length"
    BY <1>1, FramingIs
  <2>3. PrepareContentReceiver(r)
    BY DEF Plain, PrepareContentReceiver
  <2> HIDE DEF read, w, n
  <2>4. CASE Unread(r)
    <3>1. ReadContent(r, w, ending) = [status |-> 200, rest |-> w]
      BY <2>4 DEF ReadContent
    <3>2. w = <<>>
      BY <2>2, <2>4, <1>4 DEF Unread
    <3>3. QED
      BY <3>1, <3>2
  <2>5. CASE ~Unread(r)
    <3> DEFINE cut == r.framing = ToTheEnd /\ ending = "silent"
               status == CASE read.outcome = "PayloadTooLarge" -> 413
                           [] read.outcome = "Error" -> 400
                           [] read.outcome = "Success" ->
                                IF cut THEN 400
                                ELSE IF r.form /\ Len(read.body) > FormMax THEN 413 ELSE 200
    <3>1. ReadContent(r, w, ending) = [status |-> status, rest |-> read.rest]
      BY <2>5, <2>3 DEF ReadContent, read
    <3>2. status \in {200, 400, 413}
      BY <2>1
    <3> HIDE DEF status
    <3>3. QED
      BY <3>1, <3>2, <2>1
  <2>6. QED
    BY <2>4, <2>5
<1>5. CASE r.framing = Counted(n)
  <2>1. /\ r.framing[1] = "length" /\ r.framing[2] = n
        /\ r.framing # Chunked /\ r.framing # ToTheEnd
    BY <1>1, <1>5, FramingIs
  <2>2. \/ read = Result("PayloadTooLarge", <<>>, From(w, n + 1))
        \/ read = ReadContentWithLength(w, n)
    <3>1. n > PayloadMax \/ n <= PayloadMax
      BY <1>1, PayloadAssumption
    <3> HIDE DEF w, n
    <3>2. QED
      BY <3>1, <2>1 DEF ReadBody, read
  <2>3. \/ ReadContentWithLength(w, n) = Result("Error", <<>>, <<>>)
        \/ ReadContentWithLength(w, n) =
             Result("Success", Values(SubSeq(w, 1, n)), From(w, n + 1))
    BY DEF ReadContentWithLength
  <2> DEFINE success == Values(SubSeq(w, 1, n))
             none == <<>>
  <2>4. \/ read = Result("PayloadTooLarge", none, <<>>)
        \/ read = Result("Error", none, <<>>)
        \/ read = Result("Success", success, <<>>)
    BY <2>2, <2>3, <1>2
  <2> HIDE DEF success, none, read, w, n
  <2>5. /\ ReadContent(r, w, ending).rest = <<>>
        /\ ReadContent(r, w, ending).status \in {200, 400, 413, 415}
    BY <2>4, <1>4, <1>5
  <2>6. ~ExpectContent(r) => n = 0
    BY <2>1, <1>1 DEF ExpectContent
  <2>7. QED
    BY <2>5, <2>6, <1>2 DEF w
<1>6. CASE r.framing = ToTheEnd /\ n = 0
  <2>1. w = <<>>
    BY <1>2, <1>6
  <2> DEFINE values == Values(w)
             none == <<>>
  <2>2. \/ read = Result("PayloadTooLarge", none, <<>>)
        \/ read = Result("Success", values, <<>>)
    <3>1. read = ReadContentWithoutLength(w)
      BY <1>6, FramingIs DEF ReadBody
    <3>2. QED
      BY <3>1 DEF ReadContentWithoutLength
  <2> HIDE DEF read, w, n, values, none
  <2>3. /\ ReadContent(r, w, ending).rest = <<>>
        /\ ReadContent(r, w, ending).status \in {200, 400, 413, 415}
    BY <2>1, <2>2, <1>4
  <2>4. QED
    BY <2>1, <2>3 DEF w
<1>7. QED
  BY <1>3, <1>5, <1>6

LEMMA PlainMessage ==
  ASSUME NEW r \in Request, Plain(r)
  PROVE  \E S : /\ Message(r) \in Seq(S) /\ Line(r) \in S /\ Head_ \in S
                /\ WriteData(r.body) \in Seq(S)
                /\ Message(r) = <<Line(r), Head_>> \o WriteData(r.body)
<1> DEFINE w == WriteData(r.body)
           S == {Byte(x) : x \in Nat} \cup {Line(r), Head_}
<1>1. Message(r) = <<Line(r), Head_>> \o w
  <2>1. r.framing # Chunked
    BY FramingIs DEF Plain, Request
  <2>2. QED
    BY <2>1 DEF Message
<1>2. w \in Seq(S) /\ Line(r) \in S /\ Head_ \in S
  <2>1. r.body \in Seq(Nat)
    BY DEF Request
  <2>2. w \in Seq({Byte(x) : x \in Nat})
    BY <2>1, WriteDataOf
  <2>3. QED
    BY <2>2, SeqMonotonic
<1> HIDE DEF w, S
<1>3. Message(r) \in Seq(S)
  BY <1>1, <1>2, TwoThen
<1>4. QED
  BY <1>1, <1>2, <1>3 DEF w

(* A plain request is read to its end, answered, and answered as itself.   *)
LEMMA PlainOutcome ==
  ASSUME NEW r \in Request, Plain(r), NEW ending
  PROVE  LET o == Process(Message(r), ending) IN
         o.rest = <<>> /\ o.status # 0 /\ o.id = r.id /\ Message(r) # <<>>
<1> DEFINE w == WriteData(r.body)
           m == Message(r)
<1>1. PICK S : /\ Line(r) \in S /\ Head_ \in S /\ w \in Seq(S)
               /\ m = <<Line(r), Head_>> \o w
  BY PlainMessage
<1> HIDE DEF w, m
<1>3. /\ m # <<>> /\ Head(m) = Line(r) /\ Tail(m) # <<>> /\ Head(Tail(m)) = Head_
      /\ From(m, 3) = w
  BY <1>1, TwoThen DEF From
<1>4. Line(r)[1] = "line" /\ Line(r)[2] = r /\ Head_[1] = "head"
  BY DEF Line, Head_
<1>5. IsUnit(m, "line") /\ IsUnit(Tail(m), "head") /\ Head(m)[2] = r
  BY <1>3, <1>4 DEF IsUnit
<1>6. r.flaws = {}
  BY DEF Plain
<1>7. Process(m, ending) = Routing(r, w, ending)
  BY ZenonT(60), <1>3, <1>5, <1>6 DEF Process
<1> DEFINE content == IF ExpectContent(r) THEN ReadContent(r, w, ending)
                      ELSE [status |-> 200, rest |-> w]
           status == content.status
           closed == ConnectionClosed(r)
           rest == content.rest
<1>8. content.rest = <<>> /\ content.status # 0
  <2>1. CASE ExpectContent(r)
    BY <2>1, PlainContent DEF w
  <2>2. CASE ~ExpectContent(r)
    <3>1. content = [status |-> 200, rest |-> w]
      BY <2>2
    <3>2. w = <<>>
      BY <2>2, PlainContent DEF w
    <3> HIDE DEF content
    <3>3. QED
      BY <3>1, <3>2
  <2>3. QED
    BY <2>1, <2>2
<1> DEFINE o == Routing(r, w, ending)
<1>9. \/ o = Outcome(status, "none", rest, closed, r)
      \/ o = Outcome(400, "none", rest, closed, r)
      \/ o = Outcome(IF Route(r) = "none" THEN 404 ELSE 200, Route(r), rest, closed, r)
  BY DEF Routing
<1>10. rest = <<>> /\ status # 0
  BY <1>8
<1> HIDE DEF content, status, rest, closed
<1>11. ASSUME NEW any, NEW runs, o = Outcome(any, runs, rest, closed, r)
       PROVE  o.rest = <<>> /\ o.id = r.id /\ o.status = any
  BY <1>10, <1>11, OutcomeIs
<1> HIDE DEF o
<1>12. o.rest = <<>> /\ o.status # 0 /\ o.id = r.id
  <2>1. (IF Route(r) = "none" THEN 404 ELSE 200) # 0
    OBVIOUS
  <2> DEFINE found == IF Route(r) = "none" THEN 404 ELSE 200
  <2> HIDE DEF found
  <2>2. found # 0
    BY <2>1 DEF found
  <2>3. \/ o = Outcome(status, "none", rest, closed, r)
        \/ o = Outcome(400, "none", rest, closed, r)
        \/ o = Outcome(found, Route(r), rest, closed, r)
    BY <1>9 DEF o, found
  <2>4. QED
    BY <2>2, <2>3, <1>10, <1>11
<1>13. QED
  BY <1>3, <1>7, <1>12 DEF m, o
(* Cut short anywhere, it keeps the server reading.                        *)
Splits(s, t, m) ==
  /\ Len(m) = Len(s) + Len(t)
  /\ \A i \in 1 .. Len(s) : s[i] = m[i]
  /\ \A i \in 1 .. Len(t) : t[i] = m[Len(s) + i]

LEMMA PlainLength ==
  ASSUME NEW r \in Request, Plain(r)
  PROVE  Len(r.body) \in Nat /\ Len(Message(r)) = 2 + Len(r.body)
<1> DEFINE w == WriteData(r.body)
           two == <<Line(r), Head_>>
<1>1. r.body \in Seq(Nat)
  BY DEF Request
<1>2. Len(r.body) \in Nat /\ IsSeq(w) /\ Len(w) = Len(r.body)
  BY <1>1, LenProperties, WriteDataOf, SeqIs
<1>3. IsSeq(two) /\ Len(two) = 2
  BY DEF IsSeq
<1>4. Message(r) = two \o w
  BY PlainMessage
<1> HIDE DEF w, two
<1>5. Joins(Message(r), two, w)
  BY <1>2, <1>3, <1>4, Joined
<1>6. QED
  BY <1>2, <1>3, <1>5 DEF Joins

LEMMA PlainCutShort ==
  ASSUME NEW r \in Request, Plain(r), NEW s, IsSeq(s), NEW t, IsSeq(t), t # <<>>,
         Splits(s, t, Message(r))
  PROVE  StillReading(s)
<1> DEFINE n == Len(r.body)
<1>1. n \in Nat /\ Len(Message(r)) = 2 + n
  BY PlainLength
<1>2. Len(s) \in Nat /\ Len(t) \in Nat /\ Len(t) # 0
  <2>1. Len(t) # 0
    BY EmptyIs, SameSequence
  <2>2. QED
    BY <2>1 DEF IsSeq
<1>3. Len(s) < 2 + n
  BY <1>1, <1>2 DEF Splits
<1>4. CASE Len(s) = 0
  <2>1. DOMAIN s = {}
    BY <1>4 DEF IsSeq
  <2>2. QED
    BY <2>1 DEF StillReading, AllBytes
<1>5. CASE Len(s) # 0
  <2>1. s[1] = Line(r)
    <3>1. Message(r)[1] = Line(r)
      BY MessageIs
    <3>2. 1 \in 1 .. Len(s)
      BY <1>2, <1>5
    <3>3. QED
      BY <3>1, <3>2 DEF Splits
  <2>2. s # <<>> /\ Head(s) = Line(r)
    <3>1. s # <<>>
      BY <1>5, EmptyIs
    <3>2. PICK S : s \in Seq(S)
      BY IsSeqOf
    <3>3. QED
      BY <2>1, <3>1, <3>2
  <2>3. Line(r)[1] = "line" /\ Line(r)[2] = r
    BY DEF Line
  <2>4. IsUnit(s, "line") /\ Head(s)[2] = r
    BY <2>2, <2>3 DEF IsUnit
  <2>5. r.flaws = {}
    BY DEF Plain
  <2>6. CASE Len(s) = 1
    BY ZenonT(60), <2>4, <2>5, <2>6 DEF StillReading
  <2>7. CASE Len(s) # 1
    <3>0. PICK k \in Nat : k = Len(s)
      BY <1>2
    <3>a. k >= 2 /\ k < 2 + n
      BY <3>0, <1>3, <1>5, <2>7
    <3>1. n # 0
      BY <1>1, <3>0, <3>a
    <3>2. r.framing = Counted(n)
      <4>1. r.body # <<>>
        BY <3>1, EmptyIs
      <4>2. QED
        BY <4>1 DEF Plain
    <3>3. /\ r.framing[1] = "length" /\ r.framing[2] = n
          /\ r.framing # Chunked /\ r.framing # ToTheEnd
      BY <1>1, <3>2, FramingIs
    <3>4. Len(From(s, 3)) < n
      <4>1. 2 \in 0 .. Len(s)
        BY <3>0, <3>a
      <4>2. Len(From(s, 2 + 1)) = Len(s) - 2
        BY <4>1, CutAt
      <4>3. 2 + 1 = 3
        OBVIOUS
      <4>4. Len(From(s, 3)) = Len(s) - 2
        BY <4>2, <4>3
      <4>5. QED
        BY <1>1, <3>0, <3>a, <4>4
    <3>5. Awaits(r.framing, From(s, 3))
      BY <3>3, <3>4 DEF Awaits
    <3>6. ExpectContent(r) /\ ~Unread(r)
      BY <1>1, <3>1, <3>3 DEF ExpectContent, Unread
    <3>7. QED
      BY ZenonT(60), <2>4, <2>5, <3>5, <3>6 DEF StillReading
  <2>8. QED
    BY <2>6, <2>7
<1>6. QED
  BY <1>4, <1>5

-----------------------------------------------------------------------------
(* Answers in turn.  On a connection whose client waited for each answer,  *)
(* let no time-out pass and is still there, nothing is outstanding, or one *)
(* request is on its way, or it is the one that is being answered.         *)

Numbered(c) == [sent[c][Len(sent[c])] EXCEPT !.id = Len(sent[c])]

AllPlain(c) == \A i \in DOMAIN sent[c] : Plain(sent[c][i])

InOrder(c) == \A i \in DOMAIN outbox[c] : outbox[c][i].id = i

Idle(c) ==
  /\ at[c] \in {"poll0", "poll", "read"}
  /\ inbox[c] = <<>> /\ unsent[c] = <<>> /\ Len(sent[c]) = Len(outbox[c])

Coming(c) ==
  /\ at[c] \in {"poll0", "poll", "read"}
  /\ Splits(inbox[c], unsent[c], Message(Numbered(c))) /\ Len(sent[c]) = Len(outbox[c]) + 1

Answering(c) ==
  /\ at[c] \in {"handler", "write"} /\ inbox[c] = <<>> /\ unsent[c] = <<>>
  /\ Len(sent[c]) = Len(outbox[c]) + 1 /\ current[c].id = Len(sent[c])

Outstanding(c) == Idle(c) \/ Coming(c) \/ Answering(c)

InTurn(c) ==
  orderly[c] /\ AllPlain(c) =>
    InOrder(c) /\ (peer[c] = "up" /\ at[c] # "close" => Outstanding(c))

TurnInv == \A c \in Conns : InTurn(c)

LEMMA TurnInitially == ServerInit => TurnInv
<1> SUFFICES ASSUME ServerInit, NEW c \in Conns PROVE InTurn(c)
  BY DEF TurnInv
<1>1. /\ at[c] = "poll0" /\ sent[c] = <<>> /\ outbox[c] = <<>> /\ inbox[c] = <<>>
      /\ unsent[c] = <<>>
  BY DEF ServerInit
<1>2. InOrder(c) /\ Idle(c)
  BY <1>1 DEF InOrder, Idle
<1>3. QED
  BY <1>2 DEF InTurn, Outstanding

(* What a step leaves alone of a connection.                               *)
SameCounts(c) ==
  /\ sent'[c] = sent[c] /\ outbox'[c] = outbox[c] /\ peer'[c] = peer[c]
  /\ orderly'[c] => orderly[c]

SameWire(c) == inbox'[c] = inbox[c] /\ unsent'[c] = unsent[c]

Same(c) ==
  /\ SameCounts(c) /\ SameWire(c) /\ at'[c] = at[c] /\ current'[c] = current[c]

LEMMA SameMessages ==
  ASSUME NEW c \in Conns, sent'[c] = sent[c], outbox'[c] = outbox[c]
  PROVE  /\ AllPlain(c)' <=> AllPlain(c)
         /\ InOrder(c)' <=> InOrder(c)
         /\ Message(Numbered(c))' = Message(Numbered(c))
<1>1. AllPlain(c)' <=> AllPlain(c)
  BY DEF AllPlain, Plain
<1>2. InOrder(c)' <=> InOrder(c)
  BY DEF InOrder
<1>3. Numbered(c)' = Numbered(c)
  BY DEF Numbered
<1>4. Message(Numbered(c))' = Message(Numbered(c))
  BY <1>3
<1>5. QED
  BY <1>1, <1>2, <1>4

(* A step that keeps what is on the connection.                            *)
LEMMA ComingOn ==
  ASSUME NEW c \in Conns, SameCounts(c), SameWire(c),
         at'[c] \in {"poll0", "poll", "read"}, Idle(c) \/ Coming(c)
  PROVE  Outstanding(c)'
<1>1. CASE Idle(c)
  <2>1. Idle(c)'
    BY <1>1 DEF Idle, SameCounts, SameWire
  <2>2. QED
    BY <2>1 DEF Outstanding
<1>2. CASE Coming(c)
  <2>1. PICK m : m = Message(Numbered(c))
    OBVIOUS
  <2>2. Message(Numbered(c))' = m
    BY <2>1, SameMessages DEF SameCounts
  <2>3. Splits(inbox'[c], unsent'[c], m)
    BY <1>2, <2>1 DEF Coming, SameWire
  <2>4. Splits(inbox[c], unsent[c], Message(Numbered(c)))'
    BY <2>2, <2>3 DEF Splits
  <2>5. Len(sent'[c]) = Len(outbox'[c]) + 1
    BY <1>2 DEF Coming, SameCounts
  <2>6. Coming(c)'
    BY <2>4, <2>5 DEF Coming
  <2>7. QED
    BY <2>6 DEF Outstanding
<1>3. QED
  BY <1>1, <1>2

LEMMA TurnSame ==
  ASSUME NEW c \in Conns, InTurn(c), Same(c)
  PROVE  InTurn(c)'
<1>1. (AllPlain(c)' <=> AllPlain(c)) /\ (InOrder(c)' <=> InOrder(c))
  BY SameMessages DEF Same, SameCounts
<1>2. ASSUME Outstanding(c) PROVE Outstanding(c)'
  <2>1. CASE Answering(c)
    <3>1. Answering(c)'
      BY <2>1 DEF Answering, Same, SameCounts, SameWire
    <3>2. QED
      BY <3>1 DEF Outstanding
  <2>2. CASE Idle(c) \/ Coming(c)
    <3>1. at'[c] \in {"poll0", "poll", "read"}
      BY <2>2 DEF Idle, Coming, Same
    <3>2. QED
      BY <2>2, <3>1, ComingOn DEF Same
  <2>3. QED
    BY <1>2, <2>1, <2>2 DEF Outstanding
<1>3. QED
  BY <1>1, <1>2 DEF InTurn, Same, SameCounts

LEMMA TurnElsewhere ==
  ASSUME TurnInv, NEW c \in Conns, InTurn(c)', \A d \in Conns \ {c} : Same(d)
  PROVE  TurnInv'
<1>1. ASSUME NEW d \in Conns \ {c} PROVE InTurn(d)'
  BY <1>1, TurnSame DEF TurnInv
<1>2. QED
  BY <1>1 DEF TurnInv

(* While no request is sent and no answer given, only what is outstanding  *)
(* has to be looked at.                                                    *)
LEMMA TurnQuiet ==
  ASSUME TurnInv, NEW c \in Conns, SameCounts(c),
         orderly'[c] /\ AllPlain(c) /\ Outstanding(c) /\ peer[c] = "up" /\ at[c] # "close"
           /\ at'[c] # "close" => Outstanding(c)',
         at[c] = "close" => at'[c] = "close",
         \A d \in Conns \ {c} : Same(d)
  PROVE  TurnInv'
<1>1. (AllPlain(c)' <=> AllPlain(c)) /\ (InOrder(c)' <=> InOrder(c))
  BY SameMessages DEF SameCounts
<1>2. ASSUME orderly'[c], AllPlain(c)' PROVE InOrder(c)'
  BY <1>1, <1>2 DEF TurnInv, InTurn, SameCounts
<1>3. ASSUME orderly'[c], AllPlain(c)', peer'[c] = "up", at'[c] # "close"
      PROVE  Outstanding(c)'
  <2>1. AllPlain(c) /\ peer[c] = "up" /\ at[c] # "close"
    BY <1>1, <1>3 DEF SameCounts
  <2>2. Outstanding(c)
    BY <1>3, <2>1 DEF TurnInv, InTurn, SameCounts
  <2>3. QED
    BY <1>3, <2>1, <2>2
<1>4. InTurn(c)'
  BY <1>2, <1>3 DEF InTurn
<1>5. QED
  BY <1>4, TurnElsewhere

LEMMA Renumbered ==
  ASSUME NEW r \in Request, NEW k \in Nat
  PROVE  LET q == [r EXCEPT !.id = k] IN
         /\ q \in Request /\ q.id = k /\ q.flaws = r.flaws /\ q.framing = r.framing
         /\ q.body = r.body
  BY DEF Request

LEMMA NumberedIs ==
  ASSUME ServerTypes, NEW c \in Conns, AllPlain(c), Len(sent[c]) = Len(outbox[c]) + 1
  PROVE  Numbered(c) \in Request /\ Plain(Numbered(c)) /\ Numbered(c).id = Len(sent[c])
<1> DEFINE n == Len(sent[c])
           r == sent[c][n]
<1>1. sent[c] \in Seq(Request) /\ IsSeq(outbox[c])
  BY DEF ServerTypes
<1>2. n \in Nat /\ n \in DOMAIN sent[c]
  <2>1. n \in Nat /\ DOMAIN sent[c] = 1 .. n
    BY <1>1, LenProperties
  <2>2. Len(outbox[c]) \in Nat
    BY <1>1 DEF IsSeq
  <2>3. QED
    BY <2>1, <2>2
<1>3. r \in Request /\ Plain(r)
  <2>1. DOMAIN sent[c] = 1 .. n
    BY <1>1, LenProperties
  <2>2. r \in Request
    BY <1>1, <1>2, <2>1, ElementOfSeq
  <2>3. QED
    BY <1>2, <2>2 DEF AllPlain
<1>4. Numbered(c) = [r EXCEPT !.id = n]
  BY DEF Numbered
<1> HIDE DEF n, r
<1> DEFINE q == [r EXCEPT !.id = n]
<1>5. q \in Request /\ q.id = n /\ q.flaws = r.flaws /\ q.framing = r.framing /\ q.body = r.body
  BY <1>2, <1>3, Renumbered
<1> HIDE DEF q
<1>6. Plain(q)
  BY <1>3, <1>5 DEF Plain
<1>7. QED
  BY <1>4, <1>5, <1>6 DEF q, n

LEMMA MoveTurn ==
  ASSUME ServerTypes, TurnInv, NEW w \in Workers, NEW c \in Conns,
         FirstPoll(w, c) \/ Poll(w, c) \/ ReadOn(w, c) \/ Handle(w, c)
  PROVE  TurnInv'
<1>1. UNCHANGED <<peer, unsent, inbox, sent, outbox, orderly, current>>
  BY MoveOn
<1>2. /\ \A d \in Conns \ {c} : at'[d] = at[d]
      /\ \/ at[c] \in {"poll0", "poll", "read"} /\ at'[c] \in {"read", "poll", "close"}
         \/ at[c] = "handler" /\ at'[c] = "write"
         \/ at'[c] = at[c]
  BY MoveOn DEF ServerTypes
<1>3. \A d \in Conns \ {c} : Same(d)
  BY <1>1, <1>2 DEF Same, SameCounts, SameWire
<1>4. SameCounts(c) /\ SameWire(c)
  BY <1>1 DEF SameCounts, SameWire
<1>5. ASSUME Outstanding(c), at'[c] # "close" PROVE Outstanding(c)'
  <2>1. CASE Answering(c)
    <3>1. at'[c] \in {"handler", "write"}
      BY <1>2, <2>1 DEF Answering
    <3>2. Answering(c)'
      BY <1>1, <2>1, <3>1 DEF Answering
    <3>3. QED
      BY <3>2 DEF Outstanding
  <2>2. CASE Idle(c) \/ Coming(c)
    <3>1. at'[c] \in {"poll0", "poll", "read"}
      BY <1>2, <1>5, <2>2 DEF Idle, Coming
    <3>2. QED
      BY <1>4, <2>2, <3>1, ComingOn
  <2>3. QED
    BY <1>5, <2>1, <2>2 DEF Outstanding
<1>6. at[c] = "close" => at'[c] = "close"
  BY <1>2
<1>7. QED
  BY <1>3, <1>4, <1>5, <1>6, TurnQuiet

(* A plain request that is read when it is all there, or not read in full  *)
(* before the time-out.                                                    *)
LEMMA ReadTurn ==
  ASSUME ServerTypes, TurnInv, NEW w \in Workers, NEW c \in Conns, ReadRequest(w, c)
  PROVE  TurnInv'
<1>1. PICK ending, found, n, kept, next :
        /\ ending \in {"closed", "silent"} /\ found \in Outcomes(inbox[c], ending)
        /\ n \in 0 .. Len(inbox[c])
        /\ Kin(kept, found)
        /\ n + Len(found.rest) >= Len(inbox[c])
        /\ inbox' = [inbox EXCEPT ![c] = From(inbox[c], n + 1)]
        /\ current' = [current EXCEPT ![c] = kept] /\ at' = [at EXCEPT ![c] = next]
        /\ next \in {"close", "handler", "write"} /\ (next = "close" <=> found.status = 0)
  BY ReadStep
<1>2. /\ orderly' = [orderly EXCEPT ![c] = @ /\ (StillReading(inbox[c]) => unsent[c] = <<>>)]
      /\ UNCHANGED <<peer, unsent, sent, outbox>> /\ at[c] = "read"
  BY DEF ReadRequest, Works
<1>3. /\ inbox'[c] = From(inbox[c], n + 1) /\ current'[c] = kept /\ at'[c] = next
      /\ orderly'[c] => orderly[c] /\ (StillReading(inbox[c]) => unsent[c] = <<>>)
      /\ \A d \in Conns \ {c} : Same(d)
  BY <1>1, <1>2 DEF ServerTypes, Same, SameCounts, SameWire
<1>4. SameCounts(c)
  BY <1>2, <1>3 DEF SameCounts
<1>5. IsSeq(inbox[c]) /\ IsSeq(unsent[c])
  BY DEF ServerTypes
<1>6. ASSUME orderly'[c], AllPlain(c), Outstanding(c), at'[c] # "close"
      PROVE  Outstanding(c)'
  <2>1. CASE Idle(c)
    <3>1. inbox[c] = <<>>
      BY <2>1 DEF Idle
    <3>2. found = Outcome(0, "none", <<>>, FALSE, Nobody)
      BY <1>1, <3>1 DEF Outcomes, Process, IsUnit
    <3>3. found.status = 0
      BY <3>2 DEF Outcome
    <3>4. QED
      BY <3>3, <1>1, <1>3, <1>6
  <2>2. CASE Coming(c)
    <3>1. /\ Splits(inbox[c], unsent[c], Message(Numbered(c)))
          /\ Len(sent[c]) = Len(outbox[c]) + 1
      BY <2>2 DEF Coming
    <3>2. PICK q \in Request : q = Numbered(c) /\ Plain(q) /\ q.id = Len(sent[c])
      BY <3>1, <1>6, NumberedIs
    <3>3. Splits(inbox[c], unsent[c], Message(q))
      BY <3>1, <3>2
    <3>4. unsent[c] = <<>>
      <4>1. unsent[c] # <<>> => StillReading(inbox[c])
        BY <3>2, <3>3, <1>5, PlainCutShort
      <4>2. QED
        BY <4>1, <1>3, <1>6
    <3>5. inbox[c] = Message(q)
      <4>1. Len(Message(q)) = Len(inbox[c])
        BY <3>3, <3>4, <1>5, EmptyIs DEF Splits, IsSeq
      <4>2. \A i \in 1 .. Len(inbox[c]) : inbox[c][i] = Message(q)[i]
        BY <3>3 DEF Splits
      <4>3. IsSeq(Message(q))
        BY MessageIs
      <4>4. QED
        BY <4>1, <4>2, <4>3, <1>5, SameSequence
    <3>6. found.rest = <<>> /\ found.status # 0 /\ found.id = q.id
      <4>1. Len(inbox[c]) >= 2
        BY <3>5, MessageIs
      <4>2. found = Process(inbox[c], ending)
        <5>1. Len(inbox[c]) # 1
          BY <4>1, <1>5 DEF IsSeq
        <5>2. QED
          BY <1>1, <5>1 DEF Outcomes
      <4>3. QED
        BY <4>2, <3>2, <3>5, PlainOutcome
    <3>7. inbox'[c] = <<>>
      <4>1. n = Len(inbox[c])
        BY <3>6, <1>1, <1>5, EmptyIs DEF IsSeq
      <4>2. IsSeq(From(inbox[c], n + 1)) /\ Len(From(inbox[c], n + 1)) = Len(inbox[c]) - n
        BY <1>1, <1>5, CutAt
      <4>3. Len(From(inbox[c], n + 1)) = 0
        BY <4>1, <4>2, <1>5 DEF IsSeq
      <4>4. QED
        BY <4>2, <4>3, <1>3, EmptyIs, SameSequence
    <3>8. current'[c].id = Len(sent[c])
      BY <3>2, <3>6, <1>1, <1>3 DEF Kin
    <3>9. at'[c] \in {"handler", "write"}
      BY <3>6, <1>1, <1>3
    <3>10. Answering(c)'
      BY <3>1, <3>4, <3>7, <3>8, <3>9, <1>2 DEF Answering
    <3>11. QED
      BY <3>10 DEF Outstanding
  <2>3. CASE Answering(c)
    BY <2>3, <1>2 DEF Answering
  <2>4. QED
    BY <2>1, <2>2, <2>3, <1>6 DEF Outstanding
<1>7. QED
  BY <1>2, <1>3, <1>4, <1>6, TurnQuiet

LEMMA CloseTurn ==
  ASSUME ServerTypes, TurnInv, NEW w \in Workers, NEW c \in Conns, CloseSocket(w, c)
  PROVE  TurnInv'
<1>1. /\ at[c] = "close" /\ UNCHANGED <<at, peer, sent, outbox, orderly>>
      /\ inbox' = [inbox EXCEPT ![c] = <<>>] /\ unsent' = [unsent EXCEPT ![c] = <<>>]
      /\ current' = [current EXCEPT ![c] = Nothing]
  BY DEF CloseSocket
<1>2. at'[c] = "close" /\ SameCounts(c) /\ \A d \in Conns \ {c} : Same(d)
  BY <1>1 DEF ServerTypes, Same, SameCounts, SameWire
<1>3. QED
  BY <1>1, <1>2, TurnQuiet

LEMMA WriteTurn ==
  ASSUME ServerTypes, TurnInv, NEW w \in Workers, NEW c \in Conns, WriteAnswer(w, c)
  PROVE  TurnInv'
<1> DEFINE answer == [id |-> current[c].id, status |-> current[c].status, close |-> Announced(c)]
           old == outbox[c]
           n == Len(outbox[c])
           new == outbox'[c]
<1>1. /\ at[c] = "write"
      /\ outbox' = [outbox EXCEPT ![c] = IF peer[c] = "gone" THEN old ELSE Append(old, answer)]
      /\ \E next \in {"poll0", "close"} : at' = [at EXCEPT ![c] = next]
      /\ current' = [current EXCEPT ![c] = Nothing]
      /\ UNCHANGED <<peer, unsent, inbox, sent, orderly>>
  BY DEF WriteAnswer, Works
<1>2. /\ IsSeq(old) /\ at'[c] \in {"poll0", "close"} /\ \A d \in Conns \ {c} : Same(d)
      /\ new = IF peer[c] = "gone" THEN old ELSE Append(old, answer)
  BY <1>1 DEF ServerTypes, Same, SameCounts, SameWire
<1>3. answer.id = current[c].id
  OBVIOUS
<1>4. AllPlain(c)' <=> AllPlain(c)
  BY <1>1 DEF AllPlain, Plain
<1>5. InTurn(c)
  BY DEF TurnInv
<1>6. CASE peer[c] = "gone"
  <2>1. InOrder(c)' <=> InOrder(c)
    BY <1>2, <1>6 DEF InOrder
  <2>2. InTurn(c)'
    BY <1>1, <1>4, <1>5, <1>6, <2>1 DEF InTurn
  <2>3. QED
    BY <1>2, <2>2, TurnElsewhere
<1>7. CASE peer[c] # "gone"
  <2>1. peer[c] = "up" /\ new = Append(old, answer)
    BY <1>2, <1>7 DEF ServerTypes
  <2>2. ASSUME orderly[c], AllPlain(c)
        PROVE  InOrder(c) /\ inbox[c] = <<>> /\ unsent[c] = <<>> /\ Len(sent[c]) = n + 1
               /\ current[c].id = n + 1
    <3>1. InOrder(c) /\ Outstanding(c)
      BY <1>1, <1>5, <2>1, <2>2 DEF InTurn
    <3>2. Answering(c)
      BY <1>1, <3>1 DEF Outstanding, Idle, Coming
    <3>3. QED
      BY <3>1, <3>2 DEF Answering
  <2> HIDE DEF answer, old, new
  <2>3. /\ n \in Nat /\ Len(new) = n + 1 /\ DOMAIN old = 1 .. n /\ DOMAIN new = 1 .. n + 1
        /\ new[n + 1] = answer /\ \A i \in 1 .. n : new[i] = old[i]
    BY <1>2, <2>1, AppendTo DEF old, IsSeq
  <2>4. ASSUME orderly[c], AllPlain(c), NEW i \in DOMAIN new PROVE new[i].id = i
    <3>1. CASE i = n + 1
      BY <3>1, <2>2, <2>3, <2>4, <1>3
    <3>2. CASE i \in 1 .. n
      BY <3>2, <2>2, <2>3, <2>4 DEF InOrder, old
    <3>3. QED
      BY <3>1, <3>2, <2>3
  <2>5. orderly[c] /\ AllPlain(c) => InOrder(c)'
    BY <2>4 DEF InOrder, new
  <2>6. orderly[c] /\ AllPlain(c) /\ at'[c] # "close" => Idle(c)'
    BY <1>1, <1>2, <2>2, <2>3 DEF Idle, new
  <2>7. InTurn(c)'
    BY <1>1, <1>4, <2>5, <2>6 DEF InTurn, Outstanding
  <2>8. QED
    BY <1>2, <2>7, TurnElsewhere
<1>8. QED
  BY <1>6, <1>7

LEMMA LeaveTurn ==
  ASSUME ServerTypes, TurnInv, NEW c \in Conns, Leave(c)
  PROVE  TurnInv'
<1>1. /\ peer' = [peer EXCEPT ![c] = "gone"] /\ unsent' = [unsent EXCEPT ![c] = <<>>]
      /\ UNCHANGED <<inbox, sent, outbox, orderly, at, current>>
  BY DEF Leave, jobVars
<1>2. peer'[c] = "gone" /\ \A d \in Conns \ {c} : Same(d)
  BY <1>1 DEF ServerTypes, Same, SameCounts, SameWire
<1>3. (AllPlain(c)' <=> AllPlain(c)) /\ (InOrder(c)' <=> InOrder(c))
  BY <1>1, SameMessages
<1>4. InTurn(c)'
  BY <1>1, <1>2, <1>3 DEF TurnInv, InTurn
<1>5. QED
  BY <1>2, <1>4, TurnElsewhere

(* A request begins on a connection with nothing outstanding.              *)
LEMMA SendTurn ==
  ASSUME ServerTypes, TurnInv, NEW c \in Conns, NEW r \in Requests[c], Send(c, r)
  PROVE  TurnInv'
<1> DEFINE n == Len(sent[c])
           m == Message([r EXCEPT !.id = n + 1])
<1>1. /\ peer[c] = "up" /\ unsent' = [unsent EXCEPT ![c] = m]
      /\ sent' = [sent EXCEPT ![c] = Append(@, r)]
      /\ orderly' = [orderly EXCEPT ![c] = @ /\ Len(outbox[c]) = n]
      /\ UNCHANGED <<peer, inbox, outbox, at, current>>
  BY DEF Send, InUse, jobVars
<1>2. r \in Request /\ sent[c] \in Seq(Request)
  BY ServerAssumption DEF Conns, ServerTypes
<1>3. /\ sent'[c] = Append(sent[c], r) /\ unsent'[c] = m /\ inbox'[c] = inbox[c]
      /\ orderly'[c] => orderly[c] /\ Len(outbox[c]) = n
      /\ \A d \in Conns \ {c} : Same(d)
  BY <1>1 DEF ServerTypes, Same, SameCounts, SameWire
<1>4. /\ n \in Nat /\ Len(sent'[c]) = n + 1 /\ sent'[c][n + 1] = r
      /\ DOMAIN sent[c] = 1 .. n /\ DOMAIN sent'[c] = 1 .. n + 1
      /\ \A i \in 1 .. n : sent'[c][i] = sent[c][i]
  <2>1. IsSeq(sent[c])
    BY <1>2, SeqIs
  <2>2. QED
    BY <2>1, <1>3, AppendTo DEF IsSeq
<1>5. ASSUME AllPlain(c)' PROVE AllPlain(c)
  <2>1. \A i \in 1 .. n + 1 : Plain(sent'[c][i])
    BY <1>4, <1>5 DEF AllPlain, Plain
  <2>2. \A i \in 1 .. n : Plain(sent[c][i])
    BY <1>4, <2>1
  <2>3. QED
    BY <1>4, <2>2 DEF AllPlain
<1>6. ASSUME orderly'[c], AllPlain(c)' PROVE InOrder(c)'
  <2>1. InOrder(c)
    BY <1>3, <1>5, <1>6 DEF TurnInv, InTurn
  <2>2. QED
    BY <1>1, <2>1 DEF InOrder
<1>7. ASSUME orderly'[c], AllPlain(c)', at'[c] # "close" PROVE Outstanding(c)'
  <2>1. Outstanding(c)
    BY <1>1, <1>3, <1>5, <1>7 DEF TurnInv, InTurn
  <2>2. Len(outbox[c]) = n
    BY <1>3, <1>7
  <2>3. Idle(c)
    BY <1>4, <2>1, <2>2 DEF Outstanding, Coming, Answering
  <2> DEFINE q == [r EXCEPT !.id = n + 1]
  <2>4. q \in Request
    <3>1. n + 1 \in Nat
      BY <1>4
    <3>2. QED
      BY <1>2, <3>1, Renumbered
  <2>5. Numbered(c)' = q
    BY <1>4 DEF Numbered
  <2>6. m = Message(q)
    OBVIOUS
  <2> HIDE DEF q, m
  <2>7. Message(Numbered(c))' = m
    BY <2>5, <2>6
  <2>8. IsSeq(m)
    BY <2>4, <2>6, MessageIs
  <2>9. Splits(inbox'[c], unsent'[c], m)
    <3>1. inbox'[c] = <<>> /\ unsent'[c] = m
      BY <1>3, <2>3 DEF Idle
    <3>2. Splits(<<>>, m, m)
      BY <2>8, EmptyIs DEF Splits, IsSeq
    <3>3. QED
      BY <3>1, <3>2
  <2>10. Splits(inbox[c], unsent[c], Message(Numbered(c)))'
    BY <2>7, <2>9 DEF Splits
  <2>11. at'[c] \in {"poll0", "poll", "read"} /\ Len(sent'[c]) = Len(outbox'[c]) + 1
    BY <1>1, <1>4, <2>2, <2>3 DEF Idle
  <2>12. Coming(c)'
    BY <2>10, <2>11 DEF Coming
  <2>13. QED
    BY <2>12 DEF Outstanding
<1>8. InTurn(c)'
  BY <1>6, <1>7 DEF InTurn
<1>9. QED
  BY <1>3, <1>8, TurnElsewhere

LEMMA Moved ==
  ASSUME NEW s, IsSeq(s), NEW t, IsSeq(t), NEW m, Splits(s, t, m), NEW k \in 0 .. Len(t)
  PROVE  Splits(s \o SubSeq(t, 1, k), From(t, k + 1), m)
<1> DEFINE first == SubSeq(t, 1, k)
           more == s \o first
           rest == From(t, k + 1)
<1>1. PICK a \in Nat, b \in Nat : a = Len(s) /\ b = Len(t)
  BY DEF IsSeq
<1>2. k \in Nat /\ k <= b
  BY <1>1
<1>3. /\ IsSeq(first) /\ Len(first) = k /\ \A i \in 1 .. k : first[i] = t[i]
      /\ IsSeq(rest) /\ Len(rest) = b - k /\ \A i \in 1 .. b - k : rest[i] = t[k + i]
  BY <1>1, CutAt
<1> HIDE DEF first, rest
<1>4. Joins(more, s, first)
  BY <1>3, Joined
<1> HIDE DEF more
<1>5. /\ Len(more) = a + k /\ \A i \in 1 .. a : more[i] = s[i]
      /\ \A i \in 1 .. k : more[a + i] = first[i]
  BY <1>1, <1>3, <1>4 DEF Joins
<1>6. /\ Len(m) = a + b /\ \A i \in 1 .. a : s[i] = m[i]
      /\ \A i \in 1 .. b : t[i] = m[a + i]
  BY <1>1 DEF Splits
<1>7. ASSUME NEW i \in 1 .. a + k PROVE more[i] = m[i]
  <2>1. CASE i <= a
    BY <2>1, <1>5, <1>6
  <2>2. CASE i > a
    <3>1. i - a \in 1 .. k /\ i = a + (i - a) /\ i - a \in 1 .. b
      BY <2>2, <1>2
    <3>2. more[i] = first[i - a] /\ first[i - a] = t[i - a] /\ t[i - a] = m[i]
      BY <3>1, <1>3, <1>5, <1>6
    <3>3. QED
      BY <3>2
  <2>3. QED
    BY <2>1, <2>2
<1>8. ASSUME NEW i \in 1 .. b - k PROVE rest[i] = m[a + k + i]
  <2>1. k + i \in 1 .. b /\ a + (k + i) = a + k + i
    BY <1>2
  <2>2. QED
    BY <2>1, <1>3, <1>6
<1>9. Len(m) = (a + k) + (b - k)
  BY <1>2, <1>6
<1>10. Splits(more, rest, m)
  BY <1>3, <1>5, <1>7, <1>8, <1>9 DEF Splits
<1>11. QED
  BY <1>10 DEF more, first, rest

LEMMA TransmitTurn ==
  ASSUME ServerTypes, TurnInv, NEW c \in Conns, Transmit(c)
  PROVE  TurnInv'
<1>1. PICK k \in 1 .. Len(unsent[c]) :
        /\ inbox' = [inbox EXCEPT ![c] = @ \o SubSeq(unsent[c], 1, k)]
        /\ unsent' = [unsent EXCEPT ![c] = From(@, k + 1)]
  BY DEF Transmit
<1>2. UNCHANGED <<peer, sent, outbox, orderly, at, current>>
  BY DEF Transmit, jobVars
<1>3. /\ inbox'[c] = inbox[c] \o SubSeq(unsent[c], 1, k)
      /\ unsent'[c] = From(unsent[c], k + 1)
      /\ \A d \in Conns \ {c} : Same(d)
  BY <1>1, <1>2 DEF ServerTypes, Same, SameCounts, SameWire
<1>4. SameCounts(c) /\ at'[c] = at[c]
  BY <1>2 DEF SameCounts
<1>5. IsSeq(inbox[c]) /\ IsSeq(unsent[c]) /\ k \in 0 .. Len(unsent[c]) /\ Len(unsent[c]) # 0
  BY DEF ServerTypes, IsSeq
<1>6. ASSUME Outstanding(c) PROVE Outstanding(c)'
  <2>1. Coming(c)
    BY <1>5, <1>6, EmptyIs DEF Outstanding, Idle, Answering
  <2>2. PICK m : m = Message(Numbered(c))
    OBVIOUS
  <2>3. Message(Numbered(c))' = m
    BY <2>2, <1>4, SameMessages DEF SameCounts
  <2>4. Splits(inbox[c], unsent[c], m)
    BY <2>1, <2>2 DEF Coming
  <2>5. Splits(inbox'[c], unsent'[c], m)
    BY <2>4, <1>3, <1>5, Moved
  <2>6. Splits(inbox[c], unsent[c], Message(Numbered(c)))'
    BY <2>3, <2>5 DEF Splits
  <2>7. Coming(c)'
    BY <2>1, <2>6, <1>2 DEF Coming
  <2>8. QED
    BY <2>7 DEF Outstanding
<1>7. QED
  BY <1>3, <1>4, <1>6, TurnQuiet

LEMMA TurnStep ==
  ASSUME ServerTypes, TurnInv, [ServerNext]_serverVars
  PROVE  TurnInv'
<1>1. CASE UNCHANGED connVars
  BY <1>1, TurnSame DEF TurnInv, Same, SameCounts, SameWire, connVars, jobVars
<1>2. ASSUME NEW w \in Workers, NEW c \in Conns, JobStep(w, c) PROVE TurnInv'
  BY <1>2, MoveTurn, ReadTurn, WriteTurn, CloseTurn DEF JobStep
<1>3. QED
  BY <1>1, <1>2, LeaveTurn, SendTurn, TransmitTurn, ConnectionSteps
-----------------------------------------------------------------------------
(* No answer to an earlier request after a later one.  The answers given   *)
(* are for requests up to a number d, the request that is being answered   *)
(* is one of those up to e, and the lines still to be read are of later    *)
(* ones, each later than the line before it.                               *)

IsLine(u) == u[1] = "line"

Ascending(s) ==
  \A i, j \in DOMAIN s : i < j /\ s[i].id # 0 /\ s[j].id # 0 => s[i].id < s[j].id

Lines(s, e, b) ==
  /\ \A i \in 1 .. Len(s) : IsLine(s[i]) => s[i][2].id \in e + 1 .. b
  /\ \A i, j \in 1 .. Len(s) :
       i < j /\ IsLine(s[i]) /\ IsLine(s[j]) => s[i][2].id < s[j][2].id

(* What is unsent of the n-th request: its line comes first or is gone.    *)
Fresh(s, n) ==
  /\ Len(s) # 0 /\ IsLine(s[1]) => s[1][2].id = n
  /\ \A i \in 2 .. Len(s) : ~IsLine(s[i])

(* How many requests have begun to arrive.                                 *)
Begun(s, n) == IF Len(s) # 0 /\ IsLine(s[1]) THEN n - 1 ELSE n

Numbers(c, d, e) ==
  /\ d <= e /\ e <= Begun(unsent[c], Len(sent[c]))
  /\ \A i \in DOMAIN outbox[c] : outbox[c][i].id \in 0 .. d
  /\ at[c] \in {"handler", "write"} => current[c].id = 0 \/ current[c].id \in d + 1 .. e
  /\ Lines(inbox[c], e, Begun(unsent[c], Len(sent[c])))

Ranked(c) ==
  /\ Ascending(outbox[c]) /\ Fresh(unsent[c], Len(sent[c]))
  /\ \E d, e \in Nat : Numbers(c, d, e)

RankInv == \A c \in Conns : Ranked(c)

LEMMA RankInitially == ServerInit => RankInv
<1> SUFFICES ASSUME ServerInit, NEW c \in Conns PROVE Ranked(c)
  BY DEF RankInv
<1>1. /\ at[c] = "poll0" /\ sent[c] = <<>> /\ outbox[c] = <<>> /\ inbox[c] = <<>>
      /\ unsent[c] = <<>>
  BY DEF ServerInit
<1>2. Ascending(<<>>) /\ Fresh(<<>>, 0) /\ Begun(<<>>, 0) = 0 /\ Lines(<<>>, 0, 0)
  BY EmptyIs DEF Ascending, Fresh, Begun, Lines
<1>3. Len(sent[c]) = 0 /\ DOMAIN outbox[c] = {}
  BY <1>1
<1>4. Numbers(c, 0, 0)
  BY <1>1, <1>2, <1>3 DEF Numbers
<1>5. QED
  BY <1>1, <1>2, <1>3, <1>4 DEF Ranked

LEMMA RankElsewhere ==
  ASSUME RankInv, NEW c \in Conns, Ranked(c)',
         \A d \in Conns \ {c} : Same(d)
  PROVE  RankInv'
<1>1. ASSUME NEW a \in Conns \ {c} PROVE Ranked(a)'
  <2>1. Ranked(a)
    BY DEF RankInv
  <2>2. PICK d \in Nat, e \in Nat : Numbers(a, d, e)
    BY <2>1 DEF Ranked
  <2>3. Numbers(a, d, e)'
    BY <2>2 DEF Numbers, Same, SameCounts, SameWire
  <2>4. Ascending(outbox'[a]) /\ Fresh(unsent'[a], Len(sent'[a]))
    BY <2>1 DEF Ranked, Same, SameCounts, SameWire
  <2>5. QED
    BY <2>3, <2>4 DEF Ranked
<1>2. QED
  BY <1>1 DEF RankInv

(* What is read goes to the front, and with its line the number rises.     *)
LEMMA LinesCut ==
  ASSUME NEW s, IsSeq(s), NEW e \in Nat, NEW b \in Nat, e <= b, Lines(s, e, b),
         NEW n \in 1 .. Len(s), NEW h,
         \/ IsLine(s[1]) /\ h = s[1][2].id
         \/ h = e /\ ~IsLine(s[1])
  PROVE  h \in Nat /\ e <= h /\ h <= b /\ Lines(From(s, n + 1), h, b)
<1> DEFINE t == From(s, n + 1)
<1>1. PICK k \in Nat : k = Len(s)
  BY DEF IsSeq
<1>2. n \in Nat /\ 1 <= n /\ n <= k
  BY <1>1
<1>3. /\ \A i \in 1 .. k : IsLine(s[i]) => s[i][2].id \in e + 1 .. b
      /\ \A i, j \in 1 .. k : i < j /\ IsLine(s[i]) /\ IsLine(s[j]) => s[i][2].id < s[j][2].id
  BY <1>1 DEF Lines
<1>4. h \in Nat /\ e <= h /\ h <= b
  BY <1>2, <1>3
<1>5. Len(t) = k - n /\ \A i \in 1 .. k - n : t[i] = s[n + i]
  BY <1>1, <1>2, CutAt
<1> HIDE DEF t
<1>6. ASSUME NEW i \in 1 .. k - n, IsLine(t[i]) PROVE t[i][2].id \in h + 1 .. b
  <2>1. n + i \in 1 .. k /\ 1 < n + i /\ t[i] = s[n + i] /\ 1 \in 1 .. k
    BY <1>2, <1>5
  <2>2. PICK x : x = s[n + i] /\ IsLine(x) /\ x[2].id \in e + 1 .. b
    BY <1>3, <1>6, <2>1
  <2>3. IsLine(s[1]) => h < x[2].id
    BY <1>3, <2>1, <2>2
  <2>4. x[2].id \in h + 1 .. b
    BY <1>4, <2>2, <2>3
  <2>5. QED
    BY <2>1, <2>2, <2>4
<1>7. ASSUME NEW i \in 1 .. k - n, NEW j \in 1 .. k - n, i < j, IsLine(t[i]), IsLine(t[j])
      PROVE  t[i][2].id < t[j][2].id
  <2>1. n + i \in 1 .. k /\ n + j \in 1 .. k /\ n + i < n + j
    BY <1>2, <1>7
  <2>2. t[i] = s[n + i] /\ t[j] = s[n + j]
    BY <1>5
  <2>3. QED
    BY <1>3, <1>7, <2>1, <2>2
<1>8. Lines(t, h, b)
  BY <1>5, <1>6, <1>7 DEF Lines
<1>9. QED
  BY <1>4, <1>8 DEF t

(* What arrives goes to the end, and has at most the newest line.          *)
LEMMA LinesJoin ==
  ASSUME NEW s, IsSeq(s), NEW t, IsSeq(t), NEW e \in Nat, NEW n \in Nat,
         e <= Begun(t, n), Lines(s, e, Begun(t, n)), Fresh(t, n), NEW k \in 1 .. Len(t)
  PROVE  /\ Begun(From(t, k + 1), n) = n /\ Fresh(From(t, k + 1), n)
         /\ e <= n /\ Lines(s \o SubSeq(t, 1, k), e, n)
<1> DEFINE first == SubSeq(t, 1, k)
           more == s \o first
           rest == From(t, k + 1)
<1>1. PICK a \in Nat, b \in Nat : a = Len(s) /\ b = Len(t)
  BY DEF IsSeq
<1>2. k \in Nat /\ 1 <= k /\ k <= b
  BY <1>1
<1>3. k \in 0 .. Len(t)
  BY <1>1, <1>2
<1>4. /\ IsSeq(first) /\ Len(first) = k /\ \A i \in 1 .. k : first[i] = t[i]
      /\ Len(rest) = b - k /\ \A i \in 1 .. b - k : rest[i] = t[k + i]
  BY <1>1, <1>3, CutAt
<1> HIDE DEF first, rest
<1>5. Joins(more, s, first)
  BY <1>4, Joined
<1> HIDE DEF more
<1>6. /\ Len(more) = a + k /\ \A i \in 1 .. a : more[i] = s[i]
      /\ \A i \in 1 .. k : more[a + i] = first[i]
  BY <1>1, <1>4, <1>5 DEF Joins
<1>7. /\ \A i \in 2 .. b : ~IsLine(t[i])
      /\ IsLine(t[1]) => t[1][2].id = n
  BY <1>1, <1>2 DEF Fresh
<1>8. \A i \in 1 .. b - k : ~IsLine(rest[i])
  <2>1. ASSUME NEW i \in 1 .. b - k PROVE ~IsLine(rest[i])
    <3>1. k + i \in 2 .. b
      BY <1>2
    <3>2. QED
      BY <3>1, <1>4, <1>7
  <2>2. QED
    BY <2>1
<1>9. Begun(rest, n) = n /\ Fresh(rest, n)
  <2>1. Len(rest) # 0 => 1 \in 1 .. b - k
    BY <1>2, <1>4
  <2>2. ~(Len(rest) # 0 /\ IsLine(rest[1]))
    BY <2>1, <1>8
  <2>3. \A i \in 2 .. Len(rest) : i \in 1 .. b - k
    BY <1>2, <1>4
  <2>4. QED
    BY <2>2, <2>3, <1>8 DEF Begun, Fresh
<1>10. PICK g \in Int : /\ g = Begun(t, n) /\ e <= g /\ g <= n
                        /\ IsLine(t[1]) => g = n - 1
  BY <1>1, <1>2 DEF Begun
<1>11. /\ \A i \in 1 .. a : IsLine(s[i]) => s[i][2].id \in e + 1 .. g
       /\ \A i, j \in 1 .. a : i < j /\ IsLine(s[i]) /\ IsLine(s[j]) => s[i][2].id < s[j][2].id
  BY <1>1, <1>10 DEF Lines
<1>12. ASSUME NEW i \in 1 .. a + k, IsLine(more[i])
       PROVE  \/ i \in 1 .. a /\ more[i] = s[i]
              \/ i = a + 1 /\ more[i] = t[1] /\ IsLine(t[1]) /\ t[1][2].id = n /\ g = n - 1
  <2>1. CASE i <= a
    BY <2>1, <1>6
  <2>2. CASE i > a
    <3>1. i - a \in 1 .. k /\ i = a + (i - a) /\ i - a \in 1 .. b
      BY <2>2, <1>2
    <3>2. more[i] = t[i - a]
      BY <3>1, <1>4, <1>6
    <3>3. i - a \notin 2 .. b
      BY <3>2, <1>7, <1>12
    <3>4. i - a = 1
      BY <3>1, <3>3
    <3>5. QED
      BY <3>2, <3>4, <1>7, <1>10, <1>12
  <2>3. QED
    BY <2>1, <2>2
<1>13. ASSUME NEW i \in 1 .. a + k, IsLine(more[i]) PROVE more[i][2].id \in e + 1 .. n
  <2>1. CASE i \in 1 .. a /\ more[i] = s[i]
    BY <2>1, <1>10, <1>11, <1>13
  <2>2. CASE more[i] = t[1] /\ t[1][2].id = n /\ g = n - 1
    BY <2>2, <1>10
  <2>3. QED
    BY <2>1, <2>2, <1>12, <1>13
<1>14. ASSUME NEW i \in 1 .. a + k, NEW j \in 1 .. a + k, i < j,
              IsLine(more[i]), IsLine(more[j])
       PROVE  more[i][2].id < more[j][2].id
  <2>1. i \in 1 .. a /\ more[i] = s[i]
    <3>1. i # a + 1 \/ j \notin 1 .. a + 1
      BY <1>14
    <3>2. j \in 1 .. a + 1
      BY <1>12, <1>14
    <3>3. QED
      BY <1>12, <1>14, <3>1, <3>2
  <2>2. CASE j \in 1 .. a /\ more[j] = s[j]
    BY <2>1, <2>2, <1>11, <1>14
  <2>3. CASE more[j] = t[1] /\ t[1][2].id = n /\ g = n - 1
    <3>1. s[i][2].id \in e + 1 .. g
      BY <2>1, <1>11, <1>14
    <3>2. QED
      BY <2>1, <2>3, <3>1
  <2>4. QED
    BY <2>2, <2>3, <1>12, <1>14
<1>15. Lines(more, e, n)
  BY <1>6, <1>13, <1>14 DEF Lines
<1>16. QED
  BY <1>9, <1>10, <1>15 DEF more, first, rest

(* Whose request an outcome is of.                                         *)
LEMMA WhoseOutcome ==
  ASSUME NEW wire, NEW ending, NEW o \in Outcomes(wire, ending)
  PROVE  o.id = 0 \/ (IsUnit(wire, "line") /\ o.id = Head(wire)[2].id)
<1> DEFINE r == Head(wire)[2]
           headless == [Nobody EXCEPT !.id = r.id]
<1>1. Nobody.id = 0 /\ headless.id = r.id
  BY DEF Nobody
<1>2. ASSUME NEW status, NEW runs, NEW rest, NEW closed
      PROVE  /\ Outcome(status, runs, rest, closed, Nobody).id = 0
             /\ Outcome(status, runs, rest, closed, headless).id = r.id
             /\ Outcome(status, runs, rest, closed, r).id = r.id
  <2> HIDE DEF headless, r
  <2>1. QED
    BY <1>1, OutcomeIs
<1>3. ASSUME NEW rest PROVE Routing(r, rest, ending).id = r.id
  <2> DEFINE content == IF ExpectContent(r) THEN ReadContent(r, rest, ending)
                        ELSE [status |-> 200, rest |-> rest]
             then == content.rest
             closed == ConnectionClosed(r)
             x == Routing(r, rest, ending)
  <2>1. \/ x = Outcome(content.status, "none", then, closed, r)
        \/ x = Outcome(400, "none", then, closed, r)
        \/ x = Outcome(IF Route(r) = "none" THEN 404 ELSE 200, Route(r), then, closed, r)
    BY DEF Routing
  <2> HIDE DEF content, then, closed, x, r
  <2>2. x.id = r.id
    BY <2>1, <1>2
  <2>3. QED
    BY <2>2 DEF x
<1> DEFINE p == Process(wire, ending)
<1>4. CASE ~IsUnit(wire, "line")
  <2>1. o = p
    BY <1>4 DEF Outcomes
  <2>2. \E status, rest, closed : p = Outcome(status, "none", rest, closed, Nobody)
    BY ZenonT(60), <1>4 DEF Process, Garbage
  <2> HIDE DEF p
  <2>3. QED
    BY <2>1, <2>2, <1>2
<1>5. CASE IsUnit(wire, "line")
  <2>1. wire # <<>>
    BY <1>5 DEF IsUnit
  <2>2. \/ \E status, rest, closed : p = Outcome(status, "none", rest, closed, headless)
        \/ \E status, rest, closed : p = Outcome(status, "none", rest, closed, r)
        \/ \E rest : p = Routing(r, rest, ending)
    <3>1. CASE "line" \in r.flaws
      BY ZenonT(60), <1>5, <2>1, <3>1 DEF Process
    <3>2. CASE "line" \notin r.flaws /\ ~IsUnit(Tail(wire), "head")
      BY ZenonT(60), <1>5, <2>1, <3>2 DEF Process
    <3>3. CASE "line" \notin r.flaws /\ IsUnit(Tail(wire), "head")
      <4> DEFINE tail == Tail(wire)
                 rest == From(wire, 3)
                 later == From(rest, LineEnd(rest) + 1)
                 closed == ConnectionClosed(r)
                 open == FALSE
      <4>1. p = IF "header" \in r.flaws THEN Outcome(400, "none", tail, open, r)
                ELSE IF "target" \in r.flaws THEN Outcome(414, "none", later, open, r)
                ELSE IF "accept" \in r.flaws THEN Outcome(400, "none", rest, closed, r)
                ELSE IF "range" \in r.flaws THEN Outcome(416, "none", rest, closed, r)
                ELSE Routing(r, rest, ending)
        BY <1>5, <2>1, <3>3 DEF Process
      <4> HIDE DEF p, tail, rest, later, closed, open, r, headless
      <4>2. QED
        BY <4>1
    <3>4. QED
      BY <3>1, <3>2, <3>3
  <2> HIDE DEF p, headless, r
  <2>3. p.id = r.id
    BY <2>2, <1>2, <1>3
  <2>4. o = p \/ \E rest, closed : o = Outcome(400, "none", rest, closed, r)
    BY DEF Outcomes, p, r
  <2>5. o.id = r.id
    BY <2>3, <2>4, <1>2
  <2>6. QED
    BY <2>5, <1>5 DEF r
<1>6. QED
  BY <1>4, <1>5

LEMMA ReadRank ==
  ASSUME ServerTypes, RankInv, NEW w \in Workers, NEW c \in Conns, ReadRequest(w, c)
  PROVE  RankInv'
<1>1. PICK ending, found, n, kept, next :
        /\ ending \in {"closed", "silent"} /\ found \in Outcomes(inbox[c], ending)
        /\ Kept(found) /\ Kin(kept, found)
        /\ n \in 0 .. Len(inbox[c])
        /\ n + Len(found.rest) >= Len(inbox[c]) /\ (n = 0 => inbox[c] = <<>>)
        /\ inbox' = [inbox EXCEPT ![c] = From(inbox[c], n + 1)]
        /\ current' = [current EXCEPT ![c] = kept]
        /\ at' = [at EXCEPT ![c] = next]
        /\ next \in {"close", "handler", "write"}
        /\ next = "close" <=> found.status = 0
        /\ next = "handler" => found.runs # "none"
  BY ReadStep
<1>2. /\ orderly' = [orderly EXCEPT ![c] = @ /\ (StillReading(inbox[c]) => unsent[c] = <<>>)]
      /\ UNCHANGED <<peer, unsent, sent, outbox>>
  BY DEF ReadRequest
<1>3. /\ inbox'[c] = From(inbox[c], n + 1) /\ current'[c] = kept
      /\ \A d \in Conns \ {c} : Same(d)
  BY <1>1, <1>2 DEF ServerTypes, Same, SameCounts, SameWire
<1>4. Ranked(c) /\ IsSeq(inbox[c])
  BY DEF RankInv, ServerTypes
<1>5. PICK d \in Nat, e \in Nat : Numbers(c, d, e)
  BY <1>4 DEF Ranked
<1>6. PICK b : b = Begun(unsent[c], Len(sent[c]))
  OBVIOUS
<1>7. /\ d <= e /\ e <= b /\ Lines(inbox[c], e, b)
      /\ \A i \in DOMAIN outbox[c] : outbox[c][i].id \in 0 .. d
  BY <1>5, <1>6 DEF Numbers
<1>8. b \in Int
  BY <1>6, SeqIs DEF Begun, ServerTypes, IsSeq
<1>9. b \in Nat
  BY <1>7, <1>8
<1>10. kept.id = found.id
  BY <1>1 DEF Kin
<1>11. \E h \in Nat : /\ d <= h /\ h <= b /\ Lines(inbox'[c], h, b)
                      /\ kept.id = 0 \/ kept.id \in d + 1 .. h
  <2>1. CASE inbox[c] = <<>>
    <3>1. kept.id = 0
      BY <2>1, <1>1, <1>10, WhoseOutcome DEF IsUnit
    <3>2. inbox'[c] = <<>>
      <4>1. n = 0
        BY <2>1, <1>1, EmptyIs
      <4>2. IsSeq(From(inbox[c], n + 1)) /\ Len(From(inbox[c], n + 1)) = 0
        <5>1. 0 \in 0 .. Len(inbox[c]) /\ Len(inbox[c]) = 0
          BY <2>1, EmptyIs
        <5>2. IsSeq(From(inbox[c], 0 + 1)) /\ Len(From(inbox[c], 0 + 1)) = Len(inbox[c]) - 0
          BY <5>1, <1>4, CutAt
        <5>3. QED
          BY <4>1, <5>1, <5>2
      <4>3. QED
        BY <4>2, <1>3, EmptyIs, SameSequence
    <3>3. Lines(<<>>, e, b)
      BY EmptyIs DEF Lines
    <3>4. QED
      BY <3>1, <3>2, <3>3, <1>7
  <2>2. CASE inbox[c] # <<>>
    <3>1. n \in 1 .. Len(inbox[c])
      BY <2>2, <1>1, <1>4 DEF IsSeq
    <3>2. Head(inbox[c]) = inbox[c][1]
      <4>1. PICK S : inbox[c] \in Seq(S)
        BY <1>4, IsSeqOf
      <4>2. QED
        BY <2>2, <4>1
    <3>3. kept.id = 0 \/ (IsLine(inbox[c][1]) /\ kept.id = inbox[c][1][2].id)
      BY <3>2, <1>1, <1>10, WhoseOutcome DEF IsUnit, IsLine
    <3>4. CASE IsLine(inbox[c][1])
      <4>1. PICK h : h = inbox[c][1][2].id
        OBVIOUS
      <4>2. h \in Nat /\ e <= h /\ h <= b /\ Lines(From(inbox[c], n + 1), h, b)
        BY <3>1, <3>4, <4>1, <1>4, <1>7, <1>9, LinesCut
      <4>3. h \in e + 1 .. b
        <5>1. 1 \in 1 .. Len(inbox[c])
          BY <3>1, <1>4 DEF IsSeq
        <5>2. QED
          BY <5>1, <3>4, <4>1, <1>7 DEF Lines
      <4>4. kept.id = 0 \/ kept.id \in d + 1 .. h
        BY <3>3, <4>1, <4>2, <4>3, <1>7
      <4>5. QED
        BY <4>2, <4>4, <1>3, <1>7
    <3>5. CASE ~IsLine(inbox[c][1])
      <4>1. Lines(From(inbox[c], n + 1), e, b)
        BY <3>1, <3>5, <1>4, <1>7, <1>9, LinesCut
      <4>2. QED
        BY <3>3, <3>5, <4>1, <1>3, <1>7
    <3>6. QED
      BY <3>4, <3>5
  <2>3. QED
    BY <2>1, <2>2
<1>12. PICK h \in Nat : /\ d <= h /\ h <= b /\ Lines(inbox'[c], h, b)
                        /\ kept.id = 0 \/ kept.id \in d + 1 .. h
  BY <1>11
<1>13. Numbers(c, d, h)'
  BY <1>2, <1>3, <1>6, <1>7, <1>12 DEF Numbers
<1>14. Ranked(c)'
  BY <1>2, <1>4, <1>13 DEF Ranked
<1>15. QED
  BY <1>3, <1>14, RankElsewhere

LEMMA WriteRank ==
  ASSUME ServerTypes, RankInv, NEW w \in Workers, NEW c \in Conns, WriteAnswer(w, c)
  PROVE  RankInv'
<1> DEFINE answer == [id |-> current[c].id, status |-> current[c].status, close |-> Announced(c)]
           old == outbox[c]
           new == outbox'[c]
<1>1. /\ at[c] = "write"
      /\ outbox' = [outbox EXCEPT ![c] = IF peer[c] = "gone" THEN old ELSE Append(old, answer)]
      /\ \E next \in {"poll0", "close"} : at' = [at EXCEPT ![c] = next]
      /\ current' = [current EXCEPT ![c] = Nothing]
      /\ UNCHANGED <<peer, unsent, inbox, sent, orderly>>
  BY DEF WriteAnswer, Works
<1>2. /\ IsSeq(old) /\ at'[c] \in {"poll0", "close"} /\ \A d \in Conns \ {c} : Same(d)
      /\ new = old \/ new = Append(old, answer)
  BY <1>1 DEF ServerTypes, Same, SameCounts, SameWire
<1>3. answer.id = current[c].id
  OBVIOUS
<1>4. Ranked(c)
  BY DEF RankInv
<1>5. PICK d \in Nat, e \in Nat : Numbers(c, d, e)
  BY <1>4 DEF Ranked
<1>6. PICK k : k = answer.id
  OBVIOUS
<1>7. /\ d <= e /\ (k = 0 \/ k \in d + 1 .. e)
      /\ \A i \in DOMAIN old : old[i].id \in 0 .. d
      /\ Ascending(old)
  BY <1>1, <1>3, <1>4, <1>5, <1>6 DEF Numbers, Ranked
<1> HIDE DEF answer, old, new
<1>8. /\ \A i \in DOMAIN new : new[i].id \in 0 .. e
      /\ Ascending(new)
  <2>1. CASE new = old
    BY <2>1, <1>7
  <2>2. CASE new = Append(old, answer)
    <3>1. PICK n \in Nat : n = Len(old)
      BY <1>2 DEF IsSeq
    <3>2. /\ DOMAIN old = 1 .. n /\ DOMAIN new = 1 .. n + 1
          /\ new[n + 1] = answer /\ \A i \in 1 .. n : new[i] = old[i]
      BY <1>2, <2>2, <3>1, AppendTo
    <3>3. \A i \in 1 .. n : new[i].id \in 0 .. d
      BY <3>2, <1>7
    <3>4. new[n + 1].id = k
      BY <3>2, <1>6
    <3>5. \A i \in DOMAIN new : i \in 1 .. n \/ i = n + 1
      BY <3>1, <3>2
    <3>6. \A i \in DOMAIN new : new[i].id \in 0 .. e
      BY <3>3, <3>4, <3>5, <1>7
    <3>7. ASSUME NEW i \in DOMAIN new, NEW j \in DOMAIN new, i < j, new[i].id # 0,
                 new[j].id # 0
          PROVE  new[i].id < new[j].id
      <4>1. i \in 1 .. n
        BY <3>1, <3>2, <3>7
      <4>2. CASE j \in 1 .. n
        BY <3>2, <3>7, <4>1, <4>2, <1>7 DEF Ascending
      <4>3. CASE j = n + 1
        BY <3>3, <3>4, <3>7, <4>1, <4>3, <1>7
      <4>4. QED
        BY <3>5, <4>2, <4>3
    <3>8. QED
      BY <3>6, <3>7 DEF Ascending
  <2>3. QED
    BY <1>2, <2>1, <2>2
<1>9. Numbers(c, e, e)'
  BY <1>1, <1>2, <1>5, <1>8 DEF Numbers, new
<1>10. Ranked(c)'
  BY <1>1, <1>4, <1>8, <1>9 DEF Ranked, new
<1>11. QED
  BY <1>2, <1>10, RankElsewhere

(* Steps after which fewer units are on the connection.                    *)
LEMMA DroppedRank ==
  ASSUME ServerTypes, RankInv, NEW c \in Conns,
         sent' = sent, outbox' = outbox, unsent'[c] = <<>>,
         inbox'[c] = <<>> \/ inbox'[c] = inbox[c],
         at'[c] = at[c], at[c] # "close" => current'[c] = current[c],
         \A d \in Conns \ {c} : Same(d)
  PROVE  RankInv'
<1>1. Ranked(c)
  BY DEF RankInv
<1>2. PICK d \in Nat, e \in Nat : Numbers(c, d, e)
  BY <1>1 DEF Ranked
<1>3. PICK n \in Nat : n = Len(sent[c])
  BY LenProperties DEF ServerTypes
<1>4. PICK b : b = Begun(unsent[c], n)
  OBVIOUS
<1>5. b \in Int /\ b <= n
  BY <1>3, <1>4 DEF Begun
<1>6. Begun(<<>>, n) = n /\ Fresh(<<>>, n)
  BY <1>3, EmptyIs DEF Begun, Fresh
<1>7. d <= e /\ e <= b /\ Lines(inbox[c], e, b)
  BY <1>2, <1>3, <1>4 DEF Numbers
<1>8. Lines(inbox'[c], e, n)
  <2>1. Lines(inbox[c], e, n)
    <3>1. \A x \in e + 1 .. b : x \in e + 1 .. n
      BY <1>3, <1>5
    <3>2. QED
      BY <1>7, <3>1 DEF Lines
  <2>2. Lines(<<>>, e, n)
    BY EmptyIs DEF Lines
  <2>3. QED
    BY <2>1, <2>2
<1>9. e <= n
  BY <1>3, <1>5, <1>7
<1>10. Numbers(c, d, e)'
  BY <1>2, <1>3, <1>6, <1>8, <1>9 DEF Numbers
<1>11. Ranked(c)'
  BY <1>1, <1>3, <1>6, <1>10 DEF Ranked
<1>12. QED
  BY <1>11, RankElsewhere

LEMMA SendRank ==
  ASSUME ServerTypes, RankInv, NEW c \in Conns, NEW r \in Requests[c], Send(c, r)
  PROVE  RankInv'
<1> DEFINE m == Message([r EXCEPT !.id = Len(sent[c]) + 1])
<1>1. /\ unsent[c] = <<>> /\ unsent' = [unsent EXCEPT ![c] = m]
      /\ sent' = [sent EXCEPT ![c] = Append(@, r)]
      /\ orderly' = [orderly EXCEPT ![c] = @ /\ Len(outbox[c]) = Len(sent[c])]
      /\ UNCHANGED <<peer, inbox, outbox, at, current>>
  BY DEF Send, jobVars
<1>2. r \in Request /\ sent[c] \in Seq(Request)
  BY ServerAssumption DEF Conns, ServerTypes
<1>3. PICK n \in Nat : n = Len(sent[c])
  BY <1>2, LenProperties
<1>4. /\ Len(sent'[c]) = n + 1 /\ unsent'[c] = m
      /\ \A d \in Conns \ {c} : Same(d)
  <2>1. sent'[c] = Append(sent[c], r) /\ unsent'[c] = m /\ \A d \in Conns \ {c} : Same(d)
    BY <1>1 DEF ServerTypes, Same, SameCounts, SameWire
  <2>2. Len(Append(sent[c], r)) = n + 1
    BY <1>2, <1>3, AppendProperties
  <2>3. QED
    BY <2>1, <2>2
<1>5. PICK q \in Request : q.id = n + 1 /\ m = Message(q)
  <2>1. n + 1 \in Nat
    BY <1>3
  <2>2. QED
    BY <2>1, <1>2, <1>3, Renumbered
<1>6. /\ IsSeq(m) /\ Len(m) >= 2 /\ m[1] = Line(q)
      /\ \A i \in 2 .. Len(m) : m[i][1] # "line"
  BY <1>5, MessageIs
<1> HIDE DEF m
<1>7. IsLine(m[1]) /\ m[1][2].id = n + 1 /\ Len(m) # 0
  <2>1. Line(q)[1] = "line" /\ Line(q)[2] = q
    BY DEF Line
  <2>2. Len(m) # 0
    BY <1>6 DEF IsSeq
  <2>3. QED
    BY <2>1, <2>2, <1>5, <1>6 DEF IsLine
<1>8. Fresh(m, n + 1) /\ Begun(m, n + 1) = n + 1 - 1
  BY <1>6, <1>7 DEF Fresh, Begun, IsLine
<1>9. Begun(m, n + 1) = n /\ Begun(<<>>, n) = n
  BY <1>3, <1>8, EmptyIs DEF Begun
<1>10. Ranked(c)
  BY DEF RankInv
<1>11. PICK d \in Nat, e \in Nat : Numbers(c, d, e)
  BY <1>10 DEF Ranked
<1>12. Numbers(c, d, e)'
  BY <1>1, <1>3, <1>4, <1>9, <1>11 DEF Numbers
<1>13. Ranked(c)'
  BY <1>1, <1>4, <1>8, <1>10, <1>12 DEF Ranked
<1>14. QED
  BY <1>4, <1>13, RankElsewhere

LEMMA TransmitRank ==
  ASSUME ServerTypes, RankInv, NEW c \in Conns, Transmit(c)
  PROVE  RankInv'
<1>1. PICK k \in 1 .. Len(unsent[c]) :
        /\ inbox' = [inbox EXCEPT ![c] = @ \o SubSeq(unsent[c], 1, k)]
        /\ unsent' = [unsent EXCEPT ![c] = From(@, k + 1)]
  BY DEF Transmit
<1>2. UNCHANGED <<peer, sent, outbox, orderly, at, current>>
  BY DEF Transmit, jobVars
<1>3. /\ inbox'[c] = inbox[c] \o SubSeq(unsent[c], 1, k)
      /\ unsent'[c] = From(unsent[c], k + 1)
      /\ \A d \in Conns \ {c} : Same(d)
  BY <1>1, <1>2 DEF ServerTypes, Same, SameCounts, SameWire
<1>4. IsSeq(inbox[c]) /\ IsSeq(unsent[c])
  BY DEF ServerTypes
<1>5. PICK n \in Nat : n = Len(sent[c])
  BY LenProperties DEF ServerTypes
<1>6. Ranked(c)
  BY DEF RankInv
<1>7. PICK d \in Nat, e \in Nat : Numbers(c, d, e)
  BY <1>6 DEF Ranked
<1>8. /\ d <= e /\ e <= Begun(unsent[c], n) /\ Lines(inbox[c], e, Begun(unsent[c], n))
      /\ Fresh(unsent[c], n)
  BY <1>5, <1>6, <1>7 DEF Numbers, Ranked
<1>9. /\ Begun(unsent'[c], n) = n /\ Fresh(unsent'[c], n)
      /\ e <= n /\ Lines(inbox'[c], e, n)
  BY <1>3, <1>4, <1>8, LinesJoin
<1>10. Numbers(c, d, e)'
  BY <1>2, <1>5, <1>7, <1>9 DEF Numbers
<1>11. Ranked(c)'
  BY <1>2, <1>5, <1>6, <1>9, <1>10 DEF Ranked
<1>12. QED
  BY <1>3, <1>11, RankElsewhere

LEMMA MoveRank ==
  ASSUME ServerTypes, RankInv, NEW w \in Workers, NEW c \in Conns,
         FirstPoll(w, c) \/ Poll(w, c) \/ ReadOn(w, c) \/ Handle(w, c)
  PROVE  RankInv'
<1>1. UNCHANGED <<peer, unsent, inbox, sent, outbox, orderly, current>>
  BY MoveOn
<1>2. /\ \A d \in Conns \ {c} : at'[d] = at[d]
      /\ at'[c] \in {"handler", "write"} => at[c] \in {"handler", "write"}
  <2>1. /\ \A d \in Conns \ {c} : at'[d] = at[d]
        /\ \/ at[c] \in {"poll0", "poll", "read"} /\ at'[c] \in {"read", "poll", "close"}
           \/ at[c] = "handler" /\ at'[c] = "write"
           \/ at'[c] = at[c]
    BY MoveOn DEF ServerTypes
  <2>2. QED
    BY <2>1
<1>3. Ranked(c)
  BY DEF RankInv
<1>4. PICK d \in Nat, e \in Nat : Numbers(c, d, e)
  BY <1>3 DEF Ranked
<1>5. Numbers(c, d, e)'
  BY <1>1, <1>2, <1>4 DEF Numbers
<1>6. Ranked(c)'
  BY <1>1, <1>3, <1>5 DEF Ranked
<1>7. \A d1 \in Conns \ {c} : Same(d1)
  BY <1>1, <1>2 DEF Same, SameCounts, SameWire
<1>8. QED
  BY <1>6, <1>7, RankElsewhere

LEMMA RankStep ==
  ASSUME ServerTypes, RankInv, [ServerNext]_serverVars
  PROVE  RankInv'
<1>1. CASE UNCHANGED connVars
  <2>1. ASSUME NEW c \in Conns PROVE Ranked(c)'
    <3>1. Ranked(c)
      BY DEF RankInv
    <3>2. PICK d \in Nat, e \in Nat : Numbers(c, d, e)
      BY <3>1 DEF Ranked
    <3>3. Numbers(c, d, e)'
      BY <1>1, <3>2 DEF Numbers, connVars, jobVars
    <3>4. QED
      BY <1>1, <3>1, <3>3 DEF Ranked, connVars
  <2>2. QED
    BY <2>1 DEF RankInv
<1>2. ASSUME NEW w \in Workers, NEW c \in Conns, CloseSocket(w, c) PROVE RankInv'
  <2>1. /\ at[c] = "close" /\ UNCHANGED <<at, peer, sent, outbox, orderly>>
        /\ inbox' = [inbox EXCEPT ![c] = <<>>] /\ unsent' = [unsent EXCEPT ![c] = <<>>]
        /\ current' = [current EXCEPT ![c] = Nothing]
    BY <1>2 DEF CloseSocket
  <2>2. inbox'[c] = <<>> /\ unsent'[c] = <<>> /\ \A d \in Conns \ {c} : Same(d)
    BY <2>1 DEF ServerTypes, Same, SameCounts, SameWire
  <2>3. QED
    BY <2>1, <2>2, DroppedRank
<1>3. ASSUME NEW c \in Conns, Leave(c) PROVE RankInv'
  <2>1. /\ peer' = [peer EXCEPT ![c] = "gone"] /\ unsent' = [unsent EXCEPT ![c] = <<>>]
        /\ UNCHANGED <<inbox, sent, outbox, orderly, at, current>>
    BY <1>3 DEF Leave, jobVars
  <2>2. unsent'[c] = <<>> /\ \A d \in Conns \ {c} : Same(d)
    BY <2>1 DEF ServerTypes, Same, SameCounts, SameWire
  <2>3. QED
    BY <2>1, <2>2, DroppedRank
<1>4. ASSUME NEW w \in Workers, NEW c \in Conns, JobStep(w, c) PROVE RankInv'
  BY <1>2, <1>4, MoveRank, ReadRank, WriteRank DEF JobStep
<1>5. QED
  BY <1>1, <1>3, <1>4, SendRank, TransmitRank, ConnectionSteps

(* For every number of workers, connections and requests: whatever clients *)
(* send, pipelined, interrupted or broken off, no request is answered      *)
(* twice or after a later one; and on a connection whose client waits for  *)
(* each answer and sends plain requests with no pause as long as the       *)
(* time-out the n-th answer is the answer to the n-th request.             *)
THEOREM ServerAnswersInOrder == ServerSpec => []AnswersMatchRequests
<1>1. ServerTypes /\ (TurnInv /\ RankInv) /\ [ServerNext]_serverVars => (TurnInv /\ RankInv)'
  BY TurnStep, RankStep
<1>2. TurnInv /\ RankInv => AnswersMatchRequests
  <2> SUFFICES ASSUME TurnInv, RankInv, NEW c \in Conns
               PROVE  /\ \A i, j \in DOMAIN outbox[c] :
                           i < j /\ outbox[c][i].id # 0 /\ outbox[c][j].id # 0
                             => outbox[c][i].id < outbox[c][j].id
                      /\ orderly[c] /\ (\A i \in DOMAIN sent[c] : Plain(sent[c][i]))
                           => \A i \in DOMAIN outbox[c] : outbox[c][i].id = i
    BY DEF AnswersMatchRequests
  <2>1. Ascending(outbox[c])
    BY DEF RankInv, Ranked
  <2>2. InTurn(c)
    BY DEF TurnInv
  <2>3. QED
    BY <2>1, <2>2 DEF Ascending, InTurn, AllPlain, InOrder
<1>3. QED
  BY TurnInitially, RankInitially, TypesInvariant, <1>1, <1>2, PTL DEF ServerSpec
-----------------------------------------------------------------------------
(* A connection is given to the pool once: what is queued, and what runs,  *)
(* are different connections, all accepted and none closed.                *)

QueuedOnce ==
  /\ \A i \in DOMAIN jobs : conn[jobs[i]] = "accepted"
  /\ \A i, j \in DOMAIN jobs : jobs[i] = jobs[j] => i = j

RunOnce ==
  /\ \A w \in Running : fn[w] \in Conns /\ conn[fn[w]] = "accepted"
  /\ \A w \in Running : \A i \in DOMAIN jobs : jobs[i] # fn[w]
  /\ \A v, w \in Running : fn[v] = fn[w] => v = w

OnceInv == QueuedOnce /\ RunOnce

LEMMA OnceInitially == ServerInit => OnceInv
<1> SUFFICES ASSUME ServerInit PROVE OnceInv
  OBVIOUS
<1>1. DOMAIN jobs = {} /\ Running = {}
  BY DEF ServerInit, PoolInit, Running
<1>2. QED
  BY <1>1 DEF OnceInv, QueuedOnce, RunOnce

LEMMA OnceSame ==
  ASSUME OnceInv, UNCHANGED <<jobs, fn>>, Running' = Running,
         \A c \in Conns : conn[c] = "accepted" => conn'[c] = "accepted",
         PoolTypeOK
  PROVE  OnceInv'
<1>1. \A i \in DOMAIN jobs : jobs[i] \in Conns
  BY DEF PoolTypeOK, Conns
<1>2. QueuedOnce'
  BY <1>1 DEF OnceInv, QueuedOnce
<1>3. \A w \in Running : conn'[fn[w]] = "accepted"
  BY DEF OnceInv, RunOnce
<1>4. RunOnce'
  BY <1>3 DEF OnceInv, RunOnce
<1>5. QED
  BY <1>2, <1>4 DEF OnceInv

(* The pool's own steps, but for the end of a job.                         *)
LEMMA PoolOnce ==
  ASSUME PoolTypeOK, OnceInv, conn' = conn,
         \/ Shutdown \/ CallerStep
         \/ \E w \in Workers : WorkerStep(w) \/ WakeSpuriously(w)
  PROVE  OnceInv'
<1>1. ASSUME NEW w \in Workers, TakeJob(w) PROVE OnceInv'
  <2>1. /\ jobs \in Seq(Tasks) /\ jobs # <<>> /\ jobs' = Tail(jobs)
        /\ fn' = [fn EXCEPT ![w] = Head(jobs)]
        /\ worker' = [worker EXCEPT ![w] = "running"] /\ worker[w] = "test"
    BY <1>1 DEF TakeJob, PoolTypeOK
  <2>2. /\ Len(jobs) \in Nat /\ DOMAIN jobs = 1 .. Len(jobs) /\ 1 \in DOMAIN jobs
        /\ DOMAIN jobs' = 1 .. Len(jobs) - 1
        /\ \A i \in DOMAIN jobs' : jobs'[i] = jobs[i + 1] /\ i + 1 \in DOMAIN jobs
        /\ Head(jobs) = jobs[1] /\ jobs[1] \in Conns
    <3>1. Len(jobs) \in Nat /\ DOMAIN jobs = 1 .. Len(jobs) /\ Len(jobs) # 0
      BY <2>1, EmptySeq, LenProperties
    <3>2. Tail(jobs) \in Seq(Tasks) /\ Len(Tail(jobs)) = Len(jobs) - 1
          /\ \A i \in 1 .. Len(Tail(jobs)) : Tail(jobs)[i] = jobs[i + 1]
      BY <2>1, HeadTailProperties
    <3>3. DOMAIN Tail(jobs) = 1 .. Len(jobs) - 1
      BY <3>2, LenProperties
    <3>4. Head(jobs) = jobs[1] /\ jobs[1] \in Conns
      BY <2>1, <3>1 DEF Conns
    <3>5. QED
      BY <2>1, <3>1, <3>2, <3>3, <3>4
  <2>3. /\ Running' = Running \cup {w} /\ w \notin Running /\ fn'[w] = jobs[1]
        /\ \A v \in Running : fn'[v] = fn[v]
    BY <2>1, <2>2 DEF Running, PoolTypeOK
  <2>4. QueuedOnce'
    <3>1. \A i \in DOMAIN jobs' : conn'[jobs'[i]] = "accepted"
      BY <2>2 DEF OnceInv, QueuedOnce
    <3>2. ASSUME NEW i \in DOMAIN jobs', NEW j \in DOMAIN jobs', jobs'[i] = jobs'[j]
          PROVE  i = j
      <4>1. i + 1 = j + 1
        BY <2>2, <3>2 DEF OnceInv, QueuedOnce
      <4>2. QED
        BY <2>2, <4>1
    <3>3. QED
      BY <3>1, <3>2 DEF QueuedOnce
  <2>5. \A i \in DOMAIN jobs' : jobs'[i] # jobs[1]
    <3>1. ASSUME NEW i \in DOMAIN jobs', jobs'[i] = jobs[1] PROVE FALSE
      <4>1. i + 1 = 1
        BY <2>2, <3>1 DEF OnceInv, QueuedOnce
      <4>2. QED
        BY <2>2, <4>1
    <3>2. QED
      BY <3>1
  <2>6. \A v \in Running' : fn'[v] \in Conns /\ conn'[fn'[v]] = "accepted"
    BY <2>2, <2>3 DEF OnceInv, RunOnce, QueuedOnce
  <2>7. \A v \in Running' : \A i \in DOMAIN jobs' : jobs'[i] # fn'[v]
    BY <2>2, <2>3, <2>5 DEF OnceInv, RunOnce
  <2>8. \A u, v \in Running' : fn'[u] = fn'[v] => u = v
    BY <2>2, <2>3 DEF OnceInv, RunOnce
  <2>9. QED
    BY <2>4, <2>6, <2>7, <2>8 DEF OnceInv, RunOnce
<1>2. ASSUME NEW w \in Workers, Block(w) \/ Exit(w) \/ WakeSpuriously(w) PROVE OnceInv'
  <2>1. jobs' = jobs /\ fn' = fn /\ Running' = Running
    BY <1>2 DEF Block, Exit, WakeSpuriously, PoolTypeOK, Running
  <2>2. QED
    BY <2>1, OnceSame
<1>3. CASE Shutdown \/ CallerStep
  <2>1. jobs' = jobs /\ fn' = fn
    BY <1>3 DEF Shutdown, CallerStep, NotifyOne, NotifyAll, Join
  <2>2. Running' = Running
    <3>1. CASE Shutdown \/ Join
      BY <3>1 DEF Shutdown, Join, Running
    <3>2. CASE NotifyOne
      BY <3>2 DEF NotifyOne, PoolTypeOK, Running
    <3>3. CASE NotifyAll
      BY <3>3 DEF NotifyAll, PoolTypeOK, Running
    <3>4. QED
      BY <1>3, <3>1, <3>2, <3>3 DEF CallerStep
  <2>3. QED
    BY <2>1, <2>2, OnceSame
<1>4. QED
  BY <1>1, <1>2, <1>3 DEF WorkerStep

LEMMA AcceptOnce ==
  ASSUME PoolTypeOK, ConnTypeOK, OnceInv, NEW c \in Conns, Accept(c)
  PROVE  OnceInv'
<1>1. conn[c] = "backlog"
  BY DEF Accept
<1>2. CASE Enqueue(c) /\ conn' = [conn EXCEPT ![c] = "accepted"]
  <2>1. /\ jobs' = Append(jobs, c) /\ UNCHANGED <<worker, fn>> /\ IsSeq(jobs)
        /\ conn'[c] = "accepted" /\ \A d \in Conns \ {c} : conn'[d] = conn[d]
    BY <1>2, SeqIs DEF Enqueue, PoolTypeOK, ConnTypeOK
  <2>2. /\ DOMAIN jobs = 1 .. Len(jobs) /\ DOMAIN jobs' = 1 .. Len(jobs) + 1
        /\ jobs'[Len(jobs) + 1] = c /\ \A i \in 1 .. Len(jobs) : jobs'[i] = jobs[i]
        /\ Len(jobs) \in Nat
    BY <2>1, AppendTo DEF IsSeq
  <2>3. \A i \in DOMAIN jobs : jobs[i] \in Conns /\ conn[jobs[i]] = "accepted"
    BY DEF PoolTypeOK, Conns, OnceInv, QueuedOnce
  <2>4. ASSUME NEW i \in DOMAIN jobs'
        PROVE  \/ i = Len(jobs) + 1 /\ jobs'[i] = c
               \/ i \in DOMAIN jobs /\ jobs'[i] = jobs[i] /\ jobs[i] # c
    BY <1>1, <2>2, <2>3
  <2>5. QueuedOnce'
    <3>1. \A i \in DOMAIN jobs' : conn'[jobs'[i]] = "accepted"
      BY <2>1, <2>3, <2>4
    <3>2. \A i, j \in DOMAIN jobs' : jobs'[i] = jobs'[j] => i = j
      BY <2>4 DEF OnceInv, QueuedOnce
    <3>3. QED
      BY <3>1, <3>2 DEF QueuedOnce
  <2>6. Running' = Running
    BY <2>1 DEF Running
  <2>7. \A w \in Running : fn[w] \in Conns /\ conn[fn[w]] = "accepted" /\ fn[w] # c
    BY <1>1 DEF OnceInv, RunOnce
  <2>8. \A w \in Running : \A i \in DOMAIN jobs' : jobs'[i] # fn[w]
    BY <2>4, <2>7 DEF OnceInv, RunOnce
  <2>9. RunOnce'
    BY <2>1, <2>6, <2>7, <2>8 DEF OnceInv, RunOnce
  <2>10. QED
    BY <2>5, <2>9 DEF OnceInv
<1>3. CASE conn' = [conn EXCEPT ![c] = "closed"] /\ UNCHANGED poolVars
  <2>1. \A d \in Conns : conn[d] = "accepted" => conn'[d] = "accepted"
    BY <1>1, <1>3 DEF ConnTypeOK
  <2>2. UNCHANGED <<jobs, fn>> /\ Running' = Running
    BY <1>3 DEF poolVars, Running
  <2>3. QED
    BY <2>1, <2>2, OnceSame
<1>4. QED
  BY <1>2, <1>3 DEF Accept

LEMMA CloseOnce ==
  ASSUME PoolTypeOK, ConnTypeOK, OnceInv, NEW w \in Workers, NEW c \in Conns,
         CloseSocket(w, c)
  PROVE  OnceInv'
<1>1. /\ worker[w] = "running" /\ fn[w] = c /\ jobs' = jobs
      /\ conn' = [conn EXCEPT ![c] = "closed"]
      /\ worker' = [worker EXCEPT ![w] = "test"] /\ fn' = [fn EXCEPT ![w] = NoTask]
  BY DEF CloseSocket, JobDone
<1>2. /\ w \in Running /\ Running' = Running \ {w} /\ \A v \in Running \ {w} : fn'[v] = fn[v]
      /\ \A d \in Conns \ {c} : conn'[d] = conn[d]
  BY <1>1 DEF Running, PoolTypeOK, ConnTypeOK
<1>3. \A i \in DOMAIN jobs : jobs[i] # c /\ jobs[i] \in Conns
  BY <1>1, <1>2 DEF OnceInv, RunOnce, PoolTypeOK, Conns
<1>4. \A v \in Running \ {w} : fn[v] # c
  BY <1>1, <1>2 DEF OnceInv, RunOnce
<1>5. QueuedOnce'
  BY <1>1, <1>2, <1>3 DEF OnceInv, QueuedOnce
<1>6. RunOnce'
  <2>1. \A v \in Running' : fn'[v] \in Conns /\ conn'[fn'[v]] = "accepted"
    BY <1>2, <1>4 DEF OnceInv, RunOnce
  <2>2. \A v \in Running' : \A i \in DOMAIN jobs : jobs[i] # fn'[v]
    BY <1>2 DEF OnceInv, RunOnce
  <2>3. \A u, v \in Running' : fn'[u] = fn'[v] => u = v
    BY <1>2 DEF OnceInv, RunOnce
  <2>4. QED
    BY <1>1, <2>1, <2>2, <2>3 DEF RunOnce
<1>7. QED
  BY <1>5, <1>6 DEF OnceInv

(* What each step of the server is to the pool and to the connections.     *)
LEMMA PoolSteps ==
  ASSUME [ServerNext]_serverVars
  PROVE  \/ UNCHANGED <<poolVars, conn>>
         \/ /\ conn' = conn
            /\ \/ Shutdown \/ CallerStep
               \/ \E w \in Workers : WorkerStep(w) \/ WakeSpuriously(w)
         \/ \E c \in Conns : Accept(c)
         \/ \E w \in Workers, c \in Conns : CloseSocket(w, c)
         \/ \E c \in Conns : Connect(c)
<1> DEFINE Still == UNCHANGED <<poolVars, conn>>
           Pool == /\ conn' = conn
                   /\ \/ Shutdown \/ CallerStep
                      \/ \E w \in Workers : WorkerStep(w) \/ WakeSpuriously(w)
<1>1. ASSUME Bind \/ TestSocket \/ ListenReturns \/ Cleanup PROVE Still
  BY <1>1 DEF Bind, TestSocket, ListenReturns, Cleanup, clientVars
<1>2. ASSUME Drain \/ PoolCallerStep PROVE Pool
  BY <1>2 DEF Drain, PoolCallerStep, clientVars
<1>3. ASSUME AcceptFails \/ Stop \/ StopCloses PROVE Still
  BY <1>3 DEF AcceptFails, Stop, StopCloses, clientVars
<1>4. ASSUME NEW w \in Workers, PoolWorkerStep(w) \/ WorkerWakes(w) PROVE Pool
  BY <1>4 DEF PoolWorkerStep, WorkerWakes, clientVars
<1>5. ASSUME NEW w \in Workers, NEW c \in Conns, JobStep(w, c)
      PROVE  Still \/ CloseSocket(w, c)
  <2>1. CASE FirstPoll(w, c) \/ Poll(w, c) \/ Handle(w, c)
    BY <2>1 DEF FirstPoll, Poll, Handle, Works, clientVars
  <2>2. CASE ReadRequest(w, c) \/ ReadOn(w, c) \/ WriteAnswer(w, c)
    BY <2>2 DEF ReadRequest, ReadOn, WriteAnswer, Works
  <2>3. QED
    BY <1>5, <2>1, <2>2 DEF JobStep
<1>6. ASSUME NEW c \in Conns, Transmit(c) \/ Drip(c) \/ Leave(c) PROVE Still
  BY <1>6 DEF Transmit, Drip, Leave
<1>7. ASSUME NEW c \in Conns, NEW r \in Requests[c], Send(c, r) PROVE Still
  BY <1>7 DEF Send
<1>8. CASE UNCHANGED serverVars
  BY <1>8 DEF serverVars, clientVars
<1>9. QED
  BY <1>1, <1>2, <1>3, <1>4, <1>5, <1>6, <1>7, <1>8 DEF ServerNext, ListenerStep

LEMMA OnceStep ==
  ASSUME PoolTypeOK, ConnTypeOK, OnceInv, [ServerNext]_serverVars
  PROVE  OnceInv'
<1>1. ASSUME UNCHANGED <<jobs, worker, fn>>,
             \A c \in Conns : conn[c] = "accepted" => conn'[c] = "accepted"
      PROVE  OnceInv'
  <2>1. Running' = Running
    BY <1>1 DEF Running
  <2>2. QED
    BY <1>1, <2>1, OnceSame
<1>2. CASE UNCHANGED <<poolVars, conn>>
  BY <1>1, <1>2 DEF poolVars
<1>3. ASSUME NEW c \in Conns, Connect(c) PROVE OnceInv'
  BY <1>1, <1>3 DEF Connect, poolVars, ConnTypeOK
<1>4. QED
  BY <1>2, <1>3, PoolOnce, AcceptOnce, CloseOnce, PoolSteps

LEMMA OnceInvariant == ServerSpec => []OnceInv
<1>1. (PoolTypeOK /\ ShutdownInv) /\ LifeInv /\ OnceInv /\ [ServerNext]_serverVars => OnceInv'
  BY OnceStep DEF LifeInv
<1>2. QED
  BY OnceInitially, ServerPool, LifeInvariant, <1>1, PTL DEF ServerSpec
-----------------------------------------------------------------------------
(* The queue of jobs the server expects.  Where the mapping is:            *)
Active == {fn[w] : w \in Running}
Phase == IF ~shutdown THEN "open" ELSE IF caller = "joined" THEN "closed" ELSE "closing"

LEMMA SameCardinality == \A S : Queue!Cardinality(S) = Cardinality(S)
  BY DEF Queue!Cardinality, Cardinality

(* While a worker is free, fewer jobs run than there are workers.          *)
LEMMA RoomForOne ==
  ASSUME NEW w \in Workers, worker[w] = "test"
  PROVE  Cardinality(Active) < Cardinality(Workers)
<1>1. IsFiniteSet(Workers) /\ Running \subseteq Workers /\ Running # Workers
  BY ThreadPoolAssumption DEF Running
<1>2. /\ IsFiniteSet(Running) /\ Cardinality(Running) < Cardinality(Workers)
      /\ Cardinality(Workers) \in Nat /\ Cardinality(Running) \in Nat
  BY <1>1, FS_Subset, FS_CardinalityType
<1> DEFINE f == [v \in Running |-> fn[v]]
<1>3. f \in Surjection(Running, Active)
  BY DEF Surjection, Active
<1>4. IsFiniteSet(Active) /\ Cardinality(Active) <= Cardinality(Running)
  BY <1>2, <1>3, FS_Surjection
<1>5. QED
  BY <1>2, <1>4, FS_CardinalityType

LEMMA QueueStutters ==
  ASSUME jobs' = jobs, Active' = Active, Phase' = Phase
  PROVE  UNCHANGED Queue!taskVars
  BY DEF Queue!taskVars, Active, Phase

LEMMA TakeStarts ==
  ASSUME PoolTypeOK, NEW w \in Workers, TakeJob(w)
  PROVE  Queue!Start
<1>1. /\ worker[w] = "test" /\ jobs # <<>> /\ jobs' = Tail(jobs)
      /\ fn' = [fn EXCEPT ![w] = Head(jobs)] /\ worker' = [worker EXCEPT ![w] = "running"]
      /\ UNCHANGED <<shutdown, caller>>
  BY DEF TakeJob
<1>2. Running' = Running \cup {w} /\ fn'[w] = Head(jobs) /\ \A v \in Running : fn'[v] = fn[v]
  BY <1>1 DEF Running, PoolTypeOK
<1>3. Active' = Active \cup {Head(jobs)}
  BY <1>2 DEF Active
<1>4. Queue!Cardinality(Active) < Cardinality(Workers)
  BY <1>1, RoomForOne, SameCardinality
<1>5. Phase' = Phase
  BY <1>1 DEF Phase
<1>6. QED
  BY <1>1, <1>3, <1>4, <1>5 DEF Queue!Start, Active, Phase

LEMMA DoneFinishes ==
  ASSUME PoolTypeOK, OnceInv, NEW w \in Workers, JobDone(w)
  PROVE  \E t \in Conns : Queue!Finish(t)
<1>1. /\ worker[w] = "running" /\ jobs' = jobs /\ fn' = [fn EXCEPT ![w] = NoTask]
      /\ worker' = [worker EXCEPT ![w] = "test"] /\ UNCHANGED <<shutdown, caller>>
  BY DEF JobDone
<1>2. /\ w \in Running /\ Running' = Running \ {w}
      /\ \A v \in Running \ {w} : fn'[v] = fn[v]
  BY <1>1 DEF Running, PoolTypeOK
<1>3. fn[w] \in Conns /\ \A v \in Running \ {w} : fn[v] # fn[w]
  BY <1>2 DEF OnceInv, RunOnce
<1>4. Active' = Active \ {fn[w]} /\ fn[w] \in Active
  BY <1>2, <1>3 DEF Active
<1>5. Phase' = Phase
  BY <1>1 DEF Phase
<1>6. PICK t \in Conns : t = fn[w]
  BY <1>3
<1>7. Queue!Finish(t)
  BY <1>1, <1>4, <1>5, <1>6 DEF Queue!Finish, Active, Phase
<1>8. QED
  BY <1>7

LEMMA ImplementsStep ==
  ASSUME PoolTypeOK, ShutdownInv, OnceInv, [PoolNext]_poolVars
  PROVE  [Queue!TaskNext]_(Queue!taskVars)
<1>1. ASSUME NEW t \in Tasks, Enqueue(t) PROVE Queue!Submit(t)
  <2>1. jobs' = Append(jobs, t) /\ caller = "free" /\ caller' = "notify"
        /\ UNCHANGED <<shutdown, worker, fn>>
    BY <1>1 DEF Enqueue
  <2>2. Active' = Active /\ Phase = "open" /\ Phase' = Phase
    BY <2>1 DEF Active, Running, Phase, ShutdownInv
  <2>3. QED
    BY <2>1, <2>2 DEF Queue!Submit, Active, Phase
<1>2. ASSUME Shutdown PROVE Queue!Close
  <2>1. caller = "free" /\ shutdown' = TRUE /\ caller' = "notify_all" /\ UNCHANGED <<jobs, worker, fn>>
    BY <1>2 DEF Shutdown
  <2>2. Active' = Active /\ Phase = "open" /\ Phase' = "closing"
    BY <2>1 DEF Active, Running, Phase, ShutdownInv
  <2>3. QED
    BY <2>1, <2>2 DEF Queue!Close, Active, Phase
<1>3. ASSUME Join PROVE Queue!Closed
  <2>1. /\ caller = "join" /\ caller' = "joined" /\ UNCHANGED <<jobs, worker, fn, shutdown>>
        /\ \A w \in Workers : worker[w] = "gone"
    BY <1>3 DEF Join
  <2>2. jobs = <<>> /\ shutdown
    BY <2>1, ThreadPoolAssumption DEF ShutdownInv
  <2>3. Running = {} /\ Running' = Running
    BY <2>1 DEF Running
  <2>4. Active = {} /\ Active' = Active /\ Phase = "closing" /\ Phase' = "closed"
    BY <2>1, <2>2, <2>3 DEF Active, Phase
  <2>5. QED
    BY <2>1, <2>2, <2>4 DEF Queue!Closed, Active, Phase
<1>4. ASSUME NotifyOne \/ NotifyAll PROVE UNCHANGED Queue!taskVars
  <2>1. /\ jobs' = jobs /\ fn' = fn /\ shutdown' = shutdown
        /\ caller # "joined" /\ caller' # "joined"
    BY <1>4 DEF NotifyOne, NotifyAll
  <2>2. Running' = Running
    <3>1. CASE NotifyOne
      BY <3>1 DEF NotifyOne, PoolTypeOK, Running
    <3>2. CASE NotifyAll
      BY <3>2 DEF NotifyAll, PoolTypeOK, Running
    <3>3. QED
      BY <1>4, <3>1, <3>2
  <2>3. Active' = Active /\ Phase' = Phase
    BY <2>1, <2>2 DEF Active, Phase
  <2>4. QED
    BY <2>1, <2>3, QueueStutters
<1>5. ASSUME NEW w \in Workers, Block(w) \/ Exit(w) \/ WakeSpuriously(w)
      PROVE  UNCHANGED Queue!taskVars
  <2>1. UNCHANGED <<jobs, fn, shutdown, caller>> /\ Running' = Running
    BY <1>5 DEF Block, Exit, WakeSpuriously, PoolTypeOK, Running
  <2>2. Active' = Active /\ Phase' = Phase
    BY <2>1 DEF Active, Phase
  <2>3. QED
    BY <2>1, <2>2, QueueStutters
<1>6. CASE UNCHANGED poolVars
  <2>1. jobs' = jobs /\ Active' = Active /\ Phase' = Phase
    BY <1>6 DEF poolVars, Active, Running, Phase
  <2>2. QED
    BY <2>1, QueueStutters
<1>7. ASSUME NEW w \in Workers, TakeJob(w) \/ JobDone(w) PROVE Queue!TaskNext
  BY <1>7, TakeStarts, DoneFinishes DEF Queue!TaskNext
<1>8. QED
  BY <1>1, <1>2, <1>3, <1>4, <1>5, <1>6, <1>7
     DEF PoolNext, CallerStep, WorkerStep, Queue!TaskNext, Conns

(* The safety of ImplementsTaskQueue, for any server: the connections that *)
(* were accepted are started once each, in the order of acceptance, never  *)
(* more than there are workers, and shutdown returns when none is left.    *)
THEOREM ServerImplementsTaskQueue == ServerSpec => Queue!TaskSpec
<1>1. ServerInit => Queue!TaskInit
  <2> SUFFICES ASSUME ServerInit PROVE jobs = <<>> /\ Active = {} /\ Phase = "open"
    BY DEF Queue!TaskInit, Active, Phase
  <2>1. Running = {}
    BY DEF ServerInit, PoolInit, Running
  <2>2. QED
    BY <2>1 DEF ServerInit, PoolInit, Active, Phase
<1>2. (PoolTypeOK /\ ShutdownInv) /\ OnceInv /\ [ServerNext]_serverVars
        => [Queue!TaskNext]_(Queue!taskVars)
  BY ServerStepUsesPool, ImplementsStep
<1>3. QED
  BY <1>1, <1>2, ServerPool, OnceInvariant, PTL DEF ServerSpec, Queue!TaskSpec
=============================================================================
