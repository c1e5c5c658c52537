---------------------------- MODULE LoadGenerator ----------------------------
(***************************************************************************)
(* loadgen/load_generator.cpp: main warms the database up with at most     *)
(* WarmupThreads threads, starts the workers, sleeps, clears the flag      *)
(* running, joins the workers and reports the counters.  The server is     *)
(* what the program can see of it: a set of stored keys, and answers that  *)
(* may be an error or fail to come.                                        *)
(***************************************************************************)
EXTENDS Integers, FiniteSets, FiniteSetsExt

CONSTANTS ThreadCounts,   \* the values of argv[1] considered
          WarmupThreads,  \* the 8 of main: w_count = min(threads, 8)
          POPULAR_RANGE, LARGE_RANGE, HUGE_RANGE, MIXED_PREFILL,
          MaxRequests     \* bound: requests of one worker

ASSUME LoadAssumption ==
  /\ ThreadCounts \subseteq Nat \ {0}
  /\ {WarmupThreads, POPULAR_RANGE, LARGE_RANGE, HUGE_RANGE,
      MIXED_PREFILL} \subseteq Nat \ {0}
  /\ MaxRequests \in Nat

WorkloadType == {"put_all", "get_all", "get_popular", "mix"}

(* A key is its number, or a thread's number and a number of its history.  *)
Anyone == -1
Numbered(n) == <<Anyone, n>>
History(id, n) == <<id, n>>

VARIABLES
  type, threads, skip_warmup,   \* the command line
  phase,        \* where main is: warmup, benchmark, joining, report
  next,         \* the next key number of each warm-up thread
  running,      \* the flag the workers test
  local_max,    \* each worker's count of the keys of its own history
  at,           \* where each worker is: test, count, exited
  answer,       \* what its last request was and what came back
  made,         \* requests each worker has made
  counted,      \* the atomic counters
  stored,       \* the server: the keys it holds
  blameless     \* no POST has failed and nothing has been deleted so far

loadVars == <<type, threads, skip_warmup, phase, next, running, local_max, at,
              answer, made, counted, stored, blameless>>

Ids == UNION {0 .. n - 1 : n \in ThreadCounts}
Workers == 0 .. threads - 1
WarmupCount == Min({threads, WarmupThreads})

Counters == {"total", "successful", "failed", "hits", "misses", "writes", "missing"}
NoAnswer == [op |-> "read", status |-> "none"]

Warms == ~skip_warmup /\ type # "put_all"
WarmupIds == IF Warms THEN 0 .. WarmupCount - 1 ELSE {}

(***************************************************************************)
(* perform_warmup: the key numbers start .. end - 1 of thread id.          *)
(***************************************************************************)
MutantWarmupRange(id) ==
  LET per_thread == LARGE_RANGE \div WarmupCount
      start == 1 + id * per_thread
  IN
  CASE type = "get_popular" -> IF id = 0 THEN <<1, POPULAR_RANGE + 1>> ELSE <<1, 1>>
    [] type = "mix" -> <<1, MIXED_PREFILL + 1>>
    [] OTHER -> <<start, start + per_thread>>

WarmupRange(id) ==
  LET per_thread == LARGE_RANGE \div WarmupCount
      start == 1 + id * per_thread
  IN
  CASE type = "get_popular" -> IF id = 0 THEN <<1, POPULAR_RANGE + 1>> ELSE <<1, 1>>
    [] type = "mix" -> <<1, MIXED_PREFILL + 1>>
    [] OTHER -> <<start, IF id = WarmupCount - 1 THEN LARGE_RANGE + 1 ELSE start + per_thread>>

WarmupKey(id, n) == IF type = "mix" THEN History(id, n) ELSE Numbered(n)

LoadInit ==
  /\ type \in WorkloadType /\ threads \in ThreadCounts /\ skip_warmup \in BOOLEAN
  /\ phase = "warmup"
  /\ next = [id \in Ids |-> IF id \in WarmupIds THEN WarmupRange(id)[1] ELSE 0]
  /\ running = TRUE
  /\ local_max = [id \in Ids |-> MIXED_PREFILL]
  /\ at = [id \in Ids |-> "test"]
  /\ answer = [id \in Ids |-> NoAnswer]
  /\ made = [id \in Ids |-> 0]
  /\ counted = [c \in Counters |-> 0]
  /\ stored = {}
  /\ blameless = ~skip_warmup

(* A POST is stored, or fails in a way its sender may or may not notice.   *)
Warmup(id) ==
  /\ phase = "warmup" /\ id \in WarmupIds /\ next[id] < WarmupRange(id)[2]
  /\ next' = [next EXCEPT ![id] = @ + 1]
  /\ \/ stored' = stored \cup {WarmupKey(id, next[id])} /\ UNCHANGED blameless
     \/ blameless' = FALSE /\ UNCHANGED stored
  /\ UNCHANGED <<type, threads, skip_warmup, phase, running, local_max, at, answer,
                 made, counted>>

(* main joins the warm-up threads and starts the workers.                  *)
StartBenchmark ==
  /\ phase = "warmup"
  /\ \A id \in WarmupIds : next[id] = WarmupRange(id)[2]
  /\ phase' = "benchmark"
  /\ UNCHANGED <<type, threads, skip_warmup, next, running, local_max, at, answer,
                 made, counted, stored, blameless>>

(***************************************************************************)
(* worker: test running, make one request, count it.                       *)
(***************************************************************************)
Answered(id, op, status) ==
  /\ answer' = [answer EXCEPT ![id] = [op |-> op, status |-> status]]
  /\ made' = [made EXCEPT ![id] = @ + 1]
  /\ at' = [at EXCEPT ![id] = "count"]

Post(id, key) ==
  \/ Answered(id, "write", "200") /\ stored' = stored \cup {key} /\ UNCHANGED blameless
  \/ /\ \E status \in {"500", "none"} : Answered(id, "write", status)
     /\ stored' \in {stored, stored \cup {key}}   \* stored, but the answer lost
     /\ blameless' = FALSE

Get(id, key) ==
  /\ \E status \in {"500", "none"} \cup (IF key \in stored THEN {"HIT", "MISS"} ELSE {"404"}) :
       Answered(id, "read", status)
  /\ UNCHANGED <<stored, blameless>>

Delete(id, key) ==
  /\ \E status \in {"200", "none"} : Answered(id, "write", status)
  /\ stored' \in {stored, stored \ {key}}
  /\ blameless' = FALSE

(* The flag is a plain bool that main writes while the workers read it: a  *)
(* worker may go on although it has been cleared.                          *)
Request(id) ==
  /\ phase \in {"benchmark", "joining"} /\ id \in Workers
  /\ at[id] = "test" /\ made[id] < MaxRequests
  /\ \/ type = "put_all" /\ UNCHANGED local_max
        /\ \E n \in 1 .. HUGE_RANGE : Post(id, Numbered(n)) \/ Delete(id, Numbered(n))
     \/ type = "get_popular" /\ UNCHANGED local_max
        /\ \E n \in 1 .. POPULAR_RANGE : Get(id, Numbered(n))
     \/ type = "get_all" /\ UNCHANGED local_max
        /\ \E n \in 1 .. LARGE_RANGE : Get(id, Numbered(n))
     \/ type = "mix" /\ UNCHANGED local_max
        /\ \E n \in 1 .. local_max[id] : Get(id, History(id, n)) \/ Delete(id, History(id, n))
     \/ type = "mix"
        /\ local_max' = [local_max EXCEPT ![id] = @ + 1]   \* whether or not the POST succeeds
        /\ Post(id, History(id, local_max[id] + 1))
  /\ UNCHANGED <<type, threads, skip_warmup, phase, next, running, counted>>

Incremented(a) ==
  {"total"} \cup
  IF a.status \in {"500", "none"} THEN {"failed"}
  ELSE {"successful"} \cup
       (CASE a.op = "write" -> {"writes"}
          [] a.status = "HIT" -> {"hits"}
          [] a.status = "404" -> {"missing"}     \* a 404 carries no X-Cache-Status
          [] OTHER -> {"misses"})

Count(id) ==
  /\ at[id] = "count"
  /\ counted' = [c \in Counters |-> IF c \in Incremented(answer[id])
                                    THEN counted[c] + 1 ELSE counted[c]]
  /\ at' = [at EXCEPT ![id] = "test"]
  /\ UNCHANGED <<type, threads, skip_warmup, phase, next, running, local_max, answer,
                 made, stored, blameless>>

Quit(id) ==
  /\ phase = "joining" /\ id \in Workers
  /\ at[id] = "test" /\ ~running
  /\ at' = [at EXCEPT ![id] = "exited"]
  /\ UNCHANGED <<type, threads, skip_warmup, phase, next, running, local_max, answer,
                 made, counted, stored, blameless>>

(* main: the sleep ends; join; report.                                     *)
MutantStopRunning ==
  /\ phase = "benchmark"
  /\ phase' = "joining"
  /\ UNCHANGED <<type, threads, skip_warmup, next, running, local_max, at, answer, made,
                 counted, stored, blameless>>

StopRunning ==
  /\ phase = "benchmark"
  /\ phase' = "joining" /\ running' = FALSE
  /\ UNCHANGED <<type, threads, skip_warmup, next, local_max, at, answer, made,
                 counted, stored, blameless>>

MutantJoined == \E id \in Workers : at[id] = "exited"

Joined == \A id \in Workers : at[id] = "exited"

Report ==
  /\ phase = "joining" /\ Joined
  /\ phase' = "report"
  /\ UNCHANGED <<type, threads, skip_warmup, next, running, local_max, at, answer,
                 made, counted, stored, blameless>>

Reported == phase = "report" /\ UNCHANGED loadVars

LoadNext ==
  \/ \E id \in Ids : Warmup(id) \/ Request(id) \/ Count(id) \/ Quit(id)
  \/ StartBenchmark \/ StopRunning \/ Report
  \/ Reported

LoadSpec == LoadInit /\ [][LoadNext]_loadVars

(* Requests return (the client's timeouts), main's sleep ends, and the     *)
(* cleared flag reaches every worker in the end.                           *)
FairLoadSpec ==
  /\ LoadSpec
  /\ \A id \in Ids : /\ WF_loadVars(Warmup(id))
                     /\ WF_loadVars(Count(id))
                     /\ SF_loadVars(Quit(id))
  /\ WF_loadVars(StartBenchmark) /\ WF_loadVars(StopRunning) /\ WF_loadVars(Report)

-----------------------------------------------------------------------------
(* The requests made: a worker, and which of its requests it is.           *)
RequestsMade == {r \in Workers \X (1 .. MaxRequests) : r[2] <= made[r[1]]}

(* The report counts every request the workers made, each exactly once: as *)
(* failed, as a write, or as a read that hit, missed or found nothing.     *)
ReportAddsUp ==
  phase = "report" =>
    /\ counted["total"] = Cardinality(RequestsMade)
    /\ counted["total"] = counted["successful"] + counted["failed"]
    /\ counted["successful"] = counted["writes"] + counted["hits"]
                               + counted["misses"] + counted["missing"]

(* The reported 404s have a cause: if the warm-up ran with a thread for    *)
(* each worker's history, no POST failed and nothing was deleted, every    *)
(* key a worker reads has been stored.                                     *)
NoUnexplained404 ==
  blameless /\ (type = "mix" => threads <= WarmupThreads) => counted["missing"] = 0

(* The run ends with its report: no worker misses the cleared flag.        *)
BenchmarkEnds == <>(phase = "report")
=============================================================================
