------------------------- MODULE LoadGeneratorProofs -------------------------
(***************************************************************************)
(* The load generator's report, for every number of threads, every size of *)
(* the key ranges and every number of requests: its counters add up, and   *)
(* no read is answered 404 unless a POST failed, a key was deleted or a    *)
(* worker's history was not warmed up.                                     *)
(***************************************************************************)
EXTENDS LoadGenerator, FiniteSetTheorems, TLAPS

Answers == [op : {"write"}, status : {"200", "500", "none"}]
             \cup [op : {"read"}, status : {"HIT", "MISS", "404", "500", "none"}]

LoadTypeOK ==
  /\ type \in WorkloadType /\ threads \in ThreadCounts /\ skip_warmup \in BOOLEAN
  /\ phase \in {"warmup", "benchmark", "joining", "report"}
  /\ next \in [Ids -> Int] /\ local_max \in [Ids -> Nat]
  /\ at \in [Ids -> {"test", "count", "exited"}]
  /\ answer \in [Ids -> Answers]
  /\ made \in [Ids -> 0 .. MaxRequests]
  /\ counted \in [Counters -> Nat]

LEMMA WorkersAreIds ==
  ASSUME threads \in ThreadCounts
  PROVE  Workers \subseteq Ids /\ threads \in Nat \ {0}
  BY LoadAssumption DEF Workers, Ids

LEMMA WarmupIdsOf ==
  ASSUME threads \in ThreadCounts
  PROVE  /\ WarmupCount \in Nat \ {0}
         /\ threads <= WarmupThreads => WarmupCount = threads
         /\ WarmupIds \subseteq Ids
<1>1. threads \in Nat \ {0} /\ WarmupThreads \in Nat \ {0}
  BY LoadAssumption
<1>2. WarmupCount \in {threads, WarmupThreads} /\ \A n \in {threads, WarmupThreads} : WarmupCount <= n
  <2>1. \E m \in {threads, WarmupThreads} : \A n \in {threads, WarmupThreads} : m <= n
    BY <1>1
  <2>2. QED
    BY <2>1 DEF WarmupCount, Min
<1>3. WarmupCount \in Nat \ {0} /\ WarmupCount <= threads /\ (threads <= WarmupThreads => WarmupCount = threads)
  BY <1>1, <1>2
<1>4. 0 .. WarmupCount - 1 \subseteq 0 .. threads - 1
  BY <1>1, <1>3
<1>5. QED
  BY <1>3, <1>4, WorkersAreIds DEF WarmupIds, Workers

LEMMA WarmupRangeType ==
  ASSUME LoadTypeOK, NEW id \in WarmupIds
  PROVE  WarmupRange(id)[1] \in Int /\ WarmupRange(id)[2] \in Int
<1> DEFINE per == LARGE_RANGE \div WarmupCount
<1>1. WarmupCount \in Nat \ {0} /\ id \in Nat
  BY WarmupIdsOf DEF LoadTypeOK, WarmupIds
<1>2. per \in Int
  BY <1>1, LoadAssumption
<1> HIDE DEF per
<1>3. 1 + id * per \in Int /\ 1 + id * per + per \in Int
  BY <1>1, <1>2
<1>4. LARGE_RANGE \in Int /\ POPULAR_RANGE \in Int /\ MIXED_PREFILL \in Int
  BY LoadAssumption
<1>5. QED
  BY <1>3, <1>4 DEF WarmupRange, per

LEMMA TypeInitially == LoadInit => LoadTypeOK
<1> SUFFICES ASSUME LoadInit PROVE LoadTypeOK
  OBVIOUS
<1>1. ASSUME NEW id \in WarmupIds PROVE WarmupRange(id)[1] \in Int
  <2>1. WarmupCount \in Nat \ {0} /\ id \in Nat
    BY WarmupIdsOf DEF LoadInit, WarmupIds
  <2> DEFINE per == LARGE_RANGE \div WarmupCount
  <2>2. per \in Int
    BY <2>1, LoadAssumption
  <2> HIDE DEF per
  <2>3. 1 + id * per \in Int
    BY <2>1, <2>2
  <2>4. QED
    BY <2>3 DEF WarmupRange, per
<1>2. next \in [Ids -> Int]
  BY <1>1 DEF LoadInit
<1>3. MIXED_PREFILL \in Nat /\ 0 \in 0 .. MaxRequests
  BY LoadAssumption
<1>4. NoAnswer \in Answers
  BY DEF NoAnswer, Answers
<1>5. QED
  BY <1>2, <1>3, <1>4 DEF LoadInit, LoadTypeOK

(* What a request may do to the worker's state and to the server's.        *)
LEMMA RequestOf ==
  ASSUME LoadTypeOK, NEW id \in Ids, Request(id)
  PROVE  /\ id \in Workers /\ at[id] = "test" /\ made[id] < MaxRequests
         /\ phase \in {"benchmark", "joining"}
         /\ \E a \in Answers : answer' = [answer EXCEPT ![id] = a]
         /\ made' = [made EXCEPT ![id] = @ + 1]
         /\ at' = [at EXCEPT ![id] = "count"]
         /\ local_max' \in {local_max, [local_max EXCEPT ![id] = @ + 1]}
         /\ UNCHANGED <<type, threads, skip_warmup, phase, next, running, counted>>
<1>1. /\ id \in Workers /\ at[id] = "test" /\ made[id] < MaxRequests
      /\ phase \in {"benchmark", "joining"}
      /\ local_max' \in {local_max, [local_max EXCEPT ![id] = @ + 1]}
      /\ UNCHANGED <<type, threads, skip_warmup, phase, next, running, counted>>
  BY DEF Request
<1>2. \E op \in {"write", "read"}, status \in {"200", "HIT", "MISS", "404", "500", "none"} :
        [op |-> op, status |-> status] \in Answers /\ Answered(id, op, status)
  <2>1. ASSUME NEW key, Post(id, key) \/ Delete(id, key)
        PROVE  \E status \in {"200", "500", "none"} : Answered(id, "write", status)
    BY <2>1 DEF Post, Delete
  <2>2. ASSUME NEW key, Get(id, key)
        PROVE  \E status \in {"HIT", "MISS", "404", "500", "none"} : Answered(id, "read", status)
    BY <2>2 DEF Get
  <2>3. \E key : Post(id, key) \/ Delete(id, key) \/ Get(id, key)
    BY DEF Request
  <2>4. /\ \A status \in {"200", "500", "none"} : [op |-> "write", status |-> status] \in Answers
        /\ \A status \in {"HIT", "MISS", "404", "500", "none"} :
             [op |-> "read", status |-> status] \in Answers
    BY DEF Answers
  <2>5. QED
    BY <2>1, <2>2, <2>3, <2>4
<1>3. QED
  BY <1>1, <1>2 DEF Answered

LEMMA TypeStep ==
  ASSUME LoadTypeOK, [LoadNext]_loadVars
  PROVE  LoadTypeOK'
<1> USE DEF LoadTypeOK
<1>1. ASSUME NEW id \in Ids, Warmup(id) PROVE LoadTypeOK'
  BY <1>1 DEF Warmup
<1>2. ASSUME NEW id \in Ids, Request(id) PROVE LoadTypeOK'
  <2>1. PICK a \in Answers : answer' = [answer EXCEPT ![id] = a]
    BY <1>2, RequestOf
  <2>2. made[id] + 1 \in 0 .. MaxRequests
    BY <1>2, RequestOf, LoadAssumption
  <2>3. local_max' \in [Ids -> Nat]
    BY <1>2, RequestOf
  <2>4. made' \in [Ids -> 0 .. MaxRequests]
    BY <1>2, <2>2, RequestOf
  <2>5. answer' \in [Ids -> Answers] /\ at' \in [Ids -> {"test", "count", "exited"}]
    BY <1>2, <2>1, RequestOf
  <2>6. UNCHANGED <<type, threads, skip_warmup, phase, next, counted>>
    BY <1>2, RequestOf
  <2>7. QED
    BY <2>3, <2>4, <2>5, <2>6
<1>3. ASSUME NEW id \in Ids, Count(id) PROVE LoadTypeOK'
  BY <1>3 DEF Count
<1>4. ASSUME NEW id \in Ids, Quit(id) PROVE LoadTypeOK'
  BY <1>4 DEF Quit
<1>5. CASE StartBenchmark
  BY <1>5 DEF StartBenchmark
<1>6. CASE StopRunning
  BY <1>6 DEF StopRunning
<1>7. CASE Report
  BY <1>7 DEF Report
<1>8. CASE UNCHANGED loadVars
  BY <1>8 DEF loadVars
<1>9. QED
  BY <1>1, <1>2, <1>3, <1>4, <1>5, <1>6, <1>7, <1>8 DEF LoadNext, Reported

LEMMA TypeInvariant == LoadSpec => []LoadTypeOK
  BY TypeInitially, TypeStep, PTL DEF LoadSpec
-----------------------------------------------------------------------------
(* The counters: a request is counted once, after its answer.              *)

Waiting == {r \in RequestsMade : at[r[1]] = "count" /\ r[2] = made[r[1]]}

Sums ==
  /\ counted["total"] = counted["successful"] + counted["failed"]
  /\ counted["successful"] = counted["writes"] + counted["hits"]
                             + counted["misses"] + counted["missing"]

CountInv ==
  /\ IsFiniteSet(RequestsMade \ Waiting)
  /\ counted["total"] = Cardinality(RequestsMade \ Waiting)
  /\ Sums
  /\ \A id \in Ids : at[id] = "count" => id \in Workers /\ made[id] >= 1
  /\ phase = "report" => Joined

LEMMA CountInitially == LoadInit => CountInv
<1> SUFFICES ASSUME LoadInit PROVE CountInv
  OBVIOUS
<1>1. Workers \subseteq Ids
  BY WorkersAreIds DEF LoadInit
<1>2. \A id \in Ids : made[id] = 0 /\ at[id] = "test"
  BY DEF LoadInit
<1>3. RequestsMade \ Waiting = {}
  BY <1>1, <1>2 DEF RequestsMade
<1>4. Sums /\ counted["total"] = 0
  BY DEF LoadInit, Sums, Counters
<1>5. phase # "report"
  BY DEF LoadInit
<1>6. QED
  BY <1>2, <1>3, <1>4, <1>5, FS_EmptySet DEF CountInv

(* A request that is made is not counted yet.                              *)
LEMMA RequestCounts ==
  ASSUME LoadTypeOK, CountInv, NEW id \in Ids, Request(id)
  PROVE  CountInv'
<1>1. /\ id \in Workers /\ at[id] = "test" /\ made[id] < MaxRequests
      /\ phase' # "report" /\ Workers' = Workers /\ counted' = counted
      /\ made' = [made EXCEPT ![id] = made[id] + 1]
      /\ at' = [at EXCEPT ![id] = "count"]
  BY RequestOf DEF Workers
<1>2. Workers \subseteq Ids /\ \A w \in Ids : made[w] \in Nat /\ at[w] \in {"test", "count", "exited"}
  BY WorkersAreIds DEF LoadTypeOK
<1>3. \A w \in Ids : /\ made'[w] = IF w = id THEN made[id] + 1 ELSE made[w]
                     /\ at'[w] = IF w = id THEN "count" ELSE at[w]
  BY <1>1 DEF LoadTypeOK
<1>4. ASSUME NEW w \in Workers, NEW n \in 1 .. MaxRequests
      PROVE  n <= made'[w] /\ ~(at'[w] = "count" /\ n = made'[w])
               <=> n <= made[w] /\ ~(at[w] = "count" /\ n = made[w])
  BY <1>1, <1>2, <1>3
<1>5. RequestsMade' \ Waiting' = RequestsMade \ Waiting
  BY <1>1, <1>4 DEF RequestsMade, Waiting
<1>6. Sums'
  BY <1>1 DEF CountInv, Sums
<1>7. \A w \in Ids : at'[w] = "count" => w \in Workers' /\ made'[w] >= 1
  BY <1>1, <1>2, <1>3 DEF CountInv
<1>8. QED
  BY <1>1, <1>5, <1>6, <1>7 DEF CountInv

(* Counting adds the request that was waiting.                             *)
LEMMA CountCounts ==
  ASSUME LoadTypeOK, CountInv, NEW id \in Ids, Count(id)
  PROVE  CountInv'
<1> DEFINE r == <<id, made[id]>>
           C == RequestsMade \ Waiting
<1>1. /\ at[id] = "count" /\ at' = [at EXCEPT ![id] = "test"]
      /\ UNCHANGED <<threads, phase, made>> /\ Workers' = Workers
  BY DEF Count, Workers
<1>2. Workers \subseteq Ids /\ \A w \in Ids : made[w] \in 0 .. MaxRequests
  BY WorkersAreIds DEF LoadTypeOK
<1>3. \A w \in Ids : at'[w] = IF w = id THEN "test" ELSE at[w]
  BY <1>1 DEF LoadTypeOK
<1>4. id \in Workers /\ made[id] \in 1 .. MaxRequests
  BY <1>1, <1>2, LoadAssumption DEF CountInv
<1>5. r \in RequestsMade /\ r \in Waiting
  BY <1>1, <1>4 DEF RequestsMade, Waiting
<1>6. RequestsMade' = RequestsMade
  BY <1>1 DEF RequestsMade
<1>7. Waiting' = Waiting \ {r}
  <2>1. ASSUME NEW q \in RequestsMade PROVE q \in Waiting' <=> q \in Waiting \ {r}
    <3>1. PICK w \in Workers, n \in 1 .. MaxRequests : q = <<w, n>>
      BY DEF RequestsMade
    <3>2. q[1] = w /\ q[2] = n /\ (q = r <=> w = id /\ n = made[id])
      BY <3>1
    <3>3. q \in Waiting' <=> at'[w] = "count" /\ n = made[w]
      BY <1>1, <1>6, <3>2 DEF Waiting
    <3>4. q \in Waiting <=> at[w] = "count" /\ n = made[w]
      BY <3>2 DEF Waiting
    <3>5. QED
      BY <1>2, <1>3, <3>2, <3>3, <3>4
  <2>2. Waiting \subseteq RequestsMade /\ Waiting' \subseteq RequestsMade
    BY <1>6 DEF Waiting
  <2>3. QED
    BY <2>1, <2>2
<1>8. RequestsMade' \ Waiting' = C \cup {r}
  BY <1>5, <1>6, <1>7
<1>9. r \notin C /\ IsFiniteSet(C) /\ counted["total"] = Cardinality(C)
  BY <1>5 DEF CountInv
<1> HIDE DEF C, r
<1>10. IsFiniteSet(C \cup {r}) /\ Cardinality(C \cup {r}) = counted["total"] + 1
  BY <1>9, FS_AddElement
<1>11. counted'["total"] = counted["total"] + 1 /\ Sums'
  <2> DEFINE I == Incremented(answer[id])
  <2>1. \A c \in Counters : counted'[c] = IF c \in I THEN counted[c] + 1 ELSE counted[c]
    BY DEF Count
  <2>2. answer[id] \in Answers /\ \A c \in Counters : counted[c] \in Nat
    BY DEF LoadTypeOK
  <2>3. \/ I = {"total", "failed"}
        \/ \E c \in {"writes", "hits", "misses", "missing"} : I = {"total", "successful", c}
    BY <2>2 DEF Incremented, Answers
  <2> HIDE DEF I
  <2>4. CASE I = {"total", "failed"}
    <3>1. \A d \in Counters : counted'[d] = IF d \in {"total", "failed"}
                                          THEN counted[d] + 1 ELSE counted[d]
      BY <2>1, <2>4
    <3>2. Sums
      BY DEF CountInv
    <3>3. QED
      BY <2>2, <3>1, <3>2 DEF Counters, Sums
  <2>5. ASSUME NEW c \in {"writes", "hits", "misses", "missing"}, I = {"total", "successful", c}
        PROVE  counted'["total"] = counted["total"] + 1 /\ Sums'
    <3>1. \A d \in Counters : counted'[d] = IF d \in {"total", "successful", c}
                                          THEN counted[d] + 1 ELSE counted[d]
      BY <2>1, <2>5
    <3>2. CASE c = "writes"
      BY <2>2, <3>1, <3>2 DEF Counters, Sums, CountInv
    <3>3. CASE c = "hits"
      BY <2>2, <3>1, <3>3 DEF Counters, Sums, CountInv
    <3>4. CASE c = "misses"
      BY <2>2, <3>1, <3>4 DEF Counters, Sums, CountInv
    <3>5. CASE c = "missing"
      BY <2>2, <3>1, <3>5 DEF Counters, Sums, CountInv
    <3>6. QED
      BY <2>5, <3>2, <3>3, <3>4, <3>5
  <2>6. QED
    BY <2>3, <2>4, <2>5
<1>12. \A w \in Ids : at'[w] = "count" => w \in Workers' /\ made'[w] >= 1
  BY <1>1, <1>3 DEF CountInv
<1>13. phase' = "report" => Joined'
  BY <1>1, <1>4 DEF CountInv, Joined
<1>14. QED
  BY <1>8, <1>10, <1>11, <1>12, <1>13 DEF CountInv

(* The steps that make no request and count none.                          *)
LEMMA OtherCounts ==
  ASSUME CountInv, UNCHANGED <<threads, made, counted>>,
         \A id \in Ids : at'[id] # "count" <=> at[id] # "count",
         Workers \subseteq Ids, phase' = "report" => Joined'
  PROVE  CountInv'
<1>1. RequestsMade' = RequestsMade /\ Workers' = Workers
  BY DEF RequestsMade, Workers
<1>2. Waiting' = Waiting
  BY <1>1 DEF Waiting, RequestsMade
<1>3. Sums'
  BY DEF CountInv, Sums
<1>4. QED
  BY <1>1, <1>2, <1>3 DEF CountInv

LEMMA CountStep ==
  ASSUME LoadTypeOK, CountInv, [LoadNext]_loadVars
  PROVE  CountInv'
<1>1. Workers \subseteq Ids
  BY WorkersAreIds DEF LoadTypeOK
<1>2. ASSUME NEW id \in Ids, Warmup(id) PROVE CountInv'
  BY <1>1, <1>2, OtherCounts DEF Warmup
<1>3. ASSUME NEW id \in Ids, Quit(id) PROVE CountInv'
  <2>1. \A w \in Ids : at'[w] # "count" <=> at[w] # "count"
    BY <1>3 DEF Quit, LoadTypeOK
  <2>2. QED
    BY <1>1, <1>3, <2>1, OtherCounts DEF Quit
<1>4. CASE StartBenchmark
  BY <1>1, <1>4, OtherCounts DEF StartBenchmark
<1>5. CASE StopRunning
  BY <1>1, <1>5, OtherCounts DEF StopRunning
<1>6. CASE Report
  BY <1>1, <1>6, OtherCounts DEF Report, Joined, Workers
<1>7. CASE UNCHANGED loadVars
  BY <1>1, <1>7, OtherCounts DEF loadVars, CountInv, Joined, Workers
<1>8. QED
  BY <1>2, <1>3, <1>4, <1>5, <1>6, <1>7, RequestCounts, CountCounts DEF LoadNext, Reported

LEMMA CountInvariant == LoadSpec => [](LoadTypeOK /\ CountInv)
  BY CountInitially, CountStep, TypeInvariant, PTL DEF LoadSpec

(* The report counts every request of every worker once, as failed, as a   *)
(* write, or as a read that hit, missed or found nothing.                  *)
THEOREM ReportedCountersAddUp == LoadSpec => []ReportAddsUp
<1>1. ASSUME CountInv PROVE ReportAddsUp
  <2> SUFFICES ASSUME phase = "report"
               PROVE  Sums /\ counted["total"] = Cardinality(RequestsMade)
    BY DEF ReportAddsUp, Sums
  <2>1. Waiting = {}
    BY <1>1 DEF CountInv, Joined, Waiting, RequestsMade
  <2>2. QED
    BY <1>1, <2>1 DEF CountInv
<1>2. QED
  BY <1>1, CountInvariant, PTL
-----------------------------------------------------------------------------
(* What the warm-up stores.                                                *)

Warmed == blameless /\ (type = "mix" => threads <= WarmupThreads)

StoredSoFar ==
  \A id \in WarmupIds : \A n \in Int :
    WarmupRange(id)[1] <= n /\ n < next[id] => WarmupKey(id, n) \in stored

(* The keys the workers may read.                                          *)
ReadableStored ==
  /\ type = "get_popular" => \A n \in 1 .. POPULAR_RANGE : Numbered(n) \in stored
  /\ type = "get_all" => \A n \in 1 .. LARGE_RANGE : Numbered(n) \in stored
  /\ type = "mix" => \A id \in Workers : \A n \in 1 .. local_max[id] : History(id, n) \in stored

NoMissing == counted["missing"] = 0 /\ \A id \in Ids : answer[id].status # "404"

WarmInv ==
  /\ blameless => ~skip_warmup
  /\ phase = "warmup" => \A id \in Ids : local_max[id] = MIXED_PREFILL
  /\ Warmed => NoMissing
  /\ Warmed /\ phase = "warmup" => StoredSoFar
  /\ Warmed /\ phase # "warmup" => ReadableStored

(* The warm-up threads split the numbers between them and leave none out.  *)
LEMMA RangesCover ==
  ASSUME NEW W \in Nat \ {0}, NEW L \in Nat \ {0}, NEW n \in 1 .. L
  PROVE  \E id \in 0 .. W - 1 :
           /\ 1 + id * (L \div W) <= n
           /\ n < IF id = W - 1 THEN L + 1 ELSE 1 + id * (L \div W) + (L \div W)
<1> DEFINE per == L \div W
<1>1. per \in Nat
  OBVIOUS
<1> HIDE DEF per
<1>2. CASE per = 0
  <2>1. W - 1 \in 0 .. W - 1 /\ 1 + (W - 1) * per <= n /\ n < L + 1
    BY <1>2
  <2>2. QED
    BY <2>1 DEF per
<1>3. CASE per > 0
  <2> DEFINE q == (n - 1) \div per
  <2>1. q \in Nat /\ q * per <= n - 1 /\ n - 1 < (q + 1) * per
    BY <1>1, <1>3
  <2> HIDE DEF q
  <2>2. (q + 1) * per = q * per + per
    BY <1>1, <2>1
  <2>3. CASE q < W - 1
    <3>1. q \in 0 .. W - 1 /\ q # W - 1 /\ 1 + q * per <= n /\ n < 1 + q * per + per
      BY <1>1, <2>1, <2>2, <2>3
    <3>2. QED
      BY <3>1 DEF per
  <2>4. CASE q >= W - 1
    <3>1. (W - 1) * per <= q * per
      BY <1>1, <2>1, <2>4
    <3>2. q * per \in Nat /\ (W - 1) * per \in Nat
      BY <1>1, <2>1
    <3>3. W - 1 \in 0 .. W - 1 /\ 1 + (W - 1) * per <= n /\ n < L + 1
      BY <2>1, <3>1, <3>2
    <3>4. QED
      BY <3>3 DEF per
  <2>5. QED
    BY <2>1, <2>3, <2>4
<1>4. QED
  BY <1>1, <1>2, <1>3

(* Once the warm-up threads are through, every key is stored.              *)
LEMMA WarmupDone ==
  ASSUME LoadTypeOK, WarmInv, Warmed, StartBenchmark
  PROVE  ReadableStored
<1>1. /\ \A id \in WarmupIds : next[id] = WarmupRange(id)[2]
      /\ StoredSoFar /\ ~skip_warmup /\ \A id \in Ids : local_max[id] = MIXED_PREFILL
  BY DEF StartBenchmark, WarmInv, Warmed
<1>2. \A id \in WarmupIds : \A n \in Int :
        WarmupRange(id)[1] <= n /\ n < WarmupRange(id)[2] => WarmupKey(id, n) \in stored
  BY <1>1 DEF StoredSoFar
<1>3. WarmupCount \in Nat \ {0} /\ (threads <= WarmupThreads => WarmupCount = threads)
  BY WarmupIdsOf DEF LoadTypeOK
<1>4. ASSUME type # "put_all" PROVE WarmupIds = 0 .. WarmupCount - 1
  BY <1>1, <1>4 DEF WarmupIds, Warms
<1>5. ASSUME type = "get_popular", NEW n \in 1 .. POPULAR_RANGE PROVE Numbered(n) \in stored
  <2>1. 0 \in WarmupIds
    BY <1>3, <1>4, <1>5
  <2>2. WarmupRange(0) = <<1, POPULAR_RANGE + 1>> /\ WarmupKey(0, n) = Numbered(n)
    BY <1>5 DEF WarmupRange, WarmupKey
  <2>3. n \in Int /\ 1 <= n /\ n < POPULAR_RANGE + 1
    BY LoadAssumption
  <2>4. QED
    BY <1>2, <2>1, <2>2, <2>3
<1>6. ASSUME type = "get_all", NEW n \in 1 .. LARGE_RANGE PROVE Numbered(n) \in stored
  <2> DEFINE per == LARGE_RANGE \div WarmupCount
  <2>1. PICK id \in 0 .. WarmupCount - 1 :
             /\ 1 + id * per <= n
             /\ n < IF id = WarmupCount - 1 THEN LARGE_RANGE + 1 ELSE 1 + id * per + per
    BY <1>3, RangesCover, LoadAssumption
  <2>2. WarmupRange(id) = <<1 + id * per, IF id = WarmupCount - 1 THEN LARGE_RANGE + 1
                                          ELSE 1 + id * per + per>>
    BY <1>6 DEF WarmupRange
  <2>3. id \in WarmupIds /\ WarmupKey(id, n) = Numbered(n) /\ n \in Int
    BY <1>4, <1>6 DEF WarmupKey
  <2> HIDE DEF per
  <2>4. QED
    BY <1>2, <2>1, <2>2, <2>3
<1>7. ASSUME type = "mix", NEW id \in Workers, NEW n \in 1 .. local_max[id]
      PROVE  History(id, n) \in stored
  <2>1. id \in WarmupIds
    BY <1>3, <1>4, <1>7 DEF Warmed, Workers
  <2>2. id \in Ids /\ local_max[id] = MIXED_PREFILL
    BY <1>1, WorkersAreIds DEF LoadTypeOK
  <2>3. WarmupRange(id) = <<1, MIXED_PREFILL + 1>> /\ WarmupKey(id, n) = History(id, n)
    BY <1>7 DEF WarmupRange, WarmupKey
  <2>4. n \in Int /\ 1 <= n /\ n < MIXED_PREFILL + 1
    BY <2>2, LoadAssumption
  <2>5. QED
    BY <1>2, <2>1, <2>3, <2>4
<1>8. QED
  BY <1>5, <1>6, <1>7 DEF ReadableStored

LEMMA WarmInitially == LoadInit => WarmInv
<1> SUFFICES ASSUME LoadInit PROVE WarmInv
  OBVIOUS
<1>1. NoMissing
  BY DEF LoadInit, NoMissing, NoAnswer, Counters
<1>2. StoredSoFar
  <2>1. WarmupIds \subseteq Ids
    BY WarmupIdsOf DEF LoadInit
  <2>2. \A id \in WarmupIds : next[id] = WarmupRange(id)[1] /\ WarmupRange(id)[1] \in Int
    BY <2>1, TypeInitially, WarmupRangeType DEF LoadInit
  <2>3. QED
    BY <2>2 DEF StoredSoFar
<1>3. QED
  BY <1>1, <1>2 DEF LoadInit, WarmInv

(* A warm-up POST stores its key, or somebody is to blame.                 *)
LEMMA WarmupWarms ==
  ASSUME LoadTypeOK, WarmInv, NEW id \in Ids, Warmup(id)
  PROVE  WarmInv'
<1>1. /\ phase = "warmup" /\ id \in WarmupIds
      /\ next' = [next EXCEPT ![id] = next[id] + 1]
      /\ \/ stored' = stored \cup {WarmupKey(id, next[id])} /\ blameless' = blameless
         \/ ~blameless'
      /\ UNCHANGED <<type, threads, skip_warmup, phase, local_max, answer, counted>>
  BY DEF Warmup
<1>2. Warmed' => Warmed /\ stored' = stored \cup {WarmupKey(id, next[id])}
  BY <1>1 DEF Warmed
<1>3. ASSUME Warmed' PROVE StoredSoFar'
  <2>1. /\ WarmupIds' = WarmupIds
        /\ \A w : WarmupRange(w)' = WarmupRange(w)
        /\ \A w, n : WarmupKey(w, n)' = WarmupKey(w, n)
    BY <1>1 DEF WarmupIds, Warms, WarmupCount, WarmupRange, WarmupKey
  <2>2. StoredSoFar
    BY <1>1, <1>2, <1>3 DEF WarmInv
  <2>3. WarmupIds \subseteq Ids
    BY WarmupIdsOf DEF LoadTypeOK
  <2>4. SUFFICES ASSUME NEW w \in WarmupIds, NEW n \in Int,
                        WarmupRange(w)[1] <= n, n < next'[w]
                 PROVE  WarmupKey(w, n) \in stored'
    BY <2>1 DEF StoredSoFar
  <2>5. n < next[w] \/ (w = id /\ n = next[id])
    BY <1>1, <2>3, <2>4 DEF LoadTypeOK
  <2>6. CASE n < next[w]
    BY <1>2, <1>3, <2>2, <2>4, <2>6 DEF StoredSoFar
  <2>7. CASE w = id /\ n = next[id]
    BY <1>2, <1>3, <2>7
  <2>8. QED
    BY <2>5, <2>6, <2>7
<1>4. blameless' => blameless
  BY <1>1
<1>5. NoMissing' <=> NoMissing
  BY <1>1 DEF NoMissing
<1>6. QED
  BY <1>1, <1>2, <1>3, <1>4, <1>5 DEF WarmInv

(* A worker reads what is stored, and what it has stored itself.           *)
LEMMA RequestWarms ==
  ASSUME LoadTypeOK, WarmInv, NEW id \in Ids, Request(id)
  PROVE  WarmInv'
<1>1. /\ id \in Workers /\ phase # "warmup" /\ local_max[id] \in Nat
      /\ UNCHANGED <<type, threads, skip_warmup, phase, counted>>
  BY RequestOf DEF LoadTypeOK
<1>2. Workers' = Workers /\ Workers \subseteq Ids
  BY <1>1, WorkersAreIds DEF Workers, LoadTypeOK
<1>3. ASSUME NEW key, Post(id, key)
      PROVE  /\ blameless' => blameless /\ stored' = stored \cup {key}
             /\ \A w \in Ids : answer[w].status # "404" => answer'[w].status # "404"
  <2>1. blameless' => blameless /\ stored' = stored \cup {key}
    BY <1>3 DEF Post
  <2>2. PICK status \in {"200", "500", "none"} :
             answer' = [answer EXCEPT ![id] = [op |-> "write", status |-> status]]
    BY <1>3 DEF Post, Answered
  <2>3. QED
    BY <2>1, <2>2 DEF LoadTypeOK
<1>4. ASSUME NEW key, Get(id, key)
      PROVE  /\ UNCHANGED <<blameless, stored>>
             /\ \A w \in Ids : answer[w].status # "404" /\ key \in stored
                               => answer'[w].status # "404"
  <2>1. UNCHANGED <<blameless, stored>>
    BY <1>4 DEF Get
  <2>2. PICK status \in {"500", "none"} \cup (IF key \in stored THEN {"HIT", "MISS"} ELSE {"404"}) :
             answer' = [answer EXCEPT ![id] = [op |-> "read", status |-> status]]
    BY <1>4 DEF Get, Answered
  <2>3. QED
    BY <2>1, <2>2 DEF LoadTypeOK
<1>5. ASSUME NEW key, Delete(id, key) PROVE ~blameless'
  BY <1>5 DEF Delete
<1>6. ASSUME ~blameless' PROVE WarmInv'
  BY <1>1, <1>6 DEF WarmInv, Warmed
<1>7. ASSUME NEW key, Get(id, key), local_max' = local_max,
             Warmed => key \in stored
      PROVE  WarmInv'
  <2>1. UNCHANGED <<blameless, stored>>
    BY <1>4, <1>7
  <2>2. Warmed' <=> Warmed
    BY <1>1, <2>1 DEF Warmed
  <2>3. Warmed => NoMissing'
    BY <1>1, <1>4, <1>7 DEF WarmInv, NoMissing
  <2>4. ReadableStored => ReadableStored'
    BY <1>1, <1>2, <1>7, <2>1 DEF ReadableStored
  <2>5. QED
    BY <1>1, <2>1, <2>2, <2>3, <2>4 DEF WarmInv
<1>8. ASSUME NEW key, Post(id, key), blameless',
             \/ type = "put_all" /\ local_max' = local_max
             \/ /\ type = "mix" /\ key = History(id, local_max[id] + 1)
                /\ local_max' = [local_max EXCEPT ![id] = local_max[id] + 1]
      PROVE  WarmInv'
  <2>1. blameless /\ stored' = stored \cup {key}
    BY <1>3, <1>8
  <2>2. Warmed' <=> Warmed
    BY <1>1, <1>8, <2>1 DEF Warmed
  <2>3. Warmed => NoMissing'
    BY <1>1, <1>3, <1>8 DEF WarmInv, NoMissing
  <2>4. ASSUME ReadableStored PROVE ReadableStored'
    <3>1. CASE type = "put_all"
      BY <1>1, <3>1 DEF ReadableStored
    <3>2. CASE type = "mix"
      <4>1. SUFFICES ASSUME NEW w \in Workers, NEW n \in 1 .. local_max'[w]
                     PROVE  History(w, n) \in stored'
        BY <1>1, <1>2, <3>2 DEF ReadableStored, History
      <4>2. n \in 1 .. local_max[w] \/ (w = id /\ n = local_max[id] + 1)
        BY <1>1, <1>2, <1>8, <3>2 DEF LoadTypeOK
      <4>3. QED
        BY <1>8, <2>1, <2>4, <3>2, <4>2 DEF ReadableStored
    <3>3. QED
      BY <1>8, <3>1, <3>2
  <2>5. QED
    BY <1>1, <2>1, <2>2, <2>3, <2>4 DEF WarmInv
<1>9. Warmed => ReadableStored
  BY <1>1 DEF WarmInv
<1>10. CASE type = "put_all" /\ UNCHANGED local_max
           /\ \E n \in 1 .. HUGE_RANGE : Post(id, Numbered(n)) \/ Delete(id, Numbered(n))
  BY <1>5, <1>6, <1>8, <1>10
<1>11. CASE type = "get_popular" /\ UNCHANGED local_max
           /\ \E n \in 1 .. POPULAR_RANGE : Get(id, Numbered(n))
  BY <1>7, <1>9, <1>11 DEF ReadableStored
<1>12. CASE type = "get_all" /\ UNCHANGED local_max
           /\ \E n \in 1 .. LARGE_RANGE : Get(id, Numbered(n))
  BY <1>7, <1>9, <1>12 DEF ReadableStored
<1>13. CASE type = "mix" /\ UNCHANGED local_max
           /\ \E n \in 1 .. local_max[id] : Get(id, History(id, n)) \/ Delete(id, History(id, n))
  <2>1. PICK n \in 1 .. local_max[id] : Get(id, History(id, n)) \/ Delete(id, History(id, n))
    BY <1>13
  <2>2. Warmed => History(id, n) \in stored
    BY <1>1, <1>9, <1>13 DEF ReadableStored
  <2>3. QED
    BY <1>5, <1>6, <1>7, <1>13, <2>1, <2>2
<1>14. CASE type = "mix" /\ local_max' = [local_max EXCEPT ![id] = local_max[id] + 1]
           /\ Post(id, History(id, local_max[id] + 1))
  BY <1>6, <1>8, <1>14
<1>15. QED
  BY <1>10, <1>11, <1>12, <1>13, <1>14 DEF Request

LEMMA CountWarms ==
  ASSUME LoadTypeOK, WarmInv, NEW id \in Ids, Count(id)
  PROVE  WarmInv'
<1>1. /\ counted' = [c \in Counters |-> IF c \in Incremented(answer[id])
                                        THEN counted[c] + 1 ELSE counted[c]]
      /\ UNCHANGED <<type, threads, skip_warmup, phase, next, local_max, answer, stored,
                     blameless>>
  BY DEF Count
<1>2. answer[id] \in Answers
  BY DEF LoadTypeOK
<1>3. answer[id].status # "404" => "missing" \notin Incremented(answer[id])
  BY <1>2 DEF Answers, Incremented
<1>4. NoMissing => NoMissing'
  BY <1>1, <1>3 DEF NoMissing, Counters
<1>5. /\ Warmed' <=> Warmed
      /\ StoredSoFar => StoredSoFar'
      /\ ReadableStored => ReadableStored'
  BY <1>1 DEF Warmed, StoredSoFar, ReadableStored, WarmupIds, Warms, WarmupCount,
              WarmupRange, WarmupKey, Workers
<1>6. QED
  BY <1>1, <1>4, <1>5 DEF WarmInv

(* The steps that leave keys, answers and counters alone.                  *)
LEMMA OtherWarms ==
  ASSUME WarmInv, UNCHANGED <<type, threads, skip_warmup, next, local_max, answer, counted,
                              stored, blameless>>,
         phase' = phase \/ (phase # "warmup" /\ phase' # "warmup")
           \/ (phase' # "warmup" /\ (Warmed => ReadableStored))
  PROVE  WarmInv'
<1>1. /\ Warmed' <=> Warmed
      /\ NoMissing' <=> NoMissing
      /\ StoredSoFar => StoredSoFar'
      /\ ReadableStored => ReadableStored'
  BY DEF Warmed, NoMissing, StoredSoFar, ReadableStored, WarmupIds, Warms, WarmupCount,
         WarmupRange, WarmupKey, Workers
<1>2. QED
  BY <1>1 DEF WarmInv

LEMMA WarmStep ==
  ASSUME LoadTypeOK, WarmInv, [LoadNext]_loadVars
  PROVE  WarmInv'
<1>1. ASSUME NEW id \in Ids, Quit(id) PROVE WarmInv'
  BY <1>1, OtherWarms DEF Quit
<1>2. CASE StartBenchmark
  BY <1>2, WarmupDone, OtherWarms DEF StartBenchmark
<1>3. CASE StopRunning
  BY <1>3, OtherWarms DEF StopRunning
<1>4. CASE Report
  BY <1>4, OtherWarms DEF Report
<1>5. CASE UNCHANGED loadVars
  BY <1>5, OtherWarms DEF loadVars
<1>6. QED
  BY <1>1, <1>2, <1>3, <1>4, <1>5, WarmupWarms, RequestWarms, CountWarms
     DEF LoadNext, Reported

LEMMA WarmInvariant == LoadSpec => [](LoadTypeOK /\ WarmInv)
  BY WarmInitially, WarmStep, TypeInvariant, PTL DEF LoadSpec

(* If every worker's keys were warmed up, no POST failed and nothing was   *)
(* deleted, no read is answered 404.                                       *)
THEOREM No404Unexplained == LoadSpec => []NoUnexplained404
<1>1. WarmInv => NoUnexplained404
  BY DEF WarmInv, Warmed, NoMissing, NoUnexplained404
<1>2. QED
  BY <1>1, WarmInvariant, PTL
=============================================================================
