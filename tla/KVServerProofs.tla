--------------------------- MODULE KVServerProofs ---------------------------
(***************************************************************************)
(* The connection pool, for every set of threads and every pool size: its  *)
(* invariants, and the order in which connections are lent.  Then the      *)
(* request handlers that use it, for every set of worker threads, keys and *)
(* values, every pool size and cache geometry, every set of routes and     *)
(* failures: types and control, their use of the pool, the agreement of    *)
(* cache and database on every key that is not suspect, and where answers  *)
(* come from.                                                              *)
(***************************************************************************)
EXTENDS KVHistory, DBPoolRotation, ShardedLRUCacheProofs, FiniteSetTheorems

(* A thread that is blocked or woken borrows nothing, and is not both.     *)
WaitersIdle ==
  /\ waiting \cap woken = {}
  /\ \A t \in waiting \cup woken : held[t] = NoConn

LEMMA PoolTypeInitially == PoolInit => PoolTypeOK
<1> SUFFICES ASSUME PoolInit PROVE PoolTypeOK
  OBVIOUS
<1>1. connections \in Seq(1..PoolSize)
  BY PoolAssumption DEF PoolInit, Connects, Construct
<1>2. QED
  BY <1>1, PoolAssumption DEF PoolInit, Connects, PoolTypeOK, NoConn

LEMMA PoolTypeStep ==
  ASSUME PoolTypeOK, [PoolNext]_poolVars
  PROVE  PoolTypeOK'
<1> USE PoolAssumption DEF PoolTypeOK
<1>1. ASSUME NEW t \in Threads, GetConnection(t) PROVE PoolTypeOK'
  <2>1. CASE Take(t)
    <3>1. Head(connections) \in 1..PoolSize /\ Tail(connections) \in Seq(1..PoolSize)
      BY <2>1, HeadTailProperties DEF Take
    <3>2. QED
      BY <2>1, <3>1 DEF Take
  <2>2. CASE Wait(t)
    BY <2>2 DEF Wait
  <2>3. QED
    BY <1>1, <2>1, <2>2 DEF GetConnection
<1>2. ASSUME NEW t \in Threads, SpuriousWakeup(t) PROVE PoolTypeOK'
  BY <1>2 DEF SpuriousWakeup
<1>3. ASSUME NEW t \in Threads, ReleaseConnection(t) PROVE PoolTypeOK'
  <2>1. held[t] \in 1..PoolSize
    BY <1>3 DEF ReleaseConnection, NoConn
  <2>2. connections' \in Seq(1..PoolSize)
    BY <1>3, <2>1, AppendProperties DEF ReleaseConnection
  <2>3. QED
    BY <1>3, <2>2 DEF ReleaseConnection, NotifyOne, NoConn
<1>4. ASSUME NEW t \in Threads, Abandon(t) PROVE PoolTypeOK'
  BY <1>4 DEF Abandon, NoConn
<1>5. CASE RestartPool
  <2>1. connections' \in Seq(1..PoolSize)
    BY <1>5 DEF RestartPool, Connects, Construct
  <2>2. QED
    BY <1>5, <2>1 DEF RestartPool, Connects, NoConn
<1>6. CASE UNCHANGED poolVars
  BY <1>6 DEF poolVars
<1>7. QED
  BY <1>1, <1>2, <1>3, <1>4, <1>5, <1>6 DEF PoolNext

(* The pool's variables keep their types through every interleaving of     *)
(* getConnection, releaseConnection, abandonment and restarts.             *)
THEOREM PoolTypeCorrect == PoolSpec => []PoolTypeOK
  BY PoolTypeInitially, PoolTypeStep, PTL DEF PoolSpec

LEMMA HoldersFinite ==
  /\ IsFiniteSet(Threads) /\ Cardinality(Threads) \in Nat
  /\ IsFiniteSet(Holders) /\ Cardinality(Holders) \in Nat
  /\ Cardinality(Holders) <= Cardinality(Threads)
  BY PoolAssumption, FS_Subset, FS_CardinalityType DEF Holders

LEMMA HoldersFinitePrimed ==
  IsFiniteSet(Holders') /\ Cardinality(Holders') \in Nat
  BY PoolAssumption, FS_Subset, FS_CardinalityType DEF Holders

(* A thread with no connection leaves room among the holders.              *)
LEMMA SomeoneWithout ==
  ASSUME NEW t \in Threads, held[t] = NoConn
  PROVE  Cardinality(Holders) < Cardinality(Threads)
<1>1. Holders \in SUBSET (Threads \ {t})
  BY DEF Holders
<1>2. IsFiniteSet(Threads \ {t}) /\ Cardinality(Threads \ {t}) = Cardinality(Threads) - 1
  BY PoolAssumption, FS_RemoveElement
<1>3. Cardinality(Holders) <= Cardinality(Threads) - 1
  BY <1>1, <1>2, FS_Subset
<1>4. QED
  BY <1>3, HoldersFinite

(* How each kind of step changes the number of holders.                    *)
LEMMA HoldersGain ==
  ASSUME PoolTypeOK, NEW t \in Threads, held[t] = NoConn, NEW c \in 1..PoolSize,
         held' = [held EXCEPT ![t] = c]
  PROVE  Cardinality(Holders') = Cardinality(Holders) + 1
<1>1. Holders' = Holders \cup {t} /\ t \notin Holders
  BY PoolAssumption DEF PoolTypeOK, Holders, NoConn
<1>2. QED
  BY <1>1, HoldersFinite, FS_AddElement

LEMMA HoldersLoss ==
  ASSUME PoolTypeOK, NEW t \in Threads, held[t] # NoConn,
         held' = [held EXCEPT ![t] = NoConn]
  PROVE  Cardinality(Holders') = Cardinality(Holders) - 1
<1>1. Holders' = Holders \ {t} /\ t \in Holders
  BY DEF PoolTypeOK, Holders
<1>2. QED
  BY <1>1, HoldersFinite, FS_RemoveElement

LEMMA NoHolders ==
  ASSUME NEW n \in 0..PoolSize, connections = Construct(n),
         held = [t \in Threads |-> NoConn]
  PROVE  Len(connections) = n /\ Cardinality(Holders) = 0
<1>1. Holders = {}
  BY DEF Holders
<1>2. Len(connections) = n
  BY PoolAssumption DEF Construct
<1>3. QED
  BY <1>1, <1>2, FS_EmptySet

LEMMA NoHoldersPrimed ==
  ASSUME NEW n \in 0..PoolSize, connections' = Construct(n),
         held' = [t \in Threads |-> NoConn]
  PROVE  Len(connections') = n /\ Cardinality(Holders') = 0
<1>1. Holders' = {}
  BY DEF Holders
<1>2. Len(connections') = n
  BY PoolAssumption DEF Construct
<1>3. QED
  BY <1>1, <1>2, FS_EmptySet

(* The inductive step of conservation.                                     *)
LEMMA ConservedStep ==
  ASSUME PoolTypeOK, ConnectionsConserved, [PoolNext]_poolVars
  PROVE  ConnectionsConserved'
<1> USE PoolAssumption DEF PoolTypeOK, ConnectionsConserved
<1>1. ASSUME NEW t \in Threads, GetConnection(t) PROVE ConnectionsConserved'
  <2>1. CASE Take(t)
    <3>1. Head(connections) \in 1..PoolSize /\ Len(connections') = Len(connections) - 1
      BY <2>1, HeadTailProperties DEF Take
    <3>2. Cardinality(Holders') = Cardinality(Holders) + 1
      BY <1>1, <2>1, <3>1, HoldersGain DEF GetConnection, Take
    <3>3. Len(connections) \in Nat
      BY LenProperties
    <3>4. QED
      BY <2>1, <3>1, <3>2, <3>3, HoldersFinite DEF Take
  <2>2. CASE Wait(t)
    BY <2>2 DEF Wait, Holders
  <2>3. QED
    BY <1>1, <2>1, <2>2 DEF GetConnection
<1>2. ASSUME NEW t \in Threads, SpuriousWakeup(t) PROVE ConnectionsConserved'
  BY <1>2 DEF SpuriousWakeup, Holders
<1>3. ASSUME NEW t \in Threads, ReleaseConnection(t) PROVE ConnectionsConserved'
  <2>1. held[t] \in 1..PoolSize
    BY <1>3 DEF ReleaseConnection, NoConn
  <2>2. Len(connections') = Len(connections) + 1
    BY <1>3, <2>1, AppendProperties DEF ReleaseConnection
  <2>3. Cardinality(Holders') = Cardinality(Holders) - 1
    BY <1>3, HoldersLoss DEF ReleaseConnection
  <2>4. Len(connections) \in Nat
    BY LenProperties
  <2>5. QED
    BY <1>3, <2>2, <2>3, <2>4, HoldersFinite DEF ReleaseConnection
<1>4. ASSUME NEW t \in Threads, Abandon(t) PROVE ConnectionsConserved'
  <2>1. Cardinality(Holders') = Cardinality(Holders) - 1
    BY <1>4, HoldersLoss DEF Abandon
  <2>2. Len(connections) \in Nat
    BY LenProperties
  <2>3. connections' = connections /\ leaked' = leaked + 1 /\ opened' = opened
    BY <1>4 DEF Abandon
  <2>4. leaked \in Nat /\ Len(connections) + Cardinality(Holders) + leaked = opened
    OBVIOUS
  <2>5. Len(connections') = Len(connections)
    BY <2>3
  <2>6. Len(connections') + Cardinality(Holders') + leaked' = opened'
    <3> HIDE DEF PoolTypeOK, ConnectionsConserved
    <3>1. QED
      BY <2>1, <2>2, <2>3, <2>4, <2>5, HoldersFinite
  <2>7. QED
    BY <2>6
<1>5. CASE RestartPool
  BY <1>5, NoHoldersPrimed DEF RestartPool, Connects
<1>6. CASE UNCHANGED poolVars
  BY <1>6 DEF poolVars, Holders
<1>7. QED
  BY <1>1, <1>2, <1>3, <1>4, <1>5, <1>6 DEF PoolNext

(* Idle, borrowed and abandoned connections always add up to those the     *)
(* constructor opened, for any number of threads and connections.          *)
THEOREM PoolConserves == PoolSpec => []ConnectionsConserved
<1>1. PoolInit => ConnectionsConserved
  BY PoolAssumption, NoHolders DEF PoolInit, Connects, ConnectionsConserved
<1>2. QED
  BY <1>1, ConservedStep, PoolTypeCorrect, PTL DEF PoolSpec

(* getConnection blocks only when fewer connections are left than there    *)
(* are threads, so a pool as large as the thread pool whose connects all   *)
(* succeed never makes a handler wait.                                     *)
THEOREM PoolWaitsOnlyWhenShort == PoolSpec => []WaitOnlyWhenShort
<1>1. PoolInit => WaitOnlyWhenShort
  BY DEF PoolInit, WaitOnlyWhenShort
<1>2. PoolTypeOK /\ ConnectionsConserved /\ WaitOnlyWhenShort /\ [PoolNext]_poolVars
        => WaitOnlyWhenShort'
  <2> SUFFICES ASSUME PoolTypeOK, ConnectionsConserved, WaitOnlyWhenShort,
                      [PoolNext]_poolVars
               PROVE  WaitOnlyWhenShort'
    OBVIOUS
  <2> USE DEF PoolTypeOK, WaitOnlyWhenShort
  <2>1. ASSUME NEW t \in Threads, GetConnection(t) PROVE WaitOnlyWhenShort'
    <3>1. CASE Take(t)
      BY <3>1 DEF Take
    <3>2. CASE Wait(t)
      <4>1. Cardinality(Holders) < Cardinality(Threads)
        BY <2>1, SomeoneWithout DEF GetConnection
      <4>2. opened - leaked = Cardinality(Holders)
        BY <3>2, HoldersFinite, PoolAssumption DEF Wait, ConnectionsConserved
      <4>3. QED
        BY <3>2, <4>1, <4>2 DEF Wait
    <3>3. QED
      BY <2>1, <3>1, <3>2 DEF GetConnection
  <2>2. ASSUME NEW t \in Threads, SpuriousWakeup(t) PROVE WaitOnlyWhenShort'
    BY <2>2 DEF SpuriousWakeup
  <2>3. ASSUME NEW t \in Threads, ReleaseConnection(t) PROVE WaitOnlyWhenShort'
    BY <2>3 DEF ReleaseConnection, NotifyOne
  <2>4. ASSUME NEW t \in Threads, Abandon(t) PROVE WaitOnlyWhenShort'
    BY <2>4, HoldersFinite, PoolAssumption DEF Abandon
  <2>5. CASE RestartPool
    BY <2>5 DEF RestartPool
  <2>6. CASE UNCHANGED poolVars
    BY <2>6 DEF poolVars
  <2>7. QED
    BY <2>1, <2>2, <2>3, <2>4, <2>5, <2>6 DEF PoolNext
<1>3. QED
  BY <1>1, <1>2, PoolTypeCorrect, PoolConserves, PTL DEF PoolSpec

(* What NoLostWakeup needs to be inductive.                                *)
WakeupInv == WaitersIdle /\ NoLostWakeup

LEMMA WokenFinite ==
  ASSUME PoolTypeOK
  PROVE  IsFiniteSet(woken) /\ Cardinality(woken) \in Nat
  BY PoolAssumption, FS_Subset, FS_CardinalityType DEF PoolTypeOK

LEMMA WakeupStep ==
  ASSUME PoolTypeOK, WakeupInv, [PoolNext]_poolVars
  PROVE  WakeupInv'
<1> USE PoolAssumption DEF PoolTypeOK, WakeupInv, WaitersIdle
<1>l. Len(connections) \in Nat
  BY LenProperties
<1>w. IsFiniteSet(woken) /\ Cardinality(woken) \in Nat
  BY WokenFinite
<1>1. ASSUME NEW t \in Threads, GetConnection(t) PROVE WakeupInv'
  <2>1. CASE Take(t)
    <3>1. Len(connections') = Len(connections) - 1
      BY <2>1, HeadTailProperties DEF Take
    <3>2. Cardinality(woken') >= Cardinality(woken) - 1
      <4>1. woken' = woken \ {t}
        BY <2>1 DEF Take
      <4>2. CASE t \in woken
        <5>1. Cardinality(woken \ {t}) = Cardinality(woken) - 1
          BY <4>2, <1>w, FS_RemoveElement
        <5>2. QED
          BY <4>1, <5>1, <1>w
      <4>3. CASE t \notin woken
        <5>1. woken' = woken
          BY <4>1, <4>3
        <5>2. QED
          BY <5>1, <1>w
      <4>4. QED
        BY <4>2, <4>3
    <3>3. WaitersIdle'
      BY <1>1, <2>1 DEF Take, GetConnection
    <3>4. Cardinality(woken') \in Nat
      BY <2>1, <1>w, FS_RemoveElement, FS_CardinalityType DEF Take
    <3>5. QED
      BY <1>l, <1>w, <2>1, <3>1, <3>2, <3>3, <3>4 DEF Take, NoLostWakeup
  <2>2. CASE Wait(t)
    <3>1. Len(connections') = 0
      BY <2>2 DEF Wait
    <3>2. Cardinality(woken') \in Nat
      BY <2>2, <1>w, FS_RemoveElement, FS_CardinalityType DEF Wait
    <3>3. WaitersIdle'
      BY <1>1, <2>2 DEF Wait, GetConnection
    <3>4. QED
      BY <3>1, <3>2, <3>3 DEF NoLostWakeup
  <2>3. QED
    BY <1>1, <2>1, <2>2 DEF GetConnection
<1>2. ASSUME NEW t \in Threads, SpuriousWakeup(t) PROVE WakeupInv'
  <2>1. Cardinality(woken') = Cardinality(woken) + 1
    BY <1>2, <1>w, FS_AddElement DEF SpuriousWakeup
  <2>2. WaitersIdle'
    BY <1>2 DEF SpuriousWakeup
  <2>3. QED
    BY <1>2, <1>l, <1>w, <2>1, <2>2 DEF SpuriousWakeup, NoLostWakeup
<1>3. ASSUME NEW t \in Threads, ReleaseConnection(t) PROVE WakeupInv'
  <2>1. held[t] \in 1..PoolSize
    BY <1>3 DEF ReleaseConnection, NoConn
  <2>2. Len(connections') = Len(connections) + 1
    BY <1>3, <2>1, AppendProperties DEF ReleaseConnection
  <2>3. WaitersIdle'
    BY <1>3 DEF ReleaseConnection, NotifyOne
  <2>4. CASE waiting = {}
    BY <1>3, <2>3, <2>4 DEF ReleaseConnection, NotifyOne, NoLostWakeup
  <2>5. ASSUME NEW w \in waiting, woken' = woken \cup {w} PROVE WakeupInv'
    <3>1. Cardinality(woken') = Cardinality(woken) + 1
      BY <2>5, <1>w, FS_AddElement
    <3>2. Len(connections) <= Cardinality(woken)
      BY <2>5 DEF NoLostWakeup
    <3>3. QED
      BY <1>l, <1>w, <2>2, <2>3, <3>1, <3>2 DEF NoLostWakeup
  <2>6. QED
    BY <1>3, <2>4, <2>5 DEF ReleaseConnection, NotifyOne
<1>4. ASSUME NEW t \in Threads, Abandon(t) PROVE WakeupInv'
  BY <1>4 DEF Abandon, NoLostWakeup
<1>5. CASE RestartPool
  BY <1>5 DEF RestartPool, NoLostWakeup
<1>6. CASE UNCHANGED poolVars
  BY <1>6 DEF poolVars, NoLostWakeup
<1>7. QED
  BY <1>1, <1>2, <1>3, <1>4, <1>5, <1>6 DEF PoolNext

(* cv.notify_one loses no wakeup: whenever threads are blocked, there are  *)
(* at least as many woken threads as idle connections.                     *)
THEOREM PoolLosesNoWakeup == PoolSpec => []NoLostWakeup
<1>1. PoolInit => WakeupInv
  BY DEF PoolInit, WakeupInv, WaitersIdle, NoLostWakeup
<1>2. WakeupInv => NoLostWakeup
  BY DEF WakeupInv
<1>3. QED
  BY <1>1, <1>2, WakeupStep, PoolTypeCorrect, PTL DEF PoolSpec

LEMMA ExclusiveStep ==
  ASSUME PoolTypeOK, ConnectionsExclusive, [PoolNext]_poolVars
  PROVE  ConnectionsExclusive'
<1> USE PoolAssumption DEF PoolTypeOK, ConnectionsExclusive, Holders
<1>l. Len(connections) \in Nat /\ DOMAIN connections = 1..Len(connections)
  BY LenProperties
<1>1. ASSUME NEW t \in Threads, GetConnection(t) PROVE ConnectionsExclusive'
  <2>1. CASE Take(t)
    <3>1. /\ Head(connections) = connections[1] /\ Len(connections) >= 1
          /\ Len(connections') = Len(connections) - 1
          /\ DOMAIN connections' = 1..Len(connections')
          /\ \A i \in 1..Len(connections') : connections'[i] = connections[i+1]
      BY <2>1, <1>l, HeadTailProperties, LenProperties DEF Take
    <3>2. held' = [held EXCEPT ![t] = connections[1]]
      BY <2>1, <3>1 DEF Take
    <3>3. \A u, v \in Holders' : held'[u] = held'[v] => u = v
      <4>1. SUFFICES ASSUME NEW u \in Holders', NEW v \in Holders', held'[u] = held'[v]
                     PROVE  u = v
        OBVIOUS
      <4>2. 1 \in DOMAIN connections
        BY <1>l, <3>1
      <4>3. \A w \in Threads \ {t} : held'[w] = held[w]
        BY <3>2
      <4>4. held'[t] = connections[1]
        BY <3>2
      <4>5. CASE u # t /\ v # t
        BY <4>1, <4>3, <4>5
      <4>6. CASE u = t /\ v # t
        BY <4>1, <4>2, <4>3, <4>4, <4>6
      <4>7. CASE u # t /\ v = t
        BY <4>1, <4>2, <4>3, <4>4, <4>7
      <4>8. QED
        BY <4>5, <4>6, <4>7
    <3>4. \A i, j \in DOMAIN connections' :
             connections'[i] = connections'[j] => i = j
      <4>1. SUFFICES ASSUME NEW i \in DOMAIN connections', NEW j \in DOMAIN connections',
                            connections'[i] = connections'[j]
                     PROVE  i = j
        OBVIOUS
      <4>2. i + 1 \in DOMAIN connections /\ j + 1 \in DOMAIN connections
        BY SMTT(60), <1>l, <3>1
      <4>3. connections[i+1] = connections[j+1]
        BY <3>1, <4>1
      <4>4. i + 1 = j + 1
        BY <4>2, <4>3
      <4>5. QED
        BY <3>1, <4>4
    <3>5. \A u \in Holders', i \in DOMAIN connections' : held'[u] # connections'[i]
      <4>1. SUFFICES ASSUME NEW u \in Holders', NEW i \in DOMAIN connections'
                     PROVE  held'[u] # connections[i+1]
        BY ZenonT(60), <3>1
      <4>2. i + 1 \in DOMAIN connections /\ 1 \in DOMAIN connections /\ i + 1 # 1
        BY <1>l, <3>1
      <4>3. QED
        BY <3>2, <4>1, <4>2
    <3>6. QED
      BY <3>3, <3>4, <3>5
  <2>2. CASE Wait(t)
    BY <2>2 DEF Wait
  <2>3. QED
    BY <1>1, <2>1, <2>2 DEF GetConnection
<1>2. ASSUME NEW t \in Threads, SpuriousWakeup(t) PROVE ConnectionsExclusive'
  BY <1>2 DEF SpuriousWakeup
<1>3. ASSUME NEW t \in Threads, ReleaseConnection(t) PROVE ConnectionsExclusive'
  <2>1. held[t] \in 1..PoolSize /\ t \in Holders
    BY <1>3 DEF ReleaseConnection, NoConn
  <2>2. /\ Len(connections') = Len(connections) + 1
        /\ DOMAIN connections' = 1..Len(connections')
        /\ \A i \in 1..Len(connections) : connections'[i] = connections[i]
        /\ connections'[Len(connections) + 1] = held[t]
    BY <1>3, <2>1, AppendProperties, LenProperties DEF ReleaseConnection
  <2>3. Holders' = Holders \ {t} /\ \A u \in Holders' : held'[u] = held[u]
    BY <1>3 DEF ReleaseConnection
  <2>4. \A i \in DOMAIN connections' :
           \/ i \in DOMAIN connections /\ connections'[i] = connections[i]
           \/ i = Len(connections) + 1 /\ connections'[i] = held[t]
    BY <1>l, <2>2
  <2>5. \A u, v \in Holders' : held'[u] = held'[v] => u = v
    BY <2>3
  <2>6. \A u \in Holders', i \in DOMAIN connections' : held'[u] # connections'[i]
    <3>1. SUFFICES ASSUME NEW u \in Holders', NEW i \in DOMAIN connections'
                   PROVE  held'[u] # connections'[i]
      OBVIOUS
    <3>2. u \in Holders /\ u # t /\ held'[u] = held[u]
      BY <2>3
    <3>3. QED
      BY <2>1, <2>4, <3>2
  <2>7. \A i, j \in DOMAIN connections' :
           connections'[i] = connections'[j] => i = j
    <3>1. SUFFICES ASSUME NEW i \in DOMAIN connections', NEW j \in DOMAIN connections',
                          connections'[i] = connections'[j]
                   PROVE  i = j
      OBVIOUS
    <3>2. \A k \in DOMAIN connections : connections[k] # held[t]
      BY <2>1
    <3>3. QED
      BY <2>4, <3>1, <3>2
  <2>8. QED
    BY <2>5, <2>6, <2>7
<1>4. ASSUME NEW t \in Threads, Abandon(t) PROVE ConnectionsExclusive'
  BY <1>4 DEF Abandon
<1>5. CASE RestartPool
  BY <1>5 DEF RestartPool, Connects, Construct
<1>6. CASE UNCHANGED poolVars
  BY <1>6 DEF poolVars
<1>7. QED
  BY <1>1, <1>2, <1>3, <1>4, <1>5, <1>6 DEF PoolNext

(* A MySQL connection is never lent to two handlers at once, nor put back  *)
(* into the queue while somebody uses it.                                  *)
THEOREM PoolLendsExclusively == PoolSpec => []ConnectionsExclusive
<1>1. PoolInit => ConnectionsExclusive
  BY DEF PoolInit, ConnectionsExclusive, Construct, Holders
<1>2. QED
  BY <1>1, ExclusiveStep, PoolTypeCorrect, PTL DEF PoolSpec
-----------------------------------------------------------------------------
(* What is owed to an idle connection stands ahead of it in the queue.     *)
OwedAhead ==
  /\ owed \in [1 .. PoolSize -> SUBSET (1 .. PoolSize)]
  /\ \A i \in DOMAIN connections :
       owed[connections[i]] \subseteq {connections[j] : j \in 1 .. i - 1}

RotInv == PoolTypeOK /\ ConnectionsExclusive /\ OwedAhead

LEMMA RotationStepsPool == [RotationNext]_<<poolVars, owed>> => [PoolNext]_poolVars
  BY DEF RotationNext, PoolNext, poolVars

LEMMA QueueHoldsConnections ==
  PoolTypeOK => \A i \in DOMAIN connections : connections[i] \in 1 .. PoolSize
  BY ElementOfSeq, LenProperties DEF PoolTypeOK

LEMMA QueueHoldsConnectionsPrimed ==
  PoolTypeOK' => \A i \in DOMAIN connections' : connections'[i] \in 1 .. PoolSize
  BY ElementOfSeq, LenProperties DEF PoolTypeOK

LEMMA RotationInitially == RotationInit => RotInv
<1> SUFFICES ASSUME RotationInit PROVE RotInv
  OBVIOUS
<1>1. PoolTypeOK
  BY PoolTypeInitially DEF RotationInit
<1>2. ConnectionsExclusive
  BY DEF RotationInit, PoolInit, ConnectionsExclusive, Construct, Holders
<1>3. OwedAhead
  <2>1. \A i \in DOMAIN connections : connections[i] \in 1 .. PoolSize
    BY <1>1, QueueHoldsConnections
  <2>2. QED
    BY <2>1 DEF RotationInit, NothingOwed, OwedAhead
<1>4. QED
  BY <1>1, <1>2, <1>3 DEF RotInv

(* The connection a handler takes is the head of the queue, and no other   *)
(* step lends one.                                                         *)
LEMMA TakeLendsHead ==
  ASSUME PoolTypeOK, NEW t \in Threads, GetConnection(t), Take(t)
  PROVE  /\ Lent = {connections[1]} /\ Returned = {}
         /\ Len(connections') = Len(connections) - 1
         /\ DOMAIN connections' = 1 .. Len(connections')
         /\ \A i \in DOMAIN connections' : connections'[i] = connections[i + 1]
<1>1. /\ Head(connections) = connections[1] /\ Len(connections) >= 1
      /\ Len(connections) \in Nat /\ DOMAIN connections = 1 .. Len(connections)
      /\ Len(connections') = Len(connections) - 1
      /\ DOMAIN connections' = 1 .. Len(connections')
      /\ \A i \in DOMAIN connections' : connections'[i] = connections[i + 1]
  BY HeadTailProperties, LenProperties DEF Take, PoolTypeOK
<1>2. connections[1] \in 1 .. PoolSize
  BY <1>1, QueueHoldsConnections
<1>3. held'[t] = connections[1] /\ \A u \in Threads \ {t} : held'[u] = held[u]
  BY <1>1 DEF Take, PoolTypeOK
<1>4. held[t] = NoConn /\ connections[1] # NoConn
  BY <1>2, PoolAssumption DEF GetConnection, NoConn
<1>5. {u \in Threads : held[u] = NoConn /\ held'[u] # NoConn} = {t}
  BY <1>3, <1>4
<1>6. Lent = {connections[1]}
  BY <1>3, <1>5 DEF Lent
<1>7. Idle' \subseteq Idle
  BY <1>1 DEF Idle
<1>8. QED
  BY <1>1, <1>6, <1>7 DEF Returned

LEMMA OthersLendNothing ==
  ASSUME PoolTypeOK, NEW t \in Threads,
         Wait(t) \/ SpuriousWakeup(t) \/ ReleaseConnection(t) \/ Abandon(t)
  PROVE  Lent = {}
<1>1. \A u \in Threads : held[u] = NoConn => held'[u] = NoConn
  BY DEF PoolTypeOK, Wait, SpuriousWakeup, ReleaseConnection, Abandon
<1>2. QED
  BY <1>1 DEF Lent

LEMMA TakeKeepsOwed ==
  ASSUME RotInv, NEW t \in Threads, GetConnection(t), Take(t), Rotate
  PROVE  OwedAhead'
<1> DEFINE h == connections[1]
<1>1. /\ Lent = {h} /\ Returned = {}
      /\ Len(connections') = Len(connections) - 1
      /\ DOMAIN connections' = 1 .. Len(connections')
      /\ \A i \in DOMAIN connections' : connections'[i] = connections[i + 1]
  BY TakeLendsHead DEF RotInv
<1>2. Len(connections) \in Nat /\ DOMAIN connections = 1 .. Len(connections)
  BY LenProperties DEF RotInv, PoolTypeOK
<1>3. \A c \in 1 .. PoolSize : owed'[c] = IF c = h THEN {} ELSE owed[c] \ {h}
  BY <1>1 DEF Rotate
<1>4. owed' \in [1 .. PoolSize -> SUBSET (1 .. PoolSize)]
  <2>1. DOMAIN owed' = 1 .. PoolSize /\ owed' = [c \in 1 .. PoolSize |-> owed'[c]]
    BY DEF Rotate
  <2>2. \A c \in 1 .. PoolSize : owed'[c] \in SUBSET (1 .. PoolSize)
    BY <1>3 DEF RotInv, OwedAhead
  <2>3. QED
    BY <2>1, <2>2
<1>5. ASSUME NEW i \in DOMAIN connections'
      PROVE  owed'[connections'[i]] \subseteq {connections'[j] : j \in 1 .. i - 1}
  <2>1. i \in Nat /\ i + 1 \in DOMAIN connections /\ 1 \in DOMAIN connections /\ i + 1 # 1
    BY <1>1, <1>2
  <2>2. connections'[i] = connections[i + 1] /\ connections[i + 1] \in 1 .. PoolSize
    BY <1>1, <2>1, QueueHoldsConnections DEF RotInv
  <2>3. connections[i + 1] # h
    BY <2>1 DEF RotInv, ConnectionsExclusive
  <2>4. owed'[connections'[i]] = owed[connections[i + 1]] \ {h}
    BY <1>3, <2>2, <2>3
  <2>5. owed[connections[i + 1]] \subseteq {connections[j] : j \in 1 .. i + 1 - 1}
    BY <2>1 DEF RotInv, OwedAhead
  <2>6. ASSUME NEW c \in owed[connections[i + 1]] \ {h}
        PROVE  c \in {connections'[j] : j \in 1 .. i - 1}
    <3>1. PICK j \in 1 .. i + 1 - 1 : c = connections[j]
      BY <2>5
    <3>2. j # 1
      BY <3>1, <2>6
    <3>3. j - 1 \in 1 .. i - 1 /\ j - 1 \in DOMAIN connections' /\ j - 1 + 1 = j
      BY <3>1, <3>2, <1>1, <1>2, <2>1
    <3>4. connections'[j - 1] = c
      BY <1>1, <3>1, <3>3
    <3>5. QED
      BY <3>3, <3>4
  <2>7. QED
    BY <2>4, <2>6
<1>6. QED
  BY <1>4, <1>5 DEF OwedAhead

LEMMA ReleaseKeepsOwed ==
  ASSUME RotInv, NEW t \in Threads, ReleaseConnection(t), Rotate
  PROVE  OwedAhead'
<1> DEFINE n == Len(connections)
<1>1. Lent = {}
  BY OthersLendNothing DEF RotInv
<1>2. held[t] \in 1 .. PoolSize /\ t \in Holders
  BY DEF RotInv, PoolTypeOK, ReleaseConnection, NoConn, Holders
<1>3. /\ n \in Nat /\ DOMAIN connections = 1 .. n
      /\ DOMAIN connections' = 1 .. n + 1
      /\ \A i \in 1 .. n : connections'[i] = connections[i]
      /\ connections'[n + 1] = held[t]
  BY <1>2, AppendProperties, LenProperties DEF RotInv, PoolTypeOK, ReleaseConnection
<1>4. \A i \in DOMAIN connections : connections[i] # held[t]
  BY <1>2 DEF RotInv, ConnectionsExclusive
<1>5. Returned = {held[t]}
  <2>1. held[t] \in Idle' /\ Idle' \subseteq Idle \cup {held[t]}
    BY <1>3 DEF Idle
  <2>2. held[t] \notin Idle
    BY <1>4 DEF Idle
  <2>3. QED
    BY <2>1, <2>2 DEF Returned
<1>6. \A c \in 1 .. PoolSize : owed'[c] = IF c = held[t] THEN Idle ELSE owed[c]
  BY <1>1, <1>5 DEF Rotate
<1>7. owed' \in [1 .. PoolSize -> SUBSET (1 .. PoolSize)]
  <2>1. owed' = [c \in 1 .. PoolSize |-> owed'[c]]
    BY DEF Rotate
  <2>2. Idle \subseteq 1 .. PoolSize
    BY QueueHoldsConnections DEF RotInv, Idle
  <2>3. \A c \in 1 .. PoolSize : owed'[c] \in SUBSET (1 .. PoolSize)
    BY <1>6, <2>2 DEF RotInv, OwedAhead
  <2>4. QED
    BY <2>1, <2>3
<1>8. ASSUME NEW i \in DOMAIN connections'
      PROVE  owed'[connections'[i]] \subseteq {connections'[j] : j \in 1 .. i - 1}
  <2>1. CASE i = n + 1
    <3>1. owed'[connections'[i]] = Idle /\ i - 1 = n
      BY <1>2, <1>3, <1>6, <2>1
    <3>2. Idle \subseteq {connections'[j] : j \in 1 .. n}
      BY <1>3 DEF Idle
    <3>3. QED
      BY <3>1, <3>2
  <2>2. CASE i \in 1 .. n
    <3>1. /\ connections'[i] = connections[i] /\ connections[i] # held[t]
          /\ connections[i] \in 1 .. PoolSize
      BY <1>3, <1>4, <2>2, QueueHoldsConnections DEF RotInv
    <3>2. owed'[connections'[i]] = owed[connections[i]]
      BY <1>6, <3>1
    <3>3. owed[connections[i]] \subseteq {connections[j] : j \in 1 .. i - 1}
      BY <1>3, <2>2 DEF RotInv, OwedAhead
    <3>4. {connections[j] : j \in 1 .. i - 1} \subseteq {connections'[j] : j \in 1 .. i - 1}
      BY <1>3, <2>2
    <3>5. QED
      BY <3>2, <3>3, <3>4
  <2>3. QED
    BY <1>3, <1>8, <2>1, <2>2
<1>9. QED
  BY <1>7, <1>8 DEF OwedAhead

LEMMA SameQueueKeepsOwed ==
  ASSUME RotInv, UNCHANGED connections, Lent = {}, Rotate
  PROVE  OwedAhead'
<1>1. Idle' = Idle /\ Returned = {}
  BY DEF Idle, Returned
<1>2. \A c \in 1 .. PoolSize : owed'[c] = owed[c]
  BY <1>1 DEF Rotate
<1>3. owed' = owed
  BY <1>2 DEF Rotate, RotInv, OwedAhead
<1>4. QED
  BY <1>3 DEF RotInv, OwedAhead

LEMMA RotationKeepsInv ==
  ASSUME RotInv, [RotationNext]_<<poolVars, owed>>
  PROVE  RotInv'
<1>1. PoolTypeOK' /\ ConnectionsExclusive'
  BY RotationStepsPool, PoolTypeStep, ExclusiveStep DEF RotInv
<1>2. OwedAhead'
  <2>1. ASSUME NEW t \in Threads, GetConnection(t), Rotate PROVE OwedAhead'
    <3>1. CASE Take(t)
      BY <2>1, <3>1, TakeKeepsOwed
    <3>2. CASE Wait(t)
      <4>1. Lent = {} /\ UNCHANGED connections
        BY <3>2, OthersLendNothing DEF RotInv, Wait
      <4>2. QED
        BY <2>1, <4>1, SameQueueKeepsOwed
    <3>3. QED
      BY <2>1, <3>1, <3>2 DEF GetConnection
  <2>2. ASSUME NEW t \in Threads, SpuriousWakeup(t) \/ Abandon(t), Rotate PROVE OwedAhead'
    <3>1. Lent = {} /\ UNCHANGED connections
      BY <2>2, OthersLendNothing DEF RotInv, SpuriousWakeup, Abandon
    <3>2. QED
      BY <2>2, <3>1, SameQueueKeepsOwed
  <2>3. ASSUME NEW t \in Threads, ReleaseConnection(t), Rotate PROVE OwedAhead'
    BY <2>3, ReleaseKeepsOwed
  <2>4. CASE RestartPool /\ owed' = NothingOwed
    <3>1. \A i \in DOMAIN connections' : connections'[i] \in 1 .. PoolSize
      BY <1>1, QueueHoldsConnectionsPrimed
    <3>2. QED
      BY <2>4, <3>1 DEF NothingOwed, OwedAhead
  <2>5. CASE UNCHANGED <<poolVars, owed>>
    BY <2>5 DEF poolVars, RotInv, OwedAhead
  <2>6. QED
    BY <2>1, <2>2, <2>3, <2>4, <2>5 DEF RotationNext
<1>3. QED
  BY <1>1, <1>2 DEF RotInv

LEMMA RotationStepLends ==
  ASSUME RotInv, [RotationNext]_<<poolVars, owed>>
  PROVE  [\A c \in Lent : owed[c] = {}]_<<poolVars, owed>>
<1>1. ASSUME NEW t \in Threads, GetConnection(t) PROVE \A c \in Lent : owed[c] = {}
  <2>1. CASE Take(t)
    <3>1. Lent = {connections[1]}
      BY <1>1, <2>1, TakeLendsHead DEF RotInv
    <3>2. 1 \in DOMAIN connections
      BY <2>1, LenProperties, EmptySeq DEF RotInv, PoolTypeOK, Take
    <3>3. owed[connections[1]] \subseteq {connections[j] : j \in 1 .. 1 - 1}
      BY <3>2 DEF RotInv, OwedAhead
    <3>4. QED
      BY <3>1, <3>3
  <2>2. CASE Wait(t)
    BY <2>2, OthersLendNothing DEF RotInv
  <2>3. QED
    BY <1>1, <2>1, <2>2 DEF GetConnection
<1>2. ASSUME NEW t \in Threads, SpuriousWakeup(t) \/ ReleaseConnection(t) \/ Abandon(t)
      PROVE  \A c \in Lent : owed[c] = {}
  BY <1>2, OthersLendNothing DEF RotInv
<1>3. CASE RestartPool
  BY <1>3 DEF RestartPool, Lent
<1>4. QED
  BY <1>1, <1>2, <1>3 DEF RotationNext

(* A connection that came back, dead or alive, is lent again only after    *)
(* every connection that was idle at its return was lent: for any number   *)
(* of threads and connections, through abandonment and restarts.           *)
THEOREM DeadConnectionsWait == RotationSpec => DeadConnectionWaitsItsTurn
<1>1. RotationSpec => []RotInv
  BY RotationInitially, RotationKeepsInv, PTL DEF RotationSpec
<1>2. QED
  BY <1>1, RotationStepLends, PTL DEF RotationSpec, DeadConnectionWaitsItsTurn
-----------------------------------------------------------------------------
(* Where a handler of each method may be, with which response so far.      *)
ControlOK(p, m, i) ==
  \/ p = "idle" /\ m = "none" /\ i = "none"
  \/ p = "probe" /\ m = "GET" /\ i = "none"
  \/ p \in {"acquire", "sql"} /\ m \in {"POST", "GET", "PUT", "DELETE"} /\ i = "none"
  \/ p = "fill" /\ m = "GET" /\ i = "miss"
  \/ p = "release" /\ \/ m = "GET" /\ i \in {"miss", "not_found", "error"}
                      \/ m \in {"POST", "DELETE"} /\ i = "none"
                      \/ m = "PUT" /\ i \in {"updated", "not_found"}
  \/ p = "unwind" /\ \/ m = "GET" /\ i = "error"
                     \/ m = "POST" /\ i = "none"
                     \/ m = "PUT" /\ i = "not_found"
  \/ p = "refresh" /\ \/ m = "POST" /\ i = "none"
                      \/ m = "PUT" /\ i = "updated"
  \/ p = "invalidate" /\ m = "DELETE" /\ i = "none"
  \/ p = "respond" /\ \/ m = "none" /\ i \in {"bad_request", "error"}
                      \/ m = "GET" /\ i \in {"hit", "miss", "not_found", "error"}
                      \/ m = "POST" /\ i \in {"created", "error"}
                      \/ m = "PUT" /\ i \in {"updated", "not_found", "error"}
                      \/ m = "DELETE" /\ i \in {"deleted", "error"}

Control == \A t \in Threads : ControlOK(pc[t], req[t].method, res[t].is)

(* The values in flight are values.                                        *)
ValuesInFlight ==
  \A t \in Threads :
    /\ req[t].method \in {"POST", "PUT"} => req[t].val \in Values
    /\ res[t].is = "miss" => res[t].val \in Values

(* Types, control and shards: the part of the invariant on which the       *)
(* others rest.                                                            *)
BaseInv == KVTypeOK /\ ShardsWellFormed /\ Control /\ ValuesInFlight

(* KVTypeOK without the pool's and the cache's part.                       *)
HandlerTypeOK ==
  /\ db \in [Range(Row) -> Values \cup {Absent}]
  /\ pc \in [Threads -> Labels]
  /\ req \in [Threads -> [method : Methods, key : Keys, val : Values \cup {Absent}]
                         \cup {NoReq}]
  /\ res \in [Threads -> [is : {"none", "hit", "miss", "not_found", "error",
                                "created", "updated", "deleted", "bad_request"},
                          val : Values \cup {Absent}]]
  /\ solo \subseteq Threads /\ suspect \subseteq Keys

HandlerInv == HandlerTypeOK /\ Control /\ ValuesInFlight

LEMMA BaseParts ==
  /\ BaseInv <=> PoolTypeOK /\ CacheInv /\ HandlerInv
  /\ BaseInv' <=> PoolTypeOK' /\ CacheInv' /\ HandlerInv'
  BY DEF BaseInv, KVTypeOK, CacheInv, HandlerInv, HandlerTypeOK

LEMMA ExecutionsType ==
  Executions \subseteq [applied : BOOLEAN, raised : {"nothing", "SQLException", "other"}]
  BY DEF Executions

(* A request that is being served has a key and a method of its own.       *)
LEMMA Served ==
  ASSUME HandlerInv, NEW t \in Threads
  PROVE  /\ Busy(t) <=> req[t].method # "none"
         /\ Busy(t) => /\ req[t].key \in Keys
                       /\ req[t].method \in {"POST", "GET", "PUT", "DELETE"}
                       /\ Row[req[t].key] \in Range(Row)
                       /\ db[Row[req[t].key]] \in Values \cup {Absent}
         /\ pc[t] \notin {"idle", "respond"} => Busy(t)
<1>1. req[t] \in [method : Methods, key : Keys, val : Values \cup {Absent}] \cup {NoReq}
  BY DEF HandlerInv, HandlerTypeOK
<1>2. /\ Busy(t) <=> req[t].method # "none"
      /\ Busy(t) => req[t].key \in Keys
                    /\ req[t].method \in {"POST", "GET", "PUT", "DELETE"}
  <2>1. CASE req[t] = NoReq
    BY <2>1 DEF Busy, NoReq
  <2>2. CASE req[t] \in [method : Methods, key : Keys, val : Values \cup {Absent}]
    <3>1. req[t].method \in {"POST", "GET", "PUT", "DELETE"} /\ req[t].key \in Keys
      BY <2>2, ServerAssumption
    <3>2. req[t].method # "none" /\ req[t] # NoReq
      BY <3>1 DEF NoReq
    <3>3. QED
      BY <3>1, <3>2 DEF Busy
  <2>3. QED
    BY <1>1, <2>1, <2>2
<1>3. \A k \in Keys : Row[k] \in Range(Row)
  BY ServerAssumption DEF Range
<1>4. db \in [Range(Row) -> Values \cup {Absent}]
  BY DEF HandlerInv, HandlerTypeOK
<1>5. pc[t] \notin {"idle", "respond"} => req[t].method # "none"
  BY DEF HandlerInv, Control, ControlOK
<1>6. QED
  BY <1>2, <1>3, <1>4, <1>5

(* The pool's, the cache's and the handlers' part of each step.            *)
LEMMA PoolStep ==
  ASSUME KVNext
  PROVE  [PoolNext]_poolVars
<1>1. ASSUME NEW t \in Threads, \/ Acquire(t) \/ WakeSpuriously(t) \/ Release(t)
                                \/ Unwind(t) \/ FillFails(t) \/ ReleaseFails(t)
      PROVE  PoolNext
  BY <1>1 DEF Acquire, WakeSpuriously, Release, Unwind, FillFails, ReleaseFails, PoolNext
<1>2. CASE Restart
  BY <1>2 DEF Restart, PoolNext
<1>3. ASSUME NEW t \in Threads,
             \/ \E m \in Methods, k \in Keys : \E v \in ArgumentsOf(m) : Arrive(t, m, k, v)
             \/ BadRequest(t) \/ Probe(t) \/ Fill(t) \/ Refresh(t) \/ Invalidate(t)
             \/ RefreshFails(t) \/ ComposeFails(t) \/ Respond(t)
      PROVE  UNCHANGED poolVars
  BY SMTT(60), <1>3 DEF Arrive, BadRequest, Probe, Fill, Refresh, Invalidate, RefreshFails,
                        ComposeFails, Respond
<1>4. ASSUME NEW t \in Threads,
             SelectRow(t) \/ InsertRow(t) \/ UpdateRow(t) \/ DeleteRow(t)
      PROVE  UNCHANGED poolVars
  BY <1>4 DEF SelectRow, InsertRow, UpdateRow, DeleteRow
<1>5. QED
  BY <1>1, <1>2, <1>3, <1>4 DEF KVNext, Step

(* A restarted process has an empty cache.                                 *)
LEMMA EmptiedCache ==
  ASSUME shards' = EmptyShards
  PROVE  CacheInv' /\ \A k \in Keys : ~Cached(k)'
<1>1. /\ shards' \in [Shards -> Seq(Entry)]
      /\ \A h \in Shards : shards'[h] = <<>>
  BY DEF EmptyShards
<1>2. CacheInv'
  BY <1>1, CapacityPositive DEF CacheInv, CacheTypeOK, ShardsWellFormed
<1>3. QED
  BY SMTT(60), <1>1, <1>2, HomeShard DEF Cached, Has

LEMMA UntouchedCache ==
  ASSUME UNCHANGED shards
  PROVE  (CacheInv => CacheInv') /\ \A k \in Keys : Same(k)
  BY SMTT(60) DEF CacheInv, CacheTypeOK, ShardsWellFormed, Same, Cached, CachedValue

LEMMA CacheStep ==
  ASSUME BaseInv, KVNext
  PROVE  CacheInv'
<1>1. CacheInv /\ HandlerInv
  BY BaseParts
<1>2. ASSUME NEW t \in Threads, Probe(t) PROVE CacheInv'
  BY <1>1, <1>2, Served, GetStep DEF Probe, At
<1>3. ASSUME NEW t \in Threads, Fill(t) PROVE CacheInv'
  <2>1. req[t].key \in Keys /\ res[t].val \in Values
    BY <1>1, <1>3, Served DEF Fill, At, HandlerInv, Control, ControlOK, ValuesInFlight
  <2>2. QED
    BY <1>1, <1>3, <2>1, PutStep DEF Fill
<1>4. ASSUME NEW t \in Threads, Refresh(t) PROVE CacheInv'
  <2>1. req[t].key \in Keys /\ req[t].val \in Values
    BY <1>1, <1>4, Served DEF Refresh, At, HandlerInv, Control, ControlOK, ValuesInFlight
  <2>2. QED
    BY <1>1, <1>4, <2>1, PutStep DEF Refresh
<1>5. ASSUME NEW t \in Threads, Invalidate(t) PROVE CacheInv'
  BY <1>1, <1>5, Served, RemoveStep DEF Invalidate, At
<1>6. CASE Restart
  BY <1>6, EmptiedCache DEF Restart
<1>7. CASE UNCHANGED shards
  BY <1>1, <1>7, UntouchedCache
<1>8. ASSUME NEW t \in Threads, FillFails(t) \/ RefreshFails(t) PROVE CacheInv'
  <2>1. pc[t] \in {"fill", "refresh"} /\ CachePutFails(req[t].key)
    BY <1>8 DEF FillFails, RefreshFails
  <2>2. req[t].key \in Keys
    BY <1>1, <2>1, Served
  <2>3. QED
    BY <1>1, <2>1, <2>2, PutFailsStep
<1>9. QED
  BY <1>2, <1>3, <1>4, <1>5, <1>6, <1>7, <1>8
     DEF KVNext, Step, Arrive, BadRequest, Acquire, WakeSpuriously, SelectRow,
         InsertRow, UpdateRow, DeleteRow, Release, Unwind, ReleaseFails, ComposeFails, Respond

(* The thread that takes a step changes its own handler variables only.    *)
LEMMA ArriveInv ==
  ASSUME HandlerInv, NEW t \in Threads, NEW m \in Methods, NEW k \in Keys,
         NEW v \in ArgumentsOf(m), Arrive(t, m, k, v)
  PROVE  HandlerInv'
<1> USE DEF HandlerInv, HandlerTypeOK
<1>1. req' = [req EXCEPT ![t] = [method |-> m, key |-> k, val |-> v]]
  BY DEF Arrive
<1>2. v \in Values \cup {Absent} /\ (m \in {"POST", "PUT"} => v \in Values)
  BY DEF ArgumentsOf
<1>3. m \in {"POST", "GET", "PUT", "DELETE"}
  BY ServerAssumption
<1>4. solo' \subseteq Threads /\ suspect' \subseteq Keys
  BY DEF Arrive, Meet, SameRow
<1>5. HandlerTypeOK'
  BY <1>1, <1>2, <1>4 DEF Arrive, Goto, Labels
<1>6. pc[t] = "idle" /\ res[t].is = "none"
  BY DEF Arrive, Control, ControlOK
<1>7. Control'
  BY <1>1, <1>3, <1>6 DEF Arrive, Goto, Control, ControlOK
<1>8. ValuesInFlight'
  BY <1>1, <1>2, <1>6 DEF Arrive, ValuesInFlight
<1>9. QED
  BY <1>5, <1>7, <1>8

LEMMA BadRequestInv ==
  ASSUME HandlerInv, NEW t \in Threads, BadRequest(t)
  PROVE  HandlerInv'
<1> USE DEF HandlerInv, HandlerTypeOK
<1>1. HandlerTypeOK'
  BY DEF BadRequest, Answer, Goto, Labels, ghostVars
<1>2. Control'
  BY DEF BadRequest, Answer, Goto, Control, ControlOK
<1>3. ValuesInFlight'
  BY DEF BadRequest, Answer, ValuesInFlight
<1>4. QED
  BY <1>1, <1>2, <1>3

LEMMA ProbeInv ==
  ASSUME CacheInv, HandlerInv, NEW t \in Threads, Probe(t)
  PROVE  HandlerInv'
<1> USE DEF HandlerInv, HandlerTypeOK
<1>1. Cached(req[t].key) => CachedValue(req[t].key) \in Values
  BY Served, HomeShard, ShardSound, AnswerHeld DEF Probe, At, Cached, CachedValue
<1>2. HandlerTypeOK'
  BY <1>1 DEF Probe, Answer, Goto, Labels, ghostVars
<1>3. Control'
  BY DEF Probe, At, Answer, Goto, Control, ControlOK
<1>4. ValuesInFlight'
  BY DEF Probe, Answer, ValuesInFlight
<1>5. QED
  BY <1>2, <1>3, <1>4

LEMMA AcquireInv ==
  ASSUME HandlerInv, NEW t \in Threads, Acquire(t)
  PROVE  HandlerInv'
<1> USE DEF HandlerInv, HandlerTypeOK
<1>1. \E l \in {"sql", "acquire"} : pc' = [pc EXCEPT ![t] = l]
  BY DEF Acquire, Goto
<1>2. pc[t] = "acquire" /\ UNCHANGED <<db, req, res, solo, suspect>>
  BY DEF Acquire, ghostVars
<1>3. HandlerTypeOK'
  BY <1>1, <1>2 DEF Labels
<1>4. Control' /\ ValuesInFlight'
  BY <1>1, <1>2 DEF Control, ControlOK, ValuesInFlight
<1>5. QED
  BY <1>3, <1>4

LEMMA SelectRowInv ==
  ASSUME HandlerInv, NEW t \in Threads, SelectRow(t)
  PROVE  HandlerInv'
<1> USE DEF HandlerInv, HandlerTypeOK
<1>1. /\ pc[t] = "sql" /\ req[t].method = "GET"
      /\ UNCHANGED <<db, req, solo, suspect>>
  BY DEF SelectRow, At, ghostVars
<1>2. PICK l \in {"unwind", "release", "fill"}, i \in {"error", "miss", "not_found"},
           v \in Values \cup {Absent} :
        /\ pc' = [pc EXCEPT ![t] = l]
        /\ res' = [res EXCEPT ![t] = [is |-> i, val |-> v]]
        /\ l = "fill" => i = "miss"
        /\ i = "miss" => l = "fill" /\ v \in Values
        /\ l = "unwind" => i = "error"
  <2>1. db[Row[req[t].key]] \in Values \cup {Absent}
    BY <1>1, Served
  <2>2. QED
    BY <2>1 DEF SelectRow, AfterSql, Goto, Answer
<1>3. HandlerTypeOK'
  BY <1>1, <1>2 DEF Labels
<1>4. Control'
  BY <1>1, <1>2 DEF Control, ControlOK
<1>5. ValuesInFlight'
  BY <1>1, <1>2 DEF ValuesInFlight
<1>6. QED
  BY <1>3, <1>4, <1>5

(* What Mark leaves of the ghosts' types.                                  *)
LEMMA MarkType ==
  ASSUME HandlerInv, NEW t \in Threads, Busy(t), NEW x, Mark(t, x)
  PROVE  solo' \subseteq Threads /\ suspect' \subseteq Keys
  BY Served DEF Mark, HandlerInv, HandlerTypeOK, SameRow

LEMMA InsertRowInv ==
  ASSUME HandlerInv, NEW t \in Threads, InsertRow(t)
  PROVE  HandlerInv'
<1> USE DEF HandlerInv, HandlerTypeOK
<1>1. /\ pc[t] = "sql" /\ req[t].method = "POST" /\ res[t].is = "none"
      /\ req[t].val \in Values /\ Busy(t) /\ UNCHANGED <<req, res>>
  BY Served DEF InsertRow, At, Control, ControlOK, ValuesInFlight
<1>2. /\ \E l \in {"unwind", "release"} : pc' = [pc EXCEPT ![t] = l]
      /\ db' \in {db, [db EXCEPT ![Row[req[t].key]] = req[t].val]}
      /\ \E x : Mark(t, x)
  BY DEF InsertRow, AfterSql, Goto
<1>3. solo' \subseteq Threads /\ suspect' \subseteq Keys
  BY <1>1, <1>2, MarkType
<1>4. HandlerTypeOK'
  BY <1>1, <1>2, <1>3 DEF Labels
<1>5. Control' /\ ValuesInFlight'
  BY <1>1, <1>2 DEF Control, ControlOK, ValuesInFlight
<1>6. QED
  BY <1>4, <1>5

LEMMA UpdateRowInv ==
  ASSUME HandlerInv, NEW t \in Threads, UpdateRow(t)
  PROVE  HandlerInv'
<1> USE DEF HandlerInv, HandlerTypeOK
<1>1. /\ pc[t] = "sql" /\ req[t].method = "PUT"
      /\ req[t].val \in Values /\ Busy(t) /\ UNCHANGED req
  BY Served DEF UpdateRow, At, Control, ControlOK, ValuesInFlight
<1>2. /\ \E l \in {"unwind", "release"}, i \in {"updated", "not_found"} :
           /\ pc' = [pc EXCEPT ![t] = l]
           /\ res' = [res EXCEPT ![t] = [is |-> i, val |-> Absent]]
           /\ l = "unwind" => i = "not_found"
      /\ db' \in {db, [db EXCEPT ![Row[req[t].key]] = req[t].val]}
      /\ \E x : Mark(t, x)
  <2> DEFINE r == Row[req[t].key]
             rows(x) == IF x.raised = "nothing" THEN RowsAffected(db[r], req[t].val) ELSE 0
  <2>1. PICK x \in Executions :
             /\ db' = IF x.applied /\ db[r] # Absent THEN [db EXCEPT ![r] = req[t].val] ELSE db
             /\ Answer(t, IF rows(x) > 0 THEN "updated" ELSE "not_found", Absent)
             /\ AfterSql(t, x, "release")
             /\ Mark(t, x)
    BY Zenon DEF UpdateRow
  <2>2. x.raised = "other" => ~(rows(x) > 0)
    OBVIOUS
  <2> HIDE DEF rows
  <2>3. QED
    BY <2>1, <2>2 DEF AfterSql, Goto, Answer
<1>3. solo' \subseteq Threads /\ suspect' \subseteq Keys
  BY <1>1, <1>2, MarkType
<1>4. HandlerTypeOK'
  BY <1>1, <1>2, <1>3 DEF Labels
<1>5. Control' /\ ValuesInFlight'
  BY <1>1, <1>2 DEF Control, ControlOK, ValuesInFlight
<1>6. QED
  BY <1>4, <1>5

LEMMA DeleteRowInv ==
  ASSUME HandlerInv, NEW t \in Threads, DeleteRow(t)
  PROVE  HandlerInv'
<1> USE DEF HandlerInv, HandlerTypeOK
<1>1. /\ pc[t] = "sql" /\ req[t].method = "DELETE" /\ res[t].is = "none"
      /\ Busy(t) /\ UNCHANGED <<req, res>> /\ pc' = [pc EXCEPT ![t] = "release"]
  BY Served DEF DeleteRow, At, Goto, Control, ControlOK
<1>2. /\ db' \in {db, [db EXCEPT ![Row[req[t].key]] = Absent]}
      /\ \E x : Mark(t, x)
  BY DEF DeleteRow
<1>3. solo' \subseteq Threads /\ suspect' \subseteq Keys
  BY <1>1, <1>2, MarkType
<1>4. HandlerTypeOK'
  BY <1>1, <1>2, <1>3 DEF Labels
<1>5. Control' /\ ValuesInFlight'
  BY <1>1 DEF Control, ControlOK, ValuesInFlight
<1>6. QED
  BY <1>4, <1>5

(* The steps that touch neither the table nor the request nor the ghosts   *)
(* and lead where Control allows.                                          *)
LEMMA AnswerInv ==
  ASSUME HandlerInv, NEW t \in Threads, UNCHANGED <<db, req, ghostVars>>,
         NEW l \in Labels, pc' = [pc EXCEPT ![t] = l],
         NEW i \in {"none", "hit", "miss", "not_found", "error",
                    "created", "updated", "deleted", "bad_request"},
         NEW v \in Values \cup {Absent},
         res' = [res EXCEPT ![t] = [is |-> i, val |-> v]],
         i = "miss" => v \in Values,
         ControlOK(l, req[t].method, i)
  PROVE  HandlerInv'
<1> USE DEF HandlerInv, HandlerTypeOK
<1>1. HandlerTypeOK'
  BY DEF ghostVars
<1>2. Control'
  BY DEF Control
<1>3. ValuesInFlight'
  BY DEF ValuesInFlight
<1>4. QED
  BY <1>1, <1>2, <1>3

LEMMA GotoInv ==
  ASSUME HandlerInv, NEW t \in Threads, UNCHANGED <<db, req, res, ghostVars>>,
         NEW l \in Labels, pc' = [pc EXCEPT ![t] = l],
         ControlOK(l, req[t].method, res[t].is)
  PROVE  HandlerInv'
<1> USE DEF HandlerInv, HandlerTypeOK
<1>1. HandlerTypeOK'
  BY DEF ghostVars
<1>2. Control' /\ ValuesInFlight'
  BY DEF Control, ValuesInFlight
<1>3. QED
  BY <1>1, <1>2

LEMMA FillInv ==
  ASSUME HandlerInv, NEW t \in Threads, Fill(t)
  PROVE  HandlerInv'
<1>1. ControlOK("release", req[t].method, res[t].is)
  BY DEF Fill, At, HandlerInv, Control, ControlOK
<1>2. QED
  BY <1>1, GotoInv DEF Fill, Goto, Labels

LEMMA ReleaseInv ==
  ASSUME HandlerInv, NEW t \in Threads, Release(t)
  PROVE  HandlerInv'
<1>1. AfterRelease(t) \in Labels /\ ControlOK(AfterRelease(t), req[t].method, res[t].is)
  BY DEF Release, AfterRelease, Labels, HandlerInv, Control, ControlOK
<1>2. QED
  BY <1>1, GotoInv DEF Release, Goto

LEMMA RefreshInv ==
  ASSUME HandlerInv, NEW t \in Threads, Refresh(t)
  PROVE  HandlerInv'
<1>1. CASE req[t].method = "POST"
  BY <1>1, AnswerInv DEF Refresh, At, Answer, Goto, Labels, ControlOK
<1>2. CASE req[t].method = "PUT"
  <2>1. ControlOK("respond", req[t].method, res[t].is)
    BY <1>2 DEF Refresh, At, HandlerInv, Control, ControlOK
  <2>2. QED
    BY <1>2, <2>1, GotoInv DEF Refresh, Goto, Labels
<1>3. QED
  BY <1>1, <1>2 DEF Refresh, At

LEMMA InvalidateInv ==
  ASSUME HandlerInv, NEW t \in Threads, Invalidate(t)
  PROVE  HandlerInv'
  BY AnswerInv DEF Invalidate, At, Answer, Goto, Labels, ControlOK

(* The steps that end in a 500.                                            *)
LEMMA FailInv ==
  ASSUME HandlerInv, NEW t \in Threads, Fail(t), UNCHANGED <<db, req, solo>>,
         suspect' \subseteq Keys,
         pc[t] \in {"unwind", "fill", "release", "refresh"} \/ (pc[t] = "respond" /\ Busy(t))
  PROVE  HandlerInv'
<1> USE DEF HandlerInv, HandlerTypeOK
<1>1. /\ pc' = [pc EXCEPT ![t] = "respond"]
      /\ res' = [res EXCEPT ![t] = [is |-> "error", val |-> Absent]]
  BY DEF Fail, Goto, Answer
<1>2. ControlOK("respond", req[t].method, "error")
  BY Served DEF Control, ControlOK
<1>3. HandlerTypeOK'
  BY <1>1 DEF Labels
<1>4. Control'
  BY <1>1, <1>2 DEF Control
<1>5. ValuesInFlight'
  BY <1>1 DEF ValuesInFlight
<1>6. QED
  BY <1>3, <1>4, <1>5

LEMMA UnwindInv ==
  ASSUME HandlerInv, NEW t \in Threads, Unwind(t)
  PROVE  HandlerInv'
<1>1. UNCHANGED <<solo, suspect>> /\ suspect \subseteq Keys
  BY DEF Unwind, ghostVars, HandlerInv, HandlerTypeOK
<1>2. QED
  BY <1>1, FailInv DEF Unwind

LEMMA FillFailsInv ==
  ASSUME HandlerInv, NEW t \in Threads, FillFails(t)
  PROVE  HandlerInv'
<1>1. UNCHANGED <<solo, suspect>> /\ suspect \subseteq Keys
  BY DEF FillFails, ghostVars, HandlerInv, HandlerTypeOK
<1>2. QED
  BY <1>1, FailInv DEF FillFails

LEMMA OutdateType ==
  ASSUME HandlerInv, NEW t \in Threads, Outdate(t)
  PROVE  suspect' \subseteq Keys
<1>1. req[t].method \in Writes => req[t].key \in Keys
  BY Served DEF Writes
<1>2. QED
  BY <1>1 DEF Outdate, HandlerInv, HandlerTypeOK

LEMMA ReleaseFailsInv ==
  ASSUME HandlerInv, NEW t \in Threads, ReleaseFails(t)
  PROVE  HandlerInv'
  BY OutdateType, FailInv DEF ReleaseFails

LEMMA RefreshFailsInv ==
  ASSUME HandlerInv, NEW t \in Threads, RefreshFails(t)
  PROVE  HandlerInv'
  BY OutdateType, FailInv DEF RefreshFails

LEMMA ComposeFailsIs ==
  ASSUME HandlerInv, NEW t \in Threads, ComposeFails(t)
  PROVE  /\ pc[t] = "respond" /\ Busy(t) /\ Fail(t)
         /\ UNCHANGED <<poolVars, shards, db, req, ghostVars>>
<1>1. pc[t] = "respond" /\ pc' = pc /\ Answer(t, "error", Absent)
  BY DEF ComposeFails
<1>2. pc' = [pc EXCEPT ![t] = "respond"]
  BY <1>1 DEF HandlerInv, HandlerTypeOK
<1>3. req[t].method # "none"
  BY DEF ComposeFails, At, HandlerInv, Control, ControlOK
<1>4. QED
  BY <1>1, <1>2, <1>3, Served DEF ComposeFails, Fail, Goto

LEMMA ComposeFailsInv ==
  ASSUME HandlerInv, NEW t \in Threads, ComposeFails(t)
  PROVE  HandlerInv'
<1>1. UNCHANGED <<solo, suspect>> /\ suspect \subseteq Keys
  BY ComposeFailsIs DEF ghostVars, HandlerInv, HandlerTypeOK
<1>2. QED
  BY <1>1, ComposeFailsIs, FailInv

LEMMA RespondInv ==
  ASSUME HandlerInv, NEW t \in Threads, Respond(t)
  PROVE  HandlerInv'
<1> USE DEF HandlerInv, HandlerTypeOK
<1>1. solo' \subseteq Threads /\ suspect' \subseteq Keys
  BY DEF Respond, Part
<1>2. HandlerTypeOK'
  BY <1>1 DEF Respond, Goto, Labels, NoRes
<1>3. Control' /\ ValuesInFlight'
  BY DEF Respond, Goto, NoReq, NoRes, Control, ControlOK, ValuesInFlight
<1>4. QED
  BY <1>2, <1>3

LEMMA RestartInv ==
  ASSUME HandlerInv, Restart
  PROVE  HandlerInv'
<1> USE DEF HandlerInv, HandlerTypeOK
<1>1. HandlerTypeOK'
  BY DEF Restart, Labels, NoRes
<1>2. Control' /\ ValuesInFlight'
  BY DEF Restart, NoReq, NoRes, Control, ControlOK, ValuesInFlight
<1>3. QED
  BY <1>1, <1>2

LEMMA HandlerStep ==
  ASSUME BaseInv, [KVNext]_kvVars
  PROVE  HandlerInv'
<1> USE BaseParts
<1>1. CASE \E t \in Threads : \E m \in Methods, k \in Keys : \E v \in ArgumentsOf(m) :
             Arrive(t, m, k, v)
  BY <1>1, ArriveInv
<1>2. ASSUME NEW t \in Threads, BadRequest(t) PROVE HandlerInv'
  BY <1>2, BadRequestInv
<1>3. ASSUME NEW t \in Threads, Step(t) PROVE HandlerInv'
  BY <1>3, ProbeInv, AcquireInv, SelectRowInv, InsertRowInv, UpdateRowInv, DeleteRowInv,
     FillInv, ReleaseInv, RefreshInv, InvalidateInv, UnwindInv, FillFailsInv,
     ReleaseFailsInv, RefreshFailsInv, RespondInv DEF Step
<1>4. CASE Restart
  BY <1>4, RestartInv
<1>5. CASE UNCHANGED <<db, pc, req, res, solo, suspect>>
  BY <1>5 DEF HandlerInv, HandlerTypeOK, Control, ValuesInFlight
<1>6. CASE UNCHANGED kvVars
  BY <1>5, <1>6 DEF kvVars, handlerVars, ghostVars
<1>7. CASE \E t \in Threads : WakeSpuriously(t)
  BY <1>5, <1>7 DEF WakeSpuriously, handlerVars, ghostVars
<1>8. ASSUME NEW t \in Threads, ComposeFails(t) PROVE HandlerInv'
  BY <1>8, ComposeFailsInv
<1>9. QED
  BY <1>1, <1>2, <1>3, <1>4, <1>6, <1>7, <1>8 DEF KVNext

LEMMA BaseStep ==
  ASSUME BaseInv, [KVNext]_kvVars
  PROVE  BaseInv'
<1>1. PoolTypeOK /\ CacheInv
  BY BaseParts
<1>2. [PoolNext]_poolVars
  BY PoolStep DEF kvVars, poolVars
<1>3. CacheInv'
  BY <1>1, CacheStep, UntouchedCache DEF kvVars
<1>4. QED
  BY <1>1, <1>2, <1>3, PoolTypeStep, HandlerStep, BaseParts

LEMMA BaseInitially == KVInit => BaseInv
<1> SUFFICES ASSUME KVInit PROVE BaseInv
  OBVIOUS
<1>1. PoolTypeOK
  BY PoolTypeInitially DEF KVInit
<1>2. CacheInv
  BY InitiallyEmpty DEF KVInit
<1>3. HandlerInv
  BY DEF KVInit, HandlerInv, HandlerTypeOK, Control, ControlOK, ValuesInFlight,
         Labels, NoReq, NoRes
<1>4. QED
  BY <1>1, <1>2, <1>3, BaseParts

LEMMA BaseInvariant == KVSpec => []BaseInv
  BY BaseInitially, BaseStep, PTL DEF KVSpec

(* The types of the handlers' variables, of the pool and of the cache.     *)
THEOREM KVTypeCorrect == KVSpec => []KVTypeOK
<1>1. BaseInv => KVTypeOK
  BY DEF BaseInv
<1>2. QED
  BY <1>1, BaseInvariant, PTL

(* The handlers use the pool as its specification says: what was proved of *)
(* the pool holds in the server.                                           *)
THEOREM KVUsesPool == KVSpec => PoolSpec
<1>1. KVInit => PoolInit
  BY DEF KVInit
<1>2. [KVNext]_kvVars => [PoolNext]_poolVars
  BY PoolStep DEF kvVars, poolVars
<1>3. QED
  BY <1>1, <1>2, PTL DEF KVSpec, PoolSpec

(* The inductive step of HoldsOnlyForQuery.                                *)
LEMMA HoldsStep ==
  ASSUME BaseInv, HoldsOnlyForQuery, [KVNext]_kvVars
  PROVE  HoldsOnlyForQuery'
<1> USE DEF HoldsOnlyForQuery
<1>1. PoolTypeOK /\ HandlerInv
  BY BaseParts
<1>2. /\ held \in [Threads -> 0..PoolSize] /\ pc \in [Threads -> Labels]
      /\ connections \in Seq(1..PoolSize)
  BY <1>1 DEF PoolTypeOK, HandlerInv, HandlerTypeOK
(* The steps that leave the pool alone and keep to one side of the rule.   *)
<1>3. ASSUME NEW t \in Threads, UNCHANGED poolVars, NEW l, pc' = [pc EXCEPT ![t] = l],
             LET H == {"sql", "fill", "release", "unwind"}
             IN  \/ pc[t] \in H /\ l \in H
                 \/ pc[t] \notin H \cup {"acquire"} /\ l \notin H
      PROVE  HoldsOnlyForQuery'
  BY <1>2, <1>3 DEF poolVars
<1>4. ASSUME NEW t \in Threads, NEW m \in Methods, NEW k \in Keys,
             NEW v \in ArgumentsOf(m), Arrive(t, m, k, v)
      PROVE  HoldsOnlyForQuery'
  BY <1>3, <1>4 DEF Arrive, Goto
<1>5. ASSUME NEW t \in Threads, BadRequest(t) PROVE HoldsOnlyForQuery'
  BY <1>3, <1>5 DEF BadRequest, Goto
<1>6. ASSUME NEW t \in Threads, Probe(t) PROVE HoldsOnlyForQuery'
  BY <1>3, <1>6 DEF Probe, At, Goto
<1>7. ASSUME NEW t \in Threads, Acquire(t) PROVE HoldsOnlyForQuery'
  <2>1. CASE Take(t)
    <3>1. Head(connections) \in 1..PoolSize
      BY <1>2, <2>1, HeadTailProperties DEF Take
    <3>2. held'[t] # NoConn
      BY <1>2, <2>1, <3>1 DEF Take, NoConn
    <3>3. pc' = [pc EXCEPT ![t] = "sql"] /\ t \notin waiting
      BY <1>7, <3>2 DEF Acquire, GetConnection, Goto
    <3>4. QED
      BY <1>2, <2>1, <3>2, <3>3 DEF Take
  <2>2. CASE Wait(t)
    <3>1. pc' = [pc EXCEPT ![t] = "acquire"] /\ pc[t] = "acquire"
      BY <1>7, <2>2 DEF Acquire, GetConnection, Wait, Goto
    <3>2. QED
      BY <1>2, <2>2, <3>1 DEF Wait
  <2>3. QED
    BY <1>7, <2>1, <2>2 DEF Acquire, GetConnection
<1>8. ASSUME NEW t \in Threads, SelectRow(t) PROVE HoldsOnlyForQuery'
  <2>1. pc[t] = "sql" /\ \E l \in {"unwind", "release", "fill"} : pc' = [pc EXCEPT ![t] = l]
    BY <1>8 DEF SelectRow, At, AfterSql, Goto
  <2>2. QED
    BY <1>3, <1>8, <2>1 DEF SelectRow
<1>9. ASSUME NEW t \in Threads, InsertRow(t) \/ UpdateRow(t) \/ DeleteRow(t)
      PROVE  HoldsOnlyForQuery'
  <2>1. pc[t] = "sql" /\ \E l \in {"unwind", "release"} : pc' = [pc EXCEPT ![t] = l]
    BY <1>9 DEF InsertRow, UpdateRow, DeleteRow, At, AfterSql, Goto
  <2>2. QED
    BY <1>3, <1>9, <2>1 DEF InsertRow, UpdateRow, DeleteRow
<1>10. ASSUME NEW t \in Threads, Fill(t) PROVE HoldsOnlyForQuery'
  BY <1>3, <1>10 DEF Fill, At, Goto
<1>11. ASSUME NEW t \in Threads, Release(t) PROVE HoldsOnlyForQuery'
  <2>1. /\ held' = [held EXCEPT ![t] = NoConn]
        /\ waiting' \cup woken' = waiting \cup woken
    BY <1>11 DEF Release, ReleaseConnection, NotifyOne
  <2>2. /\ pc[t] = "release"
        /\ \E l \in {"refresh", "invalidate", "respond"} : pc' = [pc EXCEPT ![t] = l]
    <3>1. AfterRelease(t) \in {"refresh", "invalidate", "respond"}
      BY DEF AfterRelease
    <3>2. QED
      BY <1>11, <3>1 DEF Release, Goto
  <2>3. QED
    BY <1>2, <2>1, <2>2
<1>12. ASSUME NEW t \in Threads, Refresh(t) \/ Invalidate(t) PROVE HoldsOnlyForQuery'
  BY <1>3, <1>12 DEF Refresh, Invalidate, At, Goto
<1>13. ASSUME NEW t \in Threads, Unwind(t) PROVE HoldsOnlyForQuery'
  BY <1>2, <1>13 DEF Unwind, Abandon, Fail, Goto
<1>14. ASSUME NEW t \in Threads, Respond(t) PROVE HoldsOnlyForQuery'
  BY <1>3, <1>14 DEF Respond, Goto
<1>15. CASE Restart
  BY <1>15 DEF Restart, RestartPool
<1>16. ASSUME NEW t \in Threads, WakeSpuriously(t) PROVE HoldsOnlyForQuery'
  BY <1>2, <1>16 DEF WakeSpuriously, SpuriousWakeup, handlerVars
<1>17. CASE UNCHANGED kvVars
  BY <1>17 DEF kvVars, poolVars, handlerVars
<1>18. ASSUME NEW t \in Threads, FillFails(t) \/ ReleaseFails(t) PROVE HoldsOnlyForQuery'
  BY <1>2, <1>18 DEF FillFails, ReleaseFails, Abandon, Fail, Goto
<1>19. ASSUME NEW t \in Threads, RefreshFails(t) PROVE HoldsOnlyForQuery'
  BY <1>3, <1>19 DEF RefreshFails, Fail, Goto
<1>20. ASSUME NEW t \in Threads, ComposeFails(t) PROVE HoldsOnlyForQuery'
  BY <1>1, <1>3, <1>20, ComposeFailsIs DEF Fail, Goto
<1>21. QED
  BY <1>4, <1>5, <1>6, <1>7, <1>8, <1>9, <1>10, <1>11, <1>12, <1>13, <1>14, <1>15,
     <1>16, <1>17, <1>18, <1>19, <1>20 DEF KVNext, Step

(* No path through a handler, by return or by exception, answers while it  *)
(* still holds a connection, and nobody blocks in the pool but to get one. *)
THEOREM KVHoldsOnlyForQuery == KVSpec => []HoldsOnlyForQuery
<1>1. KVInit => HoldsOnlyForQuery
  BY DEF KVInit, PoolInit, HoldsOnlyForQuery
<1>2. QED
  BY <1>1, BaseInvariant, HoldsStep, PTL DEF KVSpec
-----------------------------------------------------------------------------
Together(t, u) ==
  /\ t # u /\ Busy(t) /\ Busy(u)
  /\ Row[req[t].key] = Row[req[u].key]

(* A solo request shares its row with solo reads only, and is one itself   *)
(* if it shares at all.                                                    *)
SoloAlone ==
  \A t \in solo :
    /\ Busy(t)
    /\ \A u \in Threads : Together(t, u) => /\ u \in solo
                                            /\ req[t].method \notin Writes
                                            /\ req[u].method \notin Writes

UnsuspectSolo ==
  \A t \in Threads : Busy(t) /\ req[t].key \notin suspect => t \in solo

(* The value a read answers, or a write is about to cache, is the row's.   *)
Current(t) ==
  LET v == db[Row[req[t].key]] IN
  /\ req[t].method = "GET" /\ res[t].is \in {"miss", "not_found"} => res[t].val = v
  /\ res[t].is = "hit" /\ req[t].key \notin suspect => res[t].val = v
  /\ /\ pc[t] \in {"release", "refresh"}
     /\ req[t].method = "POST" \/ res[t].is = "updated"
     => req[t].val = v

SoloCurrent == \A t \in solo : Current(t)

Agrees(k) == Cached(k) => CachedValue(k) = db[Row[k]]

(* A read that missed, or a write that has done its cache operation.       *)
Settled(t) ==
  \/ req[t].method = "GET" /\ pc[t] # "probe" /\ res[t].is \notin {"hit", "error"}
  \/ pc[t] = "respond" /\ res[t].is \in {"created", "updated", "deleted"}

SettledAgree == \A t \in solo : Settled(t) => Agrees(req[t].key)

(* A write that will do its cache operation.                               *)
Pending(t, k) ==
  /\ req[t].key = k /\ pc[t] \in {"release", "refresh", "invalidate"}
  /\ req[t].method \in {"POST", "DELETE"} \/ res[t].is = "updated"

AgreeOrPending ==
  \A k \in Keys \ suspect : Agrees(k) \/ \E t \in Threads : Pending(t, k)

CoherenceInv ==
  SoloAlone /\ UnsuspectSolo /\ SoloCurrent /\ SettledAgree /\ AgreeOrPending

LEMMA CoherentInitially == KVInit => CoherenceInv
<1> SUFFICES ASSUME KVInit PROVE CoherenceInv
  OBVIOUS
<1>1. solo = {} /\ \A t \in Threads : ~Busy(t)
  BY DEF KVInit, Busy
<1>2. \A k \in Keys : Agrees(k)
  BY InitiallyEmpty DEF KVInit, Agrees
<1>3. QED
  BY <1>1, <1>2 DEF CoherenceInv, SoloAlone, UnsuspectSolo, SoloCurrent, SettledAgree,
                    AgreeOrPending

LEMMA AgreesKept ==
  ASSUME NEW k \in Keys, Same(k) \/ ~Cached(k)', db'[Row[k]] = db[Row[k]], Agrees(k)
  PROVE  Agrees(k)'
  BY DEF Agrees, Same

(* A step of t that leaves table and requests alone and clears no key.  It *)
(* may spoil the answer for t's own key only if t is not solo.             *)
LEMMA GrowingStep ==
  ASSUME HandlerInv, CoherenceInv, NEW t \in Threads,
         UNCHANGED <<db, req, solo>>, suspect \subseteq suspect',
         \A u \in Threads \ {t} : pc'[u] = pc[u] /\ res'[u] = res[u],
         \A k \in Keys : \/ Agrees(k) => Agrees(k)'
                         \/ Busy(t) /\ req[t].key = k /\ t \notin solo,
         t \in solo => Current(t)',
         t \in solo /\ Settled(t)' => Agrees(req[t].key)',
         \A k \in Keys \ suspect' : Pending(t, k) => Pending(t, k)' \/ Agrees(k)'
  PROVE  CoherenceInv'
<1> USE DEF CoherenceInv
<1>1. SoloAlone'
  BY DEF SoloAlone, Together, Busy
<1>2. UnsuspectSolo'
  BY DEF UnsuspectSolo, Busy
<1>3. SoloCurrent'
  <2> SUFFICES ASSUME NEW u \in solo, u # t PROVE Current(u)'
    BY DEF SoloCurrent
  <2>1. u \in Threads /\ Current(u)
    BY DEF SoloCurrent, HandlerInv, HandlerTypeOK
  <2>2. QED
    BY <2>1 DEF Current
<1>4. SettledAgree'
  <2> SUFFICES ASSUME NEW u \in solo, u # t, Settled(u)' PROVE Agrees(req[u].key)'
    BY DEF SettledAgree
  <2>1. u \in Threads /\ Settled(u) /\ Busy(u)
    BY DEF SoloAlone, Settled, HandlerInv, HandlerTypeOK
  <2>2. req[u].key \in Keys /\ Agrees(req[u].key)
    BY <2>1, Served DEF SettledAgree
  <2>3. ~(Busy(t) /\ req[t].key = req[u].key /\ t \notin solo)
    BY <2>1 DEF SoloAlone, Together
  <2>4. QED
    BY <2>2, <2>3
<1>5. AgreeOrPending'
  <2> SUFFICES ASSUME NEW k \in Keys \ suspect'
               PROVE  Agrees(k)' \/ \E u \in Threads : Pending(u, k)'
    BY DEF AgreeOrPending
  <2>1. CASE Agrees(k)
    BY <2>1 DEF UnsuspectSolo
  <2>2. ASSUME NEW u \in Threads, Pending(u, k)
        PROVE  Agrees(k)' \/ Pending(u, k)'
    BY <2>2 DEF Pending
  <2>3. QED
    BY <2>1, <2>2 DEF AgreeOrPending
<1>6. QED
  BY <1>1, <1>2, <1>3, <1>4, <1>5

LEMMA LocalStep ==
  ASSUME HandlerInv, CoherenceInv, NEW t \in Threads,
         UNCHANGED <<db, req, ghostVars>>,
         \A u \in Threads \ {t} : pc'[u] = pc[u] /\ res'[u] = res[u],
         \A k \in Keys : \/ Agrees(k) => Agrees(k)'
                         \/ Busy(t) /\ req[t].key = k /\ t \notin solo,
         t \in solo => Current(t)',
         t \in solo /\ Settled(t)' => Agrees(req[t].key)',
         \A k \in Keys \ suspect : Pending(t, k) => Pending(t, k)' \/ Agrees(k)'
  PROVE  CoherenceInv'
<1>1. UNCHANGED solo /\ UNCHANGED suspect
  BY DEF ghostVars
<1>2. QED
  BY <1>1, GrowingStep

(* A step of t that changes neither table, cache, requests nor ghosts.     *)
LEMMA QuietStep ==
  ASSUME HandlerInv, CoherenceInv, NEW t \in Threads,
         UNCHANGED <<db, req, ghostVars>>, \A k \in Keys : Same(k),
         \A u \in Threads \ {t} : pc'[u] = pc[u] /\ res'[u] = res[u],
         t \in solo => Current(t)',
         t \in solo /\ Settled(t)' => Settled(t) \/ Agrees(req[t].key),
         \A k \in Keys \ suspect : Pending(t, k) => Pending(t, k)' \/ Agrees(k)
  PROVE  CoherenceInv'
<1>1. \A k \in Keys : Row[k] \in Range(Row) /\ (Agrees(k) => Agrees(k)')
  BY AgreesKept, ServerAssumption DEF Range
<1>2. t \in solo => req[t].key \in Keys
  BY Served DEF CoherenceInv, SoloAlone
<1>3. t \in solo /\ Settled(t) => Agrees(req[t].key)
  BY DEF CoherenceInv, SettledAgree
<1>4. QED
  BY <1>1, <1>2, <1>3, LocalStep

LEMMA BadRequestCoherent ==
  ASSUME HandlerInv, CoherenceInv, NEW t \in Threads, BadRequest(t)
  PROVE  CoherenceInv'
<1>1. t \notin solo /\ \A k \in Keys : ~Pending(t, k)
  BY Served DEF BadRequest, CoherenceInv, SoloAlone, Pending, HandlerInv, Control, ControlOK
<1>2. \A u \in Threads \ {t} : pc'[u] = pc[u] /\ res'[u] = res[u]
  BY DEF BadRequest, Answer, Goto, HandlerInv, HandlerTypeOK
<1>3. QED
  BY <1>1, <1>2, UntouchedCache, QuietStep DEF BadRequest

(* A solo read that hits answers the row's value unless its key is         *)
(* suspect; one that misses finds cache and table in agreement.            *)
LEMMA ProbeCoherent ==
  ASSUME CacheInv, HandlerInv, CoherenceInv, NEW t \in Threads, Probe(t)
  PROVE  CoherenceInv'
<1> DEFINE k == req[t].key
<1>1. /\ pc[t] = "probe" /\ req[t].method = "GET" /\ Busy(t) /\ k \in Keys
      /\ res[t].is = "none" /\ UNCHANGED <<db, req, ghostVars>>
  BY Served DEF Probe, At, HandlerInv, Control, ControlOK
<1>2. \A j \in Keys : Same(j)
  BY <1>1, GetStep DEF Probe
<1>3. /\ \A u \in Threads \ {t} : pc'[u] = pc[u] /\ res'[u] = res[u]
      /\ \/ /\ Cached(k) /\ pc'[t] = "respond"
            /\ res'[t] = [is |-> "hit", val |-> CachedValue(k)]
         \/ ~Cached(k) /\ pc'[t] = "acquire" /\ res'[t] = res[t]
  BY DEF Probe, Answer, Goto, HandlerInv, HandlerTypeOK
<1>4. t \in solo /\ k \notin suspect /\ Cached(k) => CachedValue(k) = db[Row[k]]
  <2> SUFFICES ASSUME t \in solo, k \notin suspect, NEW u \in Threads, Pending(u, k)
               PROVE  FALSE
    BY <1>1 DEF CoherenceInv, AgreeOrPending, Agrees
  <2>1. u # t /\ Busy(u) /\ req[u].key = k /\ req[u].method \in Writes
    BY <1>1, Served DEF Pending, HandlerInv, Control, ControlOK, Writes
  <2>2. QED
    BY <1>1, <2>1 DEF CoherenceInv, SoloAlone, Together
<1>5. t \in solo => Current(t)'
  BY <1>1, <1>3, <1>4 DEF Current, ghostVars
<1>6. Settled(t)' => Agrees(k)
  BY <1>1, <1>3 DEF Settled, Agrees
<1>7. \A j \in Keys : ~Pending(t, j)
  BY <1>1 DEF Pending
<1>8. QED
  BY <1>1, <1>2, <1>3, <1>5, <1>6, <1>7, QuietStep

LEMMA AcquireCoherent ==
  ASSUME HandlerInv, CoherenceInv, NEW t \in Threads, Acquire(t)
  PROVE  CoherenceInv'
<1>1. /\ pc[t] = "acquire" /\ res[t].is = "none"
      /\ UNCHANGED <<shards, db, req, res, ghostVars>>
  BY DEF Acquire, HandlerInv, Control, ControlOK
<1>2. /\ \A u \in Threads \ {t} : pc'[u] = pc[u] /\ res'[u] = res[u]
      /\ pc'[t] \in {"acquire", "sql"}
  BY DEF Acquire, Goto, HandlerInv, HandlerTypeOK
<1>3. Current(t)'
  BY <1>1, <1>2 DEF Current
<1>4. Settled(t)' => Settled(t)
  BY <1>1, <1>2 DEF Settled
<1>5. \A k \in Keys : ~Pending(t, k)
  BY <1>1 DEF Pending
<1>6. QED
  BY <1>1, <1>2, <1>3, <1>4, <1>5, UntouchedCache, QuietStep

LEMMA SelectRowCoherent ==
  ASSUME HandlerInv, CoherenceInv, NEW t \in Threads, SelectRow(t)
  PROVE  CoherenceInv'
<1>1. /\ pc[t] = "sql" /\ req[t].method = "GET" /\ res[t].is = "none"
      /\ UNCHANGED <<shards, db, req, ghostVars>>
  BY DEF SelectRow, At, HandlerInv, Control, ControlOK
<1>2. /\ \A u \in Threads \ {t} : pc'[u] = pc[u] /\ res'[u] = res[u]
      /\ pc'[t] \in {"unwind", "release", "fill"}
      /\ \/ res'[t].is = "error"
         \/ /\ res'[t].is \in {"miss", "not_found"}
            /\ res'[t].val = db[Row[req[t].key]]
  BY DEF SelectRow, Answer, AfterSql, Goto, HandlerInv, HandlerTypeOK
<1>3. Current(t)'
  BY <1>1, <1>2 DEF Current
<1>4. Settled(t)
  BY <1>1 DEF Settled
<1>5. \A k \in Keys : ~Pending(t, k)
  BY <1>1 DEF Pending
<1>6. QED
  BY <1>1, <1>2, <1>3, <1>4, <1>5, UntouchedCache, QuietStep

LEMMA ReleaseCoherent ==
  ASSUME HandlerInv, CoherenceInv, NEW t \in Threads, Release(t)
  PROVE  CoherenceInv'
<1>1. /\ pc[t] = "release" /\ UNCHANGED <<shards, db, req, res, ghostVars>>
      /\ \/ req[t].method = "GET" /\ res[t].is \in {"miss", "not_found", "error"}
         \/ req[t].method \in {"POST", "DELETE"} /\ res[t].is = "none"
         \/ req[t].method = "PUT" /\ res[t].is \in {"updated", "not_found"}
  BY DEF Release, HandlerInv, Control, ControlOK
<1>2. /\ \A u \in Threads \ {t} : pc'[u] = pc[u] /\ res'[u] = res[u]
      /\ pc'[t] = AfterRelease(t)
  BY DEF Release, Goto, HandlerInv, HandlerTypeOK
<1>3. t \in solo => Current(t)'
  BY <1>1, <1>2 DEF CoherenceInv, SoloCurrent, Current, AfterRelease, ghostVars
<1>4. Settled(t)' => Settled(t)
  BY <1>1, <1>2 DEF Settled, AfterRelease
<1>5. \A k \in Keys : Pending(t, k) => Pending(t, k)'
  BY <1>1, <1>2 DEF Pending, AfterRelease
<1>6. QED
  BY <1>1, <1>2, <1>3, <1>4, <1>5, UntouchedCache, QuietStep

(* A 500: the key of t is suspect, or not cached, if t wrote.              *)
LEMMA FailCoherent ==
  ASSUME HandlerInv, CoherenceInv, NEW t \in Threads, Fail(t),
         UNCHANGED <<db, req, solo>>, suspect \subseteq suspect',
         \A k \in Keys : Same(k) \/ ~Cached(k)',
         \A k \in Keys \ suspect' : ~Pending(t, k) \/ ~Cached(k)'
  PROVE  CoherenceInv'
<1>1. /\ \A u \in Threads \ {t} : pc'[u] = pc[u] /\ res'[u] = res[u]
      /\ pc'[t] = "respond" /\ res'[t].is = "error"
  BY DEF Fail, Answer, Goto, HandlerInv, HandlerTypeOK
<1>2. Current(t)' /\ ~Settled(t)'
  BY <1>1 DEF Current, Settled
<1>3. \A k \in Keys : Agrees(k) => Agrees(k)'
  BY AgreesKept
<1>4. \A k \in Keys \ suspect' : Pending(t, k) => Agrees(k)'
  BY DEF Agrees
<1>5. QED
  BY <1>1, <1>2, <1>3, <1>4, GrowingStep

LEMMA UnwindCoherent ==
  ASSUME HandlerInv, CoherenceInv, NEW t \in Threads, Unwind(t)
  PROVE  CoherenceInv'
<1>1. \A k \in Keys : ~Pending(t, k)
  BY DEF Unwind, Pending
<1>2. QED
  BY <1>1, UntouchedCache, FailCoherent DEF Unwind, ghostVars

LEMMA FillFailsCoherent ==
  ASSUME CacheInv, HandlerInv, CoherenceInv, NEW t \in Threads, FillFails(t)
  PROVE  CoherenceInv'
<1>1. /\ CachePutFails(req[t].key) /\ req[t].key \in Keys
      /\ \A k \in Keys : ~Pending(t, k)
  BY Served DEF FillFails, Pending
<1>2. \A k \in Keys : Same(k) \/ ~Cached(k)'
  BY <1>1, PutFailsStep
<1>3. QED
  BY <1>1, <1>2, FailCoherent DEF FillFails, ghostVars

LEMMA OutdateGrows ==
  ASSUME HandlerInv, NEW t \in Threads, Outdate(t), \A k \in Keys : Same(k) \/ ~Cached(k)'
  PROVE  /\ suspect \subseteq suspect'
         /\ \A k \in Keys \ suspect' : ~Pending(t, k) \/ ~Cached(k)'
<1>1. suspect \subseteq suspect'
  BY DEF Outdate
<1>2. ASSUME NEW k \in Keys \ suspect', Pending(t, k)
      PROVE  ~Cached(k)'
  <2>1. req[t].method \in Writes /\ req[t].key = k
    BY <1>2 DEF Pending, Writes, HandlerInv, Control, ControlOK
  <2>2. ~Cached(k)
    BY <1>2, <2>1 DEF Outdate
  <2>3. QED
    BY <2>2 DEF Same
<1>3. QED
  BY <1>1, <1>2

LEMMA ReleaseFailsCoherent ==
  ASSUME HandlerInv, CoherenceInv, NEW t \in Threads, ReleaseFails(t)
  PROVE  CoherenceInv'
<1>1. Fail(t) /\ Outdate(t) /\ UNCHANGED <<shards, db, req, solo>>
  BY DEF ReleaseFails
<1>2. \A k \in Keys : Same(k) \/ ~Cached(k)'
  BY <1>1, UntouchedCache
<1>3. QED
  BY <1>1, <1>2, OutdateGrows, FailCoherent

LEMMA RefreshFailsCoherent ==
  ASSUME CacheInv, HandlerInv, CoherenceInv, NEW t \in Threads, RefreshFails(t)
  PROVE  CoherenceInv'
<1>1. /\ Fail(t) /\ Outdate(t) /\ UNCHANGED <<db, req, solo>>
      /\ CachePutFails(req[t].key) /\ req[t].key \in Keys
  BY Served DEF RefreshFails
<1>2. \A k \in Keys : Same(k) \/ ~Cached(k)'
  BY <1>1, PutFailsStep
<1>3. QED
  BY <1>1, <1>2, OutdateGrows, FailCoherent

LEMMA ComposeFailsCoherent ==
  ASSUME HandlerInv, CoherenceInv, NEW t \in Threads, ComposeFails(t)
  PROVE  CoherenceInv'
<1>1. /\ pc[t] = "respond" /\ Fail(t)
      /\ UNCHANGED <<shards, db, req, solo, suspect>>
  BY ComposeFailsIs DEF ghostVars
<1>2. \A k \in Keys : ~Pending(t, k)
  BY <1>1 DEF Pending
<1>3. QED
  BY <1>1, <1>2, UntouchedCache, FailCoherent

-----------------------------------------------------------------------------
(* The steps on the cache.                                                 *)

(* cache->put(k, v) by t for its own key, of the row's value if t is solo. *)
LEMMA PutCoherent ==
  ASSUME CacheInv, HandlerInv, CoherenceInv, NEW t \in Threads, Busy(t),
         NEW v \in Values, CachePut(req[t].key, v),
         t \in solo => v = db[Row[req[t].key]],
         UNCHANGED <<db, req, ghostVars>>,
         \A u \in Threads \ {t} : pc'[u] = pc[u] /\ res'[u] = res[u],
         t \in solo => Current(t)',
         \A k \in Keys : Pending(t, k) => k = req[t].key
  PROVE  CoherenceInv'
<1> DEFINE k0 == req[t].key
<1>1. k0 \in Keys
  BY Served
<1>2. /\ Cached(k0)' /\ CachedValue(k0)' = v
      /\ \A k \in Keys \ {k0} : Same(k) \/ ~Cached(k)'
  BY <1>1, PutStep
<1>3. t \in solo => Agrees(k0)'
  BY <1>2 DEF Agrees
<1>4. \A k \in Keys \ {k0} : Agrees(k) => Agrees(k)'
  BY <1>2, AgreesKept
<1>5. \A k \in Keys \ suspect : Pending(t, k) => Agrees(k)'
  BY <1>1, <1>3 DEF CoherenceInv, UnsuspectSolo
<1>6. QED
  BY <1>3, <1>4, <1>5, LocalStep

LEMMA FillCoherent ==
  ASSUME CacheInv, HandlerInv, CoherenceInv, NEW t \in Threads, Fill(t)
  PROVE  CoherenceInv'
<1>1. /\ pc[t] = "fill" /\ req[t].method = "GET" /\ res[t].is = "miss"
      /\ res[t].val \in Values /\ Busy(t)
      /\ CachePut(req[t].key, res[t].val)
      /\ UNCHANGED <<db, req, res, ghostVars>>
  BY Served DEF Fill, At, HandlerInv, Control, ControlOK, ValuesInFlight
<1>2. /\ \A u \in Threads \ {t} : pc'[u] = pc[u] /\ res'[u] = res[u]
      /\ pc'[t] = "release"
  BY DEF Fill, Goto, HandlerInv, HandlerTypeOK
<1>3. t \in solo => res[t].val = db[Row[req[t].key]]
  BY <1>1 DEF CoherenceInv, SoloCurrent, Current
<1>4. t \in solo => Current(t)'
  BY <1>1, <1>2, <1>3 DEF Current
<1>5. \A k \in Keys : ~Pending(t, k)
  BY <1>1 DEF Pending
<1>6. QED
  BY <1>1, <1>2, <1>3, <1>4, <1>5, PutCoherent

LEMMA RefreshCoherent ==
  ASSUME CacheInv, HandlerInv, CoherenceInv, NEW t \in Threads, Refresh(t)
  PROVE  CoherenceInv'
<1>1. /\ pc[t] = "refresh" /\ req[t].val \in Values /\ Busy(t)
      /\ \/ req[t].method = "POST"
         \/ req[t].method = "PUT" /\ res[t].is = "updated"
      /\ CachePut(req[t].key, req[t].val)
      /\ UNCHANGED <<db, req, ghostVars>>
  BY Served DEF Refresh, At, HandlerInv, Control, ControlOK, ValuesInFlight
<1>2. /\ \A u \in Threads \ {t} : pc'[u] = pc[u] /\ res'[u] = res[u]
      /\ pc'[t] = "respond"
      /\ res'[t].is \in {"created", "updated"}
  BY <1>1 DEF Refresh, Answer, Goto, HandlerInv, HandlerTypeOK
<1>3. t \in solo => req[t].val = db[Row[req[t].key]]
  BY <1>1 DEF CoherenceInv, SoloCurrent, Current
<1>4. Current(t)'
  BY <1>1, <1>2 DEF Current
<1>5. \A k \in Keys : Pending(t, k) => k = req[t].key
  BY DEF Pending
<1>6. QED
  BY <1>1, <1>2, <1>3, <1>4, <1>5, PutCoherent

LEMMA InvalidateCoherent ==
  ASSUME CacheInv, HandlerInv, CoherenceInv, NEW t \in Threads, Invalidate(t)
  PROVE  CoherenceInv'
<1> DEFINE k0 == req[t].key
<1>1. /\ req[t].method = "DELETE" /\ k0 \in Keys /\ CacheRemove(k0)
      /\ UNCHANGED <<db, req, ghostVars>>
  BY Served DEF Invalidate, At, HandlerInv, Control, ControlOK
<1>2. /\ \A u \in Threads \ {t} : pc'[u] = pc[u] /\ res'[u] = res[u]
      /\ pc'[t] = "respond" /\ res'[t].is = "deleted"
  BY DEF Invalidate, Answer, Goto, HandlerInv, HandlerTypeOK
<1>3. ~Cached(k0)' /\ \A k \in Keys \ {k0} : Same(k)
  BY <1>1, RemoveStep
<1>4. \A k \in Keys : Agrees(k) => Agrees(k)'
  BY <1>1, <1>3, AgreesKept
<1>5. Agrees(k0)'
  BY <1>3 DEF Agrees
<1>6. Current(t)'
  BY <1>1, <1>2 DEF Current
<1>7. \A k \in Keys : Pending(t, k) => k = k0
  BY DEF Pending
<1>8. QED
  BY <1>1, <1>2, <1>4, <1>5, <1>6, <1>7, LocalStep
-----------------------------------------------------------------------------
(* The statements that write.                                              *)

(* An execution x of t's statement may change the row of t's key.  If it   *)
(* leaves that key unsuspect, the row stayed as it was or t will bring the *)
(* cache up to date.                                                       *)
LEMMA StatementCoherent ==
  ASSUME HandlerInv, CoherenceInv, NEW t \in Threads,
         pc[t] = "sql", req[t].method \in Writes, UNCHANGED <<req, shards>>,
         NEW x, Mark(t, x),
         NEW w, db' \in {db, [db EXCEPT ![Row[req[t].key]] = w]},
         ~x.applied => db' = db,
         \A u \in Threads \ {t} : pc'[u] = pc[u] /\ res'[u] = res[u],
         pc'[t] # "respond",
         t \in solo' => Current(t)',
         req[t].key \notin suspect' => Pending(t, req[t].key)' \/ db' = db
  PROVE  CoherenceInv'
<1> DEFINE k0 == req[t].key
           r == Row[k0]
<1>1. Busy(t) /\ k0 \in Keys /\ solo \subseteq Threads
  BY Served DEF HandlerInv, HandlerTypeOK
<1>2. /\ solo' \subseteq solo /\ suspect \subseteq suspect'
      /\ \A u \in solo : u # t => u \in solo'
      /\ t \notin solo' => t \notin solo \/ k0 \in suspect'
      /\ x.applied => \A k \in Keys \ {k0} : Row[k] = r => k \in suspect'
  BY DEF Mark, SameRow
<1>3. \A k \in Keys : Row[k] # r => db'[Row[k]] = db[Row[k]]
  <2>1. \A k \in Keys : Row[k] \in Range(Row)
    BY ServerAssumption DEF Range
  <2>2. db \in [Range(Row) -> Values \cup {Absent}]
    BY DEF HandlerInv, HandlerTypeOK
  <2>3. QED
    BY <2>1, <2>2
<1>4. \A k \in Keys : Same(k)
  BY UntouchedCache
<1>5. \A u \in solo : u # t => Row[req[u].key] # r /\ req[u].key \in Keys
  BY <1>1, Served DEF CoherenceInv, SoloAlone, Together
<1>6. SoloAlone'
  BY <1>1, <1>2 DEF CoherenceInv, SoloAlone, Together, Busy
<1>7. UnsuspectSolo'
  BY <1>1, <1>2 DEF CoherenceInv, UnsuspectSolo, Busy
<1>8. SoloCurrent'
  <2> SUFFICES ASSUME NEW u \in solo', u # t PROVE Current(u)'
    BY DEF SoloCurrent
  <2>1. u \in solo /\ u \in Threads /\ Current(u)
    BY <1>1, <1>2 DEF CoherenceInv, SoloCurrent
  <2>2. db'[Row[req[u].key]] = db[Row[req[u].key]]
    BY <1>3, <1>5, <2>1
  <2>3. QED
    BY <1>2, <2>1, <2>2 DEF Current
<1>9. SettledAgree'
  <2> SUFFICES ASSUME NEW u \in solo', Settled(u)' PROVE Agrees(req[u].key)'
    BY DEF SettledAgree
  <2>1. u # t
    BY DEF Settled, Writes
  <2>2. u \in solo /\ u \in Threads /\ Settled(u)
    BY <1>1, <1>2, <2>1 DEF Settled
  <2>3. req[u].key \in Keys /\ Agrees(req[u].key)
        /\ db'[Row[req[u].key]] = db[Row[req[u].key]]
    BY <1>3, <1>5, <2>1, <2>2 DEF CoherenceInv, SettledAgree
  <2>4. QED
    BY <1>4, <2>3, AgreesKept
<1>10. AgreeOrPending'
  <2> SUFFICES ASSUME NEW k \in Keys \ suspect'
               PROVE  Agrees(k)' \/ \E u \in Threads : Pending(u, k)'
    BY DEF AgreeOrPending
  <2>1. Agrees(k) \/ \E u \in Threads : Pending(u, k)
    BY <1>2 DEF CoherenceInv, AgreeOrPending
  <2>2. \A u \in Threads : Pending(u, k) => u # t /\ Pending(u, k)'
    BY DEF Pending
  <2>3. CASE db'[Row[k]] = db[Row[k]]
    BY <1>4, <2>1, <2>2, <2>3, AgreesKept
  <2>4. CASE db'[Row[k]] # db[Row[k]]
    <3>1. Row[k] = r /\ x.applied
      BY <1>3, <2>4
    <3>2. k = k0
      BY <1>2, <3>1
    <3>3. QED
      BY <2>4, <3>2
  <2>5. QED
    BY <2>3, <2>4
<1>11. QED
  BY <1>6, <1>7, <1>8, <1>9, <1>10 DEF CoherenceInv

LEMMA InsertRowCoherent ==
  ASSUME HandlerInv, CoherenceInv, NEW t \in Threads, InsertRow(t)
  PROVE  CoherenceInv'
<1> DEFINE r == Row[req[t].key]
           v == req[t].val
<1>1. /\ pc[t] = "sql" /\ req[t].method = "POST" /\ res[t].is = "none"
      /\ UNCHANGED <<shards, req, res>>
  BY DEF InsertRow, At, HandlerInv, Control, ControlOK
<1>2. PICK x \in [applied : BOOLEAN, raised : {"nothing", "SQLException", "other"}] :
           /\ db' = IF x.applied THEN [db EXCEPT ![r] = v] ELSE db
           /\ pc' = [pc EXCEPT ![t] = IF x.raised = "other" THEN "unwind" ELSE "release"]
           /\ Mark(t, x)
  <2>1. [applied |-> FALSE, raised |-> "SQLException"]
          \in [applied : BOOLEAN, raised : {"nothing", "SQLException", "other"}]
    OBVIOUS
  <2>2. QED
    BY <2>1, ExecutionsType DEF InsertRow, AfterSql, Goto
<1>3. /\ \A u \in Threads \ {t} : pc'[u] = pc[u] /\ res'[u] = res[u]
      /\ pc'[t] = IF x.raised = "other" THEN "unwind" ELSE "release"
  BY <1>1, <1>2 DEF HandlerInv, HandlerTypeOK
<1>4. r \in Range(Row) /\ db \in [Range(Row) -> Values \cup {Absent}]
  BY <1>1, Served DEF HandlerInv, HandlerTypeOK
<1>5. Apart(t, x) <=> (x.applied # (x.raised # "other"))
  BY <1>1 DEF Apart
<1>6. t \in solo' => Current(t)'
  BY <1>1, <1>2, <1>3, <1>4, <1>5 DEF Mark, Current
<1>7. req[t].key \notin suspect' => Pending(t, req[t].key)' \/ db' = db
  BY <1>1, <1>2, <1>3, <1>5 DEF Mark, Pending
<1>8. QED
  BY SMTT(60), <1>1, <1>2, <1>3, <1>6, <1>7, StatementCoherent DEF Writes

LEMMA UpdateRowCoherent ==
  ASSUME HandlerInv, CoherenceInv, NEW t \in Threads, UpdateRow(t)
  PROVE  CoherenceInv'
<1> DEFINE r == Row[req[t].key]
           v == req[t].val
           rows(x) == IF x.raised = "nothing" THEN RowsAffected(db[r], v) ELSE 0
<1>1. pc[t] = "sql" /\ req[t].method = "PUT" /\ UNCHANGED <<shards, req>>
  BY DEF UpdateRow, At
<1>2. PICK x \in Executions :
           /\ db' = IF x.applied /\ db[r] # Absent THEN [db EXCEPT ![r] = v] ELSE db
           /\ Answer(t, IF rows(x) > 0 THEN "updated" ELSE "not_found", Absent)
           /\ AfterSql(t, x, "release")
           /\ Mark(t, x)
  BY Zenon DEF UpdateRow
<1>3. /\ x.applied \in BOOLEAN /\ x.raised \in {"nothing", "SQLException", "other"}
      /\ x.raised = "nothing" => x.applied
  BY DEF Executions
<1>4. /\ rows(x) > 0 => x.raised = "nothing" /\ x.applied /\ db[r] # Absent
      /\ ~(rows(x) > 0) /\ x.raised = "nothing" => db[r] = Absent \/ db[r] = v
  BY <1>3 DEF RowsAffected
<1> HIDE DEF rows
<1>5. /\ \A u \in Threads \ {t} : pc'[u] = pc[u] /\ res'[u] = res[u]
      /\ pc'[t] = IF x.raised = "other" THEN "unwind" ELSE "release"
      /\ res'[t].is = IF rows(x) > 0 THEN "updated" ELSE "not_found"
  BY <1>2 DEF AfterSql, Goto, Answer, HandlerInv, HandlerTypeOK
<1>6. r \in Range(Row) /\ db \in [Range(Row) -> Values \cup {Absent}]
  BY <1>1, Served DEF HandlerInv, HandlerTypeOK
<1>7. Apart(t, x) <=> x.applied /\ x.raised # "nothing"
  BY <1>1 DEF Apart
<1>8. t \in solo' => Current(t)'
  BY <1>1, <1>2, <1>4, <1>5, <1>6 DEF Current
<1>9. req[t].key \notin suspect' => Pending(t, req[t].key)' \/ db' = db
  <2>1. CASE rows(x) > 0
    BY <1>1, <1>4, <1>5, <2>1 DEF Pending
  <2>2. CASE ~(rows(x) > 0)
    <3>1. CASE x.raised = "nothing"
      BY <1>2, <1>4, <1>6, <2>2, <3>1
    <3>2. CASE x.raised # "nothing" /\ x.applied
      BY <1>2, <1>7, <3>2 DEF Mark
    <3>3. CASE ~x.applied
      BY <1>2, <3>3
    <3>4. QED
      BY <1>3, <3>1, <3>2, <3>3
  <2>3. QED
    BY <2>1, <2>2
<1>10. QED
  BY SMTT(60), <1>1, <1>2, <1>3, <1>5, <1>8, <1>9, StatementCoherent DEF Writes

LEMMA DeleteRowCoherent ==
  ASSUME HandlerInv, CoherenceInv, NEW t \in Threads, DeleteRow(t)
  PROVE  CoherenceInv'
<1>1. /\ pc[t] = "sql" /\ req[t].method = "DELETE" /\ res[t].is = "none"
      /\ UNCHANGED <<shards, req, res>>
  BY DEF DeleteRow, At, HandlerInv, Control, ControlOK
<1>2. PICK x \in Executions :
           /\ db' = IF x.applied THEN [db EXCEPT ![Row[req[t].key]] = Absent] ELSE db
           /\ Mark(t, x)
  BY DEF DeleteRow
<1>3. /\ \A u \in Threads \ {t} : pc'[u] = pc[u] /\ res'[u] = res[u]
      /\ pc'[t] = "release"
  BY <1>1 DEF DeleteRow, Goto, HandlerInv, HandlerTypeOK
<1>4. Current(t)' /\ Pending(t, req[t].key)'
  BY <1>1, <1>3 DEF Current, Pending
<1>5. /\ db' \in {db, [db EXCEPT ![Row[req[t].key]] = Absent]}
      /\ ~x.applied => db' = db
      /\ pc'[t] # "respond" /\ req[t].method \in Writes
      /\ UNCHANGED <<req, shards>>
  BY <1>1, <1>2, <1>3 DEF Writes
<1>6. Mark(t, x)
  BY <1>2
<1>7. QED
  BY SMTT(60), <1>1, <1>3, <1>4, <1>5, <1>6, StatementCoherent
-----------------------------------------------------------------------------
(* The steps that begin and end a request.                                 *)

LEMMA ArriveCoherent ==
  ASSUME HandlerInv, CoherenceInv, NEW t \in Threads, NEW m \in Methods, NEW k \in Keys,
         NEW v \in ArgumentsOf(m), Arrive(t, m, k, v)
  PROVE  CoherenceInv'
<1> DEFINE rivals == Rivals(t, m, k)
<1> USE DEF CoherenceInv
<1>1. /\ ~Busy(t) /\ t \notin solo /\ res[t].is = "none" /\ solo \subseteq Threads
      /\ UNCHANGED <<shards, db, res>>
  BY Served DEF Arrive, SoloAlone, HandlerInv, HandlerTypeOK, Control, ControlOK
<1>2. m \in {"POST", "GET", "PUT", "DELETE"}
  BY ServerAssumption
<1>3. /\ \A u \in Threads \ {t} : pc'[u] = pc[u] /\ req'[u] = req[u]
      /\ req'[t] = [method |-> m, key |-> k, val |-> v]
      /\ pc'[t] = IF m = "GET" THEN "probe" ELSE "acquire"
  BY DEF Arrive, Goto, HandlerInv, HandlerTypeOK
<1>4. Busy(t)' /\ \A u \in Threads \ {t} : Busy(u)' <=> Busy(u)
  <2>1. req'[t].method # "none"
    BY <1>2, <1>3
  <2>2. QED
    BY <1>3, <2>1 DEF Busy, NoReq
<1>5. \A u \in Threads : u \in rivals <=>
        /\ u # t /\ Busy(u) /\ Row[req[u].key] = Row[k]
        /\ m \in Writes \/ req[u].method \in Writes \/ u \notin solo
  BY DEF Rivals
<1>6. /\ solo' = IF rivals = {} THEN solo \cup {t} ELSE solo \ rivals
      /\ suspect' = IF rivals = {} THEN suspect ELSE suspect \cup SameRow(k)
      /\ rivals \subseteq Threads
  BY DEF Arrive, Meet, Rivals
<1> HIDE DEF rivals
<1>7. \A j \in Keys : Same(j)
  BY <1>1, UntouchedCache
<1>8. SoloAlone'
  <2> SUFFICES ASSUME NEW w \in solo', NEW u \in Threads
               PROVE  /\ Busy(w)'
                      /\ Together(w, u)' => /\ u \in solo'
                                            /\ req'[w].method \notin Writes
                                            /\ req'[u].method \notin Writes
    BY DEF SoloAlone
  <2>1. CASE w = t
    BY <1>1, <1>3, <1>4, <1>5, <1>6, <2>1 DEF Together
  <2>2. CASE w # t
    <3>1. w \in solo /\ w \in Threads /\ Busy(w) /\ Busy(w)' /\ w \notin rivals
      BY <1>1, <1>4, <1>6, <2>2 DEF SoloAlone
    <3>2. ASSUME u # t, Together(w, u)'
          PROVE  /\ u \in solo'
                 /\ req'[w].method \notin Writes /\ req'[u].method \notin Writes
      <4>1. Together(w, u)
        BY <1>3, <1>4, <2>2, <3>1, <3>2 DEF Together
      <4>2. u \in solo /\ req[w].method \notin Writes /\ req[u].method \notin Writes
        BY <3>1, <4>1 DEF SoloAlone
      <4>3. u \notin rivals
        BY <1>5, <2>2, <3>1, <4>1, <4>2 DEF Together
      <4>4. QED
        BY <1>3, <1>6, <2>2, <3>1, <3>2, <4>2, <4>3
    <3>3. ASSUME u = t, Together(w, u)'
          PROVE  /\ u \in solo'
                 /\ req'[w].method \notin Writes /\ req'[u].method \notin Writes
      <4>1. Row[req[w].key] = Row[k] /\ m \notin Writes /\ req[w].method \notin Writes
        BY <1>3, <1>5, <2>2, <3>1, <3>3 DEF Together
      <4>2. ASSUME NEW y \in rivals PROVE FALSE
        <5>1. y \in Threads /\ y # w /\ Together(w, y)
          BY <1>5, <1>6, <3>1, <4>1 DEF Together
        <5>2. y \in solo /\ req[y].method \notin Writes
          BY <3>1, <5>1 DEF SoloAlone
        <5>3. QED
          BY <1>5, <4>1, <5>1, <5>2
      <4>3. QED
        BY <1>3, <1>6, <2>2, <3>1, <3>3, <4>1, <4>2
    <3>4. QED
      BY <3>1, <3>2, <3>3
  <2>3. QED
    BY <2>1, <2>2
<1>9. UnsuspectSolo'
  <2> SUFFICES ASSUME NEW u \in Threads, Busy(u)', req'[u].key \notin suspect'
               PROVE  u \in solo'
    BY DEF UnsuspectSolo
  <2>1. CASE u = t
    BY <1>3, <1>6, <2>1 DEF SameRow
  <2>2. CASE u # t
    <3>1. Busy(u) /\ req[u].key \in Keys /\ req[u].key \notin suspect'
      BY <1>3, <1>4, <2>2, Served
    <3>2. u \in solo
      BY <1>6, <3>1 DEF UnsuspectSolo
    <3>3. u \in rivals => req[u].key \in SameRow(k)
      BY <1>5, <3>1 DEF SameRow
    <3>4. QED
      BY <1>6, <3>1, <3>2, <3>3
  <2>3. QED
    BY <2>1, <2>2
<1>10. \A u \in solo' : u # t => u \in solo /\ u \in Threads
  BY <1>1, <1>6
<1>11. SoloCurrent'
  <2> SUFFICES ASSUME NEW u \in solo' PROVE Current(u)'
    BY DEF SoloCurrent
  <2>1. CASE u = t
    BY <1>1, <1>2, <1>3, <2>1 DEF Current
  <2>2. CASE u # t
    BY <1>1, <1>3, <1>6, <1>10, <2>2 DEF SoloCurrent, Current
  <2>3. QED
    BY <2>1, <2>2
<1>12. SettledAgree'
  <2> SUFFICES ASSUME NEW u \in solo', Settled(u)' PROVE Agrees(req[u].key)'
    BY DEF SettledAgree
  <2>1. u # t
    BY <1>1, <1>3 DEF Settled
  <2>2. u \in solo /\ u \in Threads /\ Settled(u) /\ req'[u] = req[u] /\ Busy(u)
    BY <1>1, <1>3, <1>10, <2>1 DEF Settled, SoloAlone
  <2>3. req[u].key \in Keys /\ Agrees(req[u].key)
    BY <2>2, Served DEF SettledAgree
  <2>4. QED
    BY <1>1, <1>7, <2>2, <2>3, AgreesKept
<1>13. AgreeOrPending'
  <2> SUFFICES ASSUME NEW j \in Keys \ suspect'
               PROVE  Agrees(j)' \/ \E u \in Threads : Pending(u, j)'
    BY DEF AgreeOrPending
  <2>1. Agrees(j) \/ \E u \in Threads : Pending(u, j)
    BY <1>6 DEF AgreeOrPending
  <2>2. \A u \in Threads : Pending(u, j) => Pending(u, j)'
    <3>1. pc[t] = "idle"
      BY DEF Arrive
    <3>2. QED
      BY <1>1, <1>3, <3>1 DEF Pending
  <2>3. QED
    BY <1>1, <1>7, <2>1, <2>2, AgreesKept
<1>14. QED
  BY <1>8, <1>9, <1>11, <1>12, <1>13

(* A request clears its key only when it leaves cache and table equal and  *)
(* nobody else at work on the row.                                         *)
LEMMA RespondCoherent ==
  ASSUME HandlerInv, CoherenceInv, NEW t \in Threads, Respond(t)
  PROVE  CoherenceInv'
<1> DEFINE k0 == req[t].key
<1> USE DEF CoherenceInv
<1>1. /\ pc[t] = "respond" /\ UNCHANGED <<shards, db>> /\ solo \subseteq Threads
      /\ solo' = solo \ {t}
      /\ suspect' = IF Heals(t) THEN suspect \ {k0} ELSE suspect
  BY DEF Respond, Part, HandlerInv, HandlerTypeOK
<1>2. /\ \A u \in Threads \ {t} : pc'[u] = pc[u] /\ req'[u] = req[u] /\ res'[u] = res[u]
      /\ pc'[t] = "idle" /\ req'[t] = NoReq /\ res'[t] = NoRes
  BY DEF Respond, Goto, HandlerInv, HandlerTypeOK
<1>3. ~Busy(t)' /\ \A u \in Threads \ {t} : Busy(u)' <=> Busy(u)
  BY <1>2 DEF Busy
<1>4. ASSUME Heals(t)
      PROVE  /\ t \in solo /\ Agrees(k0)
             /\ \A u \in Threads : Busy(u)' => Row[req[u].key] # Row[k0]
  <2>1. Settled(t)
    BY <1>1, <1>4 DEF Heals, Settled, HandlerInv, Control, ControlOK
  <2>2. QED
    BY <1>3, <1>4, <2>1 DEF Heals, SettledAgree
<1>5. \A u \in Threads : Busy(u)' /\ req[u].key \notin suspect' => req[u].key \notin suspect
  BY <1>1, <1>4
<1>6. SoloAlone'
  <2> SUFFICES ASSUME NEW w \in solo', NEW u \in Threads
               PROVE  /\ Busy(w)'
                      /\ Together(w, u)' => /\ u \in solo'
                                            /\ req'[w].method \notin Writes
                                            /\ req'[u].method \notin Writes
    BY DEF SoloAlone
  <2>1. w \in solo /\ w \in Threads /\ w # t /\ Busy(w)'
    BY <1>1, <1>3 DEF SoloAlone
  <2>2. Together(w, u)' => u # t /\ Together(w, u)
    BY <1>2, <1>3, <2>1 DEF Together
  <2>3. QED
    BY <1>1, <1>2, <2>1, <2>2 DEF SoloAlone
<1>7. UnsuspectSolo'
  BY <1>1, <1>2, <1>3, <1>5 DEF UnsuspectSolo
<1>8. SoloCurrent'
  <2> SUFFICES ASSUME NEW u \in solo' PROVE Current(u)'
    BY DEF SoloCurrent
  <2>1. u \in solo /\ u \in Threads /\ u # t /\ Busy(u)' /\ Current(u)
    BY <1>1, <1>3 DEF SoloAlone, SoloCurrent
  <2>2. QED
    BY <1>1, <1>2, <1>5, <2>1 DEF Current
<1>9. \A k \in Keys : Agrees(k) => Agrees(k)'
  BY <1>1, UntouchedCache, AgreesKept
<1>10. SettledAgree'
  <2> SUFFICES ASSUME NEW u \in solo', Settled(u)' PROVE Agrees(req[u].key)'
    BY DEF SettledAgree
  <2>1. u \in solo /\ u \in Threads /\ u # t /\ Settled(u) /\ req'[u] = req[u] /\ Busy(u)
    BY <1>1, <1>2, <1>3 DEF Settled, SoloAlone
  <2>2. QED
    BY <1>9, <2>1, Served DEF SettledAgree
<1>11. AgreeOrPending'
  <2> SUFFICES ASSUME NEW k \in Keys \ suspect'
               PROVE  Agrees(k)' \/ \E u \in Threads : Pending(u, k)'
    BY DEF AgreeOrPending
  <2>1. CASE k \in suspect
    BY <1>1, <1>4, <1>9, <2>1
  <2>2. CASE k \notin suspect
    <3>1. \A u \in Threads : Pending(u, k) => Pending(u, k)'
      BY <1>1, <1>2 DEF Pending
    <3>2. QED
      BY <1>9, <2>2, <3>1 DEF AgreeOrPending
  <2>3. QED
    BY <2>1, <2>2
<1>12. QED
  BY <1>6, <1>7, <1>8, <1>10, <1>11

(* A new process starts with an empty cache and nobody to mislead.         *)
LEMMA RestartCoherent ==
  ASSUME Restart
  PROVE  CoherenceInv'
<1>1. solo' = {} /\ \A t \in Threads : ~Busy(t)'
  BY DEF Restart, Busy
<1>2. \A k \in Keys : Agrees(k)'
  BY EmptiedCache DEF Restart, Agrees
<1>3. QED
  BY <1>1, <1>2 DEF CoherenceInv, SoloAlone, UnsuspectSolo, SoloCurrent, SettledAgree,
                    AgreeOrPending

(* Nothing happens to the handlers.                                        *)
LEMMA StutterCoherent ==
  ASSUME CoherenceInv, UNCHANGED <<shards, db, handlerVars, ghostVars>>
  PROVE  CoherenceInv'
<1> USE DEF handlerVars, ghostVars, CoherenceInv
<1>1. SoloAlone' /\ UnsuspectSolo' /\ SoloCurrent'
  BY DEF SoloAlone, UnsuspectSolo, SoloCurrent, Together, Busy, Current
<1>2. \A k : Agrees(k)' <=> Agrees(k)
  BY DEF Agrees, Cached, CachedValue
<1>3. SettledAgree' /\ AgreeOrPending'
  BY <1>2 DEF SettledAgree, Settled, AgreeOrPending, Pending
<1>4. QED
  BY <1>1, <1>3
-----------------------------------------------------------------------------
LEMMA CoherenceStep ==
  ASSUME BaseInv, CoherenceInv, [KVNext]_kvVars
  PROVE  CoherenceInv'
<1>1. CacheInv /\ HandlerInv
  BY BaseParts
<1>2. CASE \E t \in Threads : \E m \in Methods, k \in Keys : \E v \in ArgumentsOf(m) :
             Arrive(t, m, k, v)
  BY <1>1, <1>2, ArriveCoherent
<1>3. ASSUME NEW t \in Threads, BadRequest(t) PROVE CoherenceInv'
  BY <1>1, <1>3, BadRequestCoherent
<1>4. ASSUME NEW t \in Threads, Step(t) PROVE CoherenceInv'
  BY <1>1, <1>4, ProbeCoherent, AcquireCoherent, SelectRowCoherent, InsertRowCoherent,
     UpdateRowCoherent, DeleteRowCoherent, FillCoherent, ReleaseCoherent,
     RefreshCoherent, InvalidateCoherent, UnwindCoherent, FillFailsCoherent,
     ReleaseFailsCoherent, RefreshFailsCoherent, RespondCoherent DEF Step
<1>5. CASE Restart
  BY <1>5, RestartCoherent
<1>6. CASE \E t \in Threads : WakeSpuriously(t)
  BY <1>6, StutterCoherent DEF WakeSpuriously
<1>7. CASE UNCHANGED kvVars
  BY <1>7, StutterCoherent DEF kvVars
<1>8. ASSUME NEW t \in Threads, ComposeFails(t) PROVE CoherenceInv'
  BY <1>1, <1>8, ComposeFailsCoherent
<1>9. QED
  BY <1>2, <1>3, <1>4, <1>5, <1>6, <1>7, <1>8 DEF KVNext

LEMMA CoherenceInvariant == KVSpec => [](BaseInv /\ CoherenceInv)
  BY BaseInitially, CoherentInitially, BaseStep, CoherenceStep, PTL DEF KVSpec

(* Races, evictions, failures and restarts included, cache and database    *)
(* agree on every key that is not suspect, except while a write of the key *)
(* is between its statement and its cache operation.                       *)
THEOREM KVCoherent == KVSpec => []CoherentUnlessSuspect
<1>1. BaseInv /\ CoherenceInv => CoherentUnlessSuspect
  <2> SUFFICES ASSUME BaseInv, CoherenceInv, NEW k \in Keys \ suspect, Cached(k)
               PROVE  \/ CachedValue(k) = db[Row[k]]
                      \/ \E t \in Threads : /\ req[t].method \in Writes /\ req[t].key = k
                                            /\ pc[t] \in {"release", "refresh", "invalidate"}
    BY DEF CoherentUnlessSuspect
  <2>1. HandlerInv
    BY BaseParts
  <2>2. ASSUME NEW t \in Threads, Pending(t, k)
        PROVE  req[t].method \in Writes
    BY <2>1, <2>2 DEF Pending, Writes, HandlerInv, Control, ControlOK
  <2>3. QED
    BY <2>2 DEF CoherenceInv, AgreeOrPending, Agrees, Pending
<1>2. QED
  BY <1>1, CoherenceInvariant, PTL

(* A read that met no write on its row answers what the database holds.    *)
THEOREM KVSoloReadIsCurrent == KVSpec => []SoloReadIsCurrent
<1>1. BaseInv /\ CoherenceInv => SoloReadIsCurrent
  <2> SUFFICES ASSUME BaseInv, CoherenceInv, NEW t \in solo, pc[t] = "respond",
                      req[t].method = "GET", req[t].key \notin suspect, res[t].is # "error"
               PROVE  res[t].val = db[Row[req[t].key]]
    BY DEF SoloReadIsCurrent
  <2>1. res[t].is \in {"hit", "miss", "not_found"}
    BY BaseParts DEF HandlerInv, HandlerTypeOK, Control, ControlOK
  <2>2. QED
    BY <2>1 DEF CoherenceInv, SoloCurrent, Current
<1>2. QED
  BY <1>1, CoherenceInvariant, PTL
-----------------------------------------------------------------------------
(* Where the values come from that are answered, cached or about to be.    *)

Told(t) == res[t].is \in {"hit", "miss"} => res[t].val \in ever[Row[req[t].key]]

(* A write past its statement that will cache its value.                   *)
Caching(t) ==
  pc[t] \in {"release", "refresh"} /\ (req[t].method = "POST" \/ res[t].is = "updated")

Owed(t) == Caching(t) => req[t].val \in ever[Row[req[t].key]]

Sourced(k) == Cached(k) => CachedValue(k) \in ever[Row[k]]

SourceInv ==
  /\ \A r \in Range(Row) : Held(db, r) \subseteq ever[r]
  /\ \A t \in Threads : Told(t) /\ Owed(t)
  /\ \A k \in Keys : Sourced(k)

(* What a step adds to the record.                                         *)
Recorded ==
  \A r \in Range(Row) : /\ ever[r] \subseteq ever'[r] /\ Held(db', r) \subseteq ever'[r]
                        /\ Created(r) \subseteq ever'[r]

LEMMA RowOf == \A k \in Keys : Row[k] \in Range(Row)
  BY ServerAssumption DEF Range

LEMMA SourcedKept ==
  ASSUME SourceInv, Recorded, NEW k \in Keys, Same(k) \/ ~Cached(k)'
  PROVE  Sourced(k)'
  BY RowOf DEF SourceInv, Recorded, Sourced, Same

(* A step of t alone, which leaves t and the cache with values on record.  *)
LEMMA SourceStep ==
  ASSUME HandlerInv, SourceInv, Recorded, NEW t \in Threads,
         \A u \in Threads \ {t} : pc'[u] = pc[u] /\ req'[u] = req[u] /\ res'[u] = res[u],
         Told(t)', Owed(t)',
         \A k \in Keys : Same(k) \/ ~Cached(k)' \/ Sourced(k)'
  PROVE  SourceInv'
<1>1. ASSUME NEW u \in Threads \ {t} PROVE Told(u)' /\ Owed(u)'
  <2>1. /\ Told(u) /\ Owed(u)
        /\ pc'[u] = pc[u] /\ req'[u] = req[u] /\ res'[u] = res[u]
    BY DEF SourceInv
  <2>2. ASSUME res[u].is \in {"hit", "miss"} \/ Caching(u)
        PROVE  Row[req[u].key] \in Range(Row)
    <3>1. req[u].method # "none"
      BY <2>2 DEF Caching, HandlerInv, Control, ControlOK
    <3>2. QED
      BY <3>1, Served
  <2>3. QED
    BY <2>1, <2>2 DEF Told, Owed, Caching, Recorded
<1>2. \A k \in Keys : Sourced(k)'
  BY SourcedKept
<1>3. \A r \in Range(Row) : Held(db', r) \subseteq ever'[r]
  BY DEF Recorded
<1>4. \A u \in Threads : Told(u)' /\ Owed(u)'
  BY <1>1
<1>5. QED
  BY <1>2, <1>3, <1>4 DEF SourceInv

(* A step that leaves the cache alone and t with nothing to answer or to   *)
(* cache.                                                                  *)
LEMMA SilentStep ==
  ASSUME HandlerInv, SourceInv, Recorded, NEW t \in Threads, UNCHANGED shards,
         \A u \in Threads \ {t} : pc'[u] = pc[u] /\ req'[u] = req[u] /\ res'[u] = res[u],
         res'[t].is \notin {"hit", "miss"}, ~Caching(t)'
  PROVE  SourceInv'
<1>1. Told(t)' /\ Owed(t)'
  BY DEF Told, Owed
<1>2. \A k \in Keys : Same(k)
  BY UntouchedCache
<1>3. QED
  BY <1>1, <1>2, SourceStep

LEMMA ArriveSourced ==
  ASSUME HandlerInv, SourceInv, Recorded, NEW t \in Threads, NEW m, NEW k, NEW v,
         Arrive(t, m, k, v)
  PROVE  SourceInv'
<1>1. /\ UNCHANGED <<shards, res>> /\ res[t].is = "none"
      /\ \A u \in Threads \ {t} : pc'[u] = pc[u] /\ req'[u] = req[u]
      /\ pc'[t] \in {"probe", "acquire"}
  BY DEF Arrive, Goto, HandlerInv, HandlerTypeOK, Control, ControlOK
<1>2. ~Caching(t)'
  BY <1>1 DEF Caching
<1>3. QED
  BY <1>1, <1>2, SilentStep

LEMMA BadRequestSourced ==
  ASSUME HandlerInv, SourceInv, Recorded, NEW t \in Threads, BadRequest(t)
  PROVE  SourceInv'
<1>1. /\ UNCHANGED <<shards, req>>
      /\ \A u \in Threads \ {t} : pc'[u] = pc[u] /\ res'[u] = res[u]
      /\ pc'[t] = "respond" /\ res'[t].is \in {"bad_request", "error"}
  BY DEF BadRequest, Goto, Answer, HandlerInv, HandlerTypeOK
<1>2. ~Caching(t)'
  BY <1>1 DEF Caching
<1>3. QED
  BY <1>1, <1>2, SilentStep

LEMMA ProbeSourced ==
  ASSUME CacheInv, HandlerInv, SourceInv, Recorded, NEW t \in Threads, Probe(t)
  PROVE  SourceInv'
<1> DEFINE k == req[t].key
<1>1. /\ k \in Keys /\ res[t].is = "none" /\ UNCHANGED req
  BY Served DEF Probe, At, HandlerInv, Control, ControlOK
<1>2. \A j \in Keys : Same(j)
  BY <1>1, GetStep DEF Probe
<1>3. /\ \A u \in Threads \ {t} : pc'[u] = pc[u] /\ res'[u] = res[u]
      /\ pc'[t] \in {"respond", "acquire"}
      /\ \/ Cached(k) /\ res'[t].val = CachedValue(k)
         \/ res'[t] = res[t]
  BY DEF Probe, Answer, Goto, HandlerInv, HandlerTypeOK
<1>4. Told(t)'
  BY <1>1, <1>3, RowOf DEF Told, SourceInv, Sourced, Recorded
<1>5. Owed(t)'
  BY <1>3 DEF Owed, Caching
<1>6. QED
  BY <1>1, <1>2, <1>3, <1>4, <1>5, SourceStep

LEMMA AcquireSourced ==
  ASSUME HandlerInv, SourceInv, Recorded, NEW t \in Threads, Acquire(t)
  PROVE  SourceInv'
<1>1. /\ UNCHANGED <<shards, req, res>> /\ res[t].is = "none"
      /\ \A u \in Threads \ {t} : pc'[u] = pc[u]
      /\ pc'[t] \in {"sql", "acquire"}
  BY DEF Acquire, Goto, HandlerInv, HandlerTypeOK, Control, ControlOK
<1>2. ~Caching(t)'
  BY <1>1 DEF Caching
<1>3. QED
  BY <1>1, <1>2, SilentStep

LEMMA SelectRowSourced ==
  ASSUME HandlerInv, SourceInv, Recorded, NEW t \in Threads, SelectRow(t)
  PROVE  SourceInv'
<1> DEFINE r == Row[req[t].key]
<1>1. /\ req[t].method = "GET" /\ UNCHANGED <<shards, db, req>> /\ r \in Range(Row)
  BY Served DEF SelectRow, At, HandlerInv, Control, ControlOK
<1>2. /\ \A u \in Threads \ {t} : pc'[u] = pc[u] /\ res'[u] = res[u]
      /\ \/ res'[t].is \in {"error", "not_found"}
         \/ res'[t].val = db[r] /\ db[r] # Absent
  BY DEF SelectRow, Answer, AfterSql, Goto, HandlerInv, HandlerTypeOK
<1>3. Told(t)'
  BY <1>1, <1>2 DEF Told, Recorded, Held
<1>4. Owed(t)'
  <2>1. res'[t].is # "updated"
    BY DEF SelectRow, Answer, HandlerInv, HandlerTypeOK
  <2>2. QED
    BY <1>1, <2>1 DEF Owed, Caching
<1>5. \A k \in Keys : Same(k)
  BY <1>1, UntouchedCache
<1>6. QED
  BY <1>1, <1>2, <1>3, <1>4, <1>5, SourceStep

(* A create that goes on after its statement has its value on record.      *)
LEMMA InsertRowSourced ==
  ASSUME HandlerInv, SourceInv, Recorded, NEW t \in Threads, InsertRow(t)
  PROVE  SourceInv'
<1> DEFINE r == Row[req[t].key]
<1>1. /\ pc[t] = "sql" /\ req[t].method = "POST" /\ res[t].is = "none"
      /\ UNCHANGED <<shards, req, res>> /\ r \in Range(Row)
  BY Served DEF InsertRow, At, HandlerInv, Control, ControlOK
<1>2. /\ \A u \in Threads \ {t} : pc'[u] = pc[u]
      /\ pc'[t] \in {"release", "unwind"}
  BY DEF InsertRow, AfterSql, Goto, HandlerInv, HandlerTypeOK
<1>3. Told(t)'
  BY <1>1 DEF Told
<1>4. Owed(t)'
  <2>1. CASE pc'[t] = "release"
    <3>1. req[t].val \in Created(r)
      BY <1>1, <2>1 DEF Created
    <3>2. QED
      BY <1>1, <3>1 DEF Owed, Recorded
  <2>2. CASE pc'[t] = "unwind"
    BY <2>2 DEF Owed, Caching
  <2>3. QED
    BY <1>2, <2>1, <2>2
<1>5. \A k \in Keys : Same(k)
  BY <1>1, UntouchedCache
<1>6. QED
  BY <1>1, <1>2, <1>3, <1>4, <1>5, SourceStep

(* An update that found its row has stored its value there.                *)
LEMMA UpdateRowSourced ==
  ASSUME HandlerInv, SourceInv, Recorded, NEW t \in Threads, UpdateRow(t)
  PROVE  SourceInv'
<1> DEFINE r == Row[req[t].key]
           v == req[t].val
           rows(x) == IF x.raised = "nothing" THEN RowsAffected(db[r], v) ELSE 0
<1>1. /\ pc[t] = "sql" /\ req[t].method = "PUT" /\ UNCHANGED <<shards, req>>
      /\ r \in Range(Row) /\ v \in Values
  BY Served DEF UpdateRow, At, HandlerInv, ValuesInFlight
<1>2. PICK x \in Executions :
           /\ db' = IF x.applied /\ db[r] # Absent THEN [db EXCEPT ![r] = v] ELSE db
           /\ Answer(t, IF rows(x) > 0 THEN "updated" ELSE "not_found", Absent)
           /\ AfterSql(t, x, "release")
           /\ Mark(t, x)
  BY Zenon DEF UpdateRow
<1>3. rows(x) > 0 => x.applied /\ db[r] # Absent
  BY DEF RowsAffected, Executions
<1> HIDE DEF rows
<1>4. /\ \A u \in Threads \ {t} : pc'[u] = pc[u] /\ res'[u] = res[u]
      /\ res'[t].is = IF rows(x) > 0 THEN "updated" ELSE "not_found"
  BY <1>2 DEF AfterSql, Goto, Answer, HandlerInv, HandlerTypeOK
<1>5. rows(x) > 0 => db'[r] = v
  BY <1>1, <1>2, <1>3 DEF HandlerInv, HandlerTypeOK
<1>6. v # Absent
  BY <1>1, CacheAssumption
<1>7. rows(x) > 0 => v \in ever'[r]
  BY <1>1, <1>5, <1>6 DEF Recorded, Held
<1>8. Told(t)' /\ Owed(t)'
  BY <1>1, <1>4, <1>7 DEF Told, Owed, Caching
<1>9. \A k \in Keys : Same(k)
  BY <1>1, UntouchedCache
<1>10. QED
  BY <1>1, <1>4, <1>8, <1>9, SourceStep

LEMMA DeleteRowSourced ==
  ASSUME HandlerInv, SourceInv, Recorded, NEW t \in Threads, DeleteRow(t)
  PROVE  SourceInv'
<1>1. /\ req[t].method = "DELETE" /\ res[t].is = "none" /\ UNCHANGED <<shards, req, res>>
      /\ \A u \in Threads \ {t} : pc'[u] = pc[u]
  BY DEF DeleteRow, At, Goto, HandlerInv, HandlerTypeOK, Control, ControlOK
<1>2. ~Caching(t)'
  BY <1>1 DEF Caching
<1>3. QED
  BY <1>1, <1>2, SilentStep

(* cache->put of a value on record for its key.                            *)
LEMMA PutSourced ==
  ASSUME CacheInv, HandlerInv, SourceInv, Recorded, NEW t \in Threads, Busy(t),
         NEW v \in Values, CachePut(req[t].key, v), v \in ever[Row[req[t].key]],
         \A u \in Threads \ {t} : pc'[u] = pc[u] /\ res'[u] = res[u],
         UNCHANGED req, Told(t)', Owed(t)'
  PROVE  SourceInv'
<1> DEFINE k0 == req[t].key
<1>1. k0 \in Keys /\ Row[k0] \in Range(Row)
  BY Served
<1>2. /\ Cached(k0)' /\ CachedValue(k0)' = v
      /\ \A k \in Keys \ {k0} : Same(k) \/ ~Cached(k)'
  BY <1>1, PutStep
<1>3. Sourced(k0)'
  BY <1>1, <1>2 DEF Sourced, Recorded
<1>4. QED
  BY <1>2, <1>3, SourceStep

LEMMA FillSourced ==
  ASSUME CacheInv, HandlerInv, SourceInv, Recorded, NEW t \in Threads, Fill(t)
  PROVE  SourceInv'
<1>1. /\ req[t].method = "GET" /\ res[t].is = "miss" /\ res[t].val \in Values /\ Busy(t)
      /\ CachePut(req[t].key, res[t].val) /\ UNCHANGED <<req, res>>
      /\ \A u \in Threads \ {t} : pc'[u] = pc[u]
  BY Served DEF Fill, At, Goto, HandlerInv, HandlerTypeOK, Control, ControlOK, ValuesInFlight
<1>2. res[t].val \in ever[Row[req[t].key]] /\ Row[req[t].key] \in Range(Row)
  BY <1>1, Served DEF SourceInv, Told
<1>3. Told(t)' /\ Owed(t)'
  BY <1>1, <1>2 DEF Told, Owed, Caching, Recorded
<1>4. QED
  BY <1>1, <1>2, <1>3, PutSourced

LEMMA ReleaseSourced ==
  ASSUME HandlerInv, SourceInv, Recorded, NEW t \in Threads, Release(t)
  PROVE  SourceInv'
<1>1. /\ pc[t] = "release" /\ Busy(t) /\ UNCHANGED <<shards, req, res>>
      /\ \A u \in Threads \ {t} : pc'[u] = pc[u]
  BY Served DEF Release, Goto, HandlerInv, HandlerTypeOK
<1>2. Told(t) /\ Owed(t) /\ Row[req[t].key] \in Range(Row)
  BY <1>1, Served DEF SourceInv
<1>3. Told(t)' /\ Owed(t)'
  BY <1>1, <1>2 DEF Told, Owed, Caching, Recorded
<1>4. \A k \in Keys : Same(k)
  BY <1>1, UntouchedCache
<1>5. QED
  BY <1>1, <1>3, <1>4, SourceStep

LEMMA RefreshSourced ==
  ASSUME CacheInv, HandlerInv, SourceInv, Recorded, NEW t \in Threads, Refresh(t)
  PROVE  SourceInv'
<1>1. /\ Caching(t) /\ req[t].val \in Values /\ Busy(t)
      /\ CachePut(req[t].key, req[t].val) /\ UNCHANGED req
  BY Served DEF Refresh, At, Caching, HandlerInv, Control, ControlOK, ValuesInFlight
<1>2. /\ \A u \in Threads \ {t} : pc'[u] = pc[u] /\ res'[u] = res[u]
      /\ pc'[t] = "respond" /\ res'[t].is \in {"created", "updated"}
  BY <1>1 DEF Refresh, At, Answer, Goto, HandlerInv, HandlerTypeOK, Control, ControlOK
<1>3. req[t].val \in ever[Row[req[t].key]]
  BY <1>1 DEF SourceInv, Owed
<1>4. Told(t)' /\ Owed(t)'
  BY <1>2 DEF Told, Owed, Caching
<1>5. QED
  BY <1>1, <1>2, <1>3, <1>4, PutSourced

LEMMA InvalidateSourced ==
  ASSUME CacheInv, HandlerInv, SourceInv, Recorded, NEW t \in Threads, Invalidate(t)
  PROVE  SourceInv'
<1>1. /\ req[t].key \in Keys /\ CacheRemove(req[t].key) /\ UNCHANGED req
      /\ \A u \in Threads \ {t} : pc'[u] = pc[u] /\ res'[u] = res[u]
      /\ pc'[t] = "respond" /\ res'[t].is = "deleted"
  BY Served DEF Invalidate, At, Answer, Goto, HandlerInv, HandlerTypeOK
<1>2. \A k \in Keys : Same(k) \/ ~Cached(k)'
  BY <1>1, RemoveStep
<1>3. Told(t)' /\ Owed(t)'
  BY <1>1 DEF Told, Owed, Caching
<1>4. QED
  BY <1>1, <1>2, <1>3, SourceStep

(* A 500 tells no value; an entry at most leaves the cache.                *)
LEMMA FailSourced ==
  ASSUME HandlerInv, SourceInv, Recorded, NEW t \in Threads, Fail(t), UNCHANGED req,
         \A k \in Keys : Same(k) \/ ~Cached(k)'
  PROVE  SourceInv'
<1>1. /\ \A u \in Threads \ {t} : pc'[u] = pc[u] /\ res'[u] = res[u]
      /\ pc'[t] = "respond" /\ res'[t].is = "error"
  BY DEF Fail, Answer, Goto, HandlerInv, HandlerTypeOK
<1>2. Told(t)' /\ Owed(t)'
  BY <1>1 DEF Told, Owed, Caching
<1>3. QED
  BY <1>1, <1>2, SourceStep

LEMMA UnwindSourced ==
  ASSUME HandlerInv, SourceInv, Recorded, NEW t \in Threads,
         Unwind(t) \/ ReleaseFails(t) \/ ComposeFails(t)
  PROVE  SourceInv'
<1>1. Fail(t) /\ UNCHANGED <<shards, req>>
  BY ComposeFailsIs DEF Unwind, ReleaseFails
<1>2. QED
  BY <1>1, UntouchedCache, FailSourced

LEMMA PutFailsSourced ==
  ASSUME CacheInv, HandlerInv, SourceInv, Recorded, NEW t \in Threads,
         FillFails(t) \/ RefreshFails(t)
  PROVE  SourceInv'
<1>1. /\ Fail(t) /\ UNCHANGED req
      /\ CachePutFails(req[t].key) /\ req[t].key \in Keys
  BY Served DEF FillFails, RefreshFails
<1>2. \A k \in Keys : Same(k) \/ ~Cached(k)'
  BY <1>1, PutFailsStep
<1>3. QED
  BY <1>1, <1>2, FailSourced

LEMMA RespondSourced ==
  ASSUME HandlerInv, SourceInv, Recorded, NEW t \in Threads, Respond(t)
  PROVE  SourceInv'
<1>1. /\ UNCHANGED shards
      /\ \A u \in Threads \ {t} : pc'[u] = pc[u] /\ req'[u] = req[u] /\ res'[u] = res[u]
      /\ pc'[t] = "idle" /\ res'[t].is = "none"
  BY DEF Respond, Goto, NoRes, HandlerInv, HandlerTypeOK
<1>2. ~Caching(t)'
  BY <1>1 DEF Caching
<1>3. QED
  BY <1>1, <1>2, SilentStep

LEMMA RestartSourced ==
  ASSUME SourceInv, Recorded, Restart
  PROVE  SourceInv'
<1>1. \A k \in Keys : ~Cached(k)'
  BY EmptiedCache DEF Restart
<1>2. \A t \in Threads : Told(t)' /\ Owed(t)'
  BY DEF Restart, NoRes, Told, Owed, Caching
<1>3. QED
  BY <1>1, <1>2 DEF SourceInv, Sourced, Recorded

(* Nothing happens to the handlers and the cache.                          *)
LEMMA WakeSourced ==
  ASSUME HandlerInv, SourceInv, Recorded, NEW t \in Threads, WakeSpuriously(t)
  PROVE  SourceInv'
<1>1. UNCHANGED <<shards, db, pc, req, res>>
  BY DEF WakeSpuriously, handlerVars
<1>2. Told(t) /\ Owed(t)
  BY DEF SourceInv
<1>3. ASSUME res[t].is \in {"hit", "miss"} \/ Caching(t)
      PROVE  Row[req[t].key] \in Range(Row)
  <2>1. req[t].method # "none"
    BY <1>3 DEF Caching, HandlerInv, Control, ControlOK
  <2>2. QED
    BY <2>1, Served
<1>4. Told(t)' /\ Owed(t)'
  BY <1>1, <1>2, <1>3 DEF Told, Owed, Caching, Recorded
<1>5. QED
  BY <1>1, <1>4, UntouchedCache, SourceStep

LEMMA SourceInvStep ==
  ASSUME BaseInv, SourceInv, [KVHistoryNext]_<<kvVars, ever>>
  PROVE  SourceInv'
<1>1. CacheInv /\ HandlerInv
  BY BaseParts
<1>2. CASE UNCHANGED <<kvVars, ever>>
  <2>1. UNCHANGED <<shards, db, pc, req, res, ever>>
    BY <1>2 DEF kvVars, handlerVars
  <2>2. QED
    BY <2>1 DEF SourceInv, Told, Owed, Caching, Sourced, Cached, CachedValue, Held
<1>3. CASE KVHistoryNext
  <2>1. KVNext /\ Recorded
    BY <1>3 DEF KVHistoryNext, Recorded
  <2>2. ASSUME NEW t \in Threads, Step(t) PROVE SourceInv'
    BY <1>1, <2>1, <2>2, ProbeSourced, AcquireSourced, SelectRowSourced, InsertRowSourced,
       UpdateRowSourced, DeleteRowSourced, FillSourced, ReleaseSourced, RefreshSourced,
       InvalidateSourced, UnwindSourced, PutFailsSourced, RespondSourced DEF Step
  <2>3. ASSUME NEW t \in Threads, NEW m \in Methods, NEW k \in Keys,
               NEW v \in ArgumentsOf(m), Arrive(t, m, k, v)
        PROVE  SourceInv'
    BY <1>1, <2>1, <2>3, ArriveSourced
  <2>4. ASSUME NEW t \in Threads, BadRequest(t) PROVE SourceInv'
    BY <1>1, <2>1, <2>4, BadRequestSourced
  <2>5. ASSUME NEW t \in Threads, WakeSpuriously(t) PROVE SourceInv'
    BY <1>1, <2>1, <2>5, WakeSourced
  <2>6. CASE Restart
    BY <2>1, <2>6, RestartSourced
  <2>7. ASSUME NEW t \in Threads, ComposeFails(t) PROVE SourceInv'
    BY <1>1, <2>1, <2>7, UnwindSourced
  <2>8. QED
    BY <2>1, <2>2, <2>3, <2>4, <2>5, <2>6, <2>7 DEF KVNext
<1>4. QED
  BY <1>2, <1>3

LEMMA SourcedInitially == KVHistoryInit => SourceInv
<1> SUFFICES ASSUME KVHistoryInit PROVE SourceInv
  OBVIOUS
<1>1. \A k \in Keys : ~Cached(k)
  BY InitiallyEmpty DEF KVHistoryInit, KVInit
<1>2. QED
  BY <1>1 DEF KVHistoryInit, KVInit, NoRes, SourceInv, Told, Owed, Caching, Sourced

LEMMA HistoryIsServer == KVHistorySpec => KVSpec
<1>1. KVHistoryInit => KVInit
  BY DEF KVHistoryInit
<1>2. [KVHistoryNext]_<<kvVars, ever>> => [KVNext]_kvVars
  BY DEF KVHistoryNext
<1>3. QED
  BY <1>1, <1>2, PTL DEF KVHistorySpec, KVSpec

(* What read answers, and what the cache holds, was stored under that key  *)
(* or given to a create that went on: no interleaving of the workers, no   *)
(* failed statement and no restart invents a value.                        *)
THEOREM KVInventsNothing == KVHistorySpec => []NothingInvented
<1>1. SourceInv => NothingInvented
  BY DEF SourceInv, Told, Sourced, NothingInvented
<1>2. KVHistorySpec => []BaseInv
  BY HistoryIsServer, BaseInvariant, PTL
<1>3. QED
  BY <1>1, <1>2, SourcedInitially, SourceInvStep, PTL DEF KVHistorySpec
=============================================================================
