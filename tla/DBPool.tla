------------------------------- MODULE DBPool -------------------------------
(***************************************************************************)
(* The pool of MySQL connections of include/database.h.  Every critical    *)
(* section of the pool's mutex is one action; cv.wait splits getConnection *)
(* into the section that blocks and the section that tests the queue again.*)
(***************************************************************************)
EXTENDS Naturals, Sequences, FiniteSets

CONSTANTS Threads,   \* the HTTP worker threads that borrow connections
          PoolSize   \* Config::DB_POOL_SIZE

ASSUME PoolAssumption == IsFiniteSet(Threads) /\ PoolSize \in Nat

NoConn == 0          \* a connection is the number of its connect() call

VARIABLES
  connections,       \* std::queue of idle connections, front first
  waiting,           \* threads blocked in cv.wait
  woken,             \* threads whose cv.wait returned, about to test the queue
  held,              \* the local variable con of each thread's handler
  opened,            \* how many connects succeeded in the constructor
  leaked             \* connections dropped by a handler that never released

poolVars == <<connections, waiting, woken, held, opened, leaked>>

(* The constructor: a connect that throws is logged and skipped.           *)
Construct(n) == [i \in 1..n |-> i]

(* How many of the constructor's connects may have succeeded.              *)
Connects == 0 .. PoolSize

PoolInit ==
  /\ opened \in Connects
  /\ connections = Construct(opened)
  /\ waiting = {} /\ woken = {}
  /\ held = [t \in Threads |-> NoConn]
  /\ leaked = 0

(* Mutant: front() without pop().                                          *)
MutantTakeWithoutPop(t) ==
  /\ connections # <<>>
  /\ held' = [held EXCEPT ![t] = Head(connections)]
  /\ woken' = woken \ {t}
  /\ UNCHANGED <<connections, waiting, opened, leaked>>

(* while (connections.empty()) cv.wait(lock), and what follows the loop.   *)
Take(t) ==
  /\ connections # <<>>
  /\ held' = [held EXCEPT ![t] = Head(connections)]
  /\ connections' = Tail(connections)
  /\ woken' = woken \ {t}
  /\ UNCHANGED <<waiting, opened, leaked>>

(* Mutant: while (connections.size() <= 1).                                *)
MutantWaitForTwo(t) ==
  /\ Len(connections) <= 1
  /\ waiting' = waiting \cup {t}
  /\ woken' = woken \ {t}
  /\ UNCHANGED <<connections, held, opened, leaked>>

Wait(t) ==
  /\ connections = <<>>
  /\ waiting' = waiting \cup {t}
  /\ woken' = woken \ {t}
  /\ UNCHANGED <<connections, held, opened, leaked>>

GetConnection(t) ==
  /\ held[t] = NoConn /\ t \notin waiting
  /\ Take(t) \/ Wait(t)

(* std::condition_variable may return from wait without a notification.    *)
SpuriousWakeup(t) ==
  /\ t \in waiting
  /\ waiting' = waiting \ {t}
  /\ woken' = woken \cup {t}
  /\ UNCHANGED <<connections, held, opened, leaked>>

(* cv.notify_one(): some blocked thread is released, if there is one.      *)
MutantNotifyNobody == UNCHANGED <<waiting, woken>>   \* mutant: no notify_one
MutantNotifyIfEmpty ==           \* mutant: notify only when the queue was empty
  IF connections # <<>> \/ waiting = {} THEN UNCHANGED <<waiting, woken>> ELSE
    \E w \in waiting : waiting' = waiting \ {w} /\ woken' = woken \cup {w}

NotifyOne ==
  \/ waiting = {} /\ UNCHANGED <<waiting, woken>>
  \/ \E w \in waiting : waiting' = waiting \ {w} /\ woken' = woken \cup {w}

(* Mutant: the connection used last is lent next.                          *)
MutantReleaseToFront(t) ==
  /\ held[t] # NoConn
  /\ connections' = <<held[t]>> \o connections
  /\ held' = [held EXCEPT ![t] = NoConn]
  /\ NotifyOne
  /\ UNCHANGED <<opened, leaked>>

ReleaseConnection(t) ==
  /\ held[t] # NoConn
  /\ connections' = Append(connections, held[t])
  /\ held' = [held EXCEPT ![t] = NoConn]
  /\ NotifyOne
  /\ UNCHANGED <<opened, leaked>>

(* An exception other than sql::SQLException unwinds a handler past its    *)
(* call of releaseConnection (the raw pointer con is lost).                *)
Abandon(t) ==
  /\ held[t] # NoConn
  /\ held' = [held EXCEPT ![t] = NoConn]
  /\ leaked' = leaked + 1
  /\ UNCHANGED <<connections, waiting, woken, opened>>

(* The process dies and a new one runs the constructor.                    *)
RestartPool ==
  /\ opened' \in Connects
  /\ connections' = Construct(opened')
  /\ waiting' = {} /\ woken' = {}
  /\ held' = [t \in Threads |-> NoConn]
  /\ leaked' = 0

PoolNext ==
  \/ \E t \in Threads : \/ GetConnection(t)
                        \/ SpuriousWakeup(t)
                        \/ ReleaseConnection(t)
                        \/ Abandon(t)
  \/ RestartPool

PoolSpec == PoolInit /\ [][PoolNext]_poolVars

(* A thread whose wait returned runs on, and a handler returns what it     *)
(* borrowed once MySQL has answered.                                       *)
FairPoolSpec ==
  /\ PoolSpec
  /\ \A t \in Threads : /\ WF_poolVars(t \in woken /\ GetConnection(t))
                        /\ WF_poolVars(ReleaseConnection(t))
-----------------------------------------------------------------------------
Holders == {t \in Threads : held[t] # NoConn}

(* The types of the pool's variables.                                      *)
PoolTypeOK ==
  /\ connections \in Seq(1..PoolSize)
  /\ waiting \subseteq Threads /\ woken \subseteq Threads
  /\ held \in [Threads -> 0..PoolSize]
  /\ opened \in 0..PoolSize /\ leaked \in Nat

(* No connection is ever duplicated or dropped silently: the idle, the     *)
(* borrowed and the abandoned ones add up to those that were opened.       *)
ConnectionsConserved ==
  Len(connections) + Cardinality(Holders) + leaked = opened

(* One connection never serves two handlers at once: no connection is held *)
(* twice, queued twice, or queued while held.                              *)
ConnectionsExclusive ==
  /\ \A t, u \in Holders : held[t] = held[u] => t = u
  /\ \A i, j \in DOMAIN connections : connections[i] = connections[j] => i = j
  /\ \A t \in Holders, i \in DOMAIN connections : held[t] # connections[i]

(* No wakeup is lost: while threads are blocked, every idle connection has *)
(* a woken thread on its way to it, however wakeups, spurious wakeups and  *)
(* threads that barge in before a woken one interleave.                    *)
NoLostWakeup == waiting # {} => Len(connections) <= Cardinality(woken)

(* Threads block only when the constructor opened, or the handlers left,   *)
(* fewer connections than there are threads: with the shipped              *)
(* configuration (both 4) and no failure nobody ever waits.                *)
WaitOnlyWhenShort == waiting # {} => opened - leaked < Cardinality(Threads)
=============================================================================
