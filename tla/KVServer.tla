------------------------------ MODULE KVServer ------------------------------
(***************************************************************************)
(* The request handlers of src/main.cpp over the connection pool, the      *)
(* cache and the MySQL table.  Each worker thread runs one handler at a    *)
(* time; a step is one call that touches shared state: a cache operation,  *)
(* getConnection, a statement, releaseConnection, the response.            *)
(***************************************************************************)
EXTENDS DBPool, ShardedLRUCache

CONSTANTS
  Methods,       \* the routes in use, of {"POST", "GET", "PUT", "DELETE"}
  Faults,        \* what may go wrong, of {"rejected", "reply_lost", "unwound", "restart"}
  EmptyValue,    \* the empty string, whether or not it is in Values
  Row,           \* the primary key MySQL gives each key (its collation folds keys)
  MatchedRows    \* whether executeUpdate counts matched (else only changed) rows

ASSUME ServerAssumption ==
  /\ Methods \subseteq {"POST", "GET", "PUT", "DELETE"}
  /\ Faults \subseteq {"rejected", "reply_lost", "unwound", "restart"}
  /\ Row \in [Keys -> Keys]
  /\ MatchedRows \in BOOLEAN

VARIABLES
  db,        \* the table key_value, by primary key
  pc,        \* where each thread is in its handler
  req,       \* the request it serves
  res,       \* the response it has built
  solo,      \* threads whose request met no conflicting one on its row (ghost)
  suspect    \* keys the cache may answer wrongly, see below (ghost)

handlerVars == <<pc, req, res>>
ghostVars == <<solo, suspect>>
kvVars == <<poolVars, shards, db, handlerVars, ghostVars>>

NoReq == [method |-> "none", key |-> Absent, val |-> Absent]
NoRes == [is |-> "none", val |-> Absent]
Writes == {"POST", "PUT", "DELETE"}

Goto(t, l) == pc' = [pc EXCEPT ![t] = l]
Answer(t, is, v) == res' = [res EXCEPT ![t] = [is |-> is, val |-> v]]
At(t, l, methods) == pc[t] = l /\ req[t].method \in methods

Busy(t) == req[t] # NoReq
SameRow(k) == {j \in Keys : Row[j] = Row[k]}
-----------------------------------------------------------------------------
(* Ghosts.  Two requests conflict if they overlap on a row and one writes, *)
(* or one has met a conflict before.  A conflict, or a failure that leaves *)
(* database and cache apart, makes keys suspect; a request that met no     *)
(* conflict, leaves the two equal and leaves nobody behind on its row      *)
(* clears its key again.                                                   *)

Rivals(t, m, k) ==
  {u \in Threads \ {t} : /\ Busy(u) /\ Row[req[u].key] = Row[k]
                         /\ m \in Writes \/ req[u].method \in Writes \/ u \notin solo}

Meet(t, m, k) ==
  LET rivals == Rivals(t, m, k) IN
  /\ solo' = IF rivals = {} THEN solo \cup {t} ELSE solo \ rivals
  /\ suspect' = IF rivals = {} THEN suspect ELSE suspect \cup SameRow(k)

(* Execution x of t's write leaves its own key apart (the cache is written *)
(* though the table was not, or the reverse), or changes a row which other *)
(* keys of the cache stand for as well.                                    *)
Apart(t, x) ==
  \/ req[t].method = "POST" /\ x.applied # (x.raised # "other")
  \/ req[t].method = "PUT" /\ x.applied /\ x.raised # "nothing"

Mark(t, x) ==
  LET k == req[t].key IN
  /\ solo' = IF Apart(t, x) THEN solo \ {t} ELSE solo
  /\ suspect' = suspect \cup (IF Apart(t, x) THEN {k} ELSE {})
                        \cup (IF x.applied THEN SameRow(k) \ {k} ELSE {})

Heals(t) ==
  /\ \/ res[t].is \in {"created", "updated", "deleted", "miss"}
     \/ req[t].method = "GET" /\ res[t].is = "not_found"
  /\ t \in solo
  /\ \A u \in Threads \ {t} : Busy(u) => Row[req[u].key] # Row[req[t].key]

(* An exception comes between t's write and its update of the cache: what  *)
(* the cache has under that key stays.                                     *)
Outdate(t) ==
  suspect' = IF req[t].method \in Writes /\ Cached(req[t].key)
               THEN suspect \cup {req[t].key} ELSE suspect

Part(t) ==
  /\ solo' = solo \ {t}
  /\ suspect' = IF Heals(t) THEN suspect \ {req[t].key} ELSE suspect
-----------------------------------------------------------------------------
KVInit ==
  /\ PoolInit /\ CacheInit
  /\ db \in [Range(Row) -> Values \cup {Absent}]   \* kept from an earlier run
  /\ pc = [t \in Threads |-> "idle"]
  /\ req = [t \in Threads |-> NoReq]
  /\ res = [t \in Threads |-> NoRes]
  /\ solo = {} /\ suspect = {}

(* httplib calls the route's handler; read asks the cache first, the       *)
(* others ask for a connection.                                            *)
Arrive(t, m, k, v) ==
  /\ pc[t] = "idle"
  /\ req' = [req EXCEPT ![t] = [method |-> m, key |-> k, val |-> v]]
  /\ Goto(t, IF m = "GET" THEN "probe" ELSE "acquire")
  /\ Meet(t, m, k)
  /\ UNCHANGED <<poolVars, shards, db, res>>

(* A parameter is missing: status 400, nothing is touched.  Nor is it when *)
(* the copy of a parameter throws.                                         *)
BadRequest(t) ==
  /\ pc[t] = "idle"
  /\ \/ Answer(t, "bad_request", Absent)
     \/ "unwound" \in Faults /\ Answer(t, "error", Absent)
  /\ Goto(t, "respond")
  /\ UNCHANGED <<poolVars, shards, db, req, ghostVars>>

Probe(t) ==
  LET k == req[t].key IN
  /\ At(t, "probe", {"GET"})
  /\ CacheGet(k)
  /\ IF Cached(k) THEN Answer(t, "hit", CachedValue(k)) /\ Goto(t, "respond")
                  ELSE UNCHANGED res /\ Goto(t, "acquire")
  /\ UNCHANGED <<poolVars, db, req, ghostVars>>

Acquire(t) ==
  /\ pc[t] = "acquire"
  /\ GetConnection(t)
  /\ Goto(t, IF held'[t] # NoConn THEN "sql" ELSE "acquire")
  /\ UNCHANGED <<shards, db, req, res, ghostVars>>

WakeSpuriously(t) ==
  /\ SpuriousWakeup(t)
  /\ UNCHANGED <<shards, db, handlerVars, ghostVars>>

(* How a prepared statement may end: whether MySQL applied it, and whether *)
(* an sql::SQLException or another exception comes back instead of a result. *)
Executions ==
  {x \in [applied : BOOLEAN, raised : {"nothing", "SQLException", "other"}] :
     \/ x.raised = "nothing" /\ x.applied
     \/ /\ x.raised = "SQLException"
        /\ (IF x.applied THEN "reply_lost" ELSE "rejected") \in Faults
     \/ x.raised = "other" /\ "unwound" \in Faults}

(* An exception that is not an sql::SQLException leaves the handler.       *)
AfterSql(t, x, label) == Goto(t, IF x.raised = "other" THEN "unwind" ELSE label)

(* Mutant: the 404 branch returns without releasing the connection.        *)
MutantReturnHolding(t) ==
  /\ At(t, "sql", {"GET"})
  /\ IF db[Row[req[t].key]] # Absent
       THEN Answer(t, "miss", db[Row[req[t].key]]) /\ Goto(t, "fill")
       ELSE Answer(t, "not_found", Absent) /\ Goto(t, "respond")
  /\ UNCHANGED <<poolVars, shards, db, req, ghostVars>>

SelectRow(t) ==
  LET v == db[Row[req[t].key]] IN
  /\ At(t, "sql", {"GET"})
  /\ \E x \in Executions :
       \/ /\ x.raised # "nothing"
          /\ Answer(t, "error", Absent) /\ AfterSql(t, x, "release")
       \/ /\ x.raised = "nothing" /\ v # Absent
          /\ Answer(t, "miss", v) /\ Goto(t, "fill")
       \/ /\ x.raised = "nothing" /\ v = Absent
          /\ Answer(t, "not_found", Absent) /\ Goto(t, "release")
  /\ UNCHANGED <<poolVars, shards, db, req, ghostVars>>

(* exec_sql binds the second parameter only if v is not empty, and an      *)
(* unbound parameter makes executeUpdate throw.                            *)
InsertRow(t) ==
  LET v == req[t].val
      possible == IF v = EmptyValue
                    THEN {[applied |-> FALSE, raised |-> "SQLException"]}
                    ELSE Executions
  IN
  /\ At(t, "sql", {"POST"})
  /\ \E x \in possible :
       /\ db' = IF x.applied THEN [db EXCEPT ![Row[req[t].key]] = v] ELSE db
       /\ AfterSql(t, x, "release")
       /\ Mark(t, x)
  /\ UNCHANGED <<poolVars, shards, req, res>>

RowsAffected(old, v) == IF old # Absent /\ (MatchedRows \/ old # v) THEN 1 ELSE 0

UpdateRow(t) ==
  LET r == Row[req[t].key]
      v == req[t].val
  IN
  /\ At(t, "sql", {"PUT"})
  /\ \E x \in Executions :
       /\ db' = IF x.applied /\ db[r] # Absent THEN [db EXCEPT ![r] = v] ELSE db
       /\ LET rows == IF x.raised = "nothing" THEN RowsAffected(db[r], v) ELSE 0
          IN  Answer(t, IF rows > 0 THEN "updated" ELSE "not_found", Absent)
       /\ AfterSql(t, x, "release")
       /\ Mark(t, x)
  /\ UNCHANGED <<poolVars, shards, req>>

(* catch (...) {}: whatever happened is forgotten.                         *)
DeleteRow(t) ==
  /\ At(t, "sql", {"DELETE"})
  /\ \E x \in Executions :
       /\ db' = IF x.applied THEN [db EXCEPT ![Row[req[t].key]] = Absent] ELSE db
       /\ Mark(t, x)
  /\ Goto(t, "release")
  /\ UNCHANGED <<poolVars, shards, req, res>>

(* cache->put of the row just read, while the connection is still held.    *)
Fill(t) ==
  /\ At(t, "fill", {"GET"})
  /\ CachePut(req[t].key, res[t].val)
  /\ Goto(t, "release")
  /\ UNCHANGED <<poolVars, db, req, res, ghostVars>>

(* What is left to do once the connection is back.                         *)
MutantRefreshAlways(t) ==   \* mutant: update ignores rows_affected
  CASE req[t].method \in {"POST", "PUT"} -> "refresh"
    [] req[t].method = "DELETE" -> "invalidate"
    [] OTHER -> "respond"

AfterRelease(t) ==
  CASE req[t].method = "POST" \/ res[t].is = "updated" -> "refresh"
    [] req[t].method = "DELETE" -> "invalidate"
    [] OTHER -> "respond"

Release(t) ==
  /\ pc[t] = "release"
  /\ ReleaseConnection(t)
  /\ Goto(t, AfterRelease(t))
  /\ UNCHANGED <<shards, db, req, res, ghostVars>>

(* cache->put(k, v) after the connection went back.                        *)
Refresh(t) ==
  /\ At(t, "refresh", {"POST", "PUT"})
  /\ CachePut(req[t].key, req[t].val)
  /\ IF req[t].method = "POST" THEN Answer(t, "created", Absent) ELSE UNCHANGED res
  /\ Goto(t, "respond")
  /\ UNCHANGED <<poolVars, db, req, ghostVars>>

(* Mutant: delete leaves the cached pair.                                  *)
MutantKeepCached(t) ==
  /\ At(t, "invalidate", {"DELETE"})
  /\ Answer(t, "deleted", Absent)
  /\ Goto(t, "respond")
  /\ UNCHANGED <<poolVars, shards, db, req, ghostVars>>

Invalidate(t) ==
  /\ At(t, "invalidate", {"DELETE"})
  /\ CacheRemove(req[t].key)
  /\ Answer(t, "deleted", Absent)
  /\ Goto(t, "respond")
  /\ UNCHANGED <<poolVars, db, req, ghostVars>>

(* An exception leaves the handler and httplib answers 500.  One of the    *)
(* statement passes releaseConnection by.                                  *)
Fail(t) == Answer(t, "error", Absent) /\ Goto(t, "respond")

Unwind(t) ==
  /\ pc[t] = "unwind"
  /\ Abandon(t)
  /\ Fail(t)
  /\ UNCHANGED <<shards, db, req, ghostVars>>

(* So does one of the put of the row just read.                            *)
FillFails(t) ==
  /\ "unwound" \in Faults /\ pc[t] = "fill"
  /\ CachePutFails(req[t].key)
  /\ Abandon(t)
  /\ Fail(t)
  /\ UNCHANGED <<db, req, ghostVars>>

(* So does one of making up the answer to a read, or of the queue's push   *)
(* in releaseConnection itself.                                            *)
ReleaseFails(t) ==
  /\ "unwound" \in Faults /\ pc[t] = "release"
  /\ Abandon(t)
  /\ Fail(t)
  /\ Outdate(t)
  /\ UNCHANGED <<shards, db, req, solo>>

(* The put after a write's statement throws std::bad_alloc.                *)
RefreshFails(t) ==
  /\ "unwound" \in Faults /\ pc[t] = "refresh"
  /\ CachePutFails(req[t].key)
  /\ Fail(t)
  /\ Outdate(t)
  /\ UNCHANGED <<poolVars, db, req, solo>>

(* The value of a hit cannot be copied, or the answer, to a read or to a   *)
(* write, cannot be made up any more: 500, all else being done.            *)
ComposeFails(t) ==
  /\ "unwound" \in Faults
  /\ pc[t] = "respond"
  /\ res[t].is \in {"hit", "created", "updated", "deleted"} \/ At(t, "respond", {"PUT"})
  /\ res[t].is # "error"
  /\ Answer(t, "error", Absent)
  /\ UNCHANGED <<poolVars, shards, db, pc, req, ghostVars>>

(* The response leaves and the worker takes its next request.              *)
Respond(t) ==
  /\ pc[t] = "respond"
  /\ Goto(t, "idle")
  /\ req' = [req EXCEPT ![t] = NoReq]
  /\ res' = [res EXCEPT ![t] = NoRes]
  /\ Part(t)
  /\ UNCHANGED <<poolVars, shards, db>>

(* The server process dies and starts again; only the table survives.      *)
Restart ==
  /\ "restart" \in Faults
  /\ RestartPool
  /\ shards' = EmptyShards
  /\ pc' = [t \in Threads |-> "idle"]
  /\ req' = [t \in Threads |-> NoReq]
  /\ res' = [t \in Threads |-> NoRes]
  /\ solo' = {} /\ suspect' = {}
  /\ UNCHANGED db

Step(t) ==
  \/ Probe(t) \/ Acquire(t)
  \/ SelectRow(t) \/ InsertRow(t) \/ UpdateRow(t) \/ DeleteRow(t)
  \/ Fill(t) \/ Release(t) \/ Refresh(t) \/ Invalidate(t)
  \/ Unwind(t) \/ FillFails(t) \/ ReleaseFails(t) \/ RefreshFails(t)
  \/ Respond(t)

ArgumentsOf(m) == IF m \in {"POST", "PUT"} THEN Values ELSE {Absent}

KVNext ==
  \/ \E t \in Threads :
       \/ \E m \in Methods, k \in Keys : \E v \in ArgumentsOf(m) : Arrive(t, m, k, v)
       \/ BadRequest(t) \/ WakeSpuriously(t) \/ ComposeFails(t) \/ Step(t)
  \/ Restart

KVSpec == KVInit /\ [][KVNext]_kvVars

(* Every worker thread that can run does run.                              *)
FairKVSpec == KVSpec /\ \A t \in Threads : WF_kvVars(Step(t))
-----------------------------------------------------------------------------
Labels == {"idle", "probe", "acquire", "sql", "fill", "release", "unwind",
           "refresh", "invalidate", "respond"}

KVTypeOK ==
  /\ PoolTypeOK /\ CacheTypeOK
  /\ db \in [Range(Row) -> Values \cup {Absent}]
  /\ pc \in [Threads -> Labels]
  /\ req \in [Threads -> [method : Methods, key : Keys, val : Values \cup {Absent}]
                         \cup {NoReq}]
  /\ res \in [Threads -> [is : {"none", "hit", "miss", "not_found", "error",
                                "created", "updated", "deleted", "bad_request"},
                          val : Values \cup {Absent}]]
  /\ solo \subseteq Threads /\ suspect \subseteq Keys

(* Whatever requests on other rows do, and whatever was evicted, the cache *)
(* agrees with the database on every key that no conflict and no failure   *)
(* made suspect, except between a write's statement and its cache update.  *)
CoherentUnlessSuspect ==
  \A k \in Keys \ suspect :
    Cached(k) => \/ CachedValue(k) = db[Row[k]]
                 \/ \E t \in Threads : /\ req[t].method \in Writes /\ req[t].key = k
                                       /\ pc[t] \in {"release", "refresh", "invalidate"}

(* A read that met no write on its row answers the database's value, be it *)
(* a hit or a miss, unless its key was left suspect before.                *)
SoloReadIsCurrent ==
  \A t \in solo :
    /\ pc[t] = "respond" /\ req[t].method = "GET" /\ req[t].key \notin suspect
    /\ res[t].is # "error"
    => res[t].val = db[Row[req[t].key]]

(* A handler owns a connection exactly from getConnection to its return:   *)
(* no path, erroneous or not, answers while it still holds one.            *)
HoldsOnlyForQuery ==
  \A t \in Threads :
    /\ held[t] # NoConn <=> pc[t] \in {"sql", "fill", "release", "unwind"}
    /\ t \in waiting \cup woken => pc[t] = "acquire"

Left == opened - leaked

(* As long as a connection is left for every worker every request is       *)
(* answered, whatever statements fail and how often the process dies; only *)
(* an exception that passes releaseConnection by ends the promise.         *)
EveryRequestAnswered ==
  \A t \in Threads :
    (pc[t] # "idle" /\ Left >= Cardinality(Threads))
      ~> (pc[t] = "idle" \/ Left < Cardinality(Threads))

(* With a single connection left the pool still never blocks everybody:    *)
(* while requests are in their handlers, one of them is answered.          *)
SomebodyAnswered ==
  (Left > 0 /\ \E t \in Threads : pc[t] # "idle")
    ~> (Left = 0 \/ (\E t \in Threads : pc[t] = "respond") \/ \A t \in Threads : pc[t] = "idle")
-----------------------------------------------------------------------------
(* What the documentation says of the server, which the runs that use      *)
(* these definitions refute.                                               *)

Quiescent == \A t \in Threads : pc[t] = "idle"

(* Readme.md on delete: the cached pair is deleted as well, to prevent     *)
(* inconsistent data.                                                      *)
DeletedIsNotCached ==
  Quiescent => \A k \in Keys : Cached(k) => db[Row[k]] # Absent

(* Readme.md on create: the pair is stored in the cache and the database.  *)
CreatedIsStored ==
  \A t \in Threads :
    pc[t] = "respond" /\ res[t].is = "created" => db[Row[req[t].key]] = req[t].val
=============================================================================
