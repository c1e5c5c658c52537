----------------------------- MODULE LRUHistory -----------------------------
(***************************************************************************)
(* ShardedLRUCache with a record of its past, to say what "least recently  *)
(* used" means from the outside.                                           *)
(***************************************************************************)
EXTENDS ShardedLRUCache

VARIABLES recent,   \* the keys put or found so far, last use first
          live,     \* the keys put and not removed since
          last,     \* the last operation, its key, and its argument or answer
          failed    \* whether a put has thrown std::bad_alloc

historyVars == <<shards, recent, live, last, failed>>

Rank(k) == CHOOSE i \in DOMAIN recent : recent[i] = k

Used(k) ==
  recent' = Cons(k, IF k \in ToSet(recent) THEN RemoveAt(recent, Rank(k)) ELSE recent)

Answer(k) == IF Cached(k) THEN CachedValue(k) ELSE Absent

Get(k) ==
  /\ CacheGet(k)
  /\ IF Cached(k) THEN Used(k) ELSE UNCHANGED recent
  /\ last' = <<"get", k, Answer(k)>>
  /\ UNCHANGED <<live, failed>>

Put(k, v) ==
  /\ CachePut(k, v)
  /\ Used(k)
  /\ live' = live \cup {k}
  /\ last' = <<"put", k, v>>
  /\ UNCHANGED failed

PutFails(k) ==
  /\ CachePutFails(k)
  /\ last' = <<"put", k, Absent>>
  /\ failed' = TRUE
  /\ UNCHANGED <<recent, live>>

Delete(k) ==
  /\ CacheRemove(k)
  /\ live' = live \ {k}
  /\ last' = <<"remove", k, Absent>>
  /\ UNCHANGED <<recent, failed>>

HistoryInit ==
  CacheInit /\ recent = <<>> /\ live = {} /\ last = <<>> /\ failed = FALSE

HistoryNext ==
  \E k \in Keys : \/ Get(k)
                  \/ \E v \in Values : Put(k, v)
                  \/ PutFails(k)
                  \/ Delete(k)

HistorySpec == HistoryInit /\ [][HistoryNext]_historyVars
-----------------------------------------------------------------------------
UsedSince(k) ==
  {j \in ToSet(recent) : ShardIndex(j) = ShardIndex(k) /\ Rank(j) < Rank(k)}

(* The entries a shard can find are listed by last use, whatever mix of    *)
(* hits, updates, insertions, evictions, removals and failed puts built    *)
(* the list.                                                               *)
OrderIsRecency ==
  \A s \in Shards : \A i, j \in DOMAIN shards[s] :
    i < j /\ Findable(shards[s], i) /\ Findable(shards[s], j)
      => Rank(shards[s][i].key) < Rank(shards[s][j].key)

(* An entry that was put and not removed is gone only if a shard's worth   *)
(* of other keys of its own shard have been used since its last use.  A    *)
(* put that failed ends this: the node it left takes room, and erases the  *)
(* index entry of its key when it is evicted.                              *)
LostOnlyWhenCrowded ==
  failed \/ \A k \in live : Cached(k) \/ Cardinality(UsedSince(k)) >= CapPerShard

(* The cache is a lossy map: get answers the value put last, a put is      *)
(* visible at once and evicts at most one other key, and only for a key    *)
(* that is new; a put that throws changes nothing but that eviction.       *)
Abstract == INSTANCE LossyMap WITH map <- [k \in Keys |-> Answer(k)]
ImplementsLossyMap == Abstract!LossySpec
=============================================================================
