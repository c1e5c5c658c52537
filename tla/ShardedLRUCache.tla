-------------------------- MODULE ShardedLRUCache --------------------------
(***************************************************************************)
(* The sharded LRU cache of include/cache.h.  A shard's mutex makes each   *)
(* operation on it one step (LRUCacheShard.tla looks inside that step), so *)
(* a shard is its list of entries, most recently used first.               *)
(***************************************************************************)
EXTENDS SequencesExt

CONSTANTS Keys, Values,
          Absent,          \* no value: get returned false
          TotalCapacity,   \* Config::CACHE_CAPACITY_TOTAL
          NumShards,       \* Config::CACHE_SHARDS
          Hash             \* std::hash<std::string>, a number for each key

ASSUME CacheAssumption ==
  /\ TotalCapacity \in Nat
  /\ NumShards \in Nat \ {0}
  /\ Hash \in [Keys -> Nat]
  /\ Absent \notin Values

VARIABLE shards

Shards == 0 .. NumShards - 1
ShardIndex(k) == Hash[k] % NumShards
CapPerShard == IF TotalCapacity \div NumShards < 1
                 THEN 1 ELSE TotalCapacity \div NumShards

(* A node of the list whose value is Absent is one the index has no entry  *)
(* for: it takes room, cannot be found and leaves by eviction only.        *)
Entry == [key : Keys, val : Values \cup {Absent}]
EmptyShards == [i \in Shards |-> <<>>]
-----------------------------------------------------------------------------
(* One shard s, an element of Seq(Entry).                                  *)

Findable(s, i) == s[i].val # Absent
Has(s, k) == \E i \in DOMAIN s : Findable(s, i) /\ s[i].key = k
Position(s, k) == CHOOSE i \in DOMAIN s : Findable(s, i) /\ s[i].key = k
ValueIn(s, k) == s[Position(s, k)].val

Without(s, k) == RemoveAt(s, Position(s, k))

Promoted(s, k) == Cons(s[Position(s, k)], Without(s, k))

(* Mutants: evict one entry too late; evict the most recently used.        *)
MutantRoomTooLate(s) == IF Len(s) > CapPerShard THEN Front(s) ELSE s
MutantRoomAtFront(s) == IF Len(s) >= CapPerShard THEN Tail(s) ELSE s

(* The index entry of key k is erased.                                     *)
Unindexed(s, k) ==
  [i \in DOMAIN s |-> IF s[i].key = k THEN [key |-> k, val |-> Absent] ELSE s[i]]

(* cacheMap.erase(last->first), which may be the entry of a newer node of  *)
(* the same key, and items.pop_back().                                     *)
WithRoom(s) ==
  IF Len(s) >= CapPerShard THEN Unindexed(Front(s), Last(s).key) ELSE s

(* Mutant: a put of a present key moves the node but keeps the old value.  *)
MutantStoredOldValue(s, k, v) ==
  IF Has(s, k) THEN Promoted(s, k) ELSE Cons([key |-> k, val |-> v], WithRoom(s))

Stored(s, k, v) ==
  Cons([key |-> k, val |-> v], IF Has(s, k) THEN Without(s, k) ELSE WithRoom(s))

(* std::bad_alloc leaves put: as the value of a found node is assigned; as *)
(* the new node is made, after the eviction; or as the index entry of the  *)
(* new node is made, with the node in the list.                            *)
StoreFailures(s, k) ==
  IF Has(s, k) THEN {s}
               ELSE {WithRoom(s), Cons([key |-> k, val |-> Absent], WithRoom(s))}

Removed(s, k) == IF Has(s, k) THEN Without(s, k) ELSE s
-----------------------------------------------------------------------------
(* The whole cache.                                                        *)

Cached(k) == Has(shards[ShardIndex(k)], k)
CachedValue(k) == ValueIn(shards[ShardIndex(k)], k)

(* Mutant: a hit does not move the entry to the front.                     *)
MutantGetInPlace(k) == UNCHANGED shards

CacheGet(k) ==
  \/ /\ Cached(k)
     /\ shards' = [shards EXCEPT ![ShardIndex(k)] = Promoted(@, k)]
  \/ ~Cached(k) /\ UNCHANGED shards

CachePut(k, v) == shards' = [shards EXCEPT ![ShardIndex(k)] = Stored(@, k, v)]

CachePutFails(k) ==
  \E s \in StoreFailures(shards[ShardIndex(k)], k) :
    shards' = [shards EXCEPT ![ShardIndex(k)] = s]

CacheRemove(k) == shards' = [shards EXCEPT ![ShardIndex(k)] = Removed(@, k)]

CacheInit == shards = EmptyShards

CacheNext ==
  \E k \in Keys : \/ CacheGet(k)
                  \/ \E v \in Values : CachePut(k, v)
                  \/ CacheRemove(k)

CacheSpec == CacheInit /\ [][CacheNext]_shards

(* The same with allocations that fail.                                    *)
FailingCacheNext == CacheNext \/ \E k \in Keys : CachePutFails(k)
FailingCacheSpec == CacheInit /\ [][FailingCacheNext]_shards
-----------------------------------------------------------------------------
CacheTypeOK == shards \in [Shards -> Seq(Entry)]

(* The index is a function of the key: every entry is in the one shard its *)
(* key hashes to, a key is found in one place at most, and no shard        *)
(* outgrows its capacity.                                                  *)
ShardsWellFormed ==
  \A s \in Shards :
    /\ Len(shards[s]) <= CapPerShard
    /\ \A i \in DOMAIN shards[s] : ShardIndex(shards[s][i].key) = s
    /\ \A i, j \in DOMAIN shards[s] :
         /\ Findable(shards[s], i) /\ Findable(shards[s], j)
         /\ shards[s][i].key = shards[s][j].key
         => i = j
=============================================================================
