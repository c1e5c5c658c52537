---------------------------- MODULE MCLRUHistory ----------------------------
(* Instances of LRUHistory and ShardedLRUCache for TLC: keys 0, 2, 4 hash  *)
(* to shard 0 of two, key 1 to shard 1.  The values are interchangeable.   *)
EXTENDS LRUHistory

MCHash == [k \in Keys |-> k]

ValueSymmetry == Permutations(Values)
=============================================================================
