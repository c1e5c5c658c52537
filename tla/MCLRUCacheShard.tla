-------------------------- MODULE MCLRUCacheShard --------------------------
(* Instances of LRUCacheShard for TLC.                                     *)
EXTENDS LRUCacheShard

ShardSymmetry ==
  Permutations(Threads) \cup Permutations(Keys) \cup Permutations(Values)
=============================================================================
