---------------------------- MODULE MCKVHistory ----------------------------
(* Instances of KVHistory for TLC.                                         *)
EXTENDS KVHistory

CONSTANTS a, b   \* keys

MCHash == [k \in Keys |-> 0]   \* one shard for all
MCFoldedRow == [k \in Keys |-> IF k = b THEN a ELSE k]  \* 'b' is 'a' in another case

ServerSymmetry == Permutations(Threads) \cup Permutations(Values)
=============================================================================
