----------------------------- MODULE MCKVServer -----------------------------
(* Instances of KVServer for TLC.                                          *)
EXTENDS KVServer

CONSTANTS a, b   \* keys

MCHash == [k \in Keys |-> 0]                        \* one shard for all
MCRow == [k \in Keys |-> k]                         \* every key has its row
MCFoldedRow == [k \in Keys |-> IF k = b THEN a ELSE k]  \* 'b' is 'a' in another case

ServerSymmetry == Permutations(Threads) \cup Permutations(Values)
=============================================================================
