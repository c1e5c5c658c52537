------------------------------ MODULE MCDBPool ------------------------------
(* Instances of DBPoolRotation for TLC.                                    *)
EXTENDS DBPoolRotation, TLC

ThreadSymmetry == Permutations(Threads)
=============================================================================
