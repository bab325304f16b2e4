---------------------------- MODULE MCBlockPool ----------------------------
(* Small instances of BlockPool for TLC. *)
EXTENDS BlockPool, TLC

ThreadSymmetry == Permutations(Thread)
=============================================================================
