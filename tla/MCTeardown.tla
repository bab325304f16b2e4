----------------------------- MODULE MCTeardown -----------------------------
(* Small instances of Teardown for TLC. *)
EXTENDS Teardown, TLC

QueueSymmetry == Permutations(Consumer) \cup Permutations(Block)
=============================================================================
