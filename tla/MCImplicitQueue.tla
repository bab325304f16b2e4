-------------------------- MODULE MCImplicitQueue --------------------------
(* Small instances of ImplicitQueue for TLC. *)
EXTENDS ImplicitQueue, TLC

QueueSymmetry == Permutations(Consumer) \cup Permutations(Block)
=============================================================================
