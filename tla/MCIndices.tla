----------------------------- MODULE MCIndices -----------------------------
(* TLC instances of Indices.                                               *)
EXTENDS Indices, TLC

ConsumerSymmetry == Permutations(Consumer)
=============================================================================
