--------------------------- MODULE MCProducerHash ---------------------------
(* Small instances of ProducerHash for TLC. *)
EXTENDS ProducerHash, TLC

CONSTANTS t1, t2, t3

\* Two threads collide and a third one is displaced.
Clustered == t1 :> 3 @@ t2 :> 3 @@ t3 :> 0

ThreadSymmetry == Permutations(Thread)
=============================================================================
