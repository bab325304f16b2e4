------------------------------- MODULE MCApi -------------------------------
(* Small instances of Api for TLC. *)
EXTENDS Api, TLC

\* Handles are interchangeable: nothing orders or names them.
HandleSymmetry == Permutations(Wsi)
=============================================================================
