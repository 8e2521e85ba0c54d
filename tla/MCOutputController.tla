------------------------- MODULE MCOutputController -------------------------
(* Model-checking instance of OutputController. *)
EXTENDS OutputController, TLC

Symmetry == Permutations(Outputs) \cup Permutations(Threads) \cup Permutations(Encoders)
=============================================================================
