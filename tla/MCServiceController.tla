------------------------- MODULE MCServiceController -------------------------
(* Instances of ServiceController for TLC.  Keys and workers are model       *)
(* values that the specification only compares.                              *)
EXTENDS ServiceController, TLC

Symmetry == Permutations(Key) \cup Permutations(Worker)
=============================================================================
