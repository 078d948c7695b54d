----------------------------- MODULE MCAdaptive -----------------------------
(* Instances of Adaptive for model checking. *)
EXTENDS Adaptive, TLC

(* The tasks are interchangeable. *)
Symmetry == Permutations(Tasks)
=============================================================================
