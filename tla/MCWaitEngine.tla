---------------------------- MODULE MCWaitEngine ----------------------------
(* Instances of WaitEngine for model checking. *)
EXTENDS WaitEngine, TLC

(* The resumers are interchangeable. *)
Symmetry == Permutations(Resumers)
=============================================================================
