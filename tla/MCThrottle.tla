----------------------------- MODULE MCThrottle -----------------------------
(* Instances of Throttle for model checking. *)
EXTENDS Throttle, TLC

(* The waiters are interchangeable. *)
Symmetry == Permutations(Waiters)
=============================================================================
