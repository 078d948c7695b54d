-------------------------- MODULE MCSlidingWindow --------------------------
(* Instances of SlidingWindow for model checking. *)
EXTENDS SlidingWindow, TLC

Symmetry == Permutations(Waiters)
=============================================================================
