------------------------------- MODULE Lists -------------------------------
(***************************************************************************)
(* Filters of sequences as recursive functions of the position, in which   *)
(* form they can be reasoned about.                                        *)
(***************************************************************************)
EXTENDS Naturals, SequencesExt

(* What is left of the first n elements of s when those outside S go. *)
Filtered(s, S) ==
  LET left[n \in 0..Len(s)] ==
        IF n = 0 THEN <<>>
        ELSE IF s[n] \in S THEN Append(left[n - 1], s[n]) ELSE left[n - 1]
  IN  left

(* The elements of s that are in S, in their order. *)
Keep(s, S) == Filtered(s, S)[Len(s)]

(* s without e, wherever it is. *)
Without(s, e) == Keep(s, ToSet(s) \ {e})
=============================================================================
