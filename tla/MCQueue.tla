------------------------------ MODULE MCQueue ------------------------------
(* Instances of Queue for model checking. *)
EXTENDS Queue, TLC

With(overflow, prios, deadlines, backstop, prune_at) ==
  [overflow |-> overflow, prios |-> prios, deadlines |-> deadlines, backstop |-> backstop,
   prune_at |-> prune_at]

(* Every way to end a call but a deadline, and a queue that evicts the     *)
(* weakest; deadlines (which need not pass), timers and a queue that       *)
(* evicts the oldest.                                                      *)
Safety == {With("DropLowestPriority", {0, 1}, {FALSE}, FALSE, 2),
           With("DropOldest", {0}, {TRUE}, TRUE, 1)}

(* One priority, idle keys that are soon forgotten, and nothing but        *)
(* wake-ups to count on.                                                   *)
Served == {With("Reject", {0}, {FALSE}, FALSE, 1)}

(* Deadlines, and nothing but wake-ups to count on. *)
NoBackstop == {With("Reject", {0}, {TRUE}, FALSE, 1)}

(* The tasks are interchangeable, and so are the keys. *)
Symmetry == Permutations(Callers) \cup Permutations(Keys)
=============================================================================
