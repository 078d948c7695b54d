----------------------------- MODULE Semaphore -----------------------------
(***************************************************************************)
(* What a fixed concurrency limit promises its callers: a set of slot      *)
(* owners that never outgrows the limit, where a slot is taken and given   *)
(* back by one caller at a time.  Bulkhead implements this specification.  *)
(***************************************************************************)
EXTENDS Naturals, FiniteSets

CONSTANTS Tasks,    \* the callers
          Limit     \* how many of them may own a slot at once

VARIABLE owners     \* the callers that own a slot

Init == owners = {}

Take(t) ==
  /\ t \notin owners
  /\ Cardinality(owners) < Limit
  /\ owners' = owners \cup {t}

GiveBack(t) ==
  /\ t \in owners
  /\ owners' = owners \ {t}

Next == \E t \in Tasks : Take(t) \/ GiveBack(t)

Spec == Init /\ [][Next]_owners
=============================================================================
