-------------------------- MODULE MCCircuitBreaker --------------------------
(* Instances of CircuitBreaker for model checking. *)
EXTENDS CircuitBreaker, TLC

TripAfterTwo == [kind |-> "consecutive", n |-> 2, window |-> 1, num |-> 1, den |-> 1,
                 minCalls |-> 0, period |-> 0]
TripOnHalf == [kind |-> "ratio", n |-> 1, window |-> 3, num |-> 1, den |-> 2,
               minCalls |-> 2, period |-> 0]
TripOnRecent == [kind |-> "windowed", n |-> 2, window |-> 1, num |-> 1, den |-> 1,
                 minCalls |-> 0, period |-> 1]

With(trip, trials, required) == [trip |-> trip, trials |-> trials, required |-> required]

(* Every kind of trip, with one trial and with two. *)
EveryTrip ==
  {With(TripAfterTwo, 2, 2), With(TripOnHalf, 2, 1), With(TripOnRecent, 1, 1)}
OneTrip == {With(TripAfterTwo, 2, 2)}

(* The callers are interchangeable. *)
Symmetry == Permutations(Callers)
=============================================================================
