-------------------------------- MODULE Tower --------------------------------
(***************************************************************************)
(* The layers of src/tower.rs: a Throttled service around one with a       *)
(* permit (Guarded, around a circuit breaker, or Adaptive, around an       *)
(* adaptive limiter; what they do with the permit is the same), around any *)
(* service.  Each layer keeps an Admission for its next call.              *)
(*                                                                         *)
(* The limiter is a bucket of Capacity units that fills again in time; the *)
(* permits are a pool (how breakers and adaptive limiters hand them out is *)
(* CircuitBreaker's and Adaptive's subject).  A wait may end with a        *)
(* refusal at any time: a deadline, an open breaker, a cost beyond the     *)
(* capacity.  A poll is taken apart into its steps, which other handles'   *)
(* steps may come between.                                                 *)
(***************************************************************************)
EXTENDS Integers, FiniteSets

CONSTANTS
  Handles,    \* services, and the responses of their calls
  Capacity,   \* of the limiter
  Cost,       \* units per call
  Permits,    \* the breaker's trials, or the adaptive limiter's slots
  MaxCalls    \* bound on the calls of a user's handle

ASSUME TowerAssumption ==
  /\ IsFiniteSet(Handles)
  /\ Capacity \in Nat /\ Cost \in Nat \ {0} /\ Permits \in Nat /\ MaxCalls \in Nat

VARIABLES
  svc,     \* each handle: whether it exists, its admissions, its response
  level,   \* units in the limiter
  slots,   \* permits in the pool
  tally    \* units charged, calls sent, calls made unready, outcomes recorded

towerVars == <<svc, level, slots, tally>>

Admission == {"idle", "acquiring", "held"}

(* layer() and clone() give a service without an admission. *)
Fresh == [on |-> TRUE, outer |-> "idle", inner |-> "idle", response |-> "none"]
Gone == [Fresh EXCEPT !.on = FALSE]

OuterHeld == {h \in Handles : svc[h].outer = "held"}
InnerHeld == {h \in Handles : svc[h].inner = "held"}
InFlight == {h \in Handles : svc[h].response # "none"}

TowerInit ==
  /\ svc = [h \in Handles |-> Gone]
  /\ level = Capacity
  /\ slots = Permits
  /\ tally = [charged |-> 0, sent |-> 0, unready |-> 0, outcomes |-> 0]

Lesser(a, b) == IF a < b THEN a ELSE b
-----------------------------------------------------------------------------
(* poll_ready, layer by layer.                                             *)

(* poll_acquire starts an acquisition; wait, of the throttle layer. *)
StartOuter(h) ==
  /\ svc[h].on /\ svc[h].outer = "idle"
  /\ svc' = [svc EXCEPT ![h].outer = "acquiring"]
  /\ UNCHANGED <<level, slots, tally>>

GrantOuter(h) ==
  /\ svc[h].outer = "acquiring" /\ level >= Cost
  /\ svc' = [svc EXCEPT ![h].outer = "held"]
  /\ level' = level - Cost
  /\ tally' = [tally EXCEPT !.charged = @ + Cost]
  /\ UNCHANGED slots

(* The acquisition fails: poll_ready reports it, and another may start. *)
RefuseOuter(h) ==
  /\ svc[h].outer = "acquiring"
  /\ svc' = [svc EXCEPT ![h].outer = "idle"]
  /\ UNCHANGED <<level, slots, tally>>

(* The inner service is polled once the units are held. *)
StartInner(h) ==
  /\ svc[h].outer = "held" /\ svc[h].inner = "idle"
  /\ svc' = [svc EXCEPT ![h].inner = "acquiring"]
  /\ UNCHANGED <<level, slots, tally>>

GrantInner(h) ==
  /\ svc[h].outer = "held" /\ svc[h].inner = "acquiring" /\ slots > 0
  /\ svc' = [svc EXCEPT ![h].inner = "held"]
  /\ slots' = slots - 1
  /\ UNCHANGED <<level, tally>>

RefuseInner(h) ==
  /\ svc[h].outer = "held" /\ svc[h].inner = "acquiring"
  /\ svc' = [svc EXCEPT ![h].inner = "idle"]
  /\ UNCHANGED <<level, slots, tally>>

Poll(h) ==
  \/ StartOuter(h) \/ GrantOuter(h) \/ RefuseOuter(h)
  \/ StartInner(h) \/ GrantInner(h) \/ RefuseInner(h)
-----------------------------------------------------------------------------
(* call on a ready service: the units are spent, and the response takes    *)
(* the permit along.  One response per handle at a time.                   *)
Call(h) ==
  /\ svc[h].outer = "held" /\ svc[h].inner = "held" /\ svc[h].response = "none"
  /\ svc' = [svc EXCEPT ![h].outer = "idle", ![h].inner = "idle", ![h].response = "pending"]
  /\ tally' = [tally EXCEPT !.sent = @ + 1]
  /\ UNCHANGED <<level, slots>>

(* call on a service whose inner layer is not ready: NotReady, from the    *)
(* inner layer; the outer one has let go of its units by then.  Without    *)
(* units held nothing happens.                                             *)
CallUnready(h) ==
  /\ svc[h].outer = "held" /\ svc[h].inner # "held"
  /\ svc' = [svc EXCEPT ![h].outer = "idle"]
  /\ tally' = [tally EXCEPT !.unready = @ + 1]
  /\ UNCHANGED <<level, slots>>

(* The downstream answers; nobody has polled for it yet. *)
Answer(h) ==
  /\ svc[h].response = "pending"
  /\ \E r \in {"ok", "err"} : svc' = [svc EXCEPT ![h].response = r]
  /\ UNCHANGED <<level, slots, tally>>

(* The services hs are dropped: their units are refunded (to a bucket that *)
(* may have filled meanwhile) and their permits cancelled without an       *)
(* outcome.  The responses rs are polled to the end or dropped: success,   *)
(* failure, or failure because nobody settled them.                        *)
Drop(hs, rs) ==
  LET units == Cost * Cardinality(OuterHeld \cap hs)
      ended == Cardinality(InFlight \cap rs)
  IN  /\ svc' = [h \in Handles |-> [(IF h \in hs THEN Gone ELSE svc[h]) EXCEPT
                     !.response = IF h \in rs THEN "none" ELSE svc[h].response]]
      /\ level' = Lesser(Capacity, level + units)
      /\ slots' = slots + ended + Cardinality(InnerHeld \cap hs)
      /\ tally' = [tally EXCEPT !.charged = @ - units, !.outcomes = @ + ended]

(* Mutant: a clone copies the admissions. *)
CloneHeld(h, g) ==
  /\ svc[h].on /\ svc[g] = Gone
  /\ svc' = [svc EXCEPT ![g] = [svc[h] EXCEPT !.response = "none"]]
  /\ UNCHANGED <<level, slots, tally>>

Clone(h, g) ==
  /\ svc[h].on /\ svc[g] = Gone
  /\ svc' = [svc EXCEPT ![g] = Fresh]
  /\ UNCHANGED <<level, slots, tally>>

(* Layer::layer: another service over the same limiter and permits. *)
Layer(h) ==
  /\ svc[h] = Gone
  /\ svc' = [svc EXCEPT ![h] = Fresh]
  /\ UNCHANGED <<level, slots, tally>>

(* The limiter accrues. *)
Refill ==
  /\ level < Capacity
  /\ level' = level + 1
  /\ UNCHANGED <<svc, slots, tally>>

(* What the owner of a service may do with it: also call it without having *)
(* polled it, and drop it with or without the response.                    *)
Use(h) ==
  \/ Layer(h)
  \/ \E g \in Handles : Clone(h, g)
  \/ Poll(h)
  \/ tally.sent + tally.unready < MaxCalls /\ (Call(h) \/ CallUnready(h))
  \/ Answer(h)
  \/ svc[h].response # "none" /\ Drop({}, {h})
  \/ svc[h].on /\ Drop({h}, {})
-----------------------------------------------------------------------------
Services == [on : BOOLEAN, outer : Admission, inner : Admission,
             response : {"none", "pending", "ok", "err"}]

TowerTypeOK ==
  /\ svc \in [Handles -> Services]
  /\ level \in 0..Capacity
  /\ slots \in 0..Permits
  /\ tally \in [charged : Nat, sent : Nat, unready : Nat, outcomes : Nat]

(* "Nothing leaks": the units charged are those of the calls that were     *)
(* made and of the services that are ready for one; every permit is in the *)
(* pool, in a service or in a response; and every call that was sent       *)
(* reports one outcome, while what was not sent reports none, however      *)
(* services are cloned, dropped, called early, hedged, retried or timed    *)
(* out.                                                                    *)
NothingLeaks ==
  /\ tally.charged = Cost * (Cardinality(OuterHeld) + tally.sent + tally.unready)
  /\ slots + Cardinality(InnerHeld) + Cardinality(InFlight) = Permits
  /\ tally.outcomes + Cardinality(InFlight) = tally.sent
=============================================================================
