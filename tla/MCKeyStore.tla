----------------------------- MODULE MCKeyStore -----------------------------
(* Instances of KeyStore for model checking. *)
EXTENDS KeyStore, TLC

Base == [amount |-> 1, burst |-> None, initial |-> None, max |-> 1, ttl |-> None,
         forget |-> FALSE, shards |-> 1, until |-> 3]

(* One slot and one debt per shard, refusing or forgetting; an initial fill *)
(* below the burst; idle expiry; two slots, of which the hand looks at one; *)
(* and the closed limiter.                                                  *)
MCSetups == {Base,
             [Base EXCEPT !.forget = TRUE, !.until = 2],
             [Base EXCEPT !.burst = 2, !.initial = 1, !.max = 2, !.until = 2],
             [Base EXCEPT !.amount = 2, !.burst = 1, !.ttl = 2, !.until = 6],
             [Base EXCEPT !.amount = 2, !.burst = 1, !.max = 4, !.until = 1],
             [Base EXCEPT !.amount = 0]}

Symmetry == Permutations(Keys) \cup Permutations(Callers)
=============================================================================
