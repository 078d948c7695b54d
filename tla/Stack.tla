-------------------------------- MODULE Stack --------------------------------
(***************************************************************************)
(* A client's stack: timeout and fallback around Retry (with or without a  *)
(* shared RetryBudget) around hedge, each attempt a oneshot through the    *)
(* layers of Tower.  src/retry.rs and src/resilience.rs.                   *)
(*                                                                         *)
(* There is no clock: a timer may fire at any time after it is set, and an *)
(* attempt takes any of conf.runTimes.  What the future of a leg has to say is  *)
(* seen when the future is polled; a oneshot that fails keeps its service  *)
(* until the hedge drops it.                                               *)
(***************************************************************************)
EXTENDS Tower, Backoff

CONSTANTS
  Tasks,        \* calls of the stack
  Primary, Secondary,   \* [Tasks -> Handles], a hedge's two attempts
  Configs,      \* what is stacked, and how it is set up
  Milli,        \* budget units per retry
  MaxAccruals   \* bound on the seconds the budget's floor accrues

Dates == [year : Nat, month : Nat, day : Nat, h : Nat, m : Nat, s : Nat]
Headers == [form : {"seconds", "imf", "rfc850", "malformed"}, secs : Nat, date : Dates,
            asked : {None} \cup Nat]

ASSUME StackAssumption ==
  /\ IsFiniteSet(Tasks) /\ Primary \in [Tasks -> Handles] /\ Secondary \in [Tasks -> Handles]
  /\ Milli \in Nat \ {0} /\ MaxAccruals \in Nat /\ U64Max \in Nat

(* Durations are unsigned, and there is an attempt. *)
ASSUME ConfigsAssumption ==
  \A c \in Configs :
    /\ c.users \subseteq Handles /\ c.maxAttempts \in Nat \ {0}
    /\ c.policy.base \in Nat /\ c.policy.increment \in Nat /\ c.policy.max \in 0..U64Max
    /\ c.maxRetryAfter \in 0..U64Max /\ c.maxElapsed \in {None} \cup Nat
    /\ c.hints \subseteq Headers /\ c.now \in Dates /\ c.runTimes \subseteq Nat
    /\ c.deposit \in Nat /\ c.floor \in Nat /\ c.maxRetries \in Nat

VARIABLES
  conf,     \* an element of Configs
  task,     \* each task: where it is, and drive's locals
  leg,      \* what hedge knows of each attempt
  budget,   \* the shared balance
  spent     \* retries made, and seconds of the floor accrued

stackVars == <<conf, task, leg, budget, spent>>
vars == <<towerVars, stackVars>>

Legs(t) == {Primary[t], Secondary[t]}

(* assemble: one second's floor in hand, within the ceiling, which is that *)
(* of one retry at least.  Left out are the milli-retry an hour of a       *)
(* budget without a floor and the clamp that keeps the ceiling in u32.     *)
BudgetCap == GreaterOf(conf.maxRetries, 1) * Milli
Floor == LesserOf(conf.floor * Milli, BudgetCap)

Init ==
  /\ TowerInit
  /\ conf \in Configs
  /\ task = [t \in Tasks |-> [pc |-> "idle", attempt |-> 1, elapsed |-> 0,
                              previous |-> conf.policy.base, wait |-> 0, asked |-> None]]
  /\ leg = [h \in Handles |-> "none"]
  /\ budget = Floor
  /\ spent = [retries |-> 0, accrued |-> 0]
-----------------------------------------------------------------------------
(* The attempts.                                                           *)

(* A oneshot polls its service ready and calls it. *)
LegStep(h) ==
  /\ leg[h] = "run" /\ svc[h].response = "none"
  /\ StartOuter(h) \/ GrantOuter(h) \/ StartInner(h) \/ GrantInner(h) \/ Call(h)
  /\ UNCHANGED stackVars

(* Readiness fails: a refusal of either layer, or the service's own.  An   *)
(* admission that is held stays with the future.                           *)
LegRefused(h) ==
  /\ leg[h] = "run" /\ conf.refusals
  /\ \/ RefuseOuter(h)
     \/ RefuseInner(h)
     \/ conf.broken /\ svc[h].inner = "held" /\ UNCHANGED towerVars
  /\ leg' = [leg EXCEPT ![h] = "refused"]
  /\ UNCHANGED <<conf, task, budget, spent>>

LegAnswered(h) == leg[h] = "run" /\ Answer(h) /\ UNCHANGED stackVars

(* What the next poll of an attempt finds. *)
Out(h) ==
  CASE leg[h] = "refused" -> "err"
    [] leg[h] = "run" -> IF svc[h].response \in {"ok", "err"} THEN svc[h].response ELSE "pending"
    [] OTHER -> leg[h]
-----------------------------------------------------------------------------
(* hedge.                                                                  *)

(* Mutant: a failure of the second attempt does not wait for the first. *)
HedgeResultHasty(t) ==
  LET p == Out(Primary[t])
      s == Out(Secondary[t])
  IN  CASE p = "ok" -> "ok"
        [] p = "err" /\ s \in {"none", "done"} -> "err"
        [] s \in {"ok", "err"} -> s
        [] OTHER -> "pending"

(* Mutant: the second attempt's failure is forgotten. *)
HedgeResultDeaf(t) ==
  LET p == Out(Primary[t])
      s == Out(Secondary[t])
  IN  CASE p = "ok" -> "ok"
        [] p = "err" /\ s = "none" -> "err"
        [] s = "ok" -> "ok"
        [] s = "err" /\ p \in {"err", "done"} -> "err"
        [] OTHER -> "pending"

(* What one poll returns: the first attempt is polled first, and its error *)
(* counts at once unless a second attempt is running.                      *)
HedgeResult(t) ==
  LET p == Out(Primary[t])
      s == Out(Secondary[t])
  IN  CASE p = "ok" -> "ok"
        [] p = "err" /\ s \in {"none", "done"} -> "err"
        [] s = "ok" -> "ok"
        [] s = "err" /\ p \in {"err", "done"} -> "err"
        [] OTHER -> "pending"

(* A poll that finds one of two attempts failed: its response is settled. *)
HedgeNotes(t) ==
  LET failed == {h \in Legs(t) : Out(h) = "err"}
  IN  /\ task[t].pc = "attempt" /\ HedgeResult(t) = "pending" /\ failed # {}
      /\ Drop({}, failed)
      /\ leg' = [h \in Handles |-> IF h \in failed THEN "done" ELSE leg[h]]
      /\ UNCHANGED <<conf, task, budget, spent>>

(* A poll that finds the timer fired: the second attempt starts. *)
HedgeStarts(t) ==
  /\ task[t].pc = "attempt" /\ HedgeResult(t) = "pending"
  /\ conf.hedge /\ leg[Secondary[t]] = "none"
  /\ Layer(Secondary[t])
  /\ leg' = [leg EXCEPT ![Secondary[t]] = "run"]
  /\ UNCHANGED <<conf, task, budget, spent>>

(* The attempts of t are dropped, whatever they were doing. *)
DropLegs(t) ==
  /\ Drop(Legs(t), Legs(t))
  /\ leg' = [h \in Handles |-> IF h \in Legs(t) THEN "none" ELSE leg[h]]

(* A poll that returns; drive adds the time it took. *)
HedgeReturns(t) ==
  /\ task[t].pc = "attempt" /\ HedgeResult(t) # "pending"
  /\ DropLegs(t)
  /\ \E d \in conf.runTimes :
       task' = [task EXCEPT ![t].pc = IF HedgeResult(t) = "ok" THEN "done" ELSE "failed",
                            ![t].elapsed = SatAdd(@, d)]
  /\ UNCHANGED <<conf, budget, spent>>
-----------------------------------------------------------------------------
(* drive.                                                                  *)

StartAttempt(t) ==
  /\ Layer(Primary[t])
  /\ leg' = [leg EXCEPT ![Primary[t]] = "run"]

(* deposit: a refund of what was never taken, up to the ceiling. *)
Deposit ==
  budget' = IF conf.budgeted THEN LesserOf(BudgetCap, budget + conf.deposit) ELSE budget

(* run, or run_with_budget, which deposits for the call first. *)
Begin(t) ==
  /\ t \in conf.tasks /\ task[t].pc = "idle"
  /\ StartAttempt(t)
  /\ task' = [task EXCEPT ![t].pc = "attempt"]
  /\ Deposit
  /\ UNCHANGED <<conf, spent>>

(* The delay of a retry: the policy's, which advances in any case, or the  *)
(* server's.                                                               *)
Waits(t, after) ==
  {[next EXCEPT !.delay = IF conf.respect /\ after # None THEN after ELSE @] :
     next \in NextDelay(conf.policy, task[t].attempt - 1, task[t].previous)}

(* The wait would not cross max_elapsed. *)
InTime(t, delay) ==
  conf.maxElapsed = None \/ SatAdd(task[t].elapsed, delay) <= conf.maxElapsed

(* Mutant: the balance is looked at and not drawn from. *)
WithdrawPeek == (conf.budgeted => budget >= Milli) /\ UNCHANGED budget

(* try_withdraw: looked at and taken in one step. *)
Withdraw ==
  IF conf.budgeted THEN budget >= Milli /\ budget' = budget - Milli ELSE UNCHANGED budget

(* A Retry-After beyond the longest one honored ends the loop. *)
Honored(after) == ~ conf.respect \/ after <= conf.maxRetryAfter

(* The error is retried: every guardrail is passed, in the code's order,   *)
(* and the loop goes to sleep.  The classifier has read the response's     *)
(* Retry-After, if it has one that parses.                                 *)
Retry(t) ==
  /\ task[t].pc = "failed" /\ task[t].attempt < conf.maxAttempts
  /\ \E hint \in conf.hints :
       LET after == ParseRetryAfterAt(hint, CivilToUnix(conf.now))
       IN  /\ Honored(after)
           /\ \E w \in Waits(t, after) :
                /\ InTime(t, w.delay)
                /\ task' = [task EXCEPT ![t].pc = "sleeping", ![t].wait = w.delay,
                                        ![t].previous = w.previous, ![t].asked = hint.asked]
  /\ Withdraw
  /\ spent' = [spent EXCEPT !.retries = @ + 1]
  /\ UNCHANGED <<towerVars, conf, leg>>

(* The error is returned, because a guardrail says so or because the       *)
(* classifier gives up, which it may do with any error: fallback runs.     *)
Stop(t) ==
  /\ task[t].pc = "failed"
  /\ task' = [task EXCEPT ![t].pc = "fallback"]
  /\ UNCHANGED <<towerVars, conf, leg, budget, spent>>

(* The sleep is over: the next attempt. *)
Wake(t) ==
  /\ task[t].pc = "sleeping"
  /\ StartAttempt(t)
  /\ task' = [task EXCEPT ![t].pc = "attempt", ![t].elapsed = SatAdd(@, task[t].wait),
                          ![t].attempt = @ + 1, ![t].wait = 0, ![t].asked = None]
  /\ UNCHANGED <<conf, budget, spent>>

(* fallback has its value. *)
FallBack(t) ==
  /\ task[t].pc = "fallback"
  /\ task' = [task EXCEPT ![t].pc = "done"]
  /\ UNCHANGED <<towerVars, conf, leg, budget, spent>>

(* timeout's alarm, or the caller's own: the work was polled first and was *)
(* not ready, and is dropped.                                              *)
TimeOut(t) ==
  /\ conf.timeout
  /\ \/ task[t].pc \in {"sleeping", "fallback"}
     \/ task[t].pc = "attempt" /\ HedgeResult(t) = "pending"
  /\ DropLegs(t)
  /\ task' = [task EXCEPT ![t].pc = "done"]
  /\ UNCHANGED <<conf, budget, spent>>

(* The budget's floor accrues for a second. *)
Accrue ==
  /\ conf.budgeted /\ spent.accrued < MaxAccruals
  /\ budget' = LesserOf(BudgetCap, budget + Floor)
  /\ spent' = [spent EXCEPT !.accrued = @ + 1]
  /\ UNCHANGED <<towerVars, conf, task, leg>>
-----------------------------------------------------------------------------
(* A poll of t's future that changes something. *)
Turn(t) == HedgeNotes(t) \/ HedgeReturns(t) \/ Retry(t) \/ Stop(t) \/ Wake(t) \/ FallBack(t)

Next ==
  \/ \E t \in Tasks : Begin(t) \/ HedgeStarts(t) \/ Turn(t) \/ TimeOut(t)
  \/ \E h \in Handles : LegStep(h) \/ LegRefused(h) \/ LegAnswered(h)
  \/ \E h \in conf.users : Use(h) /\ UNCHANGED stackVars
  \/ Refill /\ UNCHANGED stackVars
  \/ Accrue

Spec == Init /\ [][Next]_vars

(* Futures that are woken are polled, timers fire, time passes, and the    *)
(* downstream answers.                                                     *)
Fairness ==
  /\ \A t \in Tasks : WF_vars(Turn(t)) /\ WF_vars(TimeOut(t))
  /\ \A h \in Handles : WF_vars(LegStep(h)) /\ WF_vars(LegAnswered(h))
  /\ WF_vars(Refill /\ UNCHANGED stackVars)

FairSpec == Spec /\ Fairness
-----------------------------------------------------------------------------
TaskStates ==
  [pc : {"idle", "attempt", "failed", "sleeping", "fallback", "done"}, attempt : Nat \ {0},
   elapsed : 0..U64Max, previous : Nat, wait : 0..U64Max, asked : {None} \cup Nat]

TypeOK ==
  /\ TowerTypeOK
  /\ conf \in Configs
  /\ task \in [Tasks -> TaskStates]
  /\ \A t \in Tasks : task[t].attempt <= conf.maxAttempts
  /\ leg \in [Handles -> {"none", "run", "refused", "done"}]
  /\ budget \in 0..BudgetCap
  /\ spent \in [retries : Nat, accrued : 0..MaxAccruals]

(* hedge returns an error only when every attempt it started has failed:   *)
(* the failure of one never hides what the other may still bring.          *)
HonestFailure ==
  [][\A t \in Tasks : task[t].pc = "attempt" /\ task'[t].pc = "failed"
       => \A h \in Legs(t) : Out(h) \in {"none", "err", "done"}]_vars

(* However many tasks share a budget, their retries cost no more than the  *)
(* first second's floor, what their requests deposited and what the floor  *)
(* accrued: "retries can add at most a bounded fraction to the request     *)
(* rate".                                                                  *)
BudgetBound ==
  TypeOK /\ (conf.budgeted =>
    spent.retries * Milli + budget
      <= Floor * (1 + spent.accrued)
         + conf.deposit * Cardinality({t \in Tasks : task[t].pc # "idle"}))

(* A retry waits exactly as long as the server asked for, across the ends  *)
(* of months, leap days and centuries, and never beyond the longest wait   *)
(* honored; without such a wish no longer than the policy's ceiling,       *)
(* whatever the curve, the factor, the jitter and the attempt.  No attempt *)
(* but the first starts beyond max_elapsed, as drive adds it up.           *)
WaitsKept ==
  \A t \in Tasks :
    /\ task[t].pc = "sleeping" =>
         IF conf.respect /\ task[t].asked # None
         THEN task[t].wait = task[t].asked /\ task[t].wait <= conf.maxRetryAfter
         ELSE task[t].wait <= conf.policy.max
    /\ task[t].pc = "attempt" /\ task[t].attempt > 1 /\ conf.maxElapsed # None =>
         task[t].elapsed <= conf.maxElapsed

(* Every call of the stack ends. *)
EveryRunEnds == \A t \in Tasks : task[t].pc # "idle" ~> task[t].pc = "done"
=============================================================================
