------------------------------ MODULE Throttle ------------------------------
(***************************************************************************)
(* The token-bucket limiter of src/throttle.rs: a bucket of tokens, a      *)
(* pause, non-blocking attempts that take what is there and waiting        *)
(* acquires that reserve their tokens at once, sleep until they have       *)
(* accrued and give them back if they are dropped or time out.             *)
(*                                                                         *)
(* The bucket is the external better_bucket::Bucket: a token accrues per   *)
(* unit of time up to Cap, and a reservation may take it below zero.       *)
(* The pause and the bucket are two words under no lock: every call reads  *)
(* the pause in one step and takes from the bucket in another, and a pause *)
(* may be set between the two.  Time passes only when no timer is due and  *)
(* no call is between the two, and a resume may or may not reach a given   *)
(* sleeper (WaitEngine, the engine under the waits, shows when it does     *)
(* not).                                                                   *)
(***************************************************************************)
EXTENDS Integers, FiniteSets

CONSTANTS Waiters,    \* the tasks: each has one call in flight
          Cap,        \* the capacity
          Costs,      \* the costs requested
          Timeouts,   \* their timeouts; Forever for none
          MaxWaits,   \* the longest waits reserve accepts
          Pauses,     \* durations passed to pause_for
          Refunds,    \* amounts given back through refund
          Drains,     \* arguments of drain_to
          Charges,    \* arguments of charge
          MaxNow, MaxDebt, Forever

ASSUME ThrottleAssumption ==
  /\ IsFiniteSet(Waiters)
  /\ Cap \in Nat \ {0}
  /\ Costs \subseteq 1..Cap
  /\ Timeouts \subseteq Nat /\ MaxWaits \subseteq Nat
  /\ Pauses \subseteq Nat \ {0} /\ Refunds \subseteq Nat \ {0}
  /\ Drains \subseteq Nat /\ Charges \subseteq Nat \ {0}
  /\ MaxNow \in Nat /\ MaxDebt \in Nat /\ Forever \in Nat /\ Forever > MaxNow

VARIABLES now,      \* the clock
          bal,      \* the bucket's balance; below zero it is promised
          hold,     \* the end of the pause, 0 for none
          wt,       \* the calls in flight
          ahead,    \* history: <<x, y>> if x reserved before y and both wait yet
          spent,    \* history: tokens to be used at each instant
          sunk,     \* history: tokens lost to the capacity, drained or charged
          calm      \* history: nothing was given back and nothing paused yet

vars == <<now, bal, hold, wt, ahead, spent, sunk, calm>>

Idle == [pc |-> "idle", cost |-> 0, due |-> 0, dl |-> 0]

Init ==
  /\ now = 0
  /\ bal = Cap
  /\ hold = 0
  /\ wt = [x \in Waiters |-> Idle]
  /\ ahead = {}
  /\ spent = [i \in 0..MaxNow |-> 0]
  /\ sunk = 0
  /\ calm = TRUE

-----------------------------------------------------------------------------
(* The bucket. *)

(* time_until_at, and the wait reserve_at answers: until cost have accrued. *)
TimeUntil(cost) == IF bal >= cost THEN 0 ELSE cost - bal

(* A refund, like an accrual, stops at the capacity. *)
Credit(n) ==
  /\ bal' = IF bal + n > Cap THEN Cap ELSE bal + n
  /\ sunk' = IF bal + n > Cap THEN sunk + (bal + n - Cap) ELSE sunk

Grant(n) == spent' = [spent EXCEPT ![now] = @ + n]

(* hold.remaining and Deadline::remaining. *)
Paused == IF hold > now THEN hold - now ELSE 0
Left(dl) == IF dl = Forever THEN Forever ELSE dl - now
Until(d) == IF now + d > Forever THEN Forever ELSE now + d

-----------------------------------------------------------------------------
(* The operations that do not wait. *)

(* decide and reserve begin alike: refused while paused, and otherwise on  *)
(* their way to the bucket, whatever becomes of the pause.                 *)
Look(x, pc, cost, dl) ==
  /\ wt[x].pc = "idle"
  /\ Paused = 0
  /\ wt' = [wt EXCEPT ![x] = [pc |-> pc, cost |-> cost, due |-> now, dl |-> dl]]
  /\ UNCHANGED <<now, bal, hold, ahead, spent, sunk, calm>>

LookToTake(x) == \E cost \in Costs : Look(x, "trying", cost, Forever)
LookToReserve(x) ==
  \E cost \in Costs, max_wait \in MaxWaits : Look(x, "reserving", cost, Until(max_wait))

(* decide: granted if the tokens are there. *)
TryAcquire(x) ==
  /\ wt[x].pc = "trying"
  /\ wt' = [wt EXCEPT ![x] = Idle]
  /\ IF bal >= wt[x].cost
       THEN bal' = bal - wt[x].cost /\ Grant(wt[x].cost)
       ELSE UNCHANGED <<bal, spent>>
  /\ UNCHANGED <<now, hold, ahead, sunk, calm>>

(* reserve: refused if the tokens accrue after max_wait; the caller, who   *)
(* was told the wait, uses them once they have accrued.                    *)
Reserve(x) ==
  LET cost == wt[x].cost IN
  /\ wt[x].pc = "reserving"
  /\ wt' = [wt EXCEPT ![x] = Idle]
  /\ \/ /\ TimeUntil(cost) <= Left(wt[x].dl) /\ now + TimeUntil(cost) <= MaxNow
        /\ bal' = bal - cost
        /\ spent' = [spent EXCEPT ![now + TimeUntil(cost)] = @ + cost]
     \/ TimeUntil(cost) > Left(wt[x].dl) /\ UNCHANGED <<bal, spent>>
  /\ UNCHANGED <<now, hold, ahead, sunk, calm>>

(* refund, by a caller that did not use what it was granted. *)
Refund(n) ==
  /\ spent[now] >= n
  /\ spent' = [spent EXCEPT ![now] = @ - n]
  /\ Credit(n)
  /\ calm' = FALSE
  /\ UNCHANGED <<now, hold, wt, ahead>>

Take(n) ==
  /\ bal' = bal - n
  /\ sunk' = sunk + n

Lesser(a, b) == IF a < b THEN a ELSE b
Available == IF bal > 0 THEN bal ELSE 0

(* drain_to reads what is available and takes what that has above          *)
(* `remaining', as far as it is there: other callers may have moved the    *)
(* balance in between.                                                     *)
DrainTo(remaining) ==
  /\ \E available \in 0..Cap :
       /\ available > remaining
       /\ Take(Lesser(available - remaining, Available))
  /\ UNCHANGED <<now, hold, wt, ahead, spent, calm>>

(* charge books units that were used already; the balance pays them back. *)
Charge(n) ==
  /\ bal - n >= -MaxDebt
  /\ Take(n)
  /\ UNCHANGED <<now, hold, wt, ahead, spent, calm>>

PauseFor(d) ==
  /\ hold' = IF hold > Until(d) THEN hold ELSE Until(d)
  /\ calm' = FALSE
  /\ UNCHANGED <<now, bal, wt, ahead, spent, sunk>>

(* resume wakes sleepers of the pause. *)
Resume ==
  /\ hold # 0
  /\ hold' = 0
  /\ \E woken \in SUBSET {x \in Waiters : wt[x].pc \in {"napping", "held"}} :
       wt' = [x \in Waiters |-> IF x \in woken THEN [wt[x] EXCEPT !.due = now] ELSE wt[x]]
  /\ UNCHANGED <<now, bal, ahead, spent, sunk, calm>>

-----------------------------------------------------------------------------
(* A waiting acquire: napping out a pause or a lost race, asking the       *)
(* bucket or refused by it, ready with tokens that were there, asleep with *)
(* tokens reserved until due, or held by a pause that was set meanwhile.   *)
(* One that naps, sleeps or is held is at an await, and can be dropped.    *)

Holding == {"ready", "reserved", "held"}
Reserved == {x \in Waiters : wt[x].pc \in Holding}

(* x reserves behind everyone who has. *)
Behind(x) == ahead' = ahead \cup (Reserved \X {x})

(* x is done waiting, one way or another. *)
Done(x) ==
  /\ wt' = [wt EXCEPT ![x] = Idle]
  /\ ahead' = {p \in ahead : x \notin {p[1], p[2]}}

(* The step begins: wait a pause out before reserving, or fail. *)
Ask(x, me) ==
  /\ wt' = [wt EXCEPT ![x] =
       IF Paused = 0 THEN [me EXCEPT !.pc = "asking", !.due = now]
       ELSE IF Paused > Left(me.dl) THEN Idle
       ELSE [me EXCEPT !.pc = "napping", !.due = hold]]
  /\ UNCHANGED <<now, bal, hold, ahead, spent, sunk, calm>>

Acquire(x) ==
  /\ wt[x].pc = "idle"
  /\ \E cost \in Costs, t \in Timeouts :
       Ask(x, [Idle EXCEPT !.cost = cost, !.dl = Until(t)])

(* The nap is over: ask again. *)
AskAgain(x) ==
  /\ wt[x].pc = "napping" /\ wt[x].due <= now
  /\ Ask(x, wt[x])

(* Mutant: the tokens are waited for as if the bucket were empty, not in   *)
(* debt.                                                                   *)
BookDebtless(x) ==
  LET cost == wt[x].cost IN
  /\ wt[x].pc = "asking"
  /\ bal' = bal - cost
  /\ Behind(x)
  /\ wt' = [wt EXCEPT ![x].pc = IF bal >= cost THEN "ready" ELSE "reserved",
                      ![x].due = IF bal >= cost THEN now ELSE now + cost]
  /\ UNCHANGED <<now, hold, spent, sunk, calm>>

(* reserve_at: the tokens are reserved if they accrue within the budget. *)
Book(x) ==
  LET wait == TimeUntil(wt[x].cost) IN
  /\ wt[x].pc = "asking"
  /\ \/ /\ wait <= Left(wt[x].dl)
        /\ bal' = bal - wt[x].cost
        /\ Behind(x)
        /\ wt' = [wt EXCEPT ![x].pc = IF wait = 0 THEN "ready" ELSE "reserved",
                            ![x].due = now + wait]
     \/ /\ wait > Left(wt[x].dl)
        /\ wt' = [wt EXCEPT ![x].pc = "refused"]
        /\ UNCHANGED <<bal, ahead>>
  /\ UNCHANGED <<now, hold, spent, sunk, calm>>

(* time_until_at, after a refusal: the wait is too long still, or somebody *)
(* gave tokens back meanwhile and the waiter looks again, at once (the     *)
(* first few times, or if a resume came) or after a nap: for the wait, or  *)
(* for the least that time measures, if anything is left until the         *)
(* deadline.                                                               *)
Refused(x) ==
  LET wait == TimeUntil(wt[x].cost)
      left == Left(wt[x].dl) IN
  /\ wt[x].pc = "refused"
  /\ \/ /\ wait > left \/ left = 0
        /\ wt' = [wt EXCEPT ![x] = Idle]
     \/ /\ wait <= left
        /\ \E nap \in {0, Lesser(left, IF wait = 0 THEN 1 ELSE wait)} :
             wt' = [wt EXCEPT ![x].pc = "napping", ![x].due = now + nap]
  /\ UNCHANGED <<now, bal, hold, ahead, spent, sunk, calm>>

(* Mutants: the reservation is used at once; the pause is not looked at.   *)
MatureEarly(x) ==
  /\ wt[x].pc \in Holding /\ Paused = 0
  /\ Done(x)
  /\ Grant(wt[x].cost)
  /\ UNCHANGED <<now, hold, bal, sunk, calm>>
MatureBlind(x) ==
  /\ wt[x].pc \in Holding /\ wt[x].due <= now
  /\ Done(x)
  /\ Grant(wt[x].cost)
  /\ UNCHANGED <<now, hold, bal, sunk, calm>>

(* The reservation has matured, or the pause it was held by is over. *)
Mature(x) ==
  /\ wt[x].pc \in Holding /\ wt[x].due <= now
  /\ \/ /\ Paused = 0
        /\ Done(x)
        /\ Grant(wt[x].cost)
        /\ UNCHANGED <<bal, sunk>>
     \/ /\ Paused > Left(wt[x].dl)
        /\ Done(x)
        /\ Credit(wt[x].cost)
        /\ UNCHANGED spent
     \/ /\ Paused # 0 /\ Paused <= Left(wt[x].dl)
        /\ wt' = [wt EXCEPT ![x].pc = "held", ![x].due = hold]
        /\ UNCHANGED <<bal, ahead, spent, sunk>>
  /\ UNCHANGED <<now, hold, calm>>

(* Mutant: only a sleeping reservation is refunded, not one held by a      *)
(* pause.                                                                  *)
CancelHeld(x) ==
  /\ wt[x].pc \in {"napping", "reserved", "held"}
  /\ Done(x)
  /\ IF wt[x].pc # "reserved" THEN UNCHANGED <<bal, sunk>> ELSE Credit(wt[x].cost)
  /\ calm' = FALSE
  /\ UNCHANGED <<now, hold, spent>>

(* The future is dropped: a reservation is refunded. *)
Cancel(x) ==
  /\ wt[x].pc \in {"napping", "reserved", "held"}
  /\ Done(x)
  /\ IF wt[x].pc = "napping" THEN UNCHANGED <<bal, sunk>> ELSE Credit(wt[x].cost)
  /\ calm' = FALSE
  /\ UNCHANGED <<now, hold, spent>>

Tick ==
  /\ now < MaxNow
  /\ \A x \in Waiters : wt[x].pc = "idle" \/ wt[x].due > now
  /\ now' = now + 1
  /\ Credit(1)
  /\ UNCHANGED <<hold, wt, ahead, spent, calm>>

Next ==
  \/ \E x \in Waiters : LookToTake(x) \/ TryAcquire(x) \/ LookToReserve(x) \/ Reserve(x)
  \/ \E n \in Refunds : Refund(n)
  \/ \E n \in Drains : DrainTo(n)
  \/ \E n \in Charges : Charge(n)
  \/ \E d \in Pauses : PauseFor(d)
  \/ Resume
  \/ \E x \in Waiters : Acquire(x) \/ AskAgain(x) \/ Book(x) \/ Refused(x)
  \/ \E x \in Waiters : Mature(x) \/ Cancel(x)
  \/ Tick

Spec == Init /\ [][Next]_vars

-----------------------------------------------------------------------------
(* Properties. *)

(* A sum, as the number of units its terms stand for. *)
SumOver(f, S) == Cardinality(UNION {{i} \X (1..f[i]) : i \in S})

Promised == SumOver([x \in Waiters |-> wt[x].cost], Reserved)
Granted(from, to) == SumOver(spent, from..to)

Places == {"idle", "trying", "reserving", "napping", "asking", "refused"} \cup Holding
Waits == [pc : Places, cost : 0..Cap, due : Nat, dl : 0..Forever]

TypeOK ==
  /\ now \in 0..MaxNow /\ bal \in Int /\ bal <= Cap /\ hold \in 0..Forever
  /\ sunk \in Nat /\ spent \in [0..MaxNow -> Nat]
  /\ wt \in [Waiters -> Waits] /\ ahead \subseteq Reserved \X Reserved
  /\ calm \in BOOLEAN

(* Every token is somewhere: in the bucket, promised to a waiter, granted, *)
(* or gone.  A dropped or timed-out wait that kept or doubled its tokens   *)
(* would show here.                                                        *)
TokensConserved ==
  TypeOK /\ Cap + now = bal + Promised + Granted(0, MaxNow) + sunk

(* What has been handed out, net of refunds, never exceeds the burst plus  *)
(* what has accrued, although reservations run ahead of the bucket.        *)
RateBound == Granted(0, now) <= Cap + now

(* A wait with a timeout does not outlive its deadline, whatever pauses    *)
(* are set while its reservation matures.                                  *)
DeadlineKept == \A x \in Waiters : wt[x].pc # "idle" => now <= wt[x].dl

(* The calls that do not wait and have seen no pause. *)
Passed == {x \in Waiters : wt[x].pc \in {"trying", "reserving"}}

(* A pause lets through the calls that had seen none when it was set, each *)
(* once and with its own cost, and nothing else: no call passes the check  *)
(* any more, and a reservation made before the pause is held by it         *)
(* (TN2-009).                                                              *)
PauseStopsCalls ==
  [][Paused # 0 =>
       /\ Passed' \subseteq Passed
       /\ \A i \in 0..MaxNow :
            \/ spent'[i] <= spent[i]
            \/ \E x \in Passed \ Passed' : spent'[i] = spent[i] + wt[x].cost]_vars

(* Nothing at all is granted during a pause (docs/API.md). *)
NothingGrantedWhilePaused ==
  [][Paused # 0 => \A i \in 0..MaxNow : spent'[i] <= spent[i]]_vars

(* Over any window up to now the grants stay within the capacity plus what *)
(* accrues in the window (docs/API.md).                                    *)
WindowBound ==
  \A from \in 0..now : Granted(from, now) <= Cap + (now - from)

(* As long as nothing was given back and nothing paused, that holds,       *)
(* although reservations are handed out ahead of time by callers that wait *)
(* and by callers that were told to.                                       *)
WindowBoundWhileCalm == calm => WindowBound

(* The two bounds on what the throttle lets through. *)
GrantsBounded == RateBound /\ WindowBoundWhileCalm

(* Who reserved first is due first.                                        *)
ArrivalOrder == \A p \in ahead : wt[p[1]].due <= wt[p[2]].due

(* And waiters are served in the order in which they reserved, whatever    *)
(* they ask for and whatever is drained or charged in between.             *)
ArrivalOrderWhileCalm == calm => ArrivalOrder

(* What a waiter may count on: its deadline, and its place. *)
WaitsHonored == DeadlineKept /\ ArrivalOrderWhileCalm

=============================================================================
