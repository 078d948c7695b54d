------------------------------ MODULE Adaptive ------------------------------
(***************************************************************************)
(* The adaptive concurrency limiter of src/adaptive.rs: the slots in use,  *)
(* a limit that outcomes move between a floor and a ceiling, an epoch that *)
(* counts the decreases, and the event that callers wait on for a slot.    *)
(*                                                                         *)
(* Every shared word is an atomic of its own, so an operation is split at  *)
(* each access: the reservation reads the slots, then the limit, then      *)
(* swaps; a settled outcome reads the slots, the epoch, the limit, swaps   *)
(* the limit, moves the epoch, wakes, gives its slot back and wakes again. *)
(* A spurious failure of compare_exchange_weak only sends a task back to a *)
(* load it could as well not have done yet, so it is left out.             *)
(*                                                                         *)
(* A task holds a permit (one slot, and the epoch it was admitted in) or   *)
(* slots taken through the Limiter trait.  Callers give back what they     *)
(* took.  AdaptiveStrategy is an open trait: the strategy answers as Aimd  *)
(* would, as Vegas would for some round-trip times, or as either.          *)
(***************************************************************************)
EXTENDS Integers, FiniteSets

CONSTANTS Tasks,
          Floor, Ceiling, Initial,   \* as AdaptiveLimiter::new clamps them
          Strategies,                \* some of "aimd" and "vegas"
          Increase, CutNum, CutDen,  \* Aimd's increase and decrease
          Costs,                     \* costs passed to acquire_cost
          MaxEpoch                   \* no call starts after so many decreases

ASSUME AdaptiveAssumption ==
  /\ IsFiniteSet(Tasks)
  /\ Floor \in Nat \ {0} /\ Ceiling \in Nat /\ Floor <= Ceiling /\ Initial \in Floor..Ceiling
  /\ Strategies \subseteq {"aimd", "vegas"}
  /\ Increase \in Nat \ {0} /\ CutDen \in Nat \ {0} /\ CutNum \in 0..CutDen
  /\ Costs \subseteq 1..Ceiling
  /\ MaxEpoch \in Nat

VARIABLES limit, in_flight,
          epoch,      \* decrease_epoch
          listening,  \* tasks whose listener is registered and not notified
          notified,   \* tasks whose listener is registered and notified
          tk          \* the state of each task

vars == <<limit, in_flight, epoch, listening, notified, tk>>

(* A task: where it is, the slots it wants or holds, the value of          *)
(* in_flight it has read, the limit it has read and the one it will set,   *)
(* the epoch of its permit, its outcome, how many slots it is giving back, *)
(* and as history whether the limit was lowered since it was admitted, and *)
(* whether a decrease was made known, by a new epoch, after its permit had *)
(* read the epoch and before it compared that with the epoch again.        *)
Idle == [pc |-> "idle", slots |-> 0, seen |-> 0, cur |-> 0, new |-> 0, ep |-> 0,
         ok |-> FALSE, back |-> 0, lowered |-> FALSE, told |-> FALSE]

Init ==
  /\ limit = Initial
  /\ in_flight = 0
  /\ epoch = 0
  /\ listening = {}
  /\ notified = {}
  /\ tk = [t \in Tasks |-> Idle]

At(places) == {t \in Tasks : tk[t].pc \in places}
Become(t, me) == tk' = [tk EXCEPT ![t] = me]
Goto(t, pc) == Become(t, [tk[t] EXCEPT !.pc = pc])

Slots == <<limit, in_flight, epoch>>
Event == <<listening, notified>>

-----------------------------------------------------------------------------
(* The event. *)

(* notify_additional(n): n more listeners, or all there are. *)
NotifyAdditional(n, waiting, woken) ==
  \E chosen \in SUBSET waiting :
    /\ Cardinality(chosen) = IF Cardinality(waiting) < n THEN Cardinality(waiting) ELSE n
    /\ listening' = waiting \ chosen
    /\ notified' = woken \cup chosen

(* A dropped listener passes its notification on. *)
DropListener(t) ==
  IF t \in notified
    THEN NotifyAdditional(1, listening, notified \ {t})
    ELSE listening' = listening \ {t} /\ UNCHANGED notified

-----------------------------------------------------------------------------
(* try_reserve, as three steps between given places. *)

ReserveLoad(t, from, to) ==
  /\ tk[t].pc = from
  /\ Become(t, [tk[t] EXCEPT !.pc = to, !.seen = in_flight])
  /\ UNCHANGED <<Slots, Event>>

ReserveCheck(t, from, cas, full) ==
  /\ tk[t].pc = from
  /\ Become(t, IF tk[t].seen + tk[t].slots > limit
                 THEN IF full = "idle" THEN Idle ELSE [tk[t] EXCEPT !.pc = full, !.seen = 0]
                 ELSE [tk[t] EXCEPT !.pc = cas])
  /\ UNCHANGED <<Slots, Event>>

(* A lost swap starts over from the load. *)
ReserveSwap(t, from, again, won) ==
  /\ tk[t].pc = from
  /\ IF in_flight = tk[t].seen
       THEN in_flight' = in_flight + tk[t].slots
            /\ Become(t, [tk[t] EXCEPT !.pc = won, !.seen = 0])
       ELSE UNCHANGED in_flight /\ Become(t, [tk[t] EXCEPT !.pc = again, !.seen = 0])
  /\ UNCHANGED <<limit, epoch, Event>>

Start(t, pc, slots) ==
  /\ tk[t].pc = "idle"
  /\ epoch < MaxEpoch
  /\ Become(t, [Idle EXCEPT !.pc = pc, !.slots = slots])
  /\ UNCHANGED <<Slots, Event>>

(* try_acquire and try_acquire_owned. *)
TryAcquire(t) == Start(t, "loadT", 1)
TryStep(t) ==
  \/ ReserveLoad(t, "loadT", "limT")
  \/ ReserveCheck(t, "limT", "casT", "idle")
  \/ ReserveSwap(t, "casT", "loadT", "epoch")

(* acquire_cost, through the Limiter trait. *)
AcquireCost(t) == \E cost \in Costs : Start(t, "loadC", cost)
CostStep(t) ==
  \/ ReserveLoad(t, "loadC", "limC")
  \/ ReserveCheck(t, "limC", "casC", "idle")
  \/ ReserveSwap(t, "casC", "loadC", "trait")

-----------------------------------------------------------------------------
(* wait_for_slot: try, listen, try again, await. *)

Acquire(t) == Start(t, "load1", 1)

FirstTry(t) ==
  \/ ReserveLoad(t, "load1", "lim1")
  \/ ReserveCheck(t, "lim1", "cas1", "listen")
  \/ ReserveSwap(t, "cas1", "load1", "epoch")

Listen(t) ==
  /\ tk[t].pc = "listen"
  /\ Goto(t, "load2")
  /\ listening' = listening \cup {t}
  /\ UNCHANGED <<Slots, notified>>

SecondTry(t) ==
  \/ ReserveLoad(t, "load2", "lim2")
  \/ ReserveCheck(t, "lim2", "cas2", "parked")
  \/ ReserveSwap(t, "cas2", "load2", "leave")

Leave(t) ==
  /\ tk[t].pc = "leave"
  /\ DropListener(t)
  /\ Goto(t, "epoch")
  /\ UNCHANGED Slots

Wake(t) ==
  /\ tk[t].pc = "parked"
  /\ t \in notified
  /\ notified' = notified \ {t}
  /\ Goto(t, "load1")
  /\ UNCHANGED <<Slots, listening>>

(* The timeout fires or the future is dropped. *)
Abandon(t) ==
  /\ tk[t].pc = "parked"
  /\ DropListener(t)
  /\ Become(t, Idle)
  /\ UNCHANGED Slots

(* AdaptivePermit::new reads the epoch once the slot is taken. *)
NewPermit(t) ==
  /\ tk[t].pc = "epoch"
  /\ Become(t, [tk[t] EXCEPT !.pc = "held", !.ep = epoch])
  /\ UNCHANGED <<Slots, Event>>

-----------------------------------------------------------------------------
(* settle and adjust_limit. *)

(* Mutant: a permit settles with the epoch of that moment too. *)
SettleLate(t, ok) ==
  /\ tk[t].pc \in {"held", "trait"}
  /\ Become(t, [tk[t] EXCEPT !.pc = "look", !.ok = ok, !.back = 1, !.ep = epoch])
  /\ UNCHANGED <<Slots, Event>>

(* success, failure or the drop of a permit; release by a trait caller,    *)
(* which takes the epoch of that moment for its own.                       *)
Settle(t, ok) ==
  /\ tk[t].pc \in {"held", "trait"}
  /\ Become(t, [tk[t] EXCEPT !.pc = "look", !.ok = ok, !.back = 1,
                             !.ep = IF tk[t].pc = "held" THEN @ ELSE epoch])
  /\ UNCHANGED <<Slots, Event>>

Look(t) ==
  /\ tk[t].pc = "look"
  /\ Become(t, [tk[t] EXCEPT !.pc = IF tk[t].ok THEN "adjust" ELSE "guard",
                             !.seen = in_flight])
  /\ UNCHANGED <<Slots, Event>>

(* A failure admitted before the latest decrease leaves the limit alone. *)
Guard(t) ==
  /\ tk[t].pc = "guard"
  /\ Goto(t, IF tk[t].ep < epoch THEN "release" ELSE "adjust")
  /\ UNCHANGED <<Slots, Event>>

Least(a, b) == IF a < b THEN a ELSE b
Greatest(a, b) == IF a > b THEN a ELSE b

(* Mutant: the strategy's answer is used as it is. *)
ClampNot(n) == n

Clamp(n) == Greatest(Floor, Least(n, Ceiling))

(* What the strategy may answer. *)
Aimd(cur, seen, ok) ==
  IF ok THEN (IF seen >= cur THEN cur + Increase ELSE cur)
        ELSE Greatest((cur * CutNum) \div CutDen, 1)
Vegas(cur, ok) ==
  IF ok THEN {cur + 1, cur, Greatest(cur - 1, 0)} ELSE {Greatest(cur \div 2, 1)}
Adjust(cur, seen, ok) ==
  UNION {IF s = "aimd" THEN {Aimd(cur, seen, ok)} ELSE Vegas(cur, ok) : s \in Strategies}

(* The loop turn after the limit was read, by load or by a lost swap. *)
Turn(t) ==
  \E n \in Adjust(limit, tk[t].seen, tk[t].ok) :
    Become(t, IF Clamp(n) = limit
                THEN [tk[t] EXCEPT !.pc = "release", !.seen = 0, !.cur = 0, !.new = 0]
                ELSE [tk[t] EXCEPT !.pc = "swap", !.cur = limit, !.new = Clamp(n)])

LoadLimit(t) ==
  /\ tk[t].pc = "adjust"
  /\ Turn(t)
  /\ UNCHANGED <<Slots, Event>>

Owning == {"leave", "epoch", "held", "trait", "look", "guard", "adjust", "swap", "bump",
           "grow", "release"}

(* The swap of the limit; a lowering by a failure marks every request that *)
(* was admitted before it.                                                 *)
SwapLimit(t) ==
  /\ tk[t].pc = "swap"
  /\ IF limit # tk[t].cur
       THEN Turn(t) /\ UNCHANGED limit
       ELSE LET lowers == ~tk[t].ok /\ tk[t].new < limit
                next == IF lowers THEN "bump" ELSE IF tk[t].new > limit THEN "grow" ELSE "release"
            IN  /\ limit' = tk[t].new
                /\ tk' = [u \in Tasks |->
                     LET me == [tk[u] EXCEPT !.lowered = @ \/ (lowers /\ tk[u].pc \in Owning)]
                     IN  IF u # t THEN me
                         ELSE IF next = "grow" THEN [me EXCEPT !.pc = next, !.seen = 0]
                         ELSE [me EXCEPT !.pc = next, !.seen = 0, !.cur = 0, !.new = 0]]
  /\ UNCHANGED <<in_flight, epoch, Event>>

(* Where a call has an epoch that it has still to compare. *)
Unchecked == {"held", "look", "guard"}

(* The decrease is made known to every call that has still to look. *)
Bump(t) ==
  /\ tk[t].pc = "bump"
  /\ epoch' = epoch + 1
  /\ tk' = [u \in Tasks |->
       IF u = t THEN [tk[u] EXCEPT !.pc = "release"]
                ELSE [tk[u] EXCEPT !.told = @ \/ tk[u].pc \in Unchecked]]
  /\ UNCHANGED <<limit, in_flight, Event>>

(* Mutant: a raised limit wakes nobody. *)
GrowMute(t) == tk[t].pc = "grow" /\ Goto(t, "release") /\ UNCHANGED <<Slots, Event>>

Grow(t) ==
  /\ tk[t].pc = "grow"
  /\ NotifyAdditional(tk[t].new - tk[t].cur, listening, notified)
  /\ Goto(t, "release")
  /\ UNCHANGED Slots

(* Mutant: an outcome settled after a decrease gives back one slot more. *)
ReleaseTwice(t) ==
  /\ tk[t].pc = "release"
  /\ in_flight' = Greatest(in_flight - tk[t].back - (IF tk[t].ep > 0 THEN 1 ELSE 0), 0)
  /\ Become(t, [Idle EXCEPT !.pc = "notify", !.back = tk[t].back,
                            !.slots = tk[t].slots - tk[t].back])
  /\ UNCHANGED <<limit, epoch, Event>>

(* saturating_sub; its swap loop has no effect until it succeeds. *)
Release(t) ==
  /\ tk[t].pc = "release"
  /\ in_flight' = Greatest(in_flight - tk[t].back, 0)
  /\ Become(t, [Idle EXCEPT !.pc = "notify", !.back = tk[t].back,
                            !.slots = tk[t].slots - tk[t].back])
  /\ UNCHANGED <<limit, epoch, Event>>

Notify(t) ==
  /\ tk[t].pc = "notify"
  /\ NotifyAdditional(tk[t].back, listening, notified)
  /\ Become(t, IF tk[t].slots = 0 THEN Idle
               ELSE [Idle EXCEPT !.pc = "trait", !.slots = tk[t].slots])
  /\ UNCHANGED Slots

(* cancel of a permit, refund of everything a trait caller holds. *)
Refund(t) ==
  /\ tk[t].pc \in {"held", "trait"}
  /\ Become(t, [tk[t] EXCEPT !.pc = "release", !.back = tk[t].slots])
  /\ UNCHANGED <<Slots, Event>>

-----------------------------------------------------------------------------
Call(t) ==
  \/ TryAcquire(t) \/ AcquireCost(t) \/ Acquire(t) \/ Abandon(t) \/ Refund(t)
  \/ \E ok \in BOOLEAN : Settle(t, ok)

Run(t) ==
  \/ TryStep(t) \/ CostStep(t) \/ FirstTry(t) \/ Listen(t) \/ SecondTry(t) \/ Leave(t)
  \/ Wake(t) \/ NewPermit(t) \/ Look(t) \/ Guard(t) \/ LoadLimit(t) \/ SwapLimit(t)
  \/ Bump(t) \/ Grow(t) \/ Release(t) \/ Notify(t)

Next == \E t \in Tasks : Call(t) \/ Run(t)

Spec == Init /\ [][Next]_vars

-----------------------------------------------------------------------------
(* Properties. *)

Looking == {"load1", "lim1", "cas1", "listen", "load2", "lim2", "cas2"}

Places == Looking \cup Owning \cup
            {"idle", "parked", "notify", "loadT", "limT", "casT", "loadC", "limC", "casC"}
Calls == [pc : Places, slots : Nat, seen : Nat, cur : Nat, new : Nat, ep : Nat,
          ok : BOOLEAN, back : Nat, lowered : BOOLEAN, told : BOOLEAN]

(* Where a task has a listener registered. *)
Registered == {"load2", "lim2", "cas2", "leave", "parked"}

TypeOK ==
  /\ limit \in Nat /\ in_flight \in Nat /\ epoch \in Nat
  /\ listening \cap notified = {}
  /\ listening \cup notified = At(Registered)
  /\ tk \in [Tasks -> Calls]

(* The slots that t has taken and not given back, one unit for each. *)
SlotsOf(t) == IF tk[t].pc \in Owning \cup {"notify"} THEN tk[t].slots ELSE 0
SlotsInUse == UNION {{t} \X (1..SlotsOf(t)) : t \in Tasks}

(* in_flight counts the slots in use, however outcomes, cancellations and  *)
(* refunds interleave.                                                     *)
SlotsAccounted ==
  TypeOK /\ in_flight = Cardinality(SlotsInUse)

(* The limit stays between floor and ceiling although concurrent outcomes  *)
(* move it, and although a reservation is checked against a limit that may *)
(* have moved, never more than the ceiling are in flight.                  *)
WithinCeiling == limit \in Floor..Ceiling /\ in_flight <= Ceiling

Stuck == {t \in listening : tk[t].pc = "parked"}
(* The wakes still to be sent, by releases and by raised limits. *)
WakesOf(t) == CASE tk[t].pc = "notify" -> tk[t].back
                [] tk[t].pc = "grow" -> tk[t].new - tk[t].cur
                [] OTHER -> 0
Pending == UNION {{t} \X (1..WakesOf(t)) : t \in Tasks}

(* While somebody sleeps un-notified, every slot below the limit is        *)
(* matched by a waiter that is looking, one that was notified, or a wake   *)
(* still to be sent: neither a release nor a raised limit is missed, even  *)
(* by a waiter that compared an old in_flight with a new limit.            *)
NoLostWakeup ==
  Stuck # {} =>
    limit - in_flight <= Cardinality(At(Looking)) + Cardinality(notified) + Cardinality(Pending)

(* t lowers the limit because of a failure. *)
Lowers(t) ==
  /\ tk[t].pc = "swap" /\ tk'[t].pc = "bump"
  /\ limit' < limit

(* Of the calls that one congestion event fails, those that settle one     *)
(* after the other lower the limit once: after a decrease has raised the   *)
(* epoch, a call whose permit is older lowers the limit only if it is      *)
(* racing, that is, if it had compared its epoch before that raise: the    *)
(* comparison, the swap of the limit and the raise are three accesses.     *)
OnlyRacersLowerAgain == [][\A t \in Tasks : Lowers(t) => ~tk[t].told]_vars

(* What the module documentation says: a failure only lowers the limit if  *)
(* its request was admitted after the most recent decrease.                *)
OneDecreasePerEvent == [][\A t \in Tasks : Lowers(t) => ~tk[t].lowered]_vars

=============================================================================
