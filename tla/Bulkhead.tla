------------------------------ MODULE Bulkhead ------------------------------
(***************************************************************************)
(* The bulkhead of src/bulkhead.rs: a fixed number of slots counted in one *)
(* atomic word, and an event on which callers that found every slot taken  *)
(* wait.  The word is only touched by compare-and-swap, so each operation  *)
(* is split where another thread may run: at every load, every             *)
(* compare-and-swap and every call on the event.                           *)
(*                                                                         *)
(* A task is a thread or future that runs one operation at a time:         *)
(* a waiting acquire (acquire, acquire_timeout, acquire_owned,             *)
(* acquire_owned_timeout, call, call_timeout), a try_acquire               *)
(* (try_acquire_owned, try_call), or the drop of the permit it holds.      *)
(*                                                                         *)
(* The event is the external event_listener::Event.  A listener is         *)
(* registered by listen, notified by notify_additional, and a listener     *)
(* dropped after it was notified passes the notification on.  The library  *)
(* notifies in registration order; here any registered listener may be     *)
(* chosen, which admits every order.                                       *)
(***************************************************************************)
EXTENDS Naturals, FiniteSets

CONSTANTS Tasks,      \* the threads and futures that share the bulkhead
          Limit,      \* Bulkhead::limit
          Spurious    \* whether compare_exchange_weak may fail on a match

ASSUME TasksAssumption == IsFiniteSet(Tasks)
ASSUME LimitAssumption == Limit \in Nat
ASSUME SpuriousAssumption == Spurious \in BOOLEAN

VARIABLES in_use,     \* Bulkhead::in_use, the slots taken
          listening,  \* tasks whose listener is registered and not notified
          notified,   \* tasks whose listener is registered and notified
          pc,         \* where each task is
          seen        \* the value of in_use a task's next CAS expects

vars == <<in_use, listening, notified, pc, seen>>

(***************************************************************************)
(* Where a task can be.  A waiting acquire goes load1, cas1, listen,       *)
(* load2, cas2, parked and back; a slot won in the second try is held      *)
(* before the listener is dropped (leave).  loadT, casT belong to          *)
(* try_acquire and loadR, casR, notify to the release.                     *)
(***************************************************************************)
Checking == {"load1", "cas1", "listen", "load2", "cas2", "loadT", "casT"}
Owning   == {"leave", "held", "loadR", "casR"}
PCs      == {"idle", "parked", "notify"} \cup Checking \cup Owning

(* The tasks at one of these places. *)
At(places) == {t \in Tasks : pc[t] \in places}

(* The tasks that own a slot: in_use must count exactly these. *)
Owners == At(Owning)

Goto(t, where) == pc' = [pc EXCEPT ![t] = where]

Init ==
  /\ in_use = 0
  /\ listening = {}
  /\ notified = {}
  /\ pc = [t \in Tasks |-> "idle"]
  /\ seen = [t \in Tasks |-> 0]

-----------------------------------------------------------------------------
(* The event. *)

(* notify_additional(1): one more listener than before is notified. *)
NotifyAdditional(waiting, woken) ==
  IF waiting = {}
    THEN listening' = waiting /\ notified' = woken
    ELSE \E w \in waiting : /\ listening' = waiting \ {w}
                            /\ notified' = woken \cup {w}

(* The drop of a registered listener; a notification it holds moves on. *)
DropListener(t) ==
  IF t \in notified
    THEN NotifyAdditional(listening, notified \ {t})
    ELSE listening' = listening \ {t} /\ UNCHANGED notified

-----------------------------------------------------------------------------
(* try_take: load in_use, then compare-and-swap it up until it wins a slot *)
(* or sees none free.  `full' is where the task goes on a false result and *)
(* `won' where it goes on a true one.                                      *)

TryTakeLoad(t, load, cas, full) ==
  /\ pc[t] = load
  /\ IF in_use >= Limit
       THEN Goto(t, full) /\ UNCHANGED seen
       ELSE Goto(t, cas) /\ seen' = [seen EXCEPT ![t] = in_use]
  /\ UNCHANGED <<in_use, listening, notified>>

(* Mutant: check, then store, without comparing. *)
TryTakeStore(t, cas, won) ==
  /\ pc[t] = cas
  /\ in_use' = seen[t] + 1
  /\ Goto(t, won)
  /\ seen' = [seen EXCEPT ![t] = 0]
  /\ UNCHANGED <<listening, notified>>

TryTakeWon(t, cas, won) ==
  /\ pc[t] = cas
  /\ in_use = seen[t]
  /\ in_use' = seen[t] + 1
  /\ Goto(t, won)
  /\ seen' = [seen EXCEPT ![t] = 0]
  /\ UNCHANGED <<listening, notified>>

(* A lost compare-and-swap hands back the actual value for the next turn. *)
TryTakeLost(t, cas, full) ==
  /\ pc[t] = cas
  /\ in_use # seen[t] \/ Spurious
  /\ IF in_use >= Limit
       THEN Goto(t, full) /\ seen' = [seen EXCEPT ![t] = 0]
       ELSE UNCHANGED pc /\ seen' = [seen EXCEPT ![t] = in_use]
  /\ UNCHANGED <<in_use, listening, notified>>

-----------------------------------------------------------------------------
(* try_acquire and try_acquire_owned: one try_take, shed when full. *)

TryAcquire(t) ==
  /\ pc[t] = "idle"
  /\ Goto(t, "loadT")
  /\ UNCHANGED <<in_use, listening, notified, seen>>

TryStep(t) ==
  \/ TryTakeLoad(t, "loadT", "casT", "idle")
  \/ TryTakeWon(t, "casT", "held")
  \/ TryTakeLost(t, "casT", "idle")

-----------------------------------------------------------------------------
(* The waiting acquires. *)

(* A bulkhead of limit 0 refuses a waiting acquire at once. *)
Acquire(t) ==
  /\ pc[t] = "idle"
  /\ Limit # 0
  /\ Goto(t, "load1")
  /\ UNCHANGED <<in_use, listening, notified, seen>>

FirstTry(t) ==
  \/ TryTakeLoad(t, "load1", "cas1", "listen")
  \/ TryTakeWon(t, "cas1", "held")
  \/ TryTakeLost(t, "cas1", "listen")

Listen(t) ==
  /\ pc[t] = "listen"
  /\ listening' = listening \cup {t}
  /\ Goto(t, "load2")
  /\ UNCHANGED <<in_use, notified, seen>>

(* Mutant: no second try once the listener is registered. *)
SecondTryNot(t) ==
  /\ pc[t] = "load2"
  /\ Goto(t, "parked")
  /\ UNCHANGED <<in_use, listening, notified, seen>>

SecondTry(t) ==
  \/ TryTakeLoad(t, "load2", "cas2", "parked")
  \/ TryTakeWon(t, "cas2", "leave")
  \/ TryTakeLost(t, "cas2", "parked")

(* The slot is won; the listener is dropped on the way out. *)
Leave(t) ==
  /\ pc[t] = "leave"
  /\ DropListener(t)
  /\ Goto(t, "held")
  /\ UNCHANGED <<in_use, seen>>

(* The awaited listener completes and the loop starts over. *)
Wake(t) ==
  /\ pc[t] = "parked"
  /\ t \in notified
  /\ notified' = notified \ {t}
  /\ Goto(t, "load1")
  /\ UNCHANGED <<in_use, listening, seen>>

(* The timeout fires or the future is dropped; both find the task at its   *)
(* only suspension point.                                                  *)
Abandon(t) ==
  /\ pc[t] = "parked"
  /\ DropListener(t)
  /\ Goto(t, "idle")
  /\ UNCHANGED <<in_use, seen>>

-----------------------------------------------------------------------------
(* The drop of a permit: release. *)

DropPermit(t) ==
  /\ pc[t] = "held"
  /\ Goto(t, "loadR")
  /\ UNCHANGED <<in_use, listening, notified, seen>>

ReleaseLoad(t) ==
  /\ pc[t] = "loadR"
  /\ seen' = [seen EXCEPT ![t] = in_use]
  /\ Goto(t, "casR")
  /\ UNCHANGED <<in_use, listening, notified>>

(* Mutant: load and store instead of compare-and-swap. *)
ReleaseStore(t) ==
  /\ pc[t] = "casR"
  /\ in_use' = IF seen[t] = 0 THEN 0 ELSE seen[t] - 1
  /\ seen' = [seen EXCEPT ![t] = 0]
  /\ Goto(t, "notify")
  /\ UNCHANGED <<listening, notified>>

(* saturating_sub stops at zero. *)
ReleaseWon(t) ==
  /\ pc[t] = "casR"
  /\ in_use = seen[t]
  /\ in_use' = IF seen[t] = 0 THEN 0 ELSE seen[t] - 1
  /\ seen' = [seen EXCEPT ![t] = 0]
  /\ Goto(t, "notify")
  /\ UNCHANGED <<listening, notified>>

ReleaseLost(t) ==
  /\ pc[t] = "casR"
  /\ in_use # seen[t] \/ Spurious
  /\ seen' = [seen EXCEPT ![t] = in_use]
  /\ UNCHANGED <<in_use, listening, notified, pc>>

(* Mutant: notify(1), which does nothing while a listener is notified. *)
ReleaseNotifyPlain(t) ==
  /\ pc[t] = "notify"
  /\ IF notified = {} THEN NotifyAdditional(listening, notified)
                      ELSE UNCHANGED <<listening, notified>>
  /\ Goto(t, "idle")
  /\ UNCHANGED <<in_use, seen>>

ReleaseNotify(t) ==
  /\ pc[t] = "notify"
  /\ NotifyAdditional(listening, notified)
  /\ Goto(t, "idle")
  /\ UNCHANGED <<in_use, seen>>

-----------------------------------------------------------------------------
(* What the caller decides: to start an operation, to give up waiting. *)
Call(t) == TryAcquire(t) \/ Acquire(t) \/ DropPermit(t) \/ Abandon(t)

(* What the code does by itself once an operation has started. *)
Run(t) ==
  \/ TryStep(t)
  \/ FirstTry(t) \/ Listen(t) \/ SecondTry(t) \/ Leave(t) \/ Wake(t)
  \/ ReleaseLoad(t) \/ ReleaseWon(t) \/ ReleaseLost(t) \/ ReleaseNotify(t)

Next == \E t \in Tasks : Call(t) \/ Run(t)

Spec == Init /\ [][Next]_vars

(* Every started operation is run on: the executor polls a woken future    *)
(* and the scheduler runs a runnable thread.                               *)
Fairness == \A t \in Tasks : WF_vars(Run(t))

FairSpec == Spec /\ Fairness

-----------------------------------------------------------------------------
(* Properties. *)

(* The state the code can be in: the listener sets are disjoint and hold   *)
(* exactly the tasks between listen and the drop of their listener.        *)
TypeOK ==
  /\ in_use \in Nat
  /\ pc \in [Tasks -> PCs]
  /\ seen \in [Tasks -> Nat]
  /\ listening \cap notified = {}
  /\ listening \cup notified
       = At({"load2", "cas2", "leave", "parked"})

(* A compare-and-swap up was only ever prepared from a value below the     *)
(* limit; this is what makes the check and the swap one step.              *)
SeenBelowLimit ==
  \A t \in Tasks : pc[t] \in {"cas1", "cas2", "casT"} => seen[t] < Limit

(* in_use counts the slots that are owned, whatever the interleaving of    *)
(* acquires, releases, timeouts and cancelled waits: none leaks, none is   *)
(* given back twice (so the saturation in release never bites) ...         *)
SlotsAccounted == in_use = Cardinality(Owners)

(* ... and there are never more owners than slots.                         *)
WithinLimit == Cardinality(Owners) <= Limit

Stuck     == {t \in listening : pc[t] = "parked"}
Checkers  == At(Checking)
Releasing == At({"notify"})

(* No wake-up is lost: while somebody sleeps un-notified, every free slot  *)
(* is matched by a task that is still to look at it - one that is checking *)
(* now, one that was notified, or a releaser about to notify.  A release   *)
(* between the failed try and the await, two releases before the first     *)
(* woken waiter runs, and a waiter cancelled after it was notified are the *)
(* cases that break it.                                                    *)
NoLostWakeup ==
  Stuck # {} =>
    Limit - in_use <=
      Cardinality(Checkers) + Cardinality(notified) + Cardinality(Releasing)

(* The limit is kept as an abstract semaphore keeps it.                    *)
Abstract == INSTANCE Semaphore WITH owners <- Owners
ImplementsSemaphore == Abstract!Spec

(* A waiter does not sleep for ever beside a free slot: infinitely often   *)
(* either every slot is taken or the waiter is not asleep.                 *)
NoSleepBesideFreeSlot ==
  \A t \in Tasks : []<>(in_use >= Limit \/ t \notin Stuck)

=============================================================================
