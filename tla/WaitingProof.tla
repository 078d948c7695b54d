---------------------------- MODULE WaitingProof ----------------------------
(***************************************************************************)
(* Proofs about the places where calls wait for one another: Bulkhead, for *)
(* every finite set of tasks and every limit, and Queue, for every set of  *)
(* callers and keys, every configuration and every capacity.               *)
(*                                                                         *)
(* Bulkhead.  The inductive invariant is Inv.  SlotsAccounted alone is not *)
(* inductive: a release that finds the counter at zero would saturate, and *)
(* a compare-and-swap up would exceed the limit, unless the counter is     *)
(* known to count the owners and every prepared swap to start below the    *)
(* limit.  NoLostWakeup is inductive beside them.                          *)
(*                                                                         *)
(* Queue.  The inductive invariant is QueueInv.  That the turn-holder is   *)
(* woken is not inductive: wake_winner notifies only a listener, so a task *)
(* that has looked must be known to listen, and the winner must be known   *)
(* to be a waiter, which rests on every waiter's key having one place in   *)
(* the order (Sound), through every forgetting of keys and every pruning.  *)
(***************************************************************************)
EXTENDS Bulkhead, Queue, Counting

-----------------------------------------------------------------------------
(* Bulkhead. *)

CounterWithinLimit == in_use <= Limit

Inv ==
  /\ TypeOK
  /\ SeenBelowLimit
  /\ SlotsAccounted
  /\ CounterWithinLimit
  /\ NoLostWakeup

(* The tasks that a map of tasks to places puts at one of these places. *)
Placed(f, places) == {u \in Tasks : f[u] \in places}

(* By how much a class of places grows when a task goes from one to another. *)
Change(places, from, to) ==
  IF from \notin places /\ to \in places THEN 1
  ELSE IF from \in places /\ to \notin places THEN -1 ELSE 0

(* How many tasks are at a set of places when one task moves. *)
LEMMA PlacedCount ==
  ASSUME NEW f \in [Tasks -> PCs], NEW places, NEW t \in Tasks, NEW where \in PCs
  PROVE  LET S == Placed(f, places)
             T == Placed([f EXCEPT ![t] = where], places)
         IN  /\ Cardinality(S) \in Nat
             /\ Cardinality(T) \in Nat
             /\ Cardinality(T) = Cardinality(S) + Change(places, f[t], where)
<1> DEFINE S == Placed(f, places)
           T == Placed([f EXCEPT ![t] = where], places)
<1>1. IsFiniteSet(S) /\ IsFiniteSet(T)
  BY TasksAssumption, FS_Subset DEF Placed
<1>2. Cardinality(S) \in Nat /\ Cardinality(T) \in Nat
  BY <1>1, FS_CardinalityType
<1>3. CASE f[t] \notin places /\ where \in places
  <2>1. T = S \cup {t} /\ t \notin S
    BY <1>3 DEF Placed
  <2>2. Cardinality(T) = Cardinality(S) + 1
    BY <1>1, <2>1, FS_AddElement
  <2> QED BY <1>2, <1>3, <2>2 DEF Change
<1>4. CASE f[t] \in places /\ where \notin places
  <2>1. T = S \ {t} /\ t \in S
    BY <1>4 DEF Placed
  <2>2. Cardinality(T) = Cardinality(S) - 1
    BY <1>1, <2>1, FS_RemoveElement
  <2> QED BY <1>2, <1>4, <2>2 DEF Change
<1>5. CASE (f[t] \in places) = (where \in places)
  <2>1. T = S
    BY <1>5 DEF Placed
  <2> QED BY <1>2, <1>5, <2>1 DEF Change
<1> QED
  BY <1>3, <1>4, <1>5

(* What a move does to the three counted classes of tasks, and to the set  *)
(* of tasks that have a listener.                                          *)
LEMMA Moved ==
  ASSUME TypeOK, NEW t \in Tasks, NEW where \in PCs, Goto(t, where)
  PROVE  /\ pc' \in [Tasks -> PCs]
         /\ pc'[t] = where
         /\ \A u \in Tasks \ {t} : pc'[u] = pc[u]
         /\ Cardinality(Owners) \in Nat /\ Cardinality(Owners)' \in Nat
         /\ Cardinality(Checkers) \in Nat /\ Cardinality(Checkers)' \in Nat
         /\ Cardinality(Releasing) \in Nat /\ Cardinality(Releasing)' \in Nat
         /\ Cardinality(Owners)' = Cardinality(Owners) + Change(Owning, pc[t], where)
         /\ Cardinality(Checkers)' = Cardinality(Checkers) + Change(Checking, pc[t], where)
         /\ Cardinality(Releasing)' = Cardinality(Releasing) + Change({"notify"}, pc[t], where)
<1>1. pc \in [Tasks -> PCs] /\ pc' = [pc EXCEPT ![t] = where]
  BY DEF TypeOK, Goto
<1>2. pc' \in [Tasks -> PCs] /\ pc'[t] = where /\ \A u \in Tasks \ {t} : pc'[u] = pc[u]
  BY <1>1
<1>3. /\ Owners = Placed(pc, Owning) /\ Owners' = Placed(pc', Owning)
      /\ Checkers = Placed(pc, Checking) /\ Checkers' = Placed(pc', Checking)
      /\ Releasing = Placed(pc, {"notify"}) /\ Releasing' = Placed(pc', {"notify"})
  BY DEF Owners, Checkers, Releasing, At, Placed
<1>4. ASSUME NEW places
      PROVE  /\ Cardinality(Placed(pc, places)) \in Nat
             /\ Cardinality(Placed(pc', places)) \in Nat
             /\ Cardinality(Placed(pc', places))
                  = Cardinality(Placed(pc, places)) + Change(places, pc[t], where)
  BY <1>1, PlacedCount
<1>5. /\ Cardinality(Owners) \in Nat /\ Cardinality(Owners)' \in Nat
      /\ Cardinality(Owners)' = Cardinality(Owners) + Change(Owning, pc[t], where)
  BY <1>3, <1>4
<1>6. /\ Cardinality(Checkers) \in Nat /\ Cardinality(Checkers)' \in Nat
      /\ Cardinality(Checkers)' = Cardinality(Checkers) + Change(Checking, pc[t], where)
  BY <1>3, <1>4
<1>7. /\ Cardinality(Releasing) \in Nat /\ Cardinality(Releasing)' \in Nat
      /\ Cardinality(Releasing)' = Cardinality(Releasing) + Change({"notify"}, pc[t], where)
  BY <1>3, <1>4
<1> QED BY <1>2, <1>5, <1>6, <1>7

(* notify_additional moves one task from the un-notified to the notified   *)
(* listeners, if there is one.                                             *)
LEMMA NotifyCount ==
  ASSUME NEW waiting \in SUBSET Tasks, NEW woken \in SUBSET Tasks,
         waiting \cap woken = {}, NotifyAdditional(waiting, woken)
  PROVE  /\ listening' \subseteq waiting
         /\ listening' \cup notified' = waiting \cup woken
         /\ listening' \cap notified' = {}
         /\ Cardinality(woken) \in Nat
         /\ waiting = {} => Cardinality(notified') = Cardinality(woken)
         /\ waiting # {} => Cardinality(notified') = Cardinality(woken) + 1
<1>1. IsFiniteSet(woken)
  BY TasksAssumption, FS_Subset
<1>2. Cardinality(woken) \in Nat
  BY <1>1, FS_CardinalityType
<1>3. CASE waiting = {}
  BY <1>2, <1>3 DEF NotifyAdditional
<1>4. CASE waiting # {}
  <2>1. PICK w \in waiting : listening' = waiting \ {w} /\ notified' = woken \cup {w}
    BY <1>4 DEF NotifyAdditional
  <2>2. w \notin woken
    OBVIOUS
  <2>3. Cardinality(notified') = Cardinality(woken) + 1
    BY <1>1, <2>1, <2>2, FS_AddElement
  <2> QED BY <1>2, <1>4, <2>1, <2>3
<1> QED BY <1>3, <1>4

(* The listener sets are finite sets of tasks. *)
LEMMA ListenersFinite ==
  ASSUME TypeOK
  PROVE  /\ listening \subseteq Tasks /\ notified \subseteq Tasks
         /\ IsFiniteSet(notified) /\ Cardinality(notified) \in Nat
<1>1. listening \subseteq Tasks /\ notified \subseteq Tasks
  BY DEF TypeOK, At
<1>2. IsFiniteSet(notified)
  BY <1>1, TasksAssumption, FS_Subset
<1> QED BY <1>1, <1>2, FS_CardinalityType

Swapping   == {"cas1", "cas2", "casT"}
WithListener == {"load2", "cas2", "leave", "parked"}

(* A step that leaves the event alone keeps the invariant if it moves the  *)
(* counter as it moves the owners and either leaves no slot free, or       *)
(* neither puts anyone to sleep nor takes more checkers than slots away.   *)
LEMMA QuietMove ==
  ASSUME Inv, NEW t \in Tasks, NEW where \in PCs, Goto(t, where),
         UNCHANGED <<listening, notified>>,
         (pc[t] \in WithListener) = (where \in WithListener),
         in_use' \in Nat, in_use' <= Limit,
         in_use' = in_use + Change(Owning, pc[t], where),
         seen' \in [Tasks -> Nat],
         \A u \in Tasks \ {t} : seen'[u] = seen[u],
         where \in Swapping => seen'[t] < Limit,
         \/ in_use' >= Limit
         \/ /\ where # "parked" \/ pc[t] = "parked"
            /\ in_use' - in_use + Change(Checking, pc[t], where)
                 + Change({"notify"}, pc[t], where) >= 0
  PROVE  Inv'
<1> USE DEF Inv, CounterWithinLimit
<1>1. /\ pc' \in [Tasks -> PCs]
      /\ pc'[t] = where
      /\ \A u \in Tasks \ {t} : pc'[u] = pc[u]
  BY Moved
<1>2. TypeOK'
  BY <1>1 DEF TypeOK, At, WithListener
<1>3. SeenBelowLimit'
  BY <1>1 DEF SeenBelowLimit, Swapping
<1>4. SlotsAccounted'
  BY Moved DEF SlotsAccounted
<1>5. NoLostWakeup'
  <2>1. CASE in_use' >= Limit
    <3>1. /\ Cardinality(Checkers)' \in Nat /\ Cardinality(Releasing)' \in Nat
          /\ Cardinality(notified)' \in Nat
      BY Moved, ListenersFinite
    <3> QED BY <2>1, <3>1, LimitAssumption DEF NoLostWakeup
  <2>2. CASE /\ where # "parked" \/ pc[t] = "parked"
             /\ in_use' - in_use + Change(Checking, pc[t], where)
                  + Change({"notify"}, pc[t], where) >= 0
    <3>1. Stuck' \subseteq Stuck
      BY <1>1, <2>2, ListenersFinite DEF Stuck
    <3>2. /\ Cardinality(Checkers)' = Cardinality(Checkers) + Change(Checking, pc[t], where)
          /\ Cardinality(Releasing)' = Cardinality(Releasing) + Change({"notify"}, pc[t], where)
          /\ Cardinality(Checkers) \in Nat /\ Cardinality(Releasing) \in Nat
          /\ Cardinality(notified) \in Nat /\ Cardinality(notified)' = Cardinality(notified)
      BY Moved, ListenersFinite
    <3>3. Change(Checking, pc[t], where) \in Int /\ Change({"notify"}, pc[t], where) \in Int
      BY DEF Change
    <3>4. in_use \in Nat
      BY DEF TypeOK
    <3> QED BY <2>2, <3>1, <3>2, <3>3, <3>4, LimitAssumption DEF NoLostWakeup
  <2> QED BY <2>1, <2>2
<1> QED BY <1>2, <1>3, <1>4, <1>5

(* Every step of the three uses of try_take keeps the invariant. *)
LEMMA TryTakeSteps ==
  ASSUME Inv, NEW t \in Tasks, TryStep(t) \/ FirstTry(t) \/ SecondTry(t)
  PROVE  Inv'
<1> USE DEF PCs, Checking, Owning, Swapping, WithListener, Change
<1>0. /\ in_use \in Nat /\ in_use <= Limit /\ pc[t] \in PCs
      /\ seen \in [Tasks -> Nat] /\ pc \in [Tasks -> PCs] /\ Limit \in Nat
      /\ pc[t] \in Swapping => seen[t] < Limit
  BY LimitAssumption DEF Inv, TypeOK, CounterWithinLimit, SeenBelowLimit
<1>1. ASSUME NEW load, NEW cas, NEW full, TryTakeLoad(t, load, cas, full),
             \/ load = "load1" /\ cas = "cas1" /\ full = "listen"
             \/ load = "load2" /\ cas = "cas2" /\ full = "parked"
             \/ load = "loadT" /\ cas = "casT" /\ full = "idle"
      PROVE  Inv'
  <2>1. CASE in_use >= Limit
    <3>1. Goto(t, full) /\ UNCHANGED <<seen, in_use, listening, notified>>
      BY <1>1, <2>1 DEF TryTakeLoad
    <3> QED BY <1>0, <1>1, <2>1, <3>1, QuietMove DEF TryTakeLoad
  <2>2. CASE ~(in_use >= Limit)
    <3>1. /\ Goto(t, cas) /\ seen' = [seen EXCEPT ![t] = in_use]
          /\ UNCHANGED <<in_use, listening, notified>>
      BY <1>1, <2>2 DEF TryTakeLoad
    <3> QED BY <1>0, <1>1, <2>2, <3>1, QuietMove DEF TryTakeLoad
  <2> QED BY <2>1, <2>2
<1>2. ASSUME NEW cas, NEW won, TryTakeWon(t, cas, won),
             \/ cas = "cas1" /\ won = "held"
             \/ cas = "cas2" /\ won = "leave"
             \/ cas = "casT" /\ won = "held"
      PROVE  Inv'
  BY <1>0, <1>2, QuietMove DEF TryTakeWon
<1>3. ASSUME NEW cas, NEW full, TryTakeLost(t, cas, full),
             \/ cas = "cas1" /\ full = "listen"
             \/ cas = "cas2" /\ full = "parked"
             \/ cas = "casT" /\ full = "idle"
      PROVE  Inv'
  <2>1. CASE in_use >= Limit
    <3>1. /\ Goto(t, full) /\ seen' = [seen EXCEPT ![t] = 0]
          /\ UNCHANGED <<in_use, listening, notified>>
      BY <1>3, <2>1 DEF TryTakeLost
    <3> QED BY <1>0, <1>3, <2>1, <3>1, QuietMove DEF TryTakeLost
  <2>2. CASE ~(in_use >= Limit)
    <3>1. /\ Goto(t, cas) /\ seen' = [seen EXCEPT ![t] = in_use]
          /\ UNCHANGED <<in_use, listening, notified>>
      BY <1>0, <1>3, <2>2 DEF TryTakeLost, Goto
    <3> QED BY <1>0, <1>3, <2>2, <3>1, QuietMove DEF TryTakeLost
  <2> QED BY <2>1, <2>2
<1> QED BY <1>1, <1>2, <1>3 DEF TryStep, FirstTry, SecondTry

(* A dropped listener leaves the listener sets; a notification it held is  *)
(* still there if anyone is left to take it.                               *)
LEMMA ListenerDropped ==
  ASSUME TypeOK, NEW t \in listening \cup notified, DropListener(t)
  PROVE  /\ listening' \subseteq listening \ {t}
         /\ listening' \cup notified' = (listening \cup notified) \ {t}
         /\ listening' \cap notified' = {}
         /\ Cardinality(notified)' \in Nat
         /\ listening' # {} => Cardinality(notified)' >= Cardinality(notified)
<1>1. /\ listening \subseteq Tasks /\ notified \subseteq Tasks
      /\ IsFiniteSet(notified) /\ Cardinality(notified) \in Nat
      /\ listening \cap notified = {}
  BY ListenersFinite DEF TypeOK
<1>2. CASE t \in notified
  <2> DEFINE rest == notified \ {t}
  <2>1. NotifyAdditional(listening, rest)
    BY <1>2 DEF DropListener
  <2>2. Cardinality(rest) = Cardinality(notified) - 1
    BY <1>1, <1>2, FS_RemoveElement
  <2>3. rest \subseteq Tasks /\ listening \cap rest = {}
    BY <1>1
  <2>4. /\ listening' \subseteq listening
        /\ listening' \cup notified' = listening \cup rest
        /\ listening' \cap notified' = {}
        /\ Cardinality(rest) \in Nat
        /\ listening = {} => Cardinality(notified') = Cardinality(rest)
        /\ listening # {} => Cardinality(notified') = Cardinality(rest) + 1
    BY <1>1, <2>1, <2>3, NotifyCount
  <2>5. t \notin listening
    BY <1>1, <1>2
  <2>6. Cardinality(notified)' = Cardinality(notified')
    OBVIOUS
  <2> QED BY <1>1, <2>2, <2>4, <2>5, <2>6
<1>3. CASE t \notin notified
  <2>1. listening' = listening \ {t} /\ notified' = notified
    BY <1>3 DEF DropListener
  <2> QED BY <1>1, <1>3, <2>1
<1> QED BY <1>2, <1>3

(* Every other step of the code and of its callers keeps the invariant. *)
LEMMA OtherSteps ==
  ASSUME Inv, NEW t \in Tasks,
         \/ TryAcquire(t) \/ Acquire(t) \/ DropPermit(t) \/ Abandon(t)
         \/ Listen(t) \/ Leave(t) \/ Wake(t)
         \/ ReleaseLoad(t) \/ ReleaseWon(t) \/ ReleaseLost(t) \/ ReleaseNotify(t)
  PROVE  Inv'
<1> USE DEF PCs, Checking, Owning, Change
<1>0. /\ in_use \in Nat /\ in_use <= Limit /\ pc[t] \in PCs
      /\ seen \in [Tasks -> Nat] /\ pc \in [Tasks -> PCs] /\ Limit \in Nat
      /\ \A u \in Tasks : pc[u] \in Swapping => seen[u] < Limit
      /\ listening \cap notified = {}
      /\ listening \cup notified = At(WithListener)
      /\ TypeOK
  BY LimitAssumption DEF Inv, TypeOK, CounterWithinLimit, SeenBelowLimit, Swapping, WithListener
<1>01. /\ listening \subseteq Tasks /\ notified \subseteq Tasks
       /\ IsFiniteSet(notified) /\ Cardinality(notified) \in Nat
  BY <1>0, ListenersFinite
<1>1. CASE TryAcquire(t) \/ Acquire(t) \/ DropPermit(t)
  BY <1>0, <1>1, QuietMove DEF TryAcquire, Acquire, DropPermit, WithListener, Swapping
<1>2. CASE ReleaseLoad(t)
  BY <1>0, <1>2, QuietMove DEF ReleaseLoad, WithListener, Swapping
<1>3. CASE ReleaseLost(t)
  <2>1. Goto(t, "casR")
    BY <1>0, <1>3 DEF ReleaseLost, Goto
  <2> QED BY <1>0, <1>3, <2>1, QuietMove DEF ReleaseLost, WithListener, Swapping
<1>4. CASE ReleaseWon(t)
  <2>1. Goto(t, "notify") /\ pc[t] = "casR"
    BY <1>4 DEF ReleaseWon
  <2>2. Cardinality(Owners) >= 1
    BY <1>0, <2>1, Moved
  <2>3. in_use' = in_use - 1
    BY <1>0, <1>4, <2>2 DEF ReleaseWon, Inv, SlotsAccounted
  <2> QED BY <1>0, <1>4, <2>2, <2>3, QuietMove
          DEF ReleaseWon, WithListener, Swapping, Inv, SlotsAccounted
<1>5. CASE Listen(t)
  <2>1. Goto(t, "load2") /\ pc[t] = "listen" /\ listening' = listening \cup {t}
        /\ UNCHANGED <<in_use, notified, seen>>
    BY <1>5 DEF Listen
  <2>2. /\ pc' \in [Tasks -> PCs]
        /\ pc'[t] = "load2"
        /\ \A u \in Tasks \ {t} : pc'[u] = pc[u]
    BY <1>0, <2>1, Moved
  <2>3. TypeOK'
    BY <1>0, <2>1, <2>2 DEF TypeOK, At, WithListener
  <2>4. SeenBelowLimit' /\ SlotsAccounted' /\ CounterWithinLimit'
    BY <1>0, <2>1, <2>2, Moved
       DEF SeenBelowLimit, SlotsAccounted, CounterWithinLimit, Inv, Swapping
  <2>5. NoLostWakeup'
    <3>1. Stuck' \subseteq Stuck
      BY <1>01, <2>1, <2>2 DEF Stuck
    <3> QED BY <1>0, <1>01, <2>1, <3>1, Moved DEF NoLostWakeup, Inv
  <2> QED BY <2>3, <2>4, <2>5 DEF Inv
<1>6. CASE Wake(t)
  <2>1. Goto(t, "load1") /\ pc[t] = "parked" /\ t \in notified /\ notified' = notified \ {t}
        /\ UNCHANGED <<in_use, listening, seen>>
    BY <1>6 DEF Wake
  <2>2. /\ pc' \in [Tasks -> PCs]
        /\ pc'[t] = "load1"
        /\ \A u \in Tasks \ {t} : pc'[u] = pc[u]
    BY <1>0, <2>1, Moved
  <2>3. TypeOK'
    BY <1>0, <2>1, <2>2 DEF TypeOK, At, WithListener
  <2>4. SeenBelowLimit' /\ SlotsAccounted' /\ CounterWithinLimit'
    BY <1>0, <2>1, <2>2, Moved
       DEF SeenBelowLimit, SlotsAccounted, CounterWithinLimit, Inv, Swapping
  <2>5. NoLostWakeup'
    <3>1. Stuck' \subseteq Stuck
      BY <1>01, <2>1, <2>2 DEF Stuck
    <3>2. Cardinality(notified)' = Cardinality(notified) - 1
      BY <1>01, <2>1, FS_RemoveElement
    <3> QED BY <1>0, <1>01, <2>1, <3>1, <3>2, Moved DEF NoLostWakeup, Inv
  <2> QED BY <2>3, <2>4, <2>5 DEF Inv
<1>7. CASE ReleaseNotify(t)
  <2>1. Goto(t, "idle") /\ pc[t] = "notify" /\ NotifyAdditional(listening, notified)
        /\ UNCHANGED <<in_use, seen>>
    BY <1>7 DEF ReleaseNotify
  <2>2. /\ pc' \in [Tasks -> PCs]
        /\ pc'[t] = "idle"
        /\ \A u \in Tasks \ {t} : pc'[u] = pc[u]
    BY <1>0, <2>1, Moved
  <2>3. /\ listening' \subseteq listening
        /\ listening' \cup notified' = listening \cup notified
        /\ listening' \cap notified' = {}
        /\ listening = {} => Cardinality(notified') = Cardinality(notified)
        /\ listening # {} => Cardinality(notified') = Cardinality(notified) + 1
    BY <1>0, <1>01, <2>1, NotifyCount
  <2>4. TypeOK'
    BY <1>0, <2>1, <2>2, <2>3 DEF TypeOK, At, WithListener
  <2>5. SeenBelowLimit' /\ SlotsAccounted' /\ CounterWithinLimit'
    BY <1>0, <2>1, <2>2, Moved
       DEF SeenBelowLimit, SlotsAccounted, CounterWithinLimit, Inv, Swapping
  <2>6. NoLostWakeup'
    <3>1. Stuck' \subseteq Stuck /\ Stuck \subseteq listening
      BY <1>01, <2>2, <2>3 DEF Stuck
    <3>2. Stuck' # {} => Cardinality(notified)' = Cardinality(notified) + 1
      BY <2>3, <3>1
    <3> QED BY <1>0, <1>01, <2>1, <3>1, <3>2, Moved DEF NoLostWakeup, Inv
  <2> QED BY <2>4, <2>5, <2>6 DEF Inv
<1>8. CASE Leave(t) \/ Abandon(t)
  <2>1. PICK where \in {"held", "idle"} :
          /\ Goto(t, where)
          /\ pc[t] = (IF where = "held" THEN "leave" ELSE "parked")
          /\ DropListener(t) /\ UNCHANGED <<in_use, seen>>
    BY <1>8 DEF Leave, Abandon
  <2>2. /\ pc' \in [Tasks -> PCs]
        /\ pc'[t] = where
        /\ \A u \in Tasks \ {t} : pc'[u] = pc[u]
    BY <1>0, <2>1, Moved
  <2>3. t \in listening \cup notified
    BY <1>0, <2>1 DEF At, WithListener
  <2>4. /\ listening' \subseteq listening \ {t}
        /\ listening' \cup notified' = (listening \cup notified) \ {t}
        /\ listening' \cap notified' = {}
        /\ Cardinality(notified)' \in Nat
        /\ listening' # {} => Cardinality(notified)' >= Cardinality(notified)
    BY <1>0, <2>1, <2>3, ListenerDropped
  <2>5. TypeOK'
    BY <1>0, <2>1, <2>2, <2>4 DEF TypeOK, At, WithListener
  <2>6. SeenBelowLimit' /\ SlotsAccounted' /\ CounterWithinLimit'
    BY <1>0, <2>1, <2>2, Moved
       DEF SeenBelowLimit, SlotsAccounted, CounterWithinLimit, Inv, Swapping
  <2>7. NoLostWakeup'
    <3>1. Stuck' \subseteq Stuck /\ Stuck' \subseteq listening'
      BY <1>01, <2>2, <2>4 DEF Stuck
    <3>2. Stuck' # {} => Cardinality(notified)' >= Cardinality(notified)
      BY <2>4, <3>1
    <3> QED BY <1>0, <1>01, <2>1, <2>4, <3>1, <3>2, Moved DEF NoLostWakeup, Inv
  <2> QED BY <2>5, <2>6, <2>7 DEF Inv
<1> QED BY <1>1, <1>2, <1>3, <1>4, <1>5, <1>6, <1>7, <1>8

(* The invariant holds of a new bulkhead. *)
LEMMA InitInv == Init => Inv
<1> SUFFICES ASSUME Init PROVE Inv
  OBVIOUS
<1>1. At(Owning) = {} /\ listening = {} /\ notified = {}
  BY DEF Init, At, Owning
<1>2. TypeOK
  BY <1>1 DEF Init, TypeOK, At, PCs
<1>3. SeenBelowLimit
  BY DEF Init, SeenBelowLimit
<1>4. SlotsAccounted /\ CounterWithinLimit
  BY <1>1, FS_EmptySet, LimitAssumption DEF Init, SlotsAccounted, CounterWithinLimit, Owners
<1>5. NoLostWakeup
  BY <1>1 DEF NoLostWakeup, Stuck
<1> QED BY <1>2, <1>3, <1>4, <1>5 DEF Inv

(* Every step, and every stuttering step, keeps the invariant. *)
LEMMA StepInv == Inv /\ [Next]_vars => Inv'
<1>1. ASSUME Inv, Next PROVE Inv'
  <2>1. PICK t \in Tasks : Call(t) \/ Run(t)
    BY <1>1 DEF Next
  <2> QED BY <1>1, <2>1, TryTakeSteps, OtherSteps DEF Call, Run
<1>2. ASSUME Inv, UNCHANGED vars PROVE Inv'
  BY <1>2 DEF vars, Inv, TypeOK, SeenBelowLimit, SlotsAccounted, CounterWithinLimit,
              NoLostWakeup, Stuck, Checkers, Releasing, Owners, At
<1> QED BY <1>1, <1>2

(* The inductive invariant holds of every reachable state. *)
THEOREM Invariance == Spec => []Inv
<1> QED BY InitInv, StepInv, PTL DEF Spec

(* Every variable of the bulkhead keeps its type, and the registered       *)
(* listeners are those of the tasks between listen and the listener's drop.*)
THEOREM TypeCorrect == Spec => []TypeOK
<1>1. Inv => TypeOK
  BY DEF Inv
<1> QED BY <1>1, Invariance, PTL

(* in_use is the number of permits in existence, for any number of tasks   *)
(* and any interleaving of try_take, release, timeout and cancellation.    *)
THEOREM SlotsAccountedAlways == Spec => []SlotsAccounted
<1>1. Inv => SlotsAccounted
  BY DEF Inv
<1> QED BY <1>1, Invariance, PTL

(* A bulkhead of limit n never has more than n permits out.                *)
THEOREM WithinLimitAlways == Spec => []WithinLimit
<1>1. Inv => WithinLimit
  BY DEF Inv, SlotsAccounted, CounterWithinLimit, WithinLimit
<1> QED BY <1>1, Invariance, PTL

(* No release is lost on sleeping waiters.                                 *)
THEOREM NoLostWakeupAlways == Spec => []NoLostWakeup
<1>1. Inv => NoLostWakeup
  BY DEF Inv
<1> QED BY <1>1, Invariance, PTL

(* Every step of the lock-free bulkhead is a step of the abstract          *)
(* semaphore or leaves its owners alone.                                   *)
THEOREM Refinement == Spec => ImplementsSemaphore
<1>1. Init => Abstract!Init
  BY DEF Init, Abstract!Init, Owners, At, Owning
<1>2. ASSUME Inv, Inv', [Next]_vars PROVE [Abstract!Next]_Owners
  <2>1. CASE UNCHANGED vars
    BY <2>1 DEF vars, Owners, At
  <2>2. CASE Next
    <3>1. PICK t \in Tasks : Call(t) \/ Run(t)
      BY <2>2 DEF Next
    <3>2. pc \in [Tasks -> PCs] /\ pc' \in [Tasks -> PCs]
          /\ \A u \in Tasks \ {t} : pc'[u] = pc[u]
      BY <1>2, <3>1
         DEF Inv, TypeOK, Goto, Call, Run, TryAcquire, Acquire, DropPermit, Abandon, TryStep,
             FirstTry, SecondTry, TryTakeLoad, TryTakeWon, TryTakeLost, Listen, Leave, Wake,
             ReleaseLoad, ReleaseWon, ReleaseLost, ReleaseNotify
    <3>3. CASE pc[t] \notin Owning /\ pc'[t] \in Owning
      <4>1. Owners' = Owners \cup {t} /\ t \notin Owners
        BY <3>2, <3>3 DEF Owners, At
      <4>2. IsFiniteSet(Owners)
        BY TasksAssumption, FS_Subset DEF Owners, At
      <4>3. Cardinality(Owners') = Cardinality(Owners) + 1
        BY <4>1, <4>2, FS_AddElement
      <4>4. Cardinality(Owners') <= Limit /\ Cardinality(Owners) \in Nat
        BY <1>2, <4>2, FS_CardinalityType DEF Inv, SlotsAccounted, CounterWithinLimit
      <4>5. Abstract!Cardinality(Owners) = Cardinality(Owners)
        BY DEF Abstract!Cardinality, Cardinality, Abstract!IsFiniteSet, IsFiniteSet
      <4>6. Abstract!Take(t)
        BY <4>1, <4>3, <4>4, <4>5, LimitAssumption DEF Abstract!Take
      <4> QED BY <4>6 DEF Abstract!Next
    <3>4. CASE pc[t] \in Owning /\ pc'[t] \notin Owning
      <4>1. Owners' = Owners \ {t} /\ t \in Owners
        BY <3>2, <3>4 DEF Owners, At
      <4> QED BY <4>1 DEF Abstract!Next, Abstract!GiveBack
    <3>5. CASE (pc[t] \in Owning) = (pc'[t] \in Owning)
      BY <3>2, <3>5 DEF Owners, At
    <3> QED BY <3>3, <3>4, <3>5
  <2> QED BY <1>2, <2>1, <2>2
<1> QED BY <1>1, <1>2, Invariance, PTL DEF Spec, ImplementsSemaphore, Abstract!Spec

-----------------------------------------------------------------------------
(* Queue. *)

(* The operations on the queue's state. *)

Queues == [waiters : Seq(Callers), fresh : Seq(Keys), used : Seq(Keys)]

(* Nobody waits twice, no key has two places in the order, and the key of  *)
(* a waiter has one.                                                       *)
SoundFor(s, f) ==
  /\ s \in Queues
  /\ IsInjective(s.waiters)
  /\ IsInjective(s.fresh) /\ IsInjective(s.used) /\ ToSet(s.fresh) \cap ToSet(s.used) = {}
  /\ \A u \in ToSet(s.waiters) : f[u].key \in ToSet(s.fresh) \cup ToSet(s.used)

Sound(s) == SoundFor(s, tk)

LEMMA SoundOrder ==
  ASSUME NEW s, Sound(s)
  PROVE  /\ Order(s) \in Seq(Keys)
         /\ IsInjective(Order(s))
         /\ ToSet(Order(s)) = ToSet(s.fresh) \cup ToSet(s.used)
<1>1. s.fresh \in Seq(Keys) /\ s.used \in Seq(Keys)
  BY DEF Sound, SoundFor, Queues
<1>2. IsInjective(s.fresh) /\ IsInjective(s.used) /\ ToSet(s.fresh) \cap ToSet(s.used) = {}
  BY DEF Sound, SoundFor
<1> QED BY <1>1, <1>2, Joined DEF Order

(* Forgetting keys keeps those that are waited for. *)
LEMMA KeysPruned ==
  ASSUME NEW s, Sound(s)
  PROVE  Sound(MaybePruneKeys(s)) /\ MaybePruneKeys(s).waiters = s.waiters
<1> DEFINE busy == {tk[u].key : u \in ToSet(s.waiters)}
           S == {0} \cup {i \in DOMAIN s.used : s.used[i] \notin busy}
           floor == Max(S)
           a == SubSeq(s.used, 1, floor)
           b == SubSeq(s.used, floor + 1, Len(s.used))
           f == Keep(s.fresh \o a, busy)
           r == [s EXCEPT !.fresh = f, !.used = b]
<1>1. /\ s \in Queues
      /\ s.waiters \in Seq(Callers) /\ s.fresh \in Seq(Keys) /\ s.used \in Seq(Keys)
  BY DEF Sound, SoundFor, Queues
<1>2. floor \in 0..Len(s.used)
  <2>1. Len(s.used) \in Nat /\ DOMAIN s.used = 1..Len(s.used)
    BY <1>1
  <2>2. S \subseteq 0..Len(s.used) /\ S # {}
    BY <2>1
  <2> HIDE DEF S
  <2>3. floor \in S
    BY <2>1, <2>2, MaxMember
  <2> QED BY <2>2, <2>3
<1>3. MaybePruneKeys(s) \in {s, r}
  <2>1. MaybePruneKeys(s) = IF Len(Order(s)) <= conf.prune_at THEN s ELSE r
    BY DEF MaybePruneKeys
  <2> HIDE DEF r
  <2> QED BY <2>1
<1> HIDE DEF floor
<1>4. /\ a \in Seq(Keys) /\ b \in Seq(Keys)
      /\ ToSet(s.used) = ToSet(a) \cup ToSet(b)
      /\ IsInjective(s.used) => IsInjective(a) /\ IsInjective(b) /\ ToSet(a) \cap ToSet(b) = {}
  BY <1>1, <1>2, CutInTwo
<1> HIDE DEF a, b, busy
<1>5. /\ IsInjective(s.waiters)
      /\ IsInjective(s.fresh) /\ IsInjective(s.used) /\ ToSet(s.fresh) \cap ToSet(s.used) = {}
      /\ \A u \in ToSet(s.waiters) : tk[u].key \in ToSet(s.fresh) \cup ToSet(s.used)
  BY DEF Sound, SoundFor
<1>6. /\ s.fresh \o a \in Seq(Keys) /\ IsInjective(s.fresh \o a)
      /\ ToSet(s.fresh \o a) = ToSet(s.fresh) \cup ToSet(a)
  <2>1. ToSet(s.fresh) \cap ToSet(a) = {}
    BY <1>4, <1>5
  <2> QED BY <1>1, <1>4, <1>5, <2>1, Joined
<1>7. /\ f \in Seq(Keys) /\ IsInjective(f)
      /\ ToSet(f) = (ToSet(s.fresh) \cup ToSet(a)) \cap busy
  <2> DEFINE j == s.fresh \o a
  <2>1. j \in Seq(Keys) /\ IsInjective(j) /\ ToSet(j) = ToSet(s.fresh) \cup ToSet(a)
    BY <1>6
  <2> HIDE DEF j
  <2>2. Keep(j, busy) \in Seq(Keys) /\ IsInjective(Keep(j, busy)) /\ ToSet(Keep(j, busy)) = ToSet(j) \cap busy
    BY <2>1, KeepFacts
  <2> QED BY <2>1, <2>2 DEF j
<1> HIDE DEF f
<1>8. ToSet(f) \cap ToSet(b) = {}
  BY <1>4, <1>5, <1>7
<1>9. \A u \in ToSet(s.waiters) : tk[u].key \in ToSet(f) \cup ToSet(b)
  <2>1. \A u \in ToSet(s.waiters) : tk[u].key \in busy
    BY DEF busy
  <2> QED BY <1>4, <1>5, <1>7, <2>1
<1>10. /\ r.waiters = s.waiters /\ r.fresh = f /\ r.used = b
       /\ r \in Queues
  BY <1>1, <1>4, <1>7 DEF Queues
<1> HIDE DEF r
<1>11. Sound(r)
  BY <1>4, <1>5, <1>7, <1>8, <1>9, <1>10 DEF Sound, SoundFor
<1> QED BY <1>3, <1>10, <1>11

(* remove. *)
LEMMA RemovedFacts ==
  ASSUME NEW s, Sound(s), NEW t
  PROVE  LET r == Removed(s, t)
         IN  /\ Sound(r)
             /\ ToSet(r.waiters) = ToSet(s.waiters) \ {t}
             /\ Len(r.waiters) <= Len(s.waiters)
             /\ t \in ToSet(s.waiters) => Len(r.waiters) < Len(s.waiters)
<1>1. s \in Queues /\ s.waiters \in Seq(Callers)
  BY DEF Sound, SoundFor, Queues
<1>2. CASE t \notin ToSet(s.waiters)
  <2>1. Removed(s, t) = s
    BY <1>2 DEF Removed
  <2>2. Len(s.waiters) <= Len(s.waiters)
    BY <1>1
  <2> QED BY <1>2, <2>1, <2>2
<1>3. CASE t \in ToSet(s.waiters)
  <2> DEFINE w == Without(s.waiters, t)
             g == [s EXCEPT !.waiters = w]
  <2>1. Removed(s, t) = MaybePruneKeys(g)
    BY <1>3 DEF Removed
  <2>2. /\ w \in Seq(Callers) /\ Len(w) <= Len(s.waiters) /\ Len(w) < Len(s.waiters)
        /\ ToSet(w) = ToSet(s.waiters) \ {t}
        /\ IsInjective(s.waiters) => IsInjective(w)
    BY <1>1, <1>3, WithoutFacts
  <2> HIDE DEF w
  <2>3. g.waiters = w /\ g.fresh = s.fresh /\ g.used = s.used /\ g \in Queues
    BY <1>1, <2>2 DEF Queues
  <2> HIDE DEF g
  <2>4. Sound(g)
    BY <2>2, <2>3 DEF Sound, SoundFor
  <2>5. Sound(MaybePruneKeys(g)) /\ MaybePruneKeys(g).waiters = g.waiters
    BY <2>4, KeysPruned
  <2> QED BY <2>1, <2>2, <2>3, <2>5
<1> QED BY <1>2, <1>3

(* prune_expired follows its recursion. *)
Prunes(s, saw, g, n) ==
  /\ g = [i \in 0..n |-> g[i]]
  /\ g[0] = s
  /\ \A i \in 1..n : g[i] = Removed(g[i - 1], saw[i])

LEMMA PrunedExists ==
  ASSUME NEW s, NEW saw \in Seq(Callers), NEW n \in 0..Len(saw)
  PROVE  \E g : Prunes(s, saw, g, n)
<1> DEFINE bad == {m \in 0..Len(saw) : ~\E g : Prunes(s, saw, g, m)}
<1>1. SUFFICES ASSUME bad # {} PROVE FALSE
  OBVIOUS
<1>2. bad \subseteq Nat
  OBVIOUS
<1>3. PICK m \in bad : \A i \in bad : m <= i
  <2> HIDE DEF bad
  <2> QED BY <1>1, <1>2, LeastNumber
<1>4. m \in 0..Len(saw) /\ ~\E g : Prunes(s, saw, g, m)
  OBVIOUS
<1>5. CASE m = 0
  <2> DEFINE g == [i \in 0..0 |-> s]
  <2>1. Prunes(s, saw, g, 0)
    BY DEF Prunes
  <2> QED BY <1>4, <1>5, <2>1
<1>6. CASE m # 0
  <2>1. m - 1 \in 0..Len(saw) /\ m - 1 \notin bad
    <3> HIDE DEF bad
    <3> QED BY <1>3, <1>4, <1>6
  <2>2. PICK g : Prunes(s, saw, g, m - 1)
    BY <2>1
  <2> DEFINE h == [i \in 0..m |-> IF i < m THEN g[i] ELSE Removed(g[m - 1], saw[m])]
  <2>3. h = [i \in 0..m |-> h[i]] /\ h[0] = s
    BY <1>4, <1>6, <2>2 DEF Prunes
  <2>4. ASSUME NEW i \in 1..m PROVE h[i] = Removed(h[i - 1], saw[i])
    <3>1. h[i - 1] = g[i - 1]
      BY <1>4, <1>6
    <3>2. CASE i < m
      <4>1. h[i] = g[i] /\ i \in 1..(m - 1)
        BY <1>4, <3>2
      <4>2. g[i] = Removed(g[i - 1], saw[i])
        BY <2>2, <4>1 DEF Prunes
      <4> HIDE DEF h
      <4> QED BY <3>1, <4>1, <4>2
    <3>3. CASE i = m
      BY <1>4, <3>1, <3>3
    <3> QED BY <1>4, <3>2, <3>3
  <2>5. Prunes(s, saw, h, m)
    <3> HIDE DEF h
    <3> QED BY <2>3, <2>4 DEF Prunes
  <2> QED BY <1>4, <2>5
<1> QED BY <1>5, <1>6

LEMMA PrunedPrunes ==
  ASSUME NEW s, NEW saw \in Seq(Callers)
  PROVE  Prunes(s, saw, Pruned(s, saw), Len(saw))
<1> DEFINE F(f) == [n \in 0..Len(saw) |-> IF n = 0 THEN s ELSE Removed(f[n - 1], saw[n])]
<1>1. Len(saw) \in 0..Len(saw)
  OBVIOUS
<1>2. PICK g : Prunes(s, saw, g, Len(saw))
  BY <1>1, PrunedExists
<1>3. g = F(g)
  <2>1. g = [n \in 0..Len(saw) |-> g[n]]
    BY <1>2 DEF Prunes
  <2>2. \A n \in 0..Len(saw) : g[n] = F(g)[n]
    BY <1>2 DEF Prunes
  <2>3. F(g) = [n \in 0..Len(saw) |-> F(g)[n]]
    OBVIOUS
  <2> HIDE DEF F
  <2> QED BY <2>1, <2>2, <2>3
<1>4. Pruned(s, saw) = CHOOSE f : f = F(f)
  BY DEF Pruned
<1>5. Pruned(s, saw) = F(Pruned(s, saw))
  <2> HIDE DEF F
  <2> QED BY <1>3, <1>4
<1> DEFINE k == Pruned(s, saw)
<1>6. k = F(k)
  BY <1>5
<1> HIDE DEF k
<1>7. k = [i \in 0..Len(saw) |-> k[i]] /\ k[0] = s
  BY <1>1, <1>6
<1>8. ASSUME NEW i \in 1..Len(saw) PROVE k[i] = Removed(k[i - 1], saw[i])
  <2>1. F(k)[i] = Removed(k[i - 1], saw[i])
    OBVIOUS
  <2> HIDE DEF F
  <2> QED BY <1>6, <2>1
<1>9. Prunes(s, saw, k, Len(saw))
  BY <1>7, <1>8 DEF Prunes
<1> QED BY <1>9 DEF k

(* Nobody comes in by pruning, and a reading that saw no deadline pass     *)
(* changes nothing.                                                        *)
LEMMA PruneFacts ==
  ASSUME NEW s, Sound(s), NEW saw \in Seq(Callers)
  PROVE  LET r == Prune(s, saw)
         IN  /\ Sound(r)
             /\ ToSet(r.waiters) \subseteq ToSet(s.waiters)
             /\ Len(r.waiters) <= Len(s.waiters)
             /\ saw = <<>> => r = s
<1> DEFINE k == Pruned(s, saw)
           good(n) == /\ Sound(k[n])
                      /\ ToSet(k[n].waiters) \subseteq ToSet(s.waiters)
                      /\ Len(k[n].waiters) <= Len(s.waiters)
           bad == {m \in 0..Len(saw) : ~good(m)}
<1>1. Prunes(s, saw, k, Len(saw))
  BY PrunedPrunes
<1> HIDE DEF k
<1>2. k[0] = s
  BY <1>1 DEF Prunes
<1>3. s.waiters \in Seq(Callers) /\ Len(s.waiters) \in Nat
  BY DEF Sound, SoundFor, Queues
<1>4. good(0)
  BY <1>2, <1>3
<1>5. ASSUME NEW n \in 1..Len(saw), good(n - 1) PROVE good(n)
  <2> DEFINE p == k[n - 1]
             r == Removed(p, saw[n])
  <2>1. k[n] = r
    BY <1>1 DEF Prunes
  <2>2. Sound(p) /\ ToSet(p.waiters) \subseteq ToSet(s.waiters) /\ Len(p.waiters) <= Len(s.waiters)
    BY <1>5
  <2> HIDE DEF p
  <2>3. Sound(r) /\ ToSet(r.waiters) = ToSet(p.waiters) \ {saw[n]} /\ Len(r.waiters) <= Len(p.waiters)
    BY <2>2, RemovedFacts
  <2> HIDE DEF r
  <2>4. Len(p.waiters) \in Nat /\ Len(r.waiters) \in Nat
    <3>1. p.waiters \in Seq(Callers) /\ r.waiters \in Seq(Callers)
      BY <2>2, <2>3 DEF Sound, SoundFor, Queues
    <3> QED BY <3>1
  <2>5. Len(r.waiters) <= Len(s.waiters)
    BY <1>3, <2>2, <2>3, <2>4
  <2>6. ToSet(r.waiters) \subseteq ToSet(s.waiters)
    BY <2>2, <2>3
  <2> QED BY <2>1, <2>3, <2>5, <2>6
<1> HIDE DEF good
<1>6. bad \subseteq Nat
  OBVIOUS
<1>7. bad = {}
  <2> SUFFICES ASSUME bad # {} PROVE FALSE
    OBVIOUS
  <2>1. PICK m \in bad : \A i \in bad : m <= i
    <3> HIDE DEF bad
    <3> QED BY <1>6, LeastNumber
  <2>2. m \in 1..Len(saw) /\ m - 1 \in 0..Len(saw)
    BY <1>4
  <2>3. m - 1 \notin bad
    <3> HIDE DEF bad
    <3> QED BY <2>1, <2>2
  <2> QED BY <1>5, <2>2, <2>3
<1>8. good(Len(saw))
  BY <1>7
<1>9. Prune(s, saw) = k[Len(saw)]
  BY DEF Prune, k
<1>10. saw = <<>> => Len(saw) = 0
  OBVIOUS
<1> QED BY <1>2, <1>8, <1>9, <1>10 DEF good

-----------------------------------------------------------------------------
(* The turn. *)

(* The turn is nobody's, or that of a waiter. *)
LEMMA WinnerWaits ==
  ASSUME NEW s, Sound(s), \A u \in ToSet(s.waiters) : tk[u].prio \in Nat
  PROVE  Winner(s) \in ToSet(s.waiters) \cup {NoTask}
<1> DEFINE w == s.waiters
           best == {i \in DOMAIN w : \A j \in DOMAIN w : tk[w[j]].prio <= tk[w[i]].prio}
           rank(i) == CHOOSE n \in DOMAIN Order(s) : Order(s)[n] = tk[w[i]].key
           fair == {i \in best : \A j \in best : rank(i) <= rank(j)}
           x == CHOOSE i \in fair : \A j \in fair : i <= j
<1>1. Winner(s) = IF w = <<>> THEN NoTask ELSE w[x]
  BY DEF Winner
<1>2. CASE w = <<>>
  BY <1>1, <1>2
<1>3. CASE w # <<>>
  <2>1. w \in Seq(Callers) /\ DOMAIN w = 1..Len(w) /\ Len(w) \in Nat /\ Len(w) # 0
    BY <1>3 DEF Sound, SoundFor, Queues
  <2>2. \A i \in DOMAIN w : w[i] \in ToSet(w)
    BY DEF ToSet
  <2>3. best # {}
    <3> DEFINE p == [i \in DOMAIN w |-> tk[w[i]].prio]
    <3>1. \A i \in DOMAIN w : p[i] \in Nat
      BY <2>2
    <3>2. DOMAIN w # {}
      <4>1. 1 \in 1..Len(w)
        BY <2>1
      <4> QED BY <2>1, <4>1
    <3>3. \A i \in DOMAIN w : p[i] = tk[w[i]].prio
      OBVIOUS
    <3> HIDE DEF p
    <3>4. \E i \in DOMAIN w : \A j \in DOMAIN w : p[j] <= p[i]
      BY <2>1, <3>1, <3>2, Extremes
    <3> QED BY <3>3, <3>4
  <2>4. best \subseteq 1..Len(w)
    BY <2>1
  <2>5. \A i \in best : rank(i) \in Nat
    <3> SUFFICES ASSUME NEW i \in best PROVE rank(i) \in Nat
      OBVIOUS
    <3> HIDE DEF best, rank
    <3>1. Order(s) \in Seq(Keys) /\ ToSet(Order(s)) = ToSet(s.fresh) \cup ToSet(s.used)
      BY SoundOrder
    <3>2. w[i] \in ToSet(w)
      BY <2>1, <2>2, <2>4
    <3>3. tk[w[i]].key \in ToSet(Order(s))
      BY <3>1, <3>2 DEF Sound, SoundFor
    <3>4. \E n \in DOMAIN Order(s) : Order(s)[n] = tk[w[i]].key
      BY <3>3 DEF ToSet
    <3>5. rank(i) \in DOMAIN Order(s)
      BY <3>4, Zenon DEF rank
    <3>6. DOMAIN Order(s) \subseteq Nat
      BY <3>1
    <3> QED BY <3>5, <3>6
  <2>6. fair # {}
    <3> DEFINE r == [i \in best |-> rank(i)]
    <3>1. \A i \in best : r[i] \in Nat /\ r[i] = rank(i)
      <4> HIDE DEF rank, best
      <4> QED BY <2>5
    <3> HIDE DEF r, rank, best
    <3>2. \E i \in best : \A j \in best : r[i] <= r[j]
      BY <2>1, <2>3, <2>4, <3>1, Extremes
    <3> QED BY <3>1, <3>2
  <2>7. fair \subseteq 1..Len(w)
    <3> HIDE DEF best, rank
    <3> QED BY <2>4
  <2>8. fair \subseteq Nat
    <3> HIDE DEF fair
    <3> QED BY <2>7
  <2>9. x \in fair
    <3> HIDE DEF fair
    <3> QED BY <2>6, <2>8, MinMember
  <2>10. x \in DOMAIN w
    <3> HIDE DEF fair, x
    <3> QED BY <2>1, <2>7, <2>9
  <2> HIDE DEF x
  <2> QED BY <1>1, <1>3, <2>2, <2>10
<1> QED BY <1>2, <1>3

(* So is the weakest. *)
LEMMA WeakestWaits ==
  ASSUME NEW w \in Seq(Callers), w # <<>>, \A u \in ToSet(w) : tk[u].prio \in Nat
  PROVE  Weakest(w) \in ToSet(w)
<1> DEFINE low == {i \in DOMAIN w : \A j \in DOMAIN w : tk[w[i]].prio <= tk[w[j]].prio}
           x == CHOOSE i \in low : \A j \in low : j <= i
<1>1. DOMAIN w = 1..Len(w) /\ Len(w) \in Nat /\ Len(w) # 0
  OBVIOUS
<1>2. \A i \in DOMAIN w : w[i] \in ToSet(w)
  BY DEF ToSet
<1>3. low # {}
  <2> DEFINE p == [i \in DOMAIN w |-> tk[w[i]].prio]
  <2>1. \A i \in DOMAIN w : p[i] \in Nat
    BY <1>2
  <2>2. DOMAIN w # {}
    <3>1. 1 \in 1..Len(w)
      BY <1>1
    <3> QED BY <1>1, <3>1
  <2>3. \A i \in DOMAIN w : p[i] = tk[w[i]].prio
    OBVIOUS
  <2> HIDE DEF p
  <2>4. \E i \in DOMAIN w : \A j \in DOMAIN w : p[i] <= p[j]
    BY <1>1, <2>1, <2>2, Extremes
  <2> QED BY <2>3, <2>4
<1>4. low \subseteq 0..Len(w)
  BY <1>1
<1>5. x \in low
  <2> HIDE DEF low
  <2> QED BY <1>1, <1>3, <1>4, LastMember
<1>6. x \in DOMAIN w
  <2>1. low \subseteq DOMAIN w
    OBVIOUS
  <2> HIDE DEF low, x
  <2> QED BY <1>5, <2>1
<1>7. Weakest(w) = w[x]
  BY DEF Weakest
<1> HIDE DEF x
<1> QED BY <1>2, <1>6, <1>7

(* The turn depends on the waiters' priorities and keys only. *)
WinnerOf(s, f) ==
  LET w == s.waiters
      best == {i \in DOMAIN w : \A j \in DOMAIN w : f[w[j]].prio <= f[w[i]].prio}
      rank(i) == CHOOSE n \in DOMAIN Order(s) : Order(s)[n] = f[w[i]].key
      fair == {i \in best : \A j \in best : rank(i) <= rank(j)}
  IN  IF w = <<>> THEN NoTask ELSE w[CHOOSE i \in fair : \A j \in fair : i <= j]

LEMMA WinnerSame ==
  ASSUME NEW s, NEW f, NEW g,
         \A u \in ToSet(s.waiters) : f[u].prio = g[u].prio /\ f[u].key = g[u].key
  PROVE  WinnerOf(s, f) = WinnerOf(s, g)
<1> DEFINE w == s.waiters
           best(h) == {i \in DOMAIN w : \A j \in DOMAIN w : h[w[j]].prio <= h[w[i]].prio}
           place(k) == CHOOSE n \in DOMAIN Order(s) : Order(s)[n] = k
           rank(h, i) == place(h[w[i]].key)
           fair(h) == {i \in best(h) : \A j \in best(h) : rank(h, i) <= rank(h, j)}
<1>1. \A i \in DOMAIN w : f[w[i]].prio = g[w[i]].prio /\ f[w[i]].key = g[w[i]].key
  BY DEF ToSet
<1>2. best(f) = best(g)
  BY <1>1
<1>3. \A i \in best(f) : rank(f, i) = rank(g, i)
  <2> SUFFICES ASSUME NEW i \in best(f) PROVE rank(f, i) = rank(g, i)
    OBVIOUS
  <2>1. f[w[i]].key = g[w[i]].key
    BY <1>1
  <2>2. rank(f, i) = place(f[w[i]].key) /\ rank(g, i) = place(g[w[i]].key)
    BY Zenon
  <2> HIDE DEF place, rank
  <2> QED BY <2>1, <2>2
<1>4. fair(f) = fair(g)
  <2> HIDE DEF best, rank
  <2> QED BY <1>2, <1>3
<1> DEFINE first(S) == CHOOSE i \in S : \A j \in S : i <= j
<1>5. /\ WinnerOf(s, f) = IF w = <<>> THEN NoTask ELSE w[first(fair(f))]
      /\ WinnerOf(s, g) = IF w = <<>> THEN NoTask ELSE w[first(fair(g))]
  BY Zenon DEF WinnerOf
<1>6. first(fair(f)) = first(fair(g))
  <2> HIDE DEF fair, first
  <2> QED BY <1>4
<1> HIDE DEF fair, first
<1> QED BY <1>5, <1>6

LEMMA WinnerNow == \A s : Winner(s) = WinnerOf(s, tk)
BY Zenon DEF Winner, WinnerOf

LEMMA WinnerNext == Winner(q)' = WinnerOf(q', tk')
BY DEF Winner, WinnerOf, Order

-----------------------------------------------------------------------------
(* The inductive invariant. *)

Untimed == TRUE \notin conf.deadlines

TaskStates ==
  [pc : Waiting \cup {"idle", "register"}, prio : Nat, key : Keys \cup {NoTask}, dl : BOOLEAN,
   sig : {"none", "listening", "notified"}, evicted : BOOLEAN, turn : BOOLEAN, saw : Seq(Callers)]

(* A task that has looked whether it was evicted listens, and if it was    *)
(* evicted since, it has been notified.                                    *)
Fine(me) ==
  /\ me \in TaskStates
  /\ me.pc # "idle" => me.key \in Keys
  /\ me.pc \in {"idle", "register"} => ~me.evicted
  /\ me.pc \in {"check", "clock", "turn", "asleep"} => me.sig # "none"
  /\ me.pc \in {"clock", "turn", "asleep"} /\ me.evicted => me.sig = "notified"
  /\ Untimed => ~me.dl /\ me.saw = <<>>

AllFine(f) == f \in [Callers -> TaskStates] /\ \A t \in Callers : Fine(f[t])

(* Those in the queue wait, and were not evicted. *)
Seated(s, f) == \A u \in ToSet(s.waiters) : f[u].pc \in Waiting /\ ~f[u].evicted

Timing(e) == e \in Seq(Callers) /\ (Untimed => e = <<>>)

QueueInv ==
  /\ conf \in Configs
  /\ Timing(expired)
  /\ AllFine(tk)
  /\ Sound(q)
  /\ Len(q.waiters) <= Capacity
  /\ Seated(q, tk)
  /\ TurnHolderIsWoken

(* What a step makes of the queue and of the tasks: the waiters keep       *)
(* their priorities and keys, and whoever has the turn then is told.       *)
Agree(s, f) == \A u \in ToSet(s.waiters) : f[u].prio = tk[u].prio /\ f[u].key = tk[u].key

Turned(s, f) ==
  LET t == Winner(s)
  IN  Untimed /\ t # NoTask /\ f[t].pc = "asleep" => f[t].turn \/ f[t].sig = "notified"

GoodQueue(s, f) ==
  /\ Sound(s) /\ Len(s.waiters) <= Capacity
  /\ AllFine(f) /\ Seated(s, f) /\ Agree(s, f) /\ Turned(s, f)

LEMMA ConfFacts ==
  ASSUME conf \in Configs
  PROVE  /\ conf.overflow \in {"Reject", "DropOldest", "DropLowestPriority"}
         /\ conf.prios \subseteq Nat /\ conf.deadlines \subseteq BOOLEAN
BY QueueAssumption

LEMMA GoodStep ==
  ASSUME QueueInv, NEW s, NEW f, GoodQueue(s, f), q' = s, tk' = f, conf' = conf, Timing(expired')
  PROVE  QueueInv'
<1>1. Sound(q)'
  <2>1. SoundFor(s, tk) /\ Agree(s, f)
    BY DEF GoodQueue, Sound
  <2>2. SoundFor(s, f)
    BY <2>1 DEF SoundFor, Agree
  <2> QED BY <2>2 DEF Sound
<1>2. Winner(q)' = Winner(s)
  <2>1. \A u \in ToSet(s.waiters) : f[u].prio = tk[u].prio /\ f[u].key = tk[u].key
    BY DEF GoodQueue, Agree
  <2>2. WinnerOf(s, f) = WinnerOf(s, tk)
    BY <2>1, WinnerSame
  <2> QED BY <2>2, WinnerNow, WinnerNext
<1>3. TurnHolderIsWoken'
  <2>1. TurnHolderIsWoken' =
          (TRUE \notin conf'.deadlines /\ Winner(q)' # NoTask /\ tk'[Winner(q)'].pc = "asleep" =>
            tk'[Winner(q)'].turn \/ tk'[Winner(q)'].sig = "notified")
    BY DEF TurnHolderIsWoken
  <2>2. TRUE \notin conf.deadlines /\ Winner(s) # NoTask /\ f[Winner(s)].pc = "asleep" =>
            f[Winner(s)].turn \/ f[Winner(s)].sig = "notified"
    BY DEF GoodQueue, Turned, Untimed
  <2> QED BY <1>2, <2>1, <2>2
<1>4. AllFine(tk)' /\ Seated(q, tk)'
  BY DEF GoodQueue, AllFine, Fine, Untimed, Seated, TaskStates
<1>5. conf' \in Configs /\ Timing(expired)'
  BY DEF QueueInv, Timing, Untimed
<1>6. Len(q'.waiters) <= Capacity
  BY DEF GoodQueue
<1> QED BY <1>1, <1>3, <1>4, <1>5, <1>6 DEF QueueInv

(* The facts of a state that the steps use. *)
LEMMA QueueFacts ==
  ASSUME QueueInv
  PROVE  /\ conf \in Configs /\ Timing(expired) /\ AllFine(tk)
         /\ Sound(q) /\ Len(q.waiters) <= Capacity /\ Seated(q, tk)
         /\ Agree(q, tk) /\ Turned(q, tk)
         /\ q \in Queues /\ q.waiters \in Seq(Callers) /\ ToSet(q.waiters) \subseteq Callers
         /\ \A u \in ToSet(q.waiters) : tk[u].prio \in Nat
<1>1. /\ conf \in Configs /\ Timing(expired) /\ AllFine(tk)
      /\ Sound(q) /\ Len(q.waiters) <= Capacity /\ Seated(q, tk) /\ TurnHolderIsWoken
  BY DEF QueueInv
<1>2. Turned(q, tk)
  BY <1>1 DEF TurnHolderIsWoken, Turned, Untimed
<1>3. Agree(q, tk)
  BY DEF Agree
<1>4. q \in Queues /\ q.waiters \in Seq(Callers)
  BY <1>1 DEF Sound, SoundFor, Queues
<1>5. ToSet(q.waiters) \subseteq Callers
  BY <1>4, Members
<1>6. \A u \in Callers : tk[u].prio \in Nat
  BY <1>1 DEF AllFine, TaskStates
<1> QED BY <1>1, <1>2, <1>3, <1>4, <1>5, <1>6

(* The turn-holder of a queue is told: the same task, whichever of the     *)
(* states agree about the waiters.                                         *)
LEMMA WakesWinner ==
  ASSUME QueueInv, NEW s, Sound(s), Len(s.waiters) <= Capacity, NEW g, AllFine(g), Seated(s, g), Agree(s, g)
  PROVE  GoodQueue(s, WakeWinner(s, g))
<1> DEFINE t == Winner(s)
           f == WakeWinner(s, g)
<1>1. s.waiters \in Seq(Callers) /\ ToSet(s.waiters) \subseteq Callers
  <2>1. s.waiters \in Seq(Callers)
    BY DEF Sound, SoundFor, Queues
  <2> QED BY <2>1, Members
<1>2. t \in ToSet(s.waiters) \cup {NoTask}
  <2>1. \A u \in Callers : tk[u].prio \in Nat
    BY QueueFacts DEF AllFine, TaskStates
  <2> QED BY <1>1, <2>1, WinnerWaits
<1> HIDE DEF t
<1>3. CASE t = NoTask
  <2>1. f = g
    BY <1>3 DEF WakeWinner, t
  <2>2. Turned(s, g)
    BY <1>3 DEF Turned, t
  <2> QED BY <2>1, <2>2 DEF GoodQueue
<1>4. CASE t # NoTask
  <2>1. t \in Callers /\ t \in ToSet(s.waiters)
    BY <1>1, <1>2, <1>4
  <2>2. f = [g EXCEPT ![t] = Wakened(g[t])]
    BY <1>4 DEF WakeWinner, t
  <2> HIDE DEF f
  <2>3. g \in [Callers -> TaskStates] /\ Fine(g[t]) /\ g[t] \in TaskStates
    BY <2>1 DEF AllFine
  <2> DEFINE me == g[t]
             him == Wakened(me)
  <2>4. him \in TaskStates /\ him.pc = me.pc /\ him.prio = me.prio /\ him.key = me.key
        /\ him.evicted = me.evicted /\ him.turn = me.turn /\ him.dl = me.dl /\ him.saw = me.saw
        /\ him.sig = (IF me.sig = "listening" THEN "notified" ELSE me.sig)
    <3> HIDE DEF me
    <3> QED BY <2>3 DEF Wakened, TaskStates, me
  <2>5. Fine(him)
    <3> HIDE DEF me, him
    <3> QED BY <2>3, <2>4 DEF Fine, me
  <2>6. f \in [Callers -> TaskStates] /\ f[t] = him /\ \A u \in Callers : u # t => f[u] = g[u]
    <3> HIDE DEF him
    <3> QED BY <2>1, <2>2, <2>3, <2>4 DEF him, me
  <2>7. AllFine(f)
    <3> HIDE DEF him
    <3> QED BY <2>5, <2>6 DEF AllFine
  <2>8. \A u \in Callers : f[u].pc = g[u].pc /\ f[u].prio = g[u].prio /\ f[u].key = g[u].key
                         /\ f[u].evicted = g[u].evicted
    <3> HIDE DEF him
    <3> QED BY <2>4, <2>6 DEF me
  <2>9. Seated(s, f) /\ Agree(s, f)
    BY <1>1, <2>8 DEF Seated, Agree
  <2>10. Turned(s, f)
    <3>1. ASSUME f[t].pc = "asleep" PROVE f[t].sig = "notified"
      <4>1. me.pc = "asleep" /\ f[t].sig = him.sig
        <5> HIDE DEF him
        <5> QED BY <2>4, <2>6, <3>1
      <4>2. me.sig # "none" /\ me.sig \in {"none", "listening", "notified"}
        <5> HIDE DEF me
        <5> QED BY <2>3, <4>1 DEF Fine, TaskStates, me
      <4> HIDE DEF him, me
      <4> QED BY <2>4, <4>1, <4>2
    <3> QED BY <3>1 DEF Turned, t
  <2> QED BY <2>7, <2>9, <2>10 DEF GoodQueue, f
<1> QED BY <1>3, <1>4

-----------------------------------------------------------------------------
(* The steps. *)

(* One task moves, and the queue at most loses waiters. *)
LEMMA CallMoved ==
  ASSUME QueueInv, NEW t \in Callers, NEW me, Fine(me),
         NEW s, Sound(s), ToSet(s.waiters) \subseteq ToSet(q.waiters), Len(s.waiters) <= Capacity,
         Untimed => s = q,
         t \in ToSet(s.waiters) =>
           me.pc \in Waiting /\ ~me.evicted /\ me.prio = tk[t].prio /\ me.key = tk[t].key,
         Untimed /\ me.pc = "asleep" => me.turn \/ Winner(s) # t
  PROVE  GoodQueue(s, [tk EXCEPT ![t] = me])
<1> DEFINE f == [tk EXCEPT ![t] = me]
<1>1. AllFine(tk) /\ Seated(q, tk) /\ ToSet(q.waiters) \subseteq Callers
  BY QueueFacts
<1>2. me \in TaskStates /\ tk \in [Callers -> TaskStates]
  BY <1>1 DEF Fine, AllFine
<1>3. f \in [Callers -> TaskStates] /\ f[t] = me /\ \A u \in Callers : u # t => f[u] = tk[u]
  BY <1>2
<1> HIDE DEF f
<1>4. AllFine(f)
  BY <1>1, <1>3 DEF AllFine
<1>5. Seated(s, f) /\ Agree(s, f)
  <2>1. ASSUME NEW u \in ToSet(s.waiters)
        PROVE  f[u].pc \in Waiting /\ ~f[u].evicted /\ f[u].prio = tk[u].prio /\ f[u].key = tk[u].key
    <3>1. u \in ToSet(q.waiters) /\ u \in Callers
      BY <1>1
    <3>2. CASE u = t
      BY <1>3, <3>2
    <3>3. CASE u # t
      <4>1. tk[u].pc \in Waiting /\ ~tk[u].evicted
        BY <1>1, <3>1 DEF Seated
      <4> QED BY <1>3, <3>1, <3>3, <4>1
    <3> QED BY <3>2, <3>3
  <2> QED BY <2>1 DEF Seated, Agree
<1>6. Turned(s, f)
  <2> DEFINE w == Winner(s)
  <2>1. SUFFICES ASSUME Untimed, w # NoTask, f[w].pc = "asleep"
                 PROVE  f[w].turn \/ f[w].sig = "notified"
    BY DEF Turned
  <2>2. s = q /\ Turned(q, tk)
    BY <2>1, QueueFacts
  <2>3. w \in Callers
    <3>1. w \in ToSet(q.waiters) \cup {NoTask}
      BY <2>2, QueueFacts, WinnerWaits
    <3> QED BY <1>1, <2>1, <3>1
  <2>4. CASE w = t
    BY <1>3, <2>1, <2>4
  <2>5. CASE w # t
    <3>1. f[w] = tk[w]
      BY <1>3, <2>3, <2>5
    <3>2. tk[w].turn \/ tk[w].sig = "notified"
      BY <2>1, <2>2, <3>1 DEF Turned
    <3> QED BY <3>1, <3>2
  <2> QED BY <2>4, <2>5
<1> QED BY <1>4, <1>5, <1>6 DEF GoodQueue, f

LEMMA OneMoves ==
  ASSUME QueueInv, NEW t \in Callers, NEW me, Fine(me), me.pc # "asleep", me.pc \in Waiting,
         t \in ToSet(q.waiters) => ~me.evicted,
         me.prio = tk[t].prio, me.key = tk[t].key
  PROVE  GoodQueue(q, [tk EXCEPT ![t] = me])
<1>1. Sound(q) /\ Len(q.waiters) <= Capacity
  BY QueueFacts
<1> QED BY <1>1, CallMoved

(* The deadline of a call that is over. *)
LEMMA WithoutTiming ==
  ASSUME NEW e, Timing(e), NEW t
  PROVE  Timing(Without(e, t))
<1>1. e \in Seq(Callers) /\ (Untimed => e = <<>>)
  BY DEF Timing
<1>2. Without(e, t) \in Seq(Callers) /\ Len(Without(e, t)) <= Len(e)
  BY <1>1, WithoutFacts
<1> DEFINE w == Without(e, t)
<1> HIDE DEF w
<1>3. w \in Seq(Callers) /\ Len(w) <= Len(e)
  BY <1>2 DEF w
<1>4. e = <<>> => w = <<>>
  BY <1>3
<1> QED BY <1>1, <1>3, <1>4 DEF Timing, w

LEMMA OverTiming ==
  ASSUME QueueInv, NEW t, Over(t)
  PROVE  conf' = conf /\ Timing(expired')
<1>1. Timing(expired)
  BY QueueFacts
<1> QED BY <1>1, WithoutTiming DEF Over

LEMMA ClockTiming ==
  ASSUME QueueInv, UNCHANGED Clock
  PROVE  conf' = conf /\ Timing(expired')
BY QueueFacts DEF Clock

LEMMA IdleFine == Fine(Idle) /\ Idle.pc = "idle"
BY EmptySeq DEF Fine, Idle, TaskStates

LEMMA TaskFacts ==
  ASSUME QueueInv, NEW t \in Callers
  PROVE  /\ Fine(tk[t]) /\ tk[t] \in TaskStates /\ tk[t].saw \in Seq(Callers)
         /\ t \in ToSet(q.waiters) => tk[t].pc \in Waiting /\ ~tk[t].evicted
<1>1. AllFine(tk) /\ Seated(q, tk)
  BY QueueFacts
<1>2. Fine(tk[t]) /\ tk[t] \in TaskStates
  BY <1>1 DEF AllFine
<1> QED BY <1>1, <1>2 DEF Seated, TaskStates

LEMMA ListenStep ==
  ASSUME QueueInv, NEW t \in Callers, ListenTurn(t)
  PROVE  QueueInv'
<1> DEFINE old == tk[t]
           me == [old EXCEPT !.pc = "check", !.sig = "listening"]
<1>1. Fine(old) /\ old \in TaskStates /\ (t \in ToSet(q.waiters) => ~old.evicted) /\ old.pc = "loop"
  BY TaskFacts DEF ListenTurn
<1>2. tk' = [tk EXCEPT ![t] = me] /\ q' = q /\ UNCHANGED Clock
  BY DEF ListenTurn, Become
<1> HIDE DEF old
<1>3. Fine(me) /\ me.pc = "check" /\ me.evicted = old.evicted /\ me.prio = old.prio /\ me.key = old.key
  BY <1>1 DEF Fine, TaskStates, Waiting
<1> HIDE DEF me
<1>4. GoodQueue(q, [tk EXCEPT ![t] = me])
  BY <1>1, <1>3, OneMoves DEF old, Waiting
<1> QED BY <1>2, <1>4, ClockTiming, GoodStep

LEMMA CheckEvictedStep ==
  ASSUME QueueInv, NEW t \in Callers, CheckEvicted(t)
  PROVE  QueueInv'
<1> DEFINE old == tk[t]
           me == [old EXCEPT !.pc = IF old.evicted THEN "leave" ELSE "clock"]
<1>1. Fine(old) /\ old \in TaskStates /\ (t \in ToSet(q.waiters) => ~old.evicted) /\ old.pc = "check"
  BY TaskFacts DEF CheckEvicted
<1>2. tk' = [tk EXCEPT ![t] = me] /\ q' = q /\ UNCHANGED Clock
  BY DEF CheckEvicted, Become
<1> HIDE DEF old
<1>3. Fine(me) /\ me.pc \in {"leave", "clock"} /\ me.evicted = old.evicted /\ me.prio = old.prio /\ me.key = old.key
  BY <1>1 DEF Fine, TaskStates, Waiting
<1> HIDE DEF me
<1>4. GoodQueue(q, [tk EXCEPT ![t] = me])
  BY <1>1, <1>3, OneMoves DEF old, Waiting
<1> QED BY <1>2, <1>4, ClockTiming, GoodStep

LEMMA CheckDeadlineStep ==
  ASSUME QueueInv, NEW t \in Callers, CheckDeadline(t)
  PROVE  QueueInv'
<1> DEFINE old == tk[t]
           me == IF t \in ToSet(expired) THEN [old EXCEPT !.pc = "leave"]
                 ELSE [old EXCEPT !.pc = "turn", !.saw = expired]
<1>1. Fine(old) /\ old \in TaskStates /\ (t \in ToSet(q.waiters) => ~old.evicted) /\ old.pc = "clock"
  BY TaskFacts DEF CheckDeadline
<1>2. tk' = [tk EXCEPT ![t] = me] /\ q' = q /\ UNCHANGED Clock
  BY DEF CheckDeadline, Become
<1>3. expired \in Seq(Callers) /\ (Untimed => expired = <<>>)
  BY QueueFacts DEF Timing
<1> HIDE DEF old
<1>4. Fine(me) /\ me.pc \in {"leave", "turn"} /\ me.evicted = old.evicted /\ me.prio = old.prio /\ me.key = old.key
  BY <1>1, <1>3 DEF Fine, TaskStates, Waiting
<1> HIDE DEF me
<1>5. GoodQueue(q, [tk EXCEPT ![t] = me])
  BY <1>1, <1>4, OneMoves DEF old, Waiting
<1> QED BY <1>2, <1>5, ClockTiming, GoodStep

LEMMA WakeStep ==
  ASSUME QueueInv, NEW t \in Callers, WakeUp(t)
  PROVE  QueueInv'
<1> DEFINE old == tk[t]
           me == [old EXCEPT !.pc = "loop", !.sig = "none", !.turn = FALSE]
<1>1. Fine(old) /\ old \in TaskStates /\ (t \in ToSet(q.waiters) => ~old.evicted) /\ old.pc = "asleep"
  BY TaskFacts DEF WakeUp
<1>2. tk' = [tk EXCEPT ![t] = me] /\ q' = q /\ UNCHANGED Clock
  BY DEF WakeUp, Become
<1> HIDE DEF old
<1>3. Fine(me) /\ me.pc = "loop" /\ me.evicted = old.evicted /\ me.prio = old.prio /\ me.key = old.key
  BY <1>1 DEF Fine, TaskStates, Waiting
<1> HIDE DEF me
<1>4. GoodQueue(q, [tk EXCEPT ![t] = me])
  BY <1>1, <1>3, OneMoves DEF old, Waiting
<1> QED BY <1>2, <1>4, ClockTiming, GoodStep

LEMMA CancelStep ==
  ASSUME QueueInv, NEW t \in Callers, Cancel(t)
  PROVE  QueueInv'
<1> DEFINE old == tk[t]
           me == [old EXCEPT !.pc = "leave", !.turn = FALSE]
<1>1. Fine(old) /\ old \in TaskStates /\ (t \in ToSet(q.waiters) => ~old.evicted) /\ old.pc = "asleep"
  BY TaskFacts DEF Cancel
<1>2. tk' = [tk EXCEPT ![t] = me] /\ q' = q /\ UNCHANGED Clock
  BY DEF Cancel, Become
<1> HIDE DEF old
<1>3. Fine(me) /\ me.pc = "leave" /\ me.evicted = old.evicted /\ me.prio = old.prio /\ me.key = old.key
  BY <1>1 DEF Fine, TaskStates, Waiting
<1> HIDE DEF me
<1>4. GoodQueue(q, [tk EXCEPT ![t] = me])
  BY <1>1, <1>3, OneMoves DEF old, Waiting
<1> QED BY <1>2, <1>4, ClockTiming, GoodStep

LEMMA LeaveClockStep ==
  ASSUME QueueInv, NEW t \in Callers, LeaveClock(t)
  PROVE  QueueInv'
<1> DEFINE old == tk[t]
           saw == Without(expired, t)
           me == [old EXCEPT !.pc = "leaving", !.saw = saw]
<1>1. Fine(old) /\ old \in TaskStates /\ (t \in ToSet(q.waiters) => ~old.evicted) /\ old.pc = "leave"
  BY TaskFacts DEF LeaveClock
<1>2. tk' = [tk EXCEPT ![t] = me] /\ q' = q /\ UNCHANGED Clock
  BY DEF LeaveClock, Become
<1>3. Timing(saw)
  BY QueueFacts, WithoutTiming
<1> HIDE DEF old, saw
<1>4. Fine(me) /\ me.pc = "leaving" /\ me.evicted = old.evicted /\ me.prio = old.prio /\ me.key = old.key
  BY <1>1, <1>3 DEF Fine, TaskStates, Waiting, Timing
<1> HIDE DEF me
<1>5. GoodQueue(q, [tk EXCEPT ![t] = me])
  BY <1>1, <1>4, OneMoves DEF old, Waiting
<1> QED BY <1>2, <1>5, ClockTiming, GoodStep

(* A task that starts to wait: it was not in the queue, its key gets a     *)
(* place if it has none, and the turn-holder is told.                      *)
LEMMA InsertFacts ==
  ASSUME QueueInv, NEW t \in Callers, tk[t].pc = "register",
         NEW s, Sound(s), ToSet(s.waiters) \subseteq ToSet(q.waiters), Len(s.waiters) < Capacity,
         NEW g, AllFine(g), Seated(s, g), Agree(s, g), g[t] = tk[t],
         Insert(t, s, g)
  PROVE  GoodQueue(q', tk') /\ tk'[t].pc # "idle"
<1> DEFINE key == tk[t].key
           keys == IF key \in ToSet(Order(s)) THEN s.fresh ELSE Append(s.fresh, key)
           w == Append(s.waiters, t)
           all == [s EXCEPT !.waiters = w, !.fresh = keys]
           me == [tk[t] EXCEPT !.pc = "loop", !.saw = <<>>]
           h == [g EXCEPT ![t].pc = "loop", ![t].saw = <<>>]
<1>1. q' = all /\ tk' = WakeWinner(all, h)
  BY DEF Insert
<1>2. Fine(tk[t]) /\ tk[t] \in TaskStates /\ t \notin ToSet(q.waiters)
  BY TaskFacts DEF Waiting
<1>3. key \in Keys
  BY <1>2 DEF Fine
<1>4. s \in Queues /\ s.waiters \in Seq(Callers) /\ s.fresh \in Seq(Keys) /\ s.used \in Seq(Keys)
      /\ IsInjective(s.waiters) /\ IsInjective(s.fresh) /\ IsInjective(s.used)
      /\ ToSet(s.fresh) \cap ToSet(s.used) = {}
      /\ \A u \in ToSet(s.waiters) : tk[u].key \in ToSet(s.fresh) \cup ToSet(s.used)
  BY DEF Sound, SoundFor, Queues
<1>5. w \in Seq(Callers) /\ Len(w) = Len(s.waiters) + 1 /\ ToSet(w) = ToSet(s.waiters) \cup {t} /\ IsInjective(w)
  <2>1. t \notin ToSet(s.waiters)
    BY <1>2
  <2> QED BY <1>4, <2>1, Appended
<1>6. keys \in Seq(Keys) /\ IsInjective(keys) /\ ToSet(keys) \cap ToSet(s.used) = {}
      /\ key \in ToSet(keys) \cup ToSet(s.used) /\ ToSet(s.fresh) \subseteq ToSet(keys)
  <2>1. ToSet(Order(s)) = ToSet(s.fresh) \cup ToSet(s.used)
    BY SoundOrder
  <2>2. CASE key \in ToSet(Order(s))
    BY <1>4, <2>1, <2>2
  <2>3. CASE key \notin ToSet(Order(s))
    <3> HIDE DEF key
    <3>1. /\ Append(s.fresh, key) \in Seq(Keys)
          /\ ToSet(Append(s.fresh, key)) = ToSet(s.fresh) \cup {key}
          /\ IsInjective(Append(s.fresh, key))
      BY <1>3, <1>4, <2>1, <2>3, Appended
    <3>2. keys = Append(s.fresh, key)
      BY <2>3
    <3> QED BY <1>4, <2>1, <2>3, <3>1, <3>2
  <2> QED BY <2>2, <2>3
<1> HIDE DEF w, keys
<1>7. all \in Queues /\ all.waiters = w /\ all.fresh = keys /\ all.used = s.used
  BY <1>4, <1>5, <1>6 DEF Queues
<1> HIDE DEF all
<1>8. Sound(all)
  <2>1. \A u \in ToSet(w) : tk[u].key \in ToSet(keys) \cup ToSet(s.used)
    BY <1>4, <1>5, <1>6
  <2> QED BY <1>4, <1>5, <1>6, <1>7, <2>1 DEF Sound, SoundFor
<1>9. Len(all.waiters) <= Capacity
  <2> DEFINE n == Len(s.waiters)
  <2>1. n \in Nat /\ Capacity \in Nat
    BY <1>4, QueueAssumption
  <2>2. n < Capacity /\ Len(all.waiters) = n + 1
    BY <1>5, <1>7
  <2> HIDE DEF n
  <2> QED BY <2>1, <2>2
<1>10. Fine(me) /\ me.pc = "loop" /\ ~me.evicted /\ me.prio = tk[t].prio /\ me.key = tk[t].key
  <2> DEFINE old == tk[t]
  <2>1. Fine(old) /\ old.pc = "register"
    BY <1>2
  <2> HIDE DEF old
  <2>2. LET m == [old EXCEPT !.pc = "loop", !.saw = <<>>]
        IN  Fine(m) /\ m.pc = "loop" /\ ~m.evicted /\ m.prio = old.prio /\ m.key = old.key
    BY <2>1, EmptySeq DEF Fine, TaskStates, Waiting
  <2> QED BY <2>2 DEF old
<1>11. h \in [Callers -> TaskStates] /\ h[t] = me /\ \A u \in Callers : u # t => h[u] = g[u]
  <2>1. g \in [Callers -> TaskStates] /\ me \in TaskStates
    BY <1>10 DEF AllFine, Fine
  <2>2. h = [g EXCEPT ![t] = me]
    OBVIOUS
  <2> HIDE DEF me, h
  <2> QED BY <2>1, <2>2
<1> HIDE DEF h, me
<1>12. AllFine(h)
  BY <1>10, <1>11 DEF AllFine
<1>13. Seated(all, h) /\ Agree(all, h)
  <2>1. ASSUME NEW u \in ToSet(all.waiters)
        PROVE  h[u].pc \in Waiting /\ ~h[u].evicted /\ h[u].prio = tk[u].prio /\ h[u].key = tk[u].key
    <3>1. CASE u = t
      BY <1>10, <1>11, <3>1 DEF Waiting
    <3>2. CASE u # t
      <4>1. u \in ToSet(s.waiters) /\ u \in Callers
        BY <1>4, <1>5, <1>7, <3>2, Members
      <4>2. g[u].pc \in Waiting /\ ~g[u].evicted /\ g[u].prio = tk[u].prio /\ g[u].key = tk[u].key
        BY <4>1 DEF Seated, Agree
      <4> QED BY <1>11, <3>2, <4>1, <4>2
    <3> QED BY <3>1, <3>2
  <2> QED BY <2>1 DEF Seated, Agree
<1>14. GoodQueue(all, WakeWinner(all, h))
  BY <1>8, <1>9, <1>12, <1>13, WakesWinner
<1>15. GoodQueue(q', tk')
  BY <1>1, <1>14
<1>16. tk'[t].pc \in Waiting
  <2>1. t \in ToSet(q'.waiters)
    BY <1>1, <1>5, <1>7
  <2> QED BY <1>15, <2>1 DEF GoodQueue, Seated
<1> QED BY <1>15, <1>16 DEF Waiting

(* The step from what it makes of the queue and the tasks. *)
LEMMA GoodNext ==
  ASSUME QueueInv, GoodQueue(q', tk'), conf' = conf, Timing(expired')
  PROVE  QueueInv'
BY GoodStep

(* What a task finds in the queue at its clock reading. *)
LEMMA PrunedFor ==
  ASSUME QueueInv, NEW t \in Callers
  PROVE  LET s == Prune(q, tk[t].saw)
         IN  /\ Sound(s) /\ ToSet(s.waiters) \subseteq ToSet(q.waiters)
             /\ Len(s.waiters) <= Capacity /\ (Untimed => s = q)
             /\ s.waiters \in Seq(Callers) /\ Len(s.waiters) \in Nat
             /\ \A u \in ToSet(s.waiters) : tk[u].prio \in Nat
<1> DEFINE s == Prune(q, tk[t].saw)
<1>1. Sound(q) /\ Len(q.waiters) <= Capacity /\ q.waiters \in Seq(Callers)
      /\ \A u \in ToSet(q.waiters) : tk[u].prio \in Nat
  BY QueueFacts
<1>2. tk[t].saw \in Seq(Callers) /\ (Untimed => tk[t].saw = <<>>)
  BY TaskFacts DEF Fine
<1>3. Sound(s) /\ ToSet(s.waiters) \subseteq ToSet(q.waiters) /\ Len(s.waiters) <= Len(q.waiters)
      /\ (tk[t].saw = <<>> => s = q)
  BY <1>1, <1>2, PruneFacts, Zenon
<1> HIDE DEF s
<1>4. s.waiters \in Seq(Callers)
  BY <1>3 DEF Sound, SoundFor, Queues
<1>5. Len(s.waiters) \in Nat /\ Len(q.waiters) \in Nat /\ Capacity \in Nat
  BY <1>1, <1>4, QueueAssumption
<1>6. Len(s.waiters) <= Capacity
  <2> DEFINE a == Len(s.waiters)
             b == Len(q.waiters)
  <2>1. a \in Nat /\ b \in Nat /\ Capacity \in Nat /\ a <= b /\ b <= Capacity
    BY <1>1, <1>3, <1>5
  <2> HIDE DEF a, b
  <2>2. a <= Capacity
    BY <2>1
  <2> QED BY <2>2 DEF a
<1>7. Untimed => s = q
  BY <1>2, <1>3
<1>8. \A u \in ToSet(s.waiters) : tk[u].prio \in Nat
  BY <1>1, <1>3
<1> QED BY <1>3, <1>4, <1>5, <1>6, <1>7, <1>8 DEF s

(* A waiter that is turned away. *)
LEMMA EvictedFine ==
  ASSUME NEW me, Fine(me), me.pc \in Waiting
  PROVE  Fine(Evicted(me))
<1> DEFINE out == [me EXCEPT !.evicted = TRUE]
           him == Evicted(me)
<1>1. me \in TaskStates
  BY DEF Fine
<1>2. out \in TaskStates /\ out.sig = me.sig
  BY <1>1 DEF TaskStates
<1>3. him = [out EXCEPT !.sig = IF me.sig = "listening" THEN "notified" ELSE me.sig]
  BY <1>2 DEF Evicted, Wakened
<1> HIDE DEF him
<1>4. him \in TaskStates /\ him.pc = me.pc /\ him.key = me.key /\ him.dl = me.dl /\ him.saw = me.saw
      /\ him.sig = (IF me.sig = "listening" THEN "notified" ELSE me.sig)
  BY <1>1, <1>3 DEF TaskStates
<1>5. me.sig \in {"none", "listening", "notified"}
  BY <1>1 DEF TaskStates
<1>6. Fine(him)
  BY <1>4, <1>5 DEF Fine, Waiting
<1> QED BY <1>6 DEF him

LEMMA EvictedKeeps ==
  ASSUME NEW me, me \in TaskStates
  PROVE  Evicted(me).prio = me.prio /\ Evicted(me).key = me.key
BY DEF Evicted, Wakened, TaskStates

(* Whom a full queue turns away is in it. *)
LEMMA VictimWaits ==
  ASSUME QueueInv, NEW t \in Callers, NEW w \in Seq(Callers), w # <<>>,
         \A u \in ToSet(w) : tk[u].prio \in Nat
  PROVE  Victim(t, w) \in ToSet(w) \cup {NoTask}
<1>1. conf.overflow \in {"Reject", "DropOldest", "DropLowestPriority"}
  BY QueueFacts, ConfFacts
<1>2. Weakest(w) \in ToSet(w)
  BY WeakestWaits
<1>3. w[1] \in ToSet(w)
  BY Members
<1>4. CASE conf.overflow = "Reject"
  BY <1>4 DEF Victim
<1>5. CASE conf.overflow = "DropOldest"
  BY <1>3, <1>5 DEF Victim
<1>6. CASE conf.overflow = "DropLowestPriority"
  BY <1>2, <1>6 DEF Victim
<1> QED BY <1>1, <1>4, <1>5, <1>6

LEMMA RegisterStep ==
  ASSUME QueueInv, NEW t \in Callers, Register(t)
  PROVE  QueueInv'
<1> DEFINE s == Prune(q, tk[t].saw)
           v == Victim(t, s.waiters)
<1>1. /\ Sound(s) /\ ToSet(s.waiters) \subseteq ToSet(q.waiters)
      /\ Len(s.waiters) <= Capacity /\ (Untimed => s = q)
      /\ s.waiters \in Seq(Callers) /\ Len(s.waiters) \in Nat
      /\ \A u \in ToSet(s.waiters) : tk[u].prio \in Nat
  BY PrunedFor
<1>2. /\ tk[t].pc = "register"
      /\ IF Len(s.waiters) < Capacity THEN Insert(t, s, tk)
         ELSE IF v = NoTask THEN q' = s /\ Become(t, Idle)
              ELSE Insert(t, Removed(s, v), [tk EXCEPT ![v] = Evicted(@)])
      /\ IF tk'[t].pc = "idle" THEN Over(t) ELSE UNCHANGED Clock
  BY Zenon DEF Register
<1> HIDE DEF s, v
<1>3. AllFine(tk) /\ Seated(q, tk) /\ Agree(q, tk) /\ ToSet(q.waiters) \subseteq Callers
  BY QueueFacts
<1>4. t \notin ToSet(q.waiters)
  BY <1>2, TaskFacts DEF Waiting
<1>5. CASE Len(s.waiters) < Capacity
  <2>1. Insert(t, s, tk)
    BY <1>2, <1>5
  <2>2. Seated(s, tk) /\ Agree(s, tk)
    BY <1>1, <1>3 DEF Seated, Agree
  <2>3. GoodQueue(q', tk') /\ tk'[t].pc # "idle"
    BY <1>1, <1>2, <1>3, <1>5, <2>1, <2>2, InsertFacts
  <2>4. UNCHANGED Clock
    BY <1>2, <2>3
  <2> QED BY <2>3, <2>4, ClockTiming, GoodNext
<1>6. CASE ~(Len(s.waiters) < Capacity) /\ v = NoTask
  <2>1. q' = s /\ tk' = [tk EXCEPT ![t] = Idle]
    BY <1>2, <1>6 DEF Become
  <2>2. GoodQueue(s, [tk EXCEPT ![t] = Idle])
    <3>1. Fine(Idle) /\ Idle.pc = "idle"
      BY IdleFine
    <3>2. t \notin ToSet(s.waiters)
      BY <1>1, <1>4
    <3> DEFINE me == Idle
    <3>3. Fine(me) /\ me.pc # "asleep"
      BY <3>1
    <3> HIDE DEF me
    <3>4. GoodQueue(s, [tk EXCEPT ![t] = me])
      BY <1>1, <3>2, <3>3, CallMoved
    <3> QED BY <3>4 DEF me
  <2>3. GoodQueue(q', tk')
    BY <2>1, <2>2
  <2>4. Over(t) \/ UNCHANGED Clock
    BY <1>2
  <2> QED BY <2>3, <2>4, OverTiming, ClockTiming, GoodNext
<1>7. CASE ~(Len(s.waiters) < Capacity) /\ v # NoTask
  <2> DEFINE r == Removed(s, v)
             g == [tk EXCEPT ![v] = Evicted(tk[v])]
  <2>1. Insert(t, r, g)
    BY <1>2, <1>7
  <2>2. s.waiters # <<>>
    <3>1. Capacity \in Nat \ {0}
      BY QueueAssumption
    <3>2. ASSUME s.waiters = <<>> PROVE FALSE
      <4>1. Len(s.waiters) = 0
        BY <3>2
      <4> QED BY <1>7, <3>1, <4>1
    <3> QED BY <3>2
  <2>3. v \in ToSet(s.waiters)
    <3>1. v \in ToSet(s.waiters) \cup {NoTask}
      BY <1>1, <2>2, VictimWaits DEF v
    <3> QED BY <1>7, <3>1
  <2>4. v \in Callers /\ v # t
    BY <1>1, <1>3, <1>4, <2>3
  <2>5. Sound(r) /\ ToSet(r.waiters) = ToSet(s.waiters) \ {v} /\ Len(r.waiters) < Len(s.waiters)
    BY <1>1, <2>3, RemovedFacts, Zenon
  <2> HIDE DEF r
  <2>6. r.waiters \in Seq(Callers) /\ Len(r.waiters) \in Nat
    BY <2>5 DEF Sound, SoundFor, Queues
  <2>7. Len(r.waiters) < Capacity
    <3> DEFINE a == Len(r.waiters)
               b == Len(s.waiters)
    <3>1. a \in Nat /\ b \in Nat /\ Capacity \in Nat /\ a < b /\ b <= Capacity
      BY <1>1, <2>5, <2>6, QueueAssumption
    <3> HIDE DEF a, b
    <3>2. a < Capacity
      BY <3>1
    <3> QED BY <3>2 DEF a
  <2>8. tk \in [Callers -> TaskStates] /\ Fine(tk[v]) /\ tk[v] \in TaskStates /\ tk[v].pc \in Waiting
    BY <1>1, <1>3, <2>3, <2>4 DEF AllFine, Seated
  <2>9. Fine(Evicted(tk[v]))
    BY <2>8, EvictedFine
  <2> DEFINE him == Evicted(tk[v])
  <2> HIDE DEF him
  <2>10. him \in TaskStates /\ Fine(him)
    BY <2>9 DEF Fine, him
  <2>11. g \in [Callers -> TaskStates] /\ g[v] = him /\ \A u \in Callers : u # v => g[u] = tk[u]
    BY <2>4, <2>8, <2>10 DEF him
  <2> HIDE DEF g
  <2>12. AllFine(g)
    BY <1>3, <2>10, <2>11 DEF AllFine
  <2>13. Seated(r, g) /\ Agree(r, g)
    <3>1. ASSUME NEW u \in ToSet(r.waiters)
          PROVE  u \in ToSet(q.waiters) /\ g[u] = tk[u]
      BY <1>1, <1>3, <2>5, <2>11
    <3> QED BY <1>3, <3>1 DEF Seated, Agree
  <2>14. ToSet(r.waiters) \subseteq ToSet(q.waiters) /\ g[t] = tk[t]
    BY <1>1, <2>4, <2>5, <2>11
  <2>15. GoodQueue(q', tk') /\ tk'[t].pc # "idle"
    <3>1. Insert(t, r, g)
      BY <2>1 DEF g
    <3>2. tk[t].pc = "register"
      BY <1>2
    <3> QED BY <2>5, <2>7, <2>12, <2>13, <2>14, <3>1, <3>2, InsertFacts
  <2>16. UNCHANGED Clock
    BY <1>2, <2>15
  <2> QED BY <2>15, <2>16, ClockTiming, GoodNext
<1> QED BY <1>5, <1>6, <1>7

LEMMA BeginStep ==
  ASSUME QueueInv, NEW t \in Callers, Begin(t)
  PROVE  QueueInv'
<1>1. PICK prio \in conf.prios, key \in Keys, dl \in conf.deadlines :
        tk' = [u \in Callers |->
          IF u = t THEN [Idle EXCEPT !.pc = "register", !.prio = prio, !.key = key, !.dl = dl,
                                     !.saw = expired]
          ELSE [tk[u] EXCEPT !.saw = Without(@, t)]]
  BY DEF Begin
<1> DEFINE me == [Idle EXCEPT !.pc = "register", !.prio = prio, !.key = key, !.dl = dl,
                              !.saw = expired]
           other(u) == [tk[u] EXCEPT !.saw = Without(tk[u].saw, t)]
<1>2. q' = q /\ UNCHANGED Clock /\ tk[t].pc = "idle"
  BY DEF Begin
<1>3. /\ AllFine(tk) /\ Timing(expired) /\ conf \in Configs /\ Sound(q) /\ Len(q.waiters) <= Capacity
      /\ Seated(q, tk) /\ Turned(q, tk) /\ ToSet(q.waiters) \subseteq Callers
      /\ \A u \in ToSet(q.waiters) : tk[u].prio \in Nat
  BY QueueFacts
<1>4. t \notin ToSet(q.waiters)
  BY <1>2, TaskFacts DEF Waiting
<1>5. Fine(me)
  <2>1. prio \in Nat /\ dl \in BOOLEAN /\ (Untimed => ~dl)
    BY <1>3, ConfFacts DEF Untimed
  <2>2. expired \in Seq(Callers) /\ (Untimed => expired = <<>>)
    BY <1>3 DEF Timing
  <2>3. Idle \in TaskStates /\ ~Idle.evicted
    BY IdleFine DEF Fine
  <2> DEFINE o == Idle
             m == [o EXCEPT !.pc = "register", !.prio = prio, !.key = key, !.dl = dl, !.saw = expired]
  <2>4. o \in TaskStates /\ ~o.evicted
    BY <2>3
  <2> HIDE DEF o
  <2>5. m \in TaskStates /\ m.pc = "register" /\ m.key = key /\ m.dl = dl /\ m.saw = expired /\ ~m.evicted
    BY <2>1, <2>2, <2>4 DEF TaskStates
  <2> HIDE DEF m
  <2>6. Fine(m)
    BY <2>1, <2>2, <2>5 DEF Fine
  <2> QED BY <2>6 DEF m, o
<1>6. ASSUME NEW u \in Callers
      PROVE  LET m == other(u)
                 o == tk[u]
             IN  /\ Fine(m)
                 /\ m.pc = o.pc /\ m.prio = o.prio /\ m.key = o.key /\ m.evicted = o.evicted
                 /\ m.turn = o.turn /\ m.sig = o.sig
  <2> DEFINE o == tk[u]
             saw == Without(o.saw, t)
             m == [o EXCEPT !.saw = saw]
  <2>1. Fine(o) /\ o \in TaskStates
    BY <1>3 DEF AllFine
  <2>2. Timing(o.saw)
    BY <2>1 DEF Fine, Timing, TaskStates
  <2>3. Timing(saw)
    BY <2>2, WithoutTiming
  <2> HIDE DEF o, saw
  <2>4. /\ m \in TaskStates /\ m.saw = saw /\ m.dl = o.dl
        /\ m.pc = o.pc /\ m.prio = o.prio /\ m.key = o.key /\ m.evicted = o.evicted
        /\ m.turn = o.turn /\ m.sig = o.sig
    BY <2>1, <2>3 DEF TaskStates, Timing
  <2> HIDE DEF m
  <2>5. Fine(m)
    BY <2>1, <2>3, <2>4 DEF Fine, Timing
  <2> QED BY <2>4, <2>5 DEF m, o, saw
<1> DEFINE f == [u \in Callers |-> IF u = t THEN me ELSE other(u)]
<1>7. tk' = f
  BY <1>1
<1> HIDE DEF me, other
<1>8. \A u \in Callers : u # t => f[u] = other(u)
  OBVIOUS
<1>9. f[t] = me /\ f \in [Callers -> TaskStates] /\ \A u \in Callers : Fine(f[u])
  BY <1>5, <1>6 DEF Fine
<1> HIDE DEF f
<1>10. \A u \in ToSet(q.waiters) :
         /\ u \in Callers /\ f[u].pc = tk[u].pc /\ f[u].prio = tk[u].prio /\ f[u].key = tk[u].key
         /\ f[u].evicted = tk[u].evicted /\ f[u].turn = tk[u].turn /\ f[u].sig = tk[u].sig
  <2> SUFFICES ASSUME NEW u \in ToSet(q.waiters)
               PROVE  /\ u \in Callers /\ f[u].pc = tk[u].pc /\ f[u].prio = tk[u].prio /\ f[u].key = tk[u].key
                      /\ f[u].evicted = tk[u].evicted /\ f[u].turn = tk[u].turn /\ f[u].sig = tk[u].sig
    OBVIOUS
  <2>1. u \in Callers /\ u # t
    BY <1>3, <1>4
  <2> QED BY <1>6, <1>8, <2>1
<1>11. Turned(q, f)
  <2> DEFINE w == Winner(q)
  <2>1. w \in ToSet(q.waiters) \cup {NoTask}
    BY <1>3, WinnerWaits
  <2> QED BY <1>3, <1>10, <2>1 DEF Turned
<1>12. GoodQueue(q, f)
  BY <1>3, <1>9, <1>10, <1>11 DEF GoodQueue, AllFine, Seated, Agree
<1> QED BY <1>2, <1>7, <1>12, ClockTiming, GoodStep

LEMMA RefusedStep ==
  ASSUME QueueInv, NEW t \in Callers, Refused(t)
  PROVE  QueueInv'
<1> DEFINE s == Prune(q, tk[t].saw)
           old == tk[t]
           a == Asleep(old, TRUE)
           b == [old EXCEPT !.pc = "leave", !.saw = <<>>]
<1>1. q' = s /\ UNCHANGED Clock /\ old.pc = "turn" /\ (tk' = [tk EXCEPT ![t] = a] \/ tk' = [tk EXCEPT ![t] = b])
  BY DEF Refused, HasTurn, Become
<1>2. /\ Sound(s) /\ ToSet(s.waiters) \subseteq ToSet(q.waiters)
      /\ Len(s.waiters) <= Capacity /\ (Untimed => s = q)
  BY PrunedFor
<1>3. Fine(old) /\ old \in TaskStates /\ (t \in ToSet(q.waiters) => ~old.evicted)
  BY TaskFacts
<1> HIDE DEF s, old
<1>4. /\ Fine(a) /\ a.turn /\ a.pc \in Waiting
      /\ a.evicted = old.evicted /\ a.prio = old.prio /\ a.key = old.key
  BY <1>1, <1>3, EmptySeq DEF Fine, TaskStates, Waiting, Asleep
<1>5. /\ Fine(b) /\ b.pc \in Waiting /\ b.pc # "asleep"
      /\ b.evicted = old.evicted /\ b.prio = old.prio /\ b.key = old.key
  BY <1>1, <1>3, EmptySeq DEF Fine, TaskStates, Waiting
<1> HIDE DEF a, b
<1>6. GoodQueue(s, [tk EXCEPT ![t] = a])
  BY <1>2, <1>3, <1>4, CallMoved DEF old
<1>7. GoodQueue(s, [tk EXCEPT ![t] = b])
  BY <1>2, <1>3, <1>5, CallMoved DEF old
<1>8. GoodQueue(q', tk')
  BY <1>1, <1>6, <1>7
<1> QED BY <1>1, <1>8, ClockTiming, GoodNext

LEMMA NotMyTurnStep ==
  ASSUME QueueInv, NEW t \in Callers, NotMyTurn(t)
  PROVE  QueueInv'
<1> DEFINE s == Prune(q, tk[t].saw)
           old == tk[t]
           a == Asleep(old, FALSE)
<1>1. q' = s /\ UNCHANGED Clock /\ old.pc = "turn" /\ tk' = [tk EXCEPT ![t] = a] /\ Winner(s) # t
  BY DEF NotMyTurn, HasTurn, Become
<1>2. /\ Sound(s) /\ ToSet(s.waiters) \subseteq ToSet(q.waiters)
      /\ Len(s.waiters) <= Capacity /\ (Untimed => s = q)
  BY PrunedFor
<1>3. Fine(old) /\ old \in TaskStates /\ (t \in ToSet(q.waiters) => ~old.evicted)
  BY TaskFacts
<1> HIDE DEF s, old
<1>4. Fine(a) /\ a.pc \in Waiting /\ a.evicted = old.evicted /\ a.prio = old.prio /\ a.key = old.key
  BY <1>1, <1>3, EmptySeq DEF Fine, TaskStates, Waiting, Asleep
<1> HIDE DEF a
<1>5. GoodQueue(s, [tk EXCEPT ![t] = a])
  BY <1>1, <1>2, <1>3, <1>4, CallMoved DEF old
<1>6. GoodQueue(q', tk')
  BY <1>1, <1>5
<1> QED BY <1>1, <1>6, ClockTiming, GoodNext

(* A task that has gone, and the turn passed on. *)
LEMMA Gone ==
  ASSUME QueueInv, NEW t \in Callers, NEW s, Sound(s), ToSet(s.waiters) \subseteq ToSet(q.waiters) \ {t},
         Len(s.waiters) <= Capacity
  PROVE  GoodQueue(s, WakeWinner(s, [tk EXCEPT ![t] = Idle]))
<1> DEFINE me == Idle
           g == [tk EXCEPT ![t] = me]
<1>1. AllFine(tk) /\ Seated(q, tk) /\ ToSet(q.waiters) \subseteq Callers
  BY QueueFacts
<1>2. Fine(me)
  BY IdleFine
<1> HIDE DEF me
<1>3. g \in [Callers -> TaskStates] /\ g[t] = me /\ \A u \in Callers : u # t => g[u] = tk[u]
  BY <1>1, <1>2 DEF AllFine, Fine
<1> HIDE DEF g
<1>4. AllFine(g)
  BY <1>1, <1>2, <1>3 DEF AllFine
<1>5. Seated(s, g) /\ Agree(s, g)
  <2>1. ASSUME NEW u \in ToSet(s.waiters) PROVE u \in ToSet(q.waiters) /\ g[u] = tk[u]
    BY <1>1, <1>3
  <2> QED BY <1>1, <2>1 DEF Seated, Agree
<1>6. GoodQueue(s, WakeWinner(s, g))
  BY <1>4, <1>5, WakesWinner
<1> QED BY <1>6 DEF g, me

LEMMA LeaveStep ==
  ASSUME QueueInv, NEW t \in Callers, LeaveQueue(t)
  PROVE  QueueInv'
<1>1. tk[t].saw \in Seq(Callers) /\ Sound(q) /\ Len(q.waiters) <= Capacity /\ q.waiters \in Seq(Callers)
  BY QueueFacts, TaskFacts
<1>2. Over(t)
  BY DEF LeaveQueue
<1>3. CASE t \in ToSet(q.waiters)
  <2> DEFINE r == Removed(q, t)
             s == Prune(r, tk[t].saw)
  <2>1. q' = s /\ tk' = WakeWinner(s, [tk EXCEPT ![t] = Idle])
    BY <1>3 DEF LeaveQueue
  <2>2. Sound(r) /\ ToSet(r.waiters) = ToSet(q.waiters) \ {t} /\ Len(r.waiters) <= Len(q.waiters)
    BY <1>1, RemovedFacts, Zenon
  <2> HIDE DEF r
  <2>3. Sound(s) /\ ToSet(s.waiters) \subseteq ToSet(r.waiters) /\ Len(s.waiters) <= Len(r.waiters)
    BY <1>1, <2>2, PruneFacts, Zenon
  <2> HIDE DEF s
  <2>4. Len(s.waiters) <= Capacity
    <3> DEFINE a == Len(q.waiters)
               b == Len(r.waiters)
               c == Len(s.waiters)
    <3>1. r.waiters \in Seq(Callers) /\ s.waiters \in Seq(Callers)
      BY <2>2, <2>3 DEF Sound, SoundFor, Queues
    <3>2. a \in Nat /\ b \in Nat /\ c \in Nat /\ Capacity \in Nat /\ a <= Capacity /\ b <= a /\ c <= b
      BY <1>1, <2>2, <2>3, <3>1, QueueAssumption
    <3> HIDE DEF a, b, c
    <3>3. c <= Capacity
      BY <3>2
    <3> QED BY <3>3 DEF c
  <2>5. ToSet(s.waiters) \subseteq ToSet(q.waiters) \ {t}
    BY <2>2, <2>3
  <2>6. GoodQueue(s, WakeWinner(s, [tk EXCEPT ![t] = Idle]))
    BY <2>3, <2>4, <2>5, Gone
  <2>7. GoodQueue(q', tk')
    BY <2>1, <2>6
  <2> QED BY <1>2, <2>7, OverTiming, GoodNext
<1>4. CASE t \notin ToSet(q.waiters)
  <2> DEFINE me == Idle
  <2>1. q' = q /\ tk' = [tk EXCEPT ![t] = me]
    BY <1>4 DEF LeaveQueue, Become
  <2>2. Fine(me) /\ me.pc # "asleep"
    BY IdleFine
  <2> HIDE DEF me
  <2>3. GoodQueue(q, [tk EXCEPT ![t] = me])
    BY <1>1, <1>4, <2>2, CallMoved
  <2> QED BY <1>2, <2>1, <2>3, OverTiming, GoodStep
<1> QED BY <1>3, <1>4

(* serve: the key of the task served goes behind all others. *)
LEMMA ServeFacts ==
  ASSUME NEW s, Sound(s), NEW t, tk[t].key \in Keys
  PROVE  LET r == Serve(s, t)
         IN  /\ Sound(r)
             /\ ToSet(r.waiters) = ToSet(s.waiters) \ {t}
             /\ Len(r.waiters) <= Len(s.waiters)
<1> DEFINE key == tk[t].key
           f == Without(s.fresh, key)
           w == Without(s.used, key)
           u == Append(w, key)
           m == [s EXCEPT !.fresh = f, !.used = u]
<1>1. /\ s \in Queues /\ s.fresh \in Seq(Keys) /\ s.used \in Seq(Keys)
      /\ IsInjective(s.waiters) /\ IsInjective(s.fresh) /\ IsInjective(s.used)
      /\ ToSet(s.fresh) \cap ToSet(s.used) = {}
      /\ \A x \in ToSet(s.waiters) : tk[x].key \in ToSet(s.fresh) \cup ToSet(s.used)
  BY DEF Sound, SoundFor, Queues
<1>2. Serve(s, t) = Removed(m, t)
  BY DEF Serve
<1> HIDE DEF key
<1>3. f \in Seq(Keys) /\ ToSet(f) = ToSet(s.fresh) \ {key} /\ IsInjective(f)
  BY <1>1, WithoutFacts
<1>4. w \in Seq(Keys) /\ ToSet(w) = ToSet(s.used) \ {key} /\ IsInjective(w)
  BY <1>1, WithoutFacts
<1> HIDE DEF f, w
<1>5. key \in Keys
  BY DEF key
<1>6. u \in Seq(Keys) /\ ToSet(u) = ToSet(w) \cup {key} /\ IsInjective(u)
  <2>1. key \notin ToSet(w)
    BY <1>4
  <2> QED BY <1>4, <1>5, <2>1, Appended
<1> HIDE DEF u
<1>7. m \in Queues /\ m.waiters = s.waiters /\ m.fresh = f /\ m.used = u
  BY <1>1, <1>3, <1>6 DEF Queues
<1> HIDE DEF m
<1>8. Sound(m)
  <2>1. ToSet(f) \cap ToSet(u) = {}
    BY <1>1, <1>3, <1>4, <1>6
  <2>2. \A x \in ToSet(s.waiters) : tk[x].key \in ToSet(f) \cup ToSet(u)
    BY <1>1, <1>3, <1>4, <1>6
  <2> QED BY <1>1, <1>3, <1>6, <1>7, <2>1, <2>2 DEF Sound, SoundFor
<1>9. LET r == Removed(m, t)
      IN  Sound(r) /\ ToSet(r.waiters) = ToSet(m.waiters) \ {t} /\ Len(r.waiters) <= Len(m.waiters)
  BY <1>8, RemovedFacts, Zenon
<1> QED BY <1>2, <1>7, <1>9

LEMMA GrantedStep ==
  ASSUME QueueInv, NEW t \in Callers, Granted(t)
  PROVE  QueueInv'
<1> DEFINE s == Prune(q, tk[t].saw)
           r == Serve(s, t)
<1>1. q' = r /\ tk' = WakeWinner(r, [tk EXCEPT ![t] = Idle]) /\ Over(t) /\ tk[t].pc = "turn"
  BY DEF Granted, HasTurn
<1>2. /\ Sound(s) /\ ToSet(s.waiters) \subseteq ToSet(q.waiters)
      /\ Len(s.waiters) <= Capacity /\ Len(s.waiters) \in Nat
  BY PrunedFor
<1>3. tk[t].key \in Keys
  BY <1>1, TaskFacts DEF Fine
<1> HIDE DEF s
<1>4. Sound(r) /\ ToSet(r.waiters) = ToSet(s.waiters) \ {t} /\ Len(r.waiters) <= Len(s.waiters)
  BY <1>2, <1>3, ServeFacts, Zenon
<1> HIDE DEF r
<1>5. Len(r.waiters) <= Capacity
  <2> DEFINE a == Len(s.waiters)
             b == Len(r.waiters)
  <2>1. r.waiters \in Seq(Callers)
    BY <1>4 DEF Sound, SoundFor, Queues
  <2>2. a \in Nat /\ b \in Nat /\ Capacity \in Nat /\ a <= Capacity /\ b <= a
    BY <1>2, <1>4, <2>1, QueueAssumption
  <2> HIDE DEF a, b
  <2>3. b <= Capacity
    BY <2>2
  <2> QED BY <2>3 DEF b
<1>6. GoodQueue(r, WakeWinner(r, [tk EXCEPT ![t] = Idle]))
  BY <1>2, <1>4, <1>5, Gone
<1>7. GoodQueue(q', tk')
  BY <1>1, <1>6
<1> QED BY <1>1, <1>7, OverTiming, GoodNext

(* A deadline that passes: the calls had one. *)
LEMMA ExpireStep ==
  ASSUME QueueInv, NEW t \in Callers, Expire(t)
  PROVE  QueueInv'
<1>1. expired' = Append(expired, t) /\ UNCHANGED <<conf, q, tk>> /\ tk[t].dl
  BY DEF Expire
<1>2. ~Untimed
  BY <1>1, TaskFacts DEF Fine
<1>3. Timing(expired')
  BY <1>1, <1>2, QueueFacts DEF Timing
<1>4. GoodQueue(q, tk)
  BY QueueFacts DEF GoodQueue
<1> QED BY <1>1, <1>3, <1>4, GoodStep

LEMMA QueueInitInv ==
  ASSUME QueueInit PROVE QueueInv
<1>1. conf \in Configs /\ q = [waiters |-> <<>>, fresh |-> <<>>, used |-> <<>>] /\ expired = <<>>
      /\ tk = [t \in Callers |-> Idle]
  BY DEF QueueInit
<1>2. q.waiters = <<>> /\ q.fresh = <<>> /\ q.used = <<>>
  BY <1>1
<1>3. ToSet(<<>>) = {} /\ IsInjective(<<>>) /\ Len(<<>>) = 0 /\ <<>> \in Seq(Callers) /\ <<>> \in Seq(Keys)
  BY EmptySeq DEF ToSet, IsInjective
<1>4. Sound(q)
  <2>1. q \in Queues
    BY <1>1, <1>3 DEF Queues
  <2> QED BY <1>2, <1>3, <2>1 DEF Sound, SoundFor
<1>5. AllFine(tk)
  <2> DEFINE me == Idle
  <2>1. Fine(me) /\ me \in TaskStates /\ tk = [t \in Callers |-> me]
    BY <1>1, IdleFine DEF Fine
  <2> HIDE DEF me
  <2> QED BY <2>1 DEF AllFine
<1>6. Timing(expired) /\ Len(q.waiters) <= Capacity /\ Seated(q, tk)
  BY <1>1, <1>2, <1>3, QueueAssumption DEF Timing, Seated
<1>7. TurnHolderIsWoken
  <2>1. Winner(q) = NoTask
    BY <1>2 DEF Winner
  <2> QED BY <2>1 DEF TurnHolderIsWoken
<1> QED BY <1>1, <1>4, <1>5, <1>6, <1>7 DEF QueueInv

LEMMA QueueStepInv ==
  ASSUME QueueInv, [QueueNext]_queueVars PROVE QueueInv'
<1>1. CASE UNCHANGED queueVars
  <2>1. GoodQueue(q, tk) /\ Timing(expired)
    BY QueueFacts DEF GoodQueue
  <2> QED BY <1>1, <2>1, GoodStep DEF queueVars
<1>2. CASE QueueNext
  <2>1. PICK t \in Callers : Begin(t) \/ RunCall(t) \/ Cancel(t) \/ Expire(t)
    BY <1>2 DEF QueueNext
  <2> QED BY <2>1, BeginStep, RegisterStep, ListenStep, CheckEvictedStep, CheckDeadlineStep,
             GrantedStep, RefusedStep, NotMyTurnStep, WakeStep, LeaveClockStep, LeaveStep,
             CancelStep, ExpireStep DEF RunCall
<1> QED BY <1>1, <1>2

LEMMA QueueInvariance == QueueSpec => []QueueInv
BY QueueInitInv, QueueStepInv, PTL DEF QueueSpec

-----------------------------------------------------------------------------
(* The theorems. *)

(* register, serve, LeaveGuard::drop and prune_expired: the queue never    *)
(* holds more than its capacity, nobody twice, nobody whose call is over   *)
(* and nobody evicted, and every waiter's key has a place in the order.    *)
THEOREM QueueBounded == QueueSpec => []CapacityKept
<1>1. QueueInv => CapacityKept
  <2> SUFFICES ASSUME QueueInv PROVE CapacityKept
    OBVIOUS
  <2>1. Sound(q) /\ Len(q.waiters) <= Capacity /\ Seated(q, tk) /\ AllFine(tk)
    BY QueueFacts
  <2>2. IsInjective(q.waiters) /\ IsInjective(Order(q))
        /\ \A t \in ToSet(q.waiters) : tk[t].key \in ToSet(Order(q))
    BY <2>1, SoundOrder DEF Sound, SoundFor
  <2>3. \A t \in Callers : tk[t].pc \in Waiting \cup {"idle", "register"}
    BY <2>1 DEF AllFine, TaskStates
  <2> QED BY <2>1, <2>2, <2>3 DEF CapacityKept, QueueTypeOK, Seated
<1> QED BY <1>1, QueueInvariance, PTL

(* evict: a waiter evicted at any point of its loop is not left asleep.    *)
THEOREM EvictionsAreTold == QueueSpec => []EvictedAreTold
<1>1. QueueInv => EvictedAreTold
  BY QueueFacts DEF AllFine, Fine, EvictedAreTold
<1> QED BY <1>1, QueueInvariance, PTL

(* wake_winner: where no deadlines pass, every section that changes whose  *)
(* turn it is wakes the task that gains it.                                *)
THEOREM TurnIsPassedOn == QueueSpec => []TurnHolderIsWoken
<1>1. QueueInv => TurnHolderIsWoken
  BY DEF QueueInv
<1> QED BY <1>1, QueueInvariance, PTL
=============================================================================
