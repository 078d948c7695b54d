---------------------------- MODULE SlidingWindow ----------------------------
(***************************************************************************)
(* The exact sliding-window log of src/sliding.rs: a log of grants behind  *)
(* a mutex.  A grant occupies the window for W units of time; the clock is *)
(* read before the mutex is taken, so the reading a section works with may *)
(* be up to MaxLag old.  The log cannot reserve: a waiter sleeps for the   *)
(* wait it is told and asks again.                                         *)
(***************************************************************************)
EXTENDS Integers, Sequences, FiniteSets

CONSTANTS Waiters,    \* the waiting acquires in flight
          Limit, W,   \* units per window, and the window
          Costs,      \* the costs requested
          Timeouts,   \* their timeouts; Forever for none
          Pauses,     \* durations passed to pause_for
          Charges,    \* units charged after the fact
          Refunds,    \* units given back by callers of try_acquire
          MaxLag,     \* the age of a clock reading
          MaxUsed,    \* bound: no charge when the log holds more
          MaxNow, Forever

ASSUME SlidingAssumption ==
  /\ IsFiniteSet(Waiters)
  /\ Limit \in Nat \ {0} /\ W \in Nat \ {0} /\ MaxLag \in 0..(W - 1)
  /\ Costs \subseteq Nat /\ Timeouts \subseteq Nat /\ Pauses \subseteq Nat \ {0}
  /\ Charges \subseteq Nat \ {0} /\ Refunds \subseteq Nat \ {0}
  /\ MaxUsed \in Nat /\ MaxNow \in Nat /\ Forever \in Nat /\ Forever > MaxNow + W

VARIABLES now,     \* the clock
          log,     \* grants [at, count], oldest first
          used,    \* the units of the log, kept in step
          hold,    \* the end of the pause, 0 for none
          wt,      \* the waiting acquires
          spent,   \* history: units granted and not given back, by instant
          stray    \* history: units whose grant had expired were given back

vars == <<now, log, used, hold, wt, spent, stray>>

Idle == [pc |-> "idle", cost |-> 0, dl |-> 0, until |-> 0, lis |-> FALSE, got |-> 0]

Init ==
  /\ now = 0
  /\ log = <<>> /\ used = 0 /\ hold = 0
  /\ wt = [x \in Waiters |-> Idle]
  /\ spent = [i \in 0..MaxNow |-> 0]
  /\ stray = FALSE

-----------------------------------------------------------------------------
(* The log. *)

(* A sum, as the number of units its terms stand for. *)
SumOver(f, S) == Cardinality(UNION {{i} \X (1..f[i]) : i \in S})

Counts(grants) == [i \in DOMAIN grants |-> grants[i].count]
First(grants, i) == SumOver(Counts(grants), 1..i)
Units(grants) == SumOver(Counts(grants), DOMAIN grants)
SatSub(a, b) == IF a > b THEN a - b ELSE 0
Until(d) == IF now + d > Forever THEN Forever ELSE now + d

(* What a section may have read off the clock before it had the mutex. *)
Readings == {t \in 0..now : now - t <= MaxLag}

(* Mutant: a grant stays one unit of time too short. *)
ExpiredEarly(at) == Cardinality({i \in DOMAIN log : \A j \in 1..i : log[j].at + W <= at + 1})

(* The grants at the front that have left the window ending at `at'. *)
Expired(at) == Cardinality({i \in DOMAIN log : \A j \in 1..i : log[j].at + W <= at})

(* prune. *)
Pruned(at) == SubSeq(log, Expired(at) + 1, Len(log))
UsedAfterPrune(at) == SatSub(used, First(log, Expired(at)))

(* Mutant: the first grant to leave is waited for, whatever it frees. *)
WaitForFirst(grants, at, needed) ==
  IF grants = <<>> THEN W ELSE SatSub(grants[1].at + W, at)

(* wait_for: until the grants that free `needed' units have left. *)
WaitFor(grants, at, needed) ==
  LET enough == {i \in DOMAIN grants : First(grants, i) >= needed}
      last == CHOOSE i \in enough : \A j \in enough : i <= j
  IN  IF enough = {} THEN W ELSE SatSub(grants[last].at + W, at)

(* evaluate: the answer to a request, and whether it looks at the log. *)
Impossible(cost) == cost > Limit
Free(cost) == cost = 0
Held(at) == hold > at
Fits(cost, at) == UsedAfterPrune(at) + cost <= Limit
After(cost, at) ==
  IF Held(at) THEN hold - at
  ELSE WaitFor(Pruned(at), at, UsedAfterPrune(at) + cost - Limit)

(* A grant is stamped no earlier than the newest one in the log. *)
Stamp(grants, at) ==
  IF grants = <<>> THEN at
  ELSE LET last == grants[Len(grants)].at IN IF last < at THEN at ELSE last

Push(cost, at) ==
  /\ log' = Append(Pruned(at), [at |-> Stamp(Pruned(at), at), count |-> cost])
  /\ used' = UsedAfterPrune(at) + cost

Look(at) ==
  /\ log' = Pruned(at)
  /\ used' = UsedAfterPrune(at)

(* refund: from the oldest grants, whichever grant the units came from. *)
GiveBack(n) ==
  LET whole == Cardinality({i \in DOMAIN log : First(log, i) <= n})
      rest == n - First(log, whole)
  IN  /\ log' = [i \in 1..(Len(log) - whole) |->
                   IF i = 1 THEN [log[whole + 1] EXCEPT !.count = @ - rest]
                            ELSE log[whole + i]]
      /\ used' = SatSub(used, n)

(* The units were granted at `from' and never used. *)
Unspend(n, from) ==
  /\ spent' = [spent EXCEPT ![from] = @ - n]
  /\ stray' = (stray \/ from + W - MaxLag <= now)

-----------------------------------------------------------------------------
(* The operations that do not wait. *)

(* try_acquire, and reserve, which is an attempt here. *)
TryAcquire(cost, at) ==
  /\ ~Impossible(cost) /\ ~Free(cost) /\ ~Held(at)
  /\ IF Fits(cost, at)
       THEN Push(cost, at) /\ spent' = [spent EXCEPT ![now] = @ + cost]
       ELSE Look(at) /\ UNCHANGED spent
  /\ UNCHANGED <<now, hold, wt, stray>>

(* peek and available, which prune unless the log is paused. *)
Peek(at) ==
  /\ ~Held(at)
  /\ Look(at)
  /\ UNCHANGED <<now, hold, wt, spent, stray>>

(* refund, by a caller of try_acquire, of units that it has. *)
WaitersOf(from) == {x \in Waiters : wt[x].pc = "granted" /\ wt[x].got = from}
Owned(from) == spent[from] - SumOver([x \in Waiters |-> wt[x].cost], WaitersOf(from))
Refund(n) ==
  /\ \E from \in 0..now : Owned(from) >= n /\ Unspend(n, from)
  /\ GiveBack(n)
  /\ UNCHANGED <<now, hold, wt>>

(* charge: units already spent occupy the window, paused or not. *)
Charge(n, at) ==
  /\ UsedAfterPrune(at) <= MaxUsed
  /\ Push(n, at)
  /\ UNCHANGED <<now, hold, wt, spent, stray>>

PauseFor(d, at) ==
  /\ hold' = IF at + d > hold THEN at + d ELSE hold
  /\ UNCHANGED <<now, log, used, wt, spent, stray>>

(* resume, which wakes the waiters that sleep a pause out. *)
Resume ==
  /\ hold # 0
  /\ hold' = 0
  /\ wt' = [x \in Waiters |-> IF wt[x].lis THEN [wt[x] EXCEPT !.until = now, !.lis = FALSE]
                                          ELSE wt[x]]
  /\ UNCHANGED <<now, log, used, spent, stray>>

-----------------------------------------------------------------------------
(* The waiting acquire; a sleeper asks again when its timer fires. *)

Acquire(x, cost, timeout) ==
  /\ wt[x].pc = "idle"
  /\ wt' = [wt EXCEPT ![x] = [pc |-> "ask", cost |-> cost, dl |-> Until(timeout),
                              until |-> now, lis |-> FALSE, got |-> 0]]
  /\ UNCHANGED <<now, log, used, hold, spent, stray>>

Left(x) == IF wt[x].dl >= Forever THEN Forever ELSE SatSub(wt[x].dl, now)

Leave(x) == wt' = [wt EXCEPT ![x] = Idle]

(* The retry: sleep for what the answer says, or give up. *)
SleepOrTimeOut(x, after, at) ==
  IF after > Left(x) THEN Leave(x)
  ELSE wt' = [wt EXCEPT ![x].until = Until(after), ![x].lis = Held(at)]

(* The step of the wait engine: evaluate, with a reading not older than the *)
(* timer that woke the waiter.                                              *)
Ask(x, at) ==
  /\ wt[x].pc = "ask" /\ wt[x].until <= at
  /\ LET cost == wt[x].cost
     IN  \/ Impossible(cost) /\ Leave(x) /\ UNCHANGED <<log, used, spent>>
         \/ /\ Free(cost)
            /\ wt' = [wt EXCEPT ![x].pc = "granted", ![x].got = now]
            /\ UNCHANGED <<log, used, spent>>
         \/ /\ ~Impossible(cost) /\ ~Free(cost) /\ Held(at)
            /\ SleepOrTimeOut(x, After(cost, at), at)
            /\ UNCHANGED <<log, used, spent>>
         \/ /\ ~Impossible(cost) /\ ~Free(cost) /\ ~Held(at)
            /\ IF Fits(cost, at)
                 THEN /\ Push(cost, at)
                      /\ wt' = [wt EXCEPT ![x].pc = "granted", ![x].got = now]
                      /\ spent' = [spent EXCEPT ![now] = @ + cost]
                 ELSE /\ Look(at)
                      /\ SleepOrTimeOut(x, After(cost, at), at)
                      /\ UNCHANGED spent
  /\ UNCHANGED <<now, hold, stray>>

(* A granted waiter sleeps a pause out before it returns, or gives its     *)
(* units back when the pause outlasts its deadline.                        *)
Granted(x, at) ==
  /\ wt[x].pc = "granted" /\ wt[x].until <= at
  /\ IF Held(at) THEN SleepOrTimeOut(x, hold - at, at) ELSE Leave(x)
  /\ IF Held(at) /\ hold - at > Left(x)
       THEN GiveBack(wt[x].cost) /\ Unspend(wt[x].cost, wt[x].got)
       ELSE UNCHANGED <<log, used, spent, stray>>
  /\ UNCHANGED <<now, hold>>

(* The future is dropped: what was granted goes back. *)
Cancel(x) ==
  /\ wt[x].pc # "idle"
  /\ Leave(x)
  /\ IF wt[x].pc = "granted"
       THEN GiveBack(wt[x].cost) /\ Unspend(wt[x].cost, wt[x].got)
       ELSE UNCHANGED <<log, used, spent, stray>>
  /\ UNCHANGED <<now, hold>>

Tick ==
  /\ now < MaxNow
  /\ now' = now + 1
  /\ UNCHANGED <<log, used, hold, wt, spent, stray>>

Next ==
  \/ \E cost \in Costs, at \in Readings : TryAcquire(cost, at)
  \/ \E at \in Readings : Peek(at)
  \/ \E n \in Refunds : Refund(n)
  \/ \E n \in Charges, at \in Readings : Charge(n, at)
  \/ \E d \in Pauses, at \in Readings : PauseFor(d, at)
  \/ Resume
  \/ \E x \in Waiters, cost \in Costs, timeout \in Timeouts : Acquire(x, cost, timeout)
  \/ \E x \in Waiters, at \in Readings : Ask(x, at) \/ Granted(x, at)
  \/ \E x \in Waiters : Cancel(x)
  \/ Tick

Spec == Init /\ [][Next]_vars

-----------------------------------------------------------------------------
(* The log holds grants of at least one unit, and a waiter what the engine *)
(* left it with.                                                           *)
TypeOK ==
  /\ now \in 0..MaxNow
  /\ log \in Seq([at : 0..now, count : Nat \ {0}])
  /\ used \in Nat /\ hold \in Nat
  /\ wt \in [Waiters -> [pc : {"idle", "ask", "granted"}, cost : Costs \cup {0},
                         dl : 0..Forever, until : 0..Forever, lis : BOOLEAN, got : 0..MaxNow]]
  /\ spent \in [0..MaxNow -> Nat]
  /\ stray \in BOOLEAN

(* The cached sum is the sum, through pruning, refunds that split a grant  *)
(* and charges: a drift either starves callers or lifts the limit.         *)
UsedExact == used = Units(log)

(* The wait told to a refused caller (wait_for) is the first moment at     *)
(* which the cost fits if nothing else happens: counted grant by grant,    *)
(* wherever it stands in the log.                                          *)
FreedBy(t) == SumOver(Counts(log), {i \in DOMAIN log : log[i].at + W <= t})
WaitExact ==
  \A cost \in Costs \cap (1..Limit) :
    ~Held(now) /\ ~Fits(cost, now) =>
      LET wait == After(cost, now)
          fits(t) == used - FreedBy(t) + cost <= Limit
      IN  wait > 0 /\ fits(now + wait) /\ ~fits(now + wait - 1)

(* What the log's lock protects: its types, the sum, the waits. *)
LogExact == TypeOK /\ UsedExact /\ WaitExact

(* "At most limit units in any trailing window": over every window, shorter *)
(* by the age a reading may have, counting what was granted and not given   *)
(* back, and whatever was charged, paused or dropped in between.            *)
SpentFrom(t) == SumOver(spent, t..(t + W - MaxLag - 1))
Windows == {t \in 0..MaxNow : t + W - MaxLag - 1 <= MaxNow}
WindowBound == \A t \in Windows : SpentFrom(t) <= Limit

(* The same until units come back whose grant has left the window: those    *)
(* are then taken from somebody else's grant.                               *)
WindowBoundUnlessStray == stray \/ WindowBound
=============================================================================
