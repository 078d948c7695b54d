--------------------------- MODULE AdaptiveProof ---------------------------
(***************************************************************************)
(* Proofs about Adaptive for every finite set of tasks, every floor and    *)
(* ceiling, every cost within the ceiling and every strategy of the model. *)
(*                                                                         *)
(* The inductive invariant is Inv.  NoLostWakeup is the hard part: a       *)
(* waiter goes to sleep because of a value of in_flight that it read some  *)
(* time ago, so what it read has to be covered as well.  Covered says, of  *)
(* a waiter u that has read in_flight and will compare it with the limit,  *)
(* that the slots given back since are matched by notified waiters, by     *)
(* wakes still to be sent, and by other lookers that will either look      *)
(* again or have read less than u; and it has to be known only while       *)
(* somebody sleeps, or may fall asleep before u or with u.                 *)
(* For the decreases, Sound follows what a raise of the epoch tells a call *)
(* that is not past its comparison: its epoch is then an old one, and if   *)
(* it goes on to adjust the limit all the same, it is a success.           *)
(***************************************************************************)
EXTENDS Adaptive, Counting

(* The lookers that will look again before they sleep. *)
Hopeful == {"load1", "listen", "load2", "cas1", "cas2"}

Fresher(u) == {v \in At(Looking) \ {u} : tk[v].pc \in Hopeful \/ tk[v].seen < tk[u].seen}

Watched(u) ==
  \E w \in listening :
    \/ tk[w].pc = "parked"
    \/ tk[w].pc = "lim2" /\ (w = u \/ tk[w].seen > tk[u].seen)

Covered(u) ==
  Least(tk[u].seen, limit) - in_flight
    <= Cardinality(notified) + Cardinality(Pending) + Cardinality(Fresher(u))

ReadsCovered == \A u \in Tasks : tk[u].pc = "lim2" /\ Watched(u) => Covered(u)

Swapping == {"casT", "casC", "cas1", "cas2"}
Settling == {"look", "guard", "adjust", "swap", "bump", "grow", "release"}

(* What a task has checked so far still bounds what it will do. *)
Sound(t) ==
  /\ tk[t].pc \in Swapping => tk[t].seen + tk[t].slots <= Ceiling
  /\ tk[t].pc \notin {"idle", "notify"} => tk[t].slots >= 1
  /\ tk[t].pc \in Looking \cup {"parked"} => tk[t].slots = 1
  /\ tk[t].pc \in Settling => 1 <= tk[t].back /\ tk[t].back <= tk[t].slots
  /\ tk[t].pc = "swap" => Floor <= tk[t].new /\ tk[t].new <= Ceiling
  /\ tk[t].pc = "grow" => tk[t].cur < tk[t].new
  /\ tk[t].told => tk[t].pc \in Settling \cup {"held"}
  /\ tk[t].pc \in Unchecked => tk[t].ep <= epoch
  /\ tk[t].told /\ tk[t].pc \in Unchecked => tk[t].ep < epoch
  /\ tk[t].told /\ tk[t].pc \in {"adjust", "swap"} => tk[t].ok

Inv ==
  /\ SlotsAccounted
  /\ \A t \in Tasks : Sound(t)
  /\ WithinCeiling
  /\ NoLostWakeup
  /\ ReadsCovered

-----------------------------------------------------------------------------
(* A step of one task. *)

(* What the invariant reads of a task stays, but for what a raise of the   *)
(* epoch tells it.                                                         *)
Same(u) ==
  /\ tk'[u].pc = tk[u].pc /\ tk'[u].slots = tk[u].slots /\ tk'[u].seen = tk[u].seen
  /\ tk'[u].cur = tk[u].cur /\ tk'[u].new = tk[u].new /\ tk'[u].ep = tk[u].ep
  /\ tk'[u].ok = tk[u].ok /\ tk'[u].back = tk[u].back
  /\ tk'[u].told => tk[u].told \/ (tk[u].pc \in Unchecked /\ epoch < epoch')

OnlyTask(t) ==
  /\ tk \in [Tasks -> Calls] /\ tk' \in [Tasks -> Calls]
  /\ \A u \in Tasks : u # t => Same(u)

LEMMA BecomeOnly ==
  ASSUME TypeOK, NEW t \in Tasks, NEW me \in Calls, Become(t, me)
  PROVE  OnlyTask(t) /\ tk'[t] = me
BY DEF TypeOK, Become, OnlyTask, Same

(* The units of the model are the units that Counting counts. *)
LEMMA SlotsChanged ==
  ASSUME NEW t \in Tasks, OnlyTask(t)
  PROVE  /\ Cardinality(SlotsInUse) \in Nat /\ Cardinality(SlotsInUse)' \in Nat
         /\ SlotsOf(t) \in Nat /\ SlotsOf(t)' \in Nat
         /\ SlotsOf(t) <= Cardinality(SlotsInUse)
         /\ Cardinality(SlotsInUse)' = Cardinality(SlotsInUse) - SlotsOf(t) + SlotsOf(t)'
<1> DEFINE f == [u \in Tasks |-> SlotsOf(u)]
           g == [u \in Tasks |-> SlotsOf(u)']
           z == [u \in Tasks |-> IF u = t THEN 0 ELSE SlotsOf(u)]
<1>1. \A u \in Tasks : SlotsOf(u) \in Nat /\ SlotsOf(u)' \in Nat
  BY DEF OnlyTask, Calls, SlotsOf
<1>2. \A u \in Tasks : u # t => SlotsOf(u)' = SlotsOf(u)
  BY DEF OnlyTask, Same, SlotsOf
<1>3. Cardinality(SlotsInUse) = Total(f, Tasks) /\ Cardinality(SlotsInUse)' = Total(g, Tasks)
  BY DEF SlotsInUse, Total, UnitsOf
<1>4. /\ \A u \in Tasks : f[u] \in Nat /\ g[u] \in Nat /\ z[u] \in Nat
      /\ \A u \in Tasks : u # t => g[u] = f[u] /\ z[u] = f[u]
      /\ f[t] = SlotsOf(t) /\ g[t] = SlotsOf(t)' /\ z[t] = 0
  BY <1>1, <1>2
<1> HIDE DEF f, g, z
<1>5. /\ Total(f, Tasks) \in Nat /\ Total(g, Tasks) \in Nat
      /\ Total(g, Tasks) = Total(f, Tasks) - f[t] + g[t]
  BY <1>4, TotalChanged, AdaptiveAssumption
<1>6. Total(z, Tasks) \in Nat /\ Total(z, Tasks) = Total(f, Tasks) - f[t] + z[t]
  BY <1>4, TotalChanged, AdaptiveAssumption
<1> QED BY <1>1, <1>3, <1>4, <1>5, <1>6

LEMMA PendingChanged ==
  ASSUME NEW t \in Tasks, OnlyTask(t), \A u \in Tasks : Sound(u), Sound(t)'
  PROVE  /\ Cardinality(Pending) \in Nat /\ Cardinality(Pending)' \in Nat
         /\ WakesOf(t) \in Nat /\ WakesOf(t)' \in Nat
         /\ Cardinality(Pending)' = Cardinality(Pending) - WakesOf(t) + WakesOf(t)'
<1> DEFINE f == [u \in Tasks |-> WakesOf(u)]
           g == [u \in Tasks |-> WakesOf(u)']
<1>1. \A u \in Tasks : u # t => WakesOf(u)' = WakesOf(u)
  BY DEF OnlyTask, Same, WakesOf
<1>2. \A u \in Tasks : WakesOf(u) \in Nat
  <2> SUFFICES ASSUME NEW u \in Tasks PROVE WakesOf(u) \in Nat
    OBVIOUS
  <2>1. tk[u].back \in Nat /\ tk[u].new \in Nat /\ tk[u].cur \in Nat
    BY DEF OnlyTask, Calls
  <2>2. tk[u].pc = "grow" => tk[u].cur < tk[u].new
    BY DEF Sound
  <2> QED BY <2>1, <2>2 DEF WakesOf
<1>3. WakesOf(t)' \in Nat
  <2>1. tk'[t].back \in Nat /\ tk'[t].new \in Nat /\ tk'[t].cur \in Nat
    BY DEF OnlyTask, Calls
  <2>2. tk'[t].pc = "grow" => tk'[t].cur < tk'[t].new
    BY DEF Sound
  <2> QED BY <2>1, <2>2 DEF WakesOf
<1>4. Cardinality(Pending) = Total(f, Tasks) /\ Cardinality(Pending)' = Total(g, Tasks)
  BY DEF Pending, Total, UnitsOf
<1>5. /\ \A u \in Tasks : f[u] \in Nat /\ g[u] \in Nat
      /\ \A u \in Tasks : u # t => g[u] = f[u]
      /\ f[t] = WakesOf(t) /\ g[t] = WakesOf(t)'
  BY <1>1, <1>2, <1>3
<1> HIDE DEF f, g
<1>6. /\ Total(f, Tasks) \in Nat /\ Total(g, Tasks) \in Nat
      /\ Total(g, Tasks) = Total(f, Tasks) - f[t] + g[t]
  BY <1>5, TotalChanged, AdaptiveAssumption
<1> QED BY <1>2, <1>3, <1>4, <1>5, <1>6

(* The sets of tasks that are counted are finite. *)
LEMMA TaskSets ==
  ASSUME NEW S, S \subseteq Tasks
  PROVE  IsFiniteSet(S) /\ Cardinality(S) \in Nat
BY AdaptiveAssumption, FS_Subset, FS_CardinalityType

LEMMA LookersChanged ==
  ASSUME NEW t \in Tasks, OnlyTask(t)
  PROVE  /\ Cardinality(At(Looking)) \in Nat /\ Cardinality(At(Looking))' \in Nat
         /\ Cardinality(At(Looking))' = Cardinality(At(Looking))
              + Bit(tk'[t].pc \in Looking) - Bit(tk[t].pc \in Looking)
<1> DEFINE A == At(Looking)
           B == {u \in Tasks : tk'[u].pc \in Looking}
<1>1. A \ {t} = B \ {t} /\ B = At(Looking)'
  BY DEF OnlyTask, Same, At
<1>2. A \subseteq Tasks /\ (t \in A <=> tk[t].pc \in Looking) /\ (t \in B <=> tk'[t].pc \in Looking)
  BY DEF At
<1> HIDE DEF A, B
<1>3. /\ Cardinality(A) \in Nat /\ Cardinality(B) \in Nat
      /\ Cardinality(B) = Cardinality(A) + Bit(t \in B) - Bit(t \in A)
  BY <1>1, <1>2, TaskSets, OneChanged
<1> QED BY <1>1, <1>2, <1>3 DEF A, Bit

(* Fresher(u) counts t if it is hopeful or has read less. *)
Hoping(t, u) == tk[t].pc \in Looking /\ (tk[t].pc \in Hopeful \/ tk[t].seen < tk[u].seen)

LEMMA FresherChanged ==
  ASSUME NEW t \in Tasks, OnlyTask(t), NEW u \in Tasks, u # t
  PROVE  /\ Cardinality(Fresher(u)) \in Nat /\ Cardinality(Fresher(u))' \in Nat
         /\ Cardinality(Fresher(u))' = Cardinality(Fresher(u))
              + Bit(Hoping(t, u)') - Bit(Hoping(t, u))
<1> DEFINE A == Fresher(u)
           B == Fresher(u)'
<1>1. A \ {t} = B \ {t}
  BY DEF OnlyTask, Same, At, Fresher
<1>2. A \subseteq Tasks /\ (t \in A <=> Hoping(t, u)) /\ (t \in B <=> Hoping(t, u)')
  BY DEF At, Fresher, Hoping
<1>4. Cardinality(Fresher(u))' = Cardinality(B)
  OBVIOUS
<1> HIDE DEF A, B
<1>3. /\ Cardinality(A) \in Nat /\ Cardinality(B) \in Nat
      /\ Cardinality(B) = Cardinality(A) + Bit(t \in B) - Bit(t \in A)
  BY <1>1, <1>2, TaskSets, OneChanged
<1> QED BY <1>2, <1>3, <1>4 DEF A, Bit

-----------------------------------------------------------------------------
(* The wake-ups.  Three kinds of step keep NoLostWakeup and ReadsCovered:  *)
(* one that leaves t where it does not compare an old reading and loses    *)
(* no wake, one that reads in_flight, and one that goes to sleep.          *)

(* What the limit rises by is balanced by slots taken, waiters notified,   *)
(* wakes announced and lookers; or nobody is left to be woken.             *)
Balanced(t) ==
  \/ listening' = {}
  \/ \E rise \in Nat :
       /\ limit' <= limit + rise
       /\ rise + in_flight + Cardinality(notified) + Cardinality(Pending)
            + Bit(tk[t].pc \in Looking)
          <= in_flight' + Cardinality(notified)' + Cardinality(Pending)'
            + Bit(tk'[t].pc \in Looking)

(* The numbers that NoLostWakeup and ReadsCovered are about. *)
Numbers ==
  /\ limit \in Nat /\ in_flight \in Nat
  /\ limit' \in Nat /\ in_flight' \in Nat
  /\ Cardinality(notified) \in Nat /\ Cardinality(Pending) \in Nat
  /\ Cardinality(notified)' \in Nat /\ Cardinality(Pending)' \in Nat

LEMMA BalancedStep ==
  ASSUME NEW t \in Tasks, OnlyTask(t), Numbers, NoLostWakeup, ReadsCovered,
         listening \subseteq Tasks, listening' \subseteq listening \cup {t},
         tk'[t].pc \notin {"lim1", "lim2", "parked"},
         Balanced(t)
  PROVE  NoLostWakeup' /\ ReadsCovered'
<1>1. CASE listening' = {}
  BY <1>1 DEF NoLostWakeup, ReadsCovered, Stuck, Watched
<1>2. CASE listening' # {}
  <2> PICK rise \in Nat :
       /\ limit' <= limit + rise
       /\ rise + in_flight + Cardinality(notified) + Cardinality(Pending)
            + Bit(tk[t].pc \in Looking)
          <= in_flight' + Cardinality(notified)' + Cardinality(Pending)'
            + Bit(tk'[t].pc \in Looking)
    BY <1>2 DEF Balanced
  <2>1. NoLostWakeup'
    <3> SUFFICES ASSUME Stuck' # {}
                 PROVE  (limit - in_flight <= Cardinality(At(Looking)) + Cardinality(notified)
                           + Cardinality(Pending))'
      BY DEF NoLostWakeup
    <3>1. Stuck # {}
      BY DEF Stuck, OnlyTask, Same
    <3>2. limit - in_flight <= Cardinality(At(Looking)) + Cardinality(notified)
            + Cardinality(Pending)
      BY <3>1 DEF NoLostWakeup
    <3>3. /\ Cardinality(At(Looking)) \in Nat /\ Cardinality(At(Looking))' \in Nat
          /\ Cardinality(At(Looking))' = Cardinality(At(Looking))
               + Bit(tk'[t].pc \in Looking) - Bit(tk[t].pc \in Looking)
      BY LookersChanged
    <3> QED BY <3>2, <3>3 DEF Numbers, Bit
  <2>2. ASSUME NEW u \in Tasks, tk'[u].pc = "lim2", Watched(u)'
        PROVE  Covered(u)'
    <3>1. u # t /\ tk[u].pc = "lim2" /\ tk'[u].seen = tk[u].seen
      BY <2>2 DEF OnlyTask, Same
    <3>2. Watched(u)
      <4>1. PICK w \in listening' :
               \/ tk'[w].pc = "parked"
               \/ tk'[w].pc = "lim2" /\ (w = u \/ tk'[w].seen > tk'[u].seen)
        BY <2>2 DEF Watched
      <4>2. w # t /\ w \in listening /\ w \in Tasks
        BY <4>1
      <4>3. tk'[w].pc = tk[w].pc /\ tk'[w].seen = tk[w].seen
        BY <4>2 DEF OnlyTask, Same
      <4> QED BY <3>1, <4>1, <4>2, <4>3 DEF Watched
    <3>3. Covered(u)
      BY <3>1, <3>2 DEF ReadsCovered
    <3>4. /\ Cardinality(Fresher(u)) \in Nat /\ Cardinality(Fresher(u))' \in Nat
          /\ Cardinality(Fresher(u))' = Cardinality(Fresher(u))
               + Bit(Hoping(t, u)') - Bit(Hoping(t, u))
      BY <3>1, FresherChanged
    <3>5. Bit(Hoping(t, u)') = Bit(tk'[t].pc \in Looking)
      BY DEF Hoping, Looking, Hopeful, Bit
    <3>6. /\ Bit(Hoping(t, u)) \in Nat /\ Bit(tk[t].pc \in Looking) \in Nat
          /\ Bit(tk'[t].pc \in Looking) \in Nat
          /\ Bit(Hoping(t, u)) <= Bit(tk[t].pc \in Looking)
      BY DEF Hoping, Bit
    <3>7. tk[u].seen \in Nat
      BY DEF OnlyTask, Calls
    <3>8. Least(tk[u].seen, limit) - in_flight
            <= Cardinality(notified) + Cardinality(Pending) + Cardinality(Fresher(u))
      BY <3>3 DEF Covered
    <3>9. /\ Least(tk[u].seen, limit) \in Nat /\ Least(tk[u].seen, limit') \in Nat
          /\ Least(tk[u].seen, limit') <= Least(tk[u].seen, limit) + rise
      BY <3>7 DEF Numbers, Least
    <3> HIDE DEF Least
    <3>10. Least(tk[u].seen, limit') - in_flight'
             <= Cardinality(notified)' + Cardinality(Pending)' + Cardinality(Fresher(u))'
      BY <3>4, <3>5, <3>6, <3>8, <3>9 DEF Numbers
    <3> QED BY <3>1, <3>10 DEF Covered
  <2> QED BY <2>1, <2>2 DEF ReadsCovered
<1> QED BY <1>1, <1>2

(* A looker that reads in_flight has nothing to be covered, and leaves     *)
(* uncovered only those that have read no more than what is in flight.     *)
LEMMA ReadingStep ==
  ASSUME NEW t \in Tasks, OnlyTask(t), Numbers, NoLostWakeup, ReadsCovered,
         listening \subseteq Tasks,
         tk[t].pc \in {"load1", "load2"}, tk'[t].pc \in {"lim1", "lim2"},
         tk'[t].seen = in_flight,
         UNCHANGED <<limit, in_flight, listening, notified>>,
         Cardinality(Pending)' = Cardinality(Pending)
  PROVE  NoLostWakeup' /\ ReadsCovered'
<1>1. NoLostWakeup'
  <2>1. Stuck' = Stuck
    BY DEF Stuck, OnlyTask, Same
  <2>2. Cardinality(At(Looking))' = Cardinality(At(Looking))
    BY LookersChanged DEF Looking, Bit
  <2> QED BY <2>1, <2>2 DEF NoLostWakeup
<1>2. ASSUME NEW u \in Tasks, tk'[u].pc = "lim2", Watched(u)'
      PROVE  Covered(u)'
  <2>1. tk'[u].seen \in Nat
    BY DEF OnlyTask, Calls
  <2>2. Cardinality(Fresher(u))' \in Nat
    <3>1. Fresher(u)' \subseteq Tasks
      BY DEF Fresher, At
    <3> QED BY <3>1, TaskSets
  <2>3. CASE tk'[u].seen <= in_flight
    <3>1. Least(tk'[u].seen, limit) - in_flight <= 0
      BY <2>1, <2>3 DEF Least, Numbers
    <3>2. Least(tk'[u].seen, limit) \in Nat
      BY <2>1 DEF Least, Numbers
    <3> HIDE DEF Least
    <3>3. Least(tk'[u].seen, limit') - in_flight'
            <= Cardinality(notified)' + Cardinality(Pending)' + Cardinality(Fresher(u))'
      BY <2>2, <3>1, <3>2 DEF Numbers
    <3> QED BY <3>3 DEF Covered
  <2>4. CASE tk'[u].seen > in_flight
    <3>1. u # t /\ tk[u].pc = "lim2" /\ tk'[u].seen = tk[u].seen
      BY <1>2, <2>4 DEF OnlyTask, Same, Numbers
    <3>2. Watched(u)
      <4>1. PICK w \in listening :
               \/ tk'[w].pc = "parked"
               \/ tk'[w].pc = "lim2" /\ (w = u \/ tk'[w].seen > tk'[u].seen)
        BY <1>2 DEF Watched
      <4>2. w # t
        BY <2>1, <2>4, <3>1, <4>1 DEF Numbers
      <4>3. tk'[w].pc = tk[w].pc /\ tk'[w].seen = tk[w].seen
        BY <4>2 DEF OnlyTask, Same
      <4> QED BY <3>1, <4>1, <4>3 DEF Watched
    <3>3. Covered(u)
      BY <3>1, <3>2 DEF ReadsCovered
    <3>4. Hoping(t, u) /\ Hoping(t, u)'
      BY <2>4, <3>1 DEF Hoping, Looking, Hopeful
    <3>5. Cardinality(Fresher(u))' = Cardinality(Fresher(u))
      BY <3>1, <3>4, FresherChanged DEF Bit
    <3> QED BY <3>1, <3>3, <3>5 DEF Covered
  <2> QED BY <2>1, <2>3, <2>4 DEF Numbers
<1> QED BY <1>1, <1>2 DEF ReadsCovered

(* A looker goes to sleep when what it has read is no less than the limit; *)
(* what covered its reading covers the whole limit, for the sleepers and   *)
(* for every looker that has read as much.                                 *)
LEMMA SleepingStep ==
  ASSUME NEW t \in Tasks, OnlyTask(t), Numbers, NoLostWakeup, ReadsCovered,
         listening \subseteq Tasks,
         tk[t].pc = "lim2", tk'[t].pc = "parked", tk[t].seen >= limit,
         UNCHANGED <<limit, in_flight, listening, notified>>,
         Cardinality(Pending)' = Cardinality(Pending)
  PROVE  NoLostWakeup' /\ ReadsCovered'
<1>1. \A u \in Tasks : tk[u].seen \in Nat
  BY DEF OnlyTask, Calls
<1>2. Watched(t) => limit - in_flight
        <= Cardinality(notified) + Cardinality(Pending) + Cardinality(Fresher(t))
  <2>1. Least(tk[t].seen, limit) = limit
    BY <1>1 DEF Least, Numbers
  <2> QED BY <2>1 DEF ReadsCovered, Covered
<1>3. NoLostWakeup'
  <2> SUFFICES ASSUME Stuck' # {}
               PROVE  (limit - in_flight <= Cardinality(At(Looking)) + Cardinality(notified)
                         + Cardinality(Pending))'
    BY DEF NoLostWakeup
  <2>1. Watched(t)
    BY DEF Stuck, Watched, OnlyTask, Same
  <2>2. Fresher(t) \subseteq At(Looking)' /\ At(Looking)' \subseteq Tasks
    BY DEF Fresher, At, OnlyTask, Same
  <2>3. /\ Cardinality(Fresher(t)) \in Nat /\ Cardinality(At(Looking))' \in Nat
        /\ Cardinality(Fresher(t)) <= Cardinality(At(Looking))'
    <3> DEFINE A == Fresher(t)
               B == At(Looking)'
    <3>1. A \subseteq B /\ B \subseteq Tasks
      BY <2>2
    <3> HIDE DEF A, B
    <3>2. Cardinality(A) \in Nat /\ Cardinality(B) \in Nat /\ Cardinality(A) <= Cardinality(B)
      BY <3>1, TaskSets, FS_Subset
    <3> QED BY <3>2 DEF A, B
  <2> QED BY <1>2, <2>1, <2>3 DEF Numbers
<1>4. ASSUME NEW u \in Tasks, tk'[u].pc = "lim2", Watched(u)'
      PROVE  Covered(u)'
  <2>1. u # t /\ tk[u].pc = "lim2" /\ tk'[u].seen = tk[u].seen
    BY <1>4 DEF OnlyTask, Same
  <2>2. /\ Cardinality(Fresher(u)) \in Nat /\ Cardinality(Fresher(u))' \in Nat
        /\ Cardinality(Fresher(u))' = Cardinality(Fresher(u))
             + Bit(Hoping(t, u)') - Bit(Hoping(t, u))
    BY <2>1, FresherChanged
  <2>3. ~Hoping(t, u)' /\ (Hoping(t, u) => tk[t].seen < tk[u].seen)
    BY DEF Hoping, Looking, Hopeful
  <2>4. PICK w \in listening :
           \/ tk'[w].pc = "parked"
           \/ tk'[w].pc = "lim2" /\ (w = u \/ tk'[w].seen > tk'[u].seen)
    BY <1>4 DEF Watched
  <2>5. w \in Tasks /\ (w # t => tk'[w].pc = tk[w].pc /\ tk'[w].seen = tk[w].seen)
    BY DEF OnlyTask, Same
  <2>6. CASE Watched(u) /\ ~(tk[t].seen < tk[u].seen)
    <3>1. Cardinality(Fresher(u))' = Cardinality(Fresher(u))
      BY <2>2, <2>3, <2>6 DEF Bit
    <3>2. Covered(u)
      BY <2>1, <2>6 DEF ReadsCovered
    <3> QED BY <2>1, <3>1, <3>2 DEF Covered
  <2>7. CASE Watched(t) /\ tk[t].seen <= tk[u].seen
    <3>1. Fresher(t) \subseteq Fresher(u)' /\ Fresher(u)' \subseteq Tasks
      <4>1. Fresher(u)' \subseteq Tasks
        BY DEF Fresher, At
      <4>2. ASSUME NEW v \in Fresher(t)
            PROVE  v \in Fresher(u)'
        <5>1. v \in Tasks /\ v # t /\ tk[v].pc \in Looking
          BY DEF Fresher, At
        <5>2. tk[v].pc \in Hopeful \/ tk[v].seen < tk[t].seen
          BY DEF Fresher
        <5>3. v # u
          BY <1>1, <2>1, <2>7, <5>2 DEF Hopeful
        <5>4. tk'[v].pc = tk[v].pc /\ tk'[v].seen = tk[v].seen
          BY <5>1 DEF OnlyTask, Same
        <5>5. tk'[v].pc \in Hopeful \/ tk'[v].seen < tk'[u].seen
          BY <1>1, <2>1, <2>7, <5>1, <5>2, <5>4
        <5> QED BY <5>1, <5>3, <5>4, <5>5 DEF Fresher, At
      <4> QED BY <4>1, <4>2
    <3>2. /\ Cardinality(Fresher(t)) \in Nat
          /\ Cardinality(Fresher(t)) <= Cardinality(Fresher(u))'
      <4> DEFINE A == Fresher(t)
                 B == Fresher(u)'
      <4>1. A \subseteq B /\ B \subseteq Tasks
        BY <3>1
      <4> HIDE DEF A, B
      <4>2. Cardinality(A) \in Nat /\ Cardinality(A) <= Cardinality(B)
        BY <4>1, TaskSets, FS_Subset
      <4> QED BY <4>2 DEF A, B
    <3>3. Least(tk[u].seen, limit) \in Nat /\ Least(tk[u].seen, limit) <= limit
      BY <1>1 DEF Least, Numbers
    <3> HIDE DEF Least
    <3>4. Least(tk[u].seen, limit) - in_flight
            <= Cardinality(notified)' + Cardinality(Pending)' + Cardinality(Fresher(u))'
      BY <1>2, <2>2, <2>7, <3>2, <3>3 DEF Numbers
    <3> QED BY <2>1, <3>4 DEF Covered
  <2>8. \/ Watched(u) /\ ~(tk[t].seen < tk[u].seen)
        \/ Watched(t) /\ tk[t].seen <= tk[u].seen
    <3>1. CASE w = t
      BY <1>1, <3>1 DEF Watched
    <3>2. CASE w # t /\ tk[w].pc = "parked"
      BY <1>1, <3>2 DEF Watched
    <3>3. CASE w # t /\ tk[w].pc # "parked"
      <4>1. tk[w].pc = "lim2" /\ (w = u \/ tk[w].seen > tk[u].seen)
        BY <2>1, <2>4, <2>5, <3>3
      <4>2. Watched(u)
        BY <4>1 DEF Watched
      <4>3. tk[t].seen < tk[u].seen => Watched(t)
        BY <1>1, <2>5, <4>1 DEF Watched
      <4> QED BY <1>1, <4>2, <4>3
    <3> QED BY <3>1, <3>2, <3>3
  <2> QED BY <2>6, <2>7, <2>8
<1> QED BY <1>3, <1>4 DEF ReadsCovered

-----------------------------------------------------------------------------
(* Putting the parts together. *)

(* What a step of t does besides the wake-ups. *)
Keeps(t) ==
  /\ OnlyTask(t) /\ Sound(t)'
  /\ epoch' \in Nat /\ epoch <= epoch'
  /\ limit' \in Floor..Ceiling /\ in_flight' \in Nat /\ in_flight' <= Ceiling
  /\ in_flight' = in_flight - SlotsOf(t) + SlotsOf(t)'
  /\ listening' \cap notified' = {}
  /\ (listening' \cup notified') \ {t} = (listening \cup notified) \ {t}
  /\ t \in listening' \cup notified' <=> tk'[t].pc \in Registered

LEMMA KeepsRest ==
  ASSUME Inv, NEW t \in Tasks, Keeps(t)
  PROVE  /\ SlotsAccounted' /\ WithinCeiling' /\ (\A u \in Tasks : Sound(u))'
         /\ Numbers /\ listening \subseteq Tasks
         /\ WakesOf(t) \in Nat /\ WakesOf(t)' \in Nat
         /\ Cardinality(Pending)' = Cardinality(Pending) - WakesOf(t) + WakesOf(t)'
<1>1. OnlyTask(t) /\ Sound(t)'
  BY DEF Keeps
<1>2. (\A u \in Tasks : Sound(u))'
  <2> SUFFICES ASSUME NEW u \in Tasks PROVE Sound(u)'
    OBVIOUS
  <2>1. CASE u = t
    BY <1>1, <2>1
  <2>2. CASE u # t
    <3>1. Sound(u) /\ Same(u)
      BY <1>1, <2>2 DEF Inv, OnlyTask
    <3>2. tk[u].ep \in Nat /\ epoch \in Nat /\ epoch' \in Nat /\ epoch <= epoch'
      BY <1>1 DEF Inv, SlotsAccounted, TypeOK, Keeps, OnlyTask, Calls
    <3>3. /\ tk[u].ep <= epoch => tk[u].ep <= epoch'
          /\ tk[u].ep < epoch => tk[u].ep < epoch'
          /\ tk[u].ep <= epoch /\ epoch < epoch' => tk[u].ep < epoch'
      BY <3>2
    <3> HIDE DEF Same, Sound
    <3> QED BY <3>1, <3>3, Zenon DEF Sound, Same, Unchecked, Settling
  <2> QED BY <2>1, <2>2
<1>3. TypeOK'
  <2>1. limit' \in Nat /\ in_flight' \in Nat /\ epoch' \in Nat
    BY AdaptiveAssumption DEF Keeps
  <2>2. listening \cup notified = At(Registered)
    BY DEF Inv, SlotsAccounted, TypeOK
  <2>3. At(Registered)' \ {t} = At(Registered) \ {t}
    BY <1>1 DEF OnlyTask, Same, At
  <2>4. t \in At(Registered)' <=> tk'[t].pc \in Registered
    BY DEF At
  <2>5. listening' \cup notified' = At(Registered)'
    <3> DEFINE A == listening' \cup notified'
               B == At(Registered)'
    <3>1. A \ {t} = B \ {t}
      BY <2>2, <2>3 DEF Keeps
    <3>2. t \in A <=> t \in B
      BY <2>4 DEF Keeps
    <3> HIDE DEF A, B
    <3>3. A = B
      BY <3>1, <3>2
    <3> QED BY <3>3 DEF A, B
  <2>6. tk' \in [Tasks -> Calls]
    BY <1>1 DEF OnlyTask
  <2> QED BY <2>1, <2>5, <2>6 DEF TypeOK, Keeps
<1>4. SlotsAccounted'
  <2>1. /\ Cardinality(SlotsInUse) \in Nat
        /\ SlotsOf(t) \in Nat /\ SlotsOf(t)' \in Nat
        /\ Cardinality(SlotsInUse)' = Cardinality(SlotsInUse) - SlotsOf(t) + SlotsOf(t)'
    BY <1>1, SlotsChanged
  <2>2. in_flight = Cardinality(SlotsInUse) /\ in_flight' = in_flight - SlotsOf(t) + SlotsOf(t)'
    BY DEF Inv, SlotsAccounted, Keeps
  <2> QED BY <1>3, <2>1, <2>2 DEF SlotsAccounted
<1>5. WithinCeiling'
  BY DEF Keeps, WithinCeiling
<1>6. /\ Cardinality(Pending) \in Nat /\ Cardinality(Pending)' \in Nat
      /\ WakesOf(t) \in Nat /\ WakesOf(t)' \in Nat
      /\ Cardinality(Pending)' = Cardinality(Pending) - WakesOf(t) + WakesOf(t)'
  BY <1>1, PendingChanged DEF Inv
<1>7. listening \subseteq Tasks /\ notified \subseteq Tasks /\ notified' \subseteq Tasks
  BY <1>3 DEF Inv, SlotsAccounted, TypeOK, At
<1>8. Cardinality(notified) \in Nat /\ Cardinality(notified)' \in Nat
  BY <1>7, TaskSets
<1>9. Numbers
  BY <1>3, <1>6, <1>8 DEF Numbers, Inv, SlotsAccounted, TypeOK
<1> QED BY <1>2, <1>4, <1>5, <1>6, <1>7, <1>9

(* A step that changes nothing but the task. *)
Quiet(t) ==
  /\ OnlyTask(t) /\ Sound(t)'
  /\ UNCHANGED <<limit, in_flight, epoch, listening, notified>>
  /\ SlotsOf(t)' = SlotsOf(t) /\ WakesOf(t)' = WakesOf(t)
  /\ tk'[t].pc \in Registered <=> tk[t].pc \in Registered

LEMMA QuietKeeps ==
  ASSUME Inv, NEW t \in Tasks, Quiet(t)
  PROVE  Keeps(t) /\ Numbers /\ Cardinality(Pending)' = Cardinality(Pending)
<1>1. t \in listening \cup notified <=> tk[t].pc \in Registered
  BY DEF Inv, SlotsAccounted, TypeOK, At
<1>2. SlotsOf(t) \in Nat /\ SlotsOf(t)' = SlotsOf(t)
  BY SlotsChanged DEF Quiet
<1>3. in_flight' = in_flight - SlotsOf(t) + SlotsOf(t)'
  BY <1>2 DEF Quiet, Inv, SlotsAccounted, TypeOK
<1>4. Keeps(t)
  BY <1>1, <1>3 DEF Quiet, Keeps, Inv, SlotsAccounted, TypeOK, WithinCeiling
<1>5. /\ Numbers /\ WakesOf(t) \in Nat /\ WakesOf(t)' = WakesOf(t)
      /\ Cardinality(Pending)' = Cardinality(Pending) - WakesOf(t) + WakesOf(t)'
  BY <1>4, KeepsRest DEF Quiet
<1> QED BY <1>4, <1>5 DEF Numbers

LEMMA MovedInv ==
  ASSUME Inv, NEW t \in Tasks, Keeps(t), listening' \subseteq listening \cup {t},
         tk'[t].pc \notin {"lim1", "lim2", "parked"}, Balanced(t)
  PROVE  Inv'
<1>1. /\ SlotsAccounted' /\ WithinCeiling' /\ (\A u \in Tasks : Sound(u))'
      /\ Numbers /\ listening \subseteq Tasks
  BY KeepsRest
<1>2. OnlyTask(t) /\ NoLostWakeup /\ ReadsCovered
  BY DEF Keeps, Inv
<1>3. NoLostWakeup' /\ ReadsCovered'
  BY <1>1, <1>2, BalancedStep
<1> QED BY <1>1, <1>3 DEF Inv

LEMMA QuietInv ==
  ASSUME Inv, NEW t \in Tasks, Quiet(t),
         tk'[t].pc \notin {"lim1", "lim2", "parked"},
         tk[t].pc \in Looking => tk'[t].pc \in Looking
  PROVE  Inv'
<1>1. Keeps(t) /\ Numbers /\ Cardinality(Pending)' = Cardinality(Pending)
  BY QuietKeeps
<1>2. Bit(tk[t].pc \in Looking) \in Nat /\ Bit(tk'[t].pc \in Looking) \in Nat
      /\ Bit(tk[t].pc \in Looking) <= Bit(tk'[t].pc \in Looking)
  BY DEF Bit
<1>3. Balanced(t)
  <2>1. UNCHANGED <<limit, in_flight, notified>>
    BY DEF Quiet
  <2>2. /\ limit' <= limit + 0
        /\ 0 + in_flight + Cardinality(notified) + Cardinality(Pending)
             + Bit(tk[t].pc \in Looking)
           <= in_flight' + Cardinality(notified)' + Cardinality(Pending)'
             + Bit(tk'[t].pc \in Looking)
    BY <1>1, <1>2, <2>1 DEF Numbers
  <2> QED BY <2>2 DEF Balanced
<1>4. listening' = listening
  BY DEF Quiet
<1> QED BY <1>1, <1>3, <1>4, MovedInv

LEMMA ReadingInv ==
  ASSUME Inv, NEW t \in Tasks, Quiet(t),
         tk[t].pc \in {"load1", "load2"}, tk'[t].pc \in {"lim1", "lim2"},
         tk'[t].seen = in_flight
  PROVE  Inv'
<1>1. Keeps(t) /\ Numbers /\ Cardinality(Pending)' = Cardinality(Pending)
  BY QuietKeeps
<1>2. /\ SlotsAccounted' /\ WithinCeiling' /\ (\A u \in Tasks : Sound(u))'
      /\ listening \subseteq Tasks
  BY <1>1, KeepsRest
<1>3. OnlyTask(t) /\ NoLostWakeup /\ ReadsCovered
      /\ UNCHANGED <<limit, in_flight, listening, notified>>
  BY DEF Quiet, Inv
<1>4. NoLostWakeup' /\ ReadsCovered'
  BY <1>1, <1>2, <1>3, ReadingStep
<1> QED BY <1>2, <1>4 DEF Inv

LEMMA SleepingInv ==
  ASSUME Inv, NEW t \in Tasks, Quiet(t),
         tk[t].pc = "lim2", tk'[t].pc = "parked", tk[t].seen >= limit
  PROVE  Inv'
<1>1. Keeps(t) /\ Numbers /\ Cardinality(Pending)' = Cardinality(Pending)
  BY QuietKeeps
<1>2. /\ SlotsAccounted' /\ WithinCeiling' /\ (\A u \in Tasks : Sound(u))'
      /\ listening \subseteq Tasks
  BY <1>1, KeepsRest
<1>3. OnlyTask(t) /\ NoLostWakeup /\ ReadsCovered
      /\ UNCHANGED <<limit, in_flight, listening, notified>>
  BY DEF Quiet, Inv
<1>4. NoLostWakeup' /\ ReadsCovered'
  BY <1>1, <1>2, <1>3, SleepingStep
<1> QED BY <1>2, <1>4 DEF Inv

-----------------------------------------------------------------------------
(* The steps that change nothing but the task. *)

LEMMA Facts ==
  ASSUME Inv, NEW t \in Tasks
  PROVE  /\ TypeOK /\ Sound(t) /\ tk[t] \in Calls /\ Idle \in Calls
         /\ limit \in Nat /\ in_flight \in Nat /\ epoch \in Nat
         /\ Floor <= limit /\ limit <= Ceiling /\ in_flight <= Ceiling
         /\ Floor \in Nat /\ Ceiling \in Nat /\ 1 <= Floor
BY AdaptiveAssumption
   DEF Inv, SlotsAccounted, TypeOK, WithinCeiling, Idle, Calls, Places, Looking, Owning

(* Every place that a step names is a place. *)
LEMMA Named ==
  {"idle", "loadT", "loadC", "load1", "load2", "limT", "limC", "lim1", "lim2",
   "casT", "casC", "cas1", "cas2", "listen", "parked", "leave", "epoch", "held", "trait",
   "look", "guard", "adjust", "swap", "bump", "grow", "release", "notify"} \subseteq Places
BY DEF Places, Looking, Owning

(* The part of Facts that types a record. *)
LEMMA Typed ==
  ASSUME Inv, NEW t \in Tasks
  PROVE  tk[t] \in Calls /\ Idle \in Calls /\ in_flight \in Nat /\ epoch \in Nat /\ limit \in Nat
BY Facts

LEMMA StartInv ==
  ASSUME Inv, NEW t \in Tasks, NEW pc \in {"loadT", "loadC", "load1"}, NEW slots \in Nat,
         1 <= slots, pc = "load1" => slots = 1, Start(t, pc, slots)
  PROVE  Inv'
<1> DEFINE me == [Idle EXCEPT !.pc = pc, !.slots = slots]
<1>1. /\ me \in Calls /\ me.pc = pc /\ me.slots = slots
      /\ me.told = FALSE
  BY Named DEF Idle, Calls
<1>2. Become(t, me) /\ tk[t].pc = "idle"
      /\ UNCHANGED <<limit, in_flight, epoch, listening, notified>>
  BY DEF Start, Slots, Event
<1> HIDE DEF me
<1>3. OnlyTask(t) /\ tk'[t] = me
  BY <1>1, <1>2, Facts, BecomeOnly
<1>4. Sound(t)'
  BY <1>1, <1>3 DEF Sound, Unchecked, Looking, Swapping, Settling
<1>5. Quiet(t)
  BY <1>1, <1>2, <1>3, <1>4 DEF Quiet, SlotsOf, WakesOf, Owning, Registered
<1> QED BY <1>1, <1>2, <1>3, <1>5, QuietInv DEF Looking

LEMMA LoadInv ==
  ASSUME Inv, NEW t \in Tasks, NEW from, NEW to,
         <<from, to>> \in {<<"loadT", "limT">>, <<"loadC", "limC">>,
                           <<"load1", "lim1">>, <<"load2", "lim2">>},
         ReserveLoad(t, from, to)
  PROVE  Inv'
<1> DEFINE me == [tk[t] EXCEPT !.pc = to, !.seen = in_flight]
<1>1. /\ me \in Calls /\ me.pc = to /\ me.seen = in_flight /\ me.slots = tk[t].slots
      /\ me.told = tk[t].told
  BY Typed, Named DEF Calls
<1>2. Become(t, me) /\ tk[t].pc = from
      /\ UNCHANGED <<limit, in_flight, epoch, listening, notified>>
  BY DEF ReserveLoad, Slots, Event
<1> HIDE DEF me
<1>3. OnlyTask(t) /\ tk'[t] = me
  BY <1>1, <1>2, Facts, BecomeOnly
<1>4. Sound(t)'
  BY <1>1, <1>2, <1>3, Facts DEF Sound, Unchecked, Looking, Swapping, Settling
<1>5. Quiet(t)
  BY <1>1, <1>2, <1>3, <1>4 DEF Quiet, SlotsOf, WakesOf, Owning, Registered
<1>6. CASE from \in {"loadT", "loadC"}
  BY <1>1, <1>2, <1>3, <1>5, <1>6, QuietInv DEF Looking
<1>7. CASE from \in {"load1", "load2"}
  BY <1>1, <1>2, <1>3, <1>5, <1>7, ReadingInv
<1> QED BY <1>6, <1>7

(* A reservation that is refused and one that goes on to the swap. *)
LEMMA CheckInv ==
  ASSUME Inv, NEW t \in Tasks, NEW from, NEW cas, NEW full,
         <<from, cas, full>> \in {<<"limT", "casT", "idle">>, <<"limC", "casC", "idle">>,
                                  <<"lim1", "cas1", "listen">>, <<"lim2", "cas2", "parked">>},
         ReserveCheck(t, from, cas, full)
  PROVE  Inv'
<1>1. tk[t].pc = from /\ UNCHANGED <<limit, in_flight, epoch, listening, notified>>
  BY DEF ReserveCheck, Slots, Event
<1>2. CASE tk[t].seen + tk[t].slots <= limit
  <2> DEFINE me == [tk[t] EXCEPT !.pc = cas]
  <2>1. /\ me \in Calls /\ me.pc = cas /\ me.seen = tk[t].seen /\ me.slots = tk[t].slots
        /\ me.told = tk[t].told
    BY Typed, Named DEF Calls
  <2>2. tk[t].seen \in Nat /\ tk[t].slots \in Nat /\ limit \in Nat
    BY Facts DEF Calls
  <2>3. Become(t, me)
    BY <1>2, <2>2 DEF ReserveCheck
  <2> HIDE DEF me
  <2>4. OnlyTask(t) /\ tk'[t] = me
    BY <2>1, <2>3, Facts, BecomeOnly
  <2>5. me.seen + me.slots <= Ceiling
    BY <1>2, <2>1, <2>2, Facts
  <2>6. Sound(t)'
    BY <1>1, <2>1, <2>4, <2>5, Facts DEF Sound, Unchecked, Looking, Swapping, Settling
  <2>7. Quiet(t)
    BY <1>1, <2>1, <2>4, <2>6 DEF Quiet, SlotsOf, WakesOf, Owning, Registered
  <2> QED BY <1>1, <2>1, <2>4, <2>7, QuietInv DEF Looking
<1>3. CASE ~(tk[t].seen + tk[t].slots <= limit) /\ full = "idle"
  <2>1. tk[t].seen \in Nat /\ tk[t].slots \in Nat /\ limit \in Nat
    BY Facts DEF Calls
  <2>2. Become(t, Idle)
    BY <1>3, <2>1 DEF ReserveCheck
  <2>3. OnlyTask(t) /\ tk'[t] = Idle
    BY <2>2, Facts, BecomeOnly
  <2>4. Sound(t)'
    BY <2>3 DEF Sound, Unchecked, Looking, Swapping, Settling, Idle
  <2>5. Quiet(t)
    BY <1>1, <1>3, <2>3, <2>4 DEF Quiet, SlotsOf, WakesOf, Owning, Registered, Idle
  <2> QED BY <1>1, <1>3, <2>3, <2>5, QuietInv DEF Looking, Idle
<1>4. CASE ~(tk[t].seen + tk[t].slots <= limit) /\ full # "idle"
  <2> DEFINE me == [tk[t] EXCEPT !.pc = full, !.seen = 0]
  <2>1. /\ me \in Calls /\ me.pc = full /\ me.slots = tk[t].slots
        /\ me.told = tk[t].told
    BY Typed, Named DEF Calls
  <2>2. tk[t].seen \in Nat /\ tk[t].slots \in Nat /\ limit \in Nat
    BY Facts DEF Calls
  <2>3. Become(t, me)
    BY <1>4, <2>2 DEF ReserveCheck
  <2> HIDE DEF me
  <2>4. OnlyTask(t) /\ tk'[t] = me
    BY <2>1, <2>3, Facts, BecomeOnly
  <2>5. tk[t].slots = 1
    BY <1>1, <1>4, Facts DEF Sound, Looking
  <2>6. Sound(t)'
    BY <1>1, <1>4, <2>1, <2>4, <2>5, Facts DEF Sound, Unchecked, Looking, Swapping, Settling
  <2>7. Quiet(t)
    BY <1>1, <1>4, <2>1, <2>4, <2>6 DEF Quiet, SlotsOf, WakesOf, Owning, Registered
  <2>8. CASE full = "listen"
    BY <1>1, <2>1, <2>4, <2>7, <2>8, QuietInv DEF Looking
  <2>9. CASE full = "parked"
    <3>1. tk[t].seen >= limit
      BY <1>4, <2>2, <2>5
    <3>2. tk[t].pc = "lim2"
      BY <1>1, <2>9
    <3> QED BY <2>1, <2>4, <2>7, <2>9, <3>1, <3>2, SleepingInv
  <2> QED BY <1>4, <2>8, <2>9
<1> QED BY <1>2, <1>3, <1>4

LEMMA NewPermitInv ==
  ASSUME Inv, NEW t \in Tasks, NewPermit(t)
  PROVE  Inv'
<1> DEFINE me == [tk[t] EXCEPT !.pc = "held", !.ep = epoch]
<1>1. /\ me \in Calls /\ me.pc = "held" /\ me.slots = tk[t].slots
      /\ me.ep = epoch /\ me.told = tk[t].told
  BY Typed, Named DEF Calls
<1>2. Become(t, me) /\ tk[t].pc = "epoch"
      /\ UNCHANGED <<limit, in_flight, epoch, listening, notified>>
  BY DEF NewPermit, Slots, Event
<1> HIDE DEF me
<1>3. OnlyTask(t) /\ tk'[t] = me
  BY <1>1, <1>2, Facts, BecomeOnly
<1>4. Sound(t)'
  BY <1>1, <1>2, <1>3, Facts DEF Sound, Unchecked, Looking, Swapping, Settling
<1>5. Quiet(t)
  BY <1>1, <1>2, <1>3, <1>4 DEF Quiet, SlotsOf, WakesOf, Owning, Registered
<1> QED BY <1>1, <1>2, <1>3, <1>5, QuietInv DEF Looking

(* A permit settles with its own epoch; a trait caller has been told       *)
(* nothing, and settles with the current one.                              *)
LEMMA SettleInv ==
  ASSUME Inv, NEW t \in Tasks, NEW ok \in BOOLEAN, Settle(t, ok)
  PROVE  Inv'
<1> DEFINE ep == IF tk[t].pc = "held" THEN tk[t].ep ELSE epoch
           me == [tk[t] EXCEPT !.pc = "look", !.ok = ok, !.back = 1, !.ep = ep]
<1>1. ep \in Nat /\ (tk[t].pc = "held" => ep = tk[t].ep) /\ (tk[t].pc = "trait" => ep = epoch)
  BY Facts DEF Calls
<1>2. Become(t, me) /\ tk[t].pc \in {"held", "trait"}
      /\ UNCHANGED <<limit, in_flight, epoch, listening, notified>>
  BY DEF Settle, Slots, Event
<1> HIDE DEF ep
<1>3. /\ me \in Calls /\ me.pc = "look" /\ me.slots = tk[t].slots /\ me.back = 1
      /\ me.ep = ep /\ me.told = tk[t].told
  BY <1>1, Typed, Named DEF Calls
<1> HIDE DEF me
<1>4. OnlyTask(t) /\ tk'[t] = me
  BY <1>2, <1>3, Facts, BecomeOnly
<1>5. tk[t].slots >= 1
  BY <1>2, Facts DEF Sound
<1>6. ep <= epoch /\ (me.told => ep < epoch)
  BY <1>1, <1>2, <1>3, Facts DEF Sound, Unchecked, Settling
<1>7. Sound(t)'
  BY <1>2, <1>3, <1>4, <1>5, <1>6 DEF Sound, Unchecked, Looking, Swapping, Settling
<1>8. Quiet(t)
  BY <1>2, <1>3, <1>4, <1>7 DEF Quiet, SlotsOf, WakesOf, Owning, Registered
<1> QED BY <1>2, <1>3, <1>4, <1>8, QuietInv DEF Looking

LEMMA RefundInv ==
  ASSUME Inv, NEW t \in Tasks, Refund(t)
  PROVE  Inv'
<1> DEFINE me == [tk[t] EXCEPT !.pc = "release", !.back = tk[t].slots]
<1>1. /\ me \in Calls /\ me.pc = "release" /\ me.slots = tk[t].slots /\ me.back = tk[t].slots
  BY Typed, Named DEF Calls
<1>2. Become(t, me) /\ tk[t].pc \in {"held", "trait"}
      /\ UNCHANGED <<limit, in_flight, epoch, listening, notified>>
  BY DEF Refund, Slots, Event
<1> HIDE DEF me
<1>3. OnlyTask(t) /\ tk'[t] = me
  BY <1>1, <1>2, Facts, BecomeOnly
<1>4. tk[t].slots \in Nat /\ tk[t].slots >= 1
  BY <1>2, Facts DEF Sound, Calls
<1>5. Sound(t)'
  BY <1>1, <1>3, <1>4 DEF Sound, Unchecked, Looking, Swapping, Settling
<1>6. Quiet(t)
  BY <1>1, <1>2, <1>3, <1>5 DEF Quiet, SlotsOf, WakesOf, Owning, Registered
<1> QED BY <1>1, <1>2, <1>3, <1>6, QuietInv DEF Looking

LEMMA LookInv ==
  ASSUME Inv, NEW t \in Tasks, Look(t)
  PROVE  Inv'
<1> DEFINE pc == IF tk[t].ok THEN "adjust" ELSE "guard"
           me == [tk[t] EXCEPT !.pc = pc, !.seen = in_flight]
<1>1. pc \in {"adjust", "guard"} /\ (pc = "adjust" => tk[t].ok)
  OBVIOUS
<1>2. Become(t, me) /\ tk[t].pc = "look"
      /\ UNCHANGED <<limit, in_flight, epoch, listening, notified>>
  BY DEF Look, Slots, Event
<1> HIDE DEF pc
<1>3. /\ me \in Calls /\ me.pc = pc /\ me.slots = tk[t].slots /\ me.back = tk[t].back
      /\ me.ep = tk[t].ep /\ me.told = tk[t].told /\ me.ok = tk[t].ok
  BY <1>1, Typed, Named DEF Calls
<1> HIDE DEF me
<1>4. OnlyTask(t) /\ tk'[t] = me
  BY <1>2, <1>3, Facts, BecomeOnly
<1>5. Sound(t)'
  BY <1>1, <1>2, <1>3, <1>4, Facts DEF Sound, Unchecked, Looking, Swapping, Settling
<1>6. Quiet(t)
  BY <1>1, <1>2, <1>3, <1>4, <1>5 DEF Quiet, SlotsOf, WakesOf, Owning, Registered
<1> QED BY <1>1, <1>2, <1>3, <1>4, <1>6, QuietInv DEF Looking

(* Only an outcome whose epoch is the current one goes on to adjust. *)
LEMMA GuardInv ==
  ASSUME Inv, NEW t \in Tasks, Guard(t)
  PROVE  Inv'
<1> DEFINE pc == IF tk[t].ep < epoch THEN "release" ELSE "adjust"
           me == [tk[t] EXCEPT !.pc = pc]
<1>1. pc \in {"adjust", "release"} /\ (pc = "adjust" => ~(tk[t].ep < epoch))
  OBVIOUS
<1>2. Become(t, me) /\ tk[t].pc = "guard"
      /\ UNCHANGED <<limit, in_flight, epoch, listening, notified>>
  BY DEF Guard, Goto, Slots, Event
<1> HIDE DEF pc
<1>3. /\ me \in Calls /\ me.pc = pc /\ me.slots = tk[t].slots /\ me.back = tk[t].back
      /\ me.ep = tk[t].ep /\ me.told = tk[t].told
  BY <1>1, Typed, Named DEF Calls
<1> HIDE DEF me
<1>4. OnlyTask(t) /\ tk'[t] = me
  BY <1>2, <1>3, Facts, BecomeOnly
<1>5. Sound(t)'
  BY <1>1, <1>2, <1>3, <1>4, Facts DEF Sound, Unchecked, Looking, Swapping, Settling
<1>6. Quiet(t)
  BY <1>1, <1>2, <1>3, <1>4, <1>5 DEF Quiet, SlotsOf, WakesOf, Owning, Registered
<1> QED BY <1>1, <1>2, <1>3, <1>4, <1>6, QuietInv DEF Looking

(* Whatever the strategy answers, the clamp brings it into range. *)
LEMMA ClampRange ==
  ASSUME NEW n \in Int
  PROVE  Clamp(n) \in Nat /\ Floor <= Clamp(n) /\ Clamp(n) <= Ceiling
BY AdaptiveAssumption DEF Clamp, Least, Greatest

LEMMA AdjustType ==
  ASSUME NEW cur \in Nat, NEW seen \in Nat, NEW ok \in BOOLEAN, NEW n \in Adjust(cur, seen, ok)
  PROVE  n \in Int
<1>1. \A a \in Int, b \in Int : Greatest(a, b) \in Int
  BY DEF Greatest
<1>2. cur + Increase \in Int /\ cur + 1 \in Int /\ cur - 1 \in Int /\ cur \div 2 \in Int
  BY AdaptiveAssumption
<1>3. (cur * CutNum) \div CutDen \in Int
  <2>1. CutNum \in Nat /\ CutDen \in Nat \ {0}
    BY AdaptiveAssumption
  <2>2. cur * CutNum \in Nat
    BY <2>1, Products
  <2>3. ASSUME NEW a \in Nat, NEW d \in Nat \ {0} PROVE a \div d \in Int
    OBVIOUS
  <2> QED BY <2>1, <2>2, <2>3
<1>4. Aimd(cur, seen, ok) \in Int
  BY <1>1, <1>2, <1>3 DEF Aimd
<1>5. Vegas(cur, ok) \subseteq Int
  <2>1. Greatest(cur - 1, 0) \in Int /\ Greatest(cur \div 2, 1) \in Int
    BY <1>2 DEF Greatest
  <2> HIDE DEF Greatest
  <2>2. {cur + 1, cur, Greatest(cur - 1, 0)} \subseteq Int
    BY <2>1
  <2>3. {Greatest(cur \div 2, 1)} \subseteq Int
    BY <2>1
  <2> QED BY <2>2, <2>3 DEF Vegas
<1> QED BY <1>4, <1>5 DEF Adjust

LEMMA TurnInv ==
  ASSUME Inv, NEW t \in Tasks, tk[t].pc \in {"adjust", "swap"}, Turn(t),
         UNCHANGED <<limit, in_flight, epoch, listening, notified>>
  PROVE  Inv'
<1>1. PICK n \in Adjust(limit, tk[t].seen, tk[t].ok) :
         Become(t, IF Clamp(n) = limit
                THEN [tk[t] EXCEPT !.pc = "release", !.seen = 0, !.cur = 0, !.new = 0]
                ELSE [tk[t] EXCEPT !.pc = "swap", !.cur = limit, !.new = Clamp(n)])
  BY DEF Turn
<1> DEFINE c == Clamp(n)
<1>2. c \in Nat /\ Floor <= c /\ c <= Ceiling
  <2>1. tk[t].seen \in Nat /\ tk[t].ok \in BOOLEAN /\ limit \in Nat
    BY Facts DEF Calls
  <2> QED BY <2>1, AdjustType, ClampRange
<1> HIDE DEF c
<1>3. CASE c = limit
  <2> DEFINE me == [tk[t] EXCEPT !.pc = "release", !.seen = 0, !.cur = 0, !.new = 0]
  <2>1. /\ me \in Calls /\ me.pc = "release" /\ me.slots = tk[t].slots /\ me.back = tk[t].back
    BY Typed, Named DEF Calls
  <2>2. Become(t, me)
    BY <1>1, <1>3 DEF c
  <2> HIDE DEF me
  <2>3. OnlyTask(t) /\ tk'[t] = me
    BY <2>1, <2>2, Facts, BecomeOnly
  <2>4. Sound(t)'
    BY <2>1, <2>3, Facts DEF Sound, Unchecked, Looking, Swapping, Settling
  <2>5. Quiet(t)
    BY <2>1, <2>3, <2>4 DEF Quiet, SlotsOf, WakesOf, Owning, Registered
  <2> QED BY <2>1, <2>3, <2>5, QuietInv DEF Looking
<1>4. CASE c # limit
  <2> DEFINE me == [tk[t] EXCEPT !.pc = "swap", !.cur = limit, !.new = c]
  <2>1. /\ me \in Calls /\ me.pc = "swap" /\ me.slots = tk[t].slots /\ me.back = tk[t].back
        /\ me.new = c /\ me.told = tk[t].told /\ me.ok = tk[t].ok
    BY <1>2, Typed, Named DEF Calls
  <2>2. Become(t, me)
    BY <1>1, <1>4 DEF c
  <2> HIDE DEF me
  <2>3. OnlyTask(t) /\ tk'[t] = me
    BY <2>1, <2>2, Facts, BecomeOnly
  <2>4. Sound(t)'
    BY <1>2, <2>1, <2>3, Facts DEF Sound, Unchecked, Looking, Swapping, Settling
  <2>5. Quiet(t)
    BY <2>1, <2>3, <2>4 DEF Quiet, SlotsOf, WakesOf, Owning, Registered
  <2> QED BY <2>1, <2>3, <2>5, QuietInv DEF Looking
<1> QED BY <1>3, <1>4

-----------------------------------------------------------------------------
(* The steps that move slots, the limit or listeners. *)

(* A swap that fails starts over; one that succeeds takes the slots that   *)
(* were checked against the ceiling, and one looker less balances them.    *)
LEMMA SwapInv ==
  ASSUME Inv, NEW t \in Tasks, NEW from, NEW again, NEW won,
         <<from, again, won>> \in {<<"casT", "loadT", "epoch">>, <<"casC", "loadC", "trait">>,
                                   <<"cas1", "load1", "epoch">>, <<"cas2", "load2", "leave">>},
         ReserveSwap(t, from, again, won)
  PROVE  Inv'
<1>1. tk[t].pc = from /\ UNCHANGED <<limit, epoch, listening, notified>>
  BY DEF ReserveSwap, Event
<1>2. CASE in_flight # tk[t].seen
  <2> DEFINE me == [tk[t] EXCEPT !.pc = again, !.seen = 0]
  <2>1. /\ me \in Calls /\ me.pc = again /\ me.slots = tk[t].slots
        /\ me.told = tk[t].told
    BY Typed, Named DEF Calls
  <2>2. Become(t, me) /\ UNCHANGED in_flight
    BY <1>2 DEF ReserveSwap
  <2> HIDE DEF me
  <2>3. OnlyTask(t) /\ tk'[t] = me
    BY <2>1, <2>2, Facts, BecomeOnly
  <2>4. Sound(t)'
    BY <1>1, <2>1, <2>3, Facts DEF Sound, Unchecked, Looking, Swapping, Settling
  <2>5. Quiet(t)
    BY <1>1, <2>1, <2>2, <2>3, <2>4 DEF Quiet, SlotsOf, WakesOf, Owning, Registered
  <2> QED BY <1>1, <2>1, <2>3, <2>5, QuietInv DEF Looking
<1>3. CASE in_flight = tk[t].seen
  <2> DEFINE me == [tk[t] EXCEPT !.pc = won, !.seen = 0]
  <2>1. /\ me \in Calls /\ me.pc = won /\ me.slots = tk[t].slots
        /\ me.told = tk[t].told
    BY Typed, Named DEF Calls
  <2>2. Become(t, me) /\ in_flight' = in_flight + tk[t].slots
    BY <1>3 DEF ReserveSwap
  <2> HIDE DEF me
  <2>3. OnlyTask(t) /\ tk'[t] = me
    BY <2>1, <2>2, Facts, BecomeOnly
  <2>4. tk[t].slots \in Nat /\ tk[t].slots >= 1 /\ in_flight + tk[t].slots <= Ceiling
    BY <1>1, <1>3, Facts DEF Sound, Swapping, Calls
  <2>5. Sound(t)'
    BY <1>1, <2>1, <2>3, <2>4, Facts DEF Sound, Unchecked, Looking, Swapping, Settling
  <2>6. SlotsOf(t) = 0 /\ SlotsOf(t)' = tk[t].slots /\ WakesOf(t) = 0 /\ WakesOf(t)' = 0
    BY <1>1, <2>1, <2>3 DEF SlotsOf, WakesOf, Owning
  <2>7. Keeps(t)
    <3>1. in_flight' \in Nat /\ in_flight' <= Ceiling
          /\ in_flight' = in_flight - SlotsOf(t) + SlotsOf(t)'
      BY <2>2, <2>4, <2>6, Facts
    <3>2. t \in listening \cup notified <=> tk[t].pc \in Registered
      BY DEF Inv, SlotsAccounted, TypeOK, At
    <3>3. tk[t].pc \in Registered <=> tk'[t].pc \in Registered
      BY <1>1, <2>1, <2>3 DEF Registered
    <3>4. epoch \in Nat /\ limit \in Floor..Ceiling /\ listening \cap notified = {}
      BY DEF Inv, SlotsAccounted, WithinCeiling, TypeOK
    <3> QED BY <1>1, <2>3, <2>5, <3>1, <3>2, <3>3, <3>4 DEF Keeps
  <2>8. Balanced(t)
    <3>1. /\ Numbers /\ WakesOf(t) \in Nat /\ WakesOf(t)' \in Nat
          /\ Cardinality(Pending)' = Cardinality(Pending) - WakesOf(t) + WakesOf(t)'
      BY <2>7, KeepsRest
    <3>2. /\ Bit(tk[t].pc \in Looking) \in Nat /\ Bit(tk'[t].pc \in Looking) \in Nat
          /\ Bit(tk[t].pc \in Looking) <= 1
      BY DEF Bit
    <3>3. /\ limit' <= limit + 0
          /\ 0 + in_flight + Cardinality(notified) + Cardinality(Pending)
               + Bit(tk[t].pc \in Looking)
             <= in_flight' + Cardinality(notified)' + Cardinality(Pending)'
               + Bit(tk'[t].pc \in Looking)
      BY <1>1, <2>2, <2>4, <2>6, <3>1, <3>2 DEF Numbers
    <3> QED BY <3>3 DEF Balanced
  <2>9. tk'[t].pc \notin {"lim1", "lim2", "parked"}
    BY <2>1, <2>3
  <2> QED BY <1>1, <2>7, <2>8, <2>9, MovedInv
<1> QED BY <1>2, <1>3

(* notify_additional reaches the listeners it is for, or leaves none. *)
LEMMA NotifyCount ==
  ASSUME NEW n \in Nat, NEW waiting \in SUBSET Tasks, NEW woken \in SUBSET Tasks,
         waiting \cap woken = {}, NotifyAdditional(n, waiting, woken)
  PROVE  /\ listening' \subseteq waiting
         /\ listening' \cup notified' = waiting \cup woken
         /\ listening' \cap notified' = {}
         /\ Cardinality(woken) \in Nat
         /\ listening' = {} \/ Cardinality(notified') = Cardinality(woken) + n
<1>1. PICK chosen \in SUBSET waiting :
        /\ Cardinality(chosen) = IF Cardinality(waiting) < n THEN Cardinality(waiting) ELSE n
        /\ listening' = waiting \ chosen
        /\ notified' = woken \cup chosen
  BY DEF NotifyAdditional
<1>2. /\ IsFiniteSet(waiting) /\ IsFiniteSet(woken) /\ IsFiniteSet(chosen)
      /\ Cardinality(waiting) \in Nat /\ Cardinality(woken) \in Nat
  <2>1. chosen \subseteq Tasks
    OBVIOUS
  <2> QED BY <2>1, TaskSets
<1>3. CASE Cardinality(waiting) < n
  <2>1. chosen = waiting
    BY <1>1, <1>2, <1>3, FS_Subset
  <2> QED BY <1>1, <1>2, <2>1
<1>4. CASE ~(Cardinality(waiting) < n)
  <2>1. Cardinality(chosen) = n
    BY <1>1, <1>4
  <2>2. woken \cap chosen = {}
    OBVIOUS
  <2>3. Cardinality(woken \cup chosen) = Cardinality(woken) + n - Cardinality({})
    BY <1>2, <2>1, <2>2, FS_Union
  <2>4. Cardinality(notified') = Cardinality(woken) + n
    BY <1>1, <1>2, <2>3, FS_EmptySet
  <2> QED BY <1>1, <1>2, <2>4
<1> QED BY <1>3, <1>4

LEMMA Listeners ==
  ASSUME Inv
  PROVE  /\ listening \in SUBSET Tasks /\ notified \in SUBSET Tasks
         /\ listening \cap notified = {}
         /\ \A u \in Tasks : u \in listening \cup notified <=> tk[u].pc \in Registered
         /\ IsFiniteSet(notified) /\ Cardinality(notified) \in Nat
<1>1. /\ listening \in SUBSET Tasks /\ notified \in SUBSET Tasks
      /\ listening \cap notified = {}
      /\ \A u \in Tasks : u \in listening \cup notified <=> tk[u].pc \in Registered
  BY DEF Inv, SlotsAccounted, TypeOK, At
<1> QED BY <1>1, TaskSets

(* A dropped listener loses no notification. *)
LEMMA DropCount ==
  ASSUME Inv, NEW t \in Tasks, t \in listening \cup notified, DropListener(t)
  PROVE  /\ listening' \subseteq listening
         /\ listening' \cup notified' = (listening \cup notified) \ {t}
         /\ listening' \cap notified' = {}
         /\ listening' = {} \/ Cardinality(notified') = Cardinality(notified)
<1>1. CASE t \in notified
  <2> DEFINE rest == notified \ {t}
  <2>1. NotifyAdditional(1, listening, rest)
    BY <1>1 DEF DropListener
  <2>2. /\ rest \in SUBSET Tasks /\ listening \in SUBSET Tasks /\ listening \cap rest = {}
        /\ listening \cup rest = (listening \cup notified) \ {t}
    BY <1>1, Listeners
  <2>3. Cardinality(rest) = Cardinality(notified) - 1 /\ Cardinality(notified) \in Nat
    BY <1>1, Listeners, FS_RemoveElement
  <2> HIDE DEF rest
  <2>4. /\ listening' \subseteq listening
        /\ listening' \cup notified' = listening \cup rest
        /\ listening' \cap notified' = {}
        /\ listening' = {} \/ Cardinality(notified') = Cardinality(rest) + 1
    BY <2>1, <2>2, NotifyCount
  <2> QED BY <2>2, <2>3, <2>4
<1>2. CASE t \notin notified
  <2>1. listening' = listening \ {t} /\ notified' = notified
    BY <1>2 DEF DropListener
  <2> QED BY <1>2, <2>1, Listeners
<1> QED BY <1>1, <1>2

(* A step that leaves the slots, the limit and the epoch alone. *)
LEMMA EventKeeps ==
  ASSUME Inv, NEW t \in Tasks, OnlyTask(t), Sound(t)', UNCHANGED Slots,
         SlotsOf(t)' = SlotsOf(t),
         listening' \cap notified' = {},
         (listening' \cup notified') \ {t} = (listening \cup notified) \ {t},
         t \in listening' \cup notified' <=> tk'[t].pc \in Registered
  PROVE  Keeps(t)
<1>1. UNCHANGED <<limit, in_flight, epoch>>
  BY DEF Slots
<1>2. SlotsOf(t) \in Nat
  BY SlotsChanged
<1>3. in_flight' = in_flight - SlotsOf(t) + SlotsOf(t)'
  BY <1>1, <1>2, Facts
<1> QED BY <1>1, <1>3, Facts DEF Keeps, Inv, WithinCeiling

LEMMA ListenInv ==
  ASSUME Inv, NEW t \in Tasks, Listen(t)
  PROVE  Inv'
<1> DEFINE me == [tk[t] EXCEPT !.pc = "load2"]
<1>1. /\ me \in Calls /\ me.pc = "load2" /\ me.slots = tk[t].slots
      /\ me.told = tk[t].told
  BY Typed, Named DEF Calls
<1>2. /\ Become(t, me) /\ tk[t].pc = "listen" /\ UNCHANGED Slots
      /\ listening' = listening \cup {t} /\ notified' = notified
  BY DEF Listen, Goto
<1> HIDE DEF me
<1>3. OnlyTask(t) /\ tk'[t] = me
  BY <1>1, <1>2, Facts, BecomeOnly
<1>4. Sound(t)'
  BY <1>1, <1>2, <1>3, Facts DEF Sound, Unchecked, Looking, Swapping, Settling
<1>5. SlotsOf(t)' = SlotsOf(t) /\ WakesOf(t) = 0 /\ WakesOf(t)' = 0
  BY <1>1, <1>2, <1>3 DEF SlotsOf, WakesOf, Owning
<1>6. t \notin listening \cup notified /\ listening \cap notified = {}
  BY <1>2, Listeners DEF Registered
<1>7. Keeps(t)
  <2>1. tk'[t].pc \in Registered
    BY <1>1, <1>3 DEF Registered
  <2> QED BY <1>2, <1>3, <1>4, <1>5, <1>6, <2>1, EventKeeps
<1>8. Balanced(t)
  <2>1. /\ Numbers
        /\ Cardinality(Pending)' = Cardinality(Pending) - WakesOf(t) + WakesOf(t)'
    BY <1>7, KeepsRest
  <2>2. Bit(tk[t].pc \in Looking) = 1 /\ Bit(tk'[t].pc \in Looking) = 1
    BY <1>1, <1>2, <1>3 DEF Bit, Looking
  <2>3. limit' = limit /\ in_flight' = in_flight
    BY <1>2 DEF Slots
  <2>4. /\ limit' <= limit + 0
        /\ 0 + in_flight + Cardinality(notified) + Cardinality(Pending)
             + Bit(tk[t].pc \in Looking)
           <= in_flight' + Cardinality(notified)' + Cardinality(Pending)'
             + Bit(tk'[t].pc \in Looking)
    BY <1>2, <1>5, <2>1, <2>2, <2>3 DEF Numbers
  <2> QED BY <2>4 DEF Balanced
<1> QED BY <1>1, <1>2, <1>3, <1>7, <1>8, MovedInv

(* A waiter leaves, admitted or not: what it was told is passed on. *)
LEMMA DropInv ==
  ASSUME Inv, NEW t \in Tasks, NEW me \in Calls, Become(t, me), DropListener(t), UNCHANGED Slots,
         \/ tk[t].pc = "leave" /\ me = [tk[t] EXCEPT !.pc = "epoch"]
         \/ tk[t].pc = "parked" /\ me = Idle
  PROVE  Inv'
<1>1. OnlyTask(t) /\ tk'[t] = me
  BY Facts, BecomeOnly
<1>2. \/ tk[t].pc = "leave" /\ me.pc = "epoch" /\ me.slots = tk[t].slots /\ me.told = tk[t].told
      \/ tk[t].pc = "parked" /\ me.pc = "idle" /\ me.told = FALSE
  BY Facts DEF Calls, Idle
<1>3. Sound(t)'
  BY <1>1, <1>2, Facts DEF Sound, Unchecked, Looking, Swapping, Settling
<1>4. SlotsOf(t)' = SlotsOf(t) /\ WakesOf(t) = 0 /\ WakesOf(t)' = 0
  BY <1>1, <1>2 DEF SlotsOf, WakesOf, Owning
<1>5. t \in listening \cup notified
  BY <1>2, Listeners DEF Registered
<1>6. /\ listening' \subseteq listening
      /\ listening' \cup notified' = (listening \cup notified) \ {t}
      /\ listening' \cap notified' = {}
      /\ listening' = {} \/ Cardinality(notified') = Cardinality(notified)
  BY <1>5, DropCount
<1>7. Keeps(t)
  <2>1. tk'[t].pc \notin Registered
    BY <1>1, <1>2 DEF Registered
  <2>2. t \notin listening' \cup notified'
    BY <1>6
  <2>3. (listening' \cup notified') \ {t} = (listening \cup notified) \ {t}
    BY <1>6
  <2> QED BY <1>1, <1>3, <1>4, <1>6, <2>1, <2>2, <2>3, EventKeeps
<1>8. CASE listening' = {}
  <2>1. Balanced(t)
    BY <1>8 DEF Balanced
  <2> QED BY <1>1, <1>2, <1>6, <1>7, <2>1, MovedInv
<1>9. CASE Cardinality(notified') = Cardinality(notified)
  <2>1. /\ Numbers
        /\ Cardinality(Pending)' = Cardinality(Pending) - WakesOf(t) + WakesOf(t)'
    BY <1>7, KeepsRest
  <2>2. Bit(tk[t].pc \in Looking) = 0 /\ Bit(tk'[t].pc \in Looking) = 0
    BY <1>1, <1>2 DEF Bit, Looking
  <2>3. limit' = limit /\ in_flight' = in_flight
    BY DEF Slots
  <2>4. /\ limit' <= limit + 0
        /\ 0 + in_flight + Cardinality(notified) + Cardinality(Pending)
             + Bit(tk[t].pc \in Looking)
           <= in_flight' + Cardinality(notified)' + Cardinality(Pending)'
             + Bit(tk'[t].pc \in Looking)
    BY <1>4, <1>9, <2>1, <2>2, <2>3 DEF Numbers
  <2>5. Balanced(t)
    BY <2>4 DEF Balanced
  <2> QED BY <1>1, <1>2, <1>6, <1>7, <2>5, MovedInv
<1> QED BY <1>6, <1>8, <1>9

(* A notified waiter wakes: it is a looker from then on. *)
LEMMA WakeInv ==
  ASSUME Inv, NEW t \in Tasks, Wake(t)
  PROVE  Inv'
<1> DEFINE me == [tk[t] EXCEPT !.pc = "load1"]
<1>1. /\ me \in Calls /\ me.pc = "load1" /\ me.slots = tk[t].slots
      /\ me.told = tk[t].told
  BY Typed, Named DEF Calls
<1>2. /\ Become(t, me) /\ tk[t].pc = "parked" /\ UNCHANGED Slots
      /\ t \in notified /\ listening' = listening /\ notified' = notified \ {t}
  BY DEF Wake, Goto
<1> HIDE DEF me
<1>3. OnlyTask(t) /\ tk'[t] = me
  BY <1>1, <1>2, Facts, BecomeOnly
<1>4. Sound(t)'
  <2>1. tk[t].slots = 1
    BY <1>2, Facts DEF Sound
  <2> QED BY <1>1, <1>2, <1>3, <2>1, Facts DEF Sound, Unchecked, Looking, Swapping, Settling
<1>5. SlotsOf(t)' = SlotsOf(t) /\ WakesOf(t) = 0 /\ WakesOf(t)' = 0
  BY <1>1, <1>2, <1>3 DEF SlotsOf, WakesOf, Owning
<1>6. Keeps(t)
  <2>1. tk'[t].pc \notin Registered
    BY <1>1, <1>3 DEF Registered
  <2>2. t \notin listening /\ listening \cap notified = {}
    BY <1>2, Listeners
  <2> QED BY <1>2, <1>3, <1>4, <1>5, <2>1, <2>2, EventKeeps
<1>7. Balanced(t)
  <2>1. /\ Numbers
        /\ Cardinality(Pending)' = Cardinality(Pending) - WakesOf(t) + WakesOf(t)'
    BY <1>6, KeepsRest
  <2>2. Bit(tk[t].pc \in Looking) = 0 /\ Bit(tk'[t].pc \in Looking) = 1
    BY <1>1, <1>2, <1>3 DEF Bit, Looking
  <2>3. limit' = limit /\ in_flight' = in_flight
    BY <1>2 DEF Slots
  <2>4. Cardinality(notified)' = Cardinality(notified) - 1
    BY <1>2, Listeners, FS_RemoveElement
  <2>5. /\ limit' <= limit + 0
        /\ 0 + in_flight + Cardinality(notified) + Cardinality(Pending)
             + Bit(tk[t].pc \in Looking)
           <= in_flight' + Cardinality(notified)' + Cardinality(Pending)'
             + Bit(tk'[t].pc \in Looking)
    BY <1>5, <2>1, <2>2, <2>3, <2>4 DEF Numbers
  <2> QED BY <2>5 DEF Balanced
<1> QED BY <1>1, <1>2, <1>3, <1>6, <1>7, MovedInv

(* The limit is swapped: a raise announces as many wakes as it makes room. *)
LEMMA SwapLimitInv ==
  ASSUME Inv, NEW t \in Tasks, SwapLimit(t)
  PROVE  Inv'
<1>1. CASE limit # tk[t].cur
  <2>1. Turn(t) /\ tk[t].pc = "swap" /\ UNCHANGED <<limit, in_flight, epoch, listening, notified>>
    BY <1>1 DEF SwapLimit, Event
  <2> QED BY <2>1, TurnInv
<1>2. CASE limit = tk[t].cur
  <2> DEFINE lowers == ~tk[t].ok /\ tk[t].new < limit
             next == IF lowers THEN "bump" ELSE IF tk[t].new > limit THEN "grow" ELSE "release"
             Mark(u) == [tk[u] EXCEPT !.lowered = @ \/ (lowers /\ tk[u].pc \in Owning)]
             me == IF next = "grow" THEN [Mark(t) EXCEPT !.pc = next, !.seen = 0]
                   ELSE [Mark(t) EXCEPT !.pc = next, !.seen = 0, !.cur = 0, !.new = 0]
  <2>1. /\ tk[t].pc = "swap" /\ limit' = tk[t].new
        /\ UNCHANGED <<in_flight, epoch, listening, notified>>
        /\ tk' = [u \in Tasks |-> IF u # t THEN Mark(u) ELSE me]
    BY <1>2 DEF SwapLimit, Event
  <2>2. tk[t].new \in Nat /\ tk[t].cur \in Nat /\ limit \in Nat
    BY Facts DEF Calls
  <2>3. /\ next \in {"bump", "grow", "release"}
        /\ next = "grow" => limit < tk[t].new
        /\ next # "grow" => tk[t].new <= limit
    BY <2>2
  <2>4. ASSUME NEW u \in Tasks
        PROVE  /\ Mark(u) \in Calls
               /\ Mark(u).pc = tk[u].pc /\ Mark(u).slots = tk[u].slots
               /\ Mark(u).seen = tk[u].seen /\ Mark(u).cur = tk[u].cur
               /\ Mark(u).new = tk[u].new /\ Mark(u).ep = tk[u].ep /\ Mark(u).ok = tk[u].ok
               /\ Mark(u).back = tk[u].back /\ Mark(u).told = tk[u].told
    <3>1. tk[u] \in Calls
      BY Facts
    <3> DEFINE b == tk[u].lowered \/ (lowers /\ tk[u].pc \in Owning)
    <3>2. b \in BOOLEAN
      OBVIOUS
    <3>3. Mark(u) = [tk[u] EXCEPT !.lowered = b]
      OBVIOUS
    <3> HIDE DEF b, Mark
    <3> QED BY <3>1, <3>2, <3>3 DEF Calls
  <2> HIDE DEF Mark, lowers, next
  <2>5. /\ me \in Calls /\ me.pc = next /\ me.slots = tk[t].slots /\ me.back = tk[t].back
        /\ next = "grow" => me.cur = limit /\ me.new = tk[t].new
    <3>1. Mark(t) \in Calls /\ next \in Places
      BY <2>3, <2>4 DEF Places, Owning
    <3>2. CASE next = "grow"
      <4>1. me = [Mark(t) EXCEPT !.pc = next, !.seen = 0]
        BY <3>2
      <4> HIDE DEF me
      <4> QED BY <1>2, <2>4, <3>1, <4>1 DEF Calls
    <3>3. CASE next # "grow"
      <4>1. me = [Mark(t) EXCEPT !.pc = next, !.seen = 0, !.cur = 0, !.new = 0]
        BY <3>3
      <4> HIDE DEF me
      <4> QED BY <2>4, <3>1, <3>3, <4>1 DEF Calls
    <3> QED BY <3>2, <3>3
  <2> HIDE DEF me
  <2>6. OnlyTask(t) /\ tk'[t] = me
    BY <2>1, <2>4, <2>5, Facts DEF OnlyTask, Same, TypeOK
  <2>7. Sound(t)'
    BY <2>1, <2>3, <2>5, <2>6, Facts DEF Sound, Unchecked, Looking, Swapping, Settling
  <2>8. SlotsOf(t)' = SlotsOf(t) /\ WakesOf(t) = 0
        /\ WakesOf(t)' = (IF next = "grow" THEN limit' - limit ELSE 0)
    BY <2>1, <2>3, <2>5, <2>6 DEF SlotsOf, WakesOf, Owning
  <2>9. Keeps(t)
    <3>1. limit' \in Floor..Ceiling
      BY <2>1, <2>2, Facts DEF Sound
    <3>2. SlotsOf(t) \in Nat
      BY <2>6, SlotsChanged
    <3>3. in_flight' = in_flight - SlotsOf(t) + SlotsOf(t)'
      BY <2>1, <2>8, <3>2, Facts
    <3>4. t \notin listening \cup notified /\ listening \cap notified = {}
      BY <2>1, Listeners DEF Registered
    <3>5. tk'[t].pc \notin Registered
      BY <2>3, <2>5, <2>6 DEF Registered
    <3> QED BY <2>1, <2>6, <2>7, <3>1, <3>3, <3>4, <3>5, Facts DEF Keeps
  <2>10. Balanced(t)
    <3>1. /\ Numbers
          /\ WakesOf(t)' \in Nat
          /\ Cardinality(Pending)' = Cardinality(Pending) - WakesOf(t) + WakesOf(t)'
      BY <2>9, KeepsRest
    <3>2. Bit(tk[t].pc \in Looking) = 0 /\ Bit(tk'[t].pc \in Looking) = 0
      BY <2>1, <2>3, <2>5, <2>6 DEF Bit, Looking
    <3>3. limit' <= limit + WakesOf(t)'
      BY <2>1, <2>2, <2>3, <2>8
    <3>4. WakesOf(t)' + in_flight + Cardinality(notified) + Cardinality(Pending)
               + Bit(tk[t].pc \in Looking)
             <= in_flight' + Cardinality(notified)' + Cardinality(Pending)'
               + Bit(tk'[t].pc \in Looking)
      BY <2>1, <2>8, <3>1, <3>2 DEF Numbers
    <3> QED BY <3>1, <3>3, <3>4 DEF Balanced
  <2> QED BY <2>1, <2>3, <2>5, <2>6, <2>9, <2>10, MovedInv
<1> QED BY <1>1, <1>2

LEMMA BumpInv ==
  ASSUME Inv, NEW t \in Tasks, Bump(t)
  PROVE  Inv'
<1> DEFINE me == [tk[t] EXCEPT !.pc = "release"]
           Hear(u) == [tk[u] EXCEPT !.told = @ \/ tk[u].pc \in Unchecked]
<1>1. /\ me \in Calls /\ me.pc = "release" /\ me.slots = tk[t].slots /\ me.back = tk[t].back
  BY Typed, Named DEF Calls
<1>2. /\ tk[t].pc = "bump" /\ epoch' = epoch + 1
      /\ UNCHANGED <<limit, in_flight, listening, notified>>
      /\ tk' = [u \in Tasks |-> IF u = t THEN me ELSE Hear(u)]
  BY DEF Bump, Event
<1> HIDE DEF me
<1>3. OnlyTask(t) /\ tk'[t] = me
  <2>1. ASSUME NEW u \in Tasks
        PROVE  /\ Hear(u) \in Calls
               /\ Hear(u).pc = tk[u].pc /\ Hear(u).slots = tk[u].slots
               /\ Hear(u).seen = tk[u].seen /\ Hear(u).cur = tk[u].cur
               /\ Hear(u).new = tk[u].new /\ Hear(u).ep = tk[u].ep /\ Hear(u).ok = tk[u].ok
               /\ Hear(u).back = tk[u].back
               /\ Hear(u).told => tk[u].told \/ tk[u].pc \in Unchecked
    <3>1. tk[u] \in Calls
      BY Facts
    <3> DEFINE b == tk[u].told \/ tk[u].pc \in Unchecked
    <3>2. b \in BOOLEAN
      OBVIOUS
    <3>3. Hear(u) = [tk[u] EXCEPT !.told = b]
      OBVIOUS
    <3>4. Hear(u).told = b
      <4> HIDE DEF b, Hear
      <4> QED BY <3>1, <3>3 DEF Calls
    <3> HIDE DEF b, Hear
    <3>5. /\ Hear(u) \in Calls
          /\ Hear(u).pc = tk[u].pc /\ Hear(u).slots = tk[u].slots
          /\ Hear(u).seen = tk[u].seen /\ Hear(u).cur = tk[u].cur
          /\ Hear(u).new = tk[u].new /\ Hear(u).ep = tk[u].ep /\ Hear(u).ok = tk[u].ok
          /\ Hear(u).back = tk[u].back
      BY <3>1, <3>2, <3>3 DEF Calls
    <3> QED BY <3>4, <3>5 DEF b
  <2> HIDE DEF Hear
  <2>2. epoch < epoch'
    BY <1>2, Facts
  <2>3. tk' \in [Tasks -> Calls]
    BY <1>1, <1>2, <2>1
  <2>4. tk'[t] = me /\ \A u \in Tasks : u # t => tk'[u] = Hear(u)
    BY <1>2
  <2>5. \A u \in Tasks : u # t => Same(u)
    BY <2>1, <2>2, <2>4 DEF Same
  <2> QED BY <2>3, <2>4, <2>5, Facts DEF OnlyTask, TypeOK
<1>4. Sound(t)'
  BY <1>1, <1>2, <1>3, Facts DEF Sound, Unchecked, Looking, Swapping, Settling
<1>5. SlotsOf(t)' = SlotsOf(t) /\ WakesOf(t) = 0 /\ WakesOf(t)' = 0
  BY <1>1, <1>2, <1>3 DEF SlotsOf, WakesOf, Owning
<1>6. Keeps(t)
  <2>1. SlotsOf(t) \in Nat
    BY <1>3, SlotsChanged
  <2>2. in_flight' = in_flight - SlotsOf(t) + SlotsOf(t)' /\ epoch' \in Nat /\ epoch <= epoch'
    BY <1>2, <1>5, <2>1, Facts
  <2>3. t \notin listening \cup notified /\ listening \cap notified = {}
    BY <1>2, Listeners DEF Registered
  <2>4. tk'[t].pc \notin Registered
    BY <1>1, <1>3 DEF Registered
  <2> QED BY <1>2, <1>3, <1>4, <2>2, <2>3, <2>4, Facts DEF Keeps
<1>7. Balanced(t)
  <2>1. /\ Numbers
        /\ Cardinality(Pending)' = Cardinality(Pending) - WakesOf(t) + WakesOf(t)'
    BY <1>6, KeepsRest
  <2>2. Bit(tk[t].pc \in Looking) = 0 /\ Bit(tk'[t].pc \in Looking) = 0
    BY <1>1, <1>2, <1>3 DEF Bit, Looking
  <2>3. /\ limit' <= limit + 0
        /\ 0 + in_flight + Cardinality(notified) + Cardinality(Pending)
             + Bit(tk[t].pc \in Looking)
           <= in_flight' + Cardinality(notified)' + Cardinality(Pending)'
             + Bit(tk'[t].pc \in Looking)
    BY <1>2, <1>5, <2>1, <2>2 DEF Numbers
  <2> QED BY <2>3 DEF Balanced
<1> QED BY <1>1, <1>2, <1>3, <1>6, <1>7, MovedInv

(* Slots given back become wakes to be sent. *)
LEMMA ReleaseInv ==
  ASSUME Inv, NEW t \in Tasks, Release(t)
  PROVE  Inv'
<1> DEFINE left == tk[t].slots - tk[t].back
           me == [Idle EXCEPT !.pc = "notify", !.back = tk[t].back, !.slots = left]
<1>1. tk[t].pc = "release" /\ tk[t].slots \in Nat /\ tk[t].back \in Nat /\ left \in Nat
      /\ tk[t].back <= tk[t].slots
  BY Facts DEF Release, Sound, Settling, Calls
<1>2. /\ Become(t, me) /\ in_flight' = Greatest(in_flight - tk[t].back, 0)
      /\ UNCHANGED <<limit, epoch, listening, notified>>
  BY DEF Release, Event
<1> HIDE DEF left
<1>3. /\ me \in Calls /\ me.pc = "notify" /\ me.slots = left /\ me.back = tk[t].back
      /\ me.told = FALSE
  BY <1>1, Typed, Named DEF Calls, Idle
<1> HIDE DEF me
<1>4. OnlyTask(t) /\ tk'[t] = me
  BY <1>2, <1>3, Facts, BecomeOnly
<1>5. Sound(t)'
  BY <1>3, <1>4 DEF Sound, Unchecked, Looking, Swapping, Settling
<1>6. /\ SlotsOf(t) = tk[t].slots /\ SlotsOf(t)' = left
      /\ WakesOf(t) = 0 /\ WakesOf(t)' = tk[t].back
  BY <1>1, <1>3, <1>4 DEF SlotsOf, WakesOf, Owning
<1>7. in_flight' = in_flight - tk[t].back /\ in_flight' \in Nat
  <2>1. tk[t].slots <= in_flight
    BY <1>4, <1>6, SlotsChanged DEF Inv, SlotsAccounted
  <2> QED BY <1>1, <1>2, <2>1, Facts DEF Greatest
<1>8. Keeps(t)
  <2>1. in_flight' = in_flight - SlotsOf(t) + SlotsOf(t)' /\ in_flight' <= Ceiling
    BY <1>1, <1>6, <1>7, Facts DEF left
  <2>2. t \notin listening \cup notified /\ listening \cap notified = {}
    BY <1>1, Listeners DEF Registered
  <2>3. tk'[t].pc \notin Registered
    BY <1>3, <1>4 DEF Registered
  <2> QED BY <1>2, <1>4, <1>5, <1>7, <2>1, <2>2, <2>3, Facts DEF Keeps
<1>9. Balanced(t)
  <2>1. /\ Numbers
        /\ Cardinality(Pending)' = Cardinality(Pending) - WakesOf(t) + WakesOf(t)'
    BY <1>8, KeepsRest
  <2>2. Bit(tk[t].pc \in Looking) = 0 /\ Bit(tk'[t].pc \in Looking) = 0
    BY <1>1, <1>3, <1>4 DEF Bit, Looking
  <2>3. /\ limit' <= limit + 0
        /\ 0 + in_flight + Cardinality(notified) + Cardinality(Pending)
             + Bit(tk[t].pc \in Looking)
           <= in_flight' + Cardinality(notified)' + Cardinality(Pending)'
             + Bit(tk'[t].pc \in Looking)
    BY <1>1, <1>2, <1>6, <1>7, <2>1, <2>2 DEF Numbers
  <2> QED BY <2>3 DEF Balanced
<1> QED BY <1>2, <1>3, <1>4, <1>8, <1>9, MovedInv

(* Wakes are sent to as many waiters, or to all there are. *)
LEMMA SendInv ==
  ASSUME Inv, NEW t \in Tasks, OnlyTask(t), Sound(t)', UNCHANGED Slots,
         NotifyAdditional(WakesOf(t), listening, notified),
         WakesOf(t)' = 0, SlotsOf(t)' = SlotsOf(t),
         tk[t].pc \in {"grow", "notify"}, tk'[t].pc \in {"release", "idle", "trait"}
  PROVE  Inv'
<1> DEFINE n == WakesOf(t)
<1>1. n \in Nat
  BY PendingChanged DEF Inv
<1>2. /\ listening \in SUBSET Tasks /\ notified \in SUBSET Tasks /\ listening \cap notified = {}
      /\ t \notin listening \cup notified
  BY Listeners DEF Registered
<1> HIDE DEF n
<1>3. /\ listening' \subseteq listening
      /\ listening' \cup notified' = listening \cup notified
      /\ listening' \cap notified' = {}
      /\ listening' = {} \/ Cardinality(notified') = Cardinality(notified) + n
  <2>1. NotifyAdditional(n, listening, notified)
    BY DEF n
  <2> QED BY <1>1, <1>2, <2>1, NotifyCount
<1>4. Keeps(t)
  <2>1. tk'[t].pc \notin Registered
    BY DEF Registered
  <2>2. t \notin listening' \cup notified'
    BY <1>2, <1>3
  <2> QED BY <1>3, <2>1, <2>2, EventKeeps
<1>5. CASE listening' = {}
  <2>1. Balanced(t)
    BY <1>5 DEF Balanced
  <2> QED BY <1>3, <1>4, <2>1, MovedInv
<1>6. CASE Cardinality(notified') = Cardinality(notified) + n
  <2>1. /\ Numbers
        /\ Cardinality(Pending)' = Cardinality(Pending) - n + WakesOf(t)'
    BY <1>4, KeepsRest DEF n
  <2>2. Bit(tk[t].pc \in Looking) = 0 /\ Bit(tk'[t].pc \in Looking) = 0
    BY DEF Bit, Looking
  <2>3. limit' = limit /\ in_flight' = in_flight
    BY DEF Slots
  <2>4. /\ limit' <= limit + 0
        /\ 0 + in_flight + Cardinality(notified) + Cardinality(Pending)
             + Bit(tk[t].pc \in Looking)
           <= in_flight' + Cardinality(notified)' + Cardinality(Pending)'
             + Bit(tk'[t].pc \in Looking)
    BY <1>1, <1>6, <2>1, <2>2, <2>3 DEF Numbers
  <2>5. Balanced(t)
    BY <2>4 DEF Balanced
  <2> QED BY <1>3, <1>4, <2>5, MovedInv
<1> QED BY <1>3, <1>5, <1>6

LEMMA GrowInv ==
  ASSUME Inv, NEW t \in Tasks, Grow(t)
  PROVE  Inv'
<1> DEFINE me == [tk[t] EXCEPT !.pc = "release"]
<1>1. /\ me \in Calls /\ me.pc = "release" /\ me.slots = tk[t].slots /\ me.back = tk[t].back
  BY Typed, Named DEF Calls
<1>2. /\ Become(t, me) /\ tk[t].pc = "grow" /\ UNCHANGED Slots
      /\ NotifyAdditional(tk[t].new - tk[t].cur, listening, notified)
  BY DEF Grow, Goto
<1> HIDE DEF me
<1>3. OnlyTask(t) /\ tk'[t] = me
  BY <1>1, <1>2, Facts, BecomeOnly
<1>4. Sound(t)'
  BY <1>1, <1>2, <1>3, Facts DEF Sound, Unchecked, Looking, Swapping, Settling
<1>5. SlotsOf(t)' = SlotsOf(t) /\ WakesOf(t) = tk[t].new - tk[t].cur /\ WakesOf(t)' = 0
  BY <1>1, <1>2, <1>3 DEF SlotsOf, WakesOf, Owning
<1> QED BY <1>1, <1>2, <1>3, <1>4, <1>5, SendInv

LEMMA NotifyInv ==
  ASSUME Inv, NEW t \in Tasks, Notify(t)
  PROVE  Inv'
<1> DEFINE more == [Idle EXCEPT !.pc = "trait", !.slots = tk[t].slots]
           me == IF tk[t].slots = 0 THEN Idle ELSE more
<1>1. tk[t].slots \in Nat
  BY Facts DEF Calls
<1>2. /\ Become(t, me) /\ tk[t].pc = "notify" /\ UNCHANGED Slots
      /\ NotifyAdditional(tk[t].back, listening, notified)
  BY DEF Notify
<1>3. /\ me \in Calls /\ me.pc \in {"idle", "trait"} /\ me.slots = tk[t].slots
      /\ me.told = FALSE /\ (me.pc = "trait" => me.slots >= 1)
      /\ (me.pc = "idle" => tk[t].slots = 0)
  <2>1. /\ more \in Calls /\ more.pc = "trait" /\ more.slots = tk[t].slots
        /\ more.told = FALSE
    BY <1>1, Typed, Named DEF Calls, Idle
  <2>2. Idle \in Calls /\ Idle.pc = "idle" /\ Idle.slots = 0 /\ Idle.told = FALSE
    BY Facts DEF Idle
  <2> HIDE DEF more
  <2> QED BY <1>1, <2>1, <2>2
<1> HIDE DEF me
<1>4. OnlyTask(t) /\ tk'[t] = me
  BY <1>2, <1>3, Facts, BecomeOnly
<1>5. Sound(t)'
  BY <1>3, <1>4 DEF Sound, Unchecked, Looking, Swapping, Settling
<1>6. SlotsOf(t)' = SlotsOf(t) /\ WakesOf(t) = tk[t].back /\ WakesOf(t)' = 0
  BY <1>2, <1>3, <1>4 DEF SlotsOf, WakesOf, Owning
<1> QED BY <1>2, <1>3, <1>4, <1>5, <1>6, SendInv

-----------------------------------------------------------------------------
LEMMA InitInv ==
  ASSUME Init
  PROVE  Inv
<1>1. Idle \in Calls /\ Idle.pc = "idle" /\ Idle.told = FALSE
  BY DEF Idle, Calls, Places, Looking, Owning
<1> HIDE DEF Idle
<1>2. /\ limit = Initial /\ in_flight = 0 /\ epoch = 0 /\ listening = {} /\ notified = {}
      /\ tk = [t \in Tasks |-> Idle]
  BY DEF Init
<1>3. tk \in [Tasks -> Calls] /\ \A t \in Tasks : tk[t].pc = "idle" /\ tk[t].told = FALSE
  BY <1>1, <1>2
<1>4. At(Registered) = {} /\ \A t \in Tasks : SlotsOf(t) = 0
  BY <1>3 DEF At, Registered, SlotsOf, Owning
<1>5. TypeOK /\ WithinCeiling
  BY <1>2, <1>3, <1>4, AdaptiveAssumption DEF TypeOK, WithinCeiling
<1>6. in_flight = Cardinality(SlotsInUse)
  <2>1. SlotsInUse = {}
    BY <1>4 DEF SlotsInUse
  <2> QED BY <1>2, <2>1, FS_EmptySet
<1>7. \A t \in Tasks : Sound(t)
  BY <1>3 DEF Sound, Unchecked, Looking, Swapping, Settling
<1>8. NoLostWakeup /\ ReadsCovered
  BY <1>2, <1>3 DEF NoLostWakeup, Stuck, ReadsCovered
<1> QED BY <1>5, <1>6, <1>7, <1>8 DEF Inv, SlotsAccounted

LEMMA NextInv ==
  ASSUME Inv, [Next]_vars
  PROVE  Inv'
<1>1. CASE UNCHANGED vars
  BY <1>1 DEF vars, Inv, SlotsAccounted, TypeOK, WithinCeiling, NoLostWakeup, ReadsCovered, Sound,
       SlotsInUse, SlotsOf, Pending, WakesOf, Stuck, At, Watched, Covered, Fresher
<1>2. ASSUME NEW t \in Tasks, Call(t)
      PROVE  Inv'
  <2>1. CASE TryAcquire(t)
    BY <2>1, StartInv DEF TryAcquire
  <2>2. CASE AcquireCost(t)
    <3>1. PICK cost \in Costs : Start(t, "loadC", cost)
      BY <2>2 DEF AcquireCost
    <3>2. cost \in Nat /\ 1 <= cost
      BY AdaptiveAssumption
    <3> QED BY <3>1, <3>2, StartInv
  <2>3. CASE Acquire(t)
    BY <2>3, StartInv DEF Acquire
  <2>4. CASE Abandon(t)
    BY <2>4, DropInv, Facts DEF Abandon
  <2>5. CASE Refund(t)
    BY <2>5, RefundInv
  <2>6. CASE \E ok \in BOOLEAN : Settle(t, ok)
    BY <2>6, SettleInv
  <2> QED BY <1>2, <2>1, <2>2, <2>3, <2>4, <2>5, <2>6 DEF Call
<1>3. ASSUME NEW t \in Tasks, Run(t)
      PROVE  Inv'
  <2>1. CASE TryStep(t) \/ CostStep(t) \/ FirstTry(t) \/ SecondTry(t)
    <3>1. CASE \/ ReserveLoad(t, "loadT", "limT") \/ ReserveLoad(t, "loadC", "limC")
               \/ ReserveLoad(t, "load1", "lim1") \/ ReserveLoad(t, "load2", "lim2")
      BY <3>1, LoadInv
    <3>2. CASE \/ ReserveCheck(t, "limT", "casT", "idle") \/ ReserveCheck(t, "limC", "casC", "idle")
               \/ ReserveCheck(t, "lim1", "cas1", "listen")
               \/ ReserveCheck(t, "lim2", "cas2", "parked")
      BY <3>2, CheckInv
    <3>3. CASE \/ ReserveSwap(t, "casT", "loadT", "epoch") \/ ReserveSwap(t, "casC", "loadC", "trait")
               \/ ReserveSwap(t, "cas1", "load1", "epoch")
               \/ ReserveSwap(t, "cas2", "load2", "leave")
      BY <3>3, SwapInv
    <3> QED BY <2>1, <3>1, <3>2, <3>3 DEF TryStep, CostStep, FirstTry, SecondTry
  <2>2. CASE Leave(t)
    <3> DEFINE me == [tk[t] EXCEPT !.pc = "epoch"]
    <3>1. me \in Calls
      BY Typed, Named DEF Calls
    <3>2. Become(t, me) /\ tk[t].pc = "leave" /\ DropListener(t) /\ UNCHANGED Slots
      BY <2>2 DEF Leave, Goto
    <3> QED BY <3>1, <3>2, DropInv
  <2>3. CASE LoadLimit(t)
    BY <2>3, TurnInv DEF LoadLimit, Slots, Event
  <2> QED BY <1>3, <2>1, <2>2, <2>3, ListenInv, WakeInv, NewPermitInv, LookInv, GuardInv,
             SwapLimitInv, BumpInv, GrowInv, ReleaseInv, NotifyInv DEF Run
<1> QED BY <1>1, <1>2, <1>3 DEF Next

LEMMA InvHolds == Spec => []Inv
BY InitInv, NextInv, PTL DEF Spec

(* in_flight counts the slots in use, for any number of tasks, costs and   *)
(* outcomes: no release, refund or cancellation of src/adaptive.rs gives a *)
(* slot back twice or forgets one.                                         *)
THEOREM SlotsAreAccounted == Spec => []SlotsAccounted
<1>1. Inv => SlotsAccounted
  BY DEF Inv
<1> QED BY <1>1, InvHolds, PTL

(* Whatever the strategy answers and however its answers race, the limit   *)
(* stays between the floor and the ceiling, and the slots in use below the *)
(* ceiling.                                                                *)
THEOREM LimitWithinCeiling == Spec => []WithinCeiling
<1>1. Inv => WithinCeiling
  BY DEF Inv
<1> QED BY <1>1, InvHolds, PTL

(* No waiter of wait_for_slot sleeps beside a slot that nobody is about to *)
(* take or to announce, although the slots and the limit are two atomics   *)
(* that it reads one after the other.                                      *)
THEOREM WakeupsAreNotLost == Spec => []NoLostWakeup
<1>1. Inv => NoLostWakeup
  BY DEF Inv
<1> QED BY <1>1, InvHolds, PTL

(* After a decrease of src/adaptive.rs has raised the epoch, a failure     *)
(* whose permit is older lowers the limit only if it had passed its epoch  *)
(* comparison before that raise: settle carries the epoch of the admission *)
(* through the look at in_flight up to the comparison, and adjust_limit's  *)
(* retries never bring back a failure that the comparison turned away.     *)
THEOREM RacersAloneLowerAgain == Spec => OnlyRacersLowerAgain
<1> DEFINE Kept == \A t \in Tasks : Lowers(t) => ~tk[t].told
<1>1. ASSUME Inv, [Next]_vars PROVE [Kept]_vars
  <2> SUFFICES ASSUME NEW t \in Tasks, Next, tk[t].pc = "swap", tk'[t].pc = "bump"
               PROVE  ~tk[t].told
    BY <1>1 DEF Lowers
  <2>1. tk \in [Tasks -> Calls]
    BY <1>1 DEF Inv, SlotsAccounted, TypeOK
  <2>2. PICK s \in Tasks : Call(s) \/ Run(s)
    BY DEF Next
  <2>3. (\E me : Become(s, me)) \/ SwapLimit(s) \/ Bump(s)
    BY <2>2 DEF Call, Run, TryAcquire, AcquireCost, Acquire, Start, Abandon, Refund, Settle,
         TryStep, CostStep, FirstTry, SecondTry, ReserveLoad, ReserveCheck, ReserveSwap,
         Listen, Leave, Wake, NewPermit, Look, Guard, LoadLimit, Turn, Grow, Release,
         Notify, Goto
  <2>4. CASE s # t
    <3>1. CASE \E me : Become(s, me)
      BY <2>1, <2>4, <3>1 DEF Become
    <3>2. CASE SwapLimit(s)
      <4>1. tk'[t].pc = tk[t].pc
        <5>1. CASE limit # tk[s].cur
          BY <2>1, <2>4, <3>2, <5>1 DEF SwapLimit, Turn, Become
        <5>2. CASE limit = tk[s].cur
          <6> DEFINE b == ~tk[s].ok /\ tk[s].new < limit
                     mine == tk[t].lowered \/ (b /\ tk[t].pc \in Owning)
          <6>1. tk'[t] = [tk[t] EXCEPT !.lowered = mine]
            BY <2>1, <2>4, <3>2, <5>2 DEF SwapLimit
          <6> HIDE DEF mine
          <6> QED BY <2>1, <6>1 DEF Calls
        <5> QED BY <5>1, <5>2
      <4> QED BY <4>1
    <3>3. CASE Bump(s)
      <4> DEFINE mine == tk[t].told \/ tk[t].pc \in Unchecked
      <4>1. tk'[t] = [tk[t] EXCEPT !.told = mine]
        BY <2>1, <2>4, <3>3 DEF Bump
      <4> HIDE DEF mine
      <4> QED BY <2>1, <4>1 DEF Calls
    <3> QED BY <2>3, <3>1, <3>2, <3>3
  <2>5. CASE s = t
    <3>1. SwapLimit(t)
      BY <2>2, <2>5 DEF Call, Run, TryAcquire, AcquireCost, Acquire, Start, Abandon, Refund,
           Settle, TryStep, CostStep, FirstTry, SecondTry, ReserveLoad, ReserveCheck,
           ReserveSwap, Listen, Leave, Wake, NewPermit, Look, Guard, LoadLimit, Bump, Grow,
           Release, Notify
    <3>2. tk[t] \in Calls
      BY <2>1
    <3>3. ~tk[t].ok
      <4>1. CASE limit # tk[t].cur
        <5>1. PICK n \in Adjust(limit, tk[t].seen, tk[t].ok) :
                Become(t, IF Clamp(n) = limit
                  THEN [tk[t] EXCEPT !.pc = "release", !.seen = 0, !.cur = 0, !.new = 0]
                  ELSE [tk[t] EXCEPT !.pc = "swap", !.cur = limit, !.new = Clamp(n)])
          BY <3>1, <4>1 DEF SwapLimit, Turn
        <5> DEFINE c == Clamp(n)
        <5> HIDE DEF c
        <5>2. tk'[t] = IF c = limit
                  THEN [tk[t] EXCEPT !.pc = "release", !.seen = 0, !.cur = 0, !.new = 0]
                  ELSE [tk[t] EXCEPT !.pc = "swap", !.cur = limit, !.new = c]
          BY <2>1, <5>1 DEF Become, c
        <5>3. tk'[t].pc # "bump"
          BY <3>2, <5>2 DEF Calls
        <5> QED BY <5>3
      <4>2. CASE limit = tk[t].cur
        <5> DEFINE lowers == ~tk[t].ok /\ tk[t].new < limit
                   next == IF lowers THEN "bump" ELSE IF tk[t].new > limit THEN "grow"
                           ELSE "release"
                   mine == tk[t].lowered \/ (lowers /\ tk[t].pc \in Owning)
                   me == [tk[t] EXCEPT !.lowered = mine]
        <5>1. tk'[t] = IF next = "grow" THEN [me EXCEPT !.pc = next, !.seen = 0]
                       ELSE [me EXCEPT !.pc = next, !.seen = 0, !.cur = 0, !.new = 0]
          BY <2>1, <3>1, <4>2 DEF SwapLimit
        <5> HIDE DEF lowers, next, mine
        <5>2. tk'[t].pc = next
          BY <3>2, <5>1 DEF Calls
        <5> QED BY <5>2 DEF next, lowers
      <4> QED BY <4>1, <4>2
    <3> QED BY <1>1, <3>3, Facts DEF Sound
  <2> QED BY <2>4, <2>5
<1>2. [][Kept]_vars <=> OnlyRacersLowerAgain
  BY DEF OnlyRacersLowerAgain
<1> QED BY <1>1, <1>2, InvHolds, PTL DEF Spec

=============================================================================
