--------------------------- MODULE KeyedWaitProof ---------------------------
(***************************************************************************)
(* Proofs about the two halves of a keyed acquire: the wait loop that      *)
(* drives it (WaitEngine, for every set of waiters and resumers, every     *)
(* wait, timeout and pause, and every bound on yields, time and resumes)   *)
(* and the store it takes its tokens from (KeyStore, for every set of keys *)
(* and callers, every configuration and every amount of work per insert).  *)
(*                                                                         *)
(* WaitEngine.  The inductive invariant Inv is a statement about one       *)
(* waiter at a time:                                                       *)
(*   - GuardSound: while the wait lasts the guard is armed exactly when    *)
(*     units are taken, and a granted waiter has them all;                 *)
(*   - Timely: a nap is kept within the deadline from the moment it is     *)
(*     chosen to the moment its timer is set, and a reservation is slept   *)
(*     out before the pause that follows it;                               *)
(*   - Told: a waiter that saw a pause and has not slept yet finds the     *)
(*     limiter still paused, or a resume has lifted the pause; one that    *)
(*     sleeps without a listener has read the epoch of that resume;        *)
(*   - Woken: one that sleeps with a listener has read it, or is notified, *)
(*     or its notification is about to be sent.                            *)
(*                                                                         *)
(* KeyStore.  The inductive invariant is StoreInv, whose core MapGood says *)
(* that each key has at most one place in the slots and the debts, within  *)
(* the cap, and that those places cover the history: a key is at least as  *)
(* far from full as it would be without evictions, and a key with no place *)
(* had recovered by the newest reading used under the write lock.          *)
(* NoFreeTokens is not inductive: it sees a key only now, while the next   *)
(* insertion may use an older reading.  What a scan or a sweep does is a   *)
(* lemma about one look, carried over any number of looks by Repeated.     *)
(***************************************************************************)
EXTENDS WaitEngine, KeyStore, Counting

-----------------------------------------------------------------------------
(* WaitEngine. *)


GuardSound(m) ==
  /\ m.pc = "idle" => (m.taken <=> m.ended = "ok")
  /\ m.pc # "idle" => (m.taken <=> m.armed)
  /\ m.granted => m.armed
  /\ m.pc \in {"top", "step", "yield", "recheck", "reepoch"} => ~m.granted
  /\ m.pc \in {"gtop", "gpause"} => m.granted

(* A nap of d ends by the deadline dl. *)
Fits(d, dl) == dl = Forever \/ now + d <= dl

Timely(m) ==
  /\ m.pc # "idle" => now <= m.dl
  /\ m.pc \in {"recheck", "reepoch", "listen", "check"} => Fits(m.nap, m.dl)
  /\ m.pc \in {"sleeping", "waiting"} => m.due <= m.dl
  /\ m.granted => m.ready <= now \/ (m.pc = "sleeping" /\ m.ready <= m.due)

Told(m) ==
  /\ m.lifted <= epoch
  /\ m.pc = "recheck" /\ m.pausing => m.lifted # 0 \/ now < hold
  /\ m.pc = "reepoch" /\ m.pausing => m.lifted # 0 \/ m.paused
  /\ m.pc = "sleeping" /\ m.pausing /\ m.nap > 1 => m.lifted # 0 /\ m.lifted <= m.ep

Good(m) == GuardSound(m) /\ Timely(m) /\ Told(m)

Notifying == \E r \in Resumers : rs[r].pc = "notify"

Woken(x) ==
  wt[x].pc = "waiting" /\ wt[x].pausing /\ wt[x].lifted # 0 /\ x \notin notified =>
    wt[x].lifted <= wt[x].ep \/ Notifying

ResumersSound ==
  \A r \in Resumers : rs[r].ep <= epoch /\ (rs[r].pc # "idle" => rs[r].ep # 0)

Inv ==
  /\ TypeOK
  /\ \A x \in Waiters : Good(wt[x])
  /\ \A x \in Waiters : Woken(x)
  /\ ResumersSound

-----------------------------------------------------------------------------
(* Times. *)

LEMMA Times ==
  ASSUME Inv
  PROVE  /\ now \in Nat /\ hold \in Nat /\ epoch \in Nat /\ Forever \in Nat
         /\ 0 <= epoch /\ now < Forever /\ 0 < Forever /\ hold <= Forever /\ now <= MaxNow
BY WaitEngineAssumption DEF Inv, TypeOK

LEMMA State ==
  ASSUME Inv, NEW x \in Waiters
  PROVE  wt[x] \in WaiterStates /\ Good(wt[x])
BY DEF Inv, TypeOK

(* Deadline::remaining bounds what fits. *)
LEMMA WithinLeft ==
  ASSUME Inv, NEW x \in Waiters, wt[x].pc # "idle", NEW d \in Nat, d <= Left(x)
  PROVE  Fits(d, wt[x].dl)
<1>1. wt[x].dl \in 0..Forever /\ now <= wt[x].dl
  BY State DEF WaiterStates, Good, Timely
<1>2. wt[x].dl \in Nat /\ now \in Nat
  BY <1>1, Times
<1> QED BY <1>1, <1>2 DEF Left, Fits

LEMMA LeftType ==
  ASSUME Inv, NEW x \in Waiters
  PROVE  Left(x) \in Nat
<1>1. wt[x].dl \in 0..Forever
  BY State DEF WaiterStates
<1> QED BY <1>1, Times DEF Left

(* The instant a nap ends. *)
LEMMA UntilFits ==
  ASSUME Inv, NEW d \in Nat, NEW dl \in 0..Forever, Fits(d, dl)
  PROVE  Until(d) \in 0..Forever /\ Until(d) <= dl
<1>1. dl \in Nat
  BY Times
<1>2. Until(d) \in 0..Forever
  BY Times DEF Until, Lesser
<1>3. CASE dl = Forever
  BY <1>2, <1>3
<1>4. CASE dl # Forever
  <2>1. now + d <= dl /\ dl < Forever
    BY <1>1, <1>4, Times DEF Fits
  <2>2. Until(d) = now + d
    BY <1>1, <2>1, Times DEF Until, Lesser
  <2> QED BY <1>2, <2>1, <2>2
<1> QED BY <1>3, <1>4

LEMMA UntilType ==
  ASSUME Inv, NEW d \in Nat
  PROVE  Until(d) \in 0..Forever /\ Until(d) >= now
BY Times DEF Until, Lesser

-----------------------------------------------------------------------------
(* A step of one waiter. *)

LEMMA WaiterStep ==
  ASSUME Inv, NEW x \in Waiters, NEW m \in WaiterStates, Become(x, m), Good(m),
         UNCHANGED Shared,
         listening' \cap notified' = {},
         listening' \ {x} = listening \ {x}, notified' \ {x} = notified \ {x},
         x \in listening' \cup notified' <=> m.pc \in Registered,
         m.pc = "waiting" /\ m.pausing /\ m.lifted # 0 => m.lifted <= m.ep
  PROVE  Inv'
<1>1. wt \in [Waiters -> WaiterStates] /\ wt' = [wt EXCEPT ![x] = m]
  BY DEF Inv, TypeOK, Become
<1>2. wt' \in [Waiters -> WaiterStates] /\ wt'[x] = m /\ \A y \in Waiters : y # x => wt'[y] = wt[y]
  BY <1>1
<1>3. UNCHANGED <<now, hold, epoch, rs>>
  BY DEF Shared
<1>4. TypeOK'
  <2>1. listening \cup notified = {y \in Waiters : wt[y].pc \in Registered}
    BY DEF Inv, TypeOK
  <2>2. listening' \cup notified' = {y \in Waiters : wt'[y].pc \in Registered}
    BY <1>2, <2>1
  <2> QED BY <1>2, <1>3, <2>2 DEF Inv, TypeOK
<1>5. ASSUME NEW y \in Waiters
      PROVE  Good(wt[y])' /\ Woken(y)'
  <2>1. CASE y = x
    <3>1. Good(wt[y])'
      BY <1>2, <1>3, <2>1 DEF Good, GuardSound, Timely, Told, Fits
    <3>2. Woken(y)'
      BY <1>2, <2>1 DEF Woken
    <3> QED BY <3>1, <3>2
  <2>2. CASE y # x
    <3>1. wt'[y] = wt[y] /\ Good(wt[y]) /\ Woken(y)
      BY <1>2, <2>2 DEF Inv
    <3>2. Good(wt[y])'
      BY <1>3, <3>1 DEF Good, GuardSound, Timely, Told, Fits
    <3>3. y \in notified' <=> y \in notified
      BY <2>2
    <3>4. Woken(y)'
      BY <1>3, <3>1, <3>3 DEF Woken, Notifying
    <3> QED BY <3>2, <3>4
  <2> QED BY <2>1, <2>2
<1>6. ResumersSound'
  BY <1>3 DEF Inv, ResumersSound
<1> QED BY <1>4, <1>5, <1>6 DEF Inv

(* The event is left alone, and the waiter neither had nor has a listener. *)
LEMMA WaiterAlone ==
  ASSUME Inv, NEW x \in Waiters, NEW m \in WaiterStates, Become(x, m), Good(m),
         UNCHANGED <<Shared, Event>>,
         wt[x].pc \notin Registered, m.pc \notin Registered
  PROVE  Inv'
<1>1. x \notin listening \cup notified /\ listening \cap notified = {}
  BY DEF Inv, TypeOK
<1>2. listening' = listening /\ notified' = notified /\ UNCHANGED Shared
  BY DEF Event
<1> QED BY <1>1, <1>2, WaiterStep DEF Registered

(* The waiter leaves the event. *)
LEMMA WaiterUnlistens ==
  ASSUME Inv, NEW x \in Waiters, NEW m \in WaiterStates, Become(x, m), Good(m),
         UNCHANGED Shared, Unlisten(x), m.pc \notin Registered
  PROVE  Inv'
<1>1. listening \cap notified = {}
  BY DEF Inv, TypeOK
<1>2. listening' = listening \ {x} /\ notified' = notified \ {x}
  BY DEF Unlisten
<1> QED BY <1>1, <1>2, WaiterStep DEF Registered

-----------------------------------------------------------------------------
(* What a waiter may become. *)

(* Every place that a step names is a place. *)
LEMMA Named ==
  {"idle", "top", "step", "yield", "recheck", "reepoch", "listen", "check", "waiting",
   "sleeping", "gtop", "gpause"} \subseteq Places
BY DEF Places, Suspended, Registered

LEMMA IdleState ==
  Idle \in WaiterStates /\ 0 \in 0..Forever
<1>1. 0 \in 0..Forever /\ 0 \in 0..(RaceYields + 1)
  BY WaitEngineAssumption
<1> QED BY <1>1, Named DEF Idle, WaiterStates

(* What an idle waiter remembers. *)
LEMMA IdleFields ==
  /\ Idle.pc = "idle" /\ Idle.granted = FALSE /\ Idle.armed = FALSE
  /\ Idle.taken = FALSE /\ Idle.lifted = 0
BY DEF Idle

(* The end of a wait: the guard has fired if it was armed. *)
LEMMA LeaveGood ==
  ASSUME Inv, NEW m \in WaiterStates, NEW how \in {"ok", "timed out", "never", "dropped"},
         (m.taken /\ ~m.armed) <=> how = "ok"
  PROVE  /\ Leave(m, how) \in WaiterStates /\ Leave(m, how).pc = "idle"
         /\ Good(Leave(m, how))
<1> DEFINE b == m.taken /\ ~m.armed
           me == [Idle EXCEPT !.taken = b, !.ended = how]
<1>1. b \in BOOLEAN /\ (b <=> how = "ok")
  OBVIOUS
<1>2. Leave(m, how) = me
  <2>1. Fired(m).taken = b
    BY DEF Fired, WaiterStates
  <2> QED BY <2>1 DEF Leave
<1> HIDE DEF b
<1>3. Idle \in WaiterStates
  BY IdleState
<1>4. /\ me \in WaiterStates /\ me.pc = "idle" /\ me.taken = b /\ me.ended = how
      /\ me.granted = FALSE /\ me.lifted = 0
  <2>1. me \in WaiterStates
    BY <1>1, <1>3 DEF WaiterStates
  <2>2. /\ me.pc = Idle.pc /\ me.taken = b /\ me.ended = how
        /\ me.granted = Idle.granted /\ me.lifted = Idle.lifted
    BY <1>3 DEF WaiterStates
  <2> HIDE DEF me
  <2> QED BY <2>1, <2>2, IdleFields
<1> HIDE DEF me
<1>5. GuardSound(me)
  BY <1>1, <1>4 DEF GuardSound
<1>6. Timely(me)
  BY <1>4 DEF Timely
<1>7. Told(me)
  <2>1. me.lifted = 0
    BY <1>4
  <2>2. me.lifted <= epoch
    BY <2>1, Times
  <2> QED BY <1>4, <2>2 DEF Told
<1> QED BY <1>2, <1>4, <1>5, <1>6, <1>7 DEF Good

(* Where the waiter goes on after a nap. *)
LEMMA AgainGood ==
  ASSUME Inv, NEW m \in WaiterStates, m.pc # "idle", GuardSound(m), now <= m.dl,
         m.granted => m.ready <= now
  PROVE  /\ Again(m) \in WaiterStates /\ Again(m).pc \in {"top", "gtop"}
         /\ Good(Again(m))
<1> DEFINE me == Again(m)
           pc == IF m.granted THEN "gtop" ELSE "top"
<1>1. pc \in {"top", "gtop"} /\ (pc = "gtop" <=> m.granted)
  OBVIOUS
<1>2. me = [m EXCEPT !.pc = pc, !.due = 0, !.nap = 0, !.paused = FALSE, !.ep = 0,
                     !.pausing = FALSE, !.lifted = 0]
  BY DEF Again
<1> HIDE DEF me, pc
<1>3. pc \in Places
  BY <1>1, Named
<1>4. /\ me \in WaiterStates /\ me.pc = pc /\ me.granted = m.granted /\ me.lifted = 0
      /\ me.armed = m.armed /\ me.taken = m.taken /\ me.dl = m.dl /\ me.ready = m.ready
  BY <1>2, <1>3, IdleState DEF WaiterStates
<1>5. GuardSound(me)
  BY <1>1, <1>4 DEF GuardSound
<1>6. Timely(me)
  BY <1>1, <1>4 DEF Timely
<1>7. Told(me)
  BY <1>1, <1>4, Times DEF Told
<1> QED BY <1>1, <1>4, <1>5, <1>6, <1>7 DEF Good, me

(* A nap that fits is slept within the deadline. *)
LEMMA AsleepGood ==
  ASSUME Inv, NEW m \in WaiterStates, m.pc # "idle", GuardSound(m), now <= m.dl,
         Fits(m.nap, m.dl), m.granted => m.ready <= now, m.lifted <= epoch,
         m.pausing /\ m.nap > 1 => m.lifted # 0 /\ m.lifted <= m.ep
  PROVE  /\ Asleep(m) \in WaiterStates /\ Asleep(m).pc = "sleeping"
         /\ Good(Asleep(m))
<1> DEFINE me == Asleep(m)
           due == Until(m.nap)
<1>1. m.nap \in Nat /\ m.dl \in 0..Forever
  BY DEF WaiterStates
<1>2. due \in 0..Forever /\ due <= m.dl
  BY <1>1, UntilFits
<1>3. me = [m EXCEPT !.pc = "sleeping", !.due = due]
  BY DEF Asleep
<1> HIDE DEF me, due
<1>4. /\ me \in WaiterStates /\ me.pc = "sleeping" /\ me.granted = m.granted
      /\ me.lifted = m.lifted /\ me.ep = m.ep /\ me.pausing = m.pausing /\ me.nap = m.nap
      /\ me.armed = m.armed /\ me.taken = m.taken /\ me.dl = m.dl /\ me.ready = m.ready
      /\ me.due = due
  BY <1>2, <1>3, Named DEF WaiterStates
<1>5. GuardSound(me)
  BY <1>4 DEF GuardSound
<1>6. Timely(me)
  BY <1>2, <1>4 DEF Timely
<1>7. Told(me)
  BY <1>4 DEF Told
<1> QED BY <1>4, <1>5, <1>6, <1>7 DEF Good, me

(* sleep_unless_resumed chooses between a timer and a listener. *)
LEMMA ListenGood ==
  ASSUME Inv, NEW m \in WaiterStates, m.pc # "idle", GuardSound(m), now <= m.dl,
         Fits(m.nap, m.dl), m.granted => m.ready <= now, m.lifted <= epoch
  PROVE  /\ SleepUnlessResumed(m) \in WaiterStates
         /\ SleepUnlessResumed(m).pc \in {"sleeping", "listen"}
         /\ Good(SleepUnlessResumed(m))
<1>1. m.nap \in Nat
  BY DEF WaiterStates
<1>2. CASE m.nap <= 1
  BY <1>1, <1>2, AsleepGood DEF SleepUnlessResumed
<1>3. CASE ~(m.nap <= 1)
  <2> DEFINE me == [m EXCEPT !.pc = "listen"]
  <2>1. SleepUnlessResumed(m) = me
    BY <1>3 DEF SleepUnlessResumed
  <2>2. /\ me \in WaiterStates /\ me.pc = "listen" /\ me.granted = m.granted
        /\ me.lifted = m.lifted /\ me.nap = m.nap
        /\ me.armed = m.armed /\ me.taken = m.taken /\ me.dl = m.dl /\ me.ready = m.ready
    BY Named DEF WaiterStates
  <2> HIDE DEF me
  <2>3. GuardSound(me)
    BY <2>2 DEF GuardSound
  <2>4. Timely(me) /\ Told(me)
    BY <2>2 DEF Timely, Told
  <2> QED BY <2>1, <2>2, <2>3, <2>4 DEF Good
<1> QED BY <1>2, <1>3

-----------------------------------------------------------------------------
(* The waiter's steps. *)

LEMMA BeginInv ==
  ASSUME Inv, NEW x \in Waiters, Begin(x)
  PROVE  Inv'
<1>1. PICK t \in Timeouts : Become(x, [Idle EXCEPT !.pc = "top", !.dl = Until(t)])
  BY DEF Begin
<1> DEFINE dl == Until(t)
           me == [Idle EXCEPT !.pc = "top", !.dl = dl]
<1>2. dl \in 0..Forever /\ dl >= now
  BY WaitEngineAssumption, UntilType
<1>3. Become(x, me) /\ UNCHANGED <<Shared, Event>> /\ wt[x].pc = "idle"
  BY <1>1 DEF Begin
<1> HIDE DEF dl
<1>4. Idle \in WaiterStates
  BY IdleState
<1>5. /\ me \in WaiterStates /\ me.pc = "top" /\ me.dl = dl /\ me.lifted = 0
      /\ me.granted = FALSE /\ me.armed = FALSE /\ me.taken = FALSE
  <2>1. me \in WaiterStates
    BY <1>2, <1>4, Named DEF WaiterStates
  <2>2. /\ me.pc = "top" /\ me.dl = dl /\ me.lifted = Idle.lifted
        /\ me.granted = Idle.granted /\ me.armed = Idle.armed /\ me.taken = Idle.taken
    BY <1>4 DEF WaiterStates
  <2> HIDE DEF me
  <2> QED BY <2>1, <2>2, IdleFields
<1> HIDE DEF me
<1>6. Good(me)
  BY <1>2, <1>5, Times DEF Good, GuardSound, Timely, Told
<1> QED BY <1>3, <1>5, <1>6, WaiterAlone DEF Registered

(* A step that changes only the place, the epoch read or the pause seen. *)
LEMMA PlainInv ==
  ASSUME Inv, NEW x \in Waiters, NEW m \in WaiterStates, Become(x, m),
         UNCHANGED <<Shared, Event>>,
         m.dl = wt[x].dl, m.nap = wt[x].nap, m.granted = wt[x].granted,
         m.armed = wt[x].armed, m.taken = wt[x].taken, m.ready = wt[x].ready,
         m.lifted = wt[x].lifted, m.pausing = wt[x].pausing,
         <<wt[x].pc, m.pc>> \in {<<"top", "step">>, <<"yield", "top">>,
                                 <<"recheck", "reepoch">>, <<"gtop", "gpause">>},
         m.pc = "reepoch" /\ m.pausing => m.lifted # 0 \/ m.paused
  PROVE  Inv'
<1>1. Good(wt[x]) /\ wt[x] \in WaiterStates
  BY State
<1>2. GuardSound(m)
  BY <1>1 DEF Good, GuardSound
<1>3. Timely(m)
  BY <1>1 DEF Good, Timely
<1>4. Told(m)
  BY <1>1 DEF Good, Told
<1>5. wt[x].pc \notin Registered /\ m.pc \notin Registered
  BY DEF Registered
<1> QED BY <1>2, <1>3, <1>4, <1>5, WaiterAlone DEF Good

LEMMA TopInv ==
  ASSUME Inv, NEW x \in Waiters, Top(x)
  PROVE  Inv'
<1> DEFINE me == [wt[x] EXCEPT !.pc = "step", !.ep = epoch]
<1>1. Become(x, me) /\ wt[x].pc = "top" /\ UNCHANGED <<Shared, Event>>
  BY DEF Top
<1>2. /\ me \in WaiterStates /\ me.pc = "step"
      /\ me.dl = wt[x].dl /\ me.nap = wt[x].nap /\ me.granted = wt[x].granted
      /\ me.armed = wt[x].armed /\ me.taken = wt[x].taken /\ me.ready = wt[x].ready
      /\ me.lifted = wt[x].lifted /\ me.pausing = wt[x].pausing
  BY State, Times, Named DEF WaiterStates
<1> HIDE DEF me
<1> QED BY <1>1, <1>2, PlainInv

LEMMA YieldedInv ==
  ASSUME Inv, NEW x \in Waiters, Yielded(x)
  PROVE  Inv'
<1> DEFINE me == [wt[x] EXCEPT !.pc = "top"]
<1>1. Become(x, me) /\ wt[x].pc = "yield" /\ UNCHANGED <<Shared, Event>>
  BY DEF Yielded
<1>2. /\ me \in WaiterStates /\ me.pc = "top"
      /\ me.dl = wt[x].dl /\ me.nap = wt[x].nap /\ me.granted = wt[x].granted
      /\ me.armed = wt[x].armed /\ me.taken = wt[x].taken /\ me.ready = wt[x].ready
      /\ me.lifted = wt[x].lifted /\ me.pausing = wt[x].pausing
  BY State, Named DEF WaiterStates
<1> HIDE DEF me
<1> QED BY <1>1, <1>2, PlainInv

LEMMA RecheckInv ==
  ASSUME Inv, NEW x \in Waiters, Recheck(x)
  PROVE  Inv'
<1> DEFINE b == Paused # 0
           me == [wt[x] EXCEPT !.pc = "reepoch", !.paused = b]
<1>1. Become(x, me) /\ wt[x].pc = "recheck" /\ UNCHANGED <<Shared, Event>>
  BY DEF Recheck
<1>2. b \in BOOLEAN /\ (now < hold => b)
  BY Times DEF Paused
<1> HIDE DEF b
<1>3. /\ me \in WaiterStates /\ me.pc = "reepoch" /\ me.paused = b
      /\ me.dl = wt[x].dl /\ me.nap = wt[x].nap /\ me.granted = wt[x].granted
      /\ me.armed = wt[x].armed /\ me.taken = wt[x].taken /\ me.ready = wt[x].ready
      /\ me.lifted = wt[x].lifted /\ me.pausing = wt[x].pausing
  BY <1>2, State, Named DEF WaiterStates
<1> HIDE DEF me
<1>4. me.pausing => me.lifted # 0 \/ me.paused
  BY <1>1, <1>2, <1>3, State DEF Good, Told
<1> QED BY <1>1, <1>3, <1>4, PlainInv

LEMMA GrantedTopInv ==
  ASSUME Inv, NEW x \in Waiters, GrantedTop(x)
  PROVE  Inv'
<1> DEFINE me == [wt[x] EXCEPT !.pc = "gpause", !.ep = epoch]
<1>1. Become(x, me) /\ wt[x].pc = "gtop" /\ UNCHANGED <<Shared, Event>>
  BY DEF GrantedTop
<1>2. /\ me \in WaiterStates /\ me.pc = "gpause"
      /\ me.dl = wt[x].dl /\ me.nap = wt[x].nap /\ me.granted = wt[x].granted
      /\ me.armed = wt[x].armed /\ me.taken = wt[x].taken /\ me.ready = wt[x].ready
      /\ me.lifted = wt[x].lifted /\ me.pausing = wt[x].pausing
  BY State, Times, Named DEF WaiterStates
<1> HIDE DEF me
<1> QED BY <1>1, <1>2, PlainInv

(* A waiter that comes back later naps within its deadline, and one that   *)
(* saw a pause looks again before it naps.                                 *)
LEMMA NapAfterInv ==
  ASSUME Inv, NEW x \in Waiters, wt[x].pc = "step", UNCHANGED <<Shared, Event>>,
         NEW m \in WaiterStates, NEW after \in Nat, NapAfter(x, m, after), after <= Left(x),
         m.pc = "step", GuardSound(m), m.dl = wt[x].dl, m.lifted <= epoch,
         m.pausing => after # 0 /\ now < hold
  PROVE  Inv'
<1>1. wt[x].pc \notin Registered /\ now <= wt[x].dl
  BY State DEF Registered, Good, Timely
<1>2. ~m.granted
  BY DEF GuardSound
<1>3. m.zeros \in Nat /\ m.zeros <= RaceYields + 1 /\ RaceYields \in Nat
  <2>1. RaceYields \in Nat
    BY WaitEngineAssumption
  <2>2. m.zeros \in 0..(RaceYields + 1)
    BY DEF WaiterStates
  <2> QED BY <2>1, <2>2
<1>4. ASSUME NEW nap \in Nat, nap <= Left(x), NEW zeros \in 0..(RaceYields + 1),
             Become(x, [m EXCEPT !.pc = "recheck", !.zeros = zeros, !.nap = nap])
      PROVE  Inv'
  <2> DEFINE me == [m EXCEPT !.pc = "recheck", !.zeros = zeros, !.nap = nap]
  <2>1. Become(x, me)
    BY <1>4
  <2>2. /\ me \in WaiterStates /\ me.pc = "recheck" /\ me.granted = m.granted
        /\ me.armed = m.armed /\ me.taken = m.taken /\ me.dl = wt[x].dl /\ me.nap = nap
        /\ me.lifted = m.lifted /\ me.pausing = m.pausing
    BY Named DEF WaiterStates
  <2> HIDE DEF me
  <2>3. Fits(nap, wt[x].dl)
    BY <1>4, WithinLeft
  <2>4. GuardSound(me)
    BY <1>2, <2>2 DEF GuardSound
  <2>5. Timely(me)
    BY <1>1, <1>2, <2>2, <2>3 DEF Timely
  <2>6. Told(me)
    BY <2>2 DEF Told
  <2> QED BY <1>1, <2>1, <2>2, <2>4, <2>5, <2>6, WaiterAlone DEF Good, Registered
<1>5. CASE after # 0
  <2>1. Become(x, [m EXCEPT !.pc = "recheck", !.zeros = 0, !.nap = after])
    BY <1>5 DEF NapAfter
  <2>2. 0 \in 0..(RaceYields + 1)
    BY <1>3
  <2> QED BY <1>4, <2>1, <2>2
<1>6. CASE after = 0 /\ m.zeros + 1 <= RaceYields
  <2> DEFINE z == m.zeros + 1
             me == [m EXCEPT !.pc = "yield", !.zeros = z]
  <2>1. Become(x, me)
    BY <1>6 DEF NapAfter
  <2>2. z \in 0..(RaceYields + 1)
    BY <1>3, <1>6
  <2> HIDE DEF z
  <2>3. /\ me \in WaiterStates /\ me.pc = "yield" /\ me.granted = m.granted
        /\ me.armed = m.armed /\ me.taken = m.taken /\ me.dl = wt[x].dl
        /\ me.lifted = m.lifted
    BY <2>2, Named DEF WaiterStates
  <2> HIDE DEF me
  <2>4. GuardSound(me)
    BY <1>2, <2>3 DEF GuardSound
  <2>5. Timely(me) /\ Told(me)
    BY <1>1, <1>2, <2>3 DEF Timely, Told
  <2> QED BY <1>1, <2>1, <2>3, <2>4, <2>5, WaiterAlone DEF Good, Registered
<1>7. CASE after = 0 /\ ~(m.zeros + 1 <= RaceYields) /\ Left(x) = 0
  <2>1. Become(x, Leave(m, "timed out"))
    BY <1>7 DEF NapAfter
  <2>2. ~(m.taken /\ ~m.armed)
    BY DEF GuardSound
  <2>3. /\ Leave(m, "timed out") \in WaiterStates /\ Leave(m, "timed out").pc = "idle"
        /\ Good(Leave(m, "timed out"))
    BY <2>2, LeaveGood
  <2> QED BY <1>1, <2>1, <2>3, WaiterAlone DEF Registered
<1>8. CASE after = 0 /\ ~(m.zeros + 1 <= RaceYields) /\ Left(x) # 0
  <2> DEFINE z == Lesser(m.zeros + 1, RaceYields + 1)
             nap == Lesser(RaceBackoff, Left(x))
  <2>1. Become(x, [m EXCEPT !.pc = "recheck", !.zeros = z, !.nap = nap])
    BY <1>8 DEF NapAfter
  <2>2. z \in 0..(RaceYields + 1)
    BY <1>3 DEF Lesser
  <2>3. nap \in Nat /\ nap <= Left(x)
    BY LeftType DEF Lesser, RaceBackoff
  <2> HIDE DEF z, nap
  <2> QED BY <1>4, <2>1, <2>2, <2>3
<1> QED BY <1>5, <1>6, <1>7, <1>8

(* A wait longer than what is left ends at once. *)
LEMMA RefusedInv ==
  ASSUME Inv, NEW x \in Waiters, wt[x].pc = "step", UNCHANGED <<Shared, Event>>,
         NEW m \in WaiterStates, m.taken = m.armed, NEW how \in {"timed out", "never"},
         Become(x, Leave(m, how))
  PROVE  Inv'
<1>1. /\ Leave(m, how) \in WaiterStates /\ Leave(m, how).pc = "idle"
      /\ Good(Leave(m, how))
  <2>1. how \in {"ok", "timed out", "never", "dropped"} /\ how # "ok"
    OBVIOUS
  <2>2. ~(m.taken /\ ~m.armed)
    OBVIOUS
  <2> QED BY <2>1, <2>2, LeaveGood
<1>2. wt[x].pc \notin Registered /\ Leave(m, how).pc \notin Registered
  BY <1>1 DEF Registered
<1> QED BY <1>1, <1>2, WaiterAlone

LEMMA RetryInv ==
  ASSUME Inv, NEW x \in Waiters, wt[x].pc = "step", UNCHANGED <<Shared, Event>>,
         NEW after \in Nat, NEW pausing \in BOOLEAN, pausing => after # 0 /\ now < hold,
         Retry(x, after, pausing)
  PROVE  Inv'
<1> DEFINE m == [wt[x] EXCEPT !.armed = FALSE, !.taken = FALSE,
                              !.pausing = pausing, !.lifted = 0]
<1>1. IF after > Left(x) THEN Become(x, Leave(m, "timed out")) ELSE NapAfter(x, m, after)
  BY DEF Retry
<1>2. wt[x].granted = FALSE
  BY State DEF Good, GuardSound, WaiterStates
<1>3. /\ m \in WaiterStates /\ m.pc = "step" /\ m.granted = FALSE /\ m.armed = FALSE
      /\ m.taken = FALSE /\ m.dl = wt[x].dl /\ m.lifted = 0 /\ m.pausing = pausing
  <2>1. wt[x] \in WaiterStates
    BY State
  <2>2. m \in WaiterStates
    BY <2>1 DEF WaiterStates
  <2>3. /\ m.pc = wt[x].pc /\ m.granted = wt[x].granted /\ m.armed = FALSE
        /\ m.taken = FALSE /\ m.dl = wt[x].dl /\ m.lifted = 0 /\ m.pausing = pausing
    BY <2>1 DEF WaiterStates
  <2> HIDE DEF m
  <2> QED BY <1>2, <2>2, <2>3
<1> HIDE DEF m
<1>4. GuardSound(m)
  BY <1>3 DEF GuardSound
<1>5. CASE after > Left(x)
  BY <1>1, <1>3, <1>5, RefusedInv
<1>6. CASE ~(after > Left(x))
  <2>1. NapAfter(x, m, after)
    BY <1>1, <1>6
  <2>2. after <= Left(x)
    BY <1>6, LeftType
  <2>3. m.lifted <= epoch
    BY <1>3, Times
  <2> QED BY <1>3, <1>4, <2>1, <2>2, <2>3, NapAfterInv
<1> QED BY <1>5, <1>6

LEMMA HoldingInv ==
  ASSUME Inv, NEW x \in Waiters, wt[x].pc = "step", UNCHANGED <<Shared, Event>>, Holding(x)
  PROVE  Inv'
<1> DEFINE m == [wt[x] EXCEPT !.armed = TRUE, !.taken = TRUE, !.pausing = FALSE]
<1>1. PICK wait \in Waits :
        IF wait > Left(x) THEN Become(x, Leave(m, "timed out")) ELSE NapAfter(x, m, wait)
  BY DEF Holding
<1>2. wt[x].granted = FALSE
  BY State DEF Good, GuardSound, WaiterStates
<1>3. /\ m \in WaiterStates /\ m.pc = "step" /\ m.granted = FALSE /\ m.armed = TRUE
      /\ m.taken = TRUE /\ m.dl = wt[x].dl /\ m.lifted = wt[x].lifted /\ m.pausing = FALSE
  BY <1>2, State DEF WaiterStates
<1> HIDE DEF m
<1>4. GuardSound(m)
  BY <1>3 DEF GuardSound
<1>5. wait \in Nat
  BY WaitEngineAssumption
<1>6. CASE wait > Left(x)
  BY <1>1, <1>3, <1>6, RefusedInv
<1>7. CASE ~(wait > Left(x))
  <2>1. NapAfter(x, m, wait)
    BY <1>1, <1>7
  <2>2. wait <= Left(x)
    BY <1>5, <1>7, LeftType
  <2>3. m.lifted <= epoch
    BY <1>3, State DEF Good, Told
  <2> QED BY <1>3, <1>4, <1>5, <2>1, <2>2, <2>3, NapAfterInv
<1> QED BY <1>6, <1>7

(* A reservation's timer is set for the moment it matures. *)
LEMMA GrantedInv ==
  ASSUME Inv, NEW x \in Waiters, wt[x].pc = "step", UNCHANGED <<Shared, Event>>, Granted(x)
  PROVE  Inv'
<1>1. PICK wait \in Waits :
    /\ wait <= Left(x)
    /\ Become(x, [wt[x] EXCEPT !.pc = IF wait = 0 THEN "gtop" ELSE "sleeping",
                               !.granted = TRUE, !.armed = TRUE, !.taken = TRUE,
                               !.due = Until(wait), !.ready = Until(wait),
                               !.pausing = FALSE])
  BY DEF Granted
<1> DEFINE pc == IF wait = 0 THEN "gtop" ELSE "sleeping"
           u == Until(wait)
           me == [wt[x] EXCEPT !.pc = pc, !.granted = TRUE, !.armed = TRUE, !.taken = TRUE,
                               !.due = u, !.ready = u, !.pausing = FALSE]
<1>2. Become(x, me) /\ wait \in Nat
  BY <1>1, WaitEngineAssumption
<1>3. pc \in {"gtop", "sleeping"} /\ (pc = "gtop" => wait = 0)
  OBVIOUS
<1>4. u \in 0..Forever /\ u <= wt[x].dl
  <2>1. Fits(wait, wt[x].dl)
    BY <1>1, <1>2, WithinLeft
  <2>2. wt[x].dl \in 0..Forever
    BY State DEF WaiterStates
  <2> QED BY <1>2, <2>1, <2>2, UntilFits
<1>5. pc = "gtop" => u <= now
  BY <1>3, Times DEF Until, Lesser
<1> HIDE DEF u, pc
<1>6. /\ me \in WaiterStates /\ me.pc = pc /\ me.granted = TRUE /\ me.armed = TRUE
      /\ me.taken = TRUE /\ me.dl = wt[x].dl /\ me.due = u /\ me.ready = u
      /\ me.pausing = FALSE /\ me.lifted = wt[x].lifted
  <2>1. wt[x] \in WaiterStates
    BY State
  <2>2. pc \in Places
    BY <1>3, Named
  <2> QED BY <1>4, <2>1, <2>2 DEF WaiterStates
<1> HIDE DEF me
<1>7. GuardSound(me)
  BY <1>3, <1>6 DEF GuardSound
<1>8. Timely(me)
  <2>1. now <= wt[x].dl
    BY State DEF Good, Timely
  <2>2. u <= u
    BY <1>4
  <2> QED BY <1>3, <1>4, <1>5, <1>6, <2>1, <2>2 DEF Timely
<1>9. Told(me)
  <2>1. wt[x].lifted <= epoch
    BY State DEF Good, Told
  <2> QED BY <1>3, <1>6, <2>1 DEF Told
<1>10. wt[x].pc \notin Registered /\ me.pc \notin Registered
  BY <1>3, <1>6 DEF Registered
<1> QED BY <1>2, <1>6, <1>7, <1>8, <1>9, <1>10, WaiterAlone DEF Good

LEMMA AskLimiterInv ==
  ASSUME Inv, NEW x \in Waiters, AskLimiter(x)
  PROVE  Inv'
<1>1. wt[x].pc = "step" /\ UNCHANGED <<Shared, Event>>
  BY DEF AskLimiter
<1>2. CASE Paused # 0 /\ Retry(x, Paused, TRUE)
  <2> DEFINE after == Paused
  <2>1. after \in Nat /\ now < hold /\ after # 0
    BY <1>2, Times DEF Paused
  <2>2. Retry(x, after, TRUE)
    BY <1>2
  <2> HIDE DEF after
  <2> QED BY <1>1, <2>1, <2>2, RetryInv
<1>3. CASE \E after \in Waits : Retry(x, after, FALSE)
  <2>1. PICK after \in Waits : Retry(x, after, FALSE)
    BY <1>3
  <2>2. after \in Nat
    BY WaitEngineAssumption
  <2> QED BY <1>1, <2>1, <2>2, RetryInv
<1>4. CASE Impossible(x)
  <2> DEFINE m == [wt[x] EXCEPT !.armed = FALSE, !.taken = FALSE]
  <2>1. m \in WaiterStates /\ m.taken = m.armed
    BY State DEF WaiterStates
  <2>2. Become(x, Leave(m, "never"))
    BY <1>4 DEF Impossible
  <2> HIDE DEF m
  <2> QED BY <1>1, <2>1, <2>2, RefusedInv
<1> QED BY <1>1, <1>2, <1>3, <1>4, GrantedInv, HoldingInv DEF AskLimiter

(* The last look before a nap: an unlifted pause means a listener, a       *)
(* lifted one that the epoch of its resume was read.                       *)
LEMMA ReepochInv ==
  ASSUME Inv, NEW x \in Waiters, Reepoch(x)
  PROVE  Inv'
<1>1. wt[x].pc = "reepoch" /\ UNCHANGED <<Shared, Event>> /\ wt[x].pc \notin Registered
  BY DEF Reepoch, Registered
<1>2. /\ wt[x] \in WaiterStates /\ GuardSound(wt[x]) /\ now <= wt[x].dl
      /\ Fits(wt[x].nap, wt[x].dl) /\ wt[x].lifted <= epoch
      /\ wt[x].pausing => wt[x].lifted # 0 \/ wt[x].paused
  BY <1>1, State DEF Good, Timely, Told
<1>3. wt[x].granted => wt[x].ready <= now
  BY <1>1, <1>2 DEF GuardSound
<1>4. CASE epoch # wt[x].ep
  <2>1. Become(x, Again(wt[x]))
    BY <1>4 DEF Reepoch
  <2>2. Again(wt[x]) \in WaiterStates /\ Again(wt[x]).pc \in {"top", "gtop"} /\ Good(Again(wt[x]))
    BY <1>1, <1>2, <1>3, AgainGood
  <2> QED BY <1>1, <2>1, <2>2, WaiterAlone DEF Registered
<1>5. CASE epoch = wt[x].ep /\ wt[x].paused
  <2> DEFINE me == SleepUnlessResumed(wt[x])
  <2>1. Become(x, me)
    BY <1>5 DEF Reepoch
  <2>2. me \in WaiterStates /\ me.pc \in {"sleeping", "listen"} /\ Good(me)
    BY <1>1, <1>2, <1>3, ListenGood
  <2> HIDE DEF me
  <2> QED BY <1>1, <2>1, <2>2, WaiterAlone DEF Registered
<1>6. CASE epoch = wt[x].ep /\ ~wt[x].paused
  <2> DEFINE me == Asleep(wt[x])
  <2>1. Become(x, me)
    BY <1>6 DEF Reepoch
  <2>2. wt[x].pausing /\ wt[x].nap > 1 => wt[x].lifted # 0 /\ wt[x].lifted <= wt[x].ep
    BY <1>2, <1>6
  <2>3. me \in WaiterStates /\ me.pc = "sleeping" /\ Good(me)
    BY <1>1, <1>2, <1>3, <2>2, AsleepGood
  <2> HIDE DEF me
  <2> QED BY <1>1, <2>1, <2>3, WaiterAlone DEF Registered
<1> QED BY <1>4, <1>5, <1>6

LEMMA ListenInv ==
  ASSUME Inv, NEW x \in Waiters, Listen(x)
  PROVE  Inv'
<1> DEFINE me == [wt[x] EXCEPT !.pc = "check"]
<1>1. /\ Become(x, me) /\ wt[x].pc = "listen" /\ UNCHANGED Shared
      /\ listening' = listening \cup {x} /\ notified' = notified
  BY DEF Listen
<1>2. /\ me \in WaiterStates /\ me.pc = "check" /\ me.granted = wt[x].granted
      /\ me.armed = wt[x].armed /\ me.taken = wt[x].taken /\ me.dl = wt[x].dl
      /\ me.nap = wt[x].nap /\ me.ready = wt[x].ready /\ me.lifted = wt[x].lifted
  BY State, Named DEF WaiterStates
<1> HIDE DEF me
<1>3. GuardSound(me) /\ Timely(me) /\ Told(me)
  <2>1. GuardSound(wt[x]) /\ Timely(wt[x]) /\ Told(wt[x])
    BY State DEF Good
  <2>2. GuardSound(me)
    BY <1>1, <1>2, <2>1 DEF GuardSound
  <2>3. Timely(me)
    BY <1>1, <1>2, <2>1 DEF Timely
  <2>4. Told(me)
    BY <1>1, <1>2, <2>1 DEF Told
  <2> QED BY <2>2, <2>3, <2>4
<1>4. x \notin listening \cup notified /\ listening \cap notified = {}
  BY <1>1 DEF Inv, TypeOK, Registered
<1> QED BY <1>1, <1>2, <1>3, <1>4, WaiterStep DEF Good, Registered

(* The epoch is read again behind the listener: a resume that lifted the   *)
(* pause before then is either seen or was read already.                   *)
LEMMA CheckEpochInv ==
  ASSUME Inv, NEW x \in Waiters, CheckEpoch(x)
  PROVE  Inv'
<1>1. wt[x].pc = "check" /\ UNCHANGED Shared
  BY DEF CheckEpoch
<1>2. /\ wt[x] \in WaiterStates /\ GuardSound(wt[x]) /\ now <= wt[x].dl
      /\ Fits(wt[x].nap, wt[x].dl) /\ wt[x].lifted <= epoch
      /\ wt[x].granted => wt[x].ready <= now
  BY <1>1, State DEF Good, Timely, Told
<1>3. CASE epoch # wt[x].ep
  <2> DEFINE me == Again(wt[x])
  <2>1. Become(x, me) /\ Unlisten(x)
    BY <1>3 DEF CheckEpoch
  <2>2. me \in WaiterStates /\ me.pc \in {"top", "gtop"} /\ Good(me)
    BY <1>1, <1>2, AgainGood
  <2> HIDE DEF me
  <2> QED BY <1>1, <2>1, <2>2, WaiterUnlistens DEF Registered
<1>4. CASE epoch = wt[x].ep
  <2> DEFINE due == Until(wt[x].nap)
             me == [wt[x] EXCEPT !.pc = "waiting", !.due = due]
  <2>1. Become(x, me) /\ listening' = listening /\ notified' = notified
    BY <1>4 DEF CheckEpoch, Event
  <2>2. due \in 0..Forever /\ due <= wt[x].dl
    <3>1. wt[x].nap \in Nat /\ wt[x].dl \in 0..Forever
      BY <1>2 DEF WaiterStates
    <3> QED BY <1>2, <3>1, UntilFits
  <2> HIDE DEF due
  <2>3. /\ me \in WaiterStates /\ me.pc = "waiting" /\ me.granted = wt[x].granted
        /\ me.armed = wt[x].armed /\ me.taken = wt[x].taken /\ me.dl = wt[x].dl
        /\ me.due = due /\ me.ready = wt[x].ready /\ me.lifted = wt[x].lifted
        /\ me.ep = wt[x].ep
    BY <1>2, <2>2, Named DEF WaiterStates
  <2> HIDE DEF me
  <2>4. GuardSound(me)
    BY <1>1, <1>2, <2>3 DEF GuardSound
  <2>5. Timely(me)
    BY <1>2, <2>2, <2>3 DEF Timely
  <2>6. Told(me)
    BY <1>2, <2>3 DEF Told
  <2>7. x \in listening \cup notified /\ listening \cap notified = {}
    BY <1>1 DEF Inv, TypeOK, Registered
  <2>8. me.lifted <= me.ep
    BY <1>2, <1>4, <2>3
  <2> QED BY <1>1, <2>1, <2>3, <2>4, <2>5, <2>6, <2>7, <2>8, WaiterStep DEF Good, Registered
<1> QED BY <1>3, <1>4

LEMMA WakeUpInv ==
  ASSUME Inv, NEW x \in Waiters, WakeUp(x)
  PROVE  Inv'
<1> DEFINE me == Again(wt[x])
<1>1. Become(x, me) /\ Unlisten(x) /\ UNCHANGED Shared
  BY DEF WakeUp
<1>2. /\ wt[x].pc \in {"sleeping", "waiting"}
      /\ wt[x].pc = "sleeping" => wt[x].due <= now
  BY DEF WakeUp
<1>3. /\ wt[x] \in WaiterStates /\ GuardSound(wt[x]) /\ now <= wt[x].dl
      /\ wt[x].granted => wt[x].ready <= now \/ (wt[x].pc = "sleeping" /\ wt[x].ready <= wt[x].due)
  BY <1>2, State DEF Good, Timely
<1>4. wt[x].ready \in Nat /\ wt[x].due \in Nat /\ now \in Nat
  <2>1. wt[x].ready \in 0..Forever /\ wt[x].due \in 0..Forever
    BY <1>3 DEF WaiterStates
  <2> QED BY <2>1, Times
<1>5. wt[x].granted => wt[x].ready <= now
  BY <1>2, <1>3, <1>4
<1>6. me \in WaiterStates /\ me.pc \in {"top", "gtop"} /\ Good(me)
  BY <1>2, <1>3, <1>5, AgainGood
<1> HIDE DEF me
<1> QED BY <1>1, <1>6, WaiterUnlistens DEF Registered

LEMMA GrantedPauseInv ==
  ASSUME Inv, NEW x \in Waiters, GrantedPause(x)
  PROVE  Inv'
<1>1. wt[x].pc = "gpause" /\ UNCHANGED <<Shared, Event>> /\ wt[x].pc \notin Registered
  BY DEF GrantedPause, Registered
<1>2. /\ wt[x] \in WaiterStates /\ GuardSound(wt[x]) /\ now <= wt[x].dl
      /\ wt[x].granted = TRUE /\ wt[x].armed = TRUE /\ wt[x].taken = TRUE
      /\ wt[x].ready <= now
  <2>1. wt[x] \in WaiterStates /\ GuardSound(wt[x]) /\ Timely(wt[x])
    BY State DEF Good
  <2>2. wt[x].granted /\ wt[x].armed /\ wt[x].taken
    BY <1>1, <2>1 DEF GuardSound
  <2>3. wt[x].granted = TRUE /\ wt[x].armed = TRUE /\ wt[x].taken = TRUE
    BY <2>1, <2>2 DEF WaiterStates
  <2> QED BY <1>1, <2>1, <2>2, <2>3 DEF Timely
<1>3. CASE Paused = 0
  <2> DEFINE m == [wt[x] EXCEPT !.armed = FALSE]
  <2>1. Become(x, Leave(m, "ok"))
    BY <1>3 DEF GrantedPause
  <2>2. m \in WaiterStates /\ m.taken = TRUE /\ m.armed = FALSE
    BY <1>2 DEF WaiterStates
  <2> HIDE DEF m
  <2>3. Leave(m, "ok") \in WaiterStates /\ Leave(m, "ok").pc = "idle" /\ Good(Leave(m, "ok"))
    BY <2>2, LeaveGood
  <2> QED BY <1>1, <2>1, <2>3, WaiterAlone DEF Registered
<1>4. CASE Paused # 0 /\ Paused > Left(x)
  <2> DEFINE me == Leave(wt[x], "timed out")
  <2>1. Become(x, me)
    BY <1>4 DEF GrantedPause
  <2>2. me \in WaiterStates /\ me.pc = "idle" /\ Good(me)
    BY <1>2, LeaveGood
  <2> HIDE DEF me
  <2> QED BY <1>1, <2>1, <2>2, WaiterAlone DEF Registered
<1>5. CASE Paused # 0 /\ ~(Paused > Left(x))
  <2> DEFINE d == Paused
             m == [wt[x] EXCEPT !.nap = d, !.pausing = TRUE, !.lifted = 0]
             me == SleepUnlessResumed(m)
  <2>1. Become(x, me)
    BY <1>5 DEF GrantedPause
  <2>2. d \in Nat
    BY Times DEF Paused
  <2>3. d <= Left(x)
    BY <1>5, <2>2, LeftType
  <2>4. Fits(d, wt[x].dl)
    BY <1>1, <2>2, <2>3, WithinLeft
  <2> HIDE DEF d
  <2>5. /\ m \in WaiterStates /\ m.pc = "gpause" /\ m.granted = TRUE /\ m.armed = TRUE
        /\ m.taken = TRUE /\ m.nap = d /\ m.lifted = 0 /\ m.dl = wt[x].dl
        /\ m.ready = wt[x].ready
    BY <1>1, <1>2, <2>2 DEF WaiterStates
  <2> HIDE DEF m
  <2>6. GuardSound(m)
    BY <2>5 DEF GuardSound
  <2>7. m.lifted <= epoch
    BY <2>5, Times
  <2>8. me \in WaiterStates /\ me.pc \in {"sleeping", "listen"} /\ Good(me)
    BY <1>2, <2>4, <2>5, <2>6, <2>7, ListenGood
  <2> HIDE DEF me
  <2> QED BY <1>1, <2>1, <2>8, WaiterAlone DEF Registered
<1> QED BY <1>3, <1>4, <1>5

LEMMA CancelInv ==
  ASSUME Inv, NEW x \in Waiters, Cancel(x)
  PROVE  Inv'
<1> DEFINE me == Leave(wt[x], "dropped")
<1>1. Become(x, me) /\ Unlisten(x) /\ UNCHANGED Shared /\ wt[x].pc # "idle"
  BY DEF Cancel, Suspended
<1>2. wt[x] \in WaiterStates /\ GuardSound(wt[x])
  BY State DEF Good
<1>3. ~(wt[x].taken /\ ~wt[x].armed)
  BY <1>1, <1>2 DEF GuardSound
<1>4. me \in WaiterStates /\ me.pc = "idle" /\ Good(me)
  BY <1>2, <1>3, LeaveGood
<1> HIDE DEF me
<1> QED BY <1>1, <1>4, WaiterUnlistens DEF Registered

-----------------------------------------------------------------------------
(* The pause word, the resumers and the clock. *)

LEMMA PauseForInv ==
  ASSUME Inv, NEW d \in Pauses, PauseFor(d)
  PROVE  Inv'
<1>1. UNCHANGED <<now, epoch, listening, notified, wt, rs>>
  BY DEF PauseFor
<1>2. hold' \in 0..Forever /\ hold <= hold'
  <2>1. d \in Nat
    BY WaitEngineAssumption
  <2> DEFINE u == Until(d)
  <2>2. u \in 0..Forever
    BY <2>1, UntilType
  <2>3. hold' = IF hold > u THEN hold ELSE u
    BY DEF PauseFor
  <2> HIDE DEF u
  <2> QED BY <2>2, <2>3, Times DEF Inv, TypeOK
<1>3. TypeOK'
  BY <1>1, <1>2 DEF Inv, TypeOK
<1>4. ASSUME NEW x \in Waiters PROVE Good(wt[x])' /\ Woken(x)'
  <2>1. Good(wt[x]) /\ Woken(x)
    BY DEF Inv
  <2>2. now < hold => now < hold'
    BY <1>2, Times
  <2>3. Told(wt[x])'
    BY <1>1, <2>1, <2>2 DEF Good, Told
  <2>4. GuardSound(wt[x])' /\ Timely(wt[x])'
    BY <1>1, <2>1 DEF Good, GuardSound, Timely, Fits
  <2>5. Woken(x)'
    BY <1>1, <2>1 DEF Woken, Notifying
  <2> QED BY <2>3, <2>4, <2>5 DEF Good
<1>5. ResumersSound'
  BY <1>1 DEF Inv, ResumersSound
<1> QED BY <1>3, <1>4, <1>5 DEF Inv

LEMMA ResumeBumpInv ==
  ASSUME Inv, NEW r \in Resumers, ResumeBump(r)
  PROVE  Inv'
<1>1. /\ UNCHANGED <<now, hold, listening, notified, wt>> /\ rs[r].pc = "idle"
      /\ epoch' = epoch + 1 /\ epoch < MaxResumes
      /\ rs' = [rs EXCEPT ![r] = [pc |-> "swap", ep |-> epoch + 1]]
  BY DEF ResumeBump
<1>2. rs \in [Resumers -> ResumerStates]
  BY DEF Inv, TypeOK
<1>3. epoch' \in 0..MaxResumes /\ epoch' \in Nat /\ epoch <= epoch'
  BY <1>1, Times, WaitEngineAssumption
<1>4. rs' \in [Resumers -> ResumerStates]
  BY <1>1, <1>2, <1>3 DEF ResumerStates
<1>5. TypeOK'
  BY <1>1, <1>3, <1>4 DEF Inv, TypeOK
<1>6. Notifying' <=> Notifying
  BY <1>1, <1>2 DEF Notifying
<1>7. ASSUME NEW x \in Waiters PROVE Good(wt[x])' /\ Woken(x)'
  <2>1. Good(wt[x]) /\ Woken(x) /\ wt[x].lifted \in Nat
    BY State DEF Inv, WaiterStates
  <2>2. wt[x].lifted <= epoch => wt[x].lifted <= epoch'
    BY <1>3, <2>1, Times
  <2>3. Told(wt[x])'
    BY <1>1, <2>1, <2>2 DEF Good, Told
  <2>4. GuardSound(wt[x])' /\ Timely(wt[x])'
    BY <1>1, <2>1 DEF Good, GuardSound, Timely, Fits
  <2>5. Woken(x)'
    BY <1>1, <1>6, <2>1 DEF Woken
  <2> QED BY <2>3, <2>4, <2>5 DEF Good
<1>8. ResumersSound'
  <2> SUFFICES ASSUME NEW s \in Resumers
               PROVE  rs'[s].ep <= epoch' /\ (rs'[s].pc # "idle" => rs'[s].ep # 0)
    BY DEF ResumersSound
  <2>1. CASE s = r
    BY <1>1, <1>2, <2>1, Times
  <2>2. CASE s # r
    <3>1. rs'[s] = rs[s] /\ rs[s].ep \in Nat
      BY <1>1, <1>2, <2>2 DEF ResumerStates
    <3>2. rs[s].ep <= epoch /\ (rs[s].pc # "idle" => rs[s].ep # 0)
      BY DEF Inv, ResumersSound
    <3>3. rs[s].ep <= epoch'
      BY <1>3, <3>1, <3>2, Times
    <3> QED BY <3>1, <3>2, <3>3
  <2> QED BY <2>1, <2>2
<1> QED BY <1>5, <1>7, <1>8 DEF Inv

(* A resumer that is done leaves the other resumers as they are. *)
LEMMA ResumerDone ==
  ASSUME Inv, NEW r \in Resumers, rs' = [rs EXCEPT ![r] = NoResume], UNCHANGED epoch
  PROVE  rs' \in [Resumers -> ResumerStates] /\ ResumersSound'
<1>1. rs \in [Resumers -> ResumerStates]
  BY DEF Inv, TypeOK
<1>2. NoResume \in ResumerStates /\ NoResume.pc = "idle" /\ NoResume.ep = 0
  BY DEF NoResume, ResumerStates
<1> HIDE DEF NoResume
<1>3. rs' \in [Resumers -> ResumerStates]
  BY <1>1, <1>2
<1>4. ASSUME NEW s \in Resumers
      PROVE  rs'[s].ep <= epoch' /\ (rs'[s].pc # "idle" => rs'[s].ep # 0)
  <2>1. CASE s = r
    BY <1>1, <1>2, <2>1, Times
  <2>2. CASE s # r
    BY <1>1, <2>2 DEF Inv, ResumersSound
  <2> QED BY <2>1, <2>2
<1> QED BY <1>3, <1>4 DEF ResumersSound

(* The pause is lifted: whoever naps for it is told by which resume, and   *)
(* that resume has its notification still to send.                         *)
LEMMA ResumeSwapInv ==
  ASSUME Inv, NEW r \in Resumers, ResumeSwap(r)
  PROVE  Inv'
<1>1. UNCHANGED <<now, epoch, listening, notified>> /\ hold' = 0 /\ rs[r].pc = "swap"
  BY DEF ResumeSwap
<1>2. rs \in [Resumers -> ResumerStates] /\ wt \in [Waiters -> WaiterStates]
  BY DEF Inv, TypeOK
<1>3. hold' \in 0..Forever
  BY <1>1, IdleState
<1>4. CASE hold = 0
  <2>1. rs' = [rs EXCEPT ![r] = NoResume] /\ wt' = wt /\ hold' = hold
    BY <1>1, <1>4 DEF ResumeSwap
  <2>2. rs' \in [Resumers -> ResumerStates] /\ ResumersSound'
    BY <1>1, <2>1, ResumerDone
  <2>3. TypeOK'
    BY <1>1, <1>3, <2>1, <2>2 DEF Inv, TypeOK
  <2>4. Notifying => Notifying'
    BY <1>1, <1>2, <2>1 DEF Notifying
  <2>5. ASSUME NEW x \in Waiters PROVE Good(wt[x])' /\ Woken(x)'
    <3>1. Good(wt[x]) /\ Woken(x)
      BY DEF Inv
    <3>2. Good(wt[x])'
      BY <1>1, <2>1, <3>1 DEF Good, GuardSound, Timely, Told, Fits
    <3>3. Woken(x)'
      BY <1>1, <2>1, <2>4, <3>1 DEF Woken
    <3> QED BY <3>2, <3>3
  <2> QED BY <2>2, <2>3, <2>5 DEF Inv
<1>5. CASE hold # 0
  <2> DEFINE e == rs[r].ep
  <2>1. e \in Nat /\ e # 0 /\ e <= epoch
    BY <1>1, <1>2 DEF ResumerStates, Inv, ResumersSound
  <2>2. rs' = [rs EXCEPT ![r].pc = "notify"]
    BY <1>5 DEF ResumeSwap
  <2>3. rs'[r].pc = "notify" /\ rs'[r].ep = rs[r].ep /\ rs' \in [Resumers -> ResumerStates]
        /\ \A s \in Resumers : s # r => rs'[s] = rs[s]
    BY <1>2, <2>2 DEF ResumerStates
  <2>4. Notifying'
    BY <2>3 DEF Notifying
  <2>5. ResumersSound'
    BY <1>1, <2>1, <2>3 DEF Inv, ResumersSound
  <2>6. ASSUME NEW x \in Waiters
        PROVE  /\ wt'[x] \in WaiterStates /\ wt'[x].pc = wt[x].pc
               /\ wt'[x].granted = wt[x].granted /\ wt'[x].armed = wt[x].armed
               /\ wt'[x].taken = wt[x].taken /\ wt'[x].ended = wt[x].ended
               /\ wt'[x].dl = wt[x].dl /\ wt'[x].nap = wt[x].nap /\ wt'[x].due = wt[x].due
               /\ wt'[x].ready = wt[x].ready /\ wt'[x].ep = wt[x].ep
               /\ wt'[x].pausing = wt[x].pausing /\ wt'[x].paused = wt[x].paused
               /\ wt'[x].pausing => wt'[x].lifted # 0
               /\ wt[x].lifted # 0 => wt'[x].lifted = wt[x].lifted
               /\ wt'[x].lifted <= epoch
    <3>1. wt'[x] = IF wt[x].pausing /\ wt[x].lifted = 0
                     THEN [wt[x] EXCEPT !.lifted = e] ELSE wt[x]
      BY <1>5 DEF ResumeSwap
    <3>2. wt[x] \in WaiterStates /\ wt[x].lifted <= epoch
      BY State DEF Good, Told
    <3> HIDE DEF e
    <3>3. CASE wt[x].pausing /\ wt[x].lifted = 0
      <4> DEFINE m == [wt[x] EXCEPT !.lifted = e]
      <4>1. wt'[x] = m
        BY <3>1, <3>3
      <4>2. m \in WaiterStates
        BY <2>1, <3>2 DEF WaiterStates
      <4>3. /\ m.pc = wt[x].pc /\ m.granted = wt[x].granted /\ m.armed = wt[x].armed
            /\ m.taken = wt[x].taken /\ m.ended = wt[x].ended /\ m.dl = wt[x].dl
            /\ m.nap = wt[x].nap /\ m.due = wt[x].due /\ m.ready = wt[x].ready
            /\ m.ep = wt[x].ep /\ m.pausing = wt[x].pausing /\ m.paused = wt[x].paused
            /\ m.lifted = e
        BY <3>2 DEF WaiterStates
      <4> HIDE DEF m
      <4> QED BY <2>1, <3>3, <4>1, <4>2, <4>3
    <3>4. CASE ~(wt[x].pausing /\ wt[x].lifted = 0)
      BY <3>1, <3>2, <3>4
    <3> QED BY <3>3, <3>4
  <2>7. wt' \in [Waiters -> WaiterStates]
    <3>1. wt' = [x \in Waiters |-> wt'[x]]
      BY <1>5 DEF ResumeSwap
    <3> QED BY <2>6, <3>1
  <2>8. TypeOK'
    <3>1. {x \in Waiters : wt'[x].pc \in Registered} = {x \in Waiters : wt[x].pc \in Registered}
      BY <2>6
    <3> QED BY <1>1, <1>3, <2>3, <2>7, <3>1 DEF Inv, TypeOK
  <2>9. ASSUME NEW x \in Waiters PROVE Good(wt[x])' /\ Woken(x)'
    <3>1. GuardSound(wt[x]) /\ Timely(wt[x]) /\ Told(wt[x])
      BY State DEF Good
    <3>2. GuardSound(wt[x])'
      BY <2>6, <3>1 DEF GuardSound
    <3>3. Timely(wt[x])'
      BY <1>1, <2>6, <3>1 DEF Timely, Fits
    <3>4. Told(wt[x])'
      BY <1>1, <2>6, <3>1 DEF Told
    <3>5. Woken(x)'
      BY <2>4 DEF Woken
    <3> QED BY <3>2, <3>3, <3>4, <3>5 DEF Good
  <2> QED BY <2>5, <2>8, <2>9 DEF Inv
<1> QED BY <1>4, <1>5

LEMMA ResumeNotifyInv ==
  ASSUME Inv, NEW r \in Resumers, ResumeNotify(r)
  PROVE  Inv'
<1>1. /\ UNCHANGED <<now, hold, epoch, wt>> /\ rs' = [rs EXCEPT ![r] = NoResume]
      /\ notified' = notified \cup listening /\ listening' = {}
  BY DEF ResumeNotify
<1>2. rs' \in [Resumers -> ResumerStates] /\ ResumersSound'
  BY <1>1, ResumerDone
<1>3. TypeOK'
  BY <1>1, <1>2 DEF Inv, TypeOK
<1>4. ASSUME NEW x \in Waiters PROVE Good(wt[x])' /\ Woken(x)'
  <2>1. Good(wt[x])
    BY DEF Inv
  <2>2. Good(wt[x])'
    BY <1>1, <2>1 DEF Good, GuardSound, Timely, Told, Fits
  <2>3. Woken(x)'
    BY <1>1 DEF Inv, TypeOK, Woken, Registered
  <2> QED BY <2>2, <2>3
<1> QED BY <1>2, <1>3, <1>4 DEF Inv

(* Time passes only when every waiter is idle or asleep until later. *)
LEMMA TickInv ==
  ASSUME Inv, Tick
  PROVE  Inv'
<1>1. /\ UNCHANGED <<hold, epoch, listening, notified, wt, rs>>
      /\ now' = now + 1 /\ now < MaxNow /\ Quiet
  BY DEF Tick
<1>2. now' \in 0..MaxNow
  BY <1>1, Times, WaitEngineAssumption
<1>3. TypeOK'
  BY <1>1, <1>2 DEF Inv, TypeOK
<1>4. ASSUME NEW x \in Waiters PROVE Good(wt[x])' /\ Woken(x)'
  <2>1. /\ GuardSound(wt[x]) /\ Timely(wt[x]) /\ Told(wt[x]) /\ Woken(x)
        /\ wt[x] \in WaiterStates
    BY State DEF Good, Inv
  <2>2. /\ wt[x].pc \in {"idle", "sleeping", "waiting"}
        /\ wt[x].pc # "idle" => now < wt[x].due
    BY <1>1 DEF Quiet
  <2>3. wt[x].due \in Nat /\ wt[x].dl \in Nat /\ wt[x].ready \in Nat /\ now \in Nat
    <3>1. wt[x].due \in 0..Forever /\ wt[x].dl \in 0..Forever /\ wt[x].ready \in 0..Forever
      BY <2>1 DEF WaiterStates
    <3> QED BY <3>1, Times
  <2>4. Timely(wt[x])'
    <3>1. wt[x].pc # "idle" => now' <= wt[x].dl
      BY <1>1, <2>1, <2>2, <2>3 DEF Timely
    <3>2. wt[x].ready <= now => wt[x].ready <= now'
      BY <1>1, <2>3
    <3> QED BY <1>1, <2>1, <2>2, <3>1, <3>2 DEF Timely
  <2>5. GuardSound(wt[x])' /\ Told(wt[x])' /\ Woken(x)'
    <3>1. GuardSound(wt[x])'
      BY <1>1, <2>1 DEF GuardSound
    <3>2. Told(wt[x])'
      BY <1>1, <2>1, <2>2 DEF Told
    <3>3. Woken(x)'
      BY <1>1, <2>1 DEF Woken, Notifying
    <3> QED BY <3>1, <3>2, <3>3
  <2> QED BY <2>4, <2>5 DEF Good
<1>5. ResumersSound'
  BY <1>1 DEF Inv, ResumersSound
<1> QED BY <1>3, <1>4, <1>5 DEF Inv

-----------------------------------------------------------------------------
LEMMA InitInv ==
  ASSUME Init
  PROVE  Inv
<1>1. /\ now = 0 /\ hold = 0 /\ epoch = 0 /\ listening = {} /\ notified = {}
      /\ wt = [x \in Waiters |-> Idle] /\ rs = [r \in Resumers |-> NoResume]
  BY DEF Init
<1>2. /\ Idle \in WaiterStates /\ Idle.pc = "idle" /\ Idle.taken = FALSE
      /\ Idle.ended = "none" /\ Idle.granted = FALSE /\ Idle.lifted = 0
  BY IdleState DEF Idle
<1>3. NoResume \in ResumerStates /\ NoResume.pc = "idle" /\ NoResume.ep = 0
  BY DEF NoResume, ResumerStates
<1> HIDE DEF Idle, NoResume
<1>4. TypeOK
  <2>1. now \in 0..MaxNow /\ hold \in 0..Forever /\ epoch \in 0..MaxResumes
    BY <1>1, WaitEngineAssumption
  <2>2. {x \in Waiters : wt[x].pc \in Registered} = {}
    BY <1>1, <1>2 DEF Registered
  <2> QED BY <1>1, <1>2, <1>3, <2>1, <2>2 DEF TypeOK
<1>5. ASSUME NEW x \in Waiters PROVE Good(wt[x]) /\ Woken(x)
  <2>1. wt[x] = Idle
    BY <1>1
  <2>2. Idle.lifted <= epoch
    BY <1>1, <1>2
  <2>3. Good(Idle)
    BY <1>2, <2>2 DEF Good, GuardSound, Timely, Told
  <2>4. Woken(x)
    BY <1>2, <2>1 DEF Woken
  <2> QED BY <2>1, <2>3, <2>4
<1>6. ResumersSound
  BY <1>1, <1>3 DEF ResumersSound
<1> QED BY <1>4, <1>5, <1>6 DEF Inv

LEMMA NextInv ==
  ASSUME Inv, [Next]_vars
  PROVE  Inv'
<1>1. CASE UNCHANGED vars
  BY <1>1 DEF vars, Inv, TypeOK, Good, GuardSound, Timely, Told, Fits, Woken, Notifying,
       ResumersSound
<1>2. ASSUME NEW x \in Waiters, Begin(x) \/ Run(x) \/ Cancel(x)
      PROVE  Inv'
  BY <1>2, BeginInv, CancelInv, TopInv, AskLimiterInv, YieldedInv, RecheckInv, ReepochInv,
     ListenInv, CheckEpochInv, WakeUpInv, GrantedTopInv, GrantedPauseInv DEF Run
<1>3. ASSUME NEW r \in Resumers, Resume(r)
      PROVE  Inv'
  BY <1>3, ResumeBumpInv, ResumeSwapInv, ResumeNotifyInv DEF Resume
<1> QED BY <1>1, <1>2, <1>3, PauseForInv, TickInv DEF Next

LEMMA InvHolds == Spec => []Inv
BY InitInv, NextInv, PTL DEF Spec

(* wait_with's guard: the units of an acquire are taken exactly when it    *)
(* returned Ok, for any answers of the limiter and any point at which the  *)
(* future is dropped.                                                      *)
THEOREM UnitsFollow == Spec => []UnitsFollowOutcome
<1>1. Inv => UnitsFollowOutcome
  BY DEF Inv, Good, GuardSound, UnitsFollowOutcome
<1> QED BY <1>1, InvHolds, PTL

(* No nap, back-off or pause carries a wait past its deadline.             *)
THEOREM DeadlinesKept == Spec => []ResolvedByDeadline
<1>1. Inv => ResolvedByDeadline
  BY DEF Inv, Good, Timely, ResolvedByDeadline
<1> QED BY <1>1, InvHolds, PTL

(* A reservation is slept out before it is used, whatever resumes.         *)
THEOREM ReservationsMature == Spec => []MaturedBeforeUse
<1>1. ASSUME Inv, NEW x \in Waiters, wt[x].pc \in {"gtop", "gpause"}
      PROVE  wt[x].ready <= now
  <2>1. GuardSound(wt[x]) /\ Timely(wt[x])
    BY <1>1, State DEF Good
  <2> QED BY <1>1, <2>1 DEF GuardSound, Timely
<1>2. Inv => MaturedBeforeUse
  BY <1>1 DEF MaturedBeforeUse
<1> QED BY <1>2, InvHolds, PTL

(* A waiter left asleep on a pause that rt::resume has lifted, with no     *)
(* notification on its way, had read the epoch after that resume moved it: *)
(* the window between the epoch and the pause word is the only one.        *)
THEOREM EarlyReadersAreWoken == Spec => []EarlyReaderIsWoken
<1>1. ASSUME Inv, NEW x \in Waiters, SleepsThroughResume(x)
      PROVE  wt[x].ep >= wt[x].lifted
  <2>1. /\ wt[x].pc \in {"sleeping", "waiting"} /\ wt[x].pausing /\ wt[x].nap > 1
        /\ x \notin notified /\ wt[x].lifted # 0 /\ ~Notifying
    BY <1>1 DEF SleepsThroughResume, Notifying
  <2>2. wt[x].lifted <= wt[x].ep
    <3>1. CASE wt[x].pc = "sleeping"
      BY <1>1, <2>1, <3>1, State DEF Good, Told
    <3>2. CASE wt[x].pc = "waiting"
      BY <1>1, <2>1, <3>2 DEF Inv, Woken
    <3> QED BY <2>1, <3>1, <3>2
  <2>3. wt[x].lifted \in Nat /\ wt[x].ep \in Nat
    BY <1>1, State DEF WaiterStates
  <2> QED BY <2>2, <2>3
<1>2. Inv => EarlyReaderIsWoken
  BY <1>1 DEF EarlyReaderIsWoken
<1> QED BY <1>2, InvHolds, PTL

-----------------------------------------------------------------------------
(* KeyStore: arithmetic. *)

LEMMA Division ==
  ASSUME NEW a \in Nat, NEW b \in Nat \ {0}
  PROVE  /\ a \div b \in Nat
         /\ (a \div b) * b <= a
         /\ a < (a \div b) * b + b
OBVIOUS

LEMMA Scaled ==
  ASSUME NEW a \in Nat, NEW b \in Nat, NEW c \in Nat, a <= b
  PROVE  a * c \in Nat /\ b * c \in Nat /\ a * c <= b * c
OBVIOUS

(* A quotient is known by where its multiple lies. *)
LEMMA Quotient ==
  ASSUME NEW b \in Nat \ {0}, NEW p \in Nat, NEW q \in Nat, p * b < q * b + b
  PROVE  p <= q
<1>1. SUFFICES ASSUME q + 1 <= p PROVE FALSE
  OBVIOUS
<1>2. (q + 1) * b <= p * b
  BY <1>1, Scaled
<1>3. (q + 1) * b = q * b + b
  BY Products
<1>4. p * b \in Nat /\ q * b \in Nat
  OBVIOUS
<1> QED BY <1>2, <1>3, <1>4

LEMMA Ceiling ==
  ASSUME NEW a \in Nat, NEW b \in Nat \ {0}
  PROVE  /\ CeilDiv(a, b) \in Nat
         /\ a <= CeilDiv(a, b) * b
         /\ CeilDiv(a, b) * b < a + b
         /\ a = 0 => CeilDiv(a, b) = 0
<1> DEFINE c == CeilDiv(a, b)
           n == a + b - 1
<1>1. n \in Nat /\ c = n \div b
  BY DEF CeilDiv
<1> HIDE DEF n
<1>2. c \in Nat /\ c * b <= n /\ n < c * b + b
  BY <1>1, Division
<1> HIDE DEF c
<1> DEFINE d == c * b
<1>3. d \in Nat
  BY <1>2
<1>4. d <= n /\ n < d + b
  BY <1>2
<1>5. a <= d /\ d < a + b
  <2> HIDE DEF d
  <2> QED BY <1>3, <1>4 DEF n
<1>6. ASSUME a = 0 PROVE c = 0
  <2>1. c * b < 0 * b + b
    BY <1>5, <1>6
  <2>2. c <= 0
    BY <1>2, <2>1, Quotient
  <2> QED BY <1>2, <2>2
<1> QED BY <1>2, <1>5, <1>6 DEF c

LEMMA CeilingMono ==
  ASSUME NEW a \in Nat, NEW d \in Nat, NEW b \in Nat \ {0}, a <= d
  PROVE  CeilDiv(a, b) <= CeilDiv(d, b)
<1> DEFINE p == CeilDiv(a, b)
           q == CeilDiv(d, b)
<1>1. p \in Nat /\ p * b < a + b
  BY Ceiling
<1>2. q \in Nat /\ d <= q * b
  BY Ceiling
<1> HIDE DEF p, q
<1>3. p * b < q * b + b
  <2> DEFINE x == p * b
             y == q * b
  <2>1. x \in Nat /\ y \in Nat /\ x < a + b /\ d <= y
    BY <1>1, <1>2
  <2> HIDE DEF x, y
  <2>2. x < y + b
    BY <2>1
  <2> QED BY <2>2 DEF x, y
<1>4. p <= q
  BY <1>1, <1>2, <1>3, Quotient
<1> QED BY <1>4 DEF p, q

LEMMA CeilingExact ==
  ASSUME NEW a \in Nat, NEW b \in Nat \ {0}
  PROVE  a * b \in Nat /\ CeilDiv(a * b, b) = a
<1> DEFINE x == a * b
           c == CeilDiv(x, b)
<1>1. x \in Nat
  OBVIOUS
<1>2. c \in Nat /\ x <= c * b /\ c * b < x + b
  <2> HIDE DEF x
  <2> QED BY <1>1, Ceiling
<1>3. c <= a
  <2> HIDE DEF c
  <2> QED BY <1>2, Quotient
<1>4. a <= c
  <2> HIDE DEF c
  <2>1. a * b < c * b + b
    BY <1>1, <1>2
  <2> QED BY <1>2, <2>1, Quotient
<1>5. c = a
  <2> HIDE DEF c
  <2> QED BY <1>2, <1>3, <1>4
<1> QED BY <1>1, <1>5

LEMMA Greatest ==
  ASSUME NEW a \in Int, NEW b \in Int
  PROVE  MaxOf(a, b) \in {a, b} /\ a <= MaxOf(a, b) /\ b <= MaxOf(a, b)
BY DEF MaxOf

LEMMA Least ==
  ASSUME NEW a \in Int, NEW b \in Int
  PROVE  MinOf(a, b) \in {a, b} /\ MinOf(a, b) <= a /\ MinOf(a, b) <= b
BY DEF MinOf

-----------------------------------------------------------------------------
(* Sequences of records, each with a key of its own. *)

Once(s) == \A i, j \in 1..Len(s) : s[i].key = s[j].key => i = j
KeysOf(s) == {e.key : e \in ToSet(s)}

LEMMA OnceFacts ==
  ASSUME NEW A, NEW s \in Seq(A), Once(s)
  PROVE  /\ \A d, e \in ToSet(s) : d.key = e.key => d = e
         /\ \A i \in 1..Len(s) : s[i] \in ToSet(s) /\ s[i] \in A
<1>1. \A i \in 1..Len(s) : s[i] \in ToSet(s) /\ s[i] \in A
  BY Members
<1>2. ASSUME NEW d \in ToSet(s), NEW e \in ToSet(s), d.key = e.key PROVE d = e
  <2>1. PICK i \in 1..Len(s) : d = s[i]
    BY Members
  <2>2. PICK j \in 1..Len(s) : e = s[j]
    BY Members
  <2>3. i = j
    BY <1>2, <2>1, <2>2 DEF Once
  <2> QED BY <2>1, <2>2, <2>3
<1> QED BY <1>1, <1>2

LEMMA SwapRemoved ==
  ASSUME NEW A, NEW s \in Seq(A), Once(s), NEW pos \in Nat, pos < Len(s)
  PROVE  LET r == SwapRemove(s, pos)
             e == s[pos + 1]
         IN  /\ r \in Seq(A) /\ Once(r) /\ Len(r) = Len(s) - 1
             /\ ToSet(r) = ToSet(s) \ {e}
             /\ KeysOf(r) = KeysOf(s) \ {e.key}
             /\ e \in ToSet(s) /\ e \in A
<1> DEFINE n == Len(s)
           r == SwapRemove(s, pos)
           e == s[pos + 1]
           f == Front(s)
<1>1. n \in Nat /\ pos + 1 \in 1..n /\ n - 1 \in Nat /\ n \in 1..n
  OBVIOUS
<1>2. f \in Seq(A) /\ Len(f) = n - 1 /\ \A i \in 1..(n - 1) : f[i] = s[i]
  <2>1. f = SubSeq(s, 1, n - 1)
    BY DEF Front
  <2> HIDE DEF f
  <2> DEFINE k == n - 1
  <2>2. k \in Nat /\ k <= n /\ k \in (1 - 1)..n /\ 1 \in 1..(n + 1) /\ \A i \in 1..k : s[i] \in A
    BY <1>1
  <2> HIDE DEF k
  <2>3. /\ SubSeq(s, 1, k) \in Seq(A)
        /\ Len(SubSeq(s, 1, k)) = IF 1 <= k THEN k - 1 + 1 ELSE 0
        /\ \A i \in 1..(k - 1 + 1) : SubSeq(s, 1, k)[i] = s[1 + i - 1]
    BY <2>2, SubSeqProperties
  <2>4. k - 1 + 1 = k /\ \A i \in 1..k : 1 + i - 1 = i
    BY <2>2
  <2>5. Len(SubSeq(s, 1, k)) = k /\ \A i \in 1..k : SubSeq(s, 1, k)[i] = s[i]
    BY <2>2, <2>3, <2>4
  <2> QED BY <2>1, <2>3, <2>5 DEF k
<1>3. Last(s) = s[n] /\ s[n] \in A
  BY <1>1 DEF Last
<1>4. r \in Seq(A) /\ Len(r) = n - 1
      /\ \A i \in 1..(n - 1) : r[i] = IF i = pos + 1 THEN s[n] ELSE s[i]
  <2>1. CASE pos + 1 = n
    <3>1. r = f
      BY <2>1 DEF SwapRemove
    <3> QED BY <1>1, <1>2, <2>1, <3>1
  <2>2. CASE pos + 1 # n
    <3>1. r = [f EXCEPT ![pos + 1] = s[n]]
      BY <1>3, <2>2 DEF SwapRemove
    <3> HIDE DEF r, f
    <3>2. pos + 1 \in 1..(n - 1)
      BY <1>1, <2>2
    <3> QED BY <1>1, <1>2, <1>3, <3>1, <3>2
  <2> QED BY <2>1, <2>2
<1> HIDE DEF r, n
<1> DEFINE from(i) == IF i = pos + 1 THEN n ELSE i
<1>5. \A i \in 1..(n - 1) : from(i) \in 1..n /\ from(i) # pos + 1 /\ r[i] = s[from(i)]
  <2> SUFFICES ASSUME NEW i \in 1..(n - 1)
               PROVE  from(i) \in 1..n /\ from(i) # pos + 1 /\ r[i] = s[from(i)]
    OBVIOUS
  <2>1. CASE i = pos + 1
    BY <1>1, <1>4, <2>1
  <2>2. CASE i # pos + 1
    BY <1>1, <1>4, <2>2
  <2> QED BY <2>1, <2>2
<1>6. \A i, j \in 1..(n - 1) : from(i) = from(j) => i = j
  BY <1>1
<1>7. \A j \in 1..n : j # pos + 1 => \E i \in 1..(n - 1) : from(i) = j
  <2> SUFFICES ASSUME NEW j \in 1..n, j # pos + 1 PROVE \E i \in 1..(n - 1) : from(i) = j
    OBVIOUS
  <2>1. CASE j = n
    <3>1. pos + 1 \in 1..(n - 1) /\ from(pos + 1) = j
      BY <1>1, <2>1
    <3> QED BY <3>1
  <2>2. CASE j # n
    <3>1. j \in 1..(n - 1) /\ from(j) = j
      BY <1>1, <2>2
    <3> QED BY <3>1
  <2> QED BY <2>1, <2>2
<1> HIDE DEF from
<1>8. Once(r)
  <2> SUFFICES ASSUME NEW i \in 1..(n - 1), NEW j \in 1..(n - 1), r[i].key = r[j].key
               PROVE  i = j
    BY <1>4 DEF Once
  <2>1. s[from(i)].key = s[from(j)].key
    BY <1>5
  <2>2. from(i) = from(j)
    BY <1>5, <2>1 DEF Once, n
  <2> QED BY <1>6, <2>2
<1>9. e \in ToSet(s) /\ e \in A
  BY <1>1, OnceFacts DEF n
<1>10. ToSet(r) = ToSet(s) \ {e}
  <2>1. ASSUME NEW x \in ToSet(r) PROVE x \in ToSet(s) \ {e}
    <3>1. PICK i \in 1..(n - 1) : x = r[i]
      BY <1>4, Members
    <3>2. x = s[from(i)] /\ from(i) \in 1..n /\ from(i) # pos + 1
      BY <1>5, <3>1
    <3>3. s[from(i)].key # s[pos + 1].key
      BY <1>1, <3>2 DEF Once, n
    <3>4. x \in ToSet(s)
      BY <3>2, Members DEF n
    <3> QED BY <3>2, <3>3, <3>4
  <2>2. ASSUME NEW x \in ToSet(s) \ {e} PROVE x \in ToSet(r)
    <3>1. PICK j \in 1..n : x = s[j]
      BY Members DEF n
    <3>2. j # pos + 1
      BY <2>2, <3>1
    <3>3. PICK i \in 1..(n - 1) : from(i) = j
      BY <1>7, <3>2
    <3> QED BY <1>4, <1>5, <3>1, <3>3, Members
  <2> QED BY <2>1, <2>2
<1> HIDE DEF e
<1>11. KeysOf(r) = KeysOf(s) \ {e.key}
  BY <1>9, <1>10, OnceFacts DEF KeysOf
<1> QED BY <1>4, <1>8, <1>9, <1>10, <1>11 DEF n, r, e

LEMMA AppendedOnce ==
  ASSUME NEW A, NEW s \in Seq(A), Once(s), NEW e \in A, e.key \notin KeysOf(s)
  PROVE  LET r == Append(s, e)
         IN  /\ r \in Seq(A) /\ Once(r) /\ Len(r) = Len(s) + 1
             /\ ToSet(r) = ToSet(s) \cup {e}
             /\ KeysOf(r) = KeysOf(s) \cup {e.key}
<1> DEFINE r == Append(s, e)
<1>1. r \in Seq(A) /\ Len(r) = Len(s) + 1 /\ ToSet(r) = ToSet(s) \cup {e}
  BY Appended
<1>2. \A i \in 1..Len(s) : r[i] = s[i] /\ s[i].key # e.key
  <2>1. \A i \in 1..Len(s) : s[i] \in ToSet(s)
    BY Members
  <2>2. \A i \in 1..Len(s) : s[i].key # e.key
    BY <2>1 DEF KeysOf
  <2> QED BY <2>2
<1>3. r[Len(s) + 1] = e /\ Len(s) \in Nat
  OBVIOUS
<1> HIDE DEF r
<1>4. Once(r)
  <2> SUFFICES ASSUME NEW i \in 1..(Len(s) + 1), NEW j \in 1..(Len(s) + 1), r[i].key = r[j].key
               PROVE  i = j
    BY <1>1 DEF Once
  <2>1. i \in 1..Len(s) \/ i = Len(s) + 1
    BY <1>3
  <2>2. j \in 1..Len(s) \/ j = Len(s) + 1
    BY <1>3
  <2>3. CASE i \in 1..Len(s) /\ j \in 1..Len(s)
    BY <1>2, <2>3 DEF Once
  <2>4. CASE i \in 1..Len(s) /\ j = Len(s) + 1
    BY <1>2, <1>3, <2>4
  <2>5. CASE i = Len(s) + 1 /\ j \in 1..Len(s)
    BY <1>2, <1>3, <2>5
  <2> QED BY <2>1, <2>2, <2>3, <2>4, <2>5
<1>5. KeysOf(r) = KeysOf(s) \cup {e.key}
  BY <1>1 DEF KeysOf
<1> QED BY <1>1, <1>4, <1>5 DEF r

Replaced(r, s, n, e) == r = [s EXCEPT ![n] = e]

LEMMA ReplacedOnce ==
  ASSUME NEW A, NEW s \in Seq(A), Once(s), NEW n \in 1..Len(s), NEW e \in A, e.key = s[n].key,
         NEW r, Replaced(r, s, n, e)
  PROVE  /\ r \in Seq(A) /\ Once(r) /\ Len(r) = Len(s)
         /\ ToSet(r) = (ToSet(s) \ {s[n]}) \cup {e}
         /\ KeysOf(r) = KeysOf(s)
         /\ \A i \in 1..Len(s) : r[i] = IF i = n THEN e ELSE s[i]
<1>1. r \in Seq(A) /\ Len(r) = Len(s) /\ \A i \in 1..Len(s) : r[i] = IF i = n THEN e ELSE s[i]
  BY DEF Replaced
<1>2. \A i \in 1..Len(s) : r[i].key = s[i].key
  BY <1>1
<1>3. Once(r)
  BY <1>1, <1>2 DEF Once
<1>4. ToSet(r) = (ToSet(s) \ {s[n]}) \cup {e}
  <2>1. ASSUME NEW x \in ToSet(r) PROVE x \in (ToSet(s) \ {s[n]}) \cup {e}
    <3>1. PICK i \in 1..Len(s) : x = r[i]
      BY <1>1, Members
    <3>2. CASE i = n
      BY <1>1, <3>1, <3>2
    <3>3. CASE i # n
      <4>1. x = s[i] /\ s[i].key # s[n].key
        BY <1>1, <3>1, <3>3 DEF Once
      <4>2. x \in ToSet(s)
        BY <4>1, Members
      <4> QED BY <4>1, <4>2
    <3> QED BY <3>2, <3>3
  <2>2. ASSUME NEW x \in ToSet(s), x # s[n] PROVE x \in ToSet(r)
    <3>1. PICK i \in 1..Len(s) : x = s[i]
      BY Members
    <3>2. x = r[i]
      BY <1>1, <2>2, <3>1
    <3> QED BY <1>1, <3>2, Members
  <2>3. e \in ToSet(r)
    <3>1. e = r[n]
      BY <1>1
    <3> QED BY <1>1, <3>1, Members
  <2> QED BY <2>1, <2>2, <2>3
<1>5. KeysOf(r) = KeysOf(s)
  <2>1. KeysOf(r) = {r[i].key : i \in 1..Len(s)}
    BY <1>1, Members DEF KeysOf
  <2>2. KeysOf(s) = {s[i].key : i \in 1..Len(s)}
    BY Members DEF KeysOf
  <2> QED BY <1>2, <2>1, <2>2
<1> QED BY <1>1, <1>3, <1>4, <1>5

(* Where a key is. *)
LEMMA Located ==
  ASSUME NEW A, NEW s \in Seq(A), NEW k \in KeysOf(s), NEW n,
         n = CHOOSE i \in DOMAIN s : s[i].key = k
  PROVE  n \in 1..Len(s) /\ s[n].key = k /\ s[n] \in ToSet(s) /\ s[n] \in A
<1>1. DOMAIN s = 1..Len(s)
  OBVIOUS
<1>2. PICK e \in ToSet(s) : e.key = k
  BY DEF KeysOf
<1>3. PICK j \in 1..Len(s) : e = s[j]
  BY Members
<1>4. \E i \in DOMAIN s : s[i].key = k
  BY <1>1, <1>2, <1>3
<1>5. n \in DOMAIN s /\ s[n].key = k
  BY <1>4, Zenon
<1> QED BY <1>1, <1>5, Members

LEMMA KeyCount ==
  ASSUME NEW A, NEW s \in Seq(A), Once(s)
  PROVE  Cardinality(KeysOf(s)) = Len(s)
<1> DEFINE f == [i \in 1..Len(s) |-> s[i].key]
<1>1. Len(s) \in Nat
  OBVIOUS
<1>2. KeysOf(s) = {s[i].key : i \in 1..Len(s)}
  BY Members DEF KeysOf
<1>3. f \in Injection(1..Len(s), KeysOf(s))
  <2>1. f \in [1..Len(s) -> KeysOf(s)]
    BY <1>2
  <2>2. \A i, j \in 1..Len(s) : f[i] = f[j] => i = j
    BY DEF Once
  <2> HIDE DEF f
  <2> QED BY <2>1, <2>2 DEF Injection, IsInjective
<1>4. f \in Surjection(1..Len(s), KeysOf(s))
  <2>1. f \in [1..Len(s) -> KeysOf(s)]
    BY <1>2
  <2>2. \A k \in KeysOf(s) : \E i \in 1..Len(s) : f[i] = k
    BY <1>2
  <2> HIDE DEF f
  <2> QED BY <2>1, <2>2 DEF Surjection
<1>5. ExistsBijection(1..Len(s), KeysOf(s))
  BY <1>3, <1>4 DEF ExistsBijection, Bijection
<1>6. IsFiniteSet(1..Len(s)) /\ Cardinality(1..Len(s)) = Len(s)
  <2>1. IsFiniteSet(1..Len(s)) /\ Cardinality(1..Len(s)) = IF 1 > Len(s) THEN 0 ELSE Len(s) - 1 + 1
    BY <1>1, FS_Interval
  <2> QED BY <1>1, <2>1
<1>7. Cardinality(KeysOf(s)) = Cardinality(1..Len(s))
  BY <1>5, <1>6, FS_Bijection
<1> QED BY <1>6, <1>7

-----------------------------------------------------------------------------
(* A step repeated. *)

Iterates(g, S, x, f, n) ==
  g \in [0..n -> S] /\ g[0] = x /\ \A i \in 1..n : g[i] = f[g[i - 1]]

LEMMA Repeated ==
  ASSUME NEW S, NEW x \in S, NEW f \in [S -> S], NEW n \in Nat
  PROVE  \E g : Iterates(g, S, x, f, n)
<1> USE DEF Iterates
<1> DEFINE P(g, m) == g \in [0..m -> S] /\ g[0] = x /\ \A i \in 1..m : g[i] = f[g[i - 1]]
           bad == {m \in 0..n : ~\E g : P(g, m)}
<1>1. SUFFICES bad = {}
  <2>1. n \in 0..n
    OBVIOUS
  <2>2. \E g : P(g, n)
    BY <1>1, <2>1
  <2> QED BY <2>2
<1>2. SUFFICES ASSUME bad # {} PROVE FALSE
  OBVIOUS
<1>3. PICK m \in bad : \A i \in bad : m <= i
  <2>1. bad \subseteq Nat
    OBVIOUS
  <2> HIDE DEF bad
  <2> QED BY <1>2, <2>1, LeastNumber
<1>4. m \in 0..n /\ ~\E g : P(g, m)
  OBVIOUS
<1>5. CASE m = 0
  <2> DEFINE g == [i \in 0..0 |-> x]
  <2>1. P(g, 0)
    OBVIOUS
  <2> QED BY <1>4, <1>5, <2>1
<1>6. CASE m # 0
  <2>1. m - 1 \in 0..n /\ m - 1 \notin bad
    <3>1. m - 1 \in 0..n /\ ~(m <= m - 1)
      BY <1>4, <1>6
    <3> HIDE DEF bad
    <3> QED BY <1>3, <3>1
  <2>2. PICK g : P(g, m - 1)
    BY <2>1
  <2>3. m - 1 \in 0..(m - 1) /\ m \in Nat /\ m - 1 \in Nat
    BY <1>4, <1>6
  <2>4. g[m - 1] \in S
    BY <2>2, <2>3
  <2> DEFINE h == [i \in 0..m |-> IF i = m THEN f[g[m - 1]] ELSE g[i]]
  <2>5. \A i \in 0..m : i # m => i \in 0..(m - 1)
    BY <2>3
  <2>6. h \in [0..m -> S]
    <3>1. f[g[m - 1]] \in S
      BY <2>4
    <3>2. \A i \in 0..m : i # m => g[i] \in S
      BY <2>2, <2>5
    <3> QED BY <3>1, <3>2
  <2>7. h[0] = x
    BY <1>6, <2>2, <2>3
  <2>8. ASSUME NEW i \in 1..m PROVE h[i] = f[h[i - 1]]
    <3>1. i \in 0..m /\ i - 1 \in 0..m /\ i - 1 # m
      BY <2>3
    <3>2. h[i - 1] = g[i - 1]
      BY <3>1
    <3>3. CASE i = m
      BY <3>1, <3>2, <3>3
    <3>4. CASE i # m
      <4>1. i \in 1..(m - 1)
        BY <2>3, <3>4
      <4>2. h[i] = g[i] /\ g[i] = f[g[i - 1]]
        BY <2>2, <3>1, <3>4, <4>1
      <4> QED BY <3>2, <4>2
    <3> QED BY <3>3, <3>4
  <2>9. P(h, m)
    <3> HIDE DEF h
    <3> QED BY <2>6, <2>7, <2>8
  <2> QED BY <1>4, <2>9
<1> QED BY <1>5, <1>6

(* What each step keeps is kept. *)
LEMMA RepeatedKeeps ==
  ASSUME NEW S, NEW n \in Nat, NEW r, r[0] \in S,
         \A i \in 1..n : r[i - 1] \in S => r[i] \in S
  PROVE  r[n] \in S
<1> DEFINE bad == {m \in 0..n : r[m] \notin S}
<1>1. SUFFICES bad = {}
  <2>1. n \in 0..n
    OBVIOUS
  <2> QED BY <1>1, <2>1
<1>2. SUFFICES ASSUME bad # {} PROVE FALSE
  OBVIOUS
<1>3. PICK m \in bad : \A i \in bad : m <= i
  <2>1. bad \subseteq Nat
    OBVIOUS
  <2> HIDE DEF bad
  <2> QED BY <1>2, <2>1, LeastNumber
<1>4. m \in 0..n /\ r[m] \notin S
  OBVIOUS
<1>5. m # 0 /\ m \in 1..n
  BY <1>4
<1>6. m - 1 \in 0..n /\ ~(m <= m - 1)
  BY <1>5
<1>7. m - 1 \notin bad
  <2> HIDE DEF bad
  <2> QED BY <1>3, <1>6
<1>8. r[m - 1] \in S
  BY <1>6, <1>7
<1> QED BY <1>4, <1>5, <1>8

-----------------------------------------------------------------------------
(* The configuration a builder assembles. *)

ConfSet == [cap : Nat, initial : Nat, per : Nat \ {0}, keys : 1..MaxSlots, ttl : Nat \cup {None},
            idle : Nat, forget : BOOLEAN, until : Nat]

ConfSound(c) ==
  /\ c \in ConfSet
  /\ c.initial <= c.cap
  /\ c.ttl # None => c.ttl = CeilDiv(c.idle, Ms) + 1

LEMMA Clamped ==
  ASSUME NEW x \in Int, NEW lo \in Int, NEW hi \in Int, lo <= hi
  PROVE  Clamp(x, lo, hi) \in lo..hi
BY DEF Clamp, MaxOf, MinOf

LEMMA ShardCountType ==
  ASSUME NEW s \in Setups
  PROVE  ShardCount(s) \in Nat \ {0}
<1> DEFINE forCap == IF s.max = None THEN 1 ELSE CeilDiv(s.max, MaxKeysPerShard)
           n == Clamp(MaxOf(s.shards, forCap), 1, MaxShards)
           P == {p \in Powers : p >= n}
<1>1. MaxShards \in Powers /\ MaxKeysPerShard \in Nat \ {0}
      /\ s.shards \in Nat /\ s.max \in Nat \cup {None}
  BY KeyStoreAssumption
<1>2. Powers \subseteq Nat \ {0} /\ MaxShards \in Int /\ 1 <= MaxShards
  BY <1>1 DEF Powers
<1>3. forCap \in Nat
  <2>1. CASE s.max = None
    BY <2>1
  <2>2. CASE s.max # None
    <3>1. s.max \in Nat
      BY <1>1, <2>2
    <3>2. CeilDiv(s.max, MaxKeysPerShard) \in Nat
      BY <1>1, <3>1, Ceiling
    <3> QED BY <2>2, <3>2
  <2> QED BY <2>1, <2>2
<1>4. n \in 1..MaxShards
  <2> HIDE DEF forCap
  <2> DEFINE x == MaxOf(s.shards, forCap)
  <2>1. x \in Int
    BY <1>1, <1>3 DEF MaxOf
  <2> HIDE DEF x
  <2>2. Clamp(x, 1, MaxShards) \in 1..MaxShards
    BY <1>2, <2>1, Clamped
  <2> QED BY <2>2 DEF x
<1> HIDE DEF n
<1>5. MaxShards \in P
  BY <1>1, <1>2, <1>4
<1>6. P \subseteq Nat \ {0} /\ P \subseteq Nat
  BY <1>2
<1>7. ShardCount(s) = Min(P)
  BY DEF ShardCount, NextPowerOfTwo, n
<1>8. Min(P) = CHOOSE x \in P : \A y \in P : x <= y
  BY DEF Min
<1>9. Min(P) \in P
  <2> HIDE DEF P
  <2> QED BY <1>5, <1>6, <1>8, MinMember
<1> QED BY <1>6, <1>7, <1>9

LEMMA AssembleSound ==
  ASSUME NEW s \in Setups
  PROVE  ConfSound(Assemble(s))
<1> DEFINE c == Config(s)
           full == TimeToFull(c)
           a == Assemble(s)
<1>1. /\ s.amount \in Nat /\ s.burst \in Nat \cup {None} /\ s.initial \in Nat \cup {None}
      /\ s.max \in Nat \cup {None} /\ s.ttl \in Nat \cup {None} /\ s.forget \in BOOLEAN
      /\ s.until \in Nat
  BY KeyStoreAssumption
<1>2. Period \in Nat /\ Ms \in Nat \ {0} /\ MaxSlots \in Nat \ {0}
      /\ (s.amount > 0 => Period % s.amount = 0)
  BY KeyStoreAssumption
<1>3. c.cap \in Nat /\ c.initial \in Nat /\ c.initial <= c.cap
  <2>1. c.cap \in Nat
    BY <1>1 DEF Config, None
  <2>2. c.initial = IF s.initial = None THEN c.cap ELSE MinOf(s.initial, c.cap)
    BY DEF Config
  <2> HIDE DEF c
  <2> QED BY <1>1, <2>1, <2>2 DEF MinOf, None
<1>4. c.per \in Nat \ {0}
  <2>1. CASE c.cap = 0
    BY <2>1 DEF Config
  <2>2. CASE c.cap # 0
    <3>1. s.amount \in Nat \ {0} /\ Period \in Nat \ {0} /\ c.per = Period \div s.amount
      BY <1>1, <1>2, <2>2 DEF Config
    <3>2. Period \div s.amount \in Nat /\ Period = s.amount * (Period \div s.amount)
      BY <1>2, <3>1
    <3>3. Period \div s.amount # 0
      BY <3>1, <3>2
    <3> QED BY <3>1, <3>2, <3>3
  <2> QED BY <2>1, <2>2
<1>5. full \in Nat
  <2> HIDE DEF c
  <2>1. c.cap * c.per \in Nat
    BY <1>3, <1>4
  <2> QED BY <2>1 DEF TimeToFull
<1> DEFINE idle == MaxOf(s.ttl, full)
           keys == PerShardCap(s)
           ttl == IdleTtl(s, c)
<1>6. idle \in Nat
  <2> HIDE DEF full
  <2> QED BY <1>1, <1>5 DEF MaxOf, None
<1>7. keys \in 1..MaxSlots
  <2>1. CASE s.max = None
    BY <1>2, <2>1 DEF PerShardCap
  <2>2. CASE s.max # None
    <3>1. s.max \in Nat /\ ShardCount(s) \in Nat \ {0}
      BY <1>1, <2>2, ShardCountType
    <3> DEFINE x == CeilDiv(s.max, ShardCount(s))
    <3>2. x \in Nat
      BY <3>1, Ceiling
    <3> HIDE DEF x
    <3>3. Clamp(x, 1, MaxSlots) \in 1..MaxSlots
      BY <1>2, <3>2, Clamped
    <3> QED BY <2>2, <3>3 DEF PerShardCap, x
  <2> QED BY <2>1, <2>2
<1>8. ttl \in Nat \cup {None} /\ (ttl # None => ttl = CeilDiv(idle, Ms) + 1)
  <2>1. CeilDiv(idle, Ms) \in Nat
    <3> HIDE DEF idle
    <3> QED BY <1>2, <1>6, Ceiling
  <2>2. ttl = IF s.ttl = None THEN None ELSE CeilDiv(idle, Ms) + 1
    BY DEF IdleTtl
  <2> HIDE DEF ttl, idle
  <2> QED BY <2>1, <2>2
<1>9. a = [cap |-> c.cap, initial |-> c.initial, per |-> c.per, keys |-> keys,
           ttl |-> ttl, idle |-> idle, forget |-> s.forget, until |-> s.until]
  BY Zenon DEF Assemble
<1> HIDE DEF a, c, idle, keys, ttl
<1>10. a \in ConfSet
  BY <1>1, <1>3, <1>4, <1>6, <1>7, <1>8, <1>9 DEF ConfSet
<1>11. a.initial = c.initial /\ a.cap = c.cap /\ a.ttl = ttl /\ a.idle = idle
  BY <1>9
<1>12. a.initial <= a.cap
  BY <1>3, <1>11
<1>13. a.ttl # None => a.ttl = CeilDiv(a.idle, Ms) + 1
  BY <1>8, <1>11
<1>14. ConfSound(a)
  BY <1>10, <1>12, <1>13, Zenon DEF ConfSound
<1> QED BY <1>14 DEF a

-----------------------------------------------------------------------------
(* The bucket: a fuller one is not made emptier than another by the same   *)
(* operation.                                                              *)

LEMMA Fields ==
  ASSUME ConfSound(conf)
  PROVE  /\ conf.cap \in Nat /\ conf.initial \in Nat /\ conf.per \in Nat \ {0}
         /\ conf.keys \in Nat \ {0} /\ conf.keys <= MaxSlots /\ MaxSlots \in Nat
         /\ conf.ttl \in Nat \cup {None} /\ conf.idle \in Nat /\ conf.forget \in BOOLEAN
         /\ conf.until \in Nat /\ conf.initial <= conf.cap
         /\ Ms \in Nat \ {0}
         /\ conf.ttl # None => conf.ttl = CeilDiv(conf.idle, Ms) + 1
<1>1. MaxSlots \in Nat \ {0} /\ Ms \in Nat \ {0}
  BY KeyStoreAssumption
<1>2. conf \in ConfSet
  BY DEF ConfSound
<1>3. /\ conf.cap \in Nat /\ conf.initial \in Nat /\ conf.per \in Nat \ {0}
      /\ conf.keys \in 1..MaxSlots /\ conf.ttl \in Nat \cup {None} /\ conf.idle \in Nat
      /\ conf.forget \in BOOLEAN /\ conf.until \in Nat
  BY <1>2 DEF ConfSet
<1>4. conf.initial <= conf.cap /\ (conf.ttl # None => conf.ttl = CeilDiv(conf.idle, Ms) + 1)
  BY DEF ConfSound
<1>5. conf.keys \in Nat \ {0} /\ conf.keys <= MaxSlots
  BY <1>1, <1>3
<1> QED BY <1>1, <1>3, <1>4, <1>5

LEMMA StalenessType ==
  Staleness \in Nat
BY KeyStoreAssumption DEF Staleness

LEMMA MissingMono ==
  ASSUME ConfSound(conf), NEW a \in Nat, NEW b \in Nat, NEW at \in Nat, a <= b
  PROVE  /\ Missing(a, at) \in Nat /\ Missing(b, at) \in Nat
         /\ Missing(a, at) <= Missing(b, at)
         /\ a <= at => Missing(a, at) = 0
<1> DEFINE x == MaxOf(a - at, 0)
           y == MaxOf(b - at, 0)
<1>1. x \in Nat /\ y \in Nat /\ x <= y /\ (a <= at => x = 0)
  BY DEF MaxOf
<1>2. Missing(a, at) = CeilDiv(x, conf.per) /\ Missing(b, at) = CeilDiv(y, conf.per)
  BY DEF Missing
<1> HIDE DEF x, y
<1>3. conf.per \in Nat \ {0}
  BY Fields
<1>4. /\ CeilDiv(x, conf.per) \in Nat /\ CeilDiv(y, conf.per) \in Nat
      /\ x = 0 => CeilDiv(x, conf.per) = 0
  BY <1>1, <1>3, Ceiling
<1>5. CeilDiv(x, conf.per) <= CeilDiv(y, conf.per)
  BY <1>1, <1>3, CeilingMono
<1> QED BY <1>1, <1>2, <1>4, <1>5

LEMMA SpentMono ==
  ASSUME ConfSound(conf), NEW a \in Nat, NEW b \in Nat, a <= b, NEW full, NEW at \in Nat,
         NEW cost \in Nat, NEW budget
  PROVE  /\ Spent(a, full, at, cost, budget) \in Nat
         /\ Spent(b, full, at, cost, budget) \in Nat
         /\ Spent(a, full, at, cost, budget) <= Spent(b, full, at, cost, budget)
<1> DEFINE d == cost * conf.per
<1>1. d \in Nat
  BY Fields
<1>2. /\ Spent(a, full, at, cost, budget) =
           IF Wait(full, at, cost) <= budget THEN MaxOf(a, at) + d ELSE a
      /\ Spent(b, full, at, cost, budget) =
           IF Wait(full, at, cost) <= budget THEN MaxOf(b, at) + d ELSE b
  BY DEF Spent
<1>3. MaxOf(a, at) \in Nat /\ MaxOf(b, at) \in Nat /\ MaxOf(a, at) <= MaxOf(b, at)
  BY DEF MaxOf
<1> HIDE DEF d
<1>4. CASE Wait(full, at, cost) <= budget
  BY <1>1, <1>2, <1>3, <1>4
<1>5. CASE ~(Wait(full, at, cost) <= budget)
  BY <1>2, <1>5
<1> QED BY <1>4, <1>5

LEMMA RefundedMono ==
  ASSUME ConfSound(conf), NEW a \in Nat, NEW b \in Nat, a <= b, NEW cost \in Nat
  PROVE  /\ Refunded(a, cost) \in Nat /\ Refunded(b, cost) \in Nat
         /\ Refunded(a, cost) <= Refunded(b, cost)
<1> DEFINE d == cost * conf.per
<1>1. d \in Nat
  BY Fields
<1>2. Refunded(a, cost) = MaxOf(a - d, 0) /\ Refunded(b, cost) = MaxOf(b - d, 0)
  BY DEF Refunded
<1> HIDE DEF d
<1> QED BY <1>1, <1>2 DEF MaxOf

LEMMA FreshFull ==
  ASSUME ConfSound(conf), NEW at \in Nat
  PROVE  Fresh(at) \in Nat /\ at <= Fresh(at)
<1> DEFINE d == (conf.cap - conf.initial) * conf.per
<1>1. conf.cap - conf.initial \in Nat /\ conf.per \in Nat
  BY Fields
<1>2. d \in Nat
  <2> DEFINE n == conf.cap - conf.initial
  <2> HIDE DEF n
  <2>1. n * conf.per \in Nat
    BY <1>1 DEF n
  <2> QED BY <2>1 DEF n
<1>3. Fresh(at) = at + d
  BY DEF Fresh
<1> HIDE DEF d
<1> QED BY <1>2, <1>3

(* A key comes back owing at least what it left owing. *)
LEMMA RestoredFull ==
  ASSUME ConfSound(conf), NEW at \in Nat, NEW settles \in Nat
  PROVE  /\ Restored(at, settles) \in Nat /\ at <= Restored(at, settles)
         /\ settles <= Restored(at, settles)
<1> DEFINE x == MaxOf(settles - at, 0)
           q == CeilDiv(x, conf.per)
           n == conf.cap - conf.initial
           u == MaxOf(n, q)
           d == u * conf.per
<1>1. x \in Nat /\ settles <= at + x
  BY DEF MaxOf
<1>2. n \in Nat /\ conf.per \in Nat \ {0}
  BY Fields
<1>3. q \in Nat /\ x <= q * conf.per
  <2> HIDE DEF x
  <2> QED BY <1>1, <1>2, Ceiling
<1>4. Restored(at, settles) = at + d
  BY DEF Restored, Missing
<1>5. u \in Nat /\ q <= u
  <2> HIDE DEF q, n
  <2> QED BY <1>2, <1>3 DEF MaxOf
<1>6. d \in Nat /\ q * conf.per <= d /\ q * conf.per \in Nat
  <2> HIDE DEF u, q
  <2> QED BY <1>2, <1>3, <1>5, Scaled
<1> DEFINE p == q * conf.per
<1>7. p \in Nat /\ p <= d /\ x <= p
  BY <1>3, <1>6
<1> HIDE DEF d, x, p
<1> QED BY <1>1, <1>4, <1>6, <1>7

-----------------------------------------------------------------------------
(* The shard. *)

Slots == [key : Keys, full : Nat, ref : BOOLEAN, seen : Nat, last : Nat]
Debts == [key : Keys, at : Nat]
Maps == [slots : Seq(Slots), hand : Nat, sweep : Nat, debts : Seq(Debts), cursor : Nat]

(* The stamp a of a key last used with the reading l: the stamps of two    *)
(* readers may be stored in either order, so it is behind by no more than  *)
(* the rounding and the age of a reading.                                  *)
Near(a, l) == l <= clock /\ l < a * Ms + Ms + Staleness

(* What the entries S and the debts D say of the history g of the keys: a  *)
(* key that has an entry or a debt is at least as far from full as it      *)
(* would be, and one that has neither was full by the reading w.           *)
Cover(S, D, c, g, w) ==
  /\ \A e \in S : g[e.key] <= e.full
  /\ \A d \in D : g[d.key] <= d.at
  /\ \A e \in S : \A d \in D : e.key # d.key
  /\ \A k \in Keys : (\A e \in S : e.key # k) /\ (\A d \in D : d.key # k) => g[k] <= w
  /\ c.ttl # None => \A e \in S : Near(e.seen, e.last)

(* A sequence with one place per key, within the cap. *)
Tidy(c, s) == Once(s) /\ Len(s) <= c.keys

MapGood(c, m, g, w) ==
  /\ m \in Maps
  /\ Tidy(c, m.slots) /\ Tidy(c, m.debts)
  /\ m.hand <= c.keys /\ m.sweep <= c.keys /\ m.cursor <= c.keys
  /\ Cover(ToSet(m.slots), ToSet(m.debts), c, g, w)

LEMMA CoverLower ==
  ASSUME NEW S \in SUBSET Slots, NEW D \in SUBSET Debts, NEW c, NEW g \in [Keys -> Nat],
         NEW w \in Nat, Cover(S, D, c, g, w),
         NEW h \in [Keys -> Nat], NEW v \in Nat, w <= v, \A k \in Keys : h[k] <= g[k]
  PROVE  Cover(S, D, c, h, v)
<1>1. \A e \in S : e.key \in Keys /\ e.full \in Nat
  BY DEF Slots
<1>2. \A d \in D : d.key \in Keys /\ d.at \in Nat
  BY DEF Debts
<1>3. \A e \in S : h[e.key] <= e.full
  BY <1>1 DEF Cover
<1>4. \A d \in D : h[d.key] <= d.at
  BY <1>2 DEF Cover
<1>5. \A k \in Keys : g[k] <= w => h[k] <= v
  OBVIOUS
<1>6. \A k \in Keys : (\A e \in S : e.key # k) /\ (\A d \in D : d.key # k) => h[k] <= v
  BY <1>5, Zenon DEF Cover
<1> QED BY <1>3, <1>4, <1>6, Zenon DEF Cover

LEMMA CoverDropSlot ==
  ASSUME NEW S \in SUBSET Slots, NEW D \in SUBSET Debts, NEW c, NEW g \in [Keys -> Nat],
         NEW w \in Nat, Cover(S, D, c, g, w), NEW e \in S,
         e.full <= w \/ g[e.key] <= w
  PROVE  Cover(S \ {e}, D, c, g, w)
<1>1. g[e.key] <= w
  <2>1. e.key \in Keys /\ e.full \in Nat /\ g[e.key] <= e.full
    BY DEF Slots, Cover
  <2> QED BY <2>1
<1>2. \A k \in Keys : (\A x \in S \ {e} : x.key # k) /\ (\A d \in D : d.key # k) => g[k] <= w
  BY <1>1 DEF Cover
<1> QED BY <1>2, Zenon DEF Cover

LEMMA CoverDropDebt ==
  ASSUME NEW S \in SUBSET Slots, NEW D \in SUBSET Debts, NEW c, NEW g \in [Keys -> Nat],
         NEW w \in Nat, Cover(S, D, c, g, w), NEW d \in D,
         d.at <= w \/ g[d.key] <= w
  PROVE  Cover(S, D \ {d}, c, g, w)
<1>1. g[d.key] <= w
  <2>1. d.key \in Keys /\ d.at \in Nat /\ g[d.key] <= d.at
    BY DEF Debts, Cover
  <2> QED BY <2>1
<1>2. \A k \in Keys : (\A x \in S : x.key # k) /\ (\A x \in D \ {d} : x.key # k) => g[k] <= w
  BY <1>1 DEF Cover
<1> QED BY <1>2, Zenon DEF Cover

(* An entry gives way to a debt that is no smaller. *)
LEMMA CoverMove ==
  ASSUME NEW S \in SUBSET Slots, NEW D \in SUBSET Debts, NEW c, NEW g \in [Keys -> Nat],
         NEW w \in Nat, Cover(S, D, c, g, w), NEW e \in S,
         \A x \in S : x.key = e.key => x = e,
         NEW d \in Debts, d.key = e.key, e.full <= d.at
  PROVE  Cover(S \ {e}, D \cup {d}, c, g, w)
<1>1. g[d.key] <= d.at
  <2>1. e.key \in Keys /\ e.full \in Nat /\ g[e.key] <= e.full /\ d.at \in Nat
    BY DEF Slots, Debts, Cover
  <2> QED BY <2>1
<1>2. \A x \in S \ {e} : x.key # d.key
  OBVIOUS
<1>3. \A k \in Keys : (\A x \in S \ {e} : x.key # k) /\ (\A x \in D \cup {d} : x.key # k)
                        => g[k] <= w
  BY DEF Cover
<1>4. \A x \in D \cup {d} : g[x.key] <= x.at
  BY <1>1 DEF Cover
<1>5. \A x \in S \ {e} : \A y \in D \cup {d} : x.key # y.key
  BY <1>2 DEF Cover
<1> QED BY <1>3, <1>4, <1>5, Zenon DEF Cover

(* A key that has neither enters. *)
LEMMA CoverAdd ==
  ASSUME NEW S \in SUBSET Slots, NEW D \in SUBSET Debts, NEW c, NEW g \in [Keys -> Nat],
         NEW w \in Nat, Cover(S, D, c, g, w), NEW e \in Slots,
         \A x \in S : x.key # e.key, \A d \in D : d.key # e.key,
         NEW h \in [Keys -> Nat], \A k \in Keys : k # e.key => h[k] <= g[k],
         h[e.key] <= e.full, c.ttl # None => Near(e.seen, e.last)
  PROVE  Cover(S \cup {e}, D, c, h, w)
<1>1. \A x \in S : h[x.key] <= x.full
  <2> SUFFICES ASSUME NEW x \in S PROVE h[x.key] <= x.full
    OBVIOUS
  <2>1. x.key \in Keys /\ x.full \in Nat
    BY DEF Slots
  <2>2. g[x.key] <= x.full /\ h[x.key] <= g[x.key]
    BY <2>1 DEF Cover
  <2> QED BY <2>1, <2>2
<1>2. \A x \in D : h[x.key] <= x.at
  <2> SUFFICES ASSUME NEW x \in D PROVE h[x.key] <= x.at
    OBVIOUS
  <2>1. x.key \in Keys /\ x.at \in Nat
    BY DEF Debts
  <2>2. g[x.key] <= x.at /\ h[x.key] <= g[x.key]
    BY <2>1 DEF Cover
  <2> QED BY <2>1, <2>2
<1>3. \A x \in S \cup {e} : h[x.key] <= x.full
  BY <1>1
<1>4. \A x \in S \cup {e} : \A d \in D : x.key # d.key
  BY DEF Cover
<1>5. \A k \in Keys : (\A x \in S \cup {e} : x.key # k) /\ (\A d \in D : d.key # k) => h[k] <= w
  <2> SUFFICES ASSUME NEW k \in Keys, \A x \in S \cup {e} : x.key # k, \A d \in D : d.key # k
               PROVE  h[k] <= w
    OBVIOUS
  <2>1. g[k] <= w /\ h[k] <= g[k]
    BY DEF Cover
  <2> QED BY <2>1
<1>6. c.ttl # None => \A x \in S \cup {e} : Near(x.seen, x.last)
  BY DEF Cover
<1> QED BY <1>2, <1>3, <1>4, <1>5, <1>6, Zenon DEF Cover

(* One key's history, entry or debt changes. *)
LEMMA CoverEdit ==
  ASSUME NEW S \in SUBSET Slots, NEW D \in SUBSET Debts, NEW c, NEW g \in [Keys -> Nat],
         NEW w \in Nat, Cover(S, D, c, g, w), NEW e \in S, NEW f \in Slots, f.key = e.key,
         \A x \in S : x.key = e.key => x = e,
         NEW h \in [Keys -> Nat], \A k \in Keys : k # e.key => h[k] = g[k],
         h[e.key] <= f.full, c.ttl # None => Near(f.seen, f.last)
  PROVE  Cover((S \ {e}) \cup {f}, D, c, h, w)
<1> DEFINE T == (S \ {e}) \cup {f}
<1>0. \A x \in S : x.key \in Keys
  BY DEF Slots
<1>1. \A x \in T : h[x.key] <= x.full
  BY <1>0 DEF Cover
<1>2. \A d \in D : d.key \in Keys /\ d.key # e.key
  BY DEF Cover, Debts
<1>3. \A d \in D : h[d.key] <= d.at
  BY <1>2 DEF Cover
<1>4. \A x \in T : \A d \in D : x.key # d.key
  BY <1>2 DEF Cover
<1>5. \A k \in Keys : (\A x \in T : x.key # k) /\ (\A d \in D : d.key # k) => h[k] <= w
  BY DEF Cover
<1>6. c.ttl # None => \A x \in T : Near(x.seen, x.last)
  BY DEF Cover
<1> HIDE DEF T
<1>7. Cover(T, D, c, h, w)
  BY <1>1, <1>3, <1>4, <1>5, <1>6, Zenon DEF Cover
<1> QED BY <1>7 DEF T

LEMMA CoverEditDebt ==
  ASSUME NEW S \in SUBSET Slots, NEW D \in SUBSET Debts, NEW c, NEW g \in [Keys -> Nat],
         NEW w \in Nat, Cover(S, D, c, g, w), NEW e \in D, NEW f \in Debts, f.key = e.key,
         \A x \in D : x.key = e.key => x = e,
         NEW h \in [Keys -> Nat], \A k \in Keys : k # e.key => h[k] = g[k],
         h[e.key] <= f.at
  PROVE  Cover(S, (D \ {e}) \cup {f}, c, h, w)
<1> DEFINE T == (D \ {e}) \cup {f}
<1>0. \A x \in D : x.key \in Keys
  BY DEF Debts
<1>1. \A x \in T : h[x.key] <= x.at
  BY <1>0 DEF Cover
<1>2. \A d \in S : d.key \in Keys /\ d.key # e.key
  BY DEF Cover, Slots
<1>3. \A d \in S : h[d.key] <= d.full
  BY <1>2 DEF Cover
<1>4. \A x \in S : \A d \in T : x.key # d.key
  BY <1>2 DEF Cover
<1>5. \A k \in Keys : (\A x \in S : x.key # k) /\ (\A d \in T : d.key # k) => h[k] <= w
  BY DEF Cover
<1>6. c.ttl # None => \A x \in S : Near(x.seen, x.last)
  BY DEF Cover
<1> HIDE DEF T
<1>7. Cover(S, T, c, h, w)
  BY <1>1, <1>3, <1>4, <1>5, <1>6, Zenon DEF Cover
<1> QED BY <1>7 DEF T

-----------------------------------------------------------------------------
(* The map as a record. *)

LEMMA MapParts ==
  ASSUME NEW m \in Maps
  PROVE  /\ m.slots \in Seq(Slots) /\ m.debts \in Seq(Debts)
         /\ m.hand \in Nat /\ m.sweep \in Nat /\ m.cursor \in Nat
         /\ Len(m.slots) \in Nat /\ Len(m.debts) \in Nat
         /\ ToSet(m.slots) \in SUBSET Slots /\ ToSet(m.debts) \in SUBSET Debts
         /\ Live(m) = KeysOf(m.slots) /\ Owed(m) = KeysOf(m.debts)
         /\ DOMAIN m.slots = 1..Len(m.slots) /\ DOMAIN m.debts = 1..Len(m.debts)
<1>1. /\ m.slots \in Seq(Slots) /\ m.debts \in Seq(Debts)
      /\ m.hand \in Nat /\ m.sweep \in Nat /\ m.cursor \in Nat
  BY DEF Maps
<1> DEFINE s == m.slots
           d == m.debts
<1>2. s \in Seq(Slots) /\ d \in Seq(Debts)
  BY <1>1
<1>3. Live(m) = {s[i].key : i \in DOMAIN s} /\ Owed(m) = {d[i].key : i \in DOMAIN d}
  BY DEF Live, Owed
<1> HIDE DEF s, d
<1>4. DOMAIN s = 1..Len(s) /\ DOMAIN d = 1..Len(d) /\ Len(s) \in Nat /\ Len(d) \in Nat
  BY <1>2
<1>5. ToSet(s) \in SUBSET Slots /\ ToSet(d) \in SUBSET Debts
  BY <1>2, Members
<1>6. Live(m) = KeysOf(s)
  BY <1>2, <1>3, <1>4, Members DEF KeysOf
<1>7. Owed(m) = KeysOf(d)
  BY <1>2, <1>3, <1>4, Members DEF KeysOf
<1> QED BY <1>1, <1>4, <1>5, <1>6, <1>7 DEF s, d

LEMMA MapGoodLower ==
  ASSUME NEW c, NEW m, NEW g \in [Keys -> Nat], NEW w \in Nat, MapGood(c, m, g, w),
         NEW h \in [Keys -> Nat], NEW v \in Nat, w <= v, \A k \in Keys : h[k] <= g[k]
  PROVE  MapGood(c, m, h, v)
<1>1. m \in Maps
  BY DEF MapGood
<1>2. ToSet(m.slots) \in SUBSET Slots /\ ToSet(m.debts) \in SUBSET Debts
  BY <1>1, MapParts
<1>3. Cover(ToSet(m.slots), ToSet(m.debts), c, g, w)
  BY DEF MapGood
<1>4. Cover(ToSet(m.slots), ToSet(m.debts), c, h, v)
  BY <1>2, <1>3, CoverLower
<1> QED BY <1>4, Zenon DEF MapGood

(* An entry leaves. *)
SlotLeaves(c, m, g, w, pos, r) ==
  /\ pos \in Nat /\ pos < Len(m.slots)
  /\ m.slots[pos + 1].full <= w \/ g[m.slots[pos + 1].key] <= w
  /\ r.slots = SwapRemove(m.slots, pos) /\ r.debts = m.debts
  /\ r.slots \in Seq(Slots) => r \in Maps
  /\ r.hand <= c.keys /\ r.sweep <= c.keys /\ r.cursor <= c.keys

SlotLeft(c, m, g, w, pos, r) ==
  /\ MapGood(c, r, g, w) /\ Len(r.slots) = Len(m.slots) - 1
  /\ ToSet(r.slots) = ToSet(m.slots) \ {m.slots[pos + 1]}
  /\ KeysOf(r.slots) = KeysOf(m.slots) \ {m.slots[pos + 1].key}
  /\ m.slots[pos + 1] \in Slots /\ m.slots[pos + 1] \in ToSet(m.slots)

LEMMA SlotDropped ==
  ASSUME NEW c, c.keys \in Nat, NEW m, NEW g \in [Keys -> Nat], NEW w \in Nat,
         MapGood(c, m, g, w), NEW pos, NEW r, SlotLeaves(c, m, g, w, pos, r)
  PROVE  SlotLeft(c, m, g, w, pos, r)
<1> USE DEF SlotLeaves
<1> DEFINE s == m.slots
           e == s[pos + 1]
           t == SwapRemove(s, pos)
<1>1. m \in Maps /\ Once(s) /\ Len(s) <= c.keys /\ Tidy(c, m.debts)
  BY DEF MapGood, Tidy
<1>2. s \in Seq(Slots) /\ Len(s) \in Nat /\ ToSet(s) \in SUBSET Slots /\ ToSet(m.debts) \in SUBSET Debts
  BY <1>1, MapParts
<1>3. Cover(ToSet(s), ToSet(m.debts), c, g, w)
  BY DEF MapGood
<1>4. /\ t \in Seq(Slots) /\ Once(t) /\ Len(t) = Len(s) - 1
      /\ ToSet(t) = ToSet(s) \ {e} /\ KeysOf(t) = KeysOf(s) \ {e.key}
      /\ e \in ToSet(s) /\ e \in Slots
  <2> HIDE DEF s
  <2>1. pos < Len(s)
    BY DEF s
  <2> QED BY <1>1, <1>2, <2>1, SwapRemoved
<1>5. e.full <= w \/ g[e.key] <= w
  OBVIOUS
<1>6. r.slots = t
  OBVIOUS
<1> HIDE DEF s, e, t
<1>7. Cover(ToSet(s) \ {e}, ToSet(m.debts), c, g, w)
  BY <1>2, <1>3, <1>4, <1>5, CoverDropSlot
<1>8. Tidy(c, t)
  <2>1. Len(t) <= c.keys
    BY <1>1, <1>2, <1>4
  <2> QED BY <1>4, <2>1 DEF Tidy
<1>9. r \in Maps
  BY <1>4, <1>6
<1>10. MapGood(c, r, g, w)
  BY <1>1, <1>4, <1>6, <1>7, <1>8, <1>9, Zenon DEF MapGood
<1> QED BY <1>4, <1>6, <1>10 DEF s, e, SlotLeft

(* A debt leaves. *)
DebtLeaves(c, m, g, w, pos, r) ==
  /\ pos \in Nat /\ pos < Len(m.debts)
  /\ m.debts[pos + 1].at <= w \/ g[m.debts[pos + 1].key] <= w
  /\ r.debts = SwapRemove(m.debts, pos) /\ r.slots = m.slots
  /\ r.debts \in Seq(Debts) => r \in Maps
  /\ r.hand <= c.keys /\ r.sweep <= c.keys /\ r.cursor <= c.keys

DebtLeft(c, m, g, w, pos, r) ==
  /\ MapGood(c, r, g, w) /\ Len(r.debts) = Len(m.debts) - 1
  /\ ToSet(r.debts) = ToSet(m.debts) \ {m.debts[pos + 1]}
  /\ KeysOf(r.debts) = KeysOf(m.debts) \ {m.debts[pos + 1].key}
  /\ m.debts[pos + 1] \in Debts /\ m.debts[pos + 1] \in ToSet(m.debts)

LEMMA DebtDropped ==
  ASSUME NEW c, c.keys \in Nat, NEW m, NEW g \in [Keys -> Nat], NEW w \in Nat,
         MapGood(c, m, g, w), NEW pos, NEW r, DebtLeaves(c, m, g, w, pos, r)
  PROVE  DebtLeft(c, m, g, w, pos, r)
<1> USE DEF DebtLeaves
<1> DEFINE s == m.debts
           e == s[pos + 1]
           t == SwapRemove(s, pos)
<1>1. m \in Maps /\ Once(s) /\ Len(s) <= c.keys /\ Tidy(c, m.slots)
  BY DEF MapGood, Tidy
<1>2. s \in Seq(Debts) /\ Len(s) \in Nat /\ ToSet(s) \in SUBSET Debts /\ ToSet(m.slots) \in SUBSET Slots
  BY <1>1, MapParts
<1>3. Cover(ToSet(m.slots), ToSet(s), c, g, w)
  BY DEF MapGood
<1>4. /\ t \in Seq(Debts) /\ Once(t) /\ Len(t) = Len(s) - 1
      /\ ToSet(t) = ToSet(s) \ {e} /\ KeysOf(t) = KeysOf(s) \ {e.key}
      /\ e \in ToSet(s) /\ e \in Debts
  <2> HIDE DEF s
  <2>1. pos < Len(s)
    BY DEF s
  <2> QED BY <1>1, <1>2, <2>1, SwapRemoved
<1>5. e.at <= w \/ g[e.key] <= w
  OBVIOUS
<1>6. r.debts = t
  OBVIOUS
<1> HIDE DEF s, e, t
<1>7. Cover(ToSet(m.slots), ToSet(s) \ {e}, c, g, w)
  BY <1>2, <1>3, <1>4, <1>5, CoverDropDebt
<1>8. Tidy(c, t)
  <2>1. Len(t) <= c.keys
    BY <1>1, <1>2, <1>4
  <2> QED BY <1>4, <2>1 DEF Tidy
<1>9. r \in Maps
  BY <1>4, <1>6
<1>10. MapGood(c, r, g, w)
  BY <1>1, <1>4, <1>6, <1>7, <1>8, <1>9, Zenon DEF MapGood
<1> QED BY <1>4, <1>6, <1>10 DEF s, e, DebtLeft

(* Only cursors move. *)
LEMMA CursorsMoved ==
  ASSUME NEW c, NEW m, NEW g, NEW w, MapGood(c, m, g, w),
         NEW r \in Maps, r.slots = m.slots, r.debts = m.debts,
         r.hand <= c.keys, r.sweep <= c.keys, r.cursor <= c.keys
  PROVE  MapGood(c, r, g, w)
BY Zenon DEF MapGood

LEMMA Wrapped ==
  ASSUME NEW A, NEW s \in Seq(A), s # <<>>, NEW p \in Nat
  PROVE  Wrap(p, s) \in Nat /\ Wrap(p, s) < Len(s) /\ Len(s) \in Nat
<1>1. Len(s) \in Nat /\ Len(s) # 0
  OBVIOUS
<1> QED BY <1>1 DEF Wrap

-----------------------------------------------------------------------------
(* The idle sweep. *)

IdleAtLeast == conf.idle + 1 - Staleness

Swept(m, at, g, w) ==
  {a \in Maps : /\ MapGood(conf, a, g, w)
                /\ a.debts = m.debts /\ a.cursor = m.cursor
                /\ KeysOf(a.slots) \subseteq KeysOf(m.slots)
                /\ \A e \in ToSet(m.slots) : e \in ToSet(a.slots) \/ at - e.last >= IdleAtLeast}

(* Stamps that are rounded down and differ by the rounded-up bound and one *)
(* more are apart by the bound, less what a stamp may be behind.           *)
LEMMA LongIdle ==
  ASSUME ConfSound(conf), conf.ttl # None, NEW at \in Nat, NEW e \in Slots,
         Near(e.seen, e.last), Expired(e, at)
  PROVE  at - e.last >= IdleAtLeast
<1> DEFINE a == at \div Ms
           b == e.seen
           q == CeilDiv(conf.idle, Ms)
<1>1. Ms \in Nat \ {0} /\ conf.idle \in Nat /\ conf.ttl = q + 1 /\ Staleness \in Nat
  BY Fields, StalenessType
<1>2. e.last \in Nat /\ b \in Nat
  BY DEF Slots
<1>3. a \in Nat /\ a * Ms <= at
  BY <1>1, Division
<1>4. e.last < b * Ms + Ms + Staleness
  BY DEF Near
<1>5. q \in Nat /\ conf.idle <= q * Ms
  BY <1>1, Ceiling
<1>6. MaxOf(a - b, 0) >= conf.ttl
  BY DEF Expired, Millis
<1> DEFINE l == e.last
           i == conf.idle
<1>7. l \in Nat /\ i \in Nat /\ l < b * Ms + Ms + Staleness /\ i <= q * Ms
  BY <1>1, <1>2, <1>4, <1>5
<1> HIDE DEF a, b, q
<1>8. a >= b + q + 1
  BY <1>1, <1>2, <1>3, <1>5, <1>6 DEF MaxOf
<1>9. (b + q + 1) * Ms <= a * Ms
  BY <1>1, <1>2, <1>3, <1>5, <1>8, Scaled
<1>10. (b + q + 1) * Ms = b * Ms + q * Ms + Ms
  BY <1>1, <1>2, <1>5
<1> DEFINE x == a * Ms
           y == b * Ms
           z == q * Ms
<1>11. x \in Nat /\ y \in Nat /\ z \in Nat
  BY <1>1, <1>2, <1>3, <1>5
<1>12. x <= at /\ l < y + Ms + Staleness /\ i <= z /\ y + z + Ms <= x
  BY <1>3, <1>7, <1>9, <1>10
<1> HIDE DEF x, y, z, l, i
<1>13. at - l >= i + 1 - Staleness
  BY <1>1, <1>7, <1>11, <1>12
<1> QED BY <1>13 DEF l, i, IdleAtLeast

LEMMA SweepIdleStepSwept ==
  ASSUME ConfSound(conf), conf.ttl # None, NEW m \in Maps, NEW at \in Nat,
         NEW g \in [Keys -> Nat], NEW w \in Nat, at <= w, NEW a \in Swept(m, at, g, w)
  PROVE  SweepIdleStep(a, at) \in Swept(m, at, g, w)
<1> DEFINE pos == Wrap(a.sweep, a.slots)
           e == a.slots[pos + 1]
           r == SweepIdleStep(a, at)
<1>1. /\ a \in Maps /\ MapGood(conf, a, g, w) /\ a.debts = m.debts /\ a.cursor = m.cursor
      /\ KeysOf(a.slots) \subseteq KeysOf(m.slots)
      /\ \A x \in ToSet(m.slots) : x \in ToSet(a.slots) \/ at - x.last >= IdleAtLeast
  BY DEF Swept
<1>2. /\ a.slots \in Seq(Slots) /\ Len(a.slots) \in Nat
      /\ a.hand \in Nat /\ a.sweep \in Nat /\ a.cursor \in Nat
  BY <1>1, MapParts
<1>3. conf.keys \in Nat
  BY Fields
<1>4. Len(a.slots) <= conf.keys /\ a.hand <= conf.keys /\ a.cursor <= conf.keys
  BY <1>1 DEF MapGood, Tidy
<1>5. CASE a.slots = <<>>
  <2>1. r = a
    BY <1>5, Zenon DEF SweepIdleStep
  <2> QED BY <2>1
<1>6. CASE a.slots # <<>>
  <2>1. pos \in Nat /\ pos < Len(a.slots)
    BY <1>2, <1>6, Wrapped
  <2>2. r = IF Expired(e, at) /\ Lossless(e.full, at)
              THEN [a EXCEPT !.slots = SwapRemove(@, pos), !.sweep = pos]
              ELSE [a EXCEPT !.sweep = pos + 1]
    BY <1>6, Zenon DEF SweepIdleStep
  <2> HIDE DEF pos, r
  <2>3. pos <= conf.keys /\ pos + 1 <= conf.keys /\ pos + 1 \in Nat
    BY <1>2, <1>3, <1>4, <2>1
  <2>4. CASE Expired(e, at) /\ Lossless(e.full, at)
    <3>1. r = [a EXCEPT !.slots = SwapRemove(@, pos), !.sweep = pos]
      BY <2>2, <2>4
    <3>2. /\ r.slots = SwapRemove(a.slots, pos) /\ r.debts = a.debts
          /\ r.hand = a.hand /\ r.sweep = pos /\ r.cursor = a.cursor
      BY <1>1, <3>1 DEF Maps
    <3>3. r.slots \in Seq(Slots) => r \in Maps
      BY <1>1, <2>1, <3>1, <3>2 DEF Maps
    <3>4. e.full <= at
      BY <2>4 DEF Lossless
    <3>5. e \in Slots
      BY <1>2, <2>1
    <3>6. e.full <= w
      <4>1. e.full \in Nat
        BY <3>5 DEF Slots
      <4> QED BY <3>4, <4>1
    <3>7. /\ MapGood(conf, r, g, w)
          /\ ToSet(r.slots) = ToSet(a.slots) \ {e}
          /\ KeysOf(r.slots) = KeysOf(a.slots) \ {e.key}
          /\ e \in ToSet(a.slots)
      <4>1. r.hand <= conf.keys /\ r.sweep <= conf.keys /\ r.cursor <= conf.keys
        BY <1>4, <2>3, <3>2
      <4>2. SlotLeaves(conf, a, g, w, pos, r)
        BY <2>1, <3>2, <3>3, <3>6, <4>1 DEF SlotLeaves
      <4>3. SlotLeft(conf, a, g, w, pos, r)
        BY <1>1, <1>3, <4>2, SlotDropped
      <4> QED BY <4>3 DEF SlotLeft
    <3>8. Near(e.seen, e.last)
      BY <1>1, <3>7 DEF MapGood, Cover
    <3>9. at - e.last >= IdleAtLeast
      BY <2>4, <3>5, <3>8, LongIdle
    <3>10. r \in Maps
      BY <3>7 DEF MapGood
    <3> HIDE DEF e
    <3>11. \A x \in ToSet(m.slots) : x \in ToSet(r.slots) \/ at - x.last >= IdleAtLeast
      BY <1>1, <3>7, <3>9
    <3> QED BY <1>1, <3>2, <3>7, <3>10, <3>11 DEF Swept, r
  <2>5. CASE ~(Expired(e, at) /\ Lossless(e.full, at))
    <3>1. r = [a EXCEPT !.sweep = pos + 1]
      BY <2>2, <2>5
    <3>2. /\ r.slots = a.slots /\ r.debts = a.debts
          /\ r.hand = a.hand /\ r.sweep = pos + 1 /\ r.cursor = a.cursor /\ r \in Maps
      BY <1>1, <2>3, <3>1 DEF Maps
    <3>3. MapGood(conf, r, g, w)
      BY <1>1, <1>4, <2>3, <3>2, CursorsMoved
    <3> QED BY <1>1, <3>2, <3>3 DEF Swept, r
  <2> QED BY <2>4, <2>5
<1> QED BY <1>5, <1>6

LEMMA SweepIdleSwept ==
  ASSUME ConfSound(conf), NEW m, NEW at \in Nat, NEW g \in [Keys -> Nat], NEW w \in Nat,
         at <= w, MapGood(conf, m, g, w)
  PROVE  SweepIdle(m, at) \in Swept(m, at, g, w)
<1> DEFINE S == Swept(m, at, g, w)
           n == TtlSweep
           F(h) == [i \in 0..n |-> IF i = 0 THEN m ELSE SweepIdleStep(h[i - 1], at)]
           f == [a \in S |-> SweepIdleStep(a, at)]
           after == CHOOSE h : h = F(h)
<1>1. m \in Maps
  BY DEF MapGood
<1>2. m \in S
  BY <1>1 DEF Swept
<1>3. n \in Nat
  BY KeyStoreAssumption
<1>4. CASE conf.ttl = None
  <2>1. SweepIdle(m, at) = m
    BY <1>4, Zenon DEF SweepIdle
  <2> QED BY <1>2, <2>1
<1>5. CASE conf.ttl # None
  <2>1. \A a \in S : SweepIdleStep(a, at) \in S
    BY <1>1, <1>5, SweepIdleStepSwept
  <2>2. SweepIdle(m, at) = after[n]
    BY <1>5, Zenon DEF SweepIdle
  <2> HIDE DEF S
  <2>3. f \in [S -> S]
    BY <2>1
  <2>4. \A a \in S : f[a] = SweepIdleStep(a, at)
    OBVIOUS
  <2> HIDE DEF n, f
  <2>11. PICK h : Iterates(h, S, m, f, n)
    BY <1>2, <1>3, <2>3, Repeated, Zenon
  <2>5. h \in [0..n -> S] /\ h[0] = m /\ \A i \in 1..n : h[i] = f[h[i - 1]]
    BY <2>11 DEF Iterates
  <2>6. h = F(h)
    <3>1. h = [i \in 0..n |-> h[i]]
      BY <2>5
    <3>2. ASSUME NEW i \in 0..n
          PROVE  h[i] = IF i = 0 THEN m ELSE SweepIdleStep(h[i - 1], at)
      <4>1. CASE i = 0
        BY <2>5, <4>1
      <4>2. CASE i # 0
        <5>1. i \in 1..n /\ i - 1 \in 0..n
          BY <1>3, <4>2
        <5>2. h[i] = f[h[i - 1]] /\ h[i - 1] \in S
          BY <2>5, <5>1
        <5> QED BY <2>4, <4>2, <5>2
      <4> QED BY <4>1, <4>2
    <3> QED BY <3>1, <3>2
  <2>7. after = F(after)
    <3> HIDE DEF F
    <3> QED BY <2>6, Zenon
  <2> HIDE DEF after
  <2>8. after[0] = m
    <3>1. 0 \in 0..n
      BY <1>3
    <3> QED BY <2>7, <3>1
  <2>9. ASSUME NEW i \in 1..n, after[i - 1] \in S PROVE after[i] \in S
    <3>1. i \in 0..n /\ i # 0
      BY <1>3
    <3>2. after[i] = SweepIdleStep(after[i - 1], at)
      BY <2>7, <3>1
    <3> QED BY <2>1, <2>9, <3>2
  <2>10. after[n] \in S
    BY <1>2, <1>3, <2>8, <2>9, RepeatedKeeps
  <2> QED BY <2>2, <2>10 DEF S
<1> QED BY <1>4, <1>5

-----------------------------------------------------------------------------
(* The sweep of the ledger. *)

Settled(m, g, w) ==
  {a \in Maps : /\ MapGood(conf, a, g, w)
                /\ a.slots = m.slots
                /\ KeysOf(a.debts) \subseteq KeysOf(m.debts)
                /\ Len(a.debts) <= Len(m.debts)}

LEMMA SweepDebtsStepSettled ==
  ASSUME ConfSound(conf), NEW m \in Maps, NEW at \in Nat,
         NEW g \in [Keys -> Nat], NEW w \in Nat, at <= w, NEW a \in Settled(m, g, w)
  PROVE  SweepDebtsStep(a, at) \in Settled(m, g, w)
<1> DEFINE pos == Wrap(a.cursor, a.debts)
           e == a.debts[pos + 1]
           r == SweepDebtsStep(a, at)
<1>1. /\ a \in Maps /\ MapGood(conf, a, g, w) /\ a.slots = m.slots
      /\ KeysOf(a.debts) \subseteq KeysOf(m.debts)
  BY DEF Settled
<1>2. /\ a.debts \in Seq(Debts) /\ Len(a.debts) \in Nat
      /\ a.hand \in Nat /\ a.sweep \in Nat /\ a.cursor \in Nat /\ Len(m.debts) \in Nat
  BY <1>1, MapParts
<1>3. conf.keys \in Nat
  BY Fields
<1>4. Len(a.debts) <= conf.keys /\ a.hand <= conf.keys /\ a.sweep <= conf.keys
      /\ Len(a.debts) <= Len(m.debts)
  BY <1>1 DEF MapGood, Tidy, Settled
<1>5. CASE a.debts = <<>>
  <2>1. r = a
    BY <1>5, Zenon DEF SweepDebtsStep
  <2> QED BY <2>1
<1>6. CASE a.debts # <<>>
  <2>1. pos \in Nat /\ pos < Len(a.debts)
    BY <1>2, <1>6, Wrapped
  <2>2. r = IF e.at <= at
              THEN [a EXCEPT !.debts = SwapRemove(@, pos), !.cursor = pos]
              ELSE [a EXCEPT !.cursor = pos + 1]
    BY <1>6, Zenon DEF SweepDebtsStep
  <2> HIDE DEF pos, r
  <2>3. pos <= conf.keys /\ pos + 1 <= conf.keys /\ pos + 1 \in Nat
    BY <1>2, <1>3, <1>4, <2>1
  <2>4. CASE e.at <= at
    <3>1. r = [a EXCEPT !.debts = SwapRemove(@, pos), !.cursor = pos]
      BY <2>2, <2>4
    <3>2. /\ r.debts = SwapRemove(a.debts, pos) /\ r.slots = a.slots
          /\ r.hand = a.hand /\ r.sweep = a.sweep /\ r.cursor = pos
      BY <1>1, <3>1 DEF Maps
    <3>3. r.debts \in Seq(Debts) => r \in Maps
      BY <1>1, <2>1, <3>1, <3>2 DEF Maps
    <3>4. e \in Debts
      BY <1>2, <2>1
    <3>5. e.at <= w
      <4>1. e.at \in Nat
        BY <3>4 DEF Debts
      <4> QED BY <2>4, <4>1
    <3>6. r.hand <= conf.keys /\ r.sweep <= conf.keys /\ r.cursor <= conf.keys
      BY <1>4, <2>3, <3>2
    <3>7. DebtLeaves(conf, a, g, w, pos, r)
      BY <2>1, <3>2, <3>3, <3>5, <3>6 DEF DebtLeaves
    <3>8. DebtLeft(conf, a, g, w, pos, r)
      BY <1>1, <1>3, <3>7, DebtDropped
    <3>9. MapGood(conf, r, g, w) /\ KeysOf(r.debts) = KeysOf(a.debts) \ {e.key}
      BY <3>8 DEF DebtLeft
    <3>10. Len(r.debts) <= Len(m.debts)
      <4>1. Len(r.debts) = Len(a.debts) - 1
        BY <3>8 DEF DebtLeft
      <4> QED BY <1>2, <1>4, <4>1
    <3>11. r \in Maps
      BY <3>9 DEF MapGood
    <3> HIDE DEF e
    <3>12. KeysOf(r.debts) \subseteq KeysOf(m.debts)
      BY <1>1, <3>9
    <3> QED BY <1>1, <3>2, <3>9, <3>10, <3>11, <3>12 DEF Settled, r
  <2>5. CASE ~(e.at <= at)
    <3>1. r = [a EXCEPT !.cursor = pos + 1]
      BY <2>2, <2>5
    <3>2. /\ r.slots = a.slots /\ r.debts = a.debts
          /\ r.hand = a.hand /\ r.sweep = a.sweep /\ r.cursor = pos + 1 /\ r \in Maps
      BY <1>1, <2>3, <3>1 DEF Maps
    <3>3. MapGood(conf, r, g, w)
      BY <1>1, <1>4, <2>3, <3>2, CursorsMoved
    <3> QED BY <1>1, <1>4, <3>2, <3>3 DEF Settled, r
  <2> QED BY <2>4, <2>5
<1> QED BY <1>5, <1>6

LEMMA SweepDebtsSettled ==
  ASSUME ConfSound(conf), NEW m, NEW at \in Nat, NEW g \in [Keys -> Nat], NEW w \in Nat,
         at <= w, MapGood(conf, m, g, w)
  PROVE  SweepDebts(m, at) \in Settled(m, g, w)
<1> DEFINE S == Settled(m, g, w)
           n == LedgerScan
           F(h) == [i \in 0..n |-> IF i = 0 THEN m ELSE SweepDebtsStep(h[i - 1], at)]
           f == [a \in S |-> SweepDebtsStep(a, at)]
           after == CHOOSE h : h = F(h)
<1>1. m \in Maps /\ Len(m.debts) \in Nat
  BY MapParts DEF MapGood
<1>2. m \in S
  BY <1>1 DEF Settled
<1>3. n \in Nat
  BY KeyStoreAssumption
<1>4. \A a \in S : SweepDebtsStep(a, at) \in S
  BY <1>1, SweepDebtsStepSettled
<1>5. SweepDebts(m, at) = after[n]
  BY Zenon DEF SweepDebts
<1> HIDE DEF S
<1>6. f \in [S -> S]
  BY <1>4
<1>7. \A a \in S : f[a] = SweepDebtsStep(a, at)
  OBVIOUS
<1> HIDE DEF n, f
<1>8. PICK h : Iterates(h, S, m, f, n)
  BY <1>2, <1>3, <1>6, Repeated, Zenon
<1>9. h \in [0..n -> S] /\ h[0] = m /\ \A i \in 1..n : h[i] = f[h[i - 1]]
  BY <1>8 DEF Iterates
<1>10. h = F(h)
  <2>1. h = [i \in 0..n |-> h[i]]
    BY <1>9
  <2>2. ASSUME NEW i \in 0..n
        PROVE  h[i] = IF i = 0 THEN m ELSE SweepDebtsStep(h[i - 1], at)
    <3>1. CASE i = 0
      BY <1>9, <3>1
    <3>2. CASE i # 0
      <4>1. i \in 1..n /\ i - 1 \in 0..n
        BY <1>3, <3>2
      <4>2. h[i] = f[h[i - 1]] /\ h[i - 1] \in S
        BY <1>9, <4>1
      <4> QED BY <1>7, <3>2, <4>2
    <3> QED BY <3>1, <3>2
  <2> QED BY <2>1, <2>2
<1>11. after = F(after)
  <2> HIDE DEF F
  <2> QED BY <1>10, Zenon
<1> HIDE DEF after
<1>12. after[0] = m
  <2>1. 0 \in 0..n
    BY <1>3
  <2> QED BY <1>11, <2>1
<1>13. ASSUME NEW i \in 1..n, after[i - 1] \in S PROVE after[i] \in S
  <2>1. i \in 0..n /\ i # 0
    BY <1>3
  <2>2. after[i] = SweepDebtsStep(after[i - 1], at)
    BY <1>11, <2>1
  <2> QED BY <1>4, <1>13, <2>2
<1>14. after[n] \in S
  BY <1>2, <1>3, <1>12, <1>13, RepeatedKeeps
<1> QED BY <1>5, <1>14 DEF S

-----------------------------------------------------------------------------
(* The ledger takes a debt in. *)

Looked(debts, at) ==
  {a \in [cursor : Nat, pos : Nat \cup {None}, found : BOOLEAN] :
     /\ a.cursor <= conf.keys
     /\ a.pos # None => a.pos < Len(debts)
     /\ a.found => a.pos # None /\ debts[a.pos + 1].at <= at}

LEMMA ScanDebtsStepLooked ==
  ASSUME ConfSound(conf), NEW debts \in Seq(Debts), debts # <<>>, Len(debts) <= conf.keys,
         NEW at \in Nat, NEW a \in Looked(debts, at)
  PROVE  /\ ScanDebtsStep(debts, a, at) \in Looked(debts, at)
         /\ ScanDebtsStep(debts, a, at).pos # None
<1> DEFINE pos == Wrap(a.cursor, debts)
           settles == debts[pos + 1].at
           better == a.pos = None \/ settles < debts[a.pos + 1].at
           r == ScanDebtsStep(debts, a, at)
           p == IF better THEN pos ELSE a.pos
<1>1. /\ a.cursor \in Nat /\ a.pos \in Nat \cup {None} /\ a.found \in BOOLEAN
      /\ a.pos # None => a.pos < Len(debts)
      /\ a.found => a.pos # None
  BY DEF Looked
<1>2. pos \in Nat /\ pos < Len(debts) /\ Len(debts) \in Nat
  BY <1>1, Wrapped
<1>3. conf.keys \in Nat
  BY Fields
<1>4. pos <= conf.keys /\ pos + 1 <= conf.keys /\ pos + 1 \in Nat /\ pos # None
  <2> HIDE DEF pos
  <2> QED BY <1>2, <1>3 DEF None
<1>5. r = IF a.found THEN a
          ELSE IF settles <= at THEN [cursor |-> pos, pos |-> pos, found |-> TRUE]
          ELSE [cursor |-> pos + 1, pos |-> p, found |-> FALSE]
  BY Zenon DEF ScanDebtsStep
<1>6. p \in Nat /\ p < Len(debts) /\ p # None
  <2>1. CASE better
    BY <1>2, <1>4, <2>1
  <2>2. CASE ~better
    BY <1>1, <2>2
  <2> QED BY <2>1, <2>2
<1> HIDE DEF r, p, better, pos
<1>7. CASE a.found
  BY <1>1, <1>5, <1>7 DEF r
<1>8. CASE ~a.found /\ settles <= at
  <2>1. r = [cursor |-> pos, pos |-> pos, found |-> TRUE]
    BY <1>5, <1>8
  <2>2. r.cursor = pos /\ r.pos = pos /\ r.found = TRUE
        /\ r \in [cursor : Nat, pos : Nat \cup {None}, found : BOOLEAN]
    BY <1>2, <2>1
  <2> QED BY <1>2, <1>4, <1>8, <2>2 DEF Looked, r
<1>9. CASE ~a.found /\ ~(settles <= at)
  <2>1. r = [cursor |-> pos + 1, pos |-> p, found |-> FALSE]
    BY <1>5, <1>9
  <2>2. r.cursor = pos + 1 /\ r.pos = p /\ r.found = FALSE
        /\ r \in [cursor : Nat, pos : Nat \cup {None}, found : BOOLEAN]
    BY <1>4, <1>6, <2>1
  <2> QED BY <1>4, <1>6, <2>2 DEF Looked, r
<1> QED BY <1>7, <1>8, <1>9

LEMMA ScanDebtsLooked ==
  ASSUME ConfSound(conf), NEW m \in Maps, Len(m.debts) <= conf.keys, m.debts # <<>>,
         m.cursor <= conf.keys, NEW at \in Nat
  PROVE  ScanDebts(m, at) \in Looked(m.debts, at) /\ ScanDebts(m, at).pos # None
<1> DEFINE d == m.debts
           S == Looked(d, at)
           n == MinOf(LedgerScan, Len(d))
           x == [cursor |-> m.cursor, pos |-> None, found |-> FALSE]
           F(h) == [i \in 0..n |-> IF i = 0 THEN x ELSE ScanDebtsStep(d, h[i - 1], at)]
           f == [a \in S |-> ScanDebtsStep(d, a, at)]
           after == CHOOSE h : h = F(h)
<1>1. d \in Seq(Debts) /\ Len(d) \in Nat /\ m.cursor \in Nat /\ Len(d) # 0
  BY MapParts
<1>2. x \in S
  <2>1. x.cursor = m.cursor /\ x.pos = None /\ x.found = FALSE
        /\ x \in [cursor : Nat, pos : Nat \cup {None}, found : BOOLEAN]
    BY <1>1
  <2> HIDE DEF x
  <2> QED BY <2>1 DEF Looked
<1>3. n \in Nat \ {0} /\ n \in Nat
  <2>1. LedgerScan \in Nat \ {0}
    BY KeyStoreAssumption
  <2> HIDE DEF d
  <2> QED BY <1>1, <2>1 DEF MinOf
<1>4. \A a \in S : ScanDebtsStep(d, a, at) \in S /\ ScanDebtsStep(d, a, at).pos # None
  <2>1. d # <<>> /\ Len(d) <= conf.keys
    OBVIOUS
  <2> HIDE DEF d
  <2> QED BY <1>1, <2>1, ScanDebtsStepLooked
<1>5. ScanDebts(m, at) = after[n]
  BY Zenon DEF ScanDebts
<1> HIDE DEF S, x
<1>6. f \in [S -> S]
  BY <1>4
<1>7. \A a \in S : f[a] = ScanDebtsStep(d, a, at)
  OBVIOUS
<1> HIDE DEF n, f, d
<1>8. PICK h : Iterates(h, S, x, f, n)
  BY <1>2, <1>3, <1>6, Repeated, Zenon
<1>9. h \in [0..n -> S] /\ h[0] = x /\ \A i \in 1..n : h[i] = f[h[i - 1]]
  BY <1>8 DEF Iterates
<1>10. h = F(h)
  <2>1. h = [i \in 0..n |-> h[i]]
    BY <1>9
  <2>2. ASSUME NEW i \in 0..n
        PROVE  h[i] = IF i = 0 THEN x ELSE ScanDebtsStep(d, h[i - 1], at)
    <3>1. CASE i = 0
      BY <1>9, <3>1
    <3>2. CASE i # 0
      <4>1. i \in 1..n /\ i - 1 \in 0..n
        BY <1>3, <3>2
      <4>2. h[i] = f[h[i - 1]] /\ h[i - 1] \in S
        BY <1>9, <4>1
      <4> QED BY <1>7, <3>2, <4>2
    <3> QED BY <3>1, <3>2
  <2> QED BY <2>1, <2>2
<1>11. after = F(after)
  <2> HIDE DEF F
  <2> QED BY <1>10, Zenon
<1> HIDE DEF after
<1>12. after[0] = x
  <2>1. 0 \in 0..n
    BY <1>3
  <2> QED BY <1>11, <2>1
<1>13. ASSUME NEW i \in 1..n
       PROVE  after[i] = ScanDebtsStep(d, after[i - 1], at)
  <2>1. i \in 0..n /\ i # 0
    BY <1>3
  <2> QED BY <1>11, <2>1
<1>14. after[n - 1] \in S
  <2> DEFINE k == n - 1
  <2>1. k \in Nat /\ \A i \in 1..k : i \in 1..n
    BY <1>3
  <2>2. ASSUME NEW i \in 1..k, after[i - 1] \in S PROVE after[i] \in S
    BY <1>4, <1>13, <2>1, <2>2
  <2> HIDE DEF k
  <2>3. after[k] \in S
    BY <1>2, <1>12, <2>1, <2>2, RepeatedKeeps
  <2> QED BY <2>3 DEF k
<1>15. after[n] = ScanDebtsStep(d, after[n - 1], at)
  <2>1. n \in 1..n
    BY <1>3
  <2> QED BY <1>13, <2>1
<1> QED BY <1>4, <1>5, <1>14, <1>15 DEF S, d

(* What recording a debt leaves: all but the new debt was there before, and *)
(* what went had been settled or is owned up to as forgotten.               *)
Recorded(m, debt, at, r) ==
  /\ r.map \in Maps
  /\ r.map.slots = m.slots /\ r.map.hand = m.hand /\ r.map.sweep = m.sweep
  /\ r.map.cursor <= conf.keys
  /\ Tidy(conf, r.map.debts)
  /\ \/ /\ r.ok = TRUE
        /\ debt \in ToSet(r.map.debts)
        /\ ToSet(r.map.debts) \subseteq ToSet(m.debts) \cup {debt}
        /\ \A d \in ToSet(m.debts) : d \in ToSet(r.map.debts) \/ d.at <= at \/ d.key \in r.lost
        /\ r.lost \subseteq KeysOf(m.debts)
     \/ /\ r.ok = FALSE
        /\ r.map.debts = m.debts /\ r.lost = {} /\ Len(m.debts) >= conf.keys

LEMMA RecordFacts ==
  ASSUME ConfSound(conf), NEW m \in Maps, Tidy(conf, m.debts), m.cursor <= conf.keys,
         NEW debt \in Debts, debt.key \notin KeysOf(m.debts), NEW at \in Nat
  PROVE  Recorded(m, debt, at, Record(m, debt, at, conf.keys, conf.forget))
<1> DEFINE s == m.debts
           r == Record(m, debt, at, conf.keys, conf.forget)
<1>1. /\ s \in Seq(Debts) /\ Len(s) \in Nat /\ Once(s) /\ Len(s) <= conf.keys
      /\ ToSet(s) \in SUBSET Debts /\ m.cursor \in Nat
  BY MapParts DEF Tidy
<1>2. conf.keys \in Nat \ {0} /\ conf.forget \in BOOLEAN
  BY Fields
<1>3. s = m.debts /\ debt.key \notin KeysOf(s)
  OBVIOUS
<1>4. CASE Len(s) < conf.keys
  <2> DEFINE t == Append(s, debt)
             q == [m EXCEPT !.debts = t]
  <2>1. r = [ok |-> TRUE, map |-> q, lost |-> {}]
    BY <1>4, Zenon DEF Record
  <2> HIDE DEF s
  <2>2. t \in Seq(Debts) /\ Once(t) /\ Len(t) = Len(s) + 1 /\ ToSet(t) = ToSet(s) \cup {debt}
    BY <1>1, <1>3, AppendedOnce
  <2> HIDE DEF t
  <2>3. /\ q \in Maps /\ q.slots = m.slots /\ q.hand = m.hand /\ q.sweep = m.sweep
        /\ q.cursor = m.cursor /\ q.debts = t
    BY <2>2 DEF Maps
  <2> HIDE DEF q, r
  <2>4. r.ok = TRUE /\ r.map = q /\ r.lost = {}
    BY <2>1
  <2>5. Tidy(conf, t)
    BY <1>1, <1>2, <1>4, <2>2 DEF Tidy
  <2>6. Recorded(m, debt, at, r)
    BY <1>3, <2>2, <2>3, <2>4, <2>5 DEF Recorded
  <2> QED BY <2>6 DEF r
<1>5. CASE ~(Len(s) < conf.keys)
  <2> DEFINE scan == ScanDebts(m, at)
             pos == scan.pos
             m1 == [m EXCEPT !.cursor = scan.cursor]
             t == Append(SwapRemove(s, pos), debt)
             q == [m1 EXCEPT !.debts = t]
             lost == IF scan.found THEN {} ELSE {s[pos + 1].key}
  <2>1. s # <<>> /\ Len(s) >= conf.keys
    BY <1>1, <1>2, <1>5
  <2>2. scan \in Looked(s, at) /\ scan.pos # None
    BY <1>1, <2>1, ScanDebtsLooked
  <2>3. r = IF scan.found \/ conf.forget
              THEN [ok |-> TRUE, map |-> [m1 EXCEPT !.debts = Append(SwapRemove(@, pos), debt)], lost |-> lost]
              ELSE [ok |-> FALSE, map |-> m1, lost |-> {}]
    BY <1>5, Zenon DEF Record
  <2> HIDE DEF scan
  <2>4. /\ scan.cursor \in Nat /\ scan.cursor <= conf.keys /\ scan.found \in BOOLEAN
        /\ pos \in Nat /\ pos < Len(s)
        /\ scan.found => s[pos + 1].at <= at
    BY <2>2 DEF Looked
  <2>5. /\ m1 \in Maps /\ m1.slots = m.slots /\ m1.hand = m.hand /\ m1.sweep = m.sweep
        /\ m1.cursor = scan.cursor /\ m1.debts = s
    BY <2>4 DEF Maps
  <2> HIDE DEF m1
  <2>6. CASE scan.found \/ conf.forget
    <3> DEFINE u == SwapRemove(s, pos)
               e == s[pos + 1]
    <3>1. [m1 EXCEPT !.debts = Append(SwapRemove(@, pos), debt)] = q
      BY <2>5
    <3>2. r = [ok |-> TRUE, map |-> q, lost |-> lost]
      BY <2>3, <2>6, <3>1
    <3> HIDE DEF s, pos
    <3>3. /\ u \in Seq(Debts) /\ Once(u) /\ Len(u) = Len(s) - 1 /\ ToSet(u) = ToSet(s) \ {e}
          /\ KeysOf(u) = KeysOf(s) \ {e.key} /\ e \in ToSet(s) /\ e \in Debts
      BY <1>1, <2>4, SwapRemoved
    <3> HIDE DEF u, e
    <3>4. /\ t \in Seq(Debts) /\ Once(t) /\ Len(t) = Len(u) + 1 /\ ToSet(t) = ToSet(u) \cup {debt}
      <4>1. t = Append(u, debt) /\ debt.key \notin KeysOf(u)
        BY <1>3, <3>3 DEF u
      <4> HIDE DEF t
      <4> QED BY <3>3, <4>1, AppendedOnce
    <3> HIDE DEF t
    <3>5. /\ q \in Maps /\ q.slots = m.slots /\ q.hand = m.hand /\ q.sweep = m.sweep
          /\ q.cursor = scan.cursor /\ q.debts = t
      BY <2>5, <3>4 DEF Maps
    <3>6. Tidy(conf, t)
      <4>1. Len(t) <= conf.keys
        BY <1>1, <1>2, <3>3, <3>4
      <4> QED BY <3>4, <4>1 DEF Tidy
    <3>7. lost = IF scan.found THEN {} ELSE {e.key}
      BY DEF e
    <3> HIDE DEF q, r, lost
    <3>8. r.ok = TRUE /\ r.map = q /\ r.lost = lost
      BY <3>2
    <3>9. \A d \in ToSet(s) : d \in ToSet(t) \/ d.at <= at \/ d.key \in lost
      <4>1. \A d \in ToSet(s) : d \in ToSet(t) \/ d = e
        BY <3>3, <3>4
      <4>2. e.at <= at \/ e.key \in lost
        BY <2>4, <3>7 DEF e
      <4> QED BY <4>1, <4>2
    <3>10. lost \subseteq KeysOf(s)
      BY <3>3, <3>7 DEF KeysOf
    <3>11. debt \in ToSet(t) /\ ToSet(t) \subseteq ToSet(s) \cup {debt}
      BY <3>3, <3>4
    <3>12. Recorded(m, debt, at, r)
      BY <1>3, <2>4, <3>5, <3>6, <3>8, <3>9, <3>10, <3>11 DEF Recorded
    <3> QED BY <3>12 DEF r
  <2>7. CASE ~(scan.found \/ conf.forget)
    <3>1. r = [ok |-> FALSE, map |-> m1, lost |-> {}]
      BY <2>3, <2>7
    <3> HIDE DEF r, s, pos
    <3>2. r.ok = FALSE /\ r.map = m1 /\ r.lost = {}
      BY <3>1
    <3>3. Recorded(m, debt, at, r)
      BY <1>3, <2>1, <2>4, <2>5, <3>2 DEF Recorded
    <3> QED BY <3>3 DEF r
  <2> QED BY <2>6, <2>7
<1> QED BY <1>4, <1>5

-----------------------------------------------------------------------------
(* The hand of the clock. *)

SameSlot(d, e) == d.key = e.key /\ d.full = e.full /\ d.seen = e.seen /\ d.last = e.last

Hands == [slots : Seq(Slots), hand : Nat, victim : Nat \cup {None}, first : Nat \cup {None},
          limited : Nat \cup {None}, marked : BOOLEAN]

(* Only marks change; whoever may go has recovered. *)
Scanned(m, at) ==
  {a \in Hands :
     /\ Len(a.slots) = Len(m.slots)
     /\ \A i \in 1..Len(m.slots) : SameSlot(a.slots[i], m.slots[i])
     /\ a.hand <= conf.keys
     /\ a.victim # None => a.victim < Len(m.slots) /\ m.slots[a.victim + 1].full <= at
     /\ a.first # None => a.first < Len(m.slots) /\ m.slots[a.first + 1].full <= at
     /\ a.limited # None => a.limited < Len(m.slots)}

Chosen(a) == a.victim # None \/ a.first # None \/ a.limited # None

LEMMA ClockScanStepScanned ==
  ASSUME ConfSound(conf), NEW m \in Maps, m.slots # <<>>, Len(m.slots) <= conf.keys,
         NEW at \in Nat, NEW a \in Scanned(m, at)
  PROVE  ClockScanStep(a, at) \in Scanned(m, at) /\ Chosen(ClockScanStep(a, at))
<1> DEFINE n == Len(m.slots)
           pos == Wrap(a.hand, a.slots)
           e == a.slots[pos + 1]
           t == [a.slots EXCEPT ![pos + 1].ref = FALSE]
           b == [a EXCEPT !.slots = t, !.hand = pos + 1]
           better == a.limited = None \/ (a.marked /\ ~e.ref)
           p == IF a.first = None THEN pos ELSE a.first
           r == ClockScanStep(a, at)
<1>1. /\ a \in Hands /\ Len(a.slots) = n /\ a.hand <= conf.keys
      /\ \A i \in 1..n : SameSlot(a.slots[i], m.slots[i])
      /\ a.victim # None => a.victim < n /\ m.slots[a.victim + 1].full <= at
      /\ a.first # None => a.first < n /\ m.slots[a.first + 1].full <= at
      /\ a.limited # None => a.limited < n
  BY DEF Scanned
<1>2. /\ a.slots \in Seq(Slots) /\ a.hand \in Nat /\ a.victim \in Nat \cup {None}
      /\ a.first \in Nat \cup {None} /\ a.limited \in Nat \cup {None} /\ a.marked \in BOOLEAN
  BY <1>1 DEF Hands
<1>3. n \in Nat /\ n # 0 /\ a.slots # <<>> /\ conf.keys \in Nat
  <2>1. m.slots \in Seq(Slots) /\ n \in Nat
    BY MapParts
  <2>2. n # 0
    BY <2>1
  <2> HIDE DEF n
  <2> QED BY <1>1, <1>2, <2>1, <2>2, Fields
<1>4. pos \in Nat /\ pos < n
  <2>1. pos \in Nat /\ pos < Len(a.slots)
    BY <1>2, <1>3, Wrapped
  <2> QED BY <1>1, <2>1
<1>5. r = IF a.victim # None THEN a
          ELSE IF Lossless(e.full, at)
            THEN IF ~e.ref THEN [[a EXCEPT !.slots[pos + 1].ref = FALSE, !.hand = pos + 1]
                                    EXCEPT !.victim = pos, !.hand = pos]
                 ELSE [[a EXCEPT !.slots[pos + 1].ref = FALSE, !.hand = pos + 1]
                          EXCEPT !.first = IF @ = None THEN pos ELSE @]
          ELSE IF better THEN [[a EXCEPT !.slots[pos + 1].ref = FALSE, !.hand = pos + 1]
                                  EXCEPT !.limited = pos, !.marked = e.ref]
          ELSE [a EXCEPT !.slots[pos + 1].ref = FALSE, !.hand = pos + 1]
  BY Zenon DEF ClockScanStep
<1> HIDE DEF n, pos
<1>6. pos + 1 \in 1..n /\ pos + 1 \in Nat /\ pos + 1 <= conf.keys /\ pos <= conf.keys /\ pos # None
  <2>1. n <= conf.keys
    BY DEF n
  <2> QED BY <1>3, <1>4, <2>1 DEF None
<1>7. e \in Slots
  BY <1>1, <1>2, <1>6
<1>8. /\ t \in Seq(Slots) /\ Len(t) = n
      /\ \A i \in 1..n : SameSlot(t[i], m.slots[i])
  <2> DEFINE x == [e EXCEPT !.ref = FALSE]
             s == a.slots
  <2>1. x \in Slots /\ SameSlot(x, e)
    BY <1>7 DEF Slots, SameSlot
  <2>2. s \in Seq(Slots) /\ Len(s) = n /\ t = [s EXCEPT ![pos + 1] = x]
    BY <1>1, <1>2
  <2>3. \A i \in 1..n : SameSlot(s[i], m.slots[i])
    BY <1>1
  <2>4. e = s[pos + 1]
    OBVIOUS
  <2> HIDE DEF x, s, t, e
  <2>5. t \in Seq(Slots) /\ Len(t) = n /\ \A i \in 1..n : t[i] = IF i = pos + 1 THEN x ELSE s[i]
    BY <1>6, <2>1, <2>2
  <2>6. SameSlot(x, m.slots[pos + 1])
    BY <1>6, <2>1, <2>3, <2>4 DEF SameSlot
  <2> QED BY <2>3, <2>5, <2>6
<1>9. [a EXCEPT !.slots[pos + 1].ref = FALSE, !.hand = pos + 1] = b
  OBVIOUS
<1>10. e.full = m.slots[pos + 1].full /\ e.ref \in BOOLEAN
  BY <1>1, <1>6, <1>7 DEF SameSlot, Slots
<1> HIDE DEF t, e
<1>11. /\ b \in Hands /\ b.slots = t /\ b.hand = pos + 1 /\ b.victim = a.victim
       /\ b.first = a.first /\ b.limited = a.limited /\ b.marked = a.marked
  BY <1>1, <1>6, <1>8 DEF Hands
<1>12. r = IF a.victim # None THEN a
           ELSE IF Lossless(e.full, at)
             THEN IF ~e.ref THEN [b EXCEPT !.victim = pos, !.hand = pos]
                  ELSE [b EXCEPT !.first = IF @ = None THEN pos ELSE @]
           ELSE IF better THEN [b EXCEPT !.limited = pos, !.marked = e.ref] ELSE b
  BY <1>5, <1>9, Zenon
<1> HIDE DEF b, r
<1>13. CASE a.victim # None
  BY <1>12, <1>13 DEF Chosen, r
<1>14. CASE a.victim = None /\ Lossless(e.full, at) /\ ~e.ref
  <2>1. r = [b EXCEPT !.victim = pos, !.hand = pos]
    BY <1>12, <1>14
  <2>2. /\ r \in Hands /\ r.slots = t /\ r.hand = pos /\ r.victim = pos
        /\ r.first = a.first /\ r.limited = a.limited
    BY <1>4, <1>11, <2>1 DEF Hands
  <2>3. m.slots[pos + 1].full <= at
    BY <1>10, <1>14 DEF Lossless
  <2>4. r \in Scanned(m, at)
    BY <1>1, <1>4, <1>6, <1>8, <2>2, <2>3 DEF Scanned, n
  <2>5. Chosen(r)
    BY <1>6, <2>2 DEF Chosen
  <2> QED BY <2>4, <2>5 DEF r
<1>15. CASE a.victim = None /\ Lossless(e.full, at) /\ e.ref
  <2>1. r = [b EXCEPT !.first = p]
    BY <1>11, <1>12, <1>15
  <2>2. m.slots[pos + 1].full <= at
    BY <1>10, <1>15 DEF Lossless
  <2>3. p \in Nat /\ p < n /\ m.slots[p + 1].full <= at /\ p # None
    <3>1. CASE a.first = None
      BY <1>4, <1>6, <2>2, <3>1
    <3>2. CASE a.first # None
      BY <1>1, <1>2, <3>2
    <3> QED BY <3>1, <3>2
  <2> HIDE DEF p
  <2>4. /\ r \in Hands /\ r.slots = t /\ r.hand = pos + 1 /\ r.victim = None
        /\ r.first = p /\ r.limited = a.limited
    BY <1>11, <1>15, <2>1, <2>3 DEF Hands
  <2>5. r \in Scanned(m, at)
    BY <1>1, <1>6, <1>8, <2>3, <2>4 DEF Scanned, n
  <2>6. Chosen(r)
    BY <2>3, <2>4 DEF Chosen
  <2> QED BY <2>5, <2>6 DEF r
<1>16. CASE a.victim = None /\ ~Lossless(e.full, at) /\ better
  <2>1. r = [b EXCEPT !.limited = pos, !.marked = e.ref]
    BY <1>12, <1>16
  <2>2. /\ r \in Hands /\ r.slots = t /\ r.hand = pos + 1 /\ r.victim = None
        /\ r.first = a.first /\ r.limited = pos
    BY <1>4, <1>10, <1>11, <1>16, <2>1 DEF Hands
  <2>3. r \in Scanned(m, at)
    BY <1>1, <1>4, <1>6, <1>8, <2>2 DEF Scanned, n
  <2>4. Chosen(r)
    BY <1>6, <2>2 DEF Chosen
  <2> QED BY <2>3, <2>4 DEF r
<1>17. CASE a.victim = None /\ ~Lossless(e.full, at) /\ ~better
  <2>1. r = b
    BY <1>12, <1>17
  <2>2. r \in Scanned(m, at)
    BY <1>1, <1>6, <1>8, <1>11, <1>17, <2>1 DEF Scanned, n
  <2>3. Chosen(r)
    BY <1>11, <1>17, <2>1 DEF Chosen
  <2> QED BY <2>2, <2>3 DEF r
<1> QED BY <1>13, <1>14, <1>15, <1>16, <1>17

LEMMA ClockScanned ==
  ASSUME ConfSound(conf), NEW m \in Maps, Len(m.slots) <= conf.keys, m.slots # <<>>,
         m.hand <= conf.keys, NEW at \in Nat
  PROVE  ClockScanFrom(m, at) \in Scanned(m, at) /\ Chosen(ClockScanFrom(m, at))
<1> DEFINE S == Scanned(m, at)
           n == MinOf(ClockScan, Len(m.slots))
           x == [slots |-> m.slots, hand |-> m.hand, victim |-> None, first |-> None,
                 limited |-> None, marked |-> FALSE]
           F(h) == [i \in 0..n |-> IF i = 0 THEN x ELSE ClockScanStep(h[i - 1], at)]
           f == [a \in S |-> ClockScanStep(a, at)]
           after == CHOOSE h : h = F(h)
<1>1. m.slots \in Seq(Slots) /\ Len(m.slots) \in Nat /\ m.hand \in Nat /\ Len(m.slots) # 0
  BY MapParts
<1>2. x \in S
  <2>1. /\ x \in Hands /\ x.slots = m.slots /\ x.hand = m.hand
        /\ x.victim = None /\ x.first = None /\ x.limited = None
    BY <1>1 DEF Hands
  <2> HIDE DEF x
  <2> QED BY <2>1 DEF Scanned, SameSlot
<1>3. n \in Nat \ {0} /\ n \in Nat
  <2>1. ClockScan \in Nat \ {0}
    BY KeyStoreAssumption
  <2> QED BY <1>1, <2>1 DEF MinOf
<1>4. \A a \in S : ClockScanStep(a, at) \in S /\ Chosen(ClockScanStep(a, at))
  BY ClockScanStepScanned
<1>5. ClockScanFrom(m, at) = after[n]
  BY Zenon DEF ClockScanFrom
<1> HIDE DEF S, x
<1>6. f \in [S -> S]
  BY <1>4
<1>7. \A a \in S : f[a] = ClockScanStep(a, at)
  OBVIOUS
<1> HIDE DEF n, f
<1>8. PICK h : Iterates(h, S, x, f, n)
  BY <1>2, <1>3, <1>6, Repeated, Zenon
<1>9. h \in [0..n -> S] /\ h[0] = x /\ \A i \in 1..n : h[i] = f[h[i - 1]]
  BY <1>8 DEF Iterates
<1>10. h = F(h)
  <2>1. h = [i \in 0..n |-> h[i]]
    BY <1>9
  <2>2. ASSUME NEW i \in 0..n
        PROVE  h[i] = IF i = 0 THEN x ELSE ClockScanStep(h[i - 1], at)
    <3>1. CASE i = 0
      BY <1>9, <3>1
    <3>2. CASE i # 0
      <4>1. i \in 1..n /\ i - 1 \in 0..n
        BY <1>3, <3>2
      <4>2. h[i] = f[h[i - 1]] /\ h[i - 1] \in S
        BY <1>9, <4>1
      <4> QED BY <1>7, <3>2, <4>2
    <3> QED BY <3>1, <3>2
  <2> QED BY <2>1, <2>2
<1>11. after = F(after)
  <2> HIDE DEF F
  <2> QED BY <1>10, Zenon
<1> HIDE DEF after
<1>12. after[0] = x
  <2>1. 0 \in 0..n
    BY <1>3
  <2> QED BY <1>11, <2>1
<1>13. ASSUME NEW i \in 1..n
       PROVE  after[i] = ClockScanStep(after[i - 1], at)
  <2>1. i \in 0..n /\ i # 0
    BY <1>3
  <2> QED BY <1>11, <2>1
<1>14. after[n - 1] \in S
  <2> DEFINE k == n - 1
  <2>1. k \in Nat /\ \A i \in 1..k : i \in 1..n
    BY <1>3
  <2>2. ASSUME NEW i \in 1..k, after[i - 1] \in S PROVE after[i] \in S
    BY <1>4, <1>13, <2>1, <2>2
  <2> HIDE DEF k
  <2>3. after[k] \in S
    BY <1>2, <1>12, <2>1, <2>2, RepeatedKeeps
  <2> QED BY <2>3 DEF k
<1>15. after[n] = ClockScanStep(after[n - 1], at)
  <2>1. n \in 1..n
    BY <1>3
  <2> QED BY <1>13, <2>1
<1> QED BY <1>4, <1>5, <1>14, <1>15 DEF S

(* Marks are nobody's state. *)
LEMMA Remarked ==
  ASSUME NEW s \in Seq(Slots), NEW t \in Seq(Slots), Once(s), Len(t) = Len(s),
         \A i \in 1..Len(s) : SameSlot(t[i], s[i]),
         NEW D, NEW c, NEW g, NEW w, Cover(ToSet(s), D, c, g, w)
  PROVE  Once(t) /\ KeysOf(t) = KeysOf(s) /\ Cover(ToSet(t), D, c, g, w)
<1> DEFINE S == ToSet(s)
           T == ToSet(t)
<1>1. \A x \in T : \E y \in S : SameSlot(x, y)
  BY Members
<1>2. \A y \in S : \E x \in T : SameSlot(x, y)
  BY Members
<1>3. Once(t)
  BY DEF Once, SameSlot
<1> HIDE DEF S, T
<1>4. KeysOf(t) = KeysOf(s)
  BY <1>1, <1>2 DEF KeysOf, SameSlot, S, T
<1>5. Cover(S, D, c, g, w)
  BY DEF S
<1>6. \A x \in T : g[x.key] <= x.full
  BY <1>1, <1>5 DEF SameSlot, Cover
<1>7. \A x \in T : \A d \in D : x.key # d.key
  BY <1>1, <1>5 DEF SameSlot, Cover
<1>8. \A k \in Keys : (\A x \in T : x.key # k) /\ (\A d \in D : d.key # k) => g[k] <= w
  <2>1. \A k : (\A x \in T : x.key # k) => (\A y \in S : y.key # k)
    BY <1>2 DEF SameSlot
  <2> QED BY <1>5, <2>1, Zenon DEF Cover
<1>9. c.ttl # None => \A x \in T : Near(x.seen, x.last)
  BY <1>1, <1>5 DEF SameSlot, Cover
<1>10. Cover(T, D, c, g, w)
  BY <1>5, <1>6, <1>7, <1>8, <1>9, Zenon DEF Cover
<1> QED BY <1>3, <1>4, <1>10 DEF T

(* Debts of keys that owe nothing any more can go. *)
LEMMA CoverShrink ==
  ASSUME NEW S, NEW D, NEW c, NEW g, NEW w, Cover(S, D, c, g, w),
         NEW E \in SUBSET D, \A d \in D : d \in E \/ g[d.key] <= w
  PROVE  Cover(S, E, c, g, w)
<1>1. \A k \in Keys : (\A x \in S : x.key # k) /\ (\A d \in E : d.key # k) => g[k] <= w
  <2> SUFFICES ASSUME NEW k \in Keys, \A x \in S : x.key # k, \A d \in E : d.key # k,
                      ~(g[k] <= w)
               PROVE  FALSE
    OBVIOUS
  <2>1. \A d \in D : d.key # k
    OBVIOUS
  <2> QED BY <2>1, Zenon DEF Cover
<1> QED BY <1>1, Zenon DEF Cover

-----------------------------------------------------------------------------
(* Room is made, or the ledger is full of debts. *)

Forgiven(g, lost) == [k \in Keys |-> IF k \in lost THEN 0 ELSE g[k]]

Made(m, g, w, r) ==
  /\ r.lost \subseteq Keys
  /\ KeysOf(r.map.slots) \cup KeysOf(r.map.debts) \subseteq KeysOf(m.slots) \cup KeysOf(m.debts)
  /\ \/ /\ r.ok = TRUE
        /\ MapGood(conf, r.map, Forgiven(g, r.lost), w)
        /\ Len(r.map.slots) < conf.keys
     \/ /\ r.ok = FALSE
        /\ MapGood(conf, r.map, g, w)
        /\ r.lost = {} /\ Len(m.debts) >= conf.keys

LEMMA ForgivenFacts ==
  ASSUME NEW g \in [Keys -> Nat], NEW lost
  PROVE  /\ Forgiven(g, lost) \in [Keys -> Nat]
         /\ \A k \in Keys : Forgiven(g, lost)[k] <= g[k]
         /\ \A k \in Keys : k \in lost => Forgiven(g, lost)[k] = 0
         /\ Forgiven(g, {}) = g
BY DEF Forgiven

(* A recovered key goes. *)
LEMMA EvictRecovered ==
  ASSUME ConfSound(conf), NEW m, NEW g \in [Keys -> Nat], NEW w \in Nat, MapGood(conf, m, g, w),
         NEW pos \in Nat, pos < Len(m.slots), m.slots[pos + 1].full <= w
  PROVE  Made(m, g, w, [ok |-> TRUE, map |-> Evict(m, pos), lost |-> {}])
<1> DEFINE q == Evict(m, pos)
           r == [ok |-> TRUE, map |-> q, lost |-> {}]
<1>1. m \in Maps /\ Len(m.slots) <= conf.keys /\ m.sweep <= conf.keys /\ m.cursor <= conf.keys
  BY DEF MapGood, Tidy
<1>2. Len(m.slots) \in Nat /\ conf.keys \in Nat
  BY <1>1, MapParts, Fields
<1>3. pos + 1 \in Nat /\ pos + 1 <= conf.keys
  BY <1>1, <1>2
<1>4. /\ q.slots = SwapRemove(m.slots, pos) /\ q.debts = m.debts
      /\ q.hand = pos + 1 /\ q.sweep = m.sweep /\ q.cursor = m.cursor
      /\ q.slots \in Seq(Slots) => q \in Maps
  BY <1>1, <1>3 DEF Maps, Evict
<1> HIDE DEF q
<1>5. SlotLeaves(conf, m, g, w, pos, q)
  BY <1>1, <1>3, <1>4 DEF SlotLeaves
<1>6. SlotLeft(conf, m, g, w, pos, q)
  BY <1>2, <1>5, SlotDropped
<1>7. MapGood(conf, q, g, w) /\ KeysOf(q.slots) \subseteq KeysOf(m.slots)
  BY <1>6 DEF SlotLeft
<1>8. Len(q.slots) < conf.keys
  <2>1. Len(q.slots) = Len(m.slots) - 1
    BY <1>6 DEF SlotLeft
  <2> QED BY <1>1, <1>2, <2>1
<1>9. Forgiven(g, {}) = g
  BY ForgivenFacts
<1>10. r.ok = TRUE /\ r.map = q /\ r.lost = {}
  OBVIOUS
<1> HIDE DEF r
<1>11. Made(m, g, w, r)
  BY <1>4, <1>7, <1>8, <1>9, <1>10 DEF Made
<1> QED BY <1>11 DEF r, q

(* A limited key goes, and the ledger remembers it. *)
LEMMA EvictLimited ==
  ASSUME ConfSound(conf), NEW m, NEW g \in [Keys -> Nat], NEW w \in Nat, MapGood(conf, m, g, w),
         NEW at \in Nat, at <= w,
         NEW pos \in Nat, pos < Len(m.slots), NEW e, e = m.slots[pos + 1],
         NEW kept,
         kept = Record(m, [key |-> e.key, at |-> MaxOf(e.full, at)], at, conf.keys, conf.forget)
  PROVE  Made(m, g, w, [kept EXCEPT !.map = IF kept.ok THEN Evict(@, pos) ELSE @])
<1> DEFINE debt == [key |-> e.key, at |-> MaxOf(e.full, at)]
           s == m.slots
           S == ToSet(s)
           D == ToSet(m.debts)
           r == [kept EXCEPT !.map = IF kept.ok THEN Evict(@, pos) ELSE @]
<1>1. /\ m \in Maps /\ Once(s) /\ Len(s) <= conf.keys /\ m.hand <= conf.keys
      /\ m.sweep <= conf.keys /\ m.cursor <= conf.keys /\ Tidy(conf, m.debts)
      /\ Cover(S, D, conf, g, w)
  BY DEF MapGood, Tidy
<1>2. /\ s \in Seq(Slots) /\ Len(s) \in Nat /\ m.debts \in Seq(Debts)
      /\ S \in SUBSET Slots /\ D \in SUBSET Debts
  BY <1>1, MapParts
<1>3. conf.keys \in Nat \ {0} /\ conf.keys \in Nat
  BY Fields
<1>4. pos + 1 \in 1..Len(s) /\ pos + 1 \in Nat /\ pos + 1 <= conf.keys
  <2>1. pos < Len(s)
    OBVIOUS
  <2> HIDE DEF s
  <2> QED BY <1>1, <1>2, <1>3, <2>1
<1>5. e \in S /\ e \in Slots /\ (\A x \in S : x.key = e.key => x = e)
  <2>1. e = s[pos + 1]
    OBVIOUS
  <2> HIDE DEF s
  <2> QED BY <1>1, <1>2, <1>4, <2>1, OnceFacts
<1>6. debt \in Debts /\ debt.key = e.key /\ e.full <= debt.at
  <2>1. e.key \in Keys /\ e.full \in Nat
    BY <1>5 DEF Slots
  <2>2. MaxOf(e.full, at) \in Nat /\ e.full <= MaxOf(e.full, at)
    BY <2>1 DEF MaxOf
  <2> QED BY <2>1, <2>2 DEF Debts
<1> HIDE DEF debt
<1>7. debt.key \notin KeysOf(m.debts)
  BY <1>1, <1>5, <1>6 DEF KeysOf, Cover
<1>8. kept = Record(m, debt, at, conf.keys, conf.forget)
  BY DEF debt
<1>9. Recorded(m, debt, at, kept)
  BY <1>1, <1>6, <1>7, <1>8, RecordFacts
<1> DEFINE q == kept.map
           E == ToSet(q.debts)
<1>10. /\ q \in Maps /\ q.slots = s /\ q.hand = m.hand /\ q.sweep = m.sweep
       /\ q.cursor <= conf.keys /\ Tidy(conf, q.debts)
  BY <1>9 DEF Recorded
<1>11. \E ok, mm, lo : kept = [ok |-> ok, map |-> mm, lost |-> lo]
  BY <1>8, Zenon DEF Record
<1> HIDE DEF S, D, E
<1>12. CASE kept.ok = TRUE
  <2> DEFINE u == Evict(q, pos)
             h == Forgiven(g, kept.lost)
  <2>1. /\ debt \in E /\ E \subseteq D \cup {debt}
        /\ \A d \in D : d \in E \/ d.at <= at \/ d.key \in kept.lost
        /\ kept.lost \subseteq KeysOf(m.debts)
    BY <1>9, <1>12 DEF Recorded, D, E
  <2>2. r.ok = TRUE /\ r.map = u /\ r.lost = kept.lost
    BY <1>11, <1>12
  <2>3. /\ u.slots = SwapRemove(s, pos) /\ u.debts = q.debts
        /\ u.hand = pos + 1 /\ u.sweep = m.sweep /\ u.cursor = q.cursor
        /\ u.slots \in Seq(Slots) => u \in Maps
    BY <1>4, <1>10 DEF Maps, Evict
  <2> HIDE DEF u, r, s, q
  <2> DEFINE t == SwapRemove(s, pos)
  <2>4. /\ t \in Seq(Slots) /\ Once(t) /\ Len(t) = Len(s) - 1
        /\ ToSet(t) = ToSet(s) \ {e} /\ KeysOf(t) = KeysOf(s) \ {e.key}
    <3>1. pos < Len(s) /\ e = s[pos + 1]
      BY DEF s
    <3> QED BY <1>1, <1>2, <3>1, SwapRemoved
  <2> HIDE DEF t
  <2>5. h \in [Keys -> Nat] /\ (\A k \in Keys : h[k] <= g[k]) /\ \A k \in Keys : k \in kept.lost => h[k] = 0
    BY ForgivenFacts
  <2> HIDE DEF h
  <2>6. Cover(S, D, conf, h, w)
    <3>1. w <= w
      OBVIOUS
    <3> QED BY <1>1, <1>2, <2>5, <3>1, CoverLower
  <2>7. Cover(S \ {e}, D \cup {debt}, conf, h, w)
    BY <1>2, <1>5, <1>6, <2>5, <2>6, CoverMove
  <2>8. \A d \in D \cup {debt} : d \in E \/ h[d.key] <= w
    <3> SUFFICES ASSUME NEW d \in D, d \notin E PROVE h[d.key] <= w
      BY <2>1
    <3>1. d.key \in Keys /\ d.at \in Nat /\ h[d.key] <= d.at /\ h[d.key] \in Nat
      BY <1>2, <2>5, <2>6 DEF Debts, Cover
    <3>2. CASE d.at <= at
      BY <3>1, <3>2
    <3>3. CASE d.key \in kept.lost
      BY <2>5, <3>1, <3>3
    <3> QED BY <2>1, <3>2, <3>3
  <2>9. Cover(S \ {e}, E, conf, h, w)
    BY <2>1, <2>7, <2>8, CoverShrink
  <2>10. Tidy(conf, t) /\ Len(t) < conf.keys
    <3>1. Len(t) < conf.keys /\ Len(t) <= conf.keys
      BY <1>1, <1>2, <1>3, <2>4
    <3> QED BY <2>4, <3>1 DEF Tidy
  <2>11. MapGood(conf, u, h, w)
    <3>1. u \in Maps /\ u.hand <= conf.keys /\ u.sweep <= conf.keys /\ u.cursor <= conf.keys
      BY <1>1, <1>4, <1>10, <2>3, <2>4 DEF t, s, q
    <3>2. ToSet(u.slots) = S \ {e} /\ ToSet(u.debts) = E /\ u.slots = t /\ u.debts = q.debts
      BY <2>3, <2>4 DEF t, S, E
    <3> QED BY <1>10, <2>9, <2>10, <3>1, <3>2 DEF MapGood
  <2>12. kept.lost \subseteq Keys
    BY <1>2, <2>1 DEF KeysOf, Debts, D
  <2>13. KeysOf(u.slots) \cup KeysOf(u.debts) \subseteq KeysOf(s) \cup KeysOf(m.debts)
    <3>1. KeysOf(u.slots) \subseteq KeysOf(s)
      BY <2>3, <2>4 DEF t
    <3>2. \A x \in E : x \in D \/ x = debt
      BY <2>1
    <3>3. KeysOf(u.debts) \subseteq KeysOf(m.debts) \cup {e.key}
      BY <1>6, <2>3, <3>2 DEF KeysOf, E, D
    <3>4. e.key \in KeysOf(s)
      BY <1>5 DEF KeysOf, S
    <3> QED BY <3>1, <3>3, <3>4
  <2>14. Len(u.slots) < conf.keys
    BY <2>3, <2>10 DEF t
  <2>15. Made(m, g, w, r)
    BY <2>2, <2>11, <2>12, <2>13, <2>14 DEF Made, h, s
  <2> QED BY <2>15 DEF r
<1>13. CASE kept.ok = FALSE
  <2>1. q.debts = m.debts /\ kept.lost = {} /\ Len(m.debts) >= conf.keys
    BY <1>9, <1>13 DEF Recorded
  <2>2. r.ok = FALSE /\ r.map = q /\ r.lost = {}
    BY <1>11, <1>13, <2>1
  <2> HIDE DEF r, q
  <2>3. MapGood(conf, q, g, w)
    BY <1>1, <1>10, <2>1, CursorsMoved
  <2>4. Made(m, g, w, r)
    BY <1>10, <2>1, <2>2, <2>3 DEF Made
  <2> QED BY <2>4 DEF r
<1> QED BY <1>9, <1>12, <1>13 DEF Recorded

LEMMA EvictOneMade ==
  ASSUME ConfSound(conf), NEW m, NEW g \in [Keys -> Nat], NEW w \in Nat, MapGood(conf, m, g, w),
         m.slots # <<>>, NEW at \in Nat, at <= w
  PROVE  Made(m, g, w, EvictOne(m, at))
<1> DEFINE scan == ClockScanFrom(m, at)
           m1 == [m EXCEPT !.slots = scan.slots, !.hand = scan.hand]
           recovered == IF scan.victim # None THEN scan.victim ELSE scan.first
           e == scan.slots[scan.limited + 1]
           kept == Record(m1, [key |-> e.key, at |-> MaxOf(e.full, at)], at, conf.keys, conf.forget)
           r == EvictOne(m, at)
<1>1. /\ m \in Maps /\ Once(m.slots) /\ Len(m.slots) <= conf.keys /\ m.hand <= conf.keys
      /\ m.sweep <= conf.keys /\ m.cursor <= conf.keys /\ Tidy(conf, m.debts)
      /\ Cover(ToSet(m.slots), ToSet(m.debts), conf, g, w)
  BY DEF MapGood, Tidy
<1>2. m.slots \in Seq(Slots) /\ Len(m.slots) \in Nat
  BY <1>1, MapParts
<1>3. scan \in Scanned(m, at) /\ Chosen(scan)
  BY <1>1, ClockScanned
<1>4. r = IF recovered # None
            THEN [ok |-> TRUE, map |-> Evict(m1, recovered), lost |-> {}]
            ELSE [kept EXCEPT !.map = IF kept.ok THEN Evict(@, scan.limited) ELSE @]
  BY Zenon DEF EvictOne
<1> HIDE DEF scan, r
<1>5. /\ scan.slots \in Seq(Slots) /\ scan.hand \in Nat /\ scan.victim \in Nat \cup {None}
      /\ scan.first \in Nat \cup {None} /\ scan.limited \in Nat \cup {None}
      /\ Len(scan.slots) = Len(m.slots) /\ scan.hand <= conf.keys
      /\ \A i \in 1..Len(m.slots) : SameSlot(scan.slots[i], m.slots[i])
  BY <1>3 DEF Scanned, Hands
<1>6. /\ m1 \in Maps /\ m1.slots = scan.slots /\ m1.hand = scan.hand /\ m1.sweep = m.sweep
      /\ m1.cursor = m.cursor /\ m1.debts = m.debts
  BY <1>1, <1>5 DEF Maps
<1> HIDE DEF m1
<1>7. /\ Once(scan.slots) /\ KeysOf(scan.slots) = KeysOf(m.slots)
      /\ Cover(ToSet(scan.slots), ToSet(m.debts), conf, g, w)
  BY <1>1, <1>2, <1>5, Remarked
<1>8. MapGood(conf, m1, g, w)
  BY <1>1, <1>5, <1>6, <1>7 DEF MapGood, Tidy
<1>9. ASSUME Made(m1, g, w, r) PROVE Made(m, g, w, r)
  BY <1>6, <1>7, <1>9 DEF Made
<1>10. CASE recovered # None
  <2> DEFINE p == recovered
  <2>1. p \in Nat /\ p < Len(m.slots) /\ m.slots[p + 1].full <= at
    <3>1. CASE scan.victim # None
      BY <1>3, <1>5, <3>1 DEF Scanned
    <3>2. CASE scan.victim = None
      BY <1>3, <1>5, <1>10, <3>2 DEF Scanned
    <3> QED BY <3>1, <3>2
  <2>2. r = [ok |-> TRUE, map |-> Evict(m1, p), lost |-> {}]
    BY <1>4, <1>10
  <2> HIDE DEF recovered, p
  <2>3. p + 1 \in 1..Len(m.slots) /\ p < Len(m1.slots)
    BY <1>2, <1>5, <1>6, <2>1
  <2>4. m1.slots[p + 1].full = m.slots[p + 1].full
    BY <1>5, <1>6, <2>3 DEF SameSlot
  <2>5. m1.slots[p + 1].full <= w
    <3>1. m.slots[p + 1] \in Slots
      BY <1>2, <2>3
    <3>2. m.slots[p + 1].full \in Nat
      BY <3>1 DEF Slots
    <3> QED BY <2>1, <2>4, <3>2
  <2>6. Made(m1, g, w, r)
    BY <1>8, <2>1, <2>2, <2>3, <2>5, EvictRecovered
  <2> QED BY <1>9, <2>6 DEF r
<1>11. CASE recovered = None
  <2>1. scan.limited # None
    BY <1>3, <1>11 DEF Chosen
  <2> DEFINE p == scan.limited
  <2>2. p \in Nat /\ p < Len(m.slots)
    BY <1>3, <1>5, <2>1 DEF Scanned
  <2>3. r = [kept EXCEPT !.map = IF kept.ok THEN Evict(@, p) ELSE @]
    BY <1>4, <1>11
  <2>4. e = m1.slots[p + 1] /\ p < Len(m1.slots)
    BY <1>5, <1>6, <2>2
  <2>5. kept = Record(m1, [key |-> e.key, at |-> MaxOf(e.full, at)], at, conf.keys, conf.forget)
    OBVIOUS
  <2> HIDE DEF kept, e, p
  <2>6. Made(m1, g, w, [kept EXCEPT !.map = IF kept.ok THEN Evict(@, p) ELSE @])
    BY <1>8, <2>2, <2>4, <2>5, EvictLimited
  <2>7. Made(m1, g, w, r)
    BY <2>3, <2>6
  <2> QED BY <1>9, <2>7 DEF r
<1> QED BY <1>10, <1>11

LEMMA MakeRoomMade ==
  ASSUME ConfSound(conf), NEW m, NEW g \in [Keys -> Nat], NEW w \in Nat, MapGood(conf, m, g, w),
         NEW at \in Nat, at <= w
  PROVE  Made(m, g, w, MakeRoom(m, at))
<1> DEFINE idle == SweepIdle(m, at)
           swept == SweepDebts(idle, at)
           r == MakeRoom(m, at)
<1>1. m \in Maps
  BY DEF MapGood
<1>2. idle \in Swept(m, at, g, w)
  BY SweepIdleSwept
<1> HIDE DEF idle
<1>3. /\ MapGood(conf, idle, g, w) /\ idle.debts = m.debts
      /\ KeysOf(idle.slots) \subseteq KeysOf(m.slots)
  BY <1>2 DEF Swept
<1>4. swept \in Settled(idle, g, w)
  BY <1>3, SweepDebtsSettled
<1>5. r = IF Len(swept.slots) >= conf.keys THEN EvictOne(swept, at)
          ELSE [ok |-> TRUE, map |-> swept, lost |-> {}]
  BY Zenon DEF MakeRoom, idle
<1> HIDE DEF swept, r
<1>6. /\ MapGood(conf, swept, g, w) /\ swept.slots = idle.slots
      /\ KeysOf(swept.debts) \subseteq KeysOf(m.debts)
      /\ Len(swept.debts) <= Len(m.debts) /\ swept \in Maps
  BY <1>3, <1>4 DEF Settled
<1>7. KeysOf(swept.slots) \cup KeysOf(swept.debts) \subseteq KeysOf(m.slots) \cup KeysOf(m.debts)
  BY <1>3, <1>6
<1>8. /\ conf.keys \in Nat \ {0} /\ Len(swept.slots) \in Nat /\ swept.slots \in Seq(Slots)
      /\ Len(swept.debts) \in Nat /\ Len(m.debts) \in Nat
  BY <1>1, <1>6, MapParts, Fields
<1>9. CASE Len(swept.slots) >= conf.keys
  <2>1. swept.slots # <<>>
    BY <1>8, <1>9
  <2>2. Made(swept, g, w, r)
    BY <1>5, <1>6, <1>9, <2>1, EvictOneMade
  <2>3. Len(swept.debts) >= conf.keys => Len(m.debts) >= conf.keys
    BY <1>6, <1>8
  <2>4. Made(m, g, w, r)
    BY <1>7, <2>2, <2>3 DEF Made
  <2> QED BY <2>4 DEF r
<1>10. CASE ~(Len(swept.slots) >= conf.keys)
  <2>1. r = [ok |-> TRUE, map |-> swept, lost |-> {}]
    BY <1>5, <1>10
  <2>2. r.ok = TRUE /\ r.map = swept /\ r.lost = {}
    BY <2>1
  <2>3. Len(swept.slots) < conf.keys /\ Forgiven(g, {}) = g
    BY <1>8, <1>10, ForgivenFacts
  <2>4. Made(m, g, w, r)
    BY <1>6, <1>7, <2>2, <2>3 DEF Made
  <2> QED BY <2>4 DEF r
<1> QED BY <1>9, <1>10

-----------------------------------------------------------------------------
(* The inductive invariant. *)

Calls == {NoCall} \cup [kind : {"take", "touch"}, key : Keys, cost : Nat, budget : Nat, at : Nat]
                  \cup [kind : {"refund"}, key : Keys, cost : Nat]

(* The reading of a call is no newer than the clock; that of one inside    *)
(* the read lock is not old.                                               *)
CallTimely(q) ==
  /\ q.kind \in {"take", "touch"} => q.at <= clock
  /\ q.kind = "touch" => clock <= q.at + Staleness

(* The read lock keeps the entry of whoever is inside. *)
Held == \A c \in Callers : call[c].kind = "touch" => call[c].key \in Live(map)

(* The map backs the history. *)
StoreInv ==
  /\ ConfSound(conf)
  /\ clock \in 0..conf.until /\ newest \in 0..clock
  /\ ghost \in [Keys -> Nat]
  /\ call \in [Callers -> Calls]
  /\ \A c \in Callers : CallTimely(call[c])
  /\ Held
  /\ MapGood(conf, map, ghost, newest)

LEMMA InvParts ==
  ASSUME StoreInv
  PROVE  /\ ConfSound(conf) /\ clock \in Nat /\ newest \in Nat /\ newest <= clock
         /\ conf.until \in Nat /\ clock <= conf.until
         /\ ghost \in [Keys -> Nat] /\ call \in [Callers -> Calls]
         /\ MapGood(conf, map, ghost, newest) /\ map \in Maps
         /\ conf.keys \in Nat \ {0} /\ conf.keys \in Nat
<1>1. conf.until \in Nat /\ conf.keys \in Nat \ {0}
  BY Fields DEF StoreInv
<1>2. map \in Maps
  BY DEF StoreInv, MapGood
<1>3. clock \in 0..conf.until /\ newest \in 0..clock
  BY DEF StoreInv
<1>4. clock \in Nat /\ newest \in Nat /\ newest <= clock /\ clock <= conf.until
  BY <1>1, <1>3
<1> QED BY <1>1, <1>2, <1>4 DEF StoreInv

LEMMA SlotAt ==
  ASSUME StoreInv, NEW k \in Live(map)
  PROVE  /\ SlotOf(map, k) \in 1..Len(map.slots)
         /\ map.slots[SlotOf(map, k)].key = k
         /\ map.slots[SlotOf(map, k)] \in ToSet(map.slots)
         /\ map.slots[SlotOf(map, k)] \in Slots
<1>1. map \in Maps /\ map.slots \in Seq(Slots) /\ Live(map) = KeysOf(map.slots)
  BY InvParts, MapParts
<1> DEFINE n == SlotOf(map, k)
           s == map.slots
<1>2. n = CHOOSE i \in DOMAIN s : s[i].key = k
  BY DEF SlotOf
<1>3. s \in Seq(Slots) /\ k \in KeysOf(s)
  BY <1>1
<1> HIDE DEF n, s
<1>4. n \in 1..Len(s) /\ s[n].key = k /\ s[n] \in ToSet(s) /\ s[n] \in Slots
  BY <1>2, <1>3, Located
<1> QED BY <1>4 DEF n, s

LEMMA DebtAt ==
  ASSUME StoreInv, NEW k \in Owed(map)
  PROVE  /\ DebtOf(map, k) \in 1..Len(map.debts)
         /\ map.debts[DebtOf(map, k)].key = k
         /\ map.debts[DebtOf(map, k)] \in ToSet(map.debts)
         /\ map.debts[DebtOf(map, k)] \in Debts
<1>1. map \in Maps /\ map.debts \in Seq(Debts) /\ Owed(map) = KeysOf(map.debts)
  BY InvParts, MapParts
<1> DEFINE n == DebtOf(map, k)
           s == map.debts
<1>2. n = CHOOSE i \in DOMAIN s : s[i].key = k
  BY DEF DebtOf
<1>3. s \in Seq(Debts) /\ k \in KeysOf(s)
  BY <1>1
<1> HIDE DEF n, s
<1>4. n \in 1..Len(s) /\ s[n].key = k /\ s[n] \in ToSet(s) /\ s[n] \in Debts
  BY <1>2, <1>3, Located
<1> QED BY <1>4 DEF n, s

(* Nobody has both; who has neither was full by the newest reading. *)
LEMMA WhoOwes ==
  ASSUME StoreInv
  PROVE  /\ Live(map) \cap Owed(map) = {}
         /\ \A k \in Keys : k \notin Live(map) /\ k \notin Owed(map) => ghost[k] <= newest
<1>1. /\ map \in Maps /\ Live(map) = KeysOf(map.slots) /\ Owed(map) = KeysOf(map.debts)
      /\ MapGood(conf, map, ghost, newest)
  BY InvParts, MapParts
<1> DEFINE S == ToSet(map.slots)
           D == ToSet(map.debts)
<1>2. Cover(S, D, conf, ghost, newest)
  BY <1>1 DEF MapGood
<1>3. Live(map) = {e.key : e \in S} /\ Owed(map) = {d.key : d \in D}
  BY <1>1 DEF KeysOf
<1> HIDE DEF S, D
<1>4. Live(map) \cap Owed(map) = {}
  BY <1>2, <1>3 DEF Cover
<1>5. ASSUME NEW k \in Keys, k \notin Live(map), k \notin Owed(map)
      PROVE  ghost[k] <= newest
  <2>1. (\A e \in S : e.key # k) /\ (\A d \in D : d.key # k)
    BY <1>3, <1>5
  <2> QED BY <1>2, <2>1, Zenon DEF Cover
<1> QED BY <1>4, <1>5

(* What a caller sees is no fuller than the history. *)
LEMMA ViewBacked ==
  ASSUME StoreInv, NEW k \in Keys, NEW at \in Nat
  PROVE  /\ View(map, k, at) \in Nat
         /\ newest <= at \/ k \in Live(map) => ghost[k] <= View(map, k, at)
<1>1. /\ ConfSound(conf) /\ newest \in Nat /\ ghost \in [Keys -> Nat] /\ map \in Maps
      /\ MapGood(conf, map, ghost, newest)
  BY InvParts
<1>2. Cover(ToSet(map.slots), ToSet(map.debts), conf, ghost, newest)
  BY <1>1 DEF MapGood
<1>3. CASE k \in Live(map)
  <2> DEFINE e == map.slots[SlotOf(map, k)]
  <2>1. View(map, k, at) = e.full
    BY <1>3 DEF View
  <2>2. e.key = k /\ e \in ToSet(map.slots) /\ e \in Slots
    BY <1>3, SlotAt
  <2> HIDE DEF e
  <2>3. e.full \in Nat /\ ghost[e.key] <= e.full
    BY <1>2, <2>2 DEF Cover, Slots
  <2> QED BY <2>1, <2>2, <2>3
<1>4. CASE k \notin Live(map) /\ k \in Owed(map)
  <2> DEFINE d == map.debts[DebtOf(map, k)]
  <2>1. View(map, k, at) = Restored(at, d.at)
    BY <1>4 DEF View
  <2>2. d.key = k /\ d \in ToSet(map.debts) /\ d \in Debts
    BY <1>4, DebtAt
  <2> HIDE DEF d
  <2>3. d.at \in Nat /\ ghost[k] <= d.at
    BY <1>2, <2>2 DEF Cover, Debts
  <2>4. Restored(at, d.at) \in Nat /\ d.at <= Restored(at, d.at)
    BY <1>1, <2>3, RestoredFull
  <2>5. ghost[k] \in Nat
    BY <1>1
  <2> DEFINE v == View(map, k, at)
  <2>6. v \in Nat /\ d.at <= v
    BY <2>1, <2>4
  <2> HIDE DEF v
  <2>7. ghost[k] <= v
    BY <2>3, <2>5, <2>6
  <2> QED BY <2>6, <2>7 DEF v
<1>5. CASE k \notin Live(map) /\ k \notin Owed(map)
  <2>1. View(map, k, at) = Fresh(at)
    BY <1>5 DEF View
  <2>2. Fresh(at) \in Nat /\ at <= Fresh(at)
    BY <1>1, FreshFull
  <2>3. ghost[k] <= newest /\ ghost[k] \in Nat
    BY <1>1, <1>5, WhoOwes
  <2> DEFINE v == Fresh(at)
  <2> HIDE DEF v
  <2>4. v \in Nat /\ at <= v
    BY <2>2 DEF v
  <2>5. newest <= at => ghost[k] <= v
    BY <1>1, <2>3, <2>4
  <2> QED BY <1>5, <2>1, <2>4, <2>5 DEF v
<1> QED BY <1>3, <1>4, <1>5

-----------------------------------------------------------------------------
(* The operations keep it. *)

Kept == MapGood(conf, map', ghost', newest') /\ ghost' \in [Keys -> Nat] /\ newest' \in 0..clock

(* A newer stamp, beside a newer reading. *)
LEMMA NearGrows ==
  ASSUME clock \in Nat, NEW a \in Nat, NEW l \in Nat, Near(a, l), NEW at \in Nat, at <= clock
  PROVE  /\ MaxOf(a, Millis(at)) \in Nat /\ MaxOf(l, at) \in Nat
         /\ Near(MaxOf(a, Millis(at)), MaxOf(l, at))
<1> DEFINE x == at \div Ms
           y == MaxOf(a, x)
           b == MaxOf(l, at)
<1>1. Ms \in Nat \ {0} /\ Staleness \in Nat
  BY KeyStoreAssumption, StalenessType
<1>2. x \in Nat /\ at < x * Ms + Ms
  BY <1>1, Division
<1> HIDE DEF x
<1>3. y \in Nat /\ a <= y /\ x <= y
  BY <1>2 DEF MaxOf
<1>4. b \in Nat /\ b <= clock /\ (b = l \/ b = at)
  BY DEF MaxOf, Near
<1> HIDE DEF y, b
<1>5. a * Ms <= y * Ms /\ x * Ms <= y * Ms
  BY <1>1, <1>2, <1>3, Scaled
<1>6. l < a * Ms + Ms + Staleness
  BY DEF Near
<1> DEFINE u == a * Ms
           v == x * Ms
           z == y * Ms
<1>7. u \in Nat /\ v \in Nat /\ z \in Nat
  BY <1>1, <1>2, <1>3
<1>8. u <= z /\ v <= z /\ l < u + Ms + Staleness /\ at < v + Ms
  BY <1>2, <1>5, <1>6
<1> HIDE DEF u, v, z
<1>9. b < z + Ms + Staleness
  BY <1>1, <1>4, <1>7, <1>8
<1>10. Near(y, b)
  BY <1>4, <1>9 DEF Near, z
<1> QED BY <1>3, <1>4, <1>10 DEF x, y, b, Millis

(* A stamp stored late. *)
LEMMA NearStored ==
  ASSUME clock \in Nat, NEW l \in Nat, l <= clock,
         NEW at \in Nat, at <= clock, clock <= at + Staleness
  PROVE  Millis(at) \in Nat /\ MaxOf(l, at) \in Nat /\ Near(Millis(at), MaxOf(l, at))
<1> DEFINE x == at \div Ms
           b == MaxOf(l, at)
<1>1. Ms \in Nat \ {0} /\ Staleness \in Nat
  BY KeyStoreAssumption, StalenessType
<1>2. x \in Nat /\ at < x * Ms + Ms
  BY <1>1, Division
<1> HIDE DEF x
<1>3. b \in Nat /\ b <= clock
  BY DEF MaxOf
<1> HIDE DEF b
<1> DEFINE v == x * Ms
<1>4. v \in Nat /\ at < v + Ms
  BY <1>1, <1>2
<1> HIDE DEF v
<1>5. b < v + Ms + Staleness
  BY <1>1, <1>3, <1>4
<1>6. Near(x, b)
  BY <1>3, <1>5 DEF Near, v
<1> QED BY <1>2, <1>3, <1>6 DEF x, b, Millis

(* One entry and its key's history change. *)
LEMMA SlotEdited ==
  ASSUME StoreInv, NEW k \in Live(map), NEW f \in Slots, f.key = k,
         conf.ttl # None => Near(f.seen, f.last),
         map' = [map EXCEPT !.slots[SlotOf(map, k)] = f],
         NEW v \in Nat, v <= f.full,
         ghost' = [ghost EXCEPT ![k] = v], newest' = newest
  PROVE  /\ Kept
         /\ Live(map') = Live(map)
<1> DEFINE n == SlotOf(map, k)
           s == map.slots
           t == [s EXCEPT ![n] = f]
           e == s[n]
<1>1. /\ ConfSound(conf) /\ newest \in Nat /\ newest <= clock /\ clock \in Nat /\ map \in Maps
      /\ ghost \in [Keys -> Nat] /\ MapGood(conf, map, ghost, newest)
  BY InvParts
<1>2. /\ Once(s) /\ Len(s) <= conf.keys /\ Tidy(conf, map.debts)
      /\ map.hand <= conf.keys /\ map.sweep <= conf.keys /\ map.cursor <= conf.keys
      /\ Cover(ToSet(s), ToSet(map.debts), conf, ghost, newest)
  BY <1>1 DEF MapGood, Tidy
<1>3. s \in Seq(Slots) /\ ToSet(s) \in SUBSET Slots /\ ToSet(map.debts) \in SUBSET Debts
  BY <1>1, MapParts
<1>4. n \in 1..Len(s) /\ e.key = k /\ e \in ToSet(s) /\ e \in Slots
  BY SlotAt
<1>5. k \in Keys
  BY <1>4 DEF Slots
<1>6. map' = [map EXCEPT !.slots = t]
  BY <1>1
<1> HIDE DEF n, s, e
<1>7. /\ t \in Seq(Slots) /\ Once(t) /\ Len(t) = Len(s)
      /\ ToSet(t) = (ToSet(s) \ {e}) \cup {f} /\ KeysOf(t) = KeysOf(s)
  <2>1. e = s[n] /\ f.key = s[n].key
    BY <1>4 DEF e
  <2>2. Replaced(t, s, n, f)
    BY DEF Replaced
  <2> HIDE DEF t
  <2> QED BY <1>2, <1>3, <1>4, <2>1, <2>2, ReplacedOnce
<1> HIDE DEF t
<1>8. /\ map' \in Maps /\ map'.slots = t /\ map'.debts = map.debts
      /\ map'.hand = map.hand /\ map'.sweep = map.sweep /\ map'.cursor = map.cursor
  BY <1>1, <1>6, <1>7 DEF Maps
<1>9. ghost' \in [Keys -> Nat] /\ ghost'[k] = v /\ \A j \in Keys : j # k => ghost'[j] = ghost[j]
  BY <1>1, <1>5
<1>10. \A x \in ToSet(s) : x.key = e.key => x = e
  BY <1>2, <1>3, <1>4, OnceFacts
<1>11. Cover(ToSet(t), ToSet(map.debts), conf, ghost', newest)
  <2> DEFINE S == ToSet(s)
             D == ToSet(map.debts)
             h == ghost'
  <2>1. ToSet(t) = (S \ {e}) \cup {f} /\ e \in S /\ (\A x \in S : x.key = e.key => x = e)
        /\ S \in SUBSET Slots /\ D \in SUBSET Debts /\ Cover(S, D, conf, ghost, newest)
    BY <1>2, <1>3, <1>4, <1>7, <1>10
  <2>2. h \in [Keys -> Nat] /\ (\A j \in Keys : j # e.key => h[j] = ghost[j]) /\ h[e.key] <= f.full
        /\ f.key = e.key
    BY <1>4, <1>9
  <2> HIDE DEF S, D, h
  <2>3. Cover((S \ {e}) \cup {f}, D, conf, h, newest)
    BY <1>1, <2>1, <2>2, CoverEdit
  <2> QED BY <2>1, <2>3 DEF h, D
<1>12. MapGood(conf, map', ghost', newest')
  BY <1>2, <1>7, <1>8, <1>11 DEF MapGood, Tidy
<1>13. Live(map') = KeysOf(t) /\ Live(map) = KeysOf(s)
  BY <1>1, <1>8, MapParts DEF s
<1>14. newest' \in 0..clock
  BY <1>1
<1> QED BY <1>7, <1>9, <1>12, <1>13, <1>14 DEF Kept

(* What a call makes of the entry e of k it finds. *)
GoodCharge(k, at, cost, budget, e, f) ==
  /\ f \in Slots /\ f.key = k
  /\ Spent(ghost[k], View(map, k, at), at, cost, budget) \in Nat
  /\ Spent(ghost[k], View(map, k, at), at, cost, budget) <= f.full
  /\ conf.ttl # None => /\ Near(f.seen, f.last) /\ f.last = MaxOf(e.last, at)
                        /\ e.last \in Nat /\ e.last <= clock

LEMMA ChargeSlot ==
  ASSUME StoreInv, NEW k \in Live(map), NEW at \in Nat, at <= clock,
         NEW cost \in Nat, NEW budget \in Nat, NEW e, e = map.slots[SlotOf(map, k)]
  PROVE  GoodCharge(k, at, cost, budget, e, Charge(e, at, cost, budget))
<1> DEFINE f == Charge(e, at, cost, budget)
<1> DEFINE full == Spent(e.full, e.full, at, cost, budget)
           v == Spent(ghost[k], e.full, at, cost, budget)
<1>1. /\ ConfSound(conf) /\ map \in Maps /\ ghost \in [Keys -> Nat] /\ clock \in Nat
      /\ MapGood(conf, map, ghost, newest)
  BY InvParts
<1>2. e.key = k /\ e \in ToSet(map.slots) /\ e \in Slots
  BY SlotAt
<1>3. /\ k \in Keys /\ e.full \in Nat /\ e.ref \in BOOLEAN /\ e.seen \in Nat /\ e.last \in Nat
  BY <1>2 DEF Slots
<1>4. ghost[k] <= e.full /\ ghost[k] \in Nat /\ (conf.ttl # None => Near(e.seen, e.last))
  BY <1>1, <1>2, <1>3 DEF MapGood, Cover
<1>5. v \in Nat /\ full \in Nat /\ v <= full
  BY <1>1, <1>3, <1>4, SpentMono
<1>6. View(map, k, at) = e.full
  BY DEF View
<1> DEFINE seen == IF conf.ttl = None THEN e.seen ELSE MaxOf(e.seen, Millis(at))
           last == IF conf.ttl = None THEN e.last ELSE MaxOf(e.last, at)
<1>7. seen \in Nat /\ last \in Nat /\ (conf.ttl # None => Near(seen, last))
  <2>1. CASE conf.ttl = None
    BY <1>3, <2>1
  <2>2. CASE conf.ttl # None
    <3> DEFINE a == e.seen
               l == e.last
    <3>1. a \in Nat /\ l \in Nat /\ Near(a, l) /\ seen = MaxOf(a, Millis(at)) /\ last = MaxOf(l, at)
      BY <1>3, <1>4, <2>2
    <3> HIDE DEF a, l, seen, last
    <3>2. MaxOf(a, Millis(at)) \in Nat /\ MaxOf(l, at) \in Nat
          /\ Near(MaxOf(a, Millis(at)), MaxOf(l, at))
      BY <1>1, <3>1, NearGrows
    <3> QED BY <3>1, <3>2
  <2> QED BY <2>1, <2>2
<1>8. f = [e EXCEPT !.ref = TRUE, !.seen = seen, !.last = last, !.full = full]
  <2>1. Touched(e, at) = [e EXCEPT !.ref = TRUE, !.seen = seen, !.last = last]
    BY <1>2 DEF Touched, Slots
  <2>2. f = [Touched(e, at) EXCEPT !.full = full]
    BY DEF Charge
  <2> HIDE DEF full, seen, last
  <2> QED BY <1>2, <2>1, <2>2 DEF Slots
<1>9. conf.ttl # None => last = MaxOf(e.last, at) /\ e.last <= clock
  BY <1>4 DEF Near
<1> HIDE DEF full, seen, last
<1>10. f \in Slots /\ f.key = k /\ f.full = full /\ f.seen = seen /\ f.last = last
  BY <1>2, <1>5, <1>7, <1>8 DEF Slots
<1> HIDE DEF f
<1>11. GoodCharge(k, at, cost, budget, e, f)
  BY <1>3, <1>5, <1>6, <1>7, <1>9, <1>10 DEF GoodCharge
<1> QED BY <1>11 DEF f

LEMMA TakeLiveKept ==
  ASSUME StoreInv, NEW k \in Live(map), NEW at \in Nat, at <= clock,
         NEW cost \in Nat, NEW budget \in Nat, TakeLive(k, at, cost, budget)
  PROVE  Kept /\ Live(map') = Live(map)
<1> DEFINE n == SlotOf(map, k)
           e == map.slots[n]
           f == Charge(e, at, cost, budget)
           v == Spent(ghost[k], View(map, k, at), at, cost, budget)
<1>1. f \in Slots /\ f.key = k /\ v \in Nat /\ v <= f.full /\ (conf.ttl # None => Near(f.seen, f.last))
  <2>1. GoodCharge(k, at, cost, budget, e, f)
    BY ChargeSlot
  <2> HIDE DEF f
  <2> QED BY <2>1 DEF GoodCharge
<1>2. map' = [map EXCEPT !.slots[n] = f] /\ ghost' = [ghost EXCEPT ![k] = v] /\ newest' = newest
  BY DEF TakeLive
<1> HIDE DEF f, v
<1> QED BY <1>1, <1>2, SlotEdited DEF n

LEMMA HitKept ==
  ASSUME StoreInv, NEW k \in Live(map), ghost' = ghost, newest' = newest,
         map' = [map EXCEPT !.slots[SlotOf(map, k)].ref = TRUE]
  PROVE  Kept /\ Live(map') = Live(map)
<1> DEFINE n == SlotOf(map, k)
           e == map.slots[n]
           f == [e EXCEPT !.ref = TRUE]
           v == ghost[k]
<1>1. MapGood(conf, map, ghost, newest) /\ ghost \in [Keys -> Nat]
  BY InvParts
<1>2. e.key = k /\ e \in ToSet(map.slots) /\ e \in Slots
  BY SlotAt
<1>3. map' = [map EXCEPT !.slots[n] = f]
  OBVIOUS
<1> HIDE DEF e
<1>4. /\ f \in Slots /\ f.key = k /\ f.full = e.full /\ f.seen = e.seen /\ f.last = e.last
  BY <1>2 DEF Slots
<1>5. (conf.ttl # None => Near(f.seen, f.last)) /\ v <= f.full
  BY <1>1, <1>2, <1>4 DEF MapGood, Cover
<1>6. k \in Keys
  BY <1>2 DEF Slots
<1>7. v \in Nat /\ ghost' = [ghost EXCEPT ![k] = v]
  BY <1>1, <1>6
<1> HIDE DEF f, v
<1> QED BY <1>3, <1>4, <1>5, <1>7, SlotEdited DEF n

LEMMA StampKept ==
  ASSUME StoreInv, NEW c \in Callers, Stamp(c), call[c].key \in Live(map),
         NEW at \in Nat, at = call[c].at, at <= clock, clock <= at + Staleness,
         call[c].cost \in Nat, call[c].budget \in Nat
  PROVE  Kept /\ Live(map') = Live(map)
<1> DEFINE k == call[c].key
           cost == call[c].cost
           budget == call[c].budget
           n == SlotOf(map, k)
           e == map.slots[n]
           g == Charge(e, at, cost, budget)
           f == [g EXCEPT !.seen = Millis(at)]
           v == Spent(ghost[k], View(map, k, at), at, cost, budget)
<1>1. clock \in Nat /\ MapGood(conf, map, ghost, newest)
  BY InvParts
<1>2. map' = [map EXCEPT !.slots[n] = f] /\ ghost' = [ghost EXCEPT ![k] = v] /\ newest' = newest
  BY DEF Stamp
<1>3. k \in Live(map) /\ cost \in Nat /\ budget \in Nat
  OBVIOUS
<1> HIDE DEF k, cost, budget
<1>4. /\ g \in Slots /\ g.key = k /\ v \in Nat /\ v <= g.full
      /\ conf.ttl # None => g.last = MaxOf(e.last, at) /\ e.last \in Nat /\ e.last <= clock
  <2>1. GoodCharge(k, at, cost, budget, e, g)
    BY <1>3, ChargeSlot
  <2> HIDE DEF e, g
  <2> QED BY <2>1 DEF GoodCharge
<1> HIDE DEF g, v
<1>5. Millis(at) \in Nat
  BY KeyStoreAssumption, Division DEF Millis
<1>6. f \in Slots /\ f.key = k /\ f.full = g.full /\ f.seen = Millis(at) /\ f.last = g.last
  BY <1>4, <1>5 DEF Slots
<1>7. conf.ttl # None => Near(f.seen, f.last)
  <2> SUFFICES ASSUME conf.ttl # None PROVE Near(Millis(at), g.last)
    BY <1>6
  <2> DEFINE l == e.last
  <2>1. l \in Nat /\ l <= clock /\ g.last = MaxOf(l, at)
    BY <1>4
  <2> HIDE DEF l
  <2>2. Near(Millis(at), MaxOf(l, at))
    BY <1>1, <2>1, NearStored
  <2> QED BY <2>1, <2>2
<1> HIDE DEF f
<1>8. v <= f.full
  BY <1>4, <1>6
<1> QED BY <1>2, <1>3, <1>4, <1>6, <1>7, <1>8, SlotEdited DEF n

(* One debt and its key's history change. *)
LEMMA DebtEdited ==
  ASSUME StoreInv, NEW k \in Owed(map), NEW f \in Debts, f.key = k,
         map' = [map EXCEPT !.debts[DebtOf(map, k)] = f],
         NEW v \in Nat, v <= f.at,
         ghost' = [ghost EXCEPT ![k] = v], newest' = newest
  PROVE  Kept
<1> DEFINE n == DebtOf(map, k)
           s == map.debts
           t == [s EXCEPT ![n] = f]
           e == s[n]
<1>1. /\ ConfSound(conf) /\ newest \in Nat /\ newest <= clock /\ clock \in Nat /\ map \in Maps
      /\ ghost \in [Keys -> Nat] /\ MapGood(conf, map, ghost, newest)
  BY InvParts
<1>2. /\ Once(s) /\ Len(s) <= conf.keys /\ Tidy(conf, map.slots)
      /\ map.hand <= conf.keys /\ map.sweep <= conf.keys /\ map.cursor <= conf.keys
      /\ Cover(ToSet(map.slots), ToSet(s), conf, ghost, newest)
  BY <1>1 DEF MapGood, Tidy
<1>3. s \in Seq(Debts) /\ ToSet(s) \in SUBSET Debts /\ ToSet(map.slots) \in SUBSET Slots
  BY <1>1, MapParts
<1>4. n \in 1..Len(s) /\ e.key = k /\ e \in ToSet(s) /\ e \in Debts
  BY DebtAt
<1>5. k \in Keys
  BY <1>4 DEF Debts
<1>6. map' = [map EXCEPT !.debts = t]
  BY <1>1
<1> HIDE DEF n, s, e
<1>7. /\ t \in Seq(Debts) /\ Once(t) /\ Len(t) = Len(s)
      /\ ToSet(t) = (ToSet(s) \ {e}) \cup {f}
  <2>1. e = s[n] /\ f.key = s[n].key
    BY <1>4 DEF e
  <2>2. Replaced(t, s, n, f)
    BY DEF Replaced
  <2> HIDE DEF t
  <2> QED BY <1>2, <1>3, <1>4, <2>1, <2>2, ReplacedOnce
<1> HIDE DEF t
<1>8. /\ map' \in Maps /\ map'.debts = t /\ map'.slots = map.slots
      /\ map'.hand = map.hand /\ map'.sweep = map.sweep /\ map'.cursor = map.cursor
  BY <1>1, <1>6, <1>7 DEF Maps
<1>9. ghost' \in [Keys -> Nat] /\ ghost'[k] = v /\ \A j \in Keys : j # k => ghost'[j] = ghost[j]
  BY <1>1, <1>5
<1>10. \A x \in ToSet(s) : x.key = e.key => x = e
  BY <1>2, <1>3, <1>4, OnceFacts
<1>11. Cover(ToSet(map.slots), ToSet(t), conf, ghost', newest)
  <2> DEFINE D == ToSet(s)
             S == ToSet(map.slots)
             h == ghost'
  <2>1. ToSet(t) = (D \ {e}) \cup {f} /\ e \in D /\ (\A x \in D : x.key = e.key => x = e)
        /\ S \in SUBSET Slots /\ D \in SUBSET Debts /\ Cover(S, D, conf, ghost, newest)
    BY <1>2, <1>3, <1>4, <1>7, <1>10
  <2>2. h \in [Keys -> Nat] /\ (\A j \in Keys : j # e.key => h[j] = ghost[j]) /\ h[e.key] <= f.at
        /\ f.key = e.key
    BY <1>4, <1>9
  <2> HIDE DEF S, D, h
  <2>3. Cover(S, (D \ {e}) \cup {f}, conf, h, newest)
    BY <1>1, <2>1, <2>2, CoverEditDebt
  <2> QED BY <2>1, <2>3 DEF h, S
<1>12. MapGood(conf, map', ghost', newest')
  BY <1>2, <1>7, <1>8, <1>11 DEF MapGood, Tidy
<1>13. newest' \in 0..clock
  BY <1>1
<1> QED BY <1>9, <1>12, <1>13 DEF Kept

LEMMA RepayKept ==
  ASSUME StoreInv, NEW k \in Keys, NEW cost \in Nat, Repay(k, cost), newest' = newest
  PROVE  Kept /\ (k \in Live(map) => Live(map') = Live(map))
<1>1. /\ ConfSound(conf) /\ map \in Maps /\ ghost \in [Keys -> Nat]
      /\ newest \in Nat /\ newest <= clock /\ clock \in Nat
      /\ MapGood(conf, map, ghost, newest)
  BY InvParts
<1>2. Cover(ToSet(map.slots), ToSet(map.debts), conf, ghost, newest)
  BY <1>1 DEF MapGood
<1>3. ASSUME k \in Live(map), RefundLive(k, cost)
      PROVE  Kept /\ Live(map') = Live(map)
  <2> DEFINE n == SlotOf(map, k)
             e == map.slots[n]
             f == [e EXCEPT !.full = Refunded(@, cost)]
             v == Refunded(ghost[k], cost)
  <2>1. e.key = k /\ e \in ToSet(map.slots) /\ e \in Slots
    BY <1>3, SlotAt
  <2>2. map' = [map EXCEPT !.slots[n] = f] /\ ghost' = [ghost EXCEPT ![k] = v]
    BY <1>3 DEF RefundLive
  <2> HIDE DEF e
  <2>3. e.full \in Nat /\ ghost[k] \in Nat /\ ghost[k] <= e.full
    BY <1>1, <1>2, <2>1 DEF Slots, Cover
  <2>4. v \in Nat /\ Refunded(e.full, cost) \in Nat /\ v <= Refunded(e.full, cost)
    BY <1>1, <2>3, RefundedMono
  <2>5. /\ f \in Slots /\ f.key = k /\ f.full = Refunded(e.full, cost) /\ f.seen = e.seen
        /\ f.last = e.last
    BY <2>1, <2>4 DEF Slots
  <2>6. conf.ttl # None => Near(f.seen, f.last)
    BY <1>2, <2>1, <2>5 DEF Cover
  <2> HIDE DEF f, v
  <2>7. v <= f.full
    BY <2>4, <2>5
  <2> QED BY <1>3, <2>2, <2>4, <2>5, <2>6, <2>7, SlotEdited DEF n
<1>4. ASSUME k \in Owed(map),
             map' = [map EXCEPT !.debts[DebtOf(map, k)].at = Refunded(@, cost)],
             ghost' = [ghost EXCEPT ![k] = Refunded(@, cost)]
      PROVE  Kept
  <2> DEFINE n == DebtOf(map, k)
             e == map.debts[n]
             f == [e EXCEPT !.at = Refunded(@, cost)]
             v == Refunded(ghost[k], cost)
  <2>1. e.key = k /\ e \in ToSet(map.debts) /\ e \in Debts
    BY <1>4, DebtAt
  <2>2. map' = [map EXCEPT !.debts[n] = f] /\ ghost' = [ghost EXCEPT ![k] = v]
    BY <1>4
  <2> HIDE DEF e
  <2>3. e.at \in Nat /\ ghost[k] \in Nat /\ ghost[k] <= e.at
    BY <1>1, <1>2, <2>1 DEF Debts, Cover
  <2>4. v \in Nat /\ Refunded(e.at, cost) \in Nat /\ v <= Refunded(e.at, cost)
    BY <1>1, <2>3, RefundedMono
  <2>5. f \in Debts /\ f.key = k /\ f.at = Refunded(e.at, cost)
    BY <2>1, <2>4 DEF Debts
  <2> HIDE DEF f, v
  <2>6. v <= f.at
    BY <2>4, <2>5
  <2> QED BY <1>4, <2>2, <2>4, <2>5, <2>6, DebtEdited DEF n
<1>5. CASE UNCHANGED <<map, ghost>>
  <2>1. map' = map /\ ghost' = ghost
    BY <1>5
  <2>2. newest' \in 0..clock
    BY <1>1
  <2> QED BY <1>1, <2>1, <2>2 DEF Kept
<1>6. CASE k \in Live(map)
  BY <1>3, <1>6 DEF Repay
<1>7. CASE k \notin Live(map)
  BY <1>4, <1>5, <1>7 DEF Repay
<1> QED BY <1>6, <1>7

LEMMA EntryMade ==
  ASSUME ConfSound(conf), clock \in Nat, NEW k \in Keys, NEW full \in Nat,
         NEW at \in Nat, at <= clock
  PROVE  LET e == Entry(k, full, at)
         IN  /\ e \in Slots /\ e.key = k /\ e.full = full
             /\ conf.ttl # None => Near(e.seen, e.last)
<1> DEFINE e == Entry(k, full, at)
           x == at \div Ms
<1>1. Ms \in Nat \ {0} /\ Staleness \in Nat
  BY KeyStoreAssumption, StalenessType
<1>2. x \in Nat /\ at < x * Ms + Ms
  BY <1>1, Division
<1>3. e = [key |-> k, full |-> full, ref |-> FALSE,
           seen |-> IF conf.ttl = None THEN 0 ELSE x,
           last |-> IF conf.ttl = None THEN 0 ELSE at]
  BY DEF Entry, Millis
<1> HIDE DEF x
<1> DEFINE y == x * Ms
<1>4. y \in Nat /\ at < y + Ms
  BY <1>1, <1>2
<1> HIDE DEF y
<1>5. at < y + Ms + Staleness
  BY <1>1, <1>4
<1>6. Near(x, at)
  BY <1>5 DEF Near, y
<1>7. e \in Slots /\ e.key = k /\ e.full = full
      /\ e.seen = (IF conf.ttl = None THEN 0 ELSE x)
      /\ e.last = (IF conf.ttl = None THEN 0 ELSE at)
  <2> HIDE DEF e
  <2> QED BY <1>2, <1>3 DEF Slots
<1> QED BY <1>6, <1>7

(* The key's own debt is out of the way before room is made. *)
LEMMA DebtTaken ==
  ASSUME StoreInv, NEW k \in Keys, k \notin Live(map), NEW w \in Nat, newest <= w, NEW m0,
         m0 = IF k \in Owed(map) THEN [map EXCEPT !.debts = SwapRemove(@, DebtOf(map, k) - 1)]
                                 ELSE map
  PROVE  /\ MapGood(conf, m0, Forgiven(ghost, {k}), w)
         /\ k \notin KeysOf(m0.slots) /\ k \notin KeysOf(m0.debts)
         /\ k \in Owed(map) => ~(Len(m0.debts) >= conf.keys)
<1> DEFINE g == Forgiven(ghost, {k})
<1>1. /\ ConfSound(conf) /\ newest \in Nat /\ map \in Maps /\ conf.keys \in Nat
      /\ ghost \in [Keys -> Nat] /\ MapGood(conf, map, ghost, newest)
  BY InvParts
<1>2. g \in [Keys -> Nat] /\ (\A j \in Keys : g[j] <= ghost[j]) /\ g[k] = 0
  BY <1>1, ForgivenFacts
<1> HIDE DEF g
<1>3. MapGood(conf, map, g, w)
  BY <1>1, <1>2, MapGoodLower
<1>4. Live(map) = KeysOf(map.slots) /\ Owed(map) = KeysOf(map.debts) /\ Len(map.debts) \in Nat
  BY <1>1, MapParts
<1>5. CASE k \notin Owed(map)
  <2>1. m0 = map
    BY <1>5
  <2> QED BY <1>3, <1>4, <1>5, <2>1 DEF g
<1>6. CASE k \in Owed(map)
  <2> DEFINE n == DebtOf(map, k)
             pos == n - 1
  <2>1. n \in 1..Len(map.debts) /\ map.debts[n].key = k
    BY <1>6, DebtAt
  <2>2. m0 = [map EXCEPT !.debts = SwapRemove(@, pos)]
    BY <1>6
  <2> HIDE DEF n
  <2>3. pos \in Nat /\ pos < Len(map.debts) /\ pos + 1 = n
    BY <1>4, <2>1
  <2> HIDE DEF pos
  <2>4. /\ m0.debts = SwapRemove(map.debts, pos) /\ m0.slots = map.slots
        /\ m0.hand = map.hand /\ m0.sweep = map.sweep /\ m0.cursor = map.cursor
        /\ m0.debts \in Seq(Debts) => m0 \in Maps
    BY <1>1, <2>2 DEF Maps
  <2>5. /\ m0.hand <= conf.keys /\ m0.sweep <= conf.keys /\ m0.cursor <= conf.keys
        /\ Len(map.debts) <= conf.keys
    BY <1>1, <2>4 DEF MapGood, Tidy
  <2>6. g[map.debts[pos + 1].key] <= w
    BY <1>2, <2>1, <2>3
  <2>7. DebtLeaves(conf, map, g, w, pos, m0)
    BY <2>3, <2>4, <2>5, <2>6 DEF DebtLeaves
  <2>8. DebtLeft(conf, map, g, w, pos, m0)
    BY <1>1, <1>2, <1>3, <2>7, DebtDropped
  <2>9. /\ MapGood(conf, m0, g, w) /\ Len(m0.debts) = Len(map.debts) - 1
        /\ KeysOf(m0.debts) = KeysOf(map.debts) \ {map.debts[pos + 1].key}
    BY <2>8 DEF DebtLeft
  <2>10. ~(Len(m0.debts) >= conf.keys)
    BY <1>1, <1>4, <2>5, <2>9
  <2> QED BY <1>4, <2>1, <2>3, <2>4, <2>9, <2>10 DEF g
<1> QED BY <1>5, <1>6

LEMMA InsertKept ==
  ASSUME StoreInv, NEW k \in Keys, k \notin Live(map), NEW at \in Nat, at <= clock,
         NEW cost \in Nat, NEW budget \in Nat, Insert(k, at, cost, budget)
  PROVE  Kept /\ (k \in Owed(map) => k \in Live(map'))
<1> DEFINE owed == k \in Owed(map)
           m0 == IF owed THEN [map EXCEPT !.debts = SwapRemove(@, DebtOf(map, k) - 1)] ELSE map
           room == MakeRoom(m0, at)
           full == View(map, k, at)
           w == MaxOf(newest, at)
           g == Forgiven(ghost, {k})
           b == Spent(full, full, at, cost, budget)
           e == Entry(k, b, at)
<1>1. /\ ConfSound(conf) /\ newest \in Nat /\ newest <= clock /\ clock \in Nat /\ map \in Maps
      /\ conf.keys \in Nat /\ ghost \in [Keys -> Nat] /\ MapGood(conf, map, ghost, newest)
  BY InvParts
<1>2. w \in Nat /\ newest <= w /\ at <= w /\ w \in 0..clock
  BY <1>1 DEF MaxOf
<1>3. IF room.ok
        THEN /\ map' = [room.map EXCEPT !.slots = Append(@, e)]
             /\ newest' = w
             /\ ghost' = Charged(k, full, at, cost, budget, room.lost)
        ELSE /\ map' = IF owed THEN Record(room.map, map.debts[DebtOf(map, k)], at,
                                           MaxSlots + 1, FALSE).map
                               ELSE room.map
             /\ newest' = w
             /\ ghost' = ghost
  BY Zenon DEF Insert
<1> HIDE DEF w
<1>4. /\ MapGood(conf, m0, g, w) /\ k \notin KeysOf(m0.slots) /\ k \notin KeysOf(m0.debts)
      /\ owed => ~(Len(m0.debts) >= conf.keys)
  BY <1>2, DebtTaken
<1> HIDE DEF m0
<1>5. g \in [Keys -> Nat] /\ (\A j \in Keys : j # k => g[j] = ghost[j])
  BY <1>1 DEF Forgiven
<1> HIDE DEF g
<1>6. Made(m0, g, w, room)
  BY <1>1, <1>2, <1>4, <1>5, MakeRoomMade
<1> HIDE DEF room
<1> DEFINE m1 == room.map
<1>7. /\ k \notin KeysOf(m1.slots) /\ k \notin KeysOf(m1.debts)
      /\ room.lost \subseteq Keys
  BY <1>4, <1>6 DEF Made
<1>8. full \in Nat /\ (newest <= at => ghost[k] <= full)
  BY ViewBacked
<1>9. CASE room.ok = TRUE
  <2> DEFINE h == Forgiven(g, room.lost)
             old == IF at < newest THEN 0 ELSE ghost[k]
             S == ToSet(m1.slots)
             D == ToSet(m1.debts)
             t == Append(m1.slots, e)
             gh == ghost'
  <2>1. MapGood(conf, m1, h, w) /\ Len(m1.slots) < conf.keys
    BY <1>6, <1>9 DEF Made
  <2>2. /\ map' = [m1 EXCEPT !.slots = t]
        /\ newest' = w /\ ghost' = Charged(k, full, at, cost, budget, room.lost)
    BY <1>3, <1>9
  <2>3. h \in [Keys -> Nat] /\ \A j \in Keys : j # k => h[j] = IF j \in room.lost THEN 0 ELSE ghost[j]
    BY <1>5 DEF Forgiven
  <2> HIDE DEF h, full, g
  <2>4. old \in Nat /\ old <= full
    <3>1. ghost[k] \in Nat
      BY <1>1
    <3> QED BY <1>1, <1>8, <3>1
  <2>5. /\ Spent(old, full, at, cost, budget) \in Nat /\ b \in Nat
        /\ Spent(old, full, at, cost, budget) <= b
    BY <1>1, <1>8, <2>4, SpentMono
  <2>6. e \in Slots /\ e.key = k /\ e.full = b /\ (conf.ttl # None => Near(e.seen, e.last))
    <3> HIDE DEF b
    <3> QED BY <1>1, <2>5, EntryMade
  <2> HIDE DEF b, e, old
  <2>7. gh \in [Keys -> Nat] /\ (\A j \in Keys : j # k => gh[j] <= h[j]) /\ gh[k] <= e.full
    <3>1. gh = [j \in Keys |->
                  IF j = k THEN Spent(old, full, at, cost, budget)
                  ELSE IF j \in room.lost \/ (j \notin Live(map') /\ ghost[j] <= newest') THEN 0
                  ELSE ghost[j]]
      BY <2>2 DEF Charged, old
    <3>2. gh[k] = Spent(old, full, at, cost, budget)
      BY <3>1
    <3>3. ASSUME NEW j \in Keys, j # k
          PROVE  gh[j] \in Nat /\ gh[j] <= h[j]
      <4>1. gh[j] = IF j \in room.lost \/ (j \notin Live(map') /\ ghost[j] <= newest') THEN 0
                    ELSE ghost[j]
        BY <3>1, <3>3
      <4>2. h[j] = (IF j \in room.lost THEN 0 ELSE ghost[j]) /\ ghost[j] \in Nat
        BY <1>1, <2>3, <3>3
      <4> HIDE DEF gh
      <4>3. CASE j \in room.lost
        BY <4>1, <4>2, <4>3
      <4>4. CASE j \notin room.lost
        <5>1. h[j] = ghost[j] /\ (gh[j] = 0 \/ gh[j] = ghost[j])
          BY <4>1, <4>2, <4>4
        <5> QED BY <4>2, <5>1
      <4> QED BY <4>3, <4>4
    <3>4. gh = [j \in Keys |-> gh[j]]
      BY <3>1
    <3> HIDE DEF gh
    <3>5. \A j \in Keys : gh[j] \in Nat
      BY <2>5, <3>2, <3>3
    <3>6. gh \in [Keys -> Nat]
      BY <3>4, <3>5
    <3> QED BY <2>5, <2>6, <3>2, <3>3, <3>6
  <2>8. /\ m1 \in Maps /\ Once(m1.slots) /\ Tidy(conf, m1.debts) /\ m1.hand <= conf.keys
        /\ m1.sweep <= conf.keys /\ m1.cursor <= conf.keys /\ Cover(S, D, conf, h, w)
    BY <2>1 DEF MapGood, Tidy
  <2>9. /\ m1.slots \in Seq(Slots) /\ Len(m1.slots) \in Nat /\ S \in SUBSET Slots
        /\ D \in SUBSET Debts
    BY <2>8, MapParts
  <2>10. /\ t \in Seq(Slots) /\ Once(t) /\ Len(t) = Len(m1.slots) + 1
         /\ ToSet(t) = S \cup {e} /\ KeysOf(t) = KeysOf(m1.slots) \cup {k}
    <3>1. e.key \notin KeysOf(m1.slots)
      BY <1>7, <2>6
    <3>2. /\ t \in Seq(Slots) /\ Once(t) /\ Len(t) = Len(m1.slots) + 1
          /\ ToSet(t) = S \cup {e} /\ KeysOf(t) = KeysOf(m1.slots) \cup {e.key}
      BY <2>6, <2>8, <2>9, <3>1, AppendedOnce
    <3> QED BY <2>6, <3>2
  <2>11. (\A x \in S : x.key # e.key) /\ (\A d \in D : d.key # e.key)
    BY <1>7, <2>6 DEF KeysOf
  <2> HIDE DEF t, S, D, gh, m1
  <2>12. Cover(S \cup {e}, D, conf, gh, w)
    BY <1>2, <2>3, <2>6, <2>7, <2>8, <2>9, <2>11, CoverAdd
  <2>13. /\ map' \in Maps /\ map'.slots = t /\ map'.debts = m1.debts
         /\ map'.hand = m1.hand /\ map'.sweep = m1.sweep /\ map'.cursor = m1.cursor
    BY <2>2, <2>8, <2>10 DEF Maps
  <2>14. Tidy(conf, t)
    <3>1. Len(t) <= conf.keys
      BY <1>1, <2>1, <2>9, <2>10
    <3> QED BY <2>10, <3>1 DEF Tidy
  <2>15. MapGood(conf, map', gh, w)
    <3>1. ToSet(map'.slots) = S \cup {e} /\ ToSet(map'.debts) = D
      BY <2>10, <2>13 DEF D
    <3> QED BY <2>8, <2>12, <2>13, <2>14, <3>1 DEF MapGood
  <2>16. k \in Live(map')
    <3>1. Live(map') = KeysOf(t)
      BY <2>13, MapParts
    <3> QED BY <2>10, <3>1
  <2> QED BY <1>2, <2>2, <2>7, <2>15, <2>16 DEF Kept, gh
<1>10. CASE room.ok = FALSE
  <2>1. MapGood(conf, m1, g, w) /\ Len(m0.debts) >= conf.keys
    BY <1>6, <1>10 DEF Made
  <2>2. ~owed
    BY <1>4, <2>1
  <2>3. map' = m1 /\ newest' = w /\ ghost' = ghost
    BY <1>3, <1>10, <2>2
  <2> HIDE DEF m1
  <2>4. ghost[k] <= w
    <3>1. ghost[k] <= newest /\ ghost[k] \in Nat
      BY <1>1, <2>2, WhoOwes
    <3> QED BY <1>1, <1>2, <3>1
  <2> DEFINE S == ToSet(m1.slots)
             D == ToSet(m1.debts)
  <2>5. (\A x \in S : x.key # k) /\ (\A d \in D : d.key # k)
    BY <1>7 DEF KeysOf, m1
  <2>6. Cover(S, D, conf, g, w)
    BY <2>1 DEF MapGood
  <2>7. S \in SUBSET Slots /\ D \in SUBSET Debts
    BY <2>1, MapParts DEF MapGood
  <2> HIDE DEF S, D
  <2>8. Cover(S, D, conf, ghost, w)
    <3>1. \A x \in S : ghost[x.key] <= x.full
      BY <1>5, <2>5, <2>6, <2>7 DEF Cover, Slots
    <3>2. \A x \in D : ghost[x.key] <= x.at
      BY <1>5, <2>5, <2>6, <2>7 DEF Cover, Debts
    <3>3. \A j \in Keys : (\A x \in S : x.key # j) /\ (\A d \in D : d.key # j) => ghost[j] <= w
      <4> SUFFICES ASSUME NEW j \in Keys, \A x \in S : x.key # j, \A d \in D : d.key # j
                   PROVE  ghost[j] <= w
        OBVIOUS
      <4>1. g[j] <= w
        BY <2>6, Zenon DEF Cover
      <4> QED BY <1>5, <2>4, <4>1
    <3> QED BY <2>6, <3>1, <3>2, <3>3, Zenon DEF Cover
  <2>9. MapGood(conf, m1, ghost, w)
    BY <2>1, <2>8, Zenon DEF MapGood, S, D
  <2> QED BY <1>1, <1>2, <2>2, <2>3, <2>9 DEF Kept
<1> QED BY <1>6, <1>9, <1>10 DEF Made

LEMMA RemoveKeyKept ==
  ASSUME StoreInv, NEW k \in Keys, RemoveKey(k)
  PROVE  Kept
<1> DEFINE g == [ghost EXCEPT ![k] = 0]
<1>1. /\ ConfSound(conf) /\ newest \in Nat /\ newest <= clock /\ clock \in Nat /\ map \in Maps
      /\ conf.keys \in Nat /\ ghost \in [Keys -> Nat] /\ MapGood(conf, map, ghost, newest)
  BY InvParts
<1>2. g \in [Keys -> Nat] /\ (\A j \in Keys : g[j] <= ghost[j]) /\ g[k] = 0
  <2>1. \A j \in Keys : g[j] = IF j = k THEN 0 ELSE ghost[j]
    BY <1>1
  <2>2. g \in [Keys -> Nat]
    BY <1>1
  <2> HIDE DEF g
  <2> QED BY <1>1, <2>1, <2>2
<1>3. ghost' = g /\ newest' = newest
  BY DEF RemoveKey
<1> HIDE DEF g
<1>4. MapGood(conf, map, g, newest)
  BY <1>1, <1>2, MapGoodLower
<1>5. /\ map.hand <= conf.keys /\ map.sweep <= conf.keys /\ map.cursor <= conf.keys
  BY <1>1 DEF MapGood
<1>6. newest' \in 0..clock
  BY <1>1, <1>3
<1>7. Len(map.slots) \in Nat /\ Len(map.debts) \in Nat
  BY <1>1, MapParts
<1>8. Live(map) \cap Owed(map) = {} /\ k \in Live(map) \cup Owed(map)
  BY WhoOwes DEF RemoveKey
<1>9. CASE k \in Live(map)
  <2> DEFINE n == SlotOf(map, k)
             pos == n - 1
  <2>1. n \in 1..Len(map.slots) /\ map.slots[n].key = k
    BY <1>9, SlotAt
  <2>2. map' = [map EXCEPT !.debts = @, !.slots = SwapRemove(@, pos)]
    BY <1>8, <1>9 DEF RemoveKey
  <2> HIDE DEF n
  <2>3. pos \in Nat /\ pos < Len(map.slots) /\ pos + 1 = n
    BY <1>7, <2>1
  <2> HIDE DEF pos
  <2>4. /\ map'.slots = SwapRemove(map.slots, pos) /\ map'.debts = map.debts
        /\ map'.hand = map.hand /\ map'.sweep = map.sweep /\ map'.cursor = map.cursor
        /\ map'.slots \in Seq(Slots) => map' \in Maps
    BY <1>1, <2>2 DEF Maps
  <2>5. g[map.slots[pos + 1].key] <= newest
    BY <1>1, <1>2, <2>1, <2>3
  <2>6. SlotLeaves(conf, map, g, newest, pos, map')
    BY <1>5, <2>3, <2>4, <2>5 DEF SlotLeaves
  <2>7. SlotLeft(conf, map, g, newest, pos, map')
    BY <1>1, <1>2, <1>4, <2>6, SlotDropped
  <2> QED BY <1>2, <1>3, <1>6, <2>7 DEF SlotLeft, Kept
<1>10. CASE k \in Owed(map)
  <2> DEFINE n == DebtOf(map, k)
             pos == n - 1
  <2>1. n \in 1..Len(map.debts) /\ map.debts[n].key = k
    BY <1>10, DebtAt
  <2>2. map' = [map EXCEPT !.debts = SwapRemove(@, pos), !.slots = @]
    BY <1>8, <1>10 DEF RemoveKey
  <2> HIDE DEF n
  <2>3. pos \in Nat /\ pos < Len(map.debts) /\ pos + 1 = n
    BY <1>7, <2>1
  <2> HIDE DEF pos
  <2>4. /\ map'.debts = SwapRemove(map.debts, pos) /\ map'.slots = map.slots
        /\ map'.hand = map.hand /\ map'.sweep = map.sweep /\ map'.cursor = map.cursor
        /\ map'.debts \in Seq(Debts) => map' \in Maps
    BY <1>1, <2>2 DEF Maps
  <2>5. g[map.debts[pos + 1].key] <= newest
    BY <1>1, <1>2, <2>1, <2>3
  <2>6. DebtLeaves(conf, map, g, newest, pos, map')
    BY <1>5, <2>3, <2>4, <2>5 DEF DebtLeaves
  <2>7. DebtLeft(conf, map, g, newest, pos, map')
    BY <1>1, <1>2, <1>4, <2>6, DebtDropped
  <2> QED BY <1>2, <1>3, <1>6, <2>7 DEF DebtLeft, Kept
<1> QED BY <1>8, <1>9, <1>10

(* An empty map backs a history of keys that owe nothing. *)
LEMMA EmptyGood ==
  ASSUME ConfSound(conf), NEW w \in Nat
  PROVE  MapGood(conf, EmptyMap, [k \in Keys |-> 0], w)
<1> DEFINE g == [k \in Keys |-> 0]
           m == EmptyMap
<1>1. /\ m \in Maps /\ m.slots = <<>> /\ m.debts = <<>> /\ m.hand = 0 /\ m.sweep = 0
      /\ m.cursor = 0
  BY DEF EmptyMap, Maps
<1>2. conf.keys \in Nat
  BY Fields
<1>3. ToSet(<<>>) = {}
  BY DEF ToSet
<1>4. Tidy(conf, <<>>)
  BY <1>2 DEF Tidy, Once
<1>5. \A k \in Keys : g[k] <= w
  OBVIOUS
<1> HIDE DEF g, m
<1>6. Cover({}, {}, conf, g, w)
  BY <1>5 DEF Cover
<1>7. MapGood(conf, m, g, w)
  <2>1. m.hand <= conf.keys /\ m.sweep <= conf.keys /\ m.cursor <= conf.keys
    BY <1>1, <1>2
  <2>2. Tidy(conf, m.slots) /\ Tidy(conf, m.debts) /\ ToSet(m.slots) = {} /\ ToSet(m.debts) = {}
    BY <1>1, <1>3, <1>4
  <2>3. Cover(ToSet(m.slots), ToSet(m.debts), conf, g, w)
    BY <1>6, <2>2
  <2> QED BY <1>1, <2>1, <2>2, <2>3, Zenon DEF MapGood
<1> QED BY <1>7 DEF g, m

LEMMA ClearKept ==
  ASSUME StoreInv, Clear
  PROVE  Kept
<1>1. ConfSound(conf) /\ newest \in Nat /\ newest <= clock /\ clock \in Nat
  BY InvParts
<1>2. map' = EmptyMap /\ ghost' = [k \in Keys |-> 0] /\ newest' = newest
  BY DEF Clear
<1>3. MapGood(conf, EmptyMap, [k \in Keys |-> 0], newest)
  BY <1>1, EmptyGood
<1>4. ghost' \in [Keys -> Nat] /\ newest' \in 0..clock
  BY <1>1, <1>2
<1> QED BY <1>2, <1>3, <1>4 DEF Kept

LEMMA ResetKept ==
  ASSUME StoreInv, NEW k \in Keys, Reset(k)
  PROVE  Kept /\ Live(map') = Live(map)
<1> DEFINE n == SlotOf(map, k)
           e == map.slots[n]
           f == [e EXCEPT !.full = clock]
<1>1. ConfSound(conf) /\ clock \in Nat /\ MapGood(conf, map, ghost, newest)
  BY InvParts
<1>2. k \in Live(map) /\ map' = [map EXCEPT !.slots[n] = f] /\ ghost' = [ghost EXCEPT ![k] = clock]
      /\ newest' = newest
  BY DEF Reset
<1>3. e.key = k /\ e \in ToSet(map.slots) /\ e \in Slots
  BY <1>2, SlotAt
<1> HIDE DEF e
<1>4. f \in Slots /\ f.key = k /\ f.full = clock /\ f.seen = e.seen /\ f.last = e.last
  BY <1>1, <1>3 DEF Slots
<1>5. conf.ttl # None => Near(f.seen, f.last)
  BY <1>1, <1>3, <1>4 DEF MapGood, Cover
<1> HIDE DEF f
<1>6. clock <= f.full
  BY <1>1, <1>4
<1> QED BY <1>1, <1>2, <1>4, <1>5, <1>6, SlotEdited DEF n

LEMMA FindOrInsertKept ==
  ASSUME StoreInv, NEW k \in Keys, NEW at \in Nat, at <= clock,
         NEW cost \in Nat, NEW budget \in Nat, FindOrInsert(k, at, cost, budget)
  PROVE  /\ Kept /\ (k \in Live(map) \cup Owed(map) => k \in Live(map'))
         /\ k \in Live(map) => Live(map') = Live(map)
<1>1. CASE k \in Live(map)
  <2>1. TakeLive(k, at, cost, budget)
    BY <1>1 DEF FindOrInsert
  <2> QED BY <1>1, <2>1, TakeLiveKept
<1>2. CASE k \notin Live(map)
  <2>1. Insert(k, at, cost, budget)
    BY <1>2 DEF FindOrInsert
  <2> QED BY <1>2, <2>1, InsertKept
<1> QED BY <1>1, <1>2

LEMMA Carried ==
  ASSUME StoreInv, Kept, conf' = conf, clock' = clock, call' \in [Callers -> Calls],
         \A c \in Callers : CallTimely(call'[c]), Held'
  PROVE  StoreInv'
<1>1. ConfSound(conf') /\ clock' \in 0..conf'.until
  BY DEF StoreInv
<1>2. MapGood(conf, map', ghost', newest') /\ ghost' \in [Keys -> Nat] /\ newest' \in 0..clock'
  BY DEF Kept
<1>3. MapGood(conf, map, ghost, newest)'
  BY <1>2 DEF MapGood, Cover, Near
<1>4. (\A c \in Callers : CallTimely(call[c]))'
  BY DEF CallTimely
<1> QED BY <1>1, <1>2, <1>3, <1>4 DEF StoreInv

(* Whoever comes to the read lock finds its entry, and whoever was inside  *)
(* keeps it: a writer waits for the readers to leave.                      *)
LEMMA HeldStill ==
  ASSUME StoreInv, NoReader \/ Live(map') = Live(map),
         \A c \in Callers : call'[c].kind = "touch" =>
                              call'[c] = call[c] \/ call'[c].key \in Live(map')
  PROVE  Held'
<1> SUFFICES ASSUME NEW c \in Callers, call'[c].kind = "touch"
             PROVE  call'[c].key \in Live(map')
  BY DEF Held
<1>1. CASE call'[c].key \in Live(map')
  BY <1>1
<1>2. CASE call'[c] = call[c]
  <2>1. Live(map') = Live(map)
    BY <1>2 DEF NoReader
  <2>2. call[c].key \in Live(map)
    BY <1>2 DEF StoreInv, Held
  <2> QED BY <1>2, <2>1, <2>2
<1> QED BY <1>1, <1>2

(* A call leaves the others' alone. *)
LEMMA CallsEdited ==
  ASSUME StoreInv, NEW c \in Callers, NEW q \in Calls, CallTimely(q),
         call' = [call EXCEPT ![c] = q]
  PROVE  /\ call' \in [Callers -> Calls] /\ call'[c] = q
         /\ \A d \in Callers : CallTimely(call'[d])
         /\ \A d \in Callers : d # c => call'[d] = call[d]
<1>1. call \in [Callers -> Calls] /\ \A d \in Callers : CallTimely(call[d])
  BY DEF StoreInv
<1>2. /\ call' \in [Callers -> Calls] /\ call'[c] = q
      /\ \A d \in Callers : d # c => call'[d] = call[d]
  BY <1>1
<1> QED BY <1>1, <1>2, Zenon

LEMMA CallParts ==
  ASSUME NEW q \in Calls
  PROVE  /\ q.kind \in {"take", "touch"} =>
              q.key \in Keys /\ q.cost \in Nat /\ q.budget \in Nat /\ q.at \in Nat
         /\ q.kind = "refund" => q.key \in Keys /\ q.cost \in Nat
BY DEF Calls, NoCall

LEMMA NoCallKind ==
  NoCall \in Calls /\ NoCall.kind = "none" /\ CallTimely(NoCall)
BY DEF Calls, NoCall, CallTimely

LEMMA StoreInitInv ==
  ASSUME StoreInit
  PROVE  StoreInv
<1>1. PICK s \in Setups : conf = Assemble(s)
  BY DEF StoreInit
<1>2. ConfSound(conf)
  BY <1>1, AssembleSound
<1>3. conf.until \in Nat
  BY <1>2, Fields
<1>4. clock = 0 /\ newest = 0 /\ map = EmptyMap /\ ghost = [k \in Keys |-> 0]
      /\ call = [c \in Callers |-> NoCall]
  BY DEF StoreInit
<1>5. MapGood(conf, map, ghost, newest)
  <2>1. MapGood(conf, EmptyMap, [k \in Keys |-> 0], 0)
    BY <1>2, EmptyGood
  <2> QED BY <1>4, <2>1
<1>6. call \in [Callers -> Calls] /\ (\A c \in Callers : CallTimely(call[c])) /\ Held
  <2>1. \A c \in Callers : call[c] = NoCall
    BY <1>4
  <2> QED BY <1>4, <2>1, NoCallKind DEF Held
<1>7. clock \in 0..conf.until /\ newest \in 0..clock /\ ghost \in [Keys -> Nat]
  BY <1>3, <1>4
<1> QED BY <1>2, <1>5, <1>6, <1>7 DEF StoreInv

LEMMA StoreNextInv ==
  ASSUME StoreInv, [StoreNext]_storeVars
  PROVE  StoreInv'
<1>1. /\ ConfSound(conf) /\ newest \in Nat /\ newest <= clock /\ clock \in Nat /\ map \in Maps
      /\ ghost \in [Keys -> Nat] /\ call \in [Callers -> Calls] /\ conf.until \in Nat
      /\ clock <= conf.until /\ MapGood(conf, map, ghost, newest)
  BY InvParts
<1>2. Costs \subseteq Nat /\ Budgets \subseteq Nat
  BY KeyStoreAssumption
<1>3. \A c \in Callers : CallTimely(call[c])
  BY DEF StoreInv
<1>4. ASSUME map' = map, ghost' = ghost, newest' = newest PROVE Kept
  <2>1. newest' \in 0..clock
    BY <1>1, <1>4
  <2> QED BY <1>1, <1>4, <2>1 DEF Kept
<1>5. ASSUME NEW k \in Keys, NEW cost \in Costs, NEW budget \in Budgets, NEW at \in Readings,
             Take(k, cost, budget, at)
      PROVE  StoreInv'
  <2>1. at \in Nat /\ at <= clock
    BY <1>1 DEF Readings
  <2>2. /\ FindOrInsert(k, at, cost, budget) /\ conf' = conf /\ clock' = clock /\ call' = call
        /\ k \in Live(map) \/ NoReader
    BY <1>5 DEF Take
  <2>3. Kept /\ (k \in Live(map) => Live(map') = Live(map))
    BY <1>2, <2>1, <2>2, FindOrInsertKept
  <2>4. Held'
    BY <2>2, <2>3, HeldStill
  <2> QED BY <1>1, <1>3, <2>2, <2>3, <2>4, Carried
<1>6. ASSUME NEW c \in Callers, NEW k \in Keys, NEW cost \in Costs, NEW budget \in Budgets,
             Miss(c, k, cost, budget)
      PROVE  StoreInv'
  <2> DEFINE q == [kind |-> "take", key |-> k, cost |-> cost, budget |-> budget, at |-> clock]
  <2>1. /\ call' = [call EXCEPT ![c] = q] /\ conf' = conf /\ clock' = clock
        /\ map' = map /\ ghost' = ghost /\ newest' = newest
    BY <1>6 DEF Miss
  <2>2. q \in Calls /\ q.at = clock /\ q.kind = "take"
    BY <1>1, <1>2 DEF Calls
  <2> HIDE DEF q
  <2>3. CallTimely(q)
    BY <1>1, <2>2 DEF CallTimely
  <2>4. /\ call' \in [Callers -> Calls] /\ (\A d \in Callers : CallTimely(call'[d]))
        /\ call'[c] = q /\ \A d \in Callers : d # c => call'[d] = call[d]
    BY <2>1, <2>2, <2>3, CallsEdited
  <2>5. Kept
    BY <1>4, <2>1
  <2>6. Held'
    BY <2>1, <2>2, <2>4, HeldStill
  <2> QED BY <2>1, <2>4, <2>5, <2>6, Carried
<1>7. ASSUME NEW k \in Keys, NEW cost \in Costs, Refund(k, cost)
      PROVE  StoreInv'
  <2>1. /\ Repay(k, cost) /\ conf' = conf /\ clock' = clock /\ call' = call /\ newest' = newest
        /\ k \in Live(map) \/ NoReader
    BY <1>7 DEF Refund
  <2>2. Kept /\ (k \in Live(map) => Live(map') = Live(map))
    BY <1>2, <2>1, RepayKept
  <2>3. Held'
    BY <2>1, <2>2, HeldStill
  <2> QED BY <1>1, <1>3, <2>1, <2>2, <2>3, Carried
<1>8. ASSUME NEW c \in Callers, NEW k \in Keys, NEW cost \in Costs, RefundMiss(c, k, cost)
      PROVE  StoreInv'
  <2> DEFINE q == [kind |-> "refund", key |-> k, cost |-> cost]
  <2>1. /\ call' = [call EXCEPT ![c] = q] /\ conf' = conf /\ clock' = clock
        /\ map' = map /\ ghost' = ghost /\ newest' = newest
    BY <1>8 DEF RefundMiss
  <2>2. q \in Calls /\ q.kind = "refund"
    BY <1>2 DEF Calls
  <2> HIDE DEF q
  <2>3. CallTimely(q)
    BY <2>2 DEF CallTimely
  <2>4. /\ call' \in [Callers -> Calls] /\ (\A d \in Callers : CallTimely(call'[d]))
        /\ call'[c] = q /\ \A d \in Callers : d # c => call'[d] = call[d]
    BY <2>1, <2>2, <2>3, CallsEdited
  <2>5. Kept
    BY <1>4, <2>1
  <2>6. Held'
    BY <2>1, <2>2, <2>4, HeldStill
  <2> QED BY <2>1, <2>4, <2>5, <2>6, Carried
<1>9. ASSUME NEW c \in Callers, TakeLocked(c)
      PROVE  StoreInv'
  <2> DEFINE q == call[c]
  <2>1. /\ q.kind = "take" /\ FindOrInsert(q.key, q.at, q.cost, q.budget) /\ NoReader
        /\ call' = [call EXCEPT ![c] = NoCall] /\ conf' = conf /\ clock' = clock
    BY <1>9 DEF TakeLocked
  <2>2. q \in Calls /\ q.at <= clock
    BY <1>1, <1>3, <2>1 DEF CallTimely
  <2> HIDE DEF q
  <2>3. q.key \in Keys /\ q.cost \in Nat /\ q.budget \in Nat /\ q.at \in Nat
    BY <2>1, <2>2, CallParts
  <2>4. Kept
    BY <2>1, <2>2, <2>3, FindOrInsertKept
  <2>5. NoCall \in Calls /\ NoCall.kind = "none" /\ CallTimely(NoCall)
    BY NoCallKind
  <2>6. /\ call' \in [Callers -> Calls] /\ (\A d \in Callers : CallTimely(call'[d]))
        /\ call'[c] = NoCall /\ \A d \in Callers : d # c => call'[d] = call[d]
    BY <2>1, <2>5, CallsEdited
  <2>7. Held'
    BY <2>1, <2>5, <2>6, HeldStill
  <2> QED BY <2>1, <2>4, <2>6, <2>7, Carried
<1>10. ASSUME NEW c \in Callers, RefundLocked(c)
       PROVE  StoreInv'
  <2> DEFINE q == call[c]
  <2>1. /\ q.kind = "refund" /\ Repay(q.key, q.cost) /\ newest' = newest /\ NoReader
        /\ call' = [call EXCEPT ![c] = NoCall] /\ conf' = conf /\ clock' = clock
    BY <1>10 DEF RefundLocked
  <2>2. q \in Calls
    BY <1>1
  <2> HIDE DEF q
  <2>3. q.key \in Keys /\ q.cost \in Nat
    BY <2>1, <2>2, CallParts
  <2>4. Kept
    BY <2>1, <2>3, RepayKept
  <2>5. NoCall \in Calls /\ NoCall.kind = "none" /\ CallTimely(NoCall)
    BY NoCallKind
  <2>6. /\ call' \in [Callers -> Calls] /\ (\A d \in Callers : CallTimely(call'[d]))
        /\ call'[c] = NoCall /\ \A d \in Callers : d # c => call'[d] = call[d]
    BY <2>1, <2>5, CallsEdited
  <2>7. Held'
    BY <2>1, <2>5, <2>6, HeldStill
  <2> QED BY <2>1, <2>4, <2>6, <2>7, Carried
<1>11. ASSUME NEW k \in Keys, RemoveKey(k)
       PROVE  StoreInv'
  <2>1. conf' = conf /\ clock' = clock /\ call' = call /\ NoReader
    BY <1>11 DEF RemoveKey
  <2>2. Held'
    BY <2>1, HeldStill
  <2> QED BY <1>1, <1>3, <1>11, <2>1, <2>2, RemoveKeyKept, Carried
<1>12. ASSUME NEW k \in Keys, Reset(k)
       PROVE  StoreInv'
  <2>1. conf' = conf /\ clock' = clock /\ call' = call
    BY <1>12 DEF Reset
  <2>2. Kept /\ Live(map') = Live(map)
    BY <1>12, ResetKept
  <2>3. Held'
    BY <2>1, <2>2, HeldStill
  <2> QED BY <1>1, <1>3, <2>1, <2>2, <2>3, Carried
<1>13. CASE Clear
  <2>1. conf' = conf /\ clock' = clock /\ call' = call /\ NoReader
    BY <1>13 DEF Clear
  <2>2. Held'
    BY <2>1, HeldStill
  <2> QED BY <1>1, <1>3, <1>13, <2>1, <2>2, ClearKept, Carried
<1>14. CASE ClockTick
  <2>1. /\ clock < conf.until /\ clock' = clock + 1 /\ conf' = conf /\ map' = map
        /\ call' = call /\ ghost' = ghost /\ newest' = newest
        /\ \A c \in Callers : call[c].kind = "touch" => clock - call[c].at < Staleness
    BY <1>14 DEF ClockTick
  <2>2. clock' \in 0..conf'.until /\ newest' \in 0..clock'
    BY <1>1, <2>1
  <2>3. (\A c \in Callers : CallTimely(call[c]))'
    <3> SUFFICES ASSUME NEW c \in Callers PROVE CallTimely(call[c])'
      OBVIOUS
    <3>1. call[c] \in Calls /\ CallTimely(call[c]) /\ call'[c] = call[c]
      BY <1>1, <1>3, <2>1
    <3>2. call[c].kind \in {"take", "touch"} => call[c].at \in Nat /\ call[c].at <= clock
      BY <3>1, CallParts DEF CallTimely
    <3>3. call[c].kind = "touch" => clock - call[c].at < Staleness
      BY <2>1
    <3> DEFINE q == call[c]
    <3>4. q.kind \in {"take", "touch"} => q.at <= clock'
      <4> HIDE DEF q
      <4> QED BY <1>1, <2>1, <3>2 DEF q
    <3>5. q.kind = "touch" => clock' <= q.at + Staleness
      <4>1. q.kind = "touch" => q.at \in Nat /\ clock - q.at < Staleness
        BY <3>2, <3>3
      <4> HIDE DEF q
      <4> QED BY <1>1, <2>1, <4>1, StalenessType
    <3> QED BY <3>1, <3>4, <3>5 DEF CallTimely
  <2>4. MapGood(conf, map, ghost, newest)'
    <3>1. \A e \in ToSet(map.slots) : Near(e.seen, e.last) => e.last <= clock'
      <4> SUFFICES ASSUME NEW e \in ToSet(map.slots), Near(e.seen, e.last) PROVE e.last <= clock'
        OBVIOUS
      <4>1. e.last \in Nat /\ e.last <= clock
        BY <1>1, MapParts DEF Slots, Near
      <4> QED BY <1>1, <2>1, <4>1
    <3>2. conf.ttl # None => \A e \in ToSet(map.slots) : Near(e.seen, e.last)
      BY <1>1 DEF MapGood, Cover
    <3>3. conf.ttl # None => \A e \in ToSet(map.slots) :
                               e.last <= clock' /\ e.last < e.seen * Ms + Ms + Staleness
      BY <3>1, <3>2 DEF Near
    <3> QED BY <1>1, <2>1, <3>3 DEF MapGood, Cover, Near
  <2>5. ConfSound(conf') /\ ghost' \in [Keys -> Nat] /\ call' \in [Callers -> Calls]
    BY <1>1, <2>1
  <2>6. Held'
    BY <2>1, HeldStill
  <2> QED BY <2>2, <2>3, <2>4, <2>5, <2>6 DEF StoreInv
<1>15. CASE UNCHANGED storeVars
  <2>1. /\ map' = map /\ ghost' = ghost /\ newest' = newest /\ conf' = conf /\ clock' = clock
        /\ call' = call
    BY <1>15 DEF storeVars
  <2>2. Kept
    BY <1>4, <2>1
  <2>3. Held'
    BY <2>1, HeldStill
  <2> QED BY <1>1, <1>3, <2>1, <2>2, <2>3, Carried
<1>16. ASSUME NEW c \in Callers, NEW k \in Keys, NEW cost \in Costs, NEW budget \in Budgets,
              NEW at \in Readings, Hit(c, k, cost, budget, at)
       PROVE  StoreInv'
  <2> DEFINE q == [kind |-> "touch", key |-> k, cost |-> cost, budget |-> budget, at |-> at]
  <2>1. /\ call' = [call EXCEPT ![c] = q] /\ conf' = conf /\ clock' = clock
        /\ ghost' = ghost /\ newest' = newest /\ k \in Live(map)
        /\ map' = [map EXCEPT !.slots[SlotOf(map, k)].ref = TRUE]
    BY <1>16 DEF Hit
  <2>2. at \in Nat /\ at <= clock /\ clock <= at + Staleness
    BY <1>1, KeyStoreAssumption DEF Readings, Staleness
  <2>3. q \in Calls /\ q.at = at /\ q.kind = "touch" /\ q.key = k
    BY <1>2, <2>2 DEF Calls
  <2> HIDE DEF q
  <2>4. CallTimely(q)
    BY <2>2, <2>3 DEF CallTimely
  <2>5. /\ call' \in [Callers -> Calls] /\ (\A d \in Callers : CallTimely(call'[d]))
        /\ call'[c] = q /\ \A d \in Callers : d # c => call'[d] = call[d]
    BY <2>1, <2>3, <2>4, CallsEdited
  <2>6. Kept /\ Live(map') = Live(map)
    BY <2>1, HitKept
  <2>7. Held'
    BY <2>1, <2>3, <2>5, <2>6, HeldStill
  <2> QED BY <2>1, <2>5, <2>6, <2>7, Carried
<1>17. ASSUME NEW c \in Callers, Stamp(c)
       PROVE  StoreInv'
  <2> DEFINE q == call[c]
             at == q.at
  <2>1. /\ q.kind = "touch" /\ call' = [call EXCEPT ![c] = NoCall] /\ conf' = conf
        /\ clock' = clock
    BY <1>17 DEF Stamp
  <2>2. q \in Calls /\ CallTimely(q) /\ q.key \in Live(map)
    BY <1>1, <1>3, <2>1 DEF StoreInv, Held
  <2>3. /\ q.cost \in Nat /\ q.budget \in Nat /\ at \in Nat
        /\ at <= clock /\ clock <= at + Staleness
    <3> HIDE DEF q
    <3> QED BY <2>1, <2>2, CallParts DEF CallTimely
  <2>4. Kept /\ Live(map') = Live(map)
    BY <1>17, <2>2, <2>3, StampKept
  <2> HIDE DEF q, at
  <2>5. NoCall \in Calls /\ NoCall.kind = "none" /\ CallTimely(NoCall)
    BY NoCallKind
  <2>6. /\ call' \in [Callers -> Calls] /\ (\A d \in Callers : CallTimely(call'[d]))
        /\ call'[c] = NoCall /\ \A d \in Callers : d # c => call'[d] = call[d]
    BY <2>1, <2>5, CallsEdited
  <2>7. Held'
    BY <2>4, <2>5, <2>6, HeldStill
  <2> QED BY <2>1, <2>4, <2>6, <2>7, Carried
<1> QED BY <1>16, <1>17, <1>5, <1>6, <1>7, <1>8, <1>9, <1>10, <1>11, <1>12, <1>13, <1>14, <1>15 DEF StoreNext

-----------------------------------------------------------------------------
(* The theorems. *)

(* In every reachable state the store's map backs what the keys owe: a key *)
(* with an entry or a debt is at least as far from full as it would be had *)
(* nothing been evicted, one with neither had recovered by the newest      *)
(* reading the shard used (take, make_room and with_or_insert, store.rs).  *)
THEOREM MapBacksHistory == StoreSpec => []StoreInv
<1>1. StoreInit => StoreInv
  BY StoreInitInv
<1>2. StoreInv /\ [StoreNext]_storeVars => StoreInv'
  BY StoreNextInv
<1> QED BY <1>1, <1>2, PTL DEF StoreSpec

LEMMA InvTypes ==
  ASSUME StoreInv
  PROVE  StoreTypeOK
<1>1. /\ map \in Maps /\ call \in [Callers -> Calls] /\ conf.keys \in Nat \ {0}
      /\ MapGood(conf, map, ghost, newest)
  BY InvParts
<1>2. /\ map.slots \in Seq(Slots) /\ map.debts \in Seq(Debts)
      /\ map.hand \in Nat /\ map.sweep \in Nat /\ map.cursor \in Nat
      /\ DOMAIN map.slots = 1..Len(map.slots) /\ DOMAIN map.debts = 1..Len(map.debts)
  BY <1>1, MapParts
<1>3. \A i \in DOMAIN map.slots : map.slots[i] \in Slots
  BY <1>2
<1>4. \A i \in DOMAIN map.debts : map.debts[i] \in Debts
  BY <1>2
<1>5. map.hand <= conf.keys /\ map.sweep <= conf.keys /\ map.cursor <= conf.keys
  BY <1>1 DEF MapGood
<1>6. MaxOf(conf.keys, 1) = conf.keys
  BY <1>1 DEF MaxOf
<1>7. {map.hand, map.sweep, map.cursor} \subseteq 0..MaxOf(conf.keys, 1)
  BY <1>1, <1>2, <1>5, <1>6
<1>8. \A c \in Callers : call[c].kind \in {"none", "touch", "take", "refund"}
  <2> SUFFICES ASSUME NEW c \in Callers PROVE call[c].kind \in {"none", "touch", "take", "refund"}
    OBVIOUS
  <2>1. call[c] \in Calls
    BY <1>1
  <2> QED BY <2>1 DEF Calls, NoCall
<1>9. clock \in 0..conf.until /\ newest \in 0..clock /\ ghost \in [Keys -> Nat]
  BY DEF StoreInv
<1> QED BY <1>3, <1>4, <1>7, <1>8, <1>9 DEF StoreTypeOK, Slots, Debts

LEMMA InvOneState ==
  ASSUME StoreInv
  PROVE  OneStatePerKey /\ MemoryBounded
<1>1. map \in Maps /\ MapGood(conf, map, ghost, newest)
  BY InvParts
<1>2. /\ map.slots \in Seq(Slots) /\ map.debts \in Seq(Debts)
      /\ Live(map) = KeysOf(map.slots) /\ Owed(map) = KeysOf(map.debts)
  BY <1>1, MapParts
<1>3. /\ Once(map.slots) /\ Len(map.slots) <= conf.keys
      /\ Once(map.debts) /\ Len(map.debts) <= conf.keys
  BY <1>1 DEF MapGood, Tidy
<1>4. Cardinality(KeysOf(map.slots)) = Len(map.slots)
  BY <1>2, <1>3, KeyCount
<1>5. Cardinality(KeysOf(map.debts)) = Len(map.debts)
  BY <1>2, <1>3, KeyCount
<1>6. Live(map) \cap Owed(map) = {}
  BY WhoOwes
<1> QED BY <1>2, <1>3, <1>4, <1>5, <1>6 DEF OneStatePerKey, MemoryBounded

(* The shard keeps one state per key and never more than its share of the  *)
(* cap, in entries and in debts, for every number of keys, callers and     *)
(* shards, every policy and every interleaving of the lookup under the     *)
(* read lock with the insertion under the write lock (with_or_insert).     *)
THEOREM KeyedMapIsSound == StoreSpec => []MapSound
<1>1. StoreInv => MapSound
  BY InvTypes, InvOneState DEF MapSound
<1> QED BY <1>1, MapBacksHistory, PTL

LEMMA InvNoFreeTokens ==
  ASSUME StoreInv
  PROVE  NoFreeTokens
<1> SUFFICES ASSUME NEW k \in Keys
             PROVE  Missing(View(map, k, clock), clock) >= Missing(ghost[k], clock)
  BY DEF NoFreeTokens
<1>1. /\ ConfSound(conf) /\ clock \in Nat /\ newest \in Nat /\ newest <= clock
      /\ ghost[k] \in Nat
  BY InvParts
<1> DEFINE v == View(map, k, clock)
           g == ghost[k]
<1>2. v \in Nat /\ g <= v
  BY <1>1, ViewBacked
<1>3. g \in Nat
  BY <1>1
<1> HIDE DEF v, g
<1>4. Missing(g, clock) \in Nat /\ Missing(v, clock) \in Nat /\ Missing(g, clock) <= Missing(v, clock)
  BY <1>1, <1>2, <1>3, MissingMono
<1> QED BY <1>4 DEF v, g

(* Nobody gains by being evicted: through any number of evictions, sweeps, *)
(* restorations and refunds a key sees no more tokens than it would have   *)
(* had it kept its entry (restore_debt, Ledger::record and evict_one).     *)
THEOREM EvictionGivesNothing == StoreSpec => []NoFreeTokens
<1>1. StoreInv => NoFreeTokens
  BY InvNoFreeTokens
<1> QED BY <1>1, MapBacksHistory, PTL

(* Only the write-locked half of a call answers it. *)
LEMMA AnsweredUnderLock ==
  ASSUME StoreInv, [StoreNext]_storeVars, NEW c \in Callers,
         call[c].kind = "take", call'[c] = NoCall
  PROVE  TakeLocked(c)
<1>1. call \in [Callers -> Calls] /\ call[c] # NoCall
  BY InvParts, NoCallKind
<1>2. ASSUME call' = call PROVE FALSE
  BY <1>1, <1>2
<1>3. ASSUME NEW d \in Callers, NEW q, call' = [call EXCEPT ![d] = q], d # c PROVE FALSE
  BY <1>1, <1>3
<1>4. ASSUME NEW k \in Keys, NEW cost \in Costs, NEW budget \in Budgets, NEW at \in Readings,
             Take(k, cost, budget, at)
      PROVE  FALSE
  BY <1>2, <1>4 DEF Take
<1>5. ASSUME NEW d \in Callers, NEW k \in Keys, NEW cost \in Costs, NEW budget \in Budgets,
             Miss(d, k, cost, budget)
      PROVE  FALSE
  BY <1>1, <1>3, <1>5 DEF Miss
<1>6. ASSUME NEW k \in Keys, NEW cost \in Costs, Refund(k, cost) PROVE FALSE
  BY <1>2, <1>6 DEF Refund
<1>7. ASSUME NEW d \in Callers, NEW k \in Keys, NEW cost \in Costs, RefundMiss(d, k, cost)
      PROVE  FALSE
  BY <1>1, <1>3, <1>7 DEF RefundMiss
<1>8. ASSUME NEW d \in Callers, TakeLocked(d) PROVE TakeLocked(c)
  <2>1. call' = [call EXCEPT ![d] = NoCall]
    BY <1>8 DEF TakeLocked
  <2> QED BY <1>3, <1>8, <2>1
<1>9. ASSUME NEW d \in Callers, RefundLocked(d) PROVE FALSE
  <2>1. call' = [call EXCEPT ![d] = NoCall] /\ call[d].kind = "refund"
    BY <1>9 DEF RefundLocked
  <2> QED BY <1>3, <2>1
<1>10. ASSUME NEW k \in Keys, RemoveKey(k) \/ Reset(k) PROVE FALSE
  BY <1>2, <1>10 DEF RemoveKey, Reset
<1>11. ASSUME Clear \/ ClockTick \/ UNCHANGED storeVars PROVE FALSE
  BY <1>2, <1>11 DEF Clear, ClockTick, storeVars
<1>12. ASSUME NEW d \in Callers, NEW k \in Keys, NEW cost \in Costs, NEW budget \in Budgets,
              NEW at \in Readings, Hit(d, k, cost, budget, at)
       PROVE  FALSE
  BY <1>1, <1>3, <1>12 DEF Hit
<1>13. ASSUME NEW d \in Callers, Stamp(d) PROVE FALSE
  <2>1. call' = [call EXCEPT ![d] = NoCall] /\ call[d].kind = "touch"
    BY <1>13 DEF Stamp
  <2> QED BY <1>3, <2>1
<1> QED BY <1>4, <1>5, <1>6, <1>7, <1>8, <1>9, <1>10, <1>11, <1>12, <1>13, Zenon DEF StoreNext

LEMMA DebtorEnters ==
  ASSUME StoreInv, [StoreNext]_storeVars, NEW c \in Callers,
         call[c].kind = "take", call[c].key \in Owed(map), call'[c] = NoCall
  PROVE  call[c].key \in Live(map')
<1> DEFINE q == call[c]
<1>1. TakeLocked(c)
  BY AnsweredUnderLock
<1>2. FindOrInsert(q.key, q.at, q.cost, q.budget) /\ q.kind = "take"
  BY <1>1 DEF TakeLocked
<1>3. q \in Calls /\ q.at <= clock /\ q.key \in Owed(map)
  BY <1>2, InvParts DEF StoreInv, CallTimely
<1> HIDE DEF q
<1>4. q.key \in Keys /\ q.cost \in Nat /\ q.budget \in Nat /\ q.at \in Nat
  BY <1>2, <1>3, CallParts
<1>5. q.key \in Live(map')
  BY <1>2, <1>3, <1>4, FindOrInsertKept
<1> QED BY <1>5 DEF q

(* A key that left a debt behind is admitted to the map when its call gets *)
(* the write lock, whatever happened to the shard since it looked: the     *)
(* place its own debt frees in the ledger is enough to evict for           *)
(* (with_or_insert takes the debt before make_room).                       *)
THEOREM DebtorsAreAdmitted == StoreSpec => DebtorsReturn
<1>1. StoreInv /\ [StoreNext]_storeVars =>
        [\A c \in Callers :
           call[c].kind = "take" /\ call[c].key \in Owed(map) /\ call'[c] = NoCall
             => call[c].key \in Live(map')]_storeVars
  BY DebtorEnters
<1> QED BY <1>1, MapBacksHistory, PTL DEF StoreSpec, DebtorsReturn

LEMMA SweptWasIdle ==
  ASSUME StoreInv, NEW at \in Nat, NEW i \in DOMAIN map.slots
  PROVE  \/ map.slots[i].key \in Live(SweepIdle(map, at))
         \/ at - map.slots[i].last >= IdleAtLeast
<1> DEFINE w == MaxOf(newest, at)
           kept == SweepIdle(map, at)
           e == map.slots[i]
<1>1. /\ ConfSound(conf) /\ map \in Maps /\ newest \in Nat /\ ghost \in [Keys -> Nat]
      /\ MapGood(conf, map, ghost, newest)
  BY InvParts
<1>2. w \in Nat /\ newest <= w /\ at <= w
  BY <1>1 DEF MaxOf
<1> HIDE DEF w
<1>3. \A k \in Keys : ghost[k] <= ghost[k]
  BY <1>1
<1>4. MapGood(conf, map, ghost, w)
  BY <1>1, <1>2, <1>3, MapGoodLower
<1>5. kept \in Swept(map, at, ghost, w)
  BY <1>1, <1>2, <1>4, SweepIdleSwept
<1>6. e \in ToSet(map.slots)
  BY <1>1, MapParts, Members
<1> HIDE DEF kept, e
<1>7. kept \in Maps /\ (e \in ToSet(kept.slots) \/ at - e.last >= IdleAtLeast)
  BY <1>5, <1>6 DEF Swept
<1>8. e \in ToSet(kept.slots) => e.key \in Live(kept)
  <2>1. Live(kept) = KeysOf(kept.slots)
    BY <1>7, MapParts
  <2> QED BY <2>1 DEF KeysOf
<1> QED BY <1>7, <1>8 DEF kept, e

(* The sweep takes no key before it was idle for the whole TTL and long    *)
(* enough to recover, less what the stamp of the slower of two concurrent  *)
(* readers is behind, for every unit of the stamps: the extra millisecond  *)
(* Store::new adds makes up for both roundings (touch and is_expired).     *)
THEOREM SweptKeysWereIdle == StoreSpec => IdleIsIdle
<1> DEFINE WasIdle == \A c \in Callers : call[c].kind = "take" /\ call'[c] = NoCall /\ conf.ttl # None =>
       SweepsIdleSince(c, conf.idle + 1 - Staleness)
<1>1. StoreInv => WasIdle
  <2> SUFFICES ASSUME StoreInv, NEW c \in Callers, call[c].kind = "take", NEW i \in DOMAIN map.slots
               PROVE  \/ map.slots[i].key \in Live(SweepIdle(map, call[c].at))
                      \/ call[c].at - map.slots[i].last >= IdleAtLeast
    BY DEF SweepsIdleSince, IdleAtLeast
  <2>1. call[c].at \in Nat
    BY InvParts, CallParts
  <2> QED BY <2>1, SweptWasIdle
<1>2. StoreInv /\ [StoreNext]_storeVars => [WasIdle]_storeVars
  BY <1>1
<1>3. IdleIsIdle <=> [][WasIdle]_storeVars
  BY DEF IdleIsIdle
<1> QED BY <1>2, <1>3, MapBacksHistory, PTL DEF StoreSpec

=============================================================================
