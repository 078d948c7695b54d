------------------------------- MODULE Queue -------------------------------
(***************************************************************************)
(* The bounded priority queue of src/queue.rs in front of a limiter.       *)
(*                                                                         *)
(* The queue's state is guarded by one mutex; each locked section is one   *)
(* step, and a task runs a few unlocked steps around it: it listens on its *)
(* own event, looks whether it was evicted, reads the clock.  A section    *)
(* uses the reading made before the lock was taken, so the reading may be  *)
(* old.                                                                    *)
(*                                                                         *)
(* Time is only the order in which deadlines pass: expired holds the tasks *)
(* whose deadline has passed, soonest first, and a clock reading is what a *)
(* task saw of it.  Counters only order things, so they are kept as        *)
(* orders: waiters is the order of arrival (seq), fresh and used the order *)
(* of the keys by recency and id, cut behind the keys whose recency does   *)
(* not exceed recency_floor, which is where a key without state belongs.   *)
(* The levels and their indexes are a way to compute the winner, which is  *)
(* defined here by what it is.  The wrapped limiter may give any answer,   *)
(* and a wait it asks for ends some time.                                  *)
(***************************************************************************)
EXTENDS Naturals, Lists

CONSTANTS Callers, Keys,
          Configs,       \* the queues to start from, as described at conf
          Capacity,
          NoTask

ASSUME QueueAssumption ==
  /\ Capacity \in Nat \ {0}
  /\ NoTask \notin Callers
  /\ \A cf \in Configs :
       /\ cf.overflow \in {"Reject", "DropOldest", "DropLowestPriority"}
       /\ cf.prios \subseteq Nat /\ cf.prios # {}
       /\ cf.deadlines \subseteq BOOLEAN
       /\ cf.backstop \in BOOLEAN
       /\ cf.prune_at \in Nat

VARIABLES conf,      \* the overflow policy, the priorities requested, whether
                     \* calls come with a deadline, without or both,
                     \* whether the RECHECK timer may fire, and prune_at,
                     \* which is 2 * Capacity + 16 in the code; never changes
          q,         \* waiters: the waiting tasks, in order of arrival;
                     \* fresh: the keys not served since the floor;
                     \* used: the other keys, least recently served first
          expired,   \* the tasks whose deadline has passed, in that order
          tk         \* the state of each task

queueVars == <<conf, q, expired, tk>>

Clock == <<conf, expired>>

(* A task: where it is, its priority and key, whether it has a deadline,   *)
(* its listener, whether it was evicted, whether it slept holding the turn *)
(* and the clock reading it works with.                                    *)
Idle == [pc |-> "idle", prio |-> 0, key |-> NoTask, dl |-> FALSE, sig |-> "none",
         evicted |-> FALSE, turn |-> FALSE, saw |-> <<>>]

QueueInit ==
  /\ conf \in Configs
  /\ q = [waiters |-> <<>>, fresh |-> <<>>, used |-> <<>>]
  /\ expired = <<>>
  /\ tk = [t \in Callers |-> Idle]

Become(t, me) == tk' = [tk EXCEPT ![t] = me]

(* The deadline of a call that is over is of no interest. *)
Over(t) == expired' = Without(expired, t) /\ UNCHANGED conf

-----------------------------------------------------------------------------
(* State<K>. *)

Order(s) == s.fresh \o s.used

(* Mutant: the floor stays where it was. *)
MaybePruneKeysLow(s) ==
  LET busy == {tk[u].key : u \in ToSet(s.waiters)}
  IN  IF Len(Order(s)) <= conf.prune_at THEN s
      ELSE [s EXCEPT !.fresh = Keep(@, busy), !.used = Keep(@, busy)]

(* maybe_prune_keys: too many keys, and those without waiters are dropped. *)
(* The floor rises to the newest of them.                                  *)
MaybePruneKeys(s) ==
  LET busy == {tk[u].key : u \in ToSet(s.waiters)}
      floor == Max({0} \cup {i \in DOMAIN s.used : s.used[i] \notin busy})
  IN  IF Len(Order(s)) <= conf.prune_at THEN s
      ELSE [s EXCEPT !.fresh = Keep(@ \o SubSeq(s.used, 1, floor), busy),
                     !.used = SubSeq(@, floor + 1, Len(@))]

(* remove, of a waiter or of nobody. *)
Removed(s, t) ==
  IF t \notin ToSet(s.waiters) THEN s
  ELSE MaybePruneKeys([s EXCEPT !.waiters = Without(@, t)])

(* prune_expired, at a clock reading: one after the other. *)
Pruned(s, saw) ==
  LET after[n \in 0..Len(saw)] == IF n = 0 THEN s ELSE Removed(after[n - 1], saw[n])
  IN  after
Prune(s, saw) == Pruned(s, saw)[Len(saw)]

(* winner: the highest priority, then the least recently served key, then  *)
(* the first to arrive.                                                    *)
Winner(s) ==
  LET w == s.waiters
      best == {i \in DOMAIN w : \A j \in DOMAIN w : tk[w[j]].prio <= tk[w[i]].prio}
      rank(i) == CHOOSE n \in DOMAIN Order(s) : Order(s)[n] = tk[w[i]].key
      fair == {i \in best : \A j \in best : rank(i) <= rank(j)}
  IN  IF w = <<>> THEN NoTask ELSE w[CHOOSE i \in fair : \A j \in fair : i <= j]

(* weakest: the lowest priority, the newest among equals. *)
Weakest(w) ==
  LET low == {i \in DOMAIN w : \A j \in DOMAIN w : tk[w[i]].prio <= tk[w[j]].prio}
  IN  w[CHOOSE i \in low : \A j \in low : j <= i]

(* Signal::wake: the listener is notified, if there is one. *)
Wakened(me) == [me EXCEPT !.sig = IF @ = "listening" THEN "notified" ELSE @]

(* Mutant: the turn changes and nobody is told. *)
WakeNobody(s, states) == states

(* wake_winner on waiters already pruned: the states of the tasks after.   *)
WakeWinner(s, states) ==
  LET t == Winner(s)
  IN  IF t = NoTask THEN states ELSE [states EXCEPT ![t] = Wakened(@)]

-----------------------------------------------------------------------------
(* register. *)

(* The call starts by reading the clock; a new deadline is not yet passed. *)
Begin(t) ==
  /\ tk[t].pc = "idle"
  /\ \E prio \in conf.prios, key \in Keys, dl \in conf.deadlines :
       tk' = [u \in Callers |->
         IF u = t THEN [Idle EXCEPT !.pc = "register", !.prio = prio, !.key = key, !.dl = dl,
                                    !.saw = expired]
         ELSE [tk[u] EXCEPT !.saw = Without(@, t)]]
  /\ UNCHANGED <<q, Clock>>

(* Whom a full queue turns away. *)
Victim(t, w) ==
  CASE conf.overflow = "Reject" -> NoTask
    [] conf.overflow = "DropOldest" -> w[1]
    [] conf.overflow = "DropLowestPriority" ->
         IF tk[t].prio > tk[Weakest(w)].prio THEN Weakest(w) ELSE NoTask

(* Mutant: the victim is marked and not woken. *)
EvictedMute(me) == [me EXCEPT !.evicted = TRUE]

(* evict: out of the queue, marked, then woken. *)
Evicted(me) == Wakened([me EXCEPT !.evicted = TRUE])

(* insert: a key without state is as recent as the floor, behind the keys  *)
(* that are; then wake_winner.                                             *)
Insert(t, s, states) ==
  LET known == tk[t].key \in ToSet(Order(s))
      all == [s EXCEPT !.waiters = Append(@, t),
                       !.fresh = IF known THEN @ ELSE Append(@, tk[t].key)]
  IN  /\ q' = all
      /\ tk' = WakeWinner(all, [states EXCEPT ![t].pc = "loop", ![t].saw = <<>>])

(* Mutant: a full queue takes one more. *)
RegisterLoose(t) ==
  /\ tk[t].pc = "register"
  /\ Insert(t, Prune(q, tk[t].saw), tk)
  /\ UNCHANGED Clock

Register(t) ==
  /\ tk[t].pc = "register"
  /\ LET s == Prune(q, tk[t].saw)
     IN  IF Len(s.waiters) < Capacity THEN Insert(t, s, tk)
         ELSE LET v == Victim(t, s.waiters)
              IN  IF v = NoTask THEN q' = s /\ Become(t, Idle)
                  ELSE Insert(t, Removed(s, v), [tk EXCEPT ![v] = Evicted(@)])
  /\ IF tk'[t].pc = "idle" THEN Over(t) ELSE UNCHANGED Clock

-----------------------------------------------------------------------------
(* The loop of wait. *)

ListenTurn(t) ==
  /\ tk[t].pc = "loop"
  /\ Become(t, [tk[t] EXCEPT !.pc = "check", !.sig = "listening"])
  /\ UNCHANGED <<q, Clock>>

CheckEvicted(t) ==
  /\ tk[t].pc = "check"
  /\ Become(t, [tk[t] EXCEPT !.pc = IF tk[t].evicted THEN "leave" ELSE "clock"])
  /\ UNCHANGED <<q, Clock>>

CheckDeadline(t) ==
  /\ tk[t].pc = "clock"
  /\ Become(t, IF t \in ToSet(expired) THEN [tk[t] EXCEPT !.pc = "leave"]
               ELSE [tk[t] EXCEPT !.pc = "turn", !.saw = expired])
  /\ UNCHANGED <<q, Clock>>

(* It is t's turn in the locked section. *)
HasTurn(t) == tk[t].pc = "turn" /\ Winner(Prune(q, tk[t].saw)) = t

(* serve: the key becomes the most recently served, and the waiter goes. *)
Serve(s, t) ==
  LET key == tk[t].key
  IN  Removed([s EXCEPT !.fresh = Without(@, key), !.used = Append(Without(@, key), key)], t)

(* The limiter grants: t is served, leaves, and the next one is woken. *)
Granted(t) ==
  /\ HasTurn(t)
  /\ q' = Serve(Prune(q, tk[t].saw), t)
  /\ tk' = WakeWinner(q', [tk EXCEPT ![t] = Idle])
  /\ Over(t)

Asleep(me, turn) == [me EXCEPT !.pc = "asleep", !.turn = turn, !.saw = <<>>]

(* The limiter asks to come back later, or can never grant. *)
Refused(t) ==
  /\ HasTurn(t)
  /\ q' = Prune(q, tk[t].saw)
  /\ \/ Become(t, Asleep(tk[t], TRUE))
     \/ Become(t, [tk[t] EXCEPT !.pc = "leave", !.saw = <<>>])
  /\ UNCHANGED Clock

(* Not t's turn: sleep until woken.  The expired waiters are gone. *)
NotMyTurn(t) ==
  /\ tk[t].pc = "turn"
  /\ ~HasTurn(t)
  /\ q' = Prune(q, tk[t].saw)
  /\ Become(t, Asleep(tk[t], FALSE))
  /\ UNCHANGED Clock

(* The event, the limiter's wait, the deadline or the RECHECK timer. *)
WakeUp(t) ==
  /\ tk[t].pc = "asleep"
  /\ tk[t].sig = "notified" \/ tk[t].turn \/ t \in ToSet(expired) \/ conf.backstop
  /\ Become(t, [tk[t] EXCEPT !.pc = "loop", !.sig = "none", !.turn = FALSE])
  /\ UNCHANGED <<q, Clock>>

-----------------------------------------------------------------------------
(* The way out. *)

(* The future is dropped at its only await. *)
Cancel(t) ==
  /\ tk[t].pc = "asleep"
  /\ Become(t, [tk[t] EXCEPT !.pc = "leave", !.turn = FALSE])
  /\ UNCHANGED <<q, Clock>>

(* LeaveGuard::drop reads the clock ... *)
LeaveClock(t) ==
  /\ tk[t].pc = "leave"
  /\ Become(t, [tk[t] EXCEPT !.pc = "leaving", !.saw = Without(expired, t)])
  /\ UNCHANGED <<q, Clock>>

(* ... removes the waiter and, if it was still there, passes the turn on.  *)
LeaveQueue(t) ==
  /\ tk[t].pc = "leaving"
  /\ IF t \in ToSet(q.waiters)
       THEN /\ q' = Prune(Removed(q, t), tk[t].saw)
            /\ tk' = WakeWinner(q', [tk EXCEPT ![t] = Idle])
       ELSE UNCHANGED q /\ Become(t, Idle)
  /\ Over(t)

(* A deadline passes. *)
Expire(t) ==
  /\ tk[t].pc # "idle" /\ tk[t].dl /\ t \notin ToSet(expired)
  /\ expired' = Append(expired, t)
  /\ UNCHANGED <<conf, q, tk>>

RunCall(t) ==
  \/ Register(t) \/ ListenTurn(t) \/ CheckEvicted(t) \/ CheckDeadline(t)
  \/ Granted(t) \/ Refused(t) \/ NotMyTurn(t) \/ WakeUp(t) \/ LeaveClock(t) \/ LeaveQueue(t)

QueueNext == \E t \in Callers : Begin(t) \/ RunCall(t) \/ Cancel(t) \/ Expire(t)

QueueSpec == QueueInit /\ [][QueueNext]_queueVars

(* Callers are run on, and a limiter that is asked again and again grants.   *)
QueueFairness == \A t \in Callers : WF_queueVars(RunCall(t)) /\ SF_queueVars(Granted(t))

QueueFairSpec == QueueSpec /\ QueueFairness

-----------------------------------------------------------------------------
(* Properties. *)

Waiting == {"loop", "check", "clock", "turn", "asleep", "leave", "leaving"}

(* A waiter is in the queue at most once, and only while its call is in    *)
(* progress and it was not evicted: no exit leaves a ghost behind.         *)
QueueTypeOK ==
  /\ IsInjective(q.waiters) /\ IsInjective(Order(q))
  /\ \A t \in ToSet(q.waiters) : tk[t].pc \in Waiting /\ ~tk[t].evicted
  /\ \A t \in Callers : tk[t].pc \in Waiting \cup {"idle", "register"}
  /\ \A t \in ToSet(q.waiters) : tk[t].key \in ToSet(Order(q))

(* The queue is bounded, whichever way a full queue makes room.            *)
CapacityKept == QueueTypeOK /\ Len(q.waiters) <= Capacity

(* A waiter evicted at any point of its loop finds out: it is not left     *)
(* asleep.                                                                 *)
EvictedAreTold ==
  \A t \in Callers : tk[t].pc = "asleep" /\ tk[t].evicted => tk[t].sig = "notified"

(* Where no deadlines pass, the turn-holder is not asleep as if it were    *)
(* not its turn: whoever gains the turn by an arrival, a departure, an     *)
(* eviction or a cancelled wait is woken in the section that gives it.     *)
TurnHolderIsWoken ==
  LET t == Winner(q)
  IN  TRUE \notin conf.deadlines /\ t # NoTask /\ tk[t].pc = "asleep" => tk[t].turn \/ tk[t].sig = "notified"

Quiet ==
  \A t \in Callers :
    \/ tk[t].pc = "idle"
    \/ /\ tk[t].pc = "asleep" /\ tk[t].sig = "listening"
       /\ ~tk[t].turn /\ t \notin ToSet(expired)

(* What the comment on RECHECK says, that turn changes wake the new        *)
(* turn-holder directly: the waiters never all sleep for their backstop.   *)
SomebodyHasTheTurn == Quiet => q.waiters = <<>>

(* A waiter is not passed over for ever: fairness across keys and arrival  *)
(* order within a key bring everybody's turn.                              *)
EverybodyLeaves == \A t \in Callers : tk[t].pc # "idle" ~> tk[t].pc = "idle"

=============================================================================
