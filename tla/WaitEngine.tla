----------------------------- MODULE WaitEngine -----------------------------
(***************************************************************************)
(* The waiting engine every asynchronous acquire runs on (wait_with in     *)
(* src/wait.rs), with the pause word of a limiter (src/hold.rs) and the    *)
(* process-wide resume event and epoch (src/rt.rs).                        *)
(*                                                                         *)
(* A waiter asks its limiter's step what it can have, sleeps, and asks     *)
(* again; what it holds is given back if it fails or is dropped.  The      *)
(* limiter's step is a Throttle's while it is paused (Retry for the rest   *)
(* of the pause) and otherwise any answer the contract of Step allows: a   *)
(* composite may hold part of its units across naps.                       *)
(*                                                                         *)
(* Waiters, pausers and resumers run on different threads, so the code is  *)
(* split at each access to the pause word, the epoch and the event.  One   *)
(* unit of time is the millisecond below which a nap is not worth a        *)
(* listener.  Time passes only when nobody can run, as under tokio's       *)
(* virtual clock: code takes no time, timers fire when due.                *)
(***************************************************************************)
EXTENDS Naturals, FiniteSets

CONSTANTS Waiters,     \* the futures waiting on one limiter
          Resumers,    \* the threads that may call resume
          Waits,       \* the waits a limiter's step may report
          Timeouts,    \* the timeouts of acquires; Forever for none
          Pauses,      \* the durations passed to pause_for
          RaceYields,  \* RACE_YIELDS
          MaxNow,      \* the clock stops here
          MaxResumes,  \* how often resume is called
          Forever      \* Duration::MAX

ASSUME WaitEngineAssumption ==
  /\ Waits \subseteq Nat /\ Timeouts \subseteq Nat /\ Pauses \subseteq Nat \ {0}
  /\ RaceYields \in Nat /\ MaxNow \in Nat /\ MaxResumes \in Nat
  /\ Forever \in Nat /\ Forever > MaxNow
  /\ \A d \in Waits : d <= Forever

VARIABLES now,        \* the clock
          hold,       \* Hold::until_ns: the end of the pause, 0 for none
          epoch,      \* RESUME_EPOCH
          listening,  \* waiters registered on RESUMED and not notified
          notified,   \* waiters registered on RESUMED and notified
          wt,         \* the state of each waiter
          rs          \* the state of each resumer

vars == <<now, hold, epoch, listening, notified, wt, rs>>

RaceBackoff == 1      \* RACE_BACKOFF

(* A waiter: where it is, the epoch it read, its timer, its deadline, the  *)
(* nap it is about to take and whether the limiter was paused on the last  *)
(* look, the consecutive zero waits, whether the step has granted, the     *)
(* guard (armed) and, as history: when its reservation matures, whether    *)
(* the limiter counts its units as taken, how the last acquire ended, and  *)
(* whether it naps for a pause and the epoch of the resume that lifted it. *)
Idle == [pc |-> "idle", ep |-> 0, due |-> 0, dl |-> 0, nap |-> 0, paused |-> FALSE,
         zeros |-> 0, granted |-> FALSE, ready |-> 0, armed |-> FALSE,
         taken |-> FALSE, ended |-> "none", pausing |-> FALSE, lifted |-> 0]

(* A resumer: where it is and the epoch it moved to. *)
NoResume == [pc |-> "idle", ep |-> 0]

Init ==
  /\ now = 0
  /\ hold = 0
  /\ epoch = 0
  /\ listening = {}
  /\ notified = {}
  /\ wt = [x \in Waiters |-> Idle]
  /\ rs = [r \in Resumers |-> NoResume]

Lesser(a, b) == IF a < b THEN a ELSE b

(* Hold::remaining. *)
Paused == IF hold > now THEN hold - now ELSE 0

(* Deadline::remaining. *)
Left(x) == IF wt[x].dl = Forever THEN Forever
           ELSE IF wt[x].dl > now THEN wt[x].dl - now ELSE 0

(* The instant a sleep that starts now ends. *)
Until(d) == IF d >= Forever THEN Forever ELSE Lesser(now + d, Forever)

Shared == <<now, hold, epoch, rs>>
Event  == <<listening, notified>>

(* The waiter's state becomes me. *)
Become(x, me) == wt' = [wt EXCEPT ![x] = me]

(* Mutant: the guard is disarmed and nothing given back. *)
FiredMute(me) == [me EXCEPT !.armed = FALSE]

(* Release::fire: what is held is given back once. *)
Fired(me) ==
  [me EXCEPT !.armed = FALSE, !.taken = @ /\ ~me.armed]

(* Leaving wait_with, by return or by drop, drops the guard, which fires   *)
(* if it is still armed.                                                   *)
Leave(me, how) == [Idle EXCEPT !.taken = Fired(me).taken, !.ended = how]

-----------------------------------------------------------------------------
(* The pause word and the resume. *)

(* Hold::extend: a shorter pause never shortens a longer one. *)
PauseFor(d) ==
  /\ hold' = IF hold > Until(d) THEN hold ELSE Until(d)
  /\ UNCHANGED <<now, epoch, listening, notified, wt, rs>>

(* rt::resume moves the epoch, clears the pause word, then wakes everyone  *)
(* if there was a pause to clear.                                          *)
ResumeBump(r) ==
  /\ rs[r].pc = "idle"
  /\ epoch < MaxResumes
  /\ epoch' = epoch + 1
  /\ rs' = [rs EXCEPT ![r] = [pc |-> "swap", ep |-> epoch + 1]]
  /\ UNCHANGED <<now, hold, listening, notified, wt>>

ResumeSwap(r) ==
  /\ rs[r].pc = "swap"
  /\ hold' = 0
  /\ IF hold = 0
       THEN rs' = [rs EXCEPT ![r] = NoResume] /\ UNCHANGED wt
       ELSE /\ rs' = [rs EXCEPT ![r].pc = "notify"]
            /\ wt' = [x \in Waiters |->
                 IF wt[x].pausing /\ wt[x].lifted = 0
                   THEN [wt[x] EXCEPT !.lifted = rs[r].ep] ELSE wt[x]]
  /\ UNCHANGED <<now, epoch, listening, notified>>

ResumeNotify(r) ==
  /\ rs[r].pc = "notify"
  /\ notified' = notified \cup listening
  /\ listening' = {}
  /\ rs' = [rs EXCEPT ![r] = NoResume]
  /\ UNCHANGED <<now, hold, epoch, wt>>

Resume(r) == ResumeBump(r) \/ ResumeSwap(r) \/ ResumeNotify(r)

-----------------------------------------------------------------------------
(* The waiter. *)

Begin(x) ==
  /\ wt[x].pc = "idle"
  /\ \E t \in Timeouts :
       Become(x, [Idle EXCEPT !.pc = "top", !.dl = Until(t)])
  /\ UNCHANGED <<Shared, Event>>

(* The loop starts by reading the epoch. *)
Top(x) ==
  /\ wt[x].pc = "top"
  /\ Become(x, [wt[x] EXCEPT !.pc = "step", !.ep = epoch])
  /\ UNCHANGED <<Shared, Event>>

(* Mutant: the back-off is not kept within the deadline. *)
NapAfterLong(x, me, after) ==
  IF after # 0
    THEN Become(x, [me EXCEPT !.pc = "recheck", !.zeros = 0, !.nap = after])
  ELSE IF me.zeros + 1 <= RaceYields
    THEN Become(x, [me EXCEPT !.pc = "yield", !.zeros = @ + 1])
    ELSE Become(x, [me EXCEPT !.pc = "recheck", !.zeros = Lesser(@ + 1, RaceYields + 1),
                              !.nap = RaceBackoff])

(* Mutant: a lost race is always retried at once. *)
NapAfterYield(x, me, after) ==
  IF after # 0
    THEN Become(x, [me EXCEPT !.pc = "recheck", !.zeros = 0, !.nap = after])
    ELSE Become(x, [me EXCEPT !.pc = "yield"])

(* What follows a step that asks to come back later: a zero wait yields a  *)
(* few times and then backs off, within the deadline.                      *)
NapAfter(x, me, after) ==
  IF after # 0
    THEN Become(x, [me EXCEPT !.pc = "recheck", !.zeros = 0, !.nap = after])
  ELSE IF me.zeros + 1 <= RaceYields
    THEN Become(x, [me EXCEPT !.pc = "yield", !.zeros = @ + 1])
  ELSE IF Left(x) = 0
    THEN Become(x, Leave(me, "timed out"))
    ELSE Become(x, [me EXCEPT !.pc = "recheck", !.zeros = Lesser(@ + 1, RaceYields + 1),
                              !.nap = Lesser(RaceBackoff, Left(x))])

(* Mutant: the reservation is slept out with an ear for a resume. *)
GrantedListening(x) ==
  \E wait \in Waits :
    /\ wait <= Left(x)
    /\ Become(x, [wt[x] EXCEPT !.pc = IF wait = 0 THEN "gtop" ELSE "listen",
                               !.granted = TRUE, !.armed = TRUE, !.taken = TRUE,
                               !.nap = wait, !.ready = Until(wait), !.pausing = FALSE])

(* Step::Granted: every unit is reserved, usable after the wait; the step  *)
(* was told the budget and answers within it.                              *)
Granted(x) ==
  \E wait \in Waits :
    /\ wait <= Left(x)
    /\ Become(x, [wt[x] EXCEPT !.pc = IF wait = 0 THEN "gtop" ELSE "sleeping",
                               !.granted = TRUE, !.armed = TRUE, !.taken = TRUE,
                               !.due = Until(wait), !.ready = Until(wait),
                               !.pausing = FALSE])

(* Step::Holding: some units are reserved. *)
Holding(x) ==
  \E wait \in Waits :
    LET me == [wt[x] EXCEPT !.armed = TRUE, !.taken = TRUE, !.pausing = FALSE]
    IN  IF wait > Left(x) THEN Become(x, Leave(me, "timed out")) ELSE NapAfter(x, me, wait)

(* Step::Retry: nothing is reserved. *)
Retry(x, after, pausing) ==
  LET me == [wt[x] EXCEPT !.armed = FALSE, !.taken = FALSE,
                          !.pausing = pausing, !.lifted = 0]
  IN  IF after > Left(x) THEN Become(x, Leave(me, "timed out")) ELSE NapAfter(x, me, after)

(* Step::Never. *)
Impossible(x) ==
  Become(x, Leave([wt[x] EXCEPT !.armed = FALSE, !.taken = FALSE], "never"))

AskLimiter(x) ==
  /\ wt[x].pc = "step"
  /\ \/ Paused # 0 /\ Retry(x, Paused, TRUE)
     \/ /\ Paused = 0
        /\ \/ Granted(x)
           \/ Holding(x)
           \/ \E after \in Waits : Retry(x, after, FALSE)
           \/ Impossible(x)
  /\ UNCHANGED <<Shared, Event>>

(* yield_now returns at the next poll. *)
Yielded(x) ==
  /\ wt[x].pc = "yield"
  /\ Become(x, [wt[x] EXCEPT !.pc = "top"])
  /\ UNCHANGED <<Shared, Event>>

(* Before the nap: is the limiter paused, and has a resume landed since    *)
(* the epoch was read?                                                     *)
Recheck(x) ==
  /\ wt[x].pc = "recheck"
  /\ Become(x, [wt[x] EXCEPT !.pc = "reepoch", !.paused = Paused # 0])
  /\ UNCHANGED <<Shared, Event>>

Asleep(me) == [me EXCEPT !.pc = "sleeping", !.due = Until(me.nap)]

(* sleep_unless_resumed: a short nap is not worth a listener. *)
SleepUnlessResumed(me) ==
  IF me.nap <= 1 THEN Asleep(me) ELSE [me EXCEPT !.pc = "listen"]

(* Where the waiter goes on after a nap, or instead of one. *)
Again(me) == [me EXCEPT !.pc = IF me.granted THEN "gtop" ELSE "top",
                        !.due = 0, !.nap = 0, !.paused = FALSE, !.ep = 0,
                        !.pausing = FALSE, !.lifted = 0]

Reepoch(x) ==
  /\ wt[x].pc = "reepoch"
  /\ Become(x, IF epoch # wt[x].ep THEN Again(wt[x])
               ELSE IF wt[x].paused THEN SleepUnlessResumed(wt[x])
               ELSE Asleep(wt[x]))
  /\ UNCHANGED <<Shared, Event>>

Listen(x) ==
  /\ wt[x].pc = "listen"
  /\ listening' = listening \cup {x}
  /\ Become(x, [wt[x] EXCEPT !.pc = "check"])
  /\ UNCHANGED <<Shared, notified>>

Unlisten(x) == listening' = listening \ {x} /\ notified' = notified \ {x}

(* Mutant: no second look at the epoch after listening. *)
CheckNothing(x) ==
  /\ wt[x].pc = "check"
  /\ Become(x, [wt[x] EXCEPT !.pc = "waiting", !.due = Until(wt[x].nap)])
  /\ UNCHANGED Event
  /\ UNCHANGED Shared

CheckEpoch(x) ==
  /\ wt[x].pc = "check"
  /\ IF epoch # wt[x].ep
       THEN Become(x, Again(wt[x])) /\ Unlisten(x)
       ELSE Become(x, [wt[x] EXCEPT !.pc = "waiting", !.due = Until(wt[x].nap)])
            /\ UNCHANGED Event
  /\ UNCHANGED Shared

(* The timer fires, or the resume event does. *)
WakeUp(x) ==
  /\ \/ wt[x].pc = "sleeping" /\ wt[x].due <= now
     \/ wt[x].pc = "waiting" /\ (wt[x].due <= now \/ x \in notified)
  /\ Become(x, Again(wt[x]))
  /\ Unlisten(x)
  /\ UNCHANGED Shared

(* A matured reservation waits out any pause set meanwhile. *)
GrantedTop(x) ==
  /\ wt[x].pc = "gtop"
  /\ Become(x, [wt[x] EXCEPT !.pc = "gpause", !.ep = epoch])
  /\ UNCHANGED <<Shared, Event>>

GrantedPause(x) ==
  /\ wt[x].pc = "gpause"
  /\ Become(x,
       IF Paused = 0
         THEN Leave([wt[x] EXCEPT !.armed = FALSE], "ok")
       ELSE IF Paused > Left(x)
         THEN Leave(wt[x], "timed out")
         ELSE SleepUnlessResumed([wt[x] EXCEPT !.nap = Paused, !.pausing = TRUE,
                                               !.lifted = 0]))
  /\ UNCHANGED <<Shared, Event>>

Suspended == {"sleeping", "waiting", "yield"}

(* The future is dropped at an await; its guard and listener go with it. *)
Cancel(x) ==
  /\ wt[x].pc \in Suspended
  /\ Become(x, Leave(wt[x], "dropped"))
  /\ Unlisten(x)
  /\ UNCHANGED Shared

Run(x) ==
  \/ Top(x) \/ AskLimiter(x) \/ Yielded(x) \/ Recheck(x) \/ Reepoch(x) \/ Listen(x)
  \/ CheckEpoch(x) \/ WakeUp(x) \/ GrantedTop(x) \/ GrantedPause(x)

-----------------------------------------------------------------------------
(* Nobody can run: every waiter is idle or asleep with nothing to wake it. *)
Quiet ==
  /\ \A x \in Waiters :
       \/ wt[x].pc = "idle"
       \/ wt[x].pc = "sleeping" /\ wt[x].due > now
       \/ wt[x].pc = "waiting" /\ wt[x].due > now /\ x \notin notified
  /\ \A r \in Resumers : rs[r].pc = "idle"

Tick ==
  /\ now < MaxNow
  /\ Quiet
  /\ now' = now + 1
  /\ UNCHANGED <<hold, epoch, listening, notified, wt, rs>>

Next ==
  \/ \E x \in Waiters : Begin(x) \/ Run(x) \/ Cancel(x)
  \/ \E r \in Resumers : Resume(r)
  \/ \E d \in Pauses : PauseFor(d)
  \/ Tick

Spec == Init /\ [][Next]_vars

(* A runnable future is polled; a resume that started finishes. *)
Fairness ==
  /\ \A x \in Waiters : WF_vars(Run(x))
  /\ \A r \in Resumers : WF_vars(ResumeSwap(r) \/ ResumeNotify(r))

FairSpec == Spec /\ Fairness

-----------------------------------------------------------------------------
(* Properties. *)

Registered == {"check", "waiting"}
Places == Suspended \cup Registered \cup
            {"idle", "top", "step", "recheck", "reepoch", "listen", "gtop", "gpause"}
WaiterStates ==
  [pc : Places,
   ep : Nat, due : 0..Forever, dl : 0..Forever, nap : Nat, paused : BOOLEAN,
   zeros : 0..(RaceYields + 1), granted : BOOLEAN, ready : 0..Forever, armed : BOOLEAN,
   taken : BOOLEAN, ended : {"none", "ok", "timed out", "never", "dropped"},
   pausing : BOOLEAN, lifted : Nat]
ResumerStates == [pc : {"idle", "swap", "notify"}, ep : Nat]

TypeOK ==
  /\ now \in 0..MaxNow
  /\ hold \in 0..Forever
  /\ epoch \in 0..MaxResumes
  /\ listening \cap notified = {}
  /\ listening \cup notified = {x \in Waiters : wt[x].pc \in Registered}
  /\ wt \in [Waiters -> WaiterStates]
  /\ rs \in [Resumers -> ResumerStates]

(* Units stay taken exactly when the acquire returned Ok: one that timed   *)
(* out, was refused or was dropped while it slept has given back what it   *)
(* had reserved, and one that succeeded has not (wait_with's guard).       *)
UnitsFollowOutcome ==
  TypeOK /\ \A x \in Waiters : wt[x].pc = "idle" => (wt[x].taken <=> wt[x].ended = "ok")

(* A wait with a timeout is over by its deadline: no nap, backoff or pause *)
(* carries it past (TN2-006).                                              *)
ResolvedByDeadline ==
  \A x \in Waiters : wt[x].pc # "idle" => now <= wt[x].dl

(* A reservation is not used before it matures, even if a resume wakes its *)
(* holder from the pause it waits out afterwards.                          *)
MaturedBeforeUse ==
  \A x \in Waiters : wt[x].pc \in {"gtop", "gpause"} => wt[x].ready <= now

(* x sleeps out a pause, longer than a nap not worth a listener, that has  *)
(* been lifted by a resume that is over.                                   *)
SleepsThroughResume(x) ==
  /\ wt[x].pc \in {"sleeping", "waiting"} /\ wt[x].pausing /\ wt[x].nap > 1
  /\ x \notin notified
  /\ wt[x].lifted # 0
  /\ \A r \in Resumers : rs[r].pc # "notify"

(* A waiter that read the epoch before a resume moved it is never left     *)
(* asleep on the pause that resume lifted.                                 *)
EarlyReaderIsWoken ==
  \A x \in Waiters :
    SleepsThroughResume(x) => wt[x].ep >= wt[x].lifted

(* What the comment on rt::resume says: no waiter sleeps through a resume. *)
NeverSleepsThroughResume ==
  \A x \in Waiters : ~SleepsThroughResume(x)

(* A waiter never polls for ever without sleeping: lost races end in a     *)
(* back-off (RACE_YIELDS).                                                 *)
NoSpin ==
  \A x \in Waiters : []<>(wt[x].pc \in {"idle", "sleeping", "waiting"})

=============================================================================
