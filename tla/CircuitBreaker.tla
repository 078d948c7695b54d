--------------------------- MODULE CircuitBreaker ---------------------------
(***************************************************************************)
(* The circuit breaker of src/circuit.rs around any limiter.               *)
(*                                                                         *)
(* The breaker's state is guarded by one mutex, so each locked section is  *)
(* one step; between two sections of one operation (the admission, the     *)
(* wrapped limiter's answer, the outcome) other callers run.  The clock is *)
(* read before the lock is taken, so the reading a section uses may be     *)
(* MaxLag old.  The wrapped limiter may give any answer.                   *)
(*                                                                         *)
(* A caller is admitted either by permit (acquire, try_acquire and the     *)
(* calls built on them), which carries its ticket, or through the Limiter  *)
(* trait (acquire_cost, reserve), which does not: those report by          *)
(* record_success, record_failure or refund, and the breaker only counts   *)
(* them.  Such a report is stray if it arrives in a half-open period from  *)
(* a call that is not a trial of that period.                              *)
(***************************************************************************)
EXTENDS Integers, Sequences, FiniteSets

CONSTANTS Callers,
          Configs,     \* the configurations to start from, [trip, trials, required]
          Cooldown,    \* how long the breaker stays open
          MaxLag, MaxNow, MaxGen,
          MaxFailed    \* the history counts failures up to here

(* Trip::normalised and the builder's half_open leave these ranges. *)
ASSUME BreakerAssumption ==
  /\ IsFiniteSet(Callers)
  /\ Cooldown \in Nat /\ MaxLag \in Nat /\ MaxNow \in Nat /\ MaxGen \in Nat
  /\ MaxFailed \in Nat
  /\ \A cf \in Configs :
       /\ cf.trials \in Nat \ {0} /\ cf.required \in 1..cf.trials
       /\ cf.trip.kind \in {"consecutive", "ratio", "windowed"}
       /\ cf.trip.n \in Nat \ {0} /\ cf.trip.window \in Nat \ {0}
       /\ cf.trip.minCalls \in 0..cf.trip.window /\ cf.trip.period \in Nat
       /\ cf.trip.den \in Nat \ {0} /\ cf.trip.num \in 0..cf.trip.den

VARIABLES conf,    \* the configuration; never changes
          now,     \* the clock
          sh,      \* Shared
          cl,      \* the callers: where each is and its ticket
          opened,  \* history: when the breaker last opened
          failed,  \* history: failures reported since it last closed
          strays   \* history: the kinds of stray report in this half-open period

vars == <<conf, now, sh, cl, opened, failed, strays>>

Trip == conf.trip          \* [kind, n, window, num, den, minCalls, period]
Trials == conf.trials      \* half_open_trials
Required == conf.required  \* half_open_required

NoTicket == [gen |-> 0, probe |-> FALSE]
Idle == [pc |-> "idle", ticket |-> NoTicket]

Init ==
  /\ conf \in Configs
  /\ now = 0
  /\ sh = [state |-> "Closed", gen |-> 0, consecutive |-> 0, outcomes |-> <<>>,
           failure_times |-> <<>>, inflight |-> 0, traits |-> 0, successes |-> 0, until |-> 0]
  /\ cl = [c \in Callers |-> Idle]
  /\ opened = 0
  /\ failed = 0
  /\ strays = {}

(* The readings of now_ms a section may work with. *)
Readings == {t \in 0..now : now - t <= MaxLag}

-----------------------------------------------------------------------------
(* The state machine, as functions of Shared. *)

Transition(s, to) == [s EXCEPT !.state = to, !.gen = @ + 1]

(* Mutant: the counts of failures survive a recovery. *)
ResetTrials(s) == [s EXCEPT !.inflight = 0, !.traits = 0, !.successes = 0]

ResetCounters(s) ==
  [s EXCEPT !.consecutive = 0, !.outcomes = <<>>, !.failure_times = <<>>,
            !.inflight = 0, !.traits = 0, !.successes = 0]

Open(s, t) ==
  Transition([s EXCEPT !.until = t + Cooldown, !.inflight = 0, !.traits = 0, !.successes = 0],
             "Open")

LessOne(n) == IF n = 0 THEN 0 ELSE n - 1

(* admit_locked: whether a caller is admitted, and the state if it is. *)
Admits(s, t) ==
  \/ s.state = "Closed"
  \/ s.state = "Open" /\ t >= s.until
  \/ s.state = "HalfOpen" /\ s.inflight < Trials

Admitted(s, viaTrait) ==
  LET one == IF viaTrait THEN 1 ELSE 0
  IN  CASE s.state = "Closed"   -> s
        [] s.state = "Open"     -> Transition([s EXCEPT !.inflight = 1, !.traits = one,
                                                        !.successes = 0], "HalfOpen")
        [] s.state = "HalfOpen" -> [s EXCEPT !.inflight = @ + 1, !.traits = @ + one]

TicketOf(s) == [gen |-> s.gen, probe |-> s.state = "HalfOpen"]

(* Mutant: a trial of another half-open period gives a slot back. *)
AbortAnyPeriod(s, ticket, viaTrait) ==
  IF ticket.probe /\ s.state = "HalfOpen"
    THEN [s EXCEPT !.inflight = LessOne(@), !.traits = IF viaTrait THEN LessOne(@) ELSE @]
    ELSE s

(* abort_as: a trial that never reached the downstream. *)
Abort(s, ticket, viaTrait) ==
  IF ticket.probe /\ s.gen = ticket.gen /\ s.state = "HalfOpen"
    THEN [s EXCEPT !.inflight = LessOne(@), !.traits = IF viaTrait THEN LessOne(@) ELSE @]
    ELSE s

RecentFailures(s, t) == SelectSeq(s.failure_times, LAMBDA u : u >= t - Trip.period)

(* record_outcome: only the front of failure_times is dropped. *)
DropOld(times, t) ==
  LET old == {i \in DOMAIN times : \A j \in 1..i : times[j] < t - Trip.period}
  IN  SubSeq(times, Cardinality(old) + 1, Len(times))

RecordOutcome(s, failure, t) ==
  CASE Trip.kind = "consecutive" -> s
    [] Trip.kind = "ratio" ->
         LET all == Append(s.outcomes, failure)
         IN  [s EXCEPT !.outcomes = IF Len(all) > Trip.window THEN Tail(all) ELSE all]
    [] Trip.kind = "windowed" ->
         [s EXCEPT !.failure_times =
            DropOld(IF failure THEN Append(@, t) ELSE @, t)]

Failures(outcomes) == Cardinality({i \in DOMAIN outcomes : outcomes[i]})

Tripped(s, t) ==
  CASE Trip.kind = "consecutive" -> s.consecutive >= Trip.n
    [] Trip.kind = "ratio" ->
         /\ s.outcomes # <<>> /\ Len(s.outcomes) >= Trip.minCalls
         /\ Failures(s.outcomes) * Trip.den >= Trip.num * Len(s.outcomes)
    [] Trip.kind = "windowed" -> Len(RecentFailures(s, t)) >= Trip.n

(* apply: one outcome that belongs to the current state. *)
Apply(s, success, t, probe) ==
  CASE s.state = "HalfOpen" ->
         LET freed == [s EXCEPT !.inflight = IF probe THEN LessOne(@) ELSE @]
         IN  IF ~success THEN Open(freed, t)
             ELSE IF s.successes + 1 >= Required
               THEN Transition(ResetCounters(freed), "Closed")
               ELSE [freed EXCEPT !.successes = @ + 1]
    [] s.state = "Closed" ->
         LET counted == RecordOutcome(
               [s EXCEPT !.consecutive = IF success THEN 0 ELSE @ + 1], ~success, t)
         IN  IF ~success /\ Tripped(counted, t) THEN Open(counted, t) ELSE counted
    [] s.state = "Open" -> s

-----------------------------------------------------------------------------
(* Locked sections. *)

(* Every section that changes the state keeps the history up to date. *)
BecomeBy(s, success, stray) ==
  /\ sh' = s
  /\ strays' = IF s.gen # sh.gen THEN {} ELSE strays \cup stray
  /\ opened' = IF s.state = "Open" /\ s.gen # sh.gen THEN now ELSE opened
  /\ failed' = IF s.state = "Closed" /\ s.gen # sh.gen THEN 0
               ELSE IF sh.state = "Closed" /\ ~success /\ failed < MaxFailed
                 THEN failed + 1 ELSE failed
  /\ UNCHANGED <<conf, now>>

Become(s, success) == BecomeBy(s, success, {})

Goto(c, pc) == cl' = [cl EXCEPT ![c].pc = pc]
Leave(c) == cl' = [cl EXCEPT ![c] = Idle]

(* admit_as; a shed caller leaves no trace. *)
Admit(c, pc) ==
  /\ cl[c].pc = "idle"
  /\ sh.gen < MaxGen
  /\ \E t \in Readings : Admits(sh, t)
  /\ LET s == Admitted(sh, pc = "traitAsking")
     IN  Become(s, TRUE) /\ cl' = [cl EXCEPT ![c] = [pc |-> pc, ticket |-> TicketOf(s)]]

(* try_acquire asks the wrapped limiter once, acquire waits for it. *)
TryAcquire(c) == Admit(c, "asking")
Acquire(c) == Admit(c, "waiting")

InnerGranted(c) ==
  /\ cl[c].pc = "asking"
  /\ Goto(c, "permit")
  /\ UNCHANGED <<conf, now, sh, opened, failed, strays>>

(* Mutant: a refused or dropped trial keeps its slot. *)
InnerRefusedKeeping(c) ==
  /\ cl[c].pc \in {"asking", "waiting"}
  /\ UNCHANGED <<conf, now, sh, opened, failed, strays>>
  /\ Leave(c)

(* The wrapped limiter refused, the wait failed or was dropped (SlotGuard). *)
InnerRefused(c) ==
  /\ cl[c].pc \in {"asking", "waiting"}
  /\ Become(Abort(sh, cl[c].ticket, FALSE), TRUE)
  /\ Leave(c)

(* Mutant: only an open breaker sheds the waiter. *)
StillNotOpen(ticket) == sh.state # "Open" \/ sh.gen = ticket.gen

(* still_admits *)
StillAdmits(ticket) == sh.gen = ticket.gen \/ sh.state = "Closed"

(* The wait succeeded: go, unless the breaker sheds by now. *)
WaitOver(c) ==
  /\ cl[c].pc = "waiting"
  /\ IF StillAdmits(cl[c].ticket)
       THEN Goto(c, "released") /\ UNCHANGED <<conf, now, sh, opened, failed, strays>>
       ELSE Become(Abort(sh, cl[c].ticket, FALSE), TRUE) /\ Leave(c)

Permits == {"permit", "released"}

(* success, failure, and the drop of an unsettled permit: settle. *)
Settle(c, success) ==
  /\ cl[c].pc \in Permits
  /\ \E t \in Readings :
       IF sh.gen = cl[c].ticket.gen
         THEN Become(Apply(sh, success, t, cl[c].ticket.probe), success)
         ELSE UNCHANGED <<conf, now, sh, opened, failed, strays>>
  /\ Leave(c)

CancelPermit(c) ==
  /\ cl[c].pc \in Permits
  /\ Become(Abort(sh, cl[c].ticket, FALSE), TRUE)
  /\ Leave(c)

-----------------------------------------------------------------------------
(* The Limiter trait. *)

TraitAcquire(c) == Admit(c, "traitAsking")

TraitGranted(c) ==
  /\ cl[c].pc = "traitAsking"
  /\ Goto(c, "trait")
  /\ UNCHANGED <<conf, now, sh, opened, failed, strays>>

TraitRefused(c) ==
  /\ cl[c].pc = "traitAsking"
  /\ Become(Abort(sh, cl[c].ticket, TRUE), TRUE)
  /\ Leave(c)

(* A trial of the current half-open period. *)
Trial(c) == sh.state = "HalfOpen" /\ cl[c].ticket.probe /\ cl[c].ticket.gen = sh.gen

Stray(c, kind) == IF sh.state = "HalfOpen" /\ ~Trial(c) THEN {kind} ELSE {}

(* record_success and record_failure: record_manual. *)
Record(c, success) ==
  /\ cl[c].pc = "trait"
  /\ LET probe == sh.state = "HalfOpen" /\ sh.traits > 0
     IN  \E t \in Readings :
           BecomeBy(Apply([sh EXCEPT !.traits = IF probe THEN @ - 1 ELSE @], success, t, probe),
                    success, Stray(c, "record"))
  /\ Leave(c)

(* refund: release_trait_probe. *)
Refund(c) ==
  /\ cl[c].pc = "trait"
  /\ BecomeBy(IF sh.state = "HalfOpen" /\ sh.traits > 0
                THEN [sh EXCEPT !.traits = @ - 1, !.inflight = LessOne(@)] ELSE sh,
              TRUE, Stray(c, "refund"))
  /\ Leave(c)

Reset ==
  /\ sh.gen < MaxGen
  /\ Become(Transition(ResetCounters(sh), "Closed"), TRUE)
  /\ UNCHANGED cl

Tick ==
  /\ now < MaxNow
  /\ now' = now + 1
  /\ UNCHANGED <<conf, sh, cl, opened, failed, strays>>

(* What ends a call that was admitted. *)
Finish(c) ==
  \/ InnerGranted(c) \/ InnerRefused(c) \/ WaitOver(c) \/ CancelPermit(c)
  \/ TraitGranted(c) \/ TraitRefused(c) \/ Refund(c)
  \/ \E success \in BOOLEAN : Settle(c, success) \/ Record(c, success)

Next ==
  \/ \E c \in Callers : TryAcquire(c) \/ Acquire(c) \/ TraitAcquire(c) \/ Finish(c)
  \/ Reset
  \/ Tick

Spec == Init /\ [][Next]_vars

(* Admitted calls end: a wait ends or is dropped, a permit is settled or   *)
(* dropped, a trait caller reports.                                        *)
Fairness == \A c \in Callers : WF_vars(Finish(c))

FairSpec == Spec /\ Fairness

-----------------------------------------------------------------------------
(* Properties. *)

PermitPlaces == {"asking", "waiting"} \cup Permits
TraitPlaces == {"traitAsking", "trait"}
Places == {"idle"} \cup PermitPlaces \cup TraitPlaces

Calls == [pc : Places, ticket : [gen : Nat, probe : BOOLEAN]]
SharedStates ==
  [state : {"Closed", "Open", "HalfOpen"}, gen : Nat, consecutive : Nat,
   outcomes : Seq(BOOLEAN), failure_times : Seq(Nat),
   inflight : Nat, traits : Nat, successes : Nat, until : Nat]

TypeOK ==
  /\ conf \in Configs /\ now \in Nat /\ opened \in Nat /\ failed \in Nat
  /\ sh \in SharedStates
  /\ cl \in [Callers -> Calls]

PermitTrials == {c \in Callers : cl[c].pc \in PermitPlaces /\ Trial(c)}
TraitTrials == {c \in Callers : cl[c].pc \in TraitPlaces /\ Trial(c)}

(* Even with stray reports the breaker never counts a trial that is not    *)
(* there, so it cannot wedge half-open (TN2-003).                          *)
NoPhantomTrial ==
  sh.state = "HalfOpen" =>
    sh.inflight <= Cardinality(PermitTrials) + Cardinality(TraitTrials)

(* The trial slots in use are exactly those of the live trials of this     *)
(* half-open period, unless a stray report came in: none leaks through a   *)
(* refusal, a dropped wait, a cancelled permit or a change of state, and   *)
(* no more than Trials run.  A stray report never leaves a phantom.        *)
TrialsAccounted ==
  /\ TypeOK /\ NoPhantomTrial
  /\ sh.inflight <= Trials
  /\ sh.state = "HalfOpen" /\ strays = {} =>
       /\ sh.inflight = Cardinality(PermitTrials) + Cardinality(TraitTrials)
       /\ sh.traits = Cardinality(TraitTrials)
  /\ sh.state # "HalfOpen" => sh.inflight = 0 /\ sh.traits = 0

(* What the documentation of record_success says: reported that way, a     *)
(* call that never held a trial slot cannot free another's, so no more     *)
(* than Trials run.                                                        *)
NeverMoreThanTrials ==
  "refund" \notin strays => Cardinality(PermitTrials) + Cardinality(TraitTrials) <= Trials

(* A waiting acquire that is let go while the breaker is half-open is one  *)
(* of its trials, however long it waited and through however many states   *)
(* (TN2-013).                                                              *)
WaitersAreTrials ==
  [][\A c \in Callers : cl[c].pc = "waiting" /\ cl'[c].pc = "released" =>
       sh.state = "Closed" \/ Trial(c)]_vars

(* The breaker goes half-open only when it has been open for the cooldown, *)
(* short of the age a clock reading may have.                              *)
CooldownServed ==
  [][sh.state = "Open" /\ sh'.state = "HalfOpen" => now >= opened + Cooldown - MaxLag]_vars

(* What the changes of state promise: trials after a wait, calls after the *)
(* cooldown.                                                               *)
PeriodsRespected == WaitersAreTrials /\ CooldownServed

(* What the closed breaker counts towards a trip happened since it closed: *)
(* nothing survives a recovery or a reset.  (From MaxFailed on the history *)
(* is full and says nothing.)                                              *)
CountsAreRecent ==
  sh.state = "Closed" /\ failed < MaxFailed =>
    /\ sh.consecutive <= failed
    /\ Failures(sh.outcomes) <= failed
    /\ Len(sh.failure_times) <= failed

(* A half-open breaker with every trial slot taken does not stay so.       *)
TrialSlotComesBack == []<>(sh.state # "HalfOpen" \/ sh.inflight < Trials)

=============================================================================
