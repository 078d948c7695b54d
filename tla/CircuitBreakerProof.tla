------------------------- MODULE CircuitBreakerProof -------------------------
(***************************************************************************)
(* Proofs about the circuit breaker, for every set of callers, cooldown,   *)
(* lag of the clock readings and configuration.                            *)
(***************************************************************************)
EXTENDS CircuitBreaker, Counting

-----------------------------------------------------------------------------
(* What the counts of the closed breaker are made of. *)

(* Dropping the front of the failure times adds none. *)
LEMMA DropOldShorter ==
  ASSUME NEW times \in Seq(Nat), NEW t
  PROVE  DropOld(times, t) \in Seq(Nat) /\ Len(DropOld(times, t)) <= Len(times)
<1> DEFINE n == Len(times)
           old == {i \in DOMAIN times : \A j \in 1..i : times[j] < t - Trip.period}
           k == Cardinality(old)
<1>1. n \in Nat /\ DOMAIN times = 1..n
  OBVIOUS
<1>2. k \in Nat
  <2>1. IsFiniteSet(1..n)
    BY <1>1, FS_Interval
  <2>2. IsFiniteSet(old)
    BY <1>1, <2>1, FS_Subset
  <2> QED BY <2>2, FS_CardinalityType
<1>3. DropOld(times, t) = SubSeq(times, k + 1, n)
  BY DEF DropOld
<1> HIDE DEF k
<1> QED BY <1>1, <1>2, <1>3

(* A new outcome adds at most one failure to the window. *)
LEMMA FailuresAppend ==
  ASSUME NEW q \in Seq(BOOLEAN), NEW f \in BOOLEAN
  PROVE  /\ Failures(q) \in Nat /\ Failures(Append(q, f)) \in Nat
         /\ Failures(Append(q, f)) = Failures(q) + Bit(f)
<1> DEFINE n == Len(q)
           A == {i \in DOMAIN q : q[i]}
           q1 == Append(q, f)
           B == {i \in DOMAIN q1 : q1[i]}
<1>1. n \in Nat /\ DOMAIN q = 1..n /\ DOMAIN q1 = 1..(n + 1)
  OBVIOUS
<1>2. \A i \in 1..n : q1[i] = q[i]
  OBVIOUS
<1>3. q1[n + 1] = f
  OBVIOUS
<1> HIDE DEF n, q1
<1>4. n + 1 \notin A /\ (n + 1 \in B <=> f)
  BY <1>1, <1>3
<1>5. A \ {n + 1} = B \ {n + 1}
  BY <1>1, <1>2
<1>6. IsFiniteSet(A)
  <2>1. IsFiniteSet(1..n)
    BY <1>1, FS_Interval
  <2> QED BY <1>1, <2>1, FS_Subset
<1> HIDE DEF A, B
<1>7. /\ Cardinality(A) \in Nat /\ Cardinality(B) \in Nat
      /\ Cardinality(B) = Cardinality(A) + Bit(n + 1 \in B) - Bit(n + 1 \in A)
  BY <1>5, <1>6, OneChanged
<1>8. Bit(n + 1 \in A) = 0 /\ Bit(n + 1 \in B) = Bit(f)
  <2>1. CASE f
    BY <1>4, <2>1 DEF Bit
  <2>2. CASE ~f
    BY <1>4, <2>2 DEF Bit
  <2> QED BY <2>1, <2>2
<1>9. Bit(f) \in Int
  BY DEF Bit
<1>10. Failures(q) = Cardinality(A) /\ Failures(Append(q, f)) = Cardinality(B)
  BY DEF Failures, A, B, q1
<1>11. Cardinality(B) = Cardinality(A) + Bit(f)
  BY <1>7, <1>8, <1>9
<1> QED BY <1>7, <1>10, <1>11

(* What leaves the window takes no failure in. *)
LEMMA FailuresTail ==
  ASSUME NEW q \in Seq(BOOLEAN), q # <<>>
  PROVE  /\ Failures(q) \in Nat /\ Failures(Tail(q)) \in Nat
         /\ Failures(Tail(q)) <= Failures(q)
<1> DEFINE n == Len(q)
           A == {i \in DOMAIN q : q[i]}
           q1 == Tail(q)
           B == {i \in DOMAIN q1 : q1[i]}
           next == [i \in B |-> i + 1]
<1>1. n \in Nat /\ n > 0 /\ DOMAIN q = 1..n /\ DOMAIN q1 = 1..(n - 1)
  OBVIOUS
<1>2. \A i \in 1..(n - 1) : q1[i] = q[i + 1]
  OBVIOUS
<1> HIDE DEF n, q1
<1>3. \A i \in B : i \in Nat /\ i + 1 \in A
  BY <1>1, <1>2
<1>4. next \in Injection(B, A)
  <2> HIDE DEF A, B
  <2> QED BY <1>3 DEF Injection, IsInjective
<1>5. IsFiniteSet(A)
  <2>1. IsFiniteSet(1..n)
    BY <1>1, FS_Interval
  <2> QED BY <1>1, <2>1, FS_Subset
<1> HIDE DEF A, B, next
<1>6. IsFiniteSet(B) /\ Cardinality(B) <= Cardinality(A)
  BY <1>4, <1>5, FS_Injection
<1>7. Cardinality(A) \in Nat /\ Cardinality(B) \in Nat
  BY <1>5, <1>6, FS_CardinalityType
<1> QED BY <1>6, <1>7 DEF Failures, A, B, q1

-----------------------------------------------------------------------------
(* The invariant.                                                          *)

PermitTrial(m) ==
  /\ m.pc \in PermitPlaces
  /\ sh.state = "HalfOpen" /\ m.ticket.probe /\ m.ticket.gen = sh.gen

TraitTrial(m) ==
  /\ m.pc \in TraitPlaces
  /\ sh.state = "HalfOpen" /\ m.ticket.probe /\ m.ticket.gen = sh.gen

(* Each slot in use belongs to a live permit trial or is counted among the *)
(* trait callers', and of those there are no more than live trait trials:  *)
(* so that a trait caller whose slot a stray report gave back leaves no    *)
(* phantom when it reports in turn.                                        *)
Slots ==
  /\ sh.inflight <= Trials
  /\ sh.state = "HalfOpen" =>
       /\ sh.inflight <= Cardinality(PermitTrials) + sh.traits
       /\ sh.traits <= Cardinality(TraitTrials)
       /\ strays = {} => /\ sh.inflight = Cardinality(PermitTrials) + Cardinality(TraitTrials)
                         /\ sh.traits = Cardinality(TraitTrials)
  /\ sh.state # "HalfOpen" => sh.inflight = 0 /\ sh.traits = 0

(* A ticket of the current period is a trial's if the period is half-open, *)
(* and an open breaker gives none.                                         *)
TicketSound(m) ==
  m.pc # "idle" =>
    /\ m.ticket.gen <= sh.gen
    /\ m.ticket.gen = sh.gen => /\ sh.state # "Open"
                                /\ sh.state = "HalfOpen" => m.ticket.probe

(* The cooldown was counted from a reading at most MaxLag old. *)
OpenInFull == sh.state = "Open" => opened + Cooldown <= sh.until + MaxLag

Inv ==
  /\ TypeOK
  /\ Slots
  /\ \A c \in Callers : TicketSound(cl[c])
  /\ OpenInFull
  /\ CountsAreRecent

(* What the configuration is. *)
LEMMA Configured ==
  ASSUME conf \in Configs
  PROVE  /\ Trials \in Nat /\ Trials >= 1
         /\ Trip.kind \in {"consecutive", "ratio", "windowed"}
  BY BreakerAssumption DEF Trials, Trip

(* The live trials are finitely many. *)
LEMMA TrialsFinite ==
  /\ IsFiniteSet(PermitTrials) /\ IsFiniteSet(TraitTrials)
  /\ Cardinality(PermitTrials) \in Nat /\ Cardinality(TraitTrials) \in Nat
<1>1. PermitTrials \subseteq Callers /\ TraitTrials \subseteq Callers
  BY DEF PermitTrials, TraitTrials
<1>2. IsFiniteSet(PermitTrials) /\ IsFiniteSet(TraitTrials)
  BY <1>1, BreakerAssumption, FS_Subset
<1> QED BY <1>2, FS_CardinalityType

(* Within a period only the caller that moves comes or goes. *)
LEMMA TrialsMove ==
  ASSUME TypeOK, NEW c \in Callers, NEW m \in Calls, cl' = [cl EXCEPT ![c] = m],
         sh'.gen = sh.gen, sh'.state = sh.state
  PROVE  /\ Cardinality(PermitTrials)' = Cardinality(PermitTrials)
              + Bit(PermitTrial(m)) - Bit(PermitTrial(cl[c]))
         /\ Cardinality(TraitTrials)' = Cardinality(TraitTrials)
              + Bit(TraitTrial(m)) - Bit(TraitTrial(cl[c]))
         /\ Cardinality(PermitTrials)' \in Nat /\ Cardinality(TraitTrials)' \in Nat
<1>1. /\ cl'[c] = m /\ \A x \in Callers : x # c => cl'[x] = cl[x]
      /\ c \in DOMAIN cl
  BY DEF TypeOK
<1>2. PermitTrials \ {c} = PermitTrials' \ {c}
  BY <1>1 DEF PermitTrials, Trial
<1>3. TraitTrials \ {c} = TraitTrials' \ {c}
  BY <1>1 DEF TraitTrials, Trial
<1>4. /\ (c \in PermitTrials <=> PermitTrial(cl[c])) /\ (c \in PermitTrials' <=> PermitTrial(m))
  BY <1>1 DEF PermitTrials, Trial, PermitTrial
<1>5. /\ (c \in TraitTrials <=> TraitTrial(cl[c])) /\ (c \in TraitTrials' <=> TraitTrial(m))
  BY <1>1 DEF TraitTrials, Trial, TraitTrial
<1>6. /\ Bit(c \in PermitTrials) = Bit(PermitTrial(cl[c]))
      /\ Bit(c \in PermitTrials') = Bit(PermitTrial(m))
      /\ Bit(c \in TraitTrials) = Bit(TraitTrial(cl[c]))
      /\ Bit(c \in TraitTrials') = Bit(TraitTrial(m))
  BY <1>4, <1>5 DEF Bit
<1>7. /\ Cardinality(PermitTrials') \in Nat
      /\ Cardinality(PermitTrials') =
           Cardinality(PermitTrials) + Bit(c \in PermitTrials') - Bit(c \in PermitTrials)
  BY <1>2, TrialsFinite, OneChanged
<1>8. /\ Cardinality(TraitTrials') \in Nat
      /\ Cardinality(TraitTrials') =
           Cardinality(TraitTrials) + Bit(c \in TraitTrials') - Bit(c \in TraitTrials)
  BY <1>3, TrialsFinite, OneChanged
<1>9. /\ Cardinality(PermitTrials)' = Cardinality(PermitTrials')
      /\ Cardinality(TraitTrials)' = Cardinality(TraitTrials')
  OBVIOUS
<1> QED BY <1>6, <1>7, <1>8, <1>9

(* A live trial is counted. *)
LEMMA TrialCounts ==
  ASSUME TypeOK, NEW c \in Callers
  PROVE  /\ PermitTrial(cl[c]) => Cardinality(PermitTrials) >= 1
         /\ TraitTrial(cl[c]) => Cardinality(TraitTrials) >= 1
<1>1. /\ PermitTrial(cl[c]) => c \in PermitTrials
      /\ TraitTrial(cl[c]) => c \in TraitTrials
  BY DEF PermitTrials, TraitTrials, Trial, PermitTrial, TraitTrial
<1>2. /\ c \in PermitTrials => Cardinality(PermitTrials) # 0
      /\ c \in TraitTrials => Cardinality(TraitTrials) # 0
  BY TrialsFinite, FS_EmptySet
<1> QED BY <1>1, <1>2, TrialsFinite

-----------------------------------------------------------------------------
(* Steps within a period and steps into another. *)

Counted(s, n) == /\ s.consecutive <= n
                 /\ Failures(s.outcomes) <= n
                 /\ Len(s.failure_times) <= n

(* The histories after a section. *)
LEMMA Histories ==
  ASSUME TypeOK, NEW s \in SharedStates, NEW success \in BOOLEAN, NEW stray,
         BecomeBy(s, success, stray)
  PROVE  /\ sh' = s /\ conf' = conf /\ now' = now
         /\ opened' \in Nat /\ failed' \in Nat
         /\ Trials' = Trials
<1>1. sh' = s /\ conf' = conf /\ now' = now
  BY DEF BecomeBy
<1>2. opened' \in Nat
  BY DEF BecomeBy, TypeOK
<1>3. failed' \in Nat
  BY BreakerAssumption DEF BecomeBy, TypeOK
<1> QED BY <1>1, <1>2, <1>3 DEF Trials

(* The breaker stays in its period. *)
LEMMA Stays ==
  ASSUME Inv, NEW c \in Callers, NEW m \in Calls, cl' = [cl EXCEPT ![c] = m],
         NEW s \in SharedStates, NEW success \in BOOLEAN, NEW stray,
         BecomeBy(s, success, stray),
         s.gen = sh.gen, s.state = sh.state, s.until = sh.until,
         TicketSound(m), Slots',
         s.state = "Closed" /\ failed' < MaxFailed => Counted(s, failed')
  PROVE  Inv'
<1>1. TypeOK /\ sh' = s /\ conf' = conf /\ now' = now /\ opened' \in Nat /\ failed' \in Nat
  BY Histories DEF Inv
<1>2. cl' \in [Callers -> Calls] /\ cl'[c] = m /\ \A x \in Callers : x # c => cl'[x] = cl[x]
  BY <1>1 DEF TypeOK
<1>3. TypeOK'
  BY <1>1, <1>2 DEF TypeOK
<1>4. ASSUME NEW x \in Callers
      PROVE  TicketSound(cl[x])'
  <2>1. TicketSound(cl'[x])
    BY <1>2 DEF Inv
  <2> QED BY <1>1, <2>1 DEF TicketSound
<1>5. OpenInFull'
  <2>1. opened' = opened
    BY DEF BecomeBy
  <2>2. OpenInFull
    BY DEF Inv
  <2> QED BY <1>1, <2>1, <2>2 DEF OpenInFull
<1>6. CountsAreRecent'
  BY <1>1 DEF CountsAreRecent, Counted
<1> QED BY <1>3, <1>4, <1>5, <1>6 DEF Inv

(* The breaker opens or closes: every slot and every ticket is void. *)
LEMMA Moves ==
  ASSUME Inv, NEW s \in SharedStates, NEW success \in BOOLEAN, NEW stray,
         BecomeBy(s, success, stray),
         s.gen = sh.gen + 1, s.state # "HalfOpen", s.inflight = 0, s.traits = 0,
         s.state = "Open" => now + Cooldown <= s.until + MaxLag,
         s.state = "Closed" => Counted(s, 0),
         cl' \in [Callers -> Calls],
         \A x \in Callers : cl'[x].pc = "idle" \/ cl'[x] = cl[x]
  PROVE  Inv'
<1>1. TypeOK /\ sh' = s /\ conf' = conf /\ now' = now /\ opened' \in Nat /\ failed' \in Nat
  BY Histories DEF Inv
<1>2. TypeOK'
  BY <1>1 DEF TypeOK
<1>3. sh.gen \in Nat /\ s.gen # sh.gen
  <2>1. sh.gen \in Nat
    BY <1>1 DEF TypeOK, SharedStates
  <2> QED BY <2>1
<1>4. ASSUME NEW x \in Callers
      PROVE  TicketSound(cl[x])'
  <2>1. CASE cl'[x].pc = "idle"
    BY <2>1 DEF TicketSound
  <2>2. CASE cl'[x].pc # "idle"
    <3>1. cl'[x] = cl[x] /\ TicketSound(cl[x]) /\ cl[x].pc # "idle"
      BY <2>2 DEF Inv
    <3>2. cl[x].ticket.gen \in Nat
      BY <1>1 DEF TypeOK, Calls
    <3>3. cl'[x].ticket.gen <= sh.gen
      BY <3>1 DEF TicketSound
    <3>4. cl'[x].ticket.gen <= sh'.gen /\ cl'[x].ticket.gen # sh'.gen
      BY <1>1, <1>3, <3>1, <3>2, <3>3
    <3> QED BY <3>4 DEF TicketSound
  <2> QED BY <2>1, <2>2
<1>5. Slots'
  <2>1. Trials' = Trials /\ Trials >= 0
    BY <1>1, Configured DEF TypeOK, Trials
  <2> QED BY <1>1, <2>1 DEF Slots
<1>6. OpenInFull'
  <2>1. s.state = "Open" => opened' = now
    BY <1>3 DEF BecomeBy
  <2> QED BY <1>1, <2>1 DEF OpenInFull
<1>7. CountsAreRecent'
  <2>1. s.state = "Closed" => failed' = 0
    BY <1>3 DEF BecomeBy
  <2> QED BY <1>1, <2>1 DEF CountsAreRecent, Counted
<1> QED BY <1>2, <1>4, <1>5, <1>6, <1>7 DEF Inv

-----------------------------------------------------------------------------
(* What the functions of the state machine return. *)

LEMMA IdleCall ==
  /\ Idle \in Calls /\ Idle.pc = "idle" /\ TicketSound(Idle)
  /\ ~PermitTrial(Idle) /\ ~TraitTrial(Idle)
<1>1. Idle \in Calls
  BY DEF Idle, Calls, NoTicket, Places
<1>2. Idle.pc = "idle"
  BY DEF Idle
<1> QED BY <1>1, <1>2 DEF TicketSound, PermitTrial, TraitTrial, PermitPlaces, TraitPlaces, Permits

LEMMA LessOneIs ==
  ASSUME NEW n \in Nat
  PROVE  LessOne(n) \in Nat /\ (n = 0 => LessOne(n) = 0) /\ (n # 0 => LessOne(n) = n - 1)
BY DEF LessOne

LEMMA OpenIs ==
  ASSUME NEW s \in SharedStates, NEW t \in Nat
  PROVE  /\ Open(s, t) \in SharedStates /\ Open(s, t).gen = s.gen + 1
         /\ Open(s, t).state = "Open" /\ Open(s, t).inflight = 0 /\ Open(s, t).traits = 0
         /\ Open(s, t).until = t + Cooldown
<1> DEFINE u == t + Cooldown
           g == s.gen + 1
           s1 == [s EXCEPT !.until = u, !.inflight = 0, !.traits = 0, !.successes = 0]
<1>1. u \in Nat /\ g \in Nat
  BY BreakerAssumption DEF SharedStates
<1> HIDE DEF u
<1>2. /\ s1 \in SharedStates /\ s1.gen = s.gen /\ s1.inflight = 0 /\ s1.traits = 0
      /\ s1.until = u
  BY <1>1 DEF SharedStates
<1> HIDE DEF s1
<1>3. Open(s, t) = [s1 EXCEPT !.state = "Open", !.gen = g]
  BY <1>2 DEF Open, Transition, s1, u, SharedStates
<1> HIDE DEF g
<1>4. /\ [s1 EXCEPT !.state = "Open", !.gen = g] \in SharedStates
      /\ [s1 EXCEPT !.state = "Open", !.gen = g].gen = g
      /\ [s1 EXCEPT !.state = "Open", !.gen = g].state = "Open"
      /\ [s1 EXCEPT !.state = "Open", !.gen = g].inflight = s1.inflight
      /\ [s1 EXCEPT !.state = "Open", !.gen = g].traits = s1.traits
      /\ [s1 EXCEPT !.state = "Open", !.gen = g].until = s1.until
  BY <1>1, <1>2 DEF SharedStates
<1> QED BY <1>2, <1>3, <1>4 DEF u, g

LEMMA ClosedIs ==
  ASSUME NEW s \in SharedStates
  PROVE  LET r == Transition(ResetCounters(s), "Closed")
         IN  /\ r \in SharedStates /\ r.gen = s.gen + 1 /\ r.state = "Closed"
             /\ r.inflight = 0 /\ r.traits = 0 /\ Counted(r, 0)
<1> DEFINE r == Transition(ResetCounters(s), "Closed")
           s1 == ResetCounters(s)
           g == s.gen + 1
<1>1. /\ s1 \in SharedStates /\ s1.gen = s.gen /\ s1.inflight = 0 /\ s1.traits = 0
      /\ s1.consecutive = 0 /\ s1.outcomes = <<>> /\ s1.failure_times = <<>>
  <2> DEFINE e == <<>>
  <2>1. e \in Seq(BOOLEAN) /\ e \in Seq(Nat)
    OBVIOUS
  <2>2. s1 = [s EXCEPT !.consecutive = 0, !.outcomes = e, !.failure_times = e,
                       !.inflight = 0, !.traits = 0, !.successes = 0]
    BY DEF ResetCounters
  <2> HIDE DEF e, s1
  <2>3. s1 \in SharedStates
    BY <2>1, <2>2 DEF SharedStates
  <2>4. /\ s1.gen = s.gen /\ s1.inflight = 0 /\ s1.traits = 0
        /\ s1.consecutive = 0 /\ s1.outcomes = e /\ s1.failure_times = e
    BY <2>2 DEF SharedStates
  <2> QED BY <2>3, <2>4 DEF e
<1>2. g \in Nat
  BY DEF SharedStates
<1> HIDE DEF s1
<1>3. r = [s1 EXCEPT !.state = "Closed", !.gen = g]
  <2>1. r = Transition(s1, "Closed")
    BY DEF s1
  <2>2. Transition(s1, "Closed") = [s1 EXCEPT !.state = "Closed", !.gen = s1.gen + 1]
    BY <1>1 DEF Transition, SharedStates
  <2> HIDE DEF r
  <2> QED BY <1>1, <2>1, <2>2
<1> HIDE DEF r, g
<1>4. /\ r \in SharedStates /\ r.gen = g /\ r.state = "Closed"
      /\ r.inflight = s1.inflight /\ r.traits = s1.traits /\ r.consecutive = s1.consecutive
      /\ r.outcomes = s1.outcomes /\ r.failure_times = s1.failure_times
  BY <1>1, <1>2, <1>3 DEF SharedStates
<1>5. Failures(<<>>) = 0
  <2>1. {i \in DOMAIN <<>> : <<>>[i]} = {}
    OBVIOUS
  <2> QED BY <2>1, FS_EmptySet DEF Failures
<1>6. Counted(r, 0)
  BY <1>1, <1>4, <1>5 DEF Counted
<1> QED BY <1>1, <1>4, <1>6 DEF r, g


(* r is s, in the same period, but for its slots and counts. *)
SamePeriod(s, r) == r.gen = s.gen /\ r.state = s.state /\ r.until = s.until
SameCounts(s, r) == /\ r.consecutive = s.consecutive /\ r.outcomes = s.outcomes
                    /\ r.failure_times = s.failure_times

(* r has opened at the reading t, or closed. *)
NewPeriod(s, r, t) ==
  /\ r.gen = s.gen + 1 /\ r.state # "HalfOpen" /\ r.inflight = 0 /\ r.traits = 0
  /\ r.state = "Open" => r.until = t + Cooldown
  /\ r.state = "Closed" => Counted(r, 0)

(* An aborted trial of the current period gives its slot back. *)
LEMMA AbortIs ==
  ASSUME NEW s \in SharedStates, NEW ticket, NEW viaTrait \in BOOLEAN
  PROVE  LET r == Abort(s, ticket, viaTrait)
         IN  /\ r \in SharedStates /\ SamePeriod(s, r) /\ SameCounts(s, r)
             /\ IF ticket.probe /\ s.gen = ticket.gen /\ s.state = "HalfOpen"
                  THEN /\ r.inflight = LessOne(s.inflight)
                       /\ r.traits = IF viaTrait THEN LessOne(s.traits) ELSE s.traits
                  ELSE r.inflight = s.inflight /\ r.traits = s.traits
<1> DEFINE r == Abort(s, ticket, viaTrait)
           i == LessOne(s.inflight)
           n == IF viaTrait THEN LessOne(s.traits) ELSE s.traits
<1>1. CASE ~(ticket.probe /\ s.gen = ticket.gen /\ s.state = "HalfOpen")
  BY <1>1 DEF Abort, SamePeriod, SameCounts
<1>2. CASE ticket.probe /\ s.gen = ticket.gen /\ s.state = "HalfOpen"
  <2>1. s.inflight \in Nat /\ s.traits \in Nat
    BY DEF SharedStates
  <2>2. i \in Nat /\ n \in Nat
    BY <2>1, LessOneIs
  <2>3. r = [s EXCEPT !.inflight = i, !.traits = n]
    BY <1>2 DEF Abort, SharedStates
  <2> HIDE DEF r, i, n
  <2>4. r \in SharedStates /\ r.inflight = i /\ r.traits = n
    BY <2>2, <2>3 DEF SharedStates
  <2>5. SamePeriod(s, r) /\ SameCounts(s, r)
    BY <2>3 DEF SharedStates, SamePeriod, SameCounts
  <2> QED BY <1>2, <2>4, <2>5 DEF r, i, n
<1> QED BY <1>1, <1>2

(* A closed breaker adds at most this outcome to what it counts. *)
LEMMA RecordOutcomeIs ==
  ASSUME NEW s \in SharedStates, NEW failure \in BOOLEAN, NEW t \in Nat,
         Trip.kind \in {"consecutive", "ratio", "windowed"}
  PROVE  LET r == RecordOutcome(s, failure, t)
         IN  /\ r \in SharedStates /\ SamePeriod(s, r) /\ r.consecutive = s.consecutive
             /\ r.inflight = s.inflight /\ r.traits = s.traits
             /\ Failures(s.outcomes) \in Nat /\ Failures(r.outcomes) \in Nat
             /\ Failures(r.outcomes) <= Failures(s.outcomes) + Bit(failure)
             /\ Len(r.failure_times) <= Len(s.failure_times) + Bit(failure)
<1> DEFINE r == RecordOutcome(s, failure, t)
<1>1. s.outcomes \in Seq(BOOLEAN) /\ s.failure_times \in Seq(Nat)
  BY DEF SharedStates
<1>2. Len(s.failure_times) \in Nat
  BY <1>1
<1>3. Bit(failure) \in Nat
  BY DEF Bit
<1> DEFINE all == Append(s.outcomes, failure)
           out == IF Len(all) > Trip.window THEN Tail(all) ELSE all
           grown == IF failure THEN Append(s.failure_times, t) ELSE s.failure_times
           times == DropOld(grown, t)
<1>4. /\ all \in Seq(BOOLEAN) /\ all # <<>>
      /\ Failures(s.outcomes) \in Nat /\ Failures(all) \in Nat
      /\ Failures(all) = Failures(s.outcomes) + Bit(failure)
  <2>1. all \in Seq(BOOLEAN) /\ all # <<>>
    BY <1>1
  <2> QED BY <1>1, <2>1, FailuresAppend
<1>5. CASE Trip.kind = "consecutive"
  <2>1. r = s
    BY <1>5 DEF RecordOutcome
  <2>2. /\ Failures(s.outcomes) <= Failures(s.outcomes) + Bit(failure)
        /\ Len(s.failure_times) <= Len(s.failure_times) + Bit(failure)
    BY <1>2, <1>3, <1>4
  <2> QED BY <1>4, <2>1, <2>2 DEF SamePeriod
<1>6. CASE Trip.kind = "ratio"
  <2> HIDE DEF all
  <2>1. /\ out \in Seq(BOOLEAN) /\ Failures(out) \in Nat
        /\ Failures(out) <= Failures(s.outcomes) + Bit(failure)
    <3>1. CASE out = all
      BY <1>4, <3>1
    <3>2. CASE out = Tail(all)
      <4>1. Tail(all) \in Seq(BOOLEAN)
        BY <1>4
      <4>2. /\ Failures(Tail(all)) \in Nat /\ Failures(Tail(all)) <= Failures(all)
        BY <1>4, FailuresTail
      <4> QED BY <1>4, <3>2, <4>1, <4>2
    <3> QED BY <3>1, <3>2
  <2>2. r = [s EXCEPT !.outcomes = out]
    BY <1>6 DEF RecordOutcome, all
  <2> HIDE DEF r, out
  <2>3. r \in SharedStates /\ r.outcomes = out
    BY <2>1, <2>2 DEF SharedStates
  <2>4. /\ SamePeriod(s, r) /\ r.consecutive = s.consecutive
        /\ r.inflight = s.inflight /\ r.traits = s.traits /\ r.failure_times = s.failure_times
    BY <2>2 DEF SharedStates, SamePeriod
  <2>5. Len(r.failure_times) <= Len(s.failure_times) + Bit(failure)
    BY <1>2, <1>3, <2>4
  <2>6. Failures(r.outcomes) \in Nat /\ Failures(r.outcomes) <= Failures(s.outcomes) + Bit(failure)
    BY <2>1, <2>3
  <2> QED BY <1>4, <2>3, <2>4, <2>5, <2>6 DEF r
<1>7. CASE Trip.kind = "windowed"
  <2>1. /\ grown \in Seq(Nat) /\ Len(grown) \in Nat
        /\ Len(grown) = Len(s.failure_times) + Bit(failure)
    <3>1. CASE failure
      <4>1. grown = Append(s.failure_times, t)
        BY <3>1
      <4>2. Bit(failure) = 1
        BY <3>1 DEF Bit
      <4> HIDE DEF grown
      <4> QED BY <1>1, <4>1, <4>2
    <3>2. CASE ~failure
      <4>1. grown = s.failure_times
        BY <3>2
      <4>2. Bit(failure) = 0
        BY <3>2 DEF Bit
      <4> HIDE DEF grown
      <4> QED BY <1>1, <4>1, <4>2
    <3> QED BY <3>1, <3>2
  <2> HIDE DEF grown
  <2>2. times \in Seq(Nat) /\ Len(times) <= Len(grown)
    BY <2>1, DropOldShorter
  <2>3. r = [s EXCEPT !.failure_times = times]
    BY <1>7 DEF RecordOutcome, grown, SharedStates
  <2> HIDE DEF r, times
  <2>4. r \in SharedStates /\ r.failure_times = times
    BY <2>2, <2>3 DEF SharedStates
  <2>5. /\ SamePeriod(s, r) /\ r.consecutive = s.consecutive
        /\ r.inflight = s.inflight /\ r.traits = s.traits /\ r.outcomes = s.outcomes
    BY <2>3 DEF SharedStates, SamePeriod
  <2>6. Len(r.failure_times) <= Len(s.failure_times) + Bit(failure)
    BY <2>1, <2>2, <2>4
  <2>7. Failures(r.outcomes) \in Nat /\ Failures(r.outcomes) <= Failures(s.outcomes) + Bit(failure)
    BY <1>3, <1>4, <2>5
  <2> QED BY <1>4, <2>4, <2>5, <2>6, <2>7 DEF r
<1> QED BY <1>5, <1>6, <1>7


(* The outcome of a trial, or one that is taken for one. *)
LEMMA ApplyHalfOpen ==
  ASSUME NEW s \in SharedStates, s.state = "HalfOpen", NEW success \in BOOLEAN,
         NEW t \in Nat, NEW probe \in BOOLEAN
  PROVE  LET r == Apply(s, success, t, probe)
         IN  /\ r \in SharedStates
             /\ \/ NewPeriod(s, r, t)
                \/ /\ SamePeriod(s, r) /\ r.traits = s.traits
                   /\ r.inflight = IF probe THEN LessOne(s.inflight) ELSE s.inflight
<1> DEFINE r == Apply(s, success, t, probe)
           i == IF probe THEN LessOne(s.inflight) ELSE s.inflight
           freed == [s EXCEPT !.inflight = i]
<1>1. i \in Nat /\ s.successes \in Nat
  BY LessOneIs DEF SharedStates
<1>2. r = IF ~success THEN Open(freed, t)
          ELSE IF s.successes + 1 >= Required
            THEN Transition(ResetCounters(freed), "Closed")
            ELSE [freed EXCEPT !.successes = @ + 1]
  BY DEF Apply, SharedStates
<1> HIDE DEF r, i
<1>3. /\ freed \in SharedStates /\ freed.inflight = i /\ freed.gen = s.gen
      /\ freed.state = s.state /\ freed.until = s.until /\ freed.traits = s.traits
      /\ freed.successes = s.successes
  BY <1>1 DEF SharedStates
<1> HIDE DEF freed
<1>4. CASE ~success
  <2>1. r = Open(freed, t)
    BY <1>2, <1>4
  <2>2. r \in SharedStates /\ NewPeriod(s, r, t)
    <3>1. /\ r \in SharedStates /\ r.gen = freed.gen + 1 /\ r.state = "Open"
          /\ r.inflight = 0 /\ r.traits = 0 /\ r.until = t + Cooldown
      BY <1>3, <2>1, OpenIs
    <3> QED BY <1>3, <3>1 DEF NewPeriod
  <2> QED BY <2>2 DEF r
<1>5. CASE success /\ s.successes + 1 >= Required
  <2>1. r = Transition(ResetCounters(freed), "Closed")
    BY <1>2, <1>5
  <2>2. r \in SharedStates /\ NewPeriod(s, r, t)
    BY <1>3, <2>1, ClosedIs DEF NewPeriod
  <2> QED BY <2>2 DEF r
<1>6. CASE success /\ ~(s.successes + 1 >= Required)
  <2> DEFINE n == s.successes + 1
  <2>1. r = [freed EXCEPT !.successes = n] /\ n \in Nat
    BY <1>1, <1>2, <1>3, <1>6 DEF SharedStates
  <2> HIDE DEF n
  <2>2. r \in SharedStates
    BY <1>3, <2>1 DEF SharedStates
  <2>3. /\ r.inflight = freed.inflight /\ r.gen = freed.gen
        /\ r.state = freed.state /\ r.until = freed.until /\ r.traits = freed.traits
    BY <1>3, <2>1 DEF SharedStates
  <2>4. SamePeriod(s, r) /\ r.traits = s.traits /\ r.inflight = i
    BY <1>3, <2>3 DEF SamePeriod
  <2> QED BY <2>2, <2>4 DEF r, i
<1> QED BY <1>4, <1>5, <1>6

(* An outcome in a closed breaker. *)
LEMMA ApplyClosed ==
  ASSUME NEW s \in SharedStates, s.state = "Closed", NEW success \in BOOLEAN,
         NEW t \in Nat, NEW probe \in BOOLEAN,
         Trip.kind \in {"consecutive", "ratio", "windowed"}, NEW n \in Nat
  PROVE  LET r == Apply(s, success, t, probe)
         IN  /\ r \in SharedStates
             /\ \/ NewPeriod(s, r, t)
                \/ /\ SamePeriod(s, r) /\ r.traits = s.traits /\ r.inflight = s.inflight
                   /\ Counted(s, n) => Counted(r, n + Bit(~success))
<1> DEFINE r == Apply(s, success, t, probe)
           k == IF success THEN 0 ELSE s.consecutive + 1
           s1 == [s EXCEPT !.consecutive = k]
           counted == RecordOutcome(s1, ~success, t)
<1>1. k \in Nat /\ s.consecutive \in Nat
  BY DEF SharedStates
<1>2. r = IF ~success /\ Tripped(counted, t) THEN Open(counted, t) ELSE counted
  BY DEF Apply, SharedStates
<1> HIDE DEF r
<1>3. k <= s.consecutive + Bit(~success) /\ Bit(~success) \in Nat
  <2>1. CASE success
    BY <1>1, <2>1 DEF Bit
  <2>2. CASE ~success
    BY <1>1, <2>2 DEF Bit
  <2> QED BY <2>1, <2>2
<1> HIDE DEF k
<1>4. s1 \in SharedStates /\ s1.consecutive = k
  BY <1>1 DEF SharedStates
<1>5. /\ s1.gen = s.gen /\ s1.state = s.state /\ s1.until = s.until /\ s1.traits = s.traits
      /\ s1.inflight = s.inflight /\ s1.outcomes = s.outcomes
      /\ s1.failure_times = s.failure_times
  BY DEF SharedStates
<1> HIDE DEF s1
<1>6. (~success) \in BOOLEAN
  OBVIOUS
<1>7. /\ counted \in SharedStates /\ SamePeriod(s1, counted) /\ counted.consecutive = k
      /\ counted.inflight = s1.inflight /\ counted.traits = s1.traits
      /\ Failures(s1.outcomes) \in Nat /\ Failures(counted.outcomes) \in Nat
      /\ Failures(counted.outcomes) <= Failures(s1.outcomes) + Bit(~success)
      /\ Len(counted.failure_times) <= Len(s1.failure_times) + Bit(~success)
  BY <1>4, <1>6, RecordOutcomeIs
<1> HIDE DEF counted
<1>8. CASE r = Open(counted, t)
  <2>1. r \in SharedStates /\ NewPeriod(s, r, t)
    <3>1. /\ r \in SharedStates /\ r.gen = counted.gen + 1 /\ r.state = "Open"
          /\ r.inflight = 0 /\ r.traits = 0 /\ r.until = t + Cooldown
      BY <1>7, <1>8, OpenIs
    <3>2. counted.gen = s.gen
      BY <1>5, <1>7 DEF SamePeriod
    <3> QED BY <3>1, <3>2 DEF NewPeriod
  <2> QED BY <2>1 DEF r
<1>9. CASE r = counted
  <2>1. SamePeriod(s, r) /\ r.traits = s.traits /\ r.inflight = s.inflight
    BY <1>5, <1>7, <1>9 DEF SamePeriod
  <2>2. ASSUME Counted(s, n)
        PROVE  Counted(r, n + Bit(~success))
    <3> DEFINE b == Bit(~success)
    <3>1. Len(s.failure_times) \in Nat /\ Len(counted.failure_times) \in Nat
      <4>1. s.failure_times \in Seq(Nat) /\ counted.failure_times \in Seq(Nat)
        BY <1>7 DEF SharedStates
      <4> QED BY <4>1
    <3>2. s.consecutive <= n /\ Failures(s.outcomes) <= n /\ Len(s.failure_times) <= n
      BY <2>2 DEF Counted
    <3> HIDE DEF b
    <3>3. b \in Nat /\ k <= s.consecutive + b
      BY <1>3 DEF b
    <3>4. k <= n + b
      BY <1>1, <3>2, <3>3
    <3>5. Failures(counted.outcomes) <= n + b
      BY <1>5, <1>7, <3>2, <3>3 DEF b
    <3>6. Len(counted.failure_times) <= n + b
      BY <1>5, <1>7, <3>1, <3>2, <3>3 DEF b
    <3> QED BY <1>7, <1>9, <3>4, <3>5, <3>6 DEF Counted, b
  <2> QED BY <1>7, <1>9, <2>1, <2>2 DEF r
<1> QED BY <1>2, <1>8, <1>9

LEMMA ApplyOpen ==
  ASSUME NEW s, s.state = "Open", NEW success, NEW t, NEW probe
  PROVE  Apply(s, success, t, probe) = s
BY DEF Apply

-----------------------------------------------------------------------------
(* How the slots in use follow the trials of a half-open period. *)

LEMMA BitIs ==
  ASSUME NEW b \in BOOLEAN
  PROVE  (b => Bit(b) = 1) /\ (~b => Bit(b) = 0)
BY DEF Bit

(* The caller's standing does not change. *)
Unmoved(a, m) == /\ PermitTrial(m) <=> PermitTrial(a)
                 /\ TraitTrial(m) <=> TraitTrial(a)

PermitLeaves(a, m) ==
  PermitTrial(a) /\ ~PermitTrial(m) /\ ~TraitTrial(a) /\ ~TraitTrial(m)
TraitLeaves(a, m) ==
  TraitTrial(a) /\ ~TraitTrial(m) /\ ~PermitTrial(a) /\ ~PermitTrial(m)

(* The section leaves the slots alone. *)
SameSlots(s) == s.inflight = sh.inflight /\ s.traits = sh.traits

(* A trait caller's slot is given back, if one is counted. *)
TraitSlotFreed(s) ==
  /\ s.traits = LessOne(sh.traits)
  /\ \/ s.inflight = LessOne(sh.inflight)
     \/ sh.traits = 0 /\ s.inflight = sh.inflight

(* What a section of the half-open breaker may do to the slots. *)
SlotStep(a, m, s) ==
  \/ Unmoved(a, m) /\ SameSlots(s) /\ (strays' = {} => strays = {})
  \/ PermitLeaves(a, m) /\ s.inflight = LessOne(sh.inflight) /\ s.traits = sh.traits
     /\ (strays' = {} => strays = {})
  \/ TraitLeaves(a, m) /\ TraitSlotFreed(s) /\ (strays' = {} => strays = {})
     /\ (strays = {} => s.inflight = LessOne(sh.inflight))
  \/ Unmoved(a, m) /\ TraitSlotFreed(s) /\ strays' # {}
  \/ PermitLeaves(m, a) /\ sh.inflight < Trials /\ s.inflight = sh.inflight + 1
     /\ s.traits = sh.traits /\ (strays' = {} => strays = {})
  \/ TraitLeaves(m, a) /\ sh.inflight < Trials /\ s.inflight = sh.inflight + 1
     /\ s.traits = sh.traits + 1 /\ (strays' = {} => strays = {})

LEMMA SlotsStep ==
  ASSUME Inv, NEW c \in Callers, NEW m \in Calls, cl' = [cl EXCEPT ![c] = m],
         NEW s \in SharedStates, sh' = s, conf' = conf, SamePeriod(sh, s),
         sh.state = "HalfOpen" => SlotStep(cl[c], m, s),
         sh.state # "HalfOpen" => SameSlots(s)
  PROVE  Slots'
<1> DEFINE P == Cardinality(PermitTrials)
           T == Cardinality(TraitTrials)
           P1 == Cardinality(PermitTrials)'
           T1 == Cardinality(TraitTrials)'
           p0 == PermitTrial(cl[c])
           p1 == PermitTrial(m)
           t0 == TraitTrial(cl[c])
           t1 == TraitTrial(m)
<1>1. TypeOK /\ Slots /\ Trials' = Trials
  BY DEF Inv, Trials
<1>2. CASE sh.state # "HalfOpen"
  BY <1>1, <1>2 DEF Slots, SamePeriod, SameSlots
<1>3. CASE sh.state = "HalfOpen"
  <2>1. /\ p0 \in BOOLEAN /\ p1 \in BOOLEAN /\ t0 \in BOOLEAN /\ t1 \in BOOLEAN
    BY <1>1, <1>3 DEF PermitTrial, TraitTrial, TypeOK, Calls
  <2>2. /\ P1 = P + Bit(p1) - Bit(p0) /\ T1 = T + Bit(t1) - Bit(t0)
        /\ P1 \in Nat /\ T1 \in Nat
    <3>1. sh'.gen = sh.gen /\ sh'.state = sh.state
      BY DEF SamePeriod
    <3> QED BY <1>1, <3>1, TrialsMove
  <2>3. P \in Nat /\ T \in Nat
    BY TrialsFinite
  <2>4. (p0 => P >= 1) /\ (t0 => T >= 1)
    BY <1>1, TrialCounts
  <2>5. /\ sh.inflight \in Nat /\ sh.traits \in Nat /\ s.inflight \in Nat /\ s.traits \in Nat
        /\ Trials \in Nat
    BY <1>1, Configured DEF TypeOK, SharedStates
  <2>6. /\ sh.inflight <= Trials /\ sh.inflight <= P + sh.traits /\ sh.traits <= T
        /\ strays = {} => sh.inflight = P + T /\ sh.traits = T
    BY <1>1, <1>3 DEF Slots
  <2>7. /\ LessOne(sh.inflight) \in Nat
        /\ sh.inflight = 0 => LessOne(sh.inflight) = 0
        /\ sh.inflight # 0 => LessOne(sh.inflight) = sh.inflight - 1
        /\ LessOne(sh.traits) \in Nat
        /\ sh.traits = 0 => LessOne(sh.traits) = 0
        /\ sh.traits # 0 => LessOne(sh.traits) = sh.traits - 1
    BY <2>5, LessOneIs
  <2>8. SUFFICES /\ s.inflight <= Trials /\ s.inflight <= P1 + s.traits /\ s.traits <= T1
                 /\ strays' = {} => s.inflight = P1 + T1 /\ s.traits = T1
    BY <1>1, <1>3 DEF Slots, SamePeriod
  <2> HIDE DEF P, T, P1, T1, p0, p1, t0, t1
  <2>9. /\ p0 => Bit(p0) = 1
        /\ ~p0 => Bit(p0) = 0
        /\ p1 => Bit(p1) = 1
        /\ ~p1 => Bit(p1) = 0
        /\ t0 => Bit(t0) = 1
        /\ ~t0 => Bit(t0) = 0
        /\ t1 => Bit(t1) = 1
        /\ ~t1 => Bit(t1) = 0
    BY <2>1, BitIs
  <2>10. CASE (p1 <=> p0) /\ (t1 <=> t0)
    <3>1. P1 = P /\ T1 = T
      <4>1. Bit(p1) = Bit(p0) /\ Bit(t1) = Bit(t0) /\ Bit(p0) \in Nat /\ Bit(t0) \in Nat
        BY <2>1, <2>10 DEF Bit
      <4> QED BY <2>2, <2>3, <4>1
    <3>2. CASE SameSlots(s) /\ (strays' = {} => strays = {})
      BY <2>6, <3>1, <3>2 DEF SameSlots
    <3>3. CASE TraitSlotFreed(s) /\ strays' # {}
      BY <2>3, <2>5, <2>6, <2>7, <3>1, <3>3 DEF TraitSlotFreed
    <3>4. \/ SameSlots(s) /\ (strays' = {} => strays = {})
          \/ TraitSlotFreed(s) /\ strays' # {}
      BY <1>3, <2>1, <2>10 DEF SlotStep, Unmoved, PermitLeaves, TraitLeaves, p0, p1, t0, t1
    <3> QED BY <3>2, <3>3, <3>4
  <2>11. CASE p0 /\ ~p1 /\ ~t0 /\ ~t1
    <3>1. P1 = P - 1 /\ T1 = T /\ P >= 1
      <4>1. Bit(p0) = 1 /\ Bit(p1) = 0 /\ Bit(t0) = 0 /\ Bit(t1) = 0 /\ P >= 1
        BY <2>4, <2>9, <2>11
      <4> QED BY <2>2, <2>3, <4>1
    <3>2. s.inflight = LessOne(sh.inflight) /\ s.traits = sh.traits /\ (strays' = {} => strays = {})
      BY <1>3, <2>11 DEF SlotStep, Unmoved, PermitLeaves, TraitLeaves, p0, p1, t0, t1
    <3> QED BY <2>3, <2>5, <2>6, <2>7, <3>1, <3>2
  <2>12. CASE t0 /\ ~t1 /\ ~p0 /\ ~p1
    <3>1. P1 = P /\ T1 = T - 1 /\ T >= 1
      <4>1. Bit(p0) = 0 /\ Bit(p1) = 0 /\ Bit(t0) = 1 /\ Bit(t1) = 0 /\ T >= 1
        BY <2>4, <2>9, <2>12
      <4> QED BY <2>2, <2>3, <4>1
    <3>2. /\ TraitSlotFreed(s) /\ (strays' = {} => strays = {})
          /\ (strays = {} => s.inflight = LessOne(sh.inflight))
      BY <1>3, <2>12 DEF SlotStep, Unmoved, PermitLeaves, TraitLeaves, p0, p1, t0, t1
    <3> QED BY <2>3, <2>5, <2>6, <2>7, <3>1, <3>2 DEF TraitSlotFreed
  <2>13. CASE p1 /\ ~p0 /\ ~t0 /\ ~t1
    <3>1. P1 = P + 1 /\ T1 = T
      <4>1. Bit(p0) = 0 /\ Bit(p1) = 1 /\ Bit(t0) = 0 /\ Bit(t1) = 0
        BY <2>9, <2>13
      <4> QED BY <2>2, <2>3, <4>1
    <3>2. /\ sh.inflight < Trials /\ s.inflight = sh.inflight + 1 /\ s.traits = sh.traits
          /\ (strays' = {} => strays = {})
      BY <1>3, <2>13 DEF SlotStep, Unmoved, PermitLeaves, TraitLeaves, p0, p1, t0, t1
    <3> QED BY <2>3, <2>5, <2>6, <3>1, <3>2
  <2>14. CASE t1 /\ ~t0 /\ ~p0 /\ ~p1
    <3>1. P1 = P /\ T1 = T + 1
      <4>1. Bit(p0) = 0 /\ Bit(p1) = 0 /\ Bit(t0) = 0 /\ Bit(t1) = 1
        BY <2>9, <2>14
      <4> QED BY <2>2, <2>3, <4>1
    <3>2. /\ sh.inflight < Trials /\ s.inflight = sh.inflight + 1 /\ s.traits = sh.traits + 1
          /\ (strays' = {} => strays = {})
      BY <1>3, <2>14 DEF SlotStep, Unmoved, PermitLeaves, TraitLeaves, p0, p1, t0, t1
    <3> QED BY <2>3, <2>5, <2>6, <3>1, <3>2
  <2>15. \/ (p1 <=> p0) /\ (t1 <=> t0)
         \/ p0 /\ ~p1 /\ ~t0 /\ ~t1
         \/ t0 /\ ~t1 /\ ~p0 /\ ~p1
         \/ p1 /\ ~p0 /\ ~t0 /\ ~t1
         \/ t1 /\ ~t0 /\ ~p0 /\ ~p1
    BY <1>3, <2>1 DEF SlotStep, Unmoved, PermitLeaves, TraitLeaves, p0, p1, t0, t1
  <2> QED BY <2>10, <2>11, <2>12, <2>13, <2>14, <2>15
<1> QED BY <1>2, <1>3

-----------------------------------------------------------------------------
(* The actions. *)

(* A caller is a trial by permit or through the trait, or none. *)
LEMMA Standing ==
  ASSUME Inv, NEW c \in Callers
  PROVE  /\ sh \in SharedStates /\ cl[c] \in Calls /\ TicketSound(cl[c])
         /\ cl[c].pc = "idle" => ~PermitTrial(cl[c]) /\ ~TraitTrial(cl[c])
         /\ cl[c].pc \in PermitPlaces => ~TraitTrial(cl[c])
         /\ cl[c].pc \in TraitPlaces => ~PermitTrial(cl[c])
<1>1. sh \in SharedStates /\ cl[c] \in Calls /\ TicketSound(cl[c])
  BY DEF Inv, TypeOK
<1>2. /\ cl[c].pc = "idle" => cl[c].pc \notin PermitPlaces /\ cl[c].pc \notin TraitPlaces
      /\ cl[c].pc \in PermitPlaces => cl[c].pc \notin TraitPlaces
  BY DEF PermitPlaces, TraitPlaces, Permits
<1> QED BY <1>1, <1>2 DEF PermitTrial, TraitTrial

LEMMA UnchangedBecomes ==
  ASSUME UNCHANGED <<conf, now, sh, opened, failed, strays>>
  PROVE  BecomeBy(sh, TRUE, {}) /\ strays' = strays
BY DEF BecomeBy

(* What a section without an outcome leaves of the histories. *)
LEMMA QuietHistories ==
  ASSUME Inv, NEW s \in SharedStates, NEW stray, BecomeBy(s, TRUE, stray),
         SamePeriod(sh, s), SameCounts(sh, s)
  PROVE  /\ strays' = strays \cup stray /\ sh' = s /\ conf' = conf
         /\ s.state = "Closed" /\ failed' < MaxFailed => Counted(s, failed')
<1>1. strays' = strays \cup stray /\ sh' = s /\ conf' = conf /\ failed' = failed
  BY DEF BecomeBy, SamePeriod
<1>2. CountsAreRecent
  BY DEF Inv
<1> QED BY <1>1, <1>2 DEF CountsAreRecent, Counted, SamePeriod, SameCounts

(* A section that moves one caller and leaves the counts alone. *)
LEMMA QuietInv ==
  ASSUME Inv, NEW c \in Callers, NEW m \in Calls, cl' = [cl EXCEPT ![c] = m],
         NEW s \in SharedStates, NEW stray, BecomeBy(s, TRUE, stray),
         SamePeriod(sh, s), SameCounts(sh, s), TicketSound(m),
         sh.state = "HalfOpen" /\ strays' = strays \cup stray => SlotStep(cl[c], m, s),
         sh.state # "HalfOpen" => SameSlots(s)
  PROVE  Inv'
<1>1. /\ strays' = strays \cup stray /\ sh' = s /\ conf' = conf
      /\ s.state = "Closed" /\ failed' < MaxFailed => Counted(s, failed')
  BY QuietHistories
<1>2. Slots'
  BY <1>1, SlotsStep
<1>3. s.gen = sh.gen /\ s.state = sh.state /\ s.until = sh.until
  BY DEF SamePeriod
<1> QED BY <1>1, <1>2, <1>3, Stays

(* The caller goes on, admitted as before. *)
LEMMA GotoInv ==
  ASSUME Inv, NEW c \in Callers, NEW pc, Goto(c, pc),
         UNCHANGED <<conf, now, sh, opened, failed, strays>>,
         \/ cl[c].pc \in PermitPlaces /\ pc \in PermitPlaces
         \/ cl[c].pc \in TraitPlaces /\ pc \in TraitPlaces
  PROVE  Inv'
<1> DEFINE m == [cl[c] EXCEPT !.pc = pc]
<1>1. /\ sh \in SharedStates /\ cl[c] \in Calls /\ TicketSound(cl[c])
  BY Standing
<1>2. pc \in Places /\ cl[c].pc # "idle"
  BY DEF Places, PermitPlaces, TraitPlaces, Permits
<1>3. m \in Calls /\ m.pc = pc /\ m.ticket = cl[c].ticket
  BY <1>1, <1>2 DEF Calls
<1>4. cl' = [cl EXCEPT ![c] = m]
  BY DEF Goto
<1> HIDE DEF m
<1>5. TicketSound(m)
  BY <1>1, <1>2, <1>3 DEF TicketSound
<1>6. Unmoved(cl[c], m)
  <2>1. /\ cl[c].pc \in PermitPlaces => cl[c].pc \notin TraitPlaces
        /\ pc \in PermitPlaces => pc \notin TraitPlaces
    BY DEF PermitPlaces, TraitPlaces, Permits
  <2> QED BY <1>3, <2>1 DEF Unmoved, PermitTrial, TraitTrial
<1>7. BecomeBy(sh, TRUE, {}) /\ strays' = strays
  BY UnchangedBecomes
<1>8. SamePeriod(sh, sh) /\ SameCounts(sh, sh) /\ SameSlots(sh)
  BY DEF SamePeriod, SameCounts, SameSlots
<1>9. SlotStep(cl[c], m, sh)
  BY <1>6, <1>7, <1>8 DEF SlotStep
<1> QED BY <1>1, <1>3, <1>4, <1>5, <1>7, <1>8, <1>9, QuietInv

(* The caller gives up: its slot comes back if it is a trial still. *)
LEMMA AbortInv ==
  ASSUME Inv, NEW c \in Callers, NEW viaTrait \in BOOLEAN,
         Become(Abort(sh, cl[c].ticket, viaTrait), TRUE), Leave(c),
         IF viaTrait THEN cl[c].pc \in TraitPlaces ELSE cl[c].pc \in PermitPlaces
  PROVE  Inv'
<1> DEFINE s == Abort(sh, cl[c].ticket, viaTrait)
           live == cl[c].ticket.probe /\ sh.gen = cl[c].ticket.gen /\ sh.state = "HalfOpen"
<1>1. /\ sh \in SharedStates /\ cl[c] \in Calls
      /\ cl[c].pc \in PermitPlaces => ~TraitTrial(cl[c])
      /\ cl[c].pc \in TraitPlaces => ~PermitTrial(cl[c])
  BY Standing
<1>2. BecomeBy(s, TRUE, {}) /\ cl' = [cl EXCEPT ![c] = Idle]
  BY DEF Become, Leave
<1>3. s \in SharedStates /\ SamePeriod(sh, s) /\ SameCounts(sh, s)
  BY <1>1, AbortIs
<1>4. /\ live => /\ s.inflight = LessOne(sh.inflight)
                 /\ s.traits = IF viaTrait THEN LessOne(sh.traits) ELSE sh.traits
      /\ ~live => s.inflight = sh.inflight /\ s.traits = sh.traits
  BY <1>1, AbortIs
<1>5. ~PermitTrial(Idle) /\ ~TraitTrial(Idle) /\ Idle \in Calls /\ TicketSound(Idle)
  BY IdleCall
<1> HIDE DEF s
<1>6. ASSUME sh.state = "HalfOpen", strays' = strays \cup {}
      PROVE  SlotStep(cl[c], Idle, s)
  <2>0. strays' = {} => strays = {}
    BY <1>6
  <2>1. CASE ~live
    <3>1. ~PermitTrial(cl[c]) /\ ~TraitTrial(cl[c])
      BY <2>1 DEF PermitTrial, TraitTrial
    <3> QED BY <1>4, <1>5, <2>0, <2>1, <3>1 DEF SlotStep, Unmoved, SameSlots
  <2>2. CASE live /\ viaTrait
    <3>1. TraitLeaves(cl[c], Idle)
      BY <1>1, <1>5, <2>2 DEF TraitLeaves, TraitTrial
    <3>2. TraitSlotFreed(s) /\ s.inflight = LessOne(sh.inflight)
      BY <1>4, <2>2 DEF TraitSlotFreed
    <3> QED BY <2>0, <3>1, <3>2 DEF SlotStep
  <2>3. CASE live /\ ~viaTrait
    <3>1. PermitLeaves(cl[c], Idle)
      BY <1>1, <1>5, <2>3 DEF PermitLeaves, PermitTrial
    <3>2. s.inflight = LessOne(sh.inflight) /\ s.traits = sh.traits
      BY <1>4, <2>3
    <3> QED BY <2>0, <3>1, <3>2 DEF SlotStep
  <2> QED BY <2>1, <2>2, <2>3
<1>7. sh.state # "HalfOpen" => SameSlots(s)
  BY <1>4 DEF SameSlots
<1> QED BY <1>2, <1>3, <1>5, <1>6, <1>7, QuietInv


(* An outcome is applied, to a state in which a trait slot may have been   *)
(* given back, and its caller is done.                                     *)
LEMMA AppliedInv ==
  ASSUME Inv, NEW c \in Callers, Leave(c), NEW s0 \in SharedStates,
         SamePeriod(sh, s0), SameCounts(sh, s0), s0.inflight = sh.inflight,
         sh.state # "HalfOpen" => s0.traits = sh.traits,
         NEW success \in BOOLEAN, NEW t \in Readings, NEW probe \in BOOLEAN, NEW stray,
         NEW s, s = Apply(s0, success, t, probe), BecomeBy(s, success, stray),
         /\ sh.state = "HalfOpen" /\ s.traits = s0.traits /\ strays' = strays \cup stray
         /\ s.inflight = IF probe THEN LessOne(sh.inflight) ELSE sh.inflight
         => SlotStep(cl[c], Idle, s)
  PROVE  Inv'
<1>1. /\ TypeOK /\ sh.gen \in Nat /\ now \in Nat /\ failed \in Nat /\ cl \in [Callers -> Calls]
      /\ sh.state \in {"Closed", "Open", "HalfOpen"}
  BY DEF Inv, TypeOK, SharedStates
<1>2. t \in Nat /\ now - t <= MaxLag
  BY <1>1 DEF Readings
<1>3. Trip.kind \in {"consecutive", "ratio", "windowed"}
  BY <1>1, Configured DEF TypeOK
<1>4. s0.gen = sh.gen /\ s0.state = sh.state /\ s0.until = sh.until
  BY DEF SamePeriod
<1>5. /\ Idle \in Calls /\ Idle.pc = "idle" /\ TicketSound(Idle)
      /\ cl' = [cl EXCEPT ![c] = Idle]
  BY IdleCall DEF Leave
<1>6. /\ s \in SharedStates
      /\ \/ NewPeriod(s0, s, t)
         \/ /\ SamePeriod(s0, s) /\ s.traits = s0.traits
            /\ sh.state = "HalfOpen" =>
                 s.inflight = IF probe THEN LessOne(sh.inflight) ELSE sh.inflight
            /\ sh.state # "HalfOpen" => s.inflight = sh.inflight
            /\ sh.state = "Closed" /\ Counted(s0, failed) => Counted(s, failed + Bit(~success))
  <2>1. CASE sh.state = "HalfOpen"
    BY <1>2, <1>4, <2>1, ApplyHalfOpen
  <2>2. CASE sh.state = "Closed"
    BY <1>1, <1>2, <1>3, <1>4, <2>2, ApplyClosed
  <2>3. CASE sh.state = "Open"
    <3>1. s = s0
      BY <1>4, <2>3, ApplyOpen
    <3> QED BY <1>4, <2>3, <3>1 DEF SamePeriod
  <2> QED BY <1>1, <2>1, <2>2, <2>3
<1>7. CASE NewPeriod(s0, s, t)
  <2>1. /\ s.gen = sh.gen + 1 /\ s.state # "HalfOpen" /\ s.inflight = 0 /\ s.traits = 0
        /\ s.state = "Closed" => Counted(s, 0)
    BY <1>4, <1>7 DEF NewPeriod
  <2>2. s.state = "Open" => now + Cooldown <= s.until + MaxLag
    <3>1. s.state = "Open" => s.until = t + Cooldown
      BY <1>7 DEF NewPeriod
    <3> QED BY <1>1, <1>2, <3>1, BreakerAssumption
  <2>3. /\ cl' \in [Callers -> Calls]
        /\ \A x \in Callers : cl'[x].pc = "idle" \/ cl'[x] = cl[x]
    BY <1>1, <1>5
  <2> QED BY <1>6, <2>1, <2>2, <2>3, Moves
<1>8. CASE ~NewPeriod(s0, s, t)
  <2>1. SamePeriod(sh, s)
    BY <1>4, <1>6, <1>8 DEF SamePeriod
  <2>2. /\ strays' = strays \cup stray /\ sh' = s /\ conf' = conf
        /\ sh.state = "Closed" => failed' = IF ~success /\ failed < MaxFailed
                                              THEN failed + 1 ELSE failed
    BY <2>1 DEF BecomeBy, SamePeriod
  <2>3. sh.state # "HalfOpen" => SameSlots(s)
    BY <1>6, <1>8 DEF SameSlots
  <2>4. sh.state = "HalfOpen" => SlotStep(cl[c], Idle, s)
    BY <1>6, <1>8, <2>2
  <2>5. Slots'
    BY <1>5, <1>6, <2>1, <2>2, <2>3, <2>4, SlotsStep
  <2>6. s.state = "Closed" /\ failed' < MaxFailed => Counted(s, failed')
    <3>1. SUFFICES ASSUME sh.state = "Closed", failed' < MaxFailed
                   PROVE  Counted(s, failed')
      BY <2>1 DEF SamePeriod
    <3>2. failed < MaxFailed /\ failed' = failed + Bit(~success)
      <4>1. CASE success
        BY <1>1, <2>2, <3>1, <4>1 DEF Bit
      <4>2. CASE ~success
        <5>1. failed < MaxFailed
          BY <1>1, <2>2, <3>1, <4>2, BreakerAssumption
        <5> QED BY <2>2, <3>1, <4>2, <5>1 DEF Bit
      <4> QED BY <4>1, <4>2
    <3>3. Counted(sh, failed)
      BY <3>1, <3>2 DEF Inv, CountsAreRecent, Counted
    <3>4. Counted(s0, failed)
      BY <3>3 DEF Counted, SameCounts
    <3> QED BY <1>6, <1>8, <3>1, <3>2, <3>4
  <2>7. s.gen = sh.gen /\ s.state = sh.state /\ s.until = sh.until
    BY <2>1 DEF SamePeriod
  <2> QED BY <1>5, <1>6, <2>5, <2>6, <2>7, Stays
<1> QED BY <1>7, <1>8

(* settle: a permit's outcome counts in its own period only. *)
LEMMA SettleInv ==
  ASSUME Inv, NEW c \in Callers, NEW success \in BOOLEAN, Settle(c, success)
  PROVE  Inv'
<1>1. PICK t \in Readings :
        IF sh.gen = cl[c].ticket.gen
          THEN Become(Apply(sh, success, t, cl[c].ticket.probe), success)
          ELSE UNCHANGED <<conf, now, sh, opened, failed, strays>>
  BY DEF Settle
<1>2. Leave(c) /\ cl[c].pc \in PermitPlaces /\ cl[c].pc # "idle"
  BY DEF Settle, PermitPlaces, Permits
<1>3. /\ sh \in SharedStates /\ cl[c] \in Calls /\ TicketSound(cl[c]) /\ ~TraitTrial(cl[c])
      /\ cl[c].ticket.probe \in BOOLEAN
  BY <1>2, Standing DEF Calls
<1>4. ~PermitTrial(Idle) /\ ~TraitTrial(Idle) /\ Idle \in Calls /\ TicketSound(Idle)
  BY IdleCall
<1>5. SamePeriod(sh, sh) /\ SameCounts(sh, sh) /\ SameSlots(sh)
  BY DEF SamePeriod, SameCounts, SameSlots
<1>6. CASE sh.gen = cl[c].ticket.gen
  <2> DEFINE s == Apply(sh, success, t, cl[c].ticket.probe)
  <2>1. BecomeBy(s, success, {})
    BY <1>1, <1>6 DEF Become
  <2>2. ASSUME sh.state = "HalfOpen", s.traits = sh.traits, strays' = strays \cup {},
               s.inflight = IF cl[c].ticket.probe THEN LessOne(sh.inflight) ELSE sh.inflight
        PROVE  SlotStep(cl[c], Idle, s)
    <3>1. cl[c].ticket.probe
      BY <1>2, <1>3, <1>6, <2>2 DEF TicketSound
    <3>2. PermitLeaves(cl[c], Idle)
      BY <1>2, <1>3, <1>4, <1>6, <2>2, <3>1 DEF PermitLeaves, PermitTrial
    <3> HIDE DEF s
    <3> QED BY <2>2, <3>1, <3>2 DEF SlotStep
  <2> HIDE DEF s
  <2>3. s = Apply(sh, success, t, cl[c].ticket.probe)
    BY DEF s
  <2> QED BY <1>2, <1>3, <1>5, <2>1, <2>2, <2>3, AppliedInv
<1>7. CASE sh.gen # cl[c].ticket.gen
  <2>1. BecomeBy(sh, TRUE, {}) /\ strays' = strays
    BY <1>1, <1>7, UnchangedBecomes
  <2>2. ~PermitTrial(cl[c])
    BY <1>7 DEF PermitTrial
  <2>3. SlotStep(cl[c], Idle, sh)
    BY <1>3, <1>4, <1>5, <2>1, <2>2 DEF SlotStep, Unmoved
  <2>4. cl' = [cl EXCEPT ![c] = Idle]
    BY <1>2 DEF Leave
  <2> QED BY <1>3, <1>4, <1>5, <2>1, <2>3, <2>4, QuietInv
<1> QED BY <1>6, <1>7


(* A report through the trait gives one counted slot back, whoever's it    *)
(* is; if none is counted, none.                                           *)
LEMMA TraitReport ==
  ASSUME Inv, NEW c \in Callers, cl[c].pc = "trait", sh.state = "HalfOpen",
         NEW kind, strays' = strays \cup Stray(c, kind), NEW s,
         s.traits = LessOne(sh.traits),
         s.inflight = IF sh.traits > 0 THEN LessOne(sh.inflight) ELSE sh.inflight
  PROVE  SlotStep(cl[c], Idle, s)
<1>1. ~PermitTrial(Idle) /\ ~TraitTrial(Idle)
  BY IdleCall
<1>2. cl[c].pc \in TraitPlaces
  BY DEF TraitPlaces
<1>3. ~PermitTrial(cl[c])
  BY <1>2, Standing
<1>4. sh.traits \in Nat
  BY Standing DEF SharedStates
<1>5. TraitSlotFreed(s)
  <2>1. CASE sh.traits > 0
    BY <2>1 DEF TraitSlotFreed
  <2>2. CASE sh.traits = 0
    BY <2>2 DEF TraitSlotFreed
  <2> QED BY <1>4, <2>1, <2>2
<1>6. CASE Trial(c)
  <2>1. TraitTrial(cl[c])
    BY <1>2, <1>6 DEF Trial, TraitTrial
  <2>2. TraitLeaves(cl[c], Idle)
    BY <1>1, <1>3, <2>1 DEF TraitLeaves
  <2>3. strays' = strays
    BY <1>6 DEF Stray
  <2>4. strays = {} => s.inflight = LessOne(sh.inflight)
    <3>1. TypeOK /\ Slots
      BY DEF Inv
    <3>2. Cardinality(TraitTrials) >= 1
      BY <2>1, <3>1, TrialCounts
    <3>3. strays = {} => sh.traits >= 1
      BY <3>1, <3>2 DEF Slots
    <3> QED BY <1>4, <3>3
  <2> QED BY <1>5, <2>2, <2>3, <2>4 DEF SlotStep
<1>7. CASE ~Trial(c)
  <2>1. ~TraitTrial(cl[c])
    BY <1>7 DEF Trial, TraitTrial
  <2>2. Stray(c, kind) = {kind}
    BY <1>7 DEF Stray
  <2>3. strays' # {}
    BY <2>2
  <2> QED BY <1>1, <1>3, <1>5, <2>1, <2>3 DEF SlotStep, Unmoved
<1> QED BY <1>6, <1>7

(* record_success and record_failure. *)
LEMMA RecordInv ==
  ASSUME Inv, NEW c \in Callers, NEW success \in BOOLEAN, Record(c, success)
  PROVE  Inv'
<1> DEFINE probe == sh.state = "HalfOpen" /\ sh.traits > 0
           n == IF probe THEN sh.traits - 1 ELSE sh.traits
           s0 == [sh EXCEPT !.traits = n]
           stray == Stray(c, "record")
<1>1. sh \in SharedStates /\ sh.traits \in Nat
  BY Standing DEF SharedStates
<1>2. PICK t \in Readings : BecomeBy(Apply(s0, success, t, probe), success, stray)
  BY <1>1 DEF Record, SharedStates
<1> DEFINE s == Apply(s0, success, t, probe)
<1>3. cl[c].pc = "trait" /\ Leave(c) /\ probe \in BOOLEAN
  BY DEF Record
<1>4. /\ n \in Nat
      /\ sh.state = "HalfOpen" => n = LessOne(sh.traits)
      /\ sh.state # "HalfOpen" => n = sh.traits
  <2>1. CASE probe
    BY <1>1, <2>1 DEF LessOne
  <2>2. CASE ~probe
    BY <1>1, <2>2 DEF LessOne
  <2> QED BY <2>1, <2>2
<1> HIDE DEF n
<1>5. s0 \in SharedStates /\ s0.traits = n /\ s0.inflight = sh.inflight
  BY <1>1, <1>4 DEF SharedStates
<1>6. SamePeriod(sh, s0) /\ SameCounts(sh, s0)
  BY <1>1 DEF SharedStates, SamePeriod, SameCounts
<1>7. BecomeBy(s, success, stray) /\ s = Apply(s0, success, t, probe)
  BY <1>2
<1> HIDE DEF s0, s, stray
<1>8. ASSUME sh.state = "HalfOpen", s.traits = s0.traits, strays' = strays \cup stray,
             s.inflight = IF probe THEN LessOne(sh.inflight) ELSE sh.inflight
      PROVE  SlotStep(cl[c], Idle, s)
  <2>1. s.traits = LessOne(sh.traits)
    BY <1>4, <1>5, <1>8
  <2>2. s.inflight = IF sh.traits > 0 THEN LessOne(sh.inflight) ELSE sh.inflight
    BY <1>8
  <2> QED BY <1>3, <1>8, <2>1, <2>2, TraitReport DEF stray
<1>9. sh.state # "HalfOpen" => s0.traits = sh.traits
  BY <1>4, <1>5
<1> HIDE DEF probe
<1> QED BY <1>3, <1>5, <1>6, <1>7, <1>8, <1>9, AppliedInv

(* refund *)
LEMMA RefundInv ==
  ASSUME Inv, NEW c \in Callers, Refund(c)
  PROVE  Inv'
<1> DEFINE probe == sh.state = "HalfOpen" /\ sh.traits > 0
           n == sh.traits - 1
           i == LessOne(sh.inflight)
           s == IF probe THEN [sh EXCEPT !.traits = n, !.inflight = i] ELSE sh
           stray == Stray(c, "refund")
<1>1. sh \in SharedStates /\ sh.traits \in Nat /\ sh.inflight \in Nat
  BY Standing DEF SharedStates
<1>2. BecomeBy(s, TRUE, stray)
  BY <1>1 DEF Refund, SharedStates
<1>3. cl[c].pc = "trait" /\ cl' = [cl EXCEPT ![c] = Idle]
  BY DEF Refund, Leave
<1>4. /\ s \in SharedStates /\ SamePeriod(sh, s) /\ SameCounts(sh, s)
      /\ probe => s.traits = n /\ s.inflight = i
      /\ ~probe => s.traits = sh.traits /\ s.inflight = sh.inflight
  <2>1. CASE probe
    <3>1. n \in Nat /\ i \in Nat
      BY <1>1, <2>1, LessOneIs
    <3>2. s = [sh EXCEPT !.traits = n, !.inflight = i]
      BY <2>1
    <3> HIDE DEF n, i, s
    <3>3. s \in SharedStates /\ s.traits = n /\ s.inflight = i
      BY <1>1, <3>1, <3>2 DEF SharedStates
    <3>4. SamePeriod(sh, s) /\ SameCounts(sh, s)
      BY <1>1, <3>2 DEF SharedStates, SamePeriod, SameCounts
    <3> QED BY <2>1, <3>3, <3>4
  <2>2. CASE ~probe
    BY <1>1, <2>2 DEF SamePeriod, SameCounts
  <2> QED BY <2>1, <2>2
<1> HIDE DEF s
<1>5. ASSUME sh.state = "HalfOpen", strays' = strays \cup stray
      PROVE  SlotStep(cl[c], Idle, s)
  <2>1. s.traits = LessOne(sh.traits)
    <3>1. CASE probe
      BY <1>1, <1>4, <3>1 DEF LessOne
    <3>2. CASE ~probe
      BY <1>1, <1>4, <1>5, <3>2 DEF LessOne
    <3> QED BY <3>1, <3>2
  <2>2. s.inflight = IF sh.traits > 0 THEN LessOne(sh.inflight) ELSE sh.inflight
    BY <1>4, <1>5
  <2> QED BY <1>3, <1>5, <2>1, <2>2, TraitReport
<1>6. sh.state # "HalfOpen" => SameSlots(s)
  BY <1>4 DEF SameSlots
<1>7. Idle \in Calls /\ TicketSound(Idle)
  BY IdleCall
<1> HIDE DEF stray
<1> QED BY <1>2, <1>3, <1>4, <1>5, <1>6, <1>7, QuietInv


(* Every period's trials are new: the first one starts the half-open       *)
(* period as its only trial.                                               *)
LEMMA FirstTrial ==
  ASSUME Inv, NEW c \in Callers, NEW m \in Calls, cl' = [cl EXCEPT ![c] = m],
         NEW viaTrait \in BOOLEAN, NEW s \in SharedStates, BecomeBy(s, TRUE, {}),
         IF viaTrait THEN m.pc \in TraitPlaces ELSE m.pc \in PermitPlaces,
         m.ticket = [gen |-> s.gen, probe |-> TRUE],
         s.gen = sh.gen + 1, s.state = "HalfOpen", s.inflight = 1,
         s.traits = IF viaTrait THEN 1 ELSE 0
  PROVE  Inv'
<1>1. TypeOK /\ sh' = s /\ conf' = conf /\ now' = now /\ opened' \in Nat /\ failed' \in Nat
  BY Histories DEF Inv
<1>2. cl' \in [Callers -> Calls] /\ cl'[c] = m /\ \A x \in Callers : x # c => cl'[x] = cl[x]
  BY <1>1 DEF TypeOK
<1>3. TypeOK'
  BY <1>1, <1>2 DEF TypeOK
<1>4. sh.gen \in Nat /\ m.ticket.gen = s.gen /\ m.ticket.probe = TRUE
  BY <1>1 DEF TypeOK, SharedStates
<1>5. ASSUME NEW x \in Callers, x # c
      PROVE  cl'[x] = cl[x] /\ (cl[x].pc # "idle" => cl[x].ticket.gen <= s.gen /\ cl[x].ticket.gen # s.gen)
  <2>1. TicketSound(cl[x]) /\ cl'[x] = cl[x]
    BY <1>2, <1>5 DEF Inv
  <2>2. cl[x].ticket.gen \in Nat
    BY <1>1 DEF TypeOK, Calls
  <2>3. cl[x].pc # "idle" => cl[x].ticket.gen <= sh.gen
    BY <2>1 DEF TicketSound
  <2> QED BY <1>4, <2>1, <2>2, <2>3
<1>6. ASSUME NEW x \in Callers
      PROVE  TicketSound(cl[x])'
  <2>1. CASE x = c
    <3>1. cl'[x].ticket.gen = sh'.gen /\ sh'.state = "HalfOpen" /\ cl'[x].ticket.probe
      BY <1>1, <1>2, <1>4, <2>1
    <3>2. sh'.gen <= sh'.gen
      BY <1>1, <1>4
    <3> QED BY <3>1, <3>2 DEF TicketSound
  <2>2. CASE x # c
    <3>1. cl'[x] = cl[x] /\ (cl[x].pc # "idle" => cl[x].ticket.gen <= s.gen /\ cl[x].ticket.gen # s.gen)
      BY <1>5, <2>2
    <3> QED BY <1>1, <3>1 DEF TicketSound
  <2> QED BY <2>1, <2>2
<1>7. /\ PermitTrials' = IF viaTrait THEN {} ELSE {c}
      /\ TraitTrials' = IF viaTrait THEN {c} ELSE {}
  <2>1. \A x \in Callers : x # c => ~Trial(x)' \/ cl'[x].pc = "idle"
    BY <1>1, <1>5 DEF Trial
  <2>2. \A x \in Callers : cl'[x].pc = "idle" =>
          cl'[x].pc \notin PermitPlaces /\ cl'[x].pc \notin TraitPlaces
    BY DEF PermitPlaces, TraitPlaces, Permits
  <2>3. Trial(c)'
    BY <1>1, <1>2, <1>4 DEF Trial
  <2>4. IF viaTrait THEN cl'[c].pc \in TraitPlaces /\ cl'[c].pc \notin PermitPlaces
                    ELSE cl'[c].pc \in PermitPlaces /\ cl'[c].pc \notin TraitPlaces
    BY <1>2 DEF PermitPlaces, TraitPlaces, Permits
  <2> QED BY <2>1, <2>2, <2>3, <2>4 DEF PermitTrials, TraitTrials
<1>8. Cardinality({}) = 0 /\ Cardinality({c}) = 1
  BY FS_EmptySet, FS_Singleton
<1>9. Slots'
  <2>1. Trials' = Trials /\ 1 <= Trials
    BY <1>1, Configured DEF TypeOK, Trials
  <2>2. CASE viaTrait
    <3>1. Cardinality(PermitTrials') = 0 /\ Cardinality(TraitTrials') = 1 /\ s.traits = 1
      BY <1>7, <1>8, <2>2
    <3> QED BY <1>1, <2>1, <3>1 DEF Slots
  <2>3. CASE ~viaTrait
    <3>1. Cardinality(PermitTrials') = 1 /\ Cardinality(TraitTrials') = 0 /\ s.traits = 0
      BY <1>7, <1>8, <2>3
    <3> QED BY <1>1, <2>1, <3>1 DEF Slots
  <2> QED BY <2>2, <2>3
<1>10. OpenInFull' /\ CountsAreRecent'
  BY <1>1 DEF OpenInFull, CountsAreRecent
<1> QED BY <1>3, <1>6, <1>9, <1>10 DEF Inv

LEMMA AdmitInv ==
  ASSUME Inv, NEW c \in Callers, NEW pc \in {"asking", "waiting", "traitAsking"}, Admit(c, pc)
  PROVE  Inv'
<1> DEFINE via == pc = "traitAsking"
           one == IF via THEN 1 ELSE 0
           s == Admitted(sh, via)
           m == [pc |-> pc, ticket |-> TicketOf(s)]
<1>1. BecomeBy(s, TRUE, {}) /\ cl' = [cl EXCEPT ![c] = m] /\ cl[c].pc = "idle"
  BY DEF Admit, Become
<1>2. PICK t \in Readings : Admits(sh, t)
  BY DEF Admit
<1>3. /\ sh \in SharedStates /\ ~PermitTrial(cl[c]) /\ ~TraitTrial(cl[c])
      /\ sh.gen \in Nat /\ sh.inflight \in Nat /\ sh.traits \in Nat
      /\ sh.state \in {"Closed", "Open", "HalfOpen"}
  BY <1>1, Standing DEF SharedStates
<1>4. /\ pc \in Places /\ one \in Nat /\ via \in BOOLEAN
      /\ via => pc \in TraitPlaces /\ pc \notin PermitPlaces
      /\ ~via => pc \in PermitPlaces /\ pc \notin TraitPlaces
  BY DEF Places, TraitPlaces, PermitPlaces, Permits
<1>5. ASSUME s \in SharedStates
      PROVE  /\ m \in Calls /\ m.pc = pc /\ m.ticket = TicketOf(s)
             /\ m.ticket.gen = s.gen /\ m.ticket.probe = (s.state = "HalfOpen")
  <2>1. s.gen \in Nat
    BY <1>5 DEF SharedStates
  <2> HIDE DEF s
  <2> QED BY <1>4, <2>1 DEF TicketOf, Calls
<1>6. CASE sh.state = "Closed"
  <2>1. s = sh
    BY <1>6 DEF Admitted
  <2>2. m \in Calls /\ m.pc = pc /\ m.ticket.gen = sh.gen
    BY <1>3, <1>5, <2>1
  <2> HIDE DEF s, m
  <2>3. TicketSound(m)
    BY <1>3, <1>6, <2>2 DEF TicketSound
  <2>4. SamePeriod(sh, s) /\ SameCounts(sh, s) /\ SameSlots(s)
    BY <2>1 DEF SamePeriod, SameCounts, SameSlots
  <2> QED BY <1>1, <1>3, <1>6, <2>1, <2>2, <2>3, <2>4, QuietInv
<1>7. CASE sh.state = "HalfOpen"
  <2> DEFINE i == sh.inflight + 1
             n == sh.traits + one
  <2>1. s = [sh EXCEPT !.inflight = i, !.traits = n]
    BY <1>3, <1>7 DEF Admitted, SharedStates
  <2>2. i \in Nat /\ n \in Nat
    BY <1>3, <1>4
  <2> HIDE DEF s, i, n
  <2>3. s \in SharedStates /\ s.inflight = i /\ s.traits = n
    BY <1>3, <2>1, <2>2 DEF SharedStates
  <2>4. SamePeriod(sh, s) /\ SameCounts(sh, s)
    BY <1>3, <2>1 DEF SharedStates, SamePeriod, SameCounts
  <2>5. /\ m \in Calls /\ m.pc = pc /\ m.ticket.gen = sh.gen /\ m.ticket.probe
    BY <1>5, <1>7, <2>3, <2>4 DEF SamePeriod
  <2> HIDE DEF m
  <2>6. TicketSound(m)
    BY <1>3, <1>7, <2>5 DEF TicketSound
  <2>7. sh.inflight < Trials
    BY <1>2, <1>7 DEF Admits
  <2>8. ASSUME strays' = strays \cup {}
        PROVE  SlotStep(cl[c], m, s)
    <3>1. CASE via
      <4>1. TraitLeaves(m, cl[c])
        BY <1>3, <1>4, <1>7, <2>5, <3>1 DEF TraitLeaves, PermitTrial, TraitTrial
      <4>2. s.inflight = sh.inflight + 1 /\ s.traits = sh.traits + 1
        BY <2>3, <3>1 DEF i, n
      <4> QED BY <2>7, <2>8, <4>1, <4>2 DEF SlotStep
    <3>2. CASE ~via
      <4>1. PermitLeaves(m, cl[c])
        BY <1>3, <1>4, <1>7, <2>5, <3>2 DEF PermitLeaves, PermitTrial, TraitTrial
      <4>2. s.inflight = sh.inflight + 1 /\ s.traits = sh.traits
        BY <1>3, <2>3, <3>2 DEF i, n
      <4> QED BY <2>7, <2>8, <4>1, <4>2 DEF SlotStep
    <3> QED BY <3>1, <3>2
  <2> QED BY <1>1, <1>7, <2>3, <2>4, <2>5, <2>6, <2>8, QuietInv
<1>8. CASE sh.state = "Open"
  <2> DEFINE s1 == [sh EXCEPT !.inflight = 1, !.traits = one, !.successes = 0]
             g == sh.gen + 1
  <2>1. s = Transition(s1, "HalfOpen")
    BY <1>8 DEF Admitted
  <2> HIDE DEF s, one
  <2>2. /\ s1 \in SharedStates /\ s1.gen = sh.gen /\ s1.inflight = 1 /\ s1.traits = one
    BY <1>3, <1>4 DEF SharedStates
  <2> HIDE DEF s1
  <2>3. s = [s1 EXCEPT !.state = "HalfOpen", !.gen = g] /\ g \in Nat
    BY <1>3, <2>1, <2>2 DEF Transition, SharedStates
  <2> HIDE DEF g
  <2>4. /\ s \in SharedStates /\ s.gen = g /\ s.state = "HalfOpen"
        /\ s.inflight = s1.inflight /\ s.traits = s1.traits
    BY <2>2, <2>3 DEF SharedStates
  <2>5. /\ m \in Calls /\ m.pc = pc /\ m.ticket = TicketOf(s)
    BY <1>5, <2>4
  <2> HIDE DEF m
  <2>6. m.ticket = [gen |-> s.gen, probe |-> TRUE]
    BY <2>4, <2>5 DEF TicketOf
  <2>7. s.gen = sh.gen + 1 /\ s.inflight = 1 /\ s.traits = IF via THEN 1 ELSE 0
    BY <2>2, <2>4 DEF g, one
  <2>8. IF via THEN m.pc \in TraitPlaces ELSE m.pc \in PermitPlaces
    BY <1>4, <2>5
  <2> HIDE DEF via
  <2> QED BY <1>1, <1>4, <2>4, <2>5, <2>6, <2>7, <2>8, FirstTrial
<1> QED BY <1>3, <1>6, <1>7, <1>8


LEMMA ResetInv ==
  ASSUME Inv, Reset
  PROVE  Inv'
<1> DEFINE s == Transition(ResetCounters(sh), "Closed")
<1>1. BecomeBy(s, TRUE, {}) /\ cl' = cl
  BY DEF Reset, Become
<1>2. sh \in SharedStates /\ cl \in [Callers -> Calls]
  BY DEF Inv, TypeOK
<1>3. /\ s \in SharedStates /\ s.gen = sh.gen + 1 /\ s.state = "Closed"
      /\ s.inflight = 0 /\ s.traits = 0 /\ Counted(s, 0)
  BY <1>2, ClosedIs
<1> HIDE DEF s
<1> QED BY <1>1, <1>2, <1>3, Moves

(* The passing of time, and steps of the environment, change nothing here. *)
LEMMA PassesInv ==
  ASSUME Inv, UNCHANGED <<conf, sh, cl, opened, failed, strays>>, now' \in Nat
  PROVE  Inv'
<1>1. TypeOK'
  BY DEF Inv, TypeOK
<1>2. PermitTrials' = PermitTrials /\ TraitTrials' = TraitTrials
  BY DEF PermitTrials, TraitTrials, Trial
<1>3. Slots'
  BY <1>2 DEF Inv, Slots, Trials
<1>4. OpenInFull' /\ CountsAreRecent' /\ \A c \in Callers : TicketSound(cl[c])'
  BY DEF Inv, OpenInFull, CountsAreRecent, TicketSound
<1> QED BY <1>1, <1>3, <1>4 DEF Inv

LEMMA InitInv == Init => Inv
<1> SUFFICES ASSUME Init PROVE Inv
  OBVIOUS
<1> DEFINE e == <<>>
<1>1. e \in Seq(BOOLEAN) /\ e \in Seq(Nat) /\ Len(e) = 0
  OBVIOUS
<1>2. Failures(e) = 0
  <2>1. {i \in DOMAIN e : e[i]} = {}
    OBVIOUS
  <2> QED BY <2>1, FS_EmptySet DEF Failures
<1>3. sh = [state |-> "Closed", gen |-> 0, consecutive |-> 0, outcomes |-> e,
            failure_times |-> e, inflight |-> 0, traits |-> 0, successes |-> 0, until |-> 0]
  BY DEF Init
<1> HIDE DEF e
<1>4. /\ sh \in SharedStates /\ sh.state = "Closed" /\ sh.inflight = 0 /\ sh.traits = 0
      /\ sh.consecutive = 0 /\ sh.outcomes = e /\ sh.failure_times = e
  BY <1>1, <1>3 DEF SharedStates
<1>5. Idle \in Calls /\ TicketSound(Idle)
  BY IdleCall
<1>6. TypeOK /\ \A c \in Callers : cl[c] = Idle
  BY <1>4, <1>5 DEF Init, TypeOK
<1>7. Slots
  <2>1. 0 <= Trials
    BY <1>6, Configured DEF TypeOK
  <2> QED BY <1>4, <2>1 DEF Slots
<1>8. OpenInFull
  BY <1>4 DEF OpenInFull
<1>9. CountsAreRecent
  <2>1. failed = 0
    BY DEF Init
  <2> QED BY <1>1, <1>2, <1>4, <2>1 DEF CountsAreRecent
<1> QED BY <1>5, <1>6, <1>7, <1>8, <1>9 DEF Inv

(* Where a waiting caller may go. *)
LEMMA FinishInv ==
  ASSUME Inv, NEW c \in Callers, Finish(c)
  PROVE  Inv'
<1>1. /\ {"asking", "waiting", "permit", "released"} \subseteq PermitPlaces
      /\ {"traitAsking", "trait"} \subseteq TraitPlaces /\ Permits \subseteq PermitPlaces
  BY DEF PermitPlaces, TraitPlaces, Permits
<1>2. CASE InnerGranted(c)
  BY <1>1, <1>2, GotoInv DEF InnerGranted
<1>3. CASE InnerRefused(c)
  <2>1. /\ Become(Abort(sh, cl[c].ticket, FALSE), TRUE) /\ Leave(c)
        /\ cl[c].pc \in PermitPlaces
    BY <1>1, <1>3 DEF InnerRefused
  <2> QED BY <2>1, AbortInv
<1>4. CASE WaitOver(c)
  <2>1. cl[c].pc \in PermitPlaces /\ "released" \in PermitPlaces
    BY <1>1, <1>4 DEF WaitOver
  <2>2. CASE StillAdmits(cl[c].ticket)
    BY <1>4, <2>1, <2>2, GotoInv DEF WaitOver
  <2>3. CASE ~StillAdmits(cl[c].ticket)
    <3>1. Become(Abort(sh, cl[c].ticket, FALSE), TRUE) /\ Leave(c)
      BY <1>4, <2>3 DEF WaitOver
    <3> QED BY <2>1, <3>1, AbortInv
  <2> QED BY <2>2, <2>3
<1>5. CASE CancelPermit(c)
  <2>1. /\ Become(Abort(sh, cl[c].ticket, FALSE), TRUE) /\ Leave(c)
        /\ cl[c].pc \in PermitPlaces
    BY <1>1, <1>5 DEF CancelPermit
  <2> QED BY <2>1, AbortInv
<1>6. CASE TraitGranted(c)
  BY <1>1, <1>6, GotoInv DEF TraitGranted
<1>7. CASE TraitRefused(c)
  <2>1. /\ Become(Abort(sh, cl[c].ticket, TRUE), TRUE) /\ Leave(c)
        /\ cl[c].pc \in TraitPlaces
    BY <1>1, <1>7 DEF TraitRefused
  <2> QED BY <2>1, AbortInv
<1>8. CASE Refund(c)
  BY <1>8, RefundInv
<1>9. ASSUME NEW success \in BOOLEAN, Settle(c, success)
      PROVE  Inv'
  BY <1>9, SettleInv
<1>10. ASSUME NEW success \in BOOLEAN, Record(c, success)
       PROVE  Inv'
  BY <1>10, RecordInv
<1> QED BY <1>2, <1>3, <1>4, <1>5, <1>6, <1>7, <1>8, <1>9, <1>10 DEF Finish

LEMMA NextInv == Inv /\ [Next]_vars => Inv'
<1> SUFFICES ASSUME Inv, [Next]_vars PROVE Inv'
  OBVIOUS
<1>1. ASSUME NEW c \in Callers, TryAcquire(c) \/ Acquire(c) \/ TraitAcquire(c)
      PROVE  Inv'
  BY <1>1, AdmitInv DEF TryAcquire, Acquire, TraitAcquire
<1>2. ASSUME NEW c \in Callers, Finish(c)
      PROVE  Inv'
  BY <1>2, FinishInv
<1>3. CASE Reset
  BY <1>3, ResetInv
<1>4. CASE Tick
  <2>1. now' \in Nat
    BY <1>4 DEF Tick, Inv, TypeOK
  <2> QED BY <1>4, <2>1, PassesInv DEF Tick
<1>5. CASE UNCHANGED vars
  <2>1. now' \in Nat
    BY <1>5 DEF vars, Inv, TypeOK
  <2> QED BY <1>5, <2>1, PassesInv DEF vars
<1> QED BY <1>1, <1>2, <1>3, <1>4, <1>5 DEF Next

LEMMA InvHolds == Spec => []Inv
BY InitInv, NextInv, PTL DEF Spec

(* No call that ends moves an open breaker. *)
LEMMA OpenStaysOpen ==
  ASSUME Inv, sh.state = "Open", NEW c \in Callers, Finish(c)
  PROVE  sh'.state = "Open"
<1>1. sh \in SharedStates
  BY DEF Inv, TypeOK
<1>2. ASSUME NEW ticket, NEW viaTrait \in BOOLEAN, Become(Abort(sh, ticket, viaTrait), TRUE)
      PROVE  sh'.state = "Open"
  BY <1>1, <1>2, AbortIs DEF Become, BecomeBy, SamePeriod
<1>3. ASSUME NEW success \in BOOLEAN, Settle(c, success)
      PROVE  sh'.state = "Open"
  BY <1>3, ApplyOpen DEF Settle, Become, BecomeBy
<1>4. ASSUME NEW success \in BOOLEAN, Record(c, success)
      PROVE  sh'.state = "Open"
  <2> DEFINE probe == sh.state = "HalfOpen" /\ sh.traits > 0
             s0 == [sh EXCEPT !.traits = IF probe THEN @ - 1 ELSE @]
  <2>1. PICK t \in Readings : sh' = Apply(s0, success, t, probe)
    BY <1>4 DEF Record, BecomeBy
  <2>2. s0.state = "Open"
    BY <1>1 DEF SharedStates
  <2> HIDE DEF s0
  <2> QED BY <2>1, <2>2, ApplyOpen
<1>5. CASE Refund(c)
  BY <1>5 DEF Refund, BecomeBy
<1>6. CASE UNCHANGED sh
  BY <1>6
<1> QED BY <1>2, <1>3, <1>4, <1>5, <1>6
        DEF Finish, InnerGranted, InnerRefused, WaitOver, CancelPermit, TraitGranted, TraitRefused

-----------------------------------------------------------------------------
(* The theorems. *)

(* The half-open breaker's slots are those of its live trials: none leaks  *)
(* and no more than the configured number are in use, whatever callers are *)
(* refused, dropped, cancelled, reset or report late; and a stray report   *)
(* never leaves a phantom trial behind.                                    *)
THEOREM TrialSlotsAccounted == Spec => []TrialsAccounted
<1>1. Inv => TrialsAccounted
  <2> SUFFICES ASSUME Inv PROVE TrialsAccounted
    OBVIOUS
  <2>1. TypeOK /\ Slots /\ sh.inflight \in Nat /\ sh.traits \in Nat
    BY DEF Inv, TypeOK, SharedStates
  <2>2. Cardinality(PermitTrials) \in Nat /\ Cardinality(TraitTrials) \in Nat
    BY TrialsFinite
  <2>3. NoPhantomTrial
    BY <2>1, <2>2 DEF NoPhantomTrial, Slots
  <2> QED BY <2>1, <2>3 DEF TrialsAccounted, Slots
<1> QED BY <1>1, InvHolds, PTL

(* What the closed breaker counts towards a trip has happened since it     *)
(* last closed: record_outcome and reset_counters let nothing survive.     *)
THEOREM OnlyRecentFailuresCount == Spec => []CountsAreRecent
<1>1. Inv => CountsAreRecent
  BY DEF Inv
<1> QED BY <1>1, InvHolds, PTL

(* A waiter let go during a half-open period is one of its trials, and the *)
(* breaker goes half-open only after the cooldown.                         *)
THEOREM PeriodsAreRespected == Spec => PeriodsRespected
<1> DEFINE Waits == \A c \in Callers : cl[c].pc = "waiting" /\ cl'[c].pc = "released" =>
                      sh.state = "Closed" \/ Trial(c)
           Cools == sh.state = "Open" /\ sh'.state = "HalfOpen" =>
                      now >= opened + Cooldown - MaxLag
<1>1. Inv /\ [Next]_vars => [Waits]_vars
  <2> SUFFICES ASSUME Inv, Next, NEW c \in Callers, cl[c].pc = "waiting", cl'[c].pc = "released"
               PROVE  sh.state = "Closed" \/ Trial(c)
    OBVIOUS
  <2>1. cl \in [Callers -> Calls] /\ TicketSound(cl[c]) /\ sh \in SharedStates
    BY DEF Inv, TypeOK
  <2>2. StillAdmits(cl[c].ticket)
    <3>0. cl'[c] # cl[c] /\ Idle.pc # "released"
      BY DEF Idle
    <3>1. ASSUME NEW x \in Callers, NEW m, cl' = [cl EXCEPT ![x] = m]
          PROVE  x = c /\ cl'[c] = m
      BY <2>1, <3>0, <3>1
    <3>2. ASSUME NEW x \in Callers, NEW pc \in {"asking", "waiting", "traitAsking"}, Admit(x, pc)
          PROVE  FALSE
      <4>1. PICK k : cl' = [cl EXCEPT ![x] = [pc |-> pc, ticket |-> k]]
        BY <3>2 DEF Admit
      <4> QED BY <3>1, <4>1
    <3>3. ASSUME NEW x \in Callers, Leave(x)
          PROVE  FALSE
      BY <3>0, <3>1, <3>3 DEF Leave
    <3>4. ASSUME NEW x \in Callers, NEW pc, Goto(x, pc)
          PROVE  x = c /\ pc = "released"
      <4>1. cl' = [cl EXCEPT ![x] = [cl[x] EXCEPT !.pc = pc]]
        BY <3>4 DEF Goto
      <4>2. x = c /\ cl'[c] = [cl[x] EXCEPT !.pc = pc]
        BY <3>1, <4>1
      <4> QED BY <2>1, <4>2 DEF Calls
    <3>5. ASSUME NEW x \in Callers, TryAcquire(x) \/ Acquire(x) \/ TraitAcquire(x)
          PROVE  FALSE
      BY <3>2, <3>5 DEF TryAcquire, Acquire, TraitAcquire
    <3>6. ~Reset /\ ~Tick
      BY <3>0 DEF Reset, Tick
    <3>7. PICK x \in Callers : Finish(x)
      BY <3>5, <3>6 DEF Next
    <3>8. WaitOver(x) /\ ~Leave(x)
      BY <3>3, <3>4, <3>7 DEF Finish, InnerGranted, InnerRefused, CancelPermit, TraitGranted,
                              TraitRefused, Refund, Settle, Record
    <3>9. StillAdmits(cl[x].ticket) /\ Goto(x, "released")
      BY <3>8 DEF WaitOver
    <3> QED BY <3>4, <3>9
  <2>3. CASE sh.gen = cl[c].ticket.gen
    BY <2>1, <2>3 DEF TicketSound, Trial, SharedStates
  <2> QED BY <2>2, <2>3 DEF StillAdmits
<1>2. Inv /\ [Next]_vars => [Cools]_vars
  <2> SUFFICES ASSUME Inv, Next, sh.state = "Open", sh'.state = "HalfOpen"
               PROVE  now >= opened + Cooldown - MaxLag
    OBVIOUS
  <2>1. sh \in SharedStates /\ now \in Nat /\ opened \in Nat /\ sh.until \in Nat
    BY DEF Inv, TypeOK, SharedStates
  <2>2. opened + Cooldown <= sh.until + MaxLag
    BY DEF Inv, OpenInFull
  <2>3. \E t \in Readings : t >= sh.until
    <3>1. sh'.state # "Open"
      OBVIOUS
    <3>2. \A c \in Callers : ~Finish(c)
      BY <3>1, OpenStaysOpen
    <3>3. ~Reset
      <4>1. ASSUME Reset PROVE FALSE
        <5>1. sh' = Transition(ResetCounters(sh), "Closed")
          BY <4>1 DEF Reset, Become, BecomeBy
        <5>2. sh'.state = "Closed"
          BY <2>1, <5>1, ClosedIs
        <5> QED BY <5>2
      <4> QED BY <4>1
    <3>4. ~Tick
      BY <3>1 DEF Tick
    <3>5. PICK c \in Callers : TryAcquire(c) \/ Acquire(c) \/ TraitAcquire(c)
      BY <3>2, <3>3, <3>4 DEF Next
    <3>6. PICK t \in Readings : Admits(sh, t)
      BY <3>5 DEF TryAcquire, Acquire, TraitAcquire, Admit
    <3> QED BY <3>6 DEF Admits
  <2> QED BY <2>1, <2>2, <2>3, BreakerAssumption DEF Readings
<1> QED BY <1>1, <1>2, InvHolds, PTL DEF Spec, PeriodsRespected, WaitersAreTrials, CooldownServed

=============================================================================
