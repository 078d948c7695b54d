# throttle-net in TLA+

TLA+ models of the rate-limiting and resilience library in this repository,
TLC configurations that check them, and TLAPS proofs. Paths below are relative
to the repository root (`src/throttle.rs`); `PROJECT.json` maps every definition
to the lines it models.

## 1. The system

Every limiter is a shared object that many threads and futures call at once.
There is no background thread: a limiter's state moves only inside a caller's
operation, and a caller that has to wait sleeps on a timer or on an event.

| Component | State | Operations | Talks to |
|---|---|---|---|
| Bulkhead (`bulkhead.rs`, `sync.rs`) | atomic slot count, event | try_acquire, acquire (timeout, owned), call, permit drop | callers by event |
| Wait engine (`wait.rs`, `rt.rs`, `hold.rs`) | pause word per limiter, process-wide resume epoch and event, one release guard per wait | wait_with, pause, resume | every waiting acquire of the rate limiters |
| Throttle (`throttle.rs`) | bucket (external crate), pause | try_acquire, reserve, acquire, refund, drain, charge, pause_for, resume | wait engine |
| Circuit breaker (`circuit.rs`) | mutex: state, generation, failure counts, half-open trials | try_acquire, acquire, permit settle, record_*, refund, reset | wraps a limiter |
| Adaptive limiter (`adaptive.rs`) | atomics: slots in flight, limit, decrease epoch; event | try_acquire, acquire, acquire_cost, permit settle, release, refund | strategy, callers by event |
| Queue (`queue.rs`) | mutex: waiters, key recency, capacity; one event per waiter | acquire with priority, key and deadline | wraps a limiter |
| Composite algorithms (`limiter.rs`), Hybrid, MultiLimiter, Layered | what a wait holds of each constituent | acquire_all, reserve_each, step_all, release_all, drain_to, settle_costs | several limiters, wait engine |
| PerKey and store (`perkey.rs`, `store.rs`, `eviction.rs`) | sharded maps of buckets, debt ledger, recency marks | acquire per key, eviction, idle sweep, refund | buckets |
| SlidingWindowLog (`sliding.rs`) | mutex: log of grants, pause | acquire, refund, pause | wait engine |
| Retry, RetryBudget, Backoff (`retry.rs`, `backoff.rs`) | attempt count, elapsed time, shared budget | run, run_with_budget | a Throttle's bucket |
| Provider headers, Retry-After (`provider.rs`, `retry_after.rs`) | none | parse, apply (drain and pause) | any limiter |
| Resilience helpers (`resilience.rs`) | two attempts in one future | timeout, fallback, hedge | timers |
| Tower layers (`tower.rs`) | units held between poll_ready and call | poll_ready, call, drop | any limiter |
| Presets, observability, errors, decisions | none | constructors, metrics | |

What is hard to test here:

- **Wake-ups.** A slot is freed between a failed attempt and the sleep; two
  slots are freed before the first woken waiter runs; a notified waiter is
  cancelled. (Bulkhead, Adaptive, Queue.)
- **Two words, two reads.** The resume epoch and the pause word; the pause word and
  the bucket; the slots in flight and the limit; the limit and the decrease epoch.
- **A word read and then stored.** The stamp of a key's last use, under a lock that
  readers share.
- **Futures dropped at an await.** Whatever they had taken must go back, once.
- **State that moved on.** A permit settled in a later period of the breaker, a
  wait that outlasts the state it was admitted in, a clock read before a lock.
- **Reports without identity.** The `Limiter` trait hands out no permit.
- **Deadlines** that pass while somebody else holds the lock.
- **All or nothing over several limiters**, each shared with other callers.
- **Two locks for one lookup.** A key is missed under the read lock and inserted
  under the write lock, with evictions in between.
- **Arithmetic at its edges.** Floored time stamps, saturating and negative
  backoffs, leap days.

The hazards are listed with their lines in `PROJECT.json`.

## 2. The modules

Each component has one module, an `MC` module that instantiates it and the
`.cfg` files of its runs. `Semaphore` is the abstract specification of the
bulkhead; `Stack` composes `Tower` and `Backoff`. The proofs about a module are in
the module of its name with `Proof` appended, those about what is made of other parts
(`Composite`, `Tower`, `Stack`, `Backoff`) in `CompositionProof`, those about `Bulkhead`
and `Queue` in `WaitingProof`, those about `WaitEngine` and `KeyStore` in
`KeyedWaitProof`; `Counting` holds the lemmas about counts, sums and sequences that they
share. `Lists` has the filters of sequences that the models use, as recursive functions
of the position.
Operators commented *Mutant* are plausible bugs; no specification uses them.

| Module | Models | Refers to |
|---|---|---|
| Bulkhead | `bulkhead.rs`, `sync.rs` | implements Semaphore |
| WaitEngine | `wait.rs`, `rt.rs`, `hold.rs` | |
| Throttle | `throttle.rs` | waits as WaitEngine's, whole |
| CircuitBreaker | `circuit.rs` | |
| Adaptive | `adaptive.rs` | |
| Queue | `queue.rs` | filters of Lists |
| SlidingWindow | `sliding.rs` | waits as WaitEngine's, whole |
| KeyStore | `perkey.rs`, `store.rs`, `eviction.rs` | |
| Composite | `limiter.rs`, `hybrid.rs`, `multi.rs`, `layered.rs`, `provider.rs` (apply, sync) | constituents as Throttle's buckets |
| Tower | `tower.rs` | |
| Backoff | `backoff.rs`, `timeutil.rs`, `retry_after.rs` (operators only) | |
| Stack | `retry.rs`, `resilience.rs` | extends Tower and Backoff |

### Bulkhead

One step per atomic access: the load and the compare-and-swap of `try_take`,
`listen`, the second try, the await, the load and swap of `saturating_sub`, the
notification. `Owners` are the tasks that own a slot and `in_use` is the word
that is to count them. `compare_exchange_weak` may also fail although the values
match (`Spurious`). The event is modelled from its use: `notify_additional(1)`
notifies one more registered listener, any of them, and a listener dropped after
it was notified passes the notification on. A timeout and a dropped future both
find the task at its only await (`Abandon`).

### WaitEngine

`wait_with` for one limiter, split at each access to the pause word, the epoch
and the event. The limiter's step gives any answer its contract allows: a
grant to mature later, units held across a nap, a retry, never. `armed` is the
release guard and `taken` (history) whether the limiter counts the waiter's
units as used. Resumers move the epoch, swap the pause word and notify in three
steps, and several may overlap. Time passes only when nobody can run: the code
itself takes no time and timers fire when they are due.

### Throttle

One bucket with every public operation. A call looks at the pause and then asks the
bucket, two accesses with no lock around them: `LookToTake`, `LookToReserve` and a
waiter's `Ask` are the look, `TryAcquire`, `Reserve` and `Book` (with `Refused`, its
other outcome) the access to the bucket, and pauses, resumes and other calls come in
between. Both fall in one instant, as a call reads the clock once. What else a poll
of a waiter does is one step here, since WaitEngine covers the interleavings inside
it; a resume may or may not reach a given sleeper. `spent` (history) books the tokens at the instant they are
used and `sunk` those lost to the cap, drained or charged; `ahead` (history) relates
each waiter to those that reserved after it. The bucket is the crate
better_bucket: whole tokens, one per unit of time, up to `Cap`, into debt by
reservations.

### CircuitBreaker

The mutex makes each locked section a step; a caller runs several (the admission,
the wrapped limiter's answer, the outcome) with anything in between. The clock
reading a section uses may be `MaxLag` old. The three trip rules are configurations
(`Configs`) from which `Init` chooses. `strays` (history) holds the kinds of report
that came, in this half-open period, from a call that is not one of its trials.

### Adaptive

As Bulkhead, with a limit that moves: the reservation reads the slots, then the
limit, then swaps; an outcome reads the slots, compares the epoch, swaps the limit
in a loop, raises the epoch, wakes, releases, and wakes again. `told` (history) marks
the tasks that have a permit but have not compared their epoch yet when a decrease
raises it; `lowered` those whose permit is older than a decrease. `AdaptiveStrategy`
is an open trait; the answers allowed are those of Aimd and of Vegas, whose
minimum round-trip time is abstracted to any of its moves.

### Queue

Each locked section and each unlocked look (the listener, the evicted flag, the
clock) is a step. Counters that only order things are kept as sequences: arrival,
and the recency of keys, cut at the recency floor that a forgotten key returns to. Time is the order in which deadlines pass; a clock
reading is the set of deadlines seen to have passed, and may be old when it is
used. The turn-holder is computed from its definition (highest priority, least
recently served key, first to arrive), not through the code's ordered indexes. What
`Bulkhead` has too is named for the queue here (`QueueSpec`, `ListenTurn`...), since one
module proves about both.

### SlidingWindow

The log of grants behind its mutex. Each locked section is a step and works with a
clock reading that may be `MaxLag` old, as the code reads the clock first; `Stamp`
is the code's guard against a grant older than the last one. `used` is the cached
sum. `spent` (history) books what was granted and not given back, by instant, and
`stray` says whether units were given back whose grant had already left the window.

### KeyStore

One shard: its slots with the second-chance hand and the idle sweep's cursor, the
debt ledger with its own cursor, and callers that missed under the read lock and
wait for the write lock. `touch` loads the stamp, compares and stores it under the
shared read lock: a call that has found an older stamp (`Hit`) may store its own
(`Stamp`) after other readers have stored newer ones, up to `MaxHold` later, and while
it is there nobody has the write lock (`NoReader`). The bucket is changed in the step of
the store; nothing orders the two for others. A call that meets nobody is one step
(`Take`). A bucket is the instant at which it is full again, which is what the store itself
compares. `ghost` (history) is the instant at which each key would be full if it had
never been evicted; it starts again where the code says it may (a forgotten debt,
a removed key). Configurations (`Setups`) choose the capacity, the burst, the idle
limit and what a full ledger does.

### Composite

Hybrid, MultiLimiter and Layered reduce a request to a list of constituents and
costs; the algorithms of `limiter.rs` then walk it. Only single accesses to a
constituent are atomic, so a caller has a program counter and one step per access;
callers of the same composite, rivals that use a constituent directly, and
administrative calls (pause, resume, drain, charge, settlement, the provider's
`sync_multi`) come between any two. A waiter whose bottleneck has matured and who loses
the race for the rest keeps it, looks again at once `RaceYields` times and from then on
naps `RaceBackoff` before each look, as the wait engine does after zero waits. `got` is what a caller has been promised, and by
when; `gone` (history) what was used, charged, drained or lost to a cap.

### Tower

A `Throttled` service around one with a permit, around any service. An admission is
taken by `poll_ready`, moved into the response by `call` and given back by a drop.
`Guarded` and `Adaptive` do the same with their permits and are one layer here. The
owner of a service may clone it, call it unready, or drop it at any time (`Use`).

### Backoff

The delay curves with saturation, ceiling and jitter, and the calendar behind
`Retry-After`, as operators. A jitter is the set of delays it may return; a factor is
a fraction, so that negative, shrinking and infinite ones are cases like any other. A
header is what its tokens parse to. `Tomorrow` is the calendar as anybody knows it,
against which the code's day numbers are checked and proved. TLC's integers are 32 bits wide, so an instant is
a pair of days and seconds.

### Stack

`timeout` and `fallback` around `Retry` around `hedge`, with each attempt a oneshot
through Tower's layers. `Retry` passes the guardrails of `drive` in the code's order:
attempts, `max_retry_after`, the backoff (which advances even when the server's
wait replaces it), `max_elapsed`, the budget. Several tasks share a budget, whose
ceiling is at least one retry. There is
no clock: a timer may fire at any time after it is set, and an attempt takes one of a
few durations. What a leg has to say is seen when its future is polled, the first
attempt before the second.

## 3. The runs

| Run | What it asks | Bounds | Expected |
|---|---|---|---|
| bulkhead | slots exact, no wake-up lost, no sleep beside a free slot, implements Semaphore | 4 tasks, 2 slots | pass |
| wait_engine | units follow the outcome, deadlines, maturity, wake-up by resume, no spinning | 1 waiter, 2 resumers, waits 0..2, clock to 3 | pass |
| throttle | tokens conserved, a pause lets through only calls that had looked before it, grants bounded, waits honored | 2 waiters, capacity 2, costs 1 and 2, clock to 3 | pass |
| circuit | trials exact and no phantoms, counts recent, periods respected, slots come back | 2 callers, three kinds of trip, 4 changes of state, clock to 3 | pass |
| adaptive | slots exact, ceiling, no wake-up lost, only racers lower the limit again | 3 tasks, limit 1..3, 1 decrease before calls stop | pass |
| queue | no ghosts, bounded, the evicted told, turn-holder woken | 3 tasks, 2 keys, capacity 2, two overflow policies, idle keys forgotten beyond 1 or kept | pass |
| queue_live | everybody is served, also beside keys that are forgotten and return | 3 tasks, 2 keys, idle ones forgotten beyond 1, one priority, no timers | pass |
| queue_turn | a change of turn wakes the new turn-holder (comment on RECHECK) | 3 tasks, 1 key | violation |
| keystore | one state per key and bounded, no free tokens, debtors return, the idle are idle | 3 keys, 1 caller between its locks or inside the read lock for up to 2, 6 setups, shard of 1 or 2, clock to 4 | pass |
| sliding | the sum and the waits exact, no window above the limit (but after a stray refund) | 1 waiter, limit 2, window 3, readings 1 old, clock to 4 | pass |
| composite | units conserved, the admitted were charged everywhere, holds bounded, every cost charged once | 2 callers, 5 composites of 2 or 3 constituents, every table of up to 2 dimensions and 2 aliases | pass |
| stack | nothing leaks, budget bound, waits kept, honest failures, every call ends | 2 tasks of 2 handles, 1 permit, 3 units at 2 a call, up to 4 attempts | pass |

Some properties join several statements about one subject: `GrantsBounded` is
`RateBound` and `WindowBoundWhileCalm`, `WaitsHonored` is `DeadlineKept` and
`ArrivalOrderWhileCalm`, `PeriodsRespected` is `WaitersAreTrials` and
`CooldownServed`, `MapSound` is `OneStatePerKey` and `MemoryBounded`, `LogExact` is
`UsedExact` and `WaitExact`, `HoldsBounded` is `HoldsNoMatured` and
`SwitchesBounded`. A module's type invariant is a conjunct of one of its properties
or of the inductive invariant of its proofs.

Why the bounds are enough for what is asked:

- Lost wake-ups need two slots, two releasers, a sleeper and a newcomer: four
  tasks on two slots. In Adaptive a raised limit stands in for the second releaser.
- Waiters of the wait engine meet only in the event, which notifies all of them, so
  one waiter meets everything; two resumers are needed for overlapping resumes. The
  waits 0, 1 and 2 are a lost race, a nap too short for a listener, and a longer one.
- A bucket of two is put into debt by two waiters. The clock runs past every due
  time that matters and stops at `MaxNow`; `MaxDebt` bounds what is charged.
- Four changes of state take a breaker through two half-open periods, so that
  tickets of the first meet the second. `MaxFailed` only caps a history counter.
- Three tasks fill a queue of two and overflow it; the third one is the
  victim, the newcomer or the next in turn. `prune_at` is 1 where the code has twice
  the capacity and 16, so that two keys are enough to have one forgotten.
- A shard of one slot and one debt is full after two keys, and the third meets both
  limits; a shard of two lets the hand stop between keys. One caller in the gap
  between the locks, or between the look at a stamp and its store, is enough, because
  everything else runs whole around it. `MaxHold` is 2, a stamp's whole unit, so that a
  late store takes the stamp back; `MaxLag` is 0, since a call caught so has an old
  reading already.
  `ClockScan`, `TtlSweep` and `LedgerScan` are 1 so that a scan ends before it has
  seen everything, as it does in the code with many keys.
- A window of three with readings one unit old lets two grants share a window with a
  third that is stamped late; one waiter sleeps while any number of attempts,
  refunds and charges happen. `MaxUsed` bounds how far charges take the log over
  its limit.
- Two constituents overtake each other as bottleneck, and `MaxSwitches` is 1 (4 in
  the code), so that the fallback that reserves everywhere is reached. `RaceYields` is 1
  (4 in the code), so that the second lost race naps, and `RaceBackoff` 1. `HoldSlack` is 1 against refill times of 1 and 2.
- One permit and three units at two a call make two hedged attempts, or two tasks,
  compete for both layers. `U64Max` and `MaxExponent` are scaled so that delays
  saturate; the dates are the ends of months and years that are leap years, are not,
  and are centuries of both kinds.

Symmetry over tasks or keys is used only in runs without liveness.
`CHECK_DEADLOCK FALSE` is set where the bounds (the clock, the generations, the
epochs, the calls) stop a model that the program would go on from.

Fairness: a started operation is run on (weak fairness of `Run`), because an
executor polls a woken future and a scheduler runs a runnable thread; a started
resume finishes. For the breaker, admitted calls end: every wait ends or is dropped,
every permit is settled or dropped. This is what the API asks of callers, and the
property fails without it for a caller that keeps its permit. For `queue_live` a
limiter asked again and again by the turn-holder grants some time (strong fairness
of `Granted`): a limiter that never grants serves nobody. For `stack`, woken futures
are polled and timers that wake them fire (`Turn`, `TimeOut`, `LegStep`), time refills
the limiter (`Refill`) and the downstream answers (`LegAnswered`); calls are finitely
many, so that a layer that is contended for is free in the end and weak fairness is
enough. Nothing obliges a hedge's timer to fire before its attempt has ended.

Each property has a mutant in `PROJECT.json`: a plausible bug of the mapped code
under which TLC finds the property violated.

## 4. Where the code and its documentation part

`queue_turn` is checked as a violation: a waiter that looks after the turn-holder's
deadline removes it without waking the next one, and the turn-holder's own guard then
finds nothing to remove. The remaining waiters sleep their 60-second backstop.

Other statements of the documentation turned out too strong. They are defined in the
modules beside the weaker ones that hold; each has a configuration under which TLC
shows the counterexample.

| Statement | Defined as | Configuration | What holds |
|---|---|---|---|
| a waiter that sees the pause gone never sleeps through the resume (`rt.rs:62`) | `WaitEngine!NeverSleepsThroughResume` | `MCWaitEngineResume.cfg` | `EarlyReaderIsWoken` |
| grants over any window never exceed capacity plus accrual (`docs/API.md:51`) | `Throttle!WindowBound` | `MCThrottleWindow.cfg` | `GrantsBounded` |
| a pause grants nothing for its duration (`docs/API.md:172`) | `Throttle!NothingGrantedWhilePaused` | `MCThrottlePause.cfg` | `PauseStopsCalls` |
| a call that never held a trial slot cannot free another's (`circuit.rs:524`) | `CircuitBreaker!NeverMoreThanTrials` | `MCCircuitBreakerTrials.cfg` | `TrialsAccounted` |
| the failures of one burst do not compound the decrease (`adaptive.rs:21`) | `Adaptive!OneDecreasePerEvent` | `MCAdaptiveCompound.cfg` | `OnlyRacersLowerAgain` |
| a key is reclaimed only once it has truly been idle for the whole TTL (`store.rs:576`) | `KeyStore!IdleForWholeTtl` | `MCKeyStoreIdle.cfg` | `IdleIsIdle` |
| a refund never makes the log more permissive (`sliding.rs:390`) | `SlidingWindow!WindowBound` | `MCSlidingWindowRefund.cfg` | `WindowBoundUnlessStray` |
| a composite never holds units for longer than HOLD_SLACK (`limiter.rs:445`) | `Composite!HoldsBriefly` | `MCCompositeHold.cfg` | `HoldsBounded` |

1. `rt::resume` moves the epoch before it clears the pause word. A waiter that reads
   the epoch in between sees the new epoch and the old pause; if it listens after the
   notification, it sleeps the lifted pause out.
2. A dropped or timed-out wait refunds its reservation, but waiters that reserved
   after it keep their later due times. A newcomer takes the refunded tokens, and
   the grants of a window exceed capacity plus accrual; it is also due before waiters
   that came first. Until something is given back or paused both statements hold,
   and the bound since the beginning (`RateBound`) holds always.
3. `Throttle` reads the pause and then takes from the bucket. A pause that is set in
   between does not stop the call, and `try_acquire` and `reserve` never look again;
   each such call takes its own cost, once, and no call that looks later gets through.
   A waiting acquire looks again before it returns and sleeps the pause out.
4. `record_success` of a call admitted before the breaker opened frees the slot of a
   trait trial that still runs, so more trials run than configured. The slots the
   breaker counts are never phantoms, so it cannot wedge.
5. The adaptive limiter compares the decrease epoch before the limit moves and raises
   it afterwards. Failures of one burst may all pass the comparison before the first of
   them raises the epoch, and each lowers the limit; those that compare after the raise
   do not.
6. `Entry::touch` loads the stamp, compares it and stores its own under the shared read
   lock. A reader that is held up between the two stores an older stamp over a newer
   one, and the sweep takes the key before it has been idle for the TTL, by as much as
   the reader was held up.
7. A refund of a grant that has left the window already removes somebody else's units
   from it. Refunds of grants still in the window are covered by the argument the
   comment gives.
8. `reserve_all` compares the constituents' waits first and reserves on them one by
   one afterwards. Rivals that reserve in between make one of them due much later than
   the others, whose units are then held for longer than the slack.

Seen while modelling, and not stated as properties:

- `acquire_costs` is documented to reserve on every dimension at once, and to refund
  the others and sleep for the longest wait if one of them must wait
  (`multi.rs:432-434`). The code behind it, `step_all`, reserves on the dimension with
  the longest wait alone and takes the others when that has matured; the model follows
  the code.
- A composite waiter that keeps losing the race for the rest holds its matured
  bottleneck through any number of naps of `RACE_BACKOFF`; no single nap is longer.
- `Backoff`'s doc says that with a negative factor every delay after the first jumps
  to the ceiling (`backoff.rs:152`); the even powers are positive, so only every
  second one does.
- A `hedge` whose first attempt failed in `poll_ready` keeps that attempt's service,
  and the admission it holds, until the whole hedge returns. With one permit and a
  broken inner service, the second attempt waits for it for ever unless there is a
  `timeout` around it: this is why the broken configuration of `stack` has one.
- The attempt that loses a hedge is dropped, and its breaker permit counts it as a
  failure.
- `call` on a service whose inner layer is not ready spends the outer layer's units.

## 5. What is proved

Every theorem is about the specification of its module for all values of the
constants that meet the module's `ASSUME`: any finite set of tasks, callers, waiters or
handles, any capacity, limit, cost, timeout, pause or configuration. What bounds a run
(`MaxNow`, `MaxGen`, `MaxEpoch`, `MaxCalls`...) is one of these constants and may have any
value. The assumptions say that numbers are not negative, that a cost fits the capacity
(a larger one is refused before it gets here), that ranges are not empty, that a
constituent of a composite refills (`Valid`), and that "never" (`Forever`) is later than
any instant of the run.

| Module | Theorem | States |
|---|---|---|
| WaitingProof | `TypeCorrect`, `SlotsAccountedAlways`, `WithinLimitAlways`, `NoLostWakeupAlways` | the counter counts the owners, within the limit; no release is lost |
| | `Refinement` | the bulkhead implements `Semaphore` |
| | `QueueBounded`, `EvictionsAreTold`, `TurnIsPassedOn` | the queue is bounded and has no ghosts; the evicted are told; without deadlines every change of turn wakes the new turn-holder |
| KeyedWaitProof | `UnitsFollow`, `DeadlinesKept`, `ReservationsMature`, `EarlyReadersAreWoken` | the four safety properties of WaitEngine's runs |
| | `KeyedMapIsSound`, `EvictionGivesNothing` | a key has one state, memory is bounded; no eviction, sweep, restoration or refund gives a key tokens |
| | `DebtorsAreAdmitted`, `SweptKeysWereIdle` | action properties: a key in debt is not refused; the sweep takes only keys idle for the TTL, less the age of a reading held inside the read lock |
| ThrottleProof | `TokensAreConserved`, `GrantsAreBounded`, `WaitsAreHonored` | the three invariants of the run, with `RateBound` and `WindowBoundWhileCalm` |
| | `PausesStopCalls` | action property: during a pause only a call that had looked before it is granted tokens, once and its own cost, and no further call gets that far |
| CircuitBreakerProof | `TrialSlotsAccounted`, `OnlyRecentFailuresCount` | the slots of half-open periods are neither leaked nor phantoms; counts do not survive a change of state |
| | `PeriodsAreRespected` | action property: waiters let go while half-open are trials, cooldowns are served |
| SlidingWindowProof | `LogStaysExact` | the cached sum is the sum, and the wait told to a refused caller is the first moment at which its cost fits |
| | `WindowsAreBounded` | no window is granted more than the limit, until units come back whose grant has left it |
| AdaptiveProof | `SlotsAreAccounted`, `LimitWithinCeiling`, `WakeupsAreNotLost` | as for the bulkhead, under a limit that moves |
| | `RacersAloneLowerAgain` | action property: a failure that had not compared its epoch yet when a decrease raised it does not lower the limit |
| CompositionProof | `UnitsAreConserved`, `AdmittedByAll` | the units of every constituent of a composite add up; an admitted call was granted by all, and has waited for the last |
| | `WaitersHoldLittle` | a sleeping waiter has nothing that matures before it wakes, but for naps of at most `RACE_BACKOFF`, and changes its bottleneck at most MAX_SWITCHES times |
| | `CostsAreCharged` | a table that `try_build` accepts charges every entry of a request to one dimension |
| | `NothingEverLeaks` | what the layers of Tower take is used or given back |
| | `RetriesWithinBudget`, `RetriesWaitAsAsked` | the shared budget bounds retries; a retry waits as long as it was asked to |
| | `FailuresAreHonest` | action property: a hedge fails only when all it started has failed |
| | `DelayWithinCeiling` | no delay of any curve, factor and jitter passes the ceiling |
| | `Epoch`, `DaysAreCounted`, `TomorrowIsADay` | day numbers follow the calendar, for every date from year 0 on |

`RetriesWaitAsAsked` has one more hypothesis, `HintsAgree`: a header of the configuration
parses to what the server meant by it. The run satisfies it on the dates it uses. For
a header that names the next day it is `TomorrowIsADay`; for dates further away it
would follow from `DaysAreCounted` by induction over the days, which is out of reach.

How the arguments go, and why the invariants are as they are:

- **Bulkhead.** `WithinLimit` is not inductive alone: a compare-and-swap takes the
  counter up by one, and stays within the limit only because the value it expects was
  seen below the limit (`SeenBelowLimit`) and because the counter counts the owners
  (`SlotsAccounted`), which in turn needs the counter to be positive when an owner
  releases, or the saturation would hide a lost slot. `NoLostWakeup` counts four classes
  of tasks at once: lemmas say by how much a class grows when one task moves, and what a
  notification does to the listeners.
- **Queue.** `TurnHolderIsWoken` is not inductive. `wake_winner` notifies a listener and
  nobody else, so a task past its look at the evicted flag must be known to listen, and a
  task evicted since then to be notified (`Fine`). The winner must be known to be a waiter:
  it is a minimum over the places of keys in the order of service, so every waiter's key
  has exactly one place (`Sound`) through serving, forgetting and pruning. Where nobody has
  a deadline no clock reading has seen one pass, and pruning does nothing (`Timing`); with
  deadlines the property is false, which is the finding of section 4. What a filter
  or a pruning returns is proved by least counterexample: the function exists up to every
  position, and a fact about its values has no first position where it fails.
- **WaitEngine.** `Inv` is about one waiter at a time: the release guard is armed exactly
  while units are taken (`GuardSound`); a nap is kept within the deadline from the moment
  it is chosen until its timer is set, and a reservation is slept out before the pause
  that follows it (`Timely`); a waiter that saw a pause finds it still there, or lifted by a
  resume whose epoch it will notice (`Told`) or whose notification is on its way (`Woken`).
- **KeyStore.** `NoFreeTokens` speaks of what a key sees now and is not inductive: an
  insertion may use a reading older than the shard has seen, and room is made by moving
  other keys' states about. `StoreInv` says instead, of the map alone, that every key has
  at most one place among the slots and the debts, that the state in that place is no
  fuller than the history `ghost`, and that a key without a place had recovered by the
  newest reading used under the write lock (`Cover`). Each way a state moves is a lemma
  about `Cover`: an entry dropped because it had recovered, moved to the ledger, restored
  from it (rounded up, `RestoredFull`), edited by a take or a refund. What one look of a
  scan or sweep does is proved once, and carried over any number of looks by least
  counterexample (`Repeated`). That a debtor is admitted needs one more fact about making
  room: a ledger with a free place never refuses an eviction (`MakeRoomMade`). That the
  sweep is patient needs that no stamp is further behind its key's last use than a
  unit of the stamps and the age of a reading inside the read lock (`Near`, `Staleness`),
  which a late store keeps because a reader leaves the lock within `MaxHold`; the rest is
  arithmetic on stamps rounded down (`LongIdle`).
- **Throttle.** `Conserved` is an equation between the balance, sums over instants and
  sums over waiters. `RateBound` needs `Covered`: what the balance lacks until an instant is
  due after it, so that nothing is used before it has accrued. The windows need, as long
  as nothing was given back or paused, that nothing is due after the debt is paid
  (`Latest`), that no window of past and future uses holds too much (`Windows`), and that
  what is booked from any instant on leaves room for the balance (`Room`): a reservation
  looks at the balance alone, and `Room` is what the balance says of every window. `Latest`
  also gives the order of arrival. What a pause lets
  through is seen step by step, and needs the types alone.
- **CircuitBreaker.** `Slots` splits the trials in those with a permit and those of trait
  callers, who report without identity: a slot in use belongs to a live permit trial or is
  counted in `traits`, and there are no more of these than live trait trials. The equation
  holds until a stray report; the inequalities always, and they exclude phantoms.
  `TicketSound` says which tickets of the current period there can be, `OpenInFull` from
  which reading a cooldown is counted.
- **SlidingWindow.** A grant is refused because of what the log still holds, so the log
  must hold enough. `Remembered` says, of every instant from now on, that the units granted
  in the `W - MaxLag` instants up to it are no more than the log's units that will not
  have left by then. It is about the future as well because a refund takes from the oldest
  grants, whichever grant the units came from: either those leave late, and the log loses
  as much as was given back, or they leave early, and then the units granted later are
  still there (`DrainLog`). A stamp is never before the reading, which is where `MaxLag` is
  lost from the window. `Booked` keeps a waiter's units among those granted at its instant,
  so that what it gives back was there. Sums are cardinalities, so that a log cut at the
  front is a shifted sum (`TotalShift`) and no induction is needed; the wait is the first
  prefix of the log that frees enough, by the well-ordering of the numbers (`LeastNumber`).
- **Adaptive.** `NoLostWakeup` is not inductive as it was for the bulkhead: a waiter goes
  to sleep because of a value of `in_flight` it read before it read the limit.
  `ReadsCovered` says of such a reader that the slots given back since are matched by
  notified waiters, by wakes still to be sent, and by other lookers that will look again
  or have read less. That only racers lower the limit again follows from the epoch a
  marked task (`told`) carries: it stays below the current one until the comparison, which
  therefore fails, so that a marked task that adjusts the limit does so after a success.
- **Composite.** A caller is split at every access to a constituent, so what it has must be
  tied to where it is: it has exactly what it holds and, in a loop that takes or undoes,
  what the loop has walked past (`HasWalked`), and the loop goes over everything that is not
  held, each constituent once (`Walks`). With that and what each program counter promises
  (`Place`) a caller is `Fine`, and `PassedAll` is read off: a grant covers all items, and
  is left only when the longest of the waits is over. `HoldsNoMatured` is read off from
  what is held being due no sooner than the timer, or the timer being a nap (`Light`). The bound on the switches
  (`Patient`) needs that nothing pauses and all constituents reserve (`Calm`): a waiter
  without a deadline that has reached MAX_SWITCHES reserves on them all, and then no
  constituent refuses. `UnitsConserved` is the invariant `Balanced`: of a caller's step it
  is enough to know that it looks, takes the units of one item, gives those of one item
  back, or ends (`Stepped`); of an administrative step, that it moves units between the
  balance, what is about to be refunded and what is gone (`Worked`). A settlement is the one
  step that touches many items; its refunds and payments add up item by item (`TotalAdd`),
  and dropping the jobs that owe nothing changes no sum. `EveryCostCharged` is proved by
  least counterexample over the prefixes of a request: the next entry goes to one dimension,
  because a name is a dimension's or one alias's and never both, and no sum saturates below
  the total.
- **Stack.** `NothingLeaks` is inductive beside the types: only a drop touches more than one
  handle, and it gives back what they held. The budget is the reserve plus the deposits less
  the retries, and no withdrawal is granted beyond it (`BudgetInv`). The calendar is proved
  by cases on the month: the code's shifted year starts in March, so the one irregular
  month is its last.

Only model-checked:

- every liveness property (`NoSleepBesideFreeSlot`, `NoSpin`, `TrialSlotComesBack`,
  `EverybodyLeaves`, `EveryRunEnds`): the prover does
  neither fairness nor ENABLED.

Every safety property of a passing run, invariant or action property, is a theorem.

## 6. What is not modelled

- The inside of better_bucket, clock_lib, event_listener and the runtimes: modelled
  by what the code uses of them.
- Memory orderings weaker than sequential consistency: the models interleave whole
  accesses. The counters are single words changed by read-modify-write operations; the
  stamp of a key's last use is a load and a later store, and is modelled as these two.
- In `Composite`, the two accesses of an operation on one constituent (its pause, its
  bucket), which `Throttle` keeps apart.
- The ordered indexes of `queue.rs` (the winner is what they are to compute), and
  Vegas's round-trip arithmetic.
- The text of headers: `provider.rs` and `retry_after.rs` are modelled from what the
  tokens parse to, and from there on.
- The choice of a shard, and with it two keys of one hash; shards share nothing else.
- Composites without constituents.
- In `Stack` the limiters under the layers: the units are a pool that refills and the
  permits a pool of fixed size (CircuitBreaker and Adaptive say how those move).
- The upper clamp of a budget's ceiling at `u32::MAX` and the one milli-retry an hour
  that a budget without a floor accrues.
- Metrics, labels, formatting, presets, error types.

## 7. What is left

- A module for the ordered indexes of `queue.rs`, against the winner's definition.
